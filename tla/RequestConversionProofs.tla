----------------------- MODULE RequestConversionProofs -----------------------
(***************************************************************************)
(* Proofs about the conversion of requests, for any bounds on a body and   *)
(* any set of tool ids.                                                    *)
(*                                                                         *)
(* FlattenSeq is defined by a recursive function that the definition       *)
(* chooses; FlattenIsLast says what it is, by induction over Nat, and      *)
(* SequenceInduction then gives how it, and the selections made with it,   *)
(* behave on joined lists.  So SentInOrder is a relation of messages and   *)
(* a body, Sends, that adds up: what each action appends to both satisfies *)
(* it by itself (SendsMore).                                               *)
(*                                                                         *)
(* That results answer calls needs more than it says: Linked adds that ids *)
(* are minted once and that the dictionary has the call of the latest use  *)
(* of each tool id (Known).  That the override comes once needs Shaped:    *)
(* it is never anywhere but first, so that looking at the first text finds *)
(* it.                                                                     *)
(***************************************************************************)
EXTENDS RequestConversion, SequenceTheorems, WellFoundedInduction, TLAPS

-----------------------------------------------------------------------------
(* Induction, and FlattenSeq as repeated joining                           *)

\* A set of numbers that holds 0, and k + 1 when it holds k, holds every one.
LEMMA Induction ==
  ASSUME NEW S, 0 \in S, \A k \in Nat : k \in S => k + 1 \in S
  PROVE  Nat \subseteq S
  <1> DEFINE T == Nat \ S
  <1>1. ASSUME T # {} PROVE FALSE
    <2>1. PICK x \in T : \A y \in T : ~ (<<y, x>> \in OpToRel(<, Nat))
      BY <1>1, NatLessThanWellFounded, WFMin
    <2>2. x # 0 /\ x \in Nat
      OBVIOUS
    <2>3. x - 1 \in Nat /\ x - 1 < x
      BY <2>2
    <2>4. x - 1 \notin T
      BY <2>1, <2>2, <2>3 DEF OpToRel
    <2>5. QED BY <2>2, <2>3, <2>4
  <1>2. QED BY <1>1

\* A set of sequences that holds the empty one, and every one that is longer by
\* an element than one it holds, holds all.
LEMMA SequenceInduction ==
  ASSUME NEW A, NEW Q, <<>> \in Q,
         \A s \in Seq(A) : \A e \in A : s \in Q => Append(s, e) \in Q
  PROVE  Seq(A) \subseteq Q
  <1> DEFINE N == {n \in Nat : \A s \in Seq(A) : Len(s) = n => s \in Q}
  <1>1. 0 \in N
    <2>1. ASSUME NEW s \in Seq(A), Len(s) = 0 PROVE s = <<>>
      BY <2>1, EmptySeq
    <2>2. QED BY <2>1
  <1>2. ASSUME NEW k \in Nat, k \in N PROVE k + 1 \in N
    <2>1. SUFFICES ASSUME NEW s \in Seq(A), Len(s) = k + 1 PROVE s \in Q
      OBVIOUS
    <2>2. s # <<>>
      BY <2>1, EmptySeq
    <2>3. PICK t \in Seq(A), e \in A : s = Append(t, e)
      BY <2>2, SequenceEmptyOrAppend
    <2>4. Len(t) = k
      <3>1. Len(s) = Len(t) + 1 /\ Len(t) \in Nat
        BY <2>3, AppendProperties, LenProperties
      <3>2. QED BY <3>1, <2>1
    <2>5. t \in Q
      BY <2>4, <1>2
    <2>6. QED BY <2>3, <2>5
  <1>3. Nat \subseteq N
    <2> HIDE DEF N
    <2>1. QED BY <1>1, <1>2, Induction
  <1>4. ASSUME NEW s \in Seq(A) PROVE s \in Q
    <2>1. Len(s) \in Nat
      BY LenProperties
    <2>2. QED BY <2>1, <1>3
  <1>5. QED BY <1>4

\* The sequence g of what FlattenSeq has joined, part by part.
Joins(g, ss) == g[1] = ss[1] /\ \A k \in 2 .. Len(ss) : g[k] = g[k - 1] \o ss[k]
Maps(A, B) == [A -> B]

\* There is a function that joins the sequences one after the other.
LEMMA JoinsExists ==
  ASSUME NEW S, NEW ss \in Seq(Seq(S)), ss # <<>>
  PROVE  \E g \in Maps(1 .. Len(ss), Seq(S)) : Joins(g, ss)
  <1> DEFINE m == Len(ss)
             Is(g, l) == g[1] = ss[1] /\ \A k \in 2 .. l : g[k] = g[k - 1] \o ss[k]
             N == {l \in Nat : l + 1 <= m => \E g \in [1 .. l + 1 -> Seq(S)] : Is(g, l + 1)}
  <1>1. m \in Nat /\ m >= 1 /\ \A k \in 1 .. m : ss[k] \in Seq(S)
    BY EmptySeq, LenProperties, ElementOfSeq
  <1> HIDE DEF m
  <1>2. 0 \in N
    <2> DEFINE h == [k \in 1 .. 1 |-> ss[1]]
    <2>1. h \in [1 .. 1 -> Seq(S)] /\ Is(h, 1)
      BY <1>1
    <2>2. 0 + 1 = 1
      OBVIOUS
    <2> HIDE DEF h, Is
    <2>3. QED BY <2>1, <2>2
  <1>3. ASSUME NEW l \in Nat, l \in N PROVE l + 1 \in N
    <2>1. SUFFICES ASSUME l + 2 <= m
                   PROVE  \E g \in [1 .. l + 2 -> Seq(S)] : Is(g, l + 2)
      <3> HIDE DEF Is
      <3>1. (l + 1) + 1 = l + 2
        OBVIOUS
      <3>2. QED BY <3>1
    <2>2. PICK g \in [1 .. l + 1 -> Seq(S)] : Is(g, l + 1)
      <3> HIDE DEF Is
      <3>1. QED BY <1>1, <1>3, <2>1
    <2> DEFINE h == [k \in 1 .. l + 2 |-> IF k = l + 2 THEN g[l + 1] \o ss[l + 2] ELSE g[k]]
    <2>3. g[l + 1] \o ss[l + 2] \in Seq(S)
      <3>1. l + 1 \in 1 .. l + 1 /\ l + 2 \in 1 .. m
        BY <1>1, <2>1
      <3>2. g[l + 1] \in Seq(S) /\ ss[l + 2] \in Seq(S)
        BY <3>1, <1>1
      <3>3. QED BY <3>2, ConcatProperties
    <2>4. h \in [1 .. l + 2 -> Seq(S)]
      BY <2>3
    <2>5. h[1] = ss[1]
      BY <2>2
    <2>6. ASSUME NEW k \in 2 .. l + 2 PROVE h[k] = h[k - 1] \o ss[k]
      <3>1. CASE k = l + 2
        <4>1. k \in 1 .. l + 2 /\ k - 1 \in 1 .. l + 2 /\ k - 1 # l + 2 /\ k - 1 = l + 1
          BY <3>1
        <4>2. h[k] = g[l + 1] \o ss[l + 2] /\ h[k - 1] = g[l + 1]
          BY <3>1, <4>1
        <4>3. QED BY <3>1, <4>2
      <3>2. CASE k \in 2 .. l + 1
        <4>1. h[k] = g[k] /\ h[k - 1] = g[k - 1]
          BY <3>2
        <4>2. QED BY <2>2, <3>2, <4>1
      <3>3. k = l + 2 \/ k \in 2 .. l + 1
        OBVIOUS
      <3>4. QED BY <3>1, <3>2, <3>3
    <2>7. QED BY <2>4, <2>5, <2>6
  <1>4. Nat \subseteq N
    <2> HIDE DEF N
    <2>1. QED BY <1>2, <1>3, Induction
  <1>5. m - 1 \in N /\ (m - 1) + 1 = m
    <2>1. m - 1 \in Nat /\ (m - 1) + 1 = m
      BY <1>1
    <2> HIDE DEF N
    <2>2. QED BY <2>1, <1>4
  <1>6. PICK g \in [1 .. m -> Seq(S)] : Is(g, m)
    <2> HIDE DEF Is
    <2>1. QED BY <1>1, <1>5
  <1>7. g \in Maps(1 .. Len(ss), Seq(S)) /\ Joins(g, ss)
    BY <1>6 DEF m, Maps, Joins
  <1>8. QED BY <1>7

\* There is one such sequence, and FlattenSeq is its last member.
LEMMA FlattenIsLast ==
  ASSUME NEW S, NEW ss \in Seq(Seq(S)), ss # <<>>,
         NEW g \in Maps(1 .. Len(ss), Seq(S)), Joins(g, ss)
  PROVE  FlattenSeq(ss) = g[Len(ss)]
  <1> DEFINE m == Len(ss)
             Is(f) == f = [i \in 1 .. m |-> IF i = 1 THEN ss[i] ELSE f[i - 1] \o ss[i]]
             c == CHOOSE f : Is(f)
  <1>1. m \in Nat /\ m >= 1
    BY EmptySeq, LenProperties
  <1>2. g \in [1 .. m -> Seq(S)] /\ g[1] = ss[1] /\ \A k \in 2 .. m : g[k] = g[k - 1] \o ss[k]
    BY DEF Maps, Joins
  <1>3. Len(ss) # 0 => FlattenSeq(ss) = c[m]
    BY DEF FlattenSeq
  <1> HIDE DEF m
  <1>4. Is(g)
    <2>1. ASSUME NEW i \in 1 .. m PROVE g[i] = IF i = 1 THEN ss[i] ELSE g[i - 1] \o ss[i]
      <3>1. i = 1 \/ i \in 2 .. m
        OBVIOUS
      <3>2. QED BY <3>1, <1>2
    <2>2. QED BY <1>2, <2>1
  <1>5. Is(c)
    <2> HIDE DEF Is
    <2>1. QED BY <1>4
  <1>6. \A i \in 1 .. m : c[i] = IF i = 1 THEN ss[i] ELSE c[i - 1] \o ss[i]
    <2> HIDE DEF c
    <2>1. QED BY <1>5
  <1> HIDE DEF c
  <1> DEFINE N == {l \in Nat : l + 1 <= m => c[l + 1] = g[l + 1]}
  <1>7. 0 \in N
    <2>1. 1 \in 1 .. m /\ 0 + 1 = 1
      BY <1>1
    <2>2. c[1] = g[1]
      BY <2>1, <1>2, <1>6
    <2>3. QED BY <2>1, <2>2
  <1>8. ASSUME NEW l \in Nat, l \in N PROVE l + 1 \in N
    <2>1. SUFFICES ASSUME l + 2 <= m PROVE c[l + 2] = g[l + 2]
      <3>1. (l + 1) + 1 = l + 2
        OBVIOUS
      <3>2. QED BY <3>1
    <2>2. c[l + 1] = g[l + 1]
      BY <1>1, <1>8, <2>1
    <2>3. l + 2 \in 2 .. m /\ l + 2 \in 1 .. m /\ l + 2 # 1 /\ (l + 2) - 1 = l + 1
      BY <1>1, <2>1
    <2>4. c[l + 2] = c[(l + 2) - 1] \o ss[l + 2]
      BY <2>3, <1>6
    <2>5. g[l + 2] = g[(l + 2) - 1] \o ss[l + 2]
      BY <2>3, <1>2
    <2>6. QED BY <2>2, <2>3, <2>4, <2>5
  <1>9. Nat \subseteq N
    <2> HIDE DEF N
    <2>1. QED BY <1>7, <1>8, Induction
  <1>10. m - 1 \in N /\ (m - 1) + 1 = m
    <2>1. m - 1 \in Nat /\ (m - 1) + 1 = m
      BY <1>1
    <2> HIDE DEF N
    <2>2. QED BY <2>1, <1>9
  <1>11. QED BY <1>1, <1>3, <1>10 DEF m

\* Of no parts, and of one.
LEMMA FlattenNone == FlattenSeq(<<>>) = <<>>
  <1>1. Len(<<>>) = 0
    OBVIOUS
  <1>2. QED BY <1>1 DEF FlattenSeq

\* A single sequence is joined to itself.
LEMMA FlattenOne ==
  ASSUME NEW S, NEW s \in Seq(S)
  PROVE  FlattenSeq(<<s>>) = s
  <1> DEFINE ss == <<s>>
  <1>1. ss \in Seq(Seq(S)) /\ ss # <<>> /\ Len(ss) = 1 /\ ss[1] = s
    OBVIOUS
  <1> HIDE DEF ss
  <1>2. PICK g \in Maps(1 .. Len(ss), Seq(S)) : Joins(g, ss)
    BY <1>1, JoinsExists
  <1>3. FlattenSeq(ss) = g[Len(ss)]
    BY <1>1, <1>2, FlattenIsLast
  <1>4. FlattenSeq(ss) = s
    BY <1>1, <1>2, <1>3 DEF Joins
  <1>5. QED BY <1>4 DEF ss

\* One more part is joined at the end.
LEMMA FlattenAppend ==
  ASSUME NEW S, NEW ss \in Seq(Seq(S)), NEW s \in Seq(S)
  PROVE  FlattenSeq(Append(ss, s)) = FlattenSeq(ss) \o s
  <1> DEFINE m == Len(ss)
             tt == Append(ss, s)
  <1>1. CASE ss = <<>>
    <2>1. tt = <<s>>
      BY <1>1
    <2>2. FlattenSeq(tt) = s
      BY <2>1, FlattenOne
    <2>3. FlattenSeq(ss) \o s = s
      BY <1>1, FlattenNone, ConcatEmptySeq
    <2>4. QED BY <2>2, <2>3
  <1>2. CASE ss # <<>>
    <2>1. /\ tt \in Seq(Seq(S)) /\ tt # <<>> /\ Len(tt) = m + 1 /\ m \in Nat /\ m >= 1
          /\ \A k \in 1 .. m : tt[k] = ss[k]
          /\ tt[m + 1] = s
      BY <1>2, AppendProperties, LenProperties, EmptySeq
    <2> HIDE DEF tt
    <2>2. PICK g \in Maps(1 .. Len(tt), Seq(S)) : Joins(g, tt)
      BY <2>1, JoinsExists
    <2>3. FlattenSeq(tt) = g[m + 1]
      <3>1. FlattenSeq(tt) = g[Len(tt)]
        BY <2>1, <2>2, FlattenIsLast
      <3>2. QED BY <2>1, <3>1
    <2>4. /\ g \in [1 .. m + 1 -> Seq(S)] /\ g[1] = tt[1]
          /\ \A k \in 2 .. m + 1 : g[k] = g[k - 1] \o tt[k]
      BY <2>1, <2>2 DEF Maps, Joins
    <2> DEFINE h == [k \in 1 .. m |-> g[k]]
    <2>5. h \in Maps(1 .. m, Seq(S))
      BY <2>4 DEF Maps
    <2>6. Joins(h, ss)
      <3>1. h[1] = ss[1]
        BY <2>1, <2>4
      <3>2. ASSUME NEW k \in 2 .. m PROVE h[k] = h[k - 1] \o ss[k]
        <4>1. k \in 1 .. m /\ k - 1 \in 1 .. m /\ k \in 2 .. m + 1
          BY <2>1
        <4>2. h[k] = g[k] /\ h[k - 1] = g[k - 1] /\ ss[k] = tt[k]
          BY <2>1, <4>1
        <4>3. QED BY <2>4, <4>1, <4>2
      <3> HIDE DEF h, m
      <3>3. QED BY <3>1, <3>2 DEF Joins, m
    <2>7. FlattenSeq(ss) = h[m]
      <3> HIDE DEF h
      <3>1. QED BY <1>2, <2>5, <2>6, FlattenIsLast
    <2>8. h[m] = g[m]
      BY <2>1
    <2>9. g[m + 1] = g[m] \o s
      <3>1. m + 1 \in 2 .. m + 1 /\ (m + 1) - 1 = m
        BY <2>1
      <3>2. g[m + 1] = g[(m + 1) - 1] \o tt[m + 1]
        BY <2>4, <3>1
      <3>3. QED BY <2>1, <3>1, <3>2
    <2>10. FlattenSeq(tt) = FlattenSeq(ss) \o s
      BY <2>3, <2>7, <2>8, <2>9
    <2>11. QED BY <2>10 DEF tt
  <1>3. QED BY <1>1, <1>2

\* It is a sequence of what its parts are sequences of.
LEMMA FlattenType ==
  ASSUME NEW S, NEW ss \in Seq(Seq(S))
  PROVE  FlattenSeq(ss) \in Seq(S)
  <1> DEFINE Q == {tt \in Seq(Seq(S)) : FlattenSeq(tt) \in Seq(S)}
  <1>1. <<>> \in Q
    <2>1. <<>> \in Seq(Seq(S)) /\ <<>> \in Seq(S)
      BY EmptySeq
    <2>2. QED BY <2>1, FlattenNone
  <1>2. ASSUME NEW tt \in Seq(Seq(S)), NEW s \in Seq(S), tt \in Q
        PROVE  Append(tt, s) \in Q
    <2>1. FlattenSeq(tt) \o s \in Seq(S)
      BY <1>2, ConcatProperties
    <2>2. FlattenSeq(Append(tt, s)) \in Seq(S)
      BY <2>1, FlattenAppend
    <2>3. Append(tt, s) \in Seq(Seq(S))
      BY AppendProperties
    <2>4. QED BY <2>2, <2>3
  <1>3. Seq(Seq(S)) \subseteq Q
    <2> HIDE DEF Q
    <2>1. QED BY <1>1, <1>2, SequenceInduction
  <1>4. QED BY <1>3

\* Joining two sequences of parts joins what they join to.
LEMMA FlattenConcat ==
  ASSUME NEW S, NEW ss \in Seq(Seq(S)), NEW tt \in Seq(Seq(S))
  PROVE  FlattenSeq(ss \o tt) = FlattenSeq(ss) \o FlattenSeq(tt)
  <1> DEFINE Q == {uu \in Seq(Seq(S)) : FlattenSeq(ss \o uu) = FlattenSeq(ss) \o FlattenSeq(uu)}
  <1>1. <<>> \in Q
    <2>1. FlattenSeq(ss) \in Seq(S)
      BY FlattenType
    <2>2. ss \o <<>> = ss /\ FlattenSeq(ss) \o <<>> = FlattenSeq(ss)
      <3>1. ss \o <<>> = ss
        BY ConcatEmptySeq
      <3>2. FlattenSeq(ss) \o <<>> = FlattenSeq(ss)
        BY <2>1, ConcatEmptySeq
      <3>3. QED BY <3>1, <3>2
    <2>3. FlattenSeq(ss \o <<>>) = FlattenSeq(ss) \o FlattenSeq(<<>>)
      BY <2>2, FlattenNone
    <2>4. <<>> \in Seq(Seq(S))
      BY EmptySeq
    <2>5. QED BY <2>3, <2>4
  <1>2. ASSUME NEW uu \in Seq(Seq(S)), NEW s \in Seq(S), uu \in Q
        PROVE  Append(uu, s) \in Q
    <2>1. Append(uu, s) = uu \o <<s>> /\ Append(uu, s) \in Seq(Seq(S))
      BY AppendIsConcat, AppendProperties
    <2>2. ss \o uu \in Seq(Seq(S)) /\ <<s>> \in Seq(Seq(S))
      BY ConcatProperties
    <2>3. ss \o Append(uu, s) = Append(ss \o uu, s)
      <3>1. (ss \o uu) \o <<s>> = ss \o (uu \o <<s>>)
        <4> DEFINE one == <<s>>
                   T == Seq(S)
        <4>1. ASSUME NEW a \in Seq(T), NEW b \in Seq(T), NEW c \in Seq(T)
              PROVE  (a \o b) \o c = a \o (b \o c)
          <5> HIDE DEF T
          <5>1. QED BY ConcatAssociative
        <4>2. one \in Seq(T)
          BY <2>2
        <4> HIDE DEF one, T
        <4>3. QED BY <4>1, <4>2 DEF one, T
      <3>2. Append(ss \o uu, s) = (ss \o uu) \o <<s>>
        BY <2>2, AppendIsConcat
      <3>3. QED BY <2>1, <3>1, <3>2
    <2>4. FlattenSeq(Append(ss \o uu, s)) = FlattenSeq(ss \o uu) \o s
      BY <2>2, FlattenAppend
    <2>5. FlattenSeq(Append(uu, s)) = FlattenSeq(uu) \o s
      BY FlattenAppend
    <2>6. FlattenSeq(ss) \in Seq(S) /\ FlattenSeq(uu) \in Seq(S)
      BY FlattenType
    <2>7. (FlattenSeq(ss) \o FlattenSeq(uu)) \o s = FlattenSeq(ss) \o (FlattenSeq(uu) \o s)
      BY <2>6, ConcatAssociative
    <2>8. FlattenSeq(ss \o uu) = FlattenSeq(ss) \o FlattenSeq(uu)
      BY <1>2
    <2>9. FlattenSeq(ss \o Append(uu, s)) = FlattenSeq(ss) \o FlattenSeq(Append(uu, s))
      BY <2>3, <2>4, <2>5, <2>7, <2>8
    <2>10. QED BY <2>1, <2>9
  <1>3. Seq(Seq(S)) \subseteq Q
    <2> HIDE DEF Q
    <2>1. QED BY <1>1, <1>2, SequenceInduction
  <1>4. QED BY <1>3

\* Parts of one element each join to the sequence of these elements.
LEMMA FlattenSingles ==
  ASSUME NEW S, NEW s \in Seq(S)
  PROVE  FlattenSeq([k \in DOMAIN s |-> <<s[k]>>]) = s
  <1> DEFINE One(t) == [k \in DOMAIN t |-> <<t[k]>>]
             Q == {t \in Seq(S) : FlattenSeq(One(t)) = t}
  <1>1. <<>> \in Q
    <2>1. One(<<>>) = <<>>
      OBVIOUS
    <2>2. QED BY <2>1, FlattenNone
  <1>2. ASSUME NEW t \in Seq(S), NEW e \in S, t \in Q
        PROVE  Append(t, e) \in Q
    <2>1. One(t) \in Seq(Seq(S)) /\ <<e>> \in Seq(S)
      <3>1. \A k \in DOMAIN t : <<t[k]>> \in Seq(S)
        OBVIOUS
      <3>2. DOMAIN t = 1 .. Len(t) /\ Len(t) \in Nat
        OBVIOUS
      <3>3. \A k \in 1 .. Len(t) : <<t[k]>> \in Seq(S)
        BY <3>1, <3>2
      <3>4. [k \in 1 .. Len(t) |-> <<t[k]>>] \in Seq(Seq(S))
        BY <3>2, <3>3, IsASeq
      <3>5. QED BY <3>2, <3>4
    <2>2. One(Append(t, e)) = Append(One(t), <<e>>)
      <3>1. Len(Append(t, e)) = Len(t) + 1 /\ Len(t) \in Nat /\ Append(t, e) \in Seq(S)
        BY AppendProperties, LenProperties
      <3>2. Len(One(t)) = Len(t)
        OBVIOUS
      <3>3. QED BY <3>1, <3>2
    <2>3. FlattenSeq(One(Append(t, e))) = FlattenSeq(One(t)) \o <<e>>
      <3> HIDE DEF One
      <3>1. QED BY <2>1, <2>2, FlattenAppend
    <2>4. t \o <<e>> = Append(t, e) /\ Append(t, e) \in Seq(S)
      BY AppendIsConcat, AppendProperties
    <2>5. QED BY <1>2, <2>3, <2>4
  <1>3. Seq(S) \subseteq Q
    <2> HIDE DEF Q
    <2>1. QED BY <1>1, <1>2, SequenceInduction
  <1>4. s \in Q
    BY <1>3
  <1>5. QED BY <1>4

-----------------------------------------------------------------------------
(* The image of a list, and selections by type                             *)

\* A function applied to each member of a sequence.
Each(f, s) == [k \in DOMAIN s |-> f[s[k]]]

\* Each element has one image, of the image's type.
LEMMA EachType ==
  ASSUME NEW A, NEW B, NEW f \in Maps(A, B), NEW s \in Seq(A)
  PROVE  Each(f, s) \in Seq(B) /\ Len(Each(f, s)) = Len(s)
  <1>1. DOMAIN s = 1 .. Len(s) /\ Len(s) \in Nat
    OBVIOUS
  <1>2. \A k \in 1 .. Len(s) : f[s[k]] \in B
    BY ElementOfSeq DEF Maps
  <1>3. Each(f, s) = [k \in 1 .. Len(s) |-> f[s[k]]]
    BY <1>1 DEF Each
  <1>4. [k \in 1 .. Len(s) |-> f[s[k]]] \in Seq(B)
    BY <1>1, <1>2, IsASeq
  <1>5. Each(f, s) \in [1 .. Len(s) -> B]
    BY <1>2, <1>3
  <1>6. QED BY <1>1, <1>3, <1>4, <1>5, LenProperties

\* Of a single element.
LEMMA EachOne ==
  ASSUME NEW f, NEW x
  PROVE  Each(f, <<x>>) = <<f[x]>>
  BY DEF Each

\* Of none.
LEMMA EachNone ==
  ASSUME NEW f
  PROVE  Each(f, <<>>) = <<>>
  BY DEF Each

\* Each of two lists is each of the first, then each of the second.
LEMMA EachConcat ==
  ASSUME NEW A, NEW B, NEW f \in Maps(A, B), NEW s \in Seq(A), NEW t \in Seq(A)
  PROVE  Each(f, s \o t) = Each(f, s) \o Each(f, t)
  <1> DEFINE u == s \o t
             a == Each(f, s)
             b == Each(f, t)
             c == Each(f, u)
  <1>1. /\ u \in Seq(A) /\ Len(u) = Len(s) + Len(t) /\ Len(s) \in Nat /\ Len(t) \in Nat
        /\ \A i \in 1 .. Len(s) + Len(t) : u[i] = IF i <= Len(s) THEN s[i] ELSE t[i - Len(s)]
    BY ConcatProperties, LenProperties
  <1>2. /\ a \in Seq(B) /\ Len(a) = Len(s) /\ b \in Seq(B) /\ Len(b) = Len(t)
        /\ c \in Seq(B) /\ Len(c) = Len(u)
    <2> HIDE DEF u
    <2>1. QED BY <1>1, EachType
  <1>3. /\ \A i \in 1 .. Len(s) : a[i] = f[s[i]]
        /\ \A i \in 1 .. Len(t) : b[i] = f[t[i]]
        /\ \A i \in 1 .. Len(u) : c[i] = f[u[i]]
    <2> HIDE DEF u
    <2>1. QED BY <1>1 DEF Each
  <1> HIDE DEF a, b, c, u
  <1>4. /\ a \o b \in Seq(B) /\ Len(a \o b) = Len(c)
        /\ \A i \in 1 .. Len(a) + Len(b) : (a \o b)[i] = IF i <= Len(a) THEN a[i] ELSE b[i - Len(a)]
    <2>1. /\ a \o b \in Seq(B) /\ Len(a \o b) = Len(a) + Len(b)
          /\ \A i \in 1 .. Len(a) + Len(b) :
               (a \o b)[i] = IF i <= Len(a) THEN a[i] ELSE b[i - Len(a)]
      BY <1>2, ConcatProperties
    <2>2. QED BY <1>1, <1>2, <2>1
  <1>5. ASSUME NEW i \in 1 .. Len(c) PROVE c[i] = (a \o b)[i]
    <2>1. CASE i <= Len(s)
      <3>1. i \in 1 .. Len(s) /\ i \in 1 .. Len(a) + Len(b) /\ i \in 1 .. Len(u)
        BY <2>1, <1>1, <1>2
      <3>2. u[i] = s[i]
        BY <2>1, <3>1, <1>1, <1>2
      <3>3. (a \o b)[i] = a[i] /\ a[i] = f[s[i]]
        BY <2>1, <3>1, <1>2, <1>3, <1>4
      <3>4. QED BY <3>1, <3>2, <3>3, <1>2, <1>3
    <2>2. CASE ~ (i <= Len(s))
      <3>1. i - Len(s) \in 1 .. Len(t) /\ i \in 1 .. Len(a) + Len(b) /\ i \in 1 .. Len(u)
        BY <2>2, <1>1, <1>2
      <3>2. u[i] = t[i - Len(s)]
        BY <2>2, <3>1, <1>1, <1>2
      <3>3. (a \o b)[i] = b[i - Len(s)] /\ b[i - Len(s)] = f[t[i - Len(s)]]
        BY <2>2, <3>1, <1>2, <1>3, <1>4
      <3>4. QED BY <3>1, <3>2, <3>3, <1>2, <1>3
    <2>3. QED BY <2>1, <2>2
  <1>6. c = a \o b
    BY <1>2, <1>4, <1>5, SeqEqual
  <1>7. QED BY <1>6 DEF a, b, c, u

\* What OfType keeps of one block.
Kept(x, T) == IF x.type \in T THEN <<x>> ELSE <<>>
Keeps(A, T) == [x \in A |-> Kept(x, T)]
Typed(A, T) == {x \in A : x.type \in T}

\* What is kept of an element is a list of it or of nothing.
LEMMA KeepsType ==
  ASSUME NEW A, NEW T
  PROVE  Keeps(A, T) \in Maps(A, Seq(A))
  BY DEF Keeps, Kept, Maps

\* A selection joins what is kept of each element.
LEMMA OfTypeIsEach ==
  ASSUME NEW A, NEW s \in Seq(A), NEW T
  PROVE  OfType(s, T) = FlattenSeq(Each(Keeps(A, T), s))
  <1>1. \A k \in DOMAIN s : s[k] \in A
    OBVIOUS
  <1>2. [k \in DOMAIN s |-> IF s[k].type \in T THEN <<s[k]>> ELSE <<>>] = Each(Keeps(A, T), s)
    BY <1>1 DEF Each, Keeps, Kept
  <1>3. QED BY <1>2 DEF OfType

\* Nothing is selected of nothing.
LEMMA OfTypeNil ==
  ASSUME NEW T
  PROVE  OfType(<<>>, T) = <<>>
  <1>1. [k \in DOMAIN <<>> |-> IF <<>>[k].type \in T THEN <<<<>>[k]>> ELSE <<>>] = <<>>
    OBVIOUS
  <1>2. QED BY <1>1, FlattenNone DEF OfType

\* What is kept of an element is of the types.
LEMMA KeptType ==
  ASSUME NEW A, NEW x \in A, NEW T
  PROVE  Kept(x, T) \in Seq(A) /\ Kept(x, T) \in Seq(Typed(A, T))
  <1>1. CASE x.type \in T
    <2>1. Kept(x, T) = <<x>> /\ x \in Typed(A, T)
      BY <1>1 DEF Kept, Typed
    <2>2. QED BY <2>1
  <1>2. CASE x.type \notin T
    <2>1. Kept(x, T) = <<>>
      BY <1>2 DEF Kept
    <2>2. QED BY <2>1, EmptySeq
  <1>3. QED BY <1>1, <1>2

\* Of one element, it is what is kept of it.
LEMMA OfTypeOne ==
  ASSUME NEW x, NEW T
  PROVE  OfType(<<x>>, T) = Kept(x, T)
  <1> DEFINE A == {x}
  <1>1. <<x>> \in Seq(A) /\ Kept(x, T) \in Seq(A)
    <2>1. x \in A
      OBVIOUS
    <2>2. <<x>> \in Seq(A)
      BY <2>1
    <2> HIDE DEF A
    <2>3. QED BY <2>1, <2>2, KeptType
  <1>2. OfType(<<x>>, T) = FlattenSeq(Each(Keeps(A, T), <<x>>))
    BY <1>1, OfTypeIsEach
  <1>3. Each(Keeps(A, T), <<x>>) = <<Kept(x, T)>>
    BY EachOne DEF Keeps
  <1>4. FlattenSeq(<<Kept(x, T)>>) = Kept(x, T)
    BY <1>1, FlattenOne
  <1>5. QED BY <1>2, <1>3, <1>4

\* A selection of two lists is that of the first, then that of the second.
LEMMA OfTypeConcat ==
  ASSUME NEW A, NEW s \in Seq(A), NEW t \in Seq(A), NEW T
  PROVE  OfType(s \o t, T) = OfType(s, T) \o OfType(t, T)
  <1> DEFINE f == Keeps(A, T)
  <1>1. f \in Maps(A, Seq(A))
    BY KeepsType
  <1> HIDE DEF f
  <1>2. s \o t \in Seq(A)
    BY ConcatProperties
  <1>3. Each(f, s) \in Seq(Seq(A)) /\ Each(f, t) \in Seq(Seq(A))
    BY <1>1, EachType
  <1>4. Each(f, s \o t) = Each(f, s) \o Each(f, t)
    BY <1>1, EachConcat
  <1>5. FlattenSeq(Each(f, s) \o Each(f, t)) = FlattenSeq(Each(f, s)) \o FlattenSeq(Each(f, t))
    BY <1>3, FlattenConcat
  <1>6. /\ OfType(s \o t, T) = FlattenSeq(Each(f, s \o t))
        /\ OfType(s, T) = FlattenSeq(Each(f, s))
        /\ OfType(t, T) = FlattenSeq(Each(f, t))
    BY <1>2, OfTypeIsEach DEF f
  <1>7. QED BY <1>4, <1>5, <1>6

\* One more element adds what is kept of it.
LEMMA OfTypeAppend ==
  ASSUME NEW A, NEW s \in Seq(A), NEW x \in A, NEW T
  PROVE  OfType(Append(s, x), T) = OfType(s, T) \o Kept(x, T)
  <1> DEFINE t == <<x>>
  <1>1. Append(s, x) = s \o t /\ t \in Seq(A)
    BY AppendIsConcat
  <1>2. OfType(t, T) = Kept(x, T)
    BY OfTypeOne
  <1> HIDE DEF t
  <1>3. OfType(s \o t, T) = OfType(s, T) \o OfType(t, T)
    BY <1>1, OfTypeConcat
  <1>4. QED BY <1>1, <1>2, <1>3

\* Its members are members of the whole, of these types.
LEMMA OfTypeType ==
  ASSUME NEW A, NEW s \in Seq(A), NEW T
  PROVE  OfType(s, T) \in Seq(Typed(A, T)) /\ OfType(s, T) \in Seq(A)
  <1> DEFINE Q == {t \in Seq(A) : OfType(t, T) \in Seq(Typed(A, T)) /\ OfType(t, T) \in Seq(A)}
  <1>1. <<>> \in Q
    <2>1. <<>> \in Seq(A) /\ <<>> \in Seq(Typed(A, T))
      BY EmptySeq
    <2>2. QED BY <2>1, OfTypeNil
  <1>2. ASSUME NEW t \in Seq(A), NEW x \in A, t \in Q
        PROVE  Append(t, x) \in Q
    <2>1. Kept(x, T) \in Seq(A) /\ Kept(x, T) \in Seq(Typed(A, T))
      BY KeptType
    <2>2. OfType(t, T) \o Kept(x, T) \in Seq(Typed(A, T))
      BY <1>2, <2>1, ConcatProperties
    <2>3. OfType(t, T) \o Kept(x, T) \in Seq(A)
      BY <1>2, <2>1, ConcatProperties
    <2>4. Append(t, x) \in Seq(A)
      BY AppendProperties
    <2>5. QED BY <2>2, <2>3, <2>4, OfTypeAppend
  <1>3. Seq(A) \subseteq Q
    <2> HIDE DEF Q
    <2>1. QED BY <1>1, <1>2, SequenceInduction
  <1>4. QED BY <1>3

\* All of a sequence of these types, and nothing of one without.
LEMMA OfTypeAll ==
  ASSUME NEW A, NEW T, \A x \in A : x.type \in T, NEW s \in Seq(A)
  PROVE  OfType(s, T) = s
  <1> DEFINE Q == {t \in Seq(A) : OfType(t, T) = t}
  <1>1. <<>> \in Q
    BY OfTypeNil, EmptySeq
  <1>2. ASSUME NEW t \in Seq(A), NEW x \in A, t \in Q
        PROVE  Append(t, x) \in Q
    <2>1. Kept(x, T) = <<x>>
      BY DEF Kept
    <2>2. Append(t, x) = t \o <<x>> /\ Append(t, x) \in Seq(A)
      BY AppendIsConcat, AppendProperties
    <2>3. OfType(Append(t, x), T) = OfType(t, T) \o <<x>>
      BY <2>1, OfTypeAppend
    <2>4. QED BY <1>2, <2>2, <2>3
  <1>3. Seq(A) \subseteq Q
    <2> HIDE DEF Q
    <2>1. QED BY <1>1, <1>2, SequenceInduction
  <1>4. QED BY <1>3

\* A list without any of the types leaves nothing.
LEMMA OfTypeNone ==
  ASSUME NEW A, NEW T, \A x \in A : x.type \notin T, NEW s \in Seq(A)
  PROVE  OfType(s, T) = <<>>
  <1> DEFINE Q == {t \in Seq(A) : OfType(t, T) = <<>>}
  <1>1. <<>> \in Q
    BY OfTypeNil, EmptySeq
  <1>2. ASSUME NEW t \in Seq(A), NEW x \in A, t \in Q
        PROVE  Append(t, x) \in Q
    <2>1. Kept(x, T) = <<>> /\ <<>> \o <<>> = <<>>
      BY DEF Kept
    <2>2. Append(t, x) \in Seq(A)
      BY AppendProperties
    <2>3. OfType(Append(t, x), T) = <<>>
      BY <1>2, <2>1, OfTypeAppend
    <2>4. QED BY <2>2, <2>3
  <1>3. Seq(A) \subseteq Q
    <2> HIDE DEF Q
    <2>1. QED BY <1>1, <1>2, SequenceInduction
  <1>4. QED BY <1>3

\* Selecting from a wider selection selects the same.
LEMMA OfTypeTwice ==
  ASSUME NEW A, NEW s \in Seq(A), NEW T, NEW U, T \subseteq U
  PROVE  OfType(OfType(s, U), T) = OfType(s, T)
  <1> DEFINE Q == {t \in Seq(A) : OfType(OfType(t, U), T) = OfType(t, T)}
  <1>1. <<>> \in Q
    BY OfTypeNil, EmptySeq
  <1>2. ASSUME NEW t \in Seq(A), NEW x \in A, t \in Q
        PROVE  Append(t, x) \in Q
    <2>1. Append(t, x) \in Seq(A) /\ OfType(t, U) \in Seq(A) /\ OfType(t, T) \in Seq(A)
      BY AppendProperties, OfTypeType
    <2>2. Kept(x, U) \in Seq(A)
      BY KeptType
    <2>3. OfType(OfType(t, U) \o Kept(x, U), T) = OfType(OfType(t, U), T) \o OfType(Kept(x, U), T)
      <3> DEFINE a == OfType(t, U)
                 b == Kept(x, U)
      <3>1. a \in Seq(A) /\ b \in Seq(A)
        BY <2>1, <2>2
      <3> HIDE DEF a, b
      <3>2. OfType(a \o b, T) = OfType(a, T) \o OfType(b, T)
        BY <3>1, OfTypeConcat
      <3>3. QED BY <3>2 DEF a, b
    <2>4. OfType(Kept(x, U), T) = Kept(x, T)
      <3>1. CASE x.type \in U
        <4>1. Kept(x, U) = <<x>>
          BY <3>1 DEF Kept
        <4>2. QED BY <4>1, OfTypeOne
      <3>2. CASE x.type \notin U
        <4>1. Kept(x, U) = <<>> /\ Kept(x, T) = <<>>
          BY <3>2 DEF Kept
        <4>2. QED BY <4>1, OfTypeNil
      <3>3. QED BY <3>1, <3>2
    <2>5. OfType(OfType(Append(t, x), U), T) = OfType(Append(t, x), T)
      <3>1. OfType(Append(t, x), U) = OfType(t, U) \o Kept(x, U)
        BY OfTypeAppend
      <3>2. OfType(Append(t, x), T) = OfType(t, T) \o Kept(x, T)
        BY OfTypeAppend
      <3>3. OfType(OfType(t, U), T) = OfType(t, T)
        BY <1>2
      <3>4. QED BY <2>3, <2>4, <3>1, <3>2, <3>3
    <2>6. QED BY <2>1, <2>5
  <1>3. Seq(A) \subseteq Q
    <2> HIDE DEF Q
    <2>1. QED BY <1>1, <1>2, SequenceInduction
  <1>4. QED BY <1>3

\* Selecting from joined parts joins what is selected from each.
Selects(A, T) == [s \in Seq(A) |-> OfType(s, T)]

\* The selection as a function, on sequences.
LEMMA SelectsType ==
  ASSUME NEW A, NEW T
  PROVE  Selects(A, T) \in Maps(Seq(A), Seq(A))
  BY OfTypeType DEF Selects, Maps

\* To select of joined lists is to join the selections.
LEMMA OfTypeFlatten ==
  ASSUME NEW A, NEW T, NEW ss \in Seq(Seq(A))
  PROVE  OfType(FlattenSeq(ss), T) = FlattenSeq(Each(Selects(A, T), ss))
  <1> DEFINE f == Selects(A, T)
             Q == {tt \in Seq(Seq(A)) : OfType(FlattenSeq(tt), T) = FlattenSeq(Each(f, tt))}
  <1>1. f \in Maps(Seq(A), Seq(A)) /\ \A s \in Seq(A) : f[s] = OfType(s, T)
    BY SelectsType DEF Selects
  <1> HIDE DEF f
  <1>2. <<>> \in Q
    <2>1. OfType(FlattenSeq(<<>>), T) = FlattenSeq(Each(f, <<>>))
      BY FlattenNone, OfTypeNil, EachNone
    <2>2. <<>> \in Seq(Seq(A))
      BY EmptySeq
    <2>3. QED BY <2>1, <2>2
  <1>3. ASSUME NEW tt \in Seq(Seq(A)), NEW s \in Seq(A), tt \in Q
        PROVE  Append(tt, s) \in Q
    <2>1. Append(tt, s) = tt \o <<s>> /\ Append(tt, s) \in Seq(Seq(A)) /\ <<s>> \in Seq(Seq(A))
      BY AppendIsConcat, AppendProperties
    <2>2. FlattenSeq(Append(tt, s)) = FlattenSeq(tt) \o s /\ FlattenSeq(tt) \in Seq(A)
      BY FlattenAppend, FlattenType
    <2>3. OfType(FlattenSeq(tt) \o s, T) = OfType(FlattenSeq(tt), T) \o OfType(s, T)
      BY <2>2, OfTypeConcat
    <2>4. Each(f, Append(tt, s)) = Each(f, tt) \o <<OfType(s, T)>>
      <3>1. Each(f, tt \o <<s>>) = Each(f, tt) \o Each(f, <<s>>)
        <4> DEFINE u == <<s>>
        <4>1. u \in Seq(Seq(A))
          BY <2>1
        <4> HIDE DEF u
        <4>2. Each(f, tt \o u) = Each(f, tt) \o Each(f, u)
          BY <1>1, <4>1, EachConcat
        <4>3. QED BY <4>2 DEF u
      <3>2. Each(f, <<s>>) = <<OfType(s, T)>>
        BY <1>1, EachOne
      <3>3. QED BY <2>1, <3>1, <3>2
    <2>5. Each(f, tt) \in Seq(Seq(A)) /\ OfType(s, T) \in Seq(A)
      BY <1>1, EachType, OfTypeType
    <2>6. FlattenSeq(Each(f, tt) \o <<OfType(s, T)>>) = FlattenSeq(Each(f, tt)) \o OfType(s, T)
      <3>1. Each(f, tt) \o <<OfType(s, T)>> = Append(Each(f, tt), OfType(s, T))
        BY <2>5, AppendIsConcat
      <3>2. QED BY <2>5, <3>1, FlattenAppend
    <2>7. OfType(FlattenSeq(Append(tt, s)), T) = FlattenSeq(Each(f, Append(tt, s)))
      BY <1>3, <2>2, <2>3, <2>4, <2>6
    <2>8. QED BY <2>1, <2>7
  <1>4. Seq(Seq(A)) \subseteq Q
    <2> HIDE DEF Q
    <2>1. QED BY <1>2, <1>3, SequenceInduction
  <1>5. OfType(FlattenSeq(ss), T) = FlattenSeq(Each(f, ss))
    BY <1>4
  <1>6. QED BY <1>5 DEF f

-----------------------------------------------------------------------------
(* The invariant                                                           *)

\* Where a piece comes from: message and block, or nowhere for the override.
Place == Seq(Nat)
Types ==
  {"text", "media", "link", "other", "thinking", "tool_use", "tool_result", "override",
   "result_text", "no_text"}
Piece == [type : Types, at : Place]
ToolTypes == {"tool_use", "tool_result"}
PlacedBlock ==
  {b \in [type : Types, tool : ToolIds \cup {None}, holds : SUBSET {"text", "media"}, at : Place] :
     b.type \in ToolTypes => b.tool \in ToolIds}
BodyItem == Piece \cup PlacedBlock
CallType == [call : Nat \ {0}, tool : ToolIds, at : Place]
ContentType == [form : {"string", "list", "null"}, parts : Seq(Piece)]
MessageType ==
  [role : {"system", "developer", "user", "assistant", "tool"}, content : ContentType,
   reasoning : Seq(Piece), calls : Seq(CallType),
   answers : Nat]

TypeInv == TypeOK /\ body \in Seq(BodyItem) /\ messages \in Seq(MessageType)

\* SentInOrder, of any messages and any body.
Sends(ms, bd) ==
  /\ OfType(PartsOf(ms), {"text", "media", "link"}) = Pieces(OfType(bd, {"text", "media", "link"}))
  /\ OfType(PartsOf(ms), {"result_text", "no_text"}) = Texts(OfType(bd, {"tool_result"}))
  /\ ReasoningOf(ms) = Pieces(OfType(bd, {"thinking"}))
  /\ Places(CallsOf(ms)) = Places(OfType(bd, {"tool_use"}))

\* ResultsAnswerCalls, of any messages and any body.
AllCallsOf(ms) == UNION {CallsIn(ms[k]) : k \in DOMAIN ms}
Uses(bd, t, before) == {i \in 1 .. before : bd[i].type = "tool_use" /\ bd[i].tool = t}
Answers(ms, bd, k, use) ==
  \E i \in 1 .. k - 1 : \E c \in CallsIn(ms[i]) : c.call = ms[k].answers /\ c.at = bd[use].at
Lone(ms, k) ==
  /\ \A c \in AllCallsOf(ms) : c.call # ms[k].answers
  /\ \A l \in DOMAIN ms : ms[l].answers = ms[k].answers => l = k
Distinct(ms) == \A c, d \in AllCallsOf(ms) : c.call = d.call => c = d
Answered(ms, bd, j) ==
  \E k \in DOMAIN ms :
    /\ ToolMessageFor(ms[k], bd[j])
    /\ IF Uses(bd, bd[j].tool, j - 1) = {}
       THEN Lone(ms, k) ELSE Answers(ms, bd, k, Max(Uses(bd, bd[j].tool, j - 1)))

\* Ids are minted once, a tool message has one, and the dictionary has the call of
\* the latest use of each tool id.
Numbered(ms, n) ==
  \A k \in DOMAIN ms :
    /\ ms[k].answers <= n
    /\ ms[k].role = "tool" => ms[k].answers # None
    /\ \A c \in CallsIn(ms[k]) : c.call <= n
Known(ms, bd, known) ==
  \A t \in ToolIds :
    IF Uses(bd, t, Len(bd)) = {} THEN known[t] = None
    ELSE \E c \in AllCallsOf(ms) :
           c.call = known[t] /\ c.at = bd[Max(Uses(bd, t, Len(bd)))].at
Linked(ms, bd, known, n) ==
  /\ Numbered(ms, n)
  /\ Distinct(ms)
  /\ Known(ms, bd, known)
  /\ \A j \in DOMAIN bd : bd[j].type = "tool_result" => Answered(ms, bd, j)

\* The override is only ever the first part, and no content has no parts.
HeadOnly(parts) == \A i \in DOMAIN parts : parts[i].type = "override" => i = 1 /\ parts[i] = Override
Shaped(ms) ==
  \A k \in DOMAIN ms :
    /\ HeadOnly(ms[k].content.parts)
    /\ ms[k].content.form \in {"string", "list"} \/ ms[k].content.parts = <<>>
Prepared(m, prefix) ==
  LET texts == OfType(m.content.parts, {"text", "override"}) IN
  /\ m.role # "developer"
  /\ prefix /\ m.role = "system" =>
       /\ m.content.form = "string" => texts # <<>>
       /\ texts # <<>> => Head(texts) = Override
Ready(ms, prefix) ==
  /\ \A k \in DOMAIN ms : Prepared(ms[k], prefix)
  /\ prefix => \E k \in DOMAIN ms : ms[k].role = "system"

IInv ==
  /\ TypeInv
  /\ Sends(messages, body)
  /\ Linked(messages, body, callOf, minted)
  /\ Shaped(messages)
  /\ stage = "sent" => Ready(messages, override)

\* Each of the selections from messages and blocks is a function of one of them.
PartsIn == [m \in MessageType |-> m.content.parts]
ReasoningIn == [m \in MessageType |-> m.reasoning]
CallsInIt == [m \in MessageType |-> m.calls]
PieceOf == [b \in BodyItem |-> [type |-> b.type, at |-> b.at]]
TextIn == [b \in BodyItem |-> Text(b)]
PlaceIn(A) == [x \in A |-> x.at]

\* They are functions of messages, calls and blocks.
LEMMA SelectionTypes ==
  /\ PartsIn \in Maps(MessageType, Seq(Piece))
  /\ ReasoningIn \in Maps(MessageType, Seq(Piece))
  /\ CallsInIt \in Maps(MessageType, Seq(CallType))
  /\ PieceOf \in Maps(BodyItem, Piece)
  /\ TextIn \in Maps(BodyItem, Piece)
  /\ PlaceIn(CallType) \in Maps(CallType, Place)
  /\ PlaceIn(BodyItem) \in Maps(BodyItem, Place)
  <1>1. PartsIn \in Maps(MessageType, Seq(Piece))
    BY DEF PartsIn, Maps, MessageType, ContentType
  <1>2. ReasoningIn \in Maps(MessageType, Seq(Piece))
    BY DEF ReasoningIn, Maps, MessageType
  <1>3. CallsInIt \in Maps(MessageType, Seq(CallType))
    BY DEF CallsInIt, Maps, MessageType
  <1>4. \A b \in BodyItem : b.type \in Types /\ b.at \in Place
    BY DEF BodyItem, Piece, PlacedBlock
  <1>5. PieceOf \in Maps(BodyItem, Piece)
    BY <1>4 DEF PieceOf, Maps, Piece
  <1>6. PlaceIn(CallType) \in Maps(CallType, Place)
    BY DEF PlaceIn, Maps, CallType
  <1>7. PlaceIn(BodyItem) \in Maps(BodyItem, Place)
    BY <1>4 DEF PlaceIn, Maps
  <1>8. TextIn \in Maps(BodyItem, Piece)
    <2>1. ASSUME NEW b \in BodyItem PROVE Text(b) \in Piece
      BY <1>4 DEF Text, Piece, Types
    <2>2. QED BY <2>1 DEF TextIn, Maps
  <1>9. QED BY <1>1, <1>2, <1>3, <1>5, <1>6, <1>7, <1>8

\* What the model selects is the image under one of them.
LEMMA SelectionsAreEach ==
  /\ \A ms \in Seq(MessageType) :
       /\ PartsOf(ms) = FlattenSeq(Each(PartsIn, ms))
       /\ ReasoningOf(ms) = FlattenSeq(Each(ReasoningIn, ms))
       /\ CallsOf(ms) = FlattenSeq(Each(CallsInIt, ms))
  /\ \A s \in Seq(BodyItem) :
       /\ Pieces(s) = Each(PieceOf, s)
       /\ Texts(s) = Each(TextIn, s)
       /\ Places(s) = Each(PlaceIn(BodyItem), s)
  /\ \A s \in Seq(CallType) : Places(s) = Each(PlaceIn(CallType), s)
  <1>1. ASSUME NEW ms \in Seq(MessageType)
        PROVE  /\ PartsOf(ms) = FlattenSeq(Each(PartsIn, ms))
               /\ ReasoningOf(ms) = FlattenSeq(Each(ReasoningIn, ms))
               /\ CallsOf(ms) = FlattenSeq(Each(CallsInIt, ms))
    <2>1. \A k \in DOMAIN ms : ms[k] \in MessageType
      OBVIOUS
    <2>2. [k \in DOMAIN ms |-> ms[k].content.parts] = Each(PartsIn, ms)
      BY <2>1 DEF Each, PartsIn
    <2>3. [k \in DOMAIN ms |-> ms[k].reasoning] = Each(ReasoningIn, ms)
      BY <2>1 DEF Each, ReasoningIn
    <2>4. [k \in DOMAIN ms |-> ms[k].calls] = Each(CallsInIt, ms)
      BY <2>1 DEF Each, CallsInIt
    <2>5. QED BY <2>2, <2>3, <2>4 DEF PartsOf, ReasoningOf, CallsOf
  <1>2. ASSUME NEW s \in Seq(BodyItem)
        PROVE  /\ Pieces(s) = Each(PieceOf, s)
               /\ Texts(s) = Each(TextIn, s)
               /\ Places(s) = Each(PlaceIn(BodyItem), s)
    <2>1. \A k \in DOMAIN s : s[k] \in BodyItem
      OBVIOUS
    <2>2. Texts(s) = Each(TextIn, s)
      BY <2>1 DEF Texts, Each, TextIn
    <2>3. QED BY <2>1, <2>2 DEF Pieces, Places, Each, PieceOf, PlaceIn
  <1>3. ASSUME NEW s \in Seq(CallType)
        PROVE  Places(s) = Each(PlaceIn(CallType), s)
    <2>1. \A k \in DOMAIN s : s[k] \in CallType
      OBVIOUS
    <2>2. QED BY <2>1 DEF Places, Each, PlaceIn
  <1>4. QED BY <1>1, <1>2, <1>3

\* The types of the selections.
LEMMA SelectionsType ==
  /\ \A ms \in Seq(MessageType) :
       PartsOf(ms) \in Seq(Piece) /\ ReasoningOf(ms) \in Seq(Piece) /\ CallsOf(ms) \in Seq(CallType)
  /\ \A s \in Seq(BodyItem) :
       Pieces(s) \in Seq(Piece) /\ Texts(s) \in Seq(Piece) /\ Places(s) \in Seq(Place)
  /\ \A s \in Seq(CallType) : Places(s) \in Seq(Place)
  <1>1. ASSUME NEW ms \in Seq(MessageType)
        PROVE  PartsOf(ms) \in Seq(Piece) /\ ReasoningOf(ms) \in Seq(Piece) /\ CallsOf(ms) \in Seq(CallType)
    <2>1. Each(PartsIn, ms) \in Seq(Seq(Piece))
      BY SelectionTypes, EachType
    <2>2. Each(ReasoningIn, ms) \in Seq(Seq(Piece))
      BY SelectionTypes, EachType
    <2>3. Each(CallsInIt, ms) \in Seq(Seq(CallType))
      BY SelectionTypes, EachType
    <2>4. FlattenSeq(Each(PartsIn, ms)) \in Seq(Piece)
      BY <2>1, FlattenType
    <2>5. FlattenSeq(Each(ReasoningIn, ms)) \in Seq(Piece)
      BY <2>2, FlattenType
    <2>6. FlattenSeq(Each(CallsInIt, ms)) \in Seq(CallType)
      BY <2>3, FlattenType
    <2>7. QED BY <2>4, <2>5, <2>6, SelectionsAreEach
  <1>2. ASSUME NEW s \in Seq(BodyItem)
        PROVE  Pieces(s) \in Seq(Piece) /\ Texts(s) \in Seq(Piece) /\ Places(s) \in Seq(Place)
    <2>1. Each(PieceOf, s) \in Seq(Piece)
      BY SelectionTypes, EachType
    <2>2. Each(TextIn, s) \in Seq(Piece)
      BY SelectionTypes, EachType
    <2>3. Each(PlaceIn(BodyItem), s) \in Seq(Place)
      BY SelectionTypes, EachType
    <2>4. QED BY <2>1, <2>2, <2>3, SelectionsAreEach
  <1>3. ASSUME NEW s \in Seq(CallType) PROVE Places(s) \in Seq(Place)
    <2>1. Each(PlaceIn(CallType), s) \in Seq(Place)
      BY SelectionTypes, EachType
    <2>2. QED BY <2>1, SelectionsAreEach
  <1>4. QED BY <1>1, <1>2, <1>3

\* Joined selections of two lists of messages.
LEMMA FlattenEachConcat ==
  ASSUME NEW A, NEW B, NEW f \in Maps(A, Seq(B)), NEW s \in Seq(A), NEW t \in Seq(A)
  PROVE  FlattenSeq(Each(f, s \o t)) = FlattenSeq(Each(f, s)) \o FlattenSeq(Each(f, t))
  <1>1. Each(f, s \o t) = Each(f, s) \o Each(f, t)
    BY EachConcat
  <1>2. Each(f, s) \in Seq(Seq(B)) /\ Each(f, t) \in Seq(Seq(B))
    BY EachType
  <1> DEFINE a == Each(f, s)
             b == Each(f, t)
  <1> HIDE DEF a, b
  <1>3. FlattenSeq(a \o b) = FlattenSeq(a) \o FlattenSeq(b)
    BY <1>2, FlattenConcat DEF a, b
  <1>4. QED BY <1>1, <1>3 DEF a, b

\* The selections of two lists of messages, one after the other.
LEMMA SelectionsConcat ==
  ASSUME NEW ms \in Seq(MessageType), NEW ns \in Seq(MessageType)
  PROVE  /\ PartsOf(ms \o ns) = PartsOf(ms) \o PartsOf(ns)
         /\ ReasoningOf(ms \o ns) = ReasoningOf(ms) \o ReasoningOf(ns)
         /\ CallsOf(ms \o ns) = CallsOf(ms) \o CallsOf(ns)
  <1>1. ms \o ns \in Seq(MessageType)
    BY ConcatProperties
  <1>2. FlattenSeq(Each(PartsIn, ms \o ns)) = FlattenSeq(Each(PartsIn, ms)) \o FlattenSeq(Each(PartsIn, ns))
    BY SelectionTypes, FlattenEachConcat
  <1>3. FlattenSeq(Each(ReasoningIn, ms \o ns))
          = FlattenSeq(Each(ReasoningIn, ms)) \o FlattenSeq(Each(ReasoningIn, ns))
    BY SelectionTypes, FlattenEachConcat
  <1>4. FlattenSeq(Each(CallsInIt, ms \o ns))
          = FlattenSeq(Each(CallsInIt, ms)) \o FlattenSeq(Each(CallsInIt, ns))
    BY SelectionTypes, FlattenEachConcat
  <1>5. QED BY <1>1, <1>2, <1>3, <1>4, SelectionsAreEach

\* The selections of one message.
LEMMA SelectionsOne ==
  ASSUME NEW m \in MessageType
  PROVE  PartsOf(<<m>>) = m.content.parts /\ ReasoningOf(<<m>>) = m.reasoning /\ CallsOf(<<m>>) = m.calls
  <1>1. <<m>> \in Seq(MessageType)
    OBVIOUS
  <1>2. m.content.parts \in Seq(Piece) /\ m.reasoning \in Seq(Piece) /\ m.calls \in Seq(CallType)
    BY DEF MessageType, ContentType
  <1>3. /\ Each(PartsIn, <<m>>) = <<m.content.parts>>
        /\ Each(ReasoningIn, <<m>>) = <<m.reasoning>>
        /\ Each(CallsInIt, <<m>>) = <<m.calls>>
    BY EachOne DEF PartsIn, ReasoningIn, CallsInIt
  <1>4. /\ FlattenSeq(<<m.content.parts>>) = m.content.parts
        /\ FlattenSeq(<<m.reasoning>>) = m.reasoning
        /\ FlattenSeq(<<m.calls>>) = m.calls
    BY <1>2, FlattenOne
  <1>5. QED BY <1>1, <1>3, <1>4, SelectionsAreEach

\* The selections of none.
LEMMA SelectionsNone ==
  /\ PartsOf(<<>>) = <<>> /\ ReasoningOf(<<>>) = <<>> /\ CallsOf(<<>>) = <<>>
  /\ Pieces(<<>>) = <<>> /\ Texts(<<>>) = <<>> /\ Places(<<>>) = <<>>
  <1>1. <<>> \in Seq(MessageType)
    BY EmptySeq
  <1>2. /\ Each(PartsIn, <<>>) = <<>> /\ Each(ReasoningIn, <<>>) = <<>>
        /\ Each(CallsInIt, <<>>) = <<>>
    BY EachNone
  <1>3. PartsOf(<<>>) = <<>> /\ ReasoningOf(<<>>) = <<>> /\ CallsOf(<<>>) = <<>>
    BY <1>1, <1>2, SelectionsAreEach, FlattenNone
  <1>4. Pieces(<<>>) = <<>> /\ Texts(<<>>) = <<>> /\ Places(<<>>) = <<>>
    BY DEF Pieces, Texts, Places
  <1>5. QED BY <1>3, <1>4

\* The pieces and places of two lists of blocks.
LEMMA PiecesConcat ==
  ASSUME NEW s \in Seq(BodyItem), NEW t \in Seq(BodyItem)
  PROVE  /\ Pieces(s \o t) = Pieces(s) \o Pieces(t)
         /\ Texts(s \o t) = Texts(s) \o Texts(t)
         /\ Places(s \o t) = Places(s) \o Places(t)
  <1>1. s \o t \in Seq(BodyItem)
    BY ConcatProperties
  <1>2. Each(PieceOf, s \o t) = Each(PieceOf, s) \o Each(PieceOf, t)
    BY SelectionTypes, EachConcat
  <1>3. Each(PlaceIn(BodyItem), s \o t) = Each(PlaceIn(BodyItem), s) \o Each(PlaceIn(BodyItem), t)
    BY SelectionTypes, EachConcat
  <1>4. Each(TextIn, s \o t) = Each(TextIn, s) \o Each(TextIn, t)
    BY SelectionTypes, EachConcat
  <1>5. QED BY <1>1, <1>2, <1>3, <1>4, SelectionsAreEach

\* The places of two lists of calls.
LEMMA CallPlacesConcat ==
  ASSUME NEW s \in Seq(CallType), NEW t \in Seq(CallType)
  PROVE  Places(s \o t) = Places(s) \o Places(t)
  <1>1. s \o t \in Seq(CallType)
    BY ConcatProperties
  <1>2. Each(PlaceIn(CallType), s \o t) = Each(PlaceIn(CallType), s) \o Each(PlaceIn(CallType), t)
    BY SelectionTypes, EachConcat
  <1>3. QED BY <1>1, <1>2, SelectionsAreEach

\* More messages that send on more blocks.
LEMMA SendsMore ==
  ASSUME NEW ms \in Seq(MessageType), NEW ns \in Seq(MessageType),
         NEW bd \in Seq(BodyItem), NEW bs \in Seq(BodyItem), Sends(ms, bd), Sends(ns, bs)
  PROVE  Sends(ms \o ns, bd \o bs)
  <1>1. ASSUME NEW T, OfType(PartsOf(ms), T) = Pieces(OfType(bd, T)),
               OfType(PartsOf(ns), T) = Pieces(OfType(bs, T))
        PROVE  OfType(PartsOf(ms \o ns), T) = Pieces(OfType(bd \o bs, T))
    <2>1. PartsOf(ms \o ns) = PartsOf(ms) \o PartsOf(ns)
      BY SelectionsConcat
    <2>2. PartsOf(ms) \in Seq(Piece) /\ PartsOf(ns) \in Seq(Piece)
      BY SelectionsType
    <2>3. OfType(PartsOf(ms) \o PartsOf(ns), T) = OfType(PartsOf(ms), T) \o OfType(PartsOf(ns), T)
      <3> DEFINE a == PartsOf(ms)
                 b == PartsOf(ns)
      <3> HIDE DEF a, b
      <3>1. OfType(a \o b, T) = OfType(a, T) \o OfType(b, T)
        BY <2>2, OfTypeConcat DEF a, b
      <3>2. QED BY <3>1 DEF a, b
    <2>4. OfType(bd \o bs, T) = OfType(bd, T) \o OfType(bs, T)
      BY OfTypeConcat
    <2>5. OfType(bd, T) \in Seq(BodyItem) /\ OfType(bs, T) \in Seq(BodyItem)
      BY OfTypeType
    <2>6. Pieces(OfType(bd, T) \o OfType(bs, T)) = Pieces(OfType(bd, T)) \o Pieces(OfType(bs, T))
      BY <2>5, PiecesConcat
    <2>7. QED BY <1>1, <2>1, <2>3, <2>4, <2>6
  <1>2. OfType(PartsOf(ms \o ns), {"text", "media", "link"}) = Pieces(OfType(bd \o bs, {"text", "media", "link"}))
    BY <1>1 DEF Sends
  <1>3. OfType(PartsOf(ms \o ns), {"result_text", "no_text"}) = Texts(OfType(bd \o bs, {"tool_result"}))
    <2> DEFINE T == {"result_text", "no_text"}
               R == {"tool_result"}
    <2>1. /\ OfType(PartsOf(ms), T) = Texts(OfType(bd, R))
          /\ OfType(PartsOf(ns), T) = Texts(OfType(bs, R))
      BY DEF Sends
    <2> HIDE DEF T, R
    <2>2. PartsOf(ms \o ns) = PartsOf(ms) \o PartsOf(ns)
      BY SelectionsConcat
    <2>3. OfType(PartsOf(ms) \o PartsOf(ns), T) = OfType(PartsOf(ms), T) \o OfType(PartsOf(ns), T)
      <3> DEFINE a == PartsOf(ms)
                 b == PartsOf(ns)
      <3>1. a \in Seq(Piece) /\ b \in Seq(Piece)
        BY SelectionsType
      <3> HIDE DEF a, b
      <3>2. OfType(a \o b, T) = OfType(a, T) \o OfType(b, T)
        BY <3>1, OfTypeConcat
      <3>3. QED BY <3>2 DEF a, b
    <2>4. OfType(bd \o bs, R) = OfType(bd, R) \o OfType(bs, R)
      BY OfTypeConcat
    <2>5. OfType(bd, R) \in Seq(BodyItem) /\ OfType(bs, R) \in Seq(BodyItem)
      BY OfTypeType
    <2>6. Texts(OfType(bd, R) \o OfType(bs, R)) = Texts(OfType(bd, R)) \o Texts(OfType(bs, R))
      BY <2>5, PiecesConcat
    <2>7. OfType(PartsOf(ms \o ns), T) = Texts(OfType(bd \o bs, R))
      BY <2>1, <2>2, <2>3, <2>4, <2>6
    <2>8. QED BY <2>7 DEF T, R
  <1>4. ReasoningOf(ms \o ns) = Pieces(OfType(bd \o bs, {"thinking"}))
    <2> DEFINE T == {"thinking"}
    <2>1. ReasoningOf(ms) = Pieces(OfType(bd, T)) /\ ReasoningOf(ns) = Pieces(OfType(bs, T))
      BY DEF Sends
    <2> HIDE DEF T
    <2>2. OfType(bd \o bs, T) = OfType(bd, T) \o OfType(bs, T)
      BY OfTypeConcat
    <2>3. OfType(bd, T) \in Seq(BodyItem) /\ OfType(bs, T) \in Seq(BodyItem)
      BY OfTypeType
    <2>4. Pieces(OfType(bd, T) \o OfType(bs, T)) = Pieces(OfType(bd, T)) \o Pieces(OfType(bs, T))
      BY <2>3, PiecesConcat
    <2>5. ReasoningOf(ms \o ns) = ReasoningOf(ms) \o ReasoningOf(ns)
      BY SelectionsConcat
    <2>6. ReasoningOf(ms \o ns) = Pieces(OfType(bd \o bs, T))
      BY <2>1, <2>2, <2>4, <2>5
    <2>7. QED BY <2>6 DEF T
  <1>5. Places(CallsOf(ms \o ns)) = Places(OfType(bd \o bs, {"tool_use"}))
    <2> DEFINE T == {"tool_use"}
    <2>1. Places(CallsOf(ms)) = Places(OfType(bd, T)) /\ Places(CallsOf(ns)) = Places(OfType(bs, T))
      BY DEF Sends
    <2> HIDE DEF T
    <2>2. OfType(bd \o bs, T) = OfType(bd, T) \o OfType(bs, T)
      BY OfTypeConcat
    <2>3. OfType(bd, T) \in Seq(BodyItem) /\ OfType(bs, T) \in Seq(BodyItem)
      BY OfTypeType
    <2>4. Places(OfType(bd, T) \o OfType(bs, T)) = Places(OfType(bd, T)) \o Places(OfType(bs, T))
      BY <2>3, PiecesConcat
    <2>5. CallsOf(ms \o ns) = CallsOf(ms) \o CallsOf(ns)
      BY SelectionsConcat
    <2>6. CallsOf(ms) \in Seq(CallType) /\ CallsOf(ns) \in Seq(CallType)
      BY SelectionsType
    <2>7. Places(CallsOf(ms) \o CallsOf(ns)) = Places(CallsOf(ms)) \o Places(CallsOf(ns))
      BY <2>6, CallPlacesConcat
    <2>8. Places(CallsOf(ms \o ns)) = Places(OfType(bd \o bs, T))
      BY <2>1, <2>2, <2>4, <2>5, <2>7
    <2>9. QED BY <2>8 DEF T
  <1>6. QED BY <1>2, <1>3, <1>4, <1>5 DEF Sends

-----------------------------------------------------------------------------
(* Normalising                                                             *)

\* Places of a body and the override's are places.
LEMMA PlaceTypes ==
  /\ <<>> \in Place
  /\ \A i, k \in Nat : <<i, k>> \in Place
  /\ Override \in Piece
  <1>1. <<>> \in Place /\ \A i, k \in Nat : <<i, k>> \in Place
    BY DEF Place
  <1>2. QED BY <1>1 DEF Override, Piece, Types

\* What Prefixed makes of a content, if it does not leave it alone.
WithPrefix(content) == [content EXCEPT !.parts = <<Override>> \o @]

\* It has the same form, and the override before its parts.
LEMMA WithPrefixType ==
  ASSUME NEW content \in ContentType
  PROVE  /\ WithPrefix(content) \in ContentType
         /\ WithPrefix(content).form = content.form
         /\ WithPrefix(content).parts = <<Override>> \o content.parts
  <1>1. content.parts \in Seq(Piece)
    BY DEF ContentType
  <1>2. <<Override>> \o content.parts \in Seq(Piece)
    <2>1. <<Override>> \in Seq(Piece)
      BY PlaceTypes
    <2>2. QED BY <1>1, <2>1, ConcatProperties
  <1>3. /\ WithPrefix(content).form = content.form
        /\ WithPrefix(content).parts = <<Override>> \o content.parts
    BY DEF WithPrefix, ContentType
  <1>4. WithPrefix(content) \in ContentType
    BY <1>2 DEF WithPrefix, ContentType
  <1>5. QED BY <1>3, <1>4

\* Prefixed leaves a content alone or puts the override in front, never to null.
LEMMA PrefixedCases ==
  ASSUME NEW content \in ContentType
  PROVE  \/ Prefixed(content) = content
         \/ content.form \in {"string", "list"} /\ Prefixed(content) = WithPrefix(content)
  <1>1. CASE content.form = "string"
    BY <1>1 DEF Prefixed, WithPrefix
  <1>2. CASE content.form = "list"
    BY <1>2 DEF Prefixed, WithPrefix
  <1>3. CASE content.form # "string" /\ content.form # "list"
    BY <1>3 DEF Prefixed
  <1>4. QED BY <1>1, <1>2, <1>3

\* A selection that leaves the override out does not see it come.
LEMMA PrefixedSends ==
  ASSUME NEW content \in ContentType, NEW T, "override" \notin T
  PROVE  /\ Prefixed(content) \in ContentType
         /\ OfType(Prefixed(content).parts, T) = OfType(content.parts, T)
  <1>1. CASE Prefixed(content) = content
    BY <1>1
  <1>2. CASE Prefixed(content) = WithPrefix(content)
    <2> DEFINE s == <<Override>>
               t == content.parts
    <2>1. s \in Seq(Piece) /\ t \in Seq(Piece)
      BY PlaceTypes DEF ContentType
    <2>2. OfType(s, T) = <<>>
      <3>1. OfType(s, T) = Kept(Override, T)
        BY OfTypeOne
      <3>2. QED BY <3>1 DEF Kept, Override
    <2> HIDE DEF s, t
    <2>3. OfType(s \o t, T) = OfType(s, T) \o OfType(t, T)
      BY <2>1, OfTypeConcat
    <2>4. OfType(t, T) \in Seq(Piece)
      BY <2>1, OfTypeType
    <2>5. OfType(s \o t, T) = OfType(t, T)
      BY <2>2, <2>3, <2>4, ConcatEmptySeq
    <2>6. WithPrefix(content) \in ContentType /\ WithPrefix(content).parts = s \o t
      BY WithPrefixType DEF s, t
    <2>7. QED BY <1>2, <2>5, <2>6 DEF t
  <1>3. QED BY <1>1, <1>2, PrefixedCases

NormalRole(m) == IF m.role = "developer" THEN "system" ELSE m.role

\* Normalising changes a message's role and content only.
LEMMA NormalizeMessageFields ==
  ASSUME NEW m \in MessageType, NEW p \in BOOLEAN
  PROVE  /\ NormalizeMessage(m, p) \in MessageType
         /\ NormalizeMessage(m, p).role = NormalRole(m)
         /\ NormalizeMessage(m, p).content
              = IF NormalRole(m) = "system" /\ p THEN Prefixed(m.content) ELSE m.content
         /\ NormalizeMessage(m, p).reasoning = m.reasoning
         /\ NormalizeMessage(m, p).calls = m.calls
         /\ NormalizeMessage(m, p).answers = m.answers
  <1> DEFINE c == IF NormalRole(m) = "system" /\ p THEN Prefixed(m.content) ELSE m.content
             n == NormalizeMessage(m, p)
  <1>1. m.content \in ContentType
    BY DEF MessageType
  <1>2. c \in ContentType
    <2>1. Prefixed(m.content) \in ContentType
      <3>1. "override" \notin {}
        OBVIOUS
      <3>2. QED BY <1>1, <3>1, PrefixedSends
    <2>2. QED BY <1>1, <2>1
  <1>3. NormalRole(m) \in {"system", "developer", "user", "assistant", "tool"}
    BY DEF NormalRole, MessageType
  <1>4. n = [m EXCEPT !.role = NormalRole(m), !.content = c]
    BY DEF NormalizeMessage, NormalRole, MessageType
  <1> HIDE DEF c, n
  <1>5. /\ n.role = NormalRole(m) /\ n.content = c /\ n.reasoning = m.reasoning
        /\ n.calls = m.calls /\ n.answers = m.answers
    BY <1>4 DEF MessageType
  <1>6. n \in MessageType
    BY <1>2, <1>3, <1>4 DEF MessageType
  <1>7. QED BY <1>5, <1>6 DEF c, n

\* All of them normalised, and the system message that may come first.
Normals(p) == [m \in MessageType |-> NormalizeMessage(m, p)]
SystemFirst == Message("system", String(<<Override>>))
Inserted(ms, p) ==
  IF p /\ \A i \in DOMAIN ms : NormalRole(ms[i]) # "system" THEN <<SystemFirst>> ELSE <<>>

\* Normalising makes messages of messages.
LEMMA NormalsType ==
  ASSUME NEW p \in BOOLEAN
  PROVE  Normals(p) \in Maps(MessageType, MessageType)
  BY NormalizeMessageFields DEF Normals, Maps

\* The message that may come first is one, and has only the override.
LEMMA SystemFirstType ==
  /\ SystemFirst \in MessageType
  /\ SystemFirst.role = "system" /\ SystemFirst.content = String(<<Override>>)
  /\ SystemFirst.reasoning = <<>> /\ SystemFirst.calls = <<>> /\ SystemFirst.answers = None
  <1>1. <<Override>> \in Seq(Piece)
    BY PlaceTypes
  <1>2. String(<<Override>>) \in ContentType
    BY <1>1 DEF String, ContentType
  <1>3. <<>> \in Seq(Piece) /\ <<>> \in Seq(CallType) /\ None \in Nat
    BY EmptySeq DEF None
  <1>4. QED BY <1>2, <1>3 DEF SystemFirst, Message, MessageType

\* Normalize is the message that may come first, then each one normalised.
LEMMA NormalizeIs ==
  ASSUME NEW ms \in Seq(MessageType), NEW p \in BOOLEAN
  PROVE  /\ Normalize(ms, p) = Inserted(ms, p) \o Each(Normals(p), ms)
         /\ Each(Normals(p), ms) \in Seq(MessageType) /\ Inserted(ms, p) \in Seq(MessageType)
         /\ Normalize(ms, p) \in Seq(MessageType)
  <1> DEFINE ns == Each(Normals(p), ms)
  <1>1. \A i \in DOMAIN ms : ms[i] \in MessageType
    OBVIOUS
  <1>2. [i \in DOMAIN ms |-> NormalizeMessage(ms[i], p)] = ns
    BY <1>1 DEF Each, Normals
  <1>3. \A i \in DOMAIN ms : ns[i].role = NormalRole(ms[i])
    BY <1>1, <1>2, NormalizeMessageFields
  <1>4. ns \in Seq(MessageType)
    BY NormalsType, EachType
  <1> HIDE DEF ns
  <1>5. <<SystemFirst>> \in Seq(MessageType) /\ <<>> \in Seq(MessageType)
    BY SystemFirstType, EmptySeq
  <1>6. Inserted(ms, p) \in Seq(MessageType)
    BY <1>5 DEF Inserted
  <1>7. Normalize(ms, p) = IF p /\ \A i \in DOMAIN ms : ns[i].role # "system"
                           THEN <<SystemFirst>> \o ns ELSE ns
    BY <1>2 DEF Normalize, SystemFirst
  <1>8. Normalize(ms, p) = Inserted(ms, p) \o ns
    <2>1. <<>> \o ns = ns
      BY <1>4, ConcatEmptySeq
    <2>2. QED BY <1>3, <1>7, <2>1 DEF Inserted
  <1>9. Inserted(ms, p) \o ns \in Seq(MessageType)
    BY <1>4, <1>6, ConcatProperties
  <1>10. QED BY <1>4, <1>6, <1>8, <1>9 DEF ns

\* What is sent on stays what the client sent.
LEMMA NormalizeSends ==
  ASSUME NEW ms \in Seq(MessageType), NEW bd \in Seq(BodyItem), NEW p \in BOOLEAN, Sends(ms, bd)
  PROVE  Sends(Normalize(ms, p), bd)
  <1> DEFINE ns == Each(Normals(p), ms)
             pre == Inserted(ms, p)
  <1>1. ns \in Seq(MessageType) /\ pre \in Seq(MessageType) /\ Normalize(ms, p) = pre \o ns
    BY NormalizeIs
  <1>2. DOMAIN ns = DOMAIN ms /\ \A i \in DOMAIN ms : ms[i] \in MessageType /\ ns[i] = NormalizeMessage(ms[i], p)
    BY DEF Each, Normals
  <1> HIDE DEF ns
  <1>3. ASSUME NEW T, "override" \notin T
        PROVE  OfType(PartsOf(ns), T) = OfType(PartsOf(ms), T)
    <2> DEFINE f == Selects(Piece, T)
    <2>1. /\ Each(PartsIn, ns) \in Seq(Seq(Piece)) /\ Each(PartsIn, ms) \in Seq(Seq(Piece))
      BY <1>1, SelectionTypes, EachType
    <2>2. /\ OfType(FlattenSeq(Each(PartsIn, ns)), T) = FlattenSeq(Each(f, Each(PartsIn, ns)))
          /\ OfType(FlattenSeq(Each(PartsIn, ms)), T) = FlattenSeq(Each(f, Each(PartsIn, ms)))
      BY <2>1, OfTypeFlatten
    <2>3. ASSUME NEW i \in DOMAIN ms
          PROVE  f[PartsIn[ns[i]]] = f[PartsIn[ms[i]]]
      <3>1. ms[i] \in MessageType /\ ms[i].content \in ContentType /\ ms[i].content.parts \in Seq(Piece)
        BY <1>2 DEF MessageType, ContentType
      <3>2. /\ ns[i] \in MessageType
            /\ ns[i].content = ms[i].content \/ ns[i].content = Prefixed(ms[i].content)
        BY <1>2, <3>1, NormalizeMessageFields
      <3>3. ns[i].content.parts \in Seq(Piece)
        BY <3>2 DEF MessageType, ContentType
      <3>4. OfType(ns[i].content.parts, T) = OfType(ms[i].content.parts, T)
        BY <1>3, <3>1, <3>2, PrefixedSends
      <3>5. QED BY <3>1, <3>2, <3>3, <3>4 DEF PartsIn, Selects
    <2> HIDE DEF f
    <2>4. Each(f, Each(PartsIn, ns)) = Each(f, Each(PartsIn, ms))
      BY <1>2, <2>3 DEF Each
    <2>5. QED BY <1>1, <2>2, <2>4, SelectionsAreEach
  <1>4. ReasoningOf(ns) = ReasoningOf(ms) /\ CallsOf(ns) = CallsOf(ms)
    <2>1. \A i \in DOMAIN ms : ns[i].reasoning = ms[i].reasoning /\ ns[i].calls = ms[i].calls
      BY <1>2, NormalizeMessageFields
    <2>2. QED BY <1>2, <2>1 DEF ReasoningOf, CallsOf
  <1>5. Sends(ns, bd)
    <2>1. OfType(PartsOf(ns), {"text", "media", "link"}) = OfType(PartsOf(ms), {"text", "media", "link"})
      BY <1>3
    <2>2. OfType(PartsOf(ns), {"result_text", "no_text"}) = OfType(PartsOf(ms), {"result_text", "no_text"})
      BY <1>3
    <2>3. QED BY <1>4, <2>1, <2>2 DEF Sends
  <1>6. Sends(pre, <<>>)
    <2>1. CASE pre = <<>>
      <3>1. Sends(<<>>, <<>>)
        BY SelectionsNone, OfTypeNil DEF Sends
      <3>2. QED BY <2>1, <3>1
    <2>2. CASE pre = <<SystemFirst>>
      <3>1. /\ PartsOf(pre) = <<Override>> /\ ReasoningOf(pre) = <<>> /\ CallsOf(pre) = <<>>
        BY <2>2, SystemFirstType, SelectionsOne DEF String
      <3>2. /\ OfType(<<Override>>, {"text", "media", "link"}) = <<>>
            /\ OfType(<<Override>>, {"result_text", "no_text"}) = <<>>
        BY OfTypeOne DEF Kept, Override
      <3>3. QED BY <3>1, <3>2, SelectionsNone, OfTypeNil DEF Sends
    <2>3. QED BY <2>1, <2>2 DEF Inserted
  <1> HIDE DEF pre
  <1>7. <<>> \in Seq(BodyItem) /\ <<>> \o bd = bd
    BY EmptySeq, ConcatEmptySeq
  <1>8. Sends(pre \o ns, <<>> \o bd)
    BY <1>1, <1>5, <1>6, <1>7, SendsMore
  <1>9. QED BY <1>1, <1>7, <1>8

-----------------------------------------------------------------------------
(* The blocks of a message and what is made of them                        *)

\* The parts of ConvertMessage.
BlocksOf(m) == Placed(m.blocks, read + 1)
CallsFor(m) == Calls(OfType(BlocksOf(m), {"tool_use"}))
ResultsIn(m) == OfType(BlocksOf(m), {"tool_result"})
KnownAfter(m) == Remembered(CallsFor(m))
MainFor(m) ==
  MainMessage(m.role, OfType(BlocksOf(m), {"text", "media", "link", "other"}),
              OfType(BlocksOf(m), {"thinking"}), CallsFor(m))
AnswersFor(m) == ToolMessages(ResultsIn(m), KnownAfter(m), minted + Len(CallsFor(m)))

\* The blocks of a user's message and of an assistant's.
UserTypes == {"text", "media", "link", "other", "tool_result"}
AssistantTypes == {"text", "thinking", "tool_use"}

\* A message of an Anthropic body is a user's or an assistant's.
LEMMA AnthropicMessageCases ==
  ASSUME NEW m \in AnthropicMessages
  PROVE  /\ m.blocks \in Seq(UserBlocks \cup AssistantBlocks)
         /\ \/ m.role = "user" /\ \A k \in DOMAIN m.blocks : m.blocks[k].type \in UserTypes
            \/ m.role = "assistant" /\ \A k \in DOMAIN m.blocks : m.blocks[k].type \in AssistantTypes
  <1> DEFINE S == UserBlocks \cup AssistantBlocks
  <1>1. ASSUME NEW B, NEW s \in BoundedSeq(B, MaxBlocks)
        PROVE  \E j \in Nat : s \in [1 .. j -> B]
    BY BoundsAssumption DEF BoundedSeq, SeqOf
  <1>2. CASE m \in [role : {"user"}, blocks : BoundedSeq(UserBlocks, MaxBlocks)]
    <2>1. m.role = "user" /\ m.blocks \in BoundedSeq(UserBlocks, MaxBlocks)
      BY <1>2
    <2>2. PICK j \in Nat : m.blocks \in [1 .. j -> UserBlocks]
      BY <1>1, <2>1
    <2>3. \A b \in UserBlocks : b.type \in UserTypes
      BY DEF UserBlocks, UserTypes, Plain, ToolResult
    <2>4. \A k \in DOMAIN m.blocks : m.blocks[k].type \in UserTypes
      BY <2>2, <2>3
    <2>5. m.blocks \in [1 .. j -> S]
      BY <2>2
    <2>6. m.blocks \in Seq(S)
      <3> HIDE DEF S
      <3>1. QED BY <2>2, <2>5
    <2>7. QED BY <2>1, <2>4, <2>6
  <1>3. CASE m \in [role : {"assistant"}, blocks : BoundedSeq(AssistantBlocks, MaxBlocks)]
    <2>1. m.role = "assistant" /\ m.blocks \in BoundedSeq(AssistantBlocks, MaxBlocks)
      BY <1>3
    <2>2. PICK j \in Nat : m.blocks \in [1 .. j -> AssistantBlocks]
      BY <1>1, <2>1
    <2>3. \A b \in AssistantBlocks : b.type \in AssistantTypes
      BY DEF AssistantBlocks, AssistantTypes, Plain, ToolUse
    <2>4. \A k \in DOMAIN m.blocks : m.blocks[k].type \in AssistantTypes
      BY <2>2, <2>3
    <2>5. m.blocks \in [1 .. j -> S]
      BY <2>2
    <2>6. m.blocks \in Seq(S)
      <3> HIDE DEF S
      <3>1. QED BY <2>2, <2>5
    <2>7. QED BY <2>1, <2>4, <2>6
  <1>4. QED BY <1>2, <1>3 DEF AnthropicMessages

\* The fields of a client's block.
LEMMA BlockTypes ==
  ASSUME NEW b \in UserBlocks \cup AssistantBlocks
  PROVE  /\ b.type \in Types /\ b.tool \in ToolIds \cup {None}
         /\ b.holds \in SUBSET {"text", "media"}
         /\ b.type \in ToolTypes => b.tool \in ToolIds
  BY DEF UserBlocks, AssistantBlocks, Plain, ToolUse, ToolResult, ResultContents, Types, ToolTypes

\* Placed blocks are items of a body, of the types their role may send.
LEMMA BlocksType ==
  ASSUME NEW m \in AnthropicMessages, read \in Nat
  PROVE  /\ BlocksOf(m) \in Seq(PlacedBlock) /\ BlocksOf(m) \in Seq(BodyItem)
         /\ \/ m.role = "user" /\ BlocksOf(m) \in Seq(Typed(PlacedBlock, UserTypes))
            \/ m.role = "assistant" /\ BlocksOf(m) \in Seq(Typed(PlacedBlock, AssistantTypes))
  <1> DEFINE bs == m.blocks
             n == Len(m.blocks)
             ps == BlocksOf(m)
  <1>1. bs \in Seq(UserBlocks \cup AssistantBlocks)
    BY AnthropicMessageCases
  <1>2. n \in Nat /\ DOMAIN bs = 1 .. n /\ \A k \in 1 .. n : bs[k] \in UserBlocks \cup AssistantBlocks
    BY <1>1
  <1>3. ps = [k \in 1 .. n |-> [type |-> bs[k].type, tool |-> bs[k].tool, holds |-> bs[k].holds,
                              at |-> <<read + 1, k>>]]
    BY <1>2 DEF BlocksOf, Placed
  <1>4. ASSUME NEW k \in 1 .. n
        PROVE  ps[k] \in PlacedBlock /\ ps[k].type = bs[k].type
    <2>1. <<read + 1, k>> \in Place
      <3>1. read + 1 \in Nat /\ k \in Nat
        BY <1>2
      <3>2. QED BY <3>1, PlaceTypes
    <2>2. /\ bs[k].type \in Types /\ bs[k].tool \in ToolIds \cup {None}
          /\ bs[k].holds \in SUBSET {"text", "media"}
          /\ bs[k].type \in ToolTypes => bs[k].tool \in ToolIds
      BY <1>2, BlockTypes
    <2>3. QED BY <1>3, <2>1, <2>2 DEF PlacedBlock
  <1>5. DOMAIN ps = 1 .. n
    BY <1>3
  <1> HIDE DEF ps, n
  <1>6. ASSUME NEW A, \A k \in 1 .. n : ps[k] \in A
        PROVE  ps \in Seq(A)
    <2>1. ps = [k \in 1 .. n |-> ps[k]]
      BY <1>3, <1>5
    <2>2. [k \in 1 .. n |-> ps[k]] \in Seq(A)
      BY <1>2, <1>6, IsASeq
    <2>3. QED BY <2>1, <2>2
  <1>7. ps \in Seq(PlacedBlock)
    BY <1>4, <1>6
  <1>8. ps \in Seq(BodyItem)
    <2>1. \A k \in 1 .. n : ps[k] \in BodyItem
      BY <1>4 DEF BodyItem
    <2>2. QED BY <2>1, <1>6
  <1>9. CASE m.role = "user" /\ \A k \in DOMAIN bs : bs[k].type \in UserTypes
    <2>1. \A k \in 1 .. n : ps[k] \in Typed(PlacedBlock, UserTypes)
      BY <1>2, <1>4, <1>9 DEF Typed
    <2>2. ps \in Seq(Typed(PlacedBlock, UserTypes))
      BY <2>1, <1>6
    <2>3. QED BY <1>7, <1>8, <1>9, <2>2 DEF ps
  <1>10. CASE m.role = "assistant" /\ \A k \in DOMAIN bs : bs[k].type \in AssistantTypes
    <2>1. \A k \in 1 .. n : ps[k] \in Typed(PlacedBlock, AssistantTypes)
      BY <1>2, <1>4, <1>10 DEF Typed
    <2>2. ps \in Seq(Typed(PlacedBlock, AssistantTypes))
      BY <2>1, <1>6
    <2>3. QED BY <1>7, <1>8, <1>10, <2>2 DEF ps
  <1>11. QED BY <1>9, <1>10, AnthropicMessageCases

\* Selections of the blocks that are of no such type are empty.
LEMMA NoneOfOthers ==
  ASSUME NEW A, NEW U, NEW T, T \cap U = {}, NEW s \in Seq(Typed(A, U))
  PROVE  OfType(s, T) = <<>>
  <1> DEFINE B == Typed(A, U)
  <1>1. \A x \in B : x.type \notin T
    BY DEF Typed
  <1> HIDE DEF B
  <1>2. s \in Seq(B) => OfType(s, T) = <<>>
    BY <1>1, OfTypeNone
  <1>3. QED BY <1>2 DEF B

\* Selections of blocks that are all of the types are the blocks.
LEMMA AllOfThese ==
  ASSUME NEW A, NEW U, NEW T, U \subseteq T, NEW s \in Seq(Typed(A, U))
  PROVE  OfType(s, T) = s
  <1> DEFINE B == Typed(A, U)
  <1>1. \A x \in B : x.type \in T
    BY DEF Typed
  <1> HIDE DEF B
  <1>2. s \in Seq(B) => OfType(s, T) = s
    BY <1>1, OfTypeAll
  <1>3. QED BY <1>2 DEF B

\* Pieces of blocks of some types are pieces of these types.
LEMMA PiecesTyped ==
  ASSUME NEW T, NEW s \in Seq(Typed(BodyItem, T))
  PROVE  Pieces(s) \in Seq(Typed(Piece, T)) /\ Len(Pieces(s)) = Len(s)
  <1> DEFINE A == Typed(BodyItem, T)
             f == [x \in A |-> PieceOf[x]]
  <1>1. \A x \in A : x \in BodyItem /\ PieceOf[x] \in Piece /\ PieceOf[x].type = x.type
    BY SelectionTypes DEF Typed, PieceOf, Maps
  <1>2. \A x \in A : PieceOf[x] \in Typed(Piece, T)
    BY <1>1 DEF Typed
  <1>3. f \in Maps(A, Typed(Piece, T))
    BY <1>2 DEF Maps
  <1>4. \A k \in DOMAIN s : s[k] \in A
    OBVIOUS
  <1>5. Pieces(s) = Each(f, s)
    <2>1. \A k \in DOMAIN s : f[s[k]] = [type |-> s[k].type, at |-> s[k].at]
      BY <1>1, <1>4 DEF PieceOf
    <2> HIDE DEF f, A
    <2>2. QED BY <2>1 DEF Pieces, Each
  <1> HIDE DEF f, A
  <1>6. s \in Seq(A)
    BY DEF A
  <1>7. QED BY <1>3, <1>5, <1>6, EachType

\* What is kept of results is a result's text, or says that it has none.
LEMMA TextsTyped ==
  ASSUME NEW s \in Seq(BodyItem)
  PROVE  Texts(s) \in Seq(Typed(Piece, {"result_text", "no_text"}))
  <1> DEFINE T == {"result_text", "no_text"}
             A == Typed(Piece, T)
  <1>1. TextIn \in Maps(BodyItem, A)
    <2>1. \A b \in BodyItem : TextIn[b] \in Piece /\ TextIn[b].type \in T
      BY SelectionTypes DEF TextIn, Text, Maps
    <2>2. \A b \in BodyItem : TextIn[b] \in A
      BY <2>1 DEF Typed
    <2> HIDE DEF A
    <2>3. QED BY <2>2 DEF TextIn, Maps
  <1> HIDE DEF A
  <1>2. Each(TextIn, s) \in Seq(A)
    BY <1>1, EachType
  <1>3. QED BY <1>2, SelectionsAreEach DEF A

\* What is selected of a message's blocks.
LEMMA Selected ==
  ASSUME NEW m \in AnthropicMessages, read \in Nat, NEW T
  PROVE  /\ OfType(BlocksOf(m), T) \in Seq(Typed(PlacedBlock, T))
         /\ OfType(BlocksOf(m), T) \in Seq(Typed(BodyItem, T))
         /\ OfType(BlocksOf(m), T) \in Seq(BodyItem)
  BY BlocksType, OfTypeType

\* A new call for every tool_use, numbered from minted + 1.
LEMMA CallsType ==
  ASSUME NEW s \in Seq(Typed(PlacedBlock, {"tool_use"})), minted \in Nat
  PROVE  /\ Calls(s) \in Seq(CallType) /\ Len(Calls(s)) = Len(s)
         /\ \A k \in 1 .. Len(s) :
              /\ Calls(s)[k] = [call |-> minted + k, tool |-> s[k].tool, at |-> s[k].at]
              /\ s[k] \in PlacedBlock /\ s[k].type = "tool_use"
         /\ Places(Calls(s)) = Places(s)
  <1> DEFINE n == Len(s)
             cs == Calls(s)
             A == Typed(PlacedBlock, {"tool_use"})
  <1>1. n \in Nat /\ DOMAIN s = 1 .. n /\ \A k \in 1 .. n : s[k] \in A
    OBVIOUS
  <1>2. \A x \in A : x \in PlacedBlock /\ x.type = "tool_use" /\ x.tool \in ToolIds /\ x.at \in Place
    BY DEF Typed, PlacedBlock, ToolTypes
  <1> HIDE DEF A, n
  <1>3. cs = [k \in 1 .. n |-> [call |-> minted + k, tool |-> s[k].tool, at |-> s[k].at]]
    BY <1>1 DEF Calls
  <1>4. ASSUME NEW k \in 1 .. n
        PROVE  [call |-> minted + k, tool |-> s[k].tool, at |-> s[k].at] \in CallType
    <2>1. minted + k \in Nat \ {0}
      BY <1>1
    <2>2. s[k].tool \in ToolIds /\ s[k].at \in Place
      BY <1>1, <1>2
    <2>3. QED BY <2>1, <2>2 DEF CallType
  <1>5. cs \in [1 .. n -> CallType]
    BY <1>3, <1>4
  <1>6. cs \in Seq(CallType) /\ Len(cs) = n
    <2> HIDE DEF cs
    <2>1. QED BY <1>1, <1>5
  <1>7. Places(cs) = Places(s)
    BY <1>1, <1>3 DEF Places
  <1>8. QED BY <1>1, <1>2, <1>3, <1>6, <1>7 DEF n

\* The content made of text, media and blocks of no known type.
LEMMA ContentIs ==
  ASSUME NEW s \in Seq(BodyItem)
  PROVE  /\ Content(s) \in ContentType
         /\ Content(s).form \in {"string", "list"}
         /\ Content(s).parts = Pieces(OfType(s, {"text", "media", "link"}))
  <1> DEFINE known == Pieces(OfType(s, {"text", "media", "link"}))
  <1>1. known \in Seq(Piece)
    BY OfTypeType, SelectionsType
  <1>2. Content(s) = String(known) \/ Content(s) = List(known)
    BY DEF Content
  <1> HIDE DEF known
  <1>3. /\ String(known) \in ContentType /\ String(known).form = "string" /\ String(known).parts = known
        /\ List(known) \in ContentType /\ List(known).form = "list" /\ List(known).parts = known
    BY <1>1 DEF String, List, ContentType
  <1>4. QED BY <1>2, <1>3 DEF known

\* The main message, if there is one.
IsMain(msg, role, texts, thoughts, calls) ==
  /\ msg \in MessageType
  /\ msg.role \in {"user", "assistant"}
  /\ msg.content.form \in {"string", "list"} \/ msg.content.parts = <<>>
  /\ msg.content.parts = Pieces(OfType(texts, {"text", "media", "link"}))
  /\ msg.reasoning = IF role = "assistant" THEN Pieces(thoughts) ELSE <<>>
  /\ msg.calls = calls
  /\ msg.answers = None

\* A main message is made unless there is nothing for it.
LEMMA MainIs ==
  ASSUME NEW role \in {"user", "assistant"}, NEW texts \in Seq(BodyItem),
         NEW thoughts \in Seq(BodyItem), NEW calls \in Seq(CallType)
  PROVE  \/ \E msg : /\ MainMessage(role, texts, thoughts, calls) = <<msg>>
                     /\ IsMain(msg, role, texts, thoughts, calls)
         \/ /\ MainMessage(role, texts, thoughts, calls) = <<>>
            /\ texts = <<>> /\ thoughts = <<>> /\ calls = <<>>
  <1> DEFINE r == IF role = "assistant" THEN Pieces(thoughts) ELSE <<>>
             c == IF texts = <<>> THEN String(<<>>) ELSE Content(texts)
             one == [role |-> role, content |-> c, reasoning |-> r, calls |-> calls, answers |-> None]
             two == [role |-> "assistant", content |-> NoContent, reasoning |-> <<>>,
                     calls |-> calls, answers |-> None]
  <1>1. r \in Seq(Piece)
    BY SelectionsType, EmptySeq
  <1>2. c \in ContentType /\ c.form \in {"string", "list"} /\ c.parts = Pieces(OfType(texts, {"text", "media", "link"}))
    <2>1. CASE texts = <<>>
      <3>1. Pieces(OfType(texts, {"text", "media", "link"})) = <<>>
        BY <2>1, OfTypeNil, SelectionsNone
      <3>2. <<>> \in Seq(Piece)
        BY EmptySeq
      <3>3. String(<<>>) \in ContentType /\ String(<<>>).form = "string" /\ String(<<>>).parts = <<>>
        BY <3>2 DEF String, ContentType
      <3>4. QED BY <2>1, <3>1, <3>3
    <2>2. CASE texts # <<>>
      BY <2>2, ContentIs
    <2>3. QED BY <2>1, <2>2
  <1>3. None \in Nat
    BY DEF None
  <1> HIDE DEF r, c
  <1>4. IsMain(one, role, texts, thoughts, calls)
    <2>1. one \in MessageType
      BY <1>1, <1>2, <1>3 DEF MessageType
    <2>2. QED BY <2>1, <1>2 DEF IsMain, r
  <1>5. CASE texts # <<>> \/ thoughts # <<>>
    <2>1. MainMessage(role, texts, thoughts, calls) = <<one>>
      <3>1. MainMessage(role, texts, thoughts, calls)
              = <<[Message(role, c) EXCEPT !.reasoning = r, !.calls = calls]>>
        BY <1>5 DEF MainMessage, r, c
      <3>2. [Message(role, c) EXCEPT !.reasoning = r, !.calls = calls] = one
        <4> DEFINE x == Message(role, c)
                   y == [x EXCEPT !.reasoning = r]
                   z == [y EXCEPT !.calls = calls]
        <4>1. y = [role |-> role, content |-> c, reasoning |-> r, calls |-> <<>>, answers |-> None]
          BY DEF Message
        <4> HIDE DEF y
        <4>2. z = one
          BY <4>1
        <4>3. [x EXCEPT !.reasoning = r, !.calls = calls] = [[x EXCEPT !.reasoning = r] EXCEPT !.calls = calls]
          OBVIOUS
        <4>4. QED BY <4>2, <4>3 DEF y
      <3>3. QED BY <3>1, <3>2
    <2>2. QED BY <2>1, <1>4
  <1>6. CASE texts = <<>> /\ thoughts = <<>> /\ calls # <<>>
    <2>1. MainMessage(role, texts, thoughts, calls) = <<two>>
      BY <1>6 DEF MainMessage, Message
    <2>2. <<>> \in Seq(Piece)
      BY EmptySeq
    <2>3. NoContent \in ContentType /\ NoContent.parts = <<>>
      BY <2>2 DEF NoContent, ContentType
    <2>4. two \in MessageType
      BY <2>2, <2>3, <1>3 DEF MessageType
    <2>5. Pieces(OfType(texts, {"text", "media", "link"})) = <<>> /\ Pieces(thoughts) = <<>>
      BY <1>6, OfTypeNil, SelectionsNone
    <2>6. IsMain(two, role, texts, thoughts, calls)
      BY <2>3, <2>4, <2>5 DEF IsMain
    <2>7. QED BY <2>1, <2>6
  <1>7. CASE texts = <<>> /\ thoughts = <<>> /\ calls = <<>>
    BY <1>7 DEF MainMessage
  <1>8. QED BY <1>5, <1>6, <1>7

\* The tool messages, one for each result.
IsAnswer(msg, result, known, own) ==
  /\ msg \in MessageType
  /\ msg.role = "tool"
  /\ msg.content = String(<<Text(result)>>)
  /\ msg.reasoning = <<>>
  /\ msg.calls = <<>>
  /\ msg.answers = IF known[result.tool] # None THEN known[result.tool] ELSE own

\* There is one answer for each result, in their order.
LEMMA AnswersAre ==
  ASSUME NEW s \in Seq(Typed(PlacedBlock, {"tool_result"})), NEW from \in Nat,
         NEW known \in [ToolIds -> Nat]
  PROVE  /\ ToolMessages(s, known, from) \in Seq(MessageType)
         /\ Len(ToolMessages(s, known, from)) = Len(s)
         /\ \A k \in 1 .. Len(s) :
              /\ IsAnswer(ToolMessages(s, known, from)[k], s[k], known, from + k)
              /\ s[k] \in PlacedBlock /\ s[k].type = "tool_result" /\ s[k].tool \in ToolIds
  <1> DEFINE n == Len(s)
             A == Typed(PlacedBlock, {"tool_result"})
             ans(k) == IF known[s[k].tool] # None THEN known[s[k].tool] ELSE from + k
             con(k) == String(<<Text(s[k])>>)
             msg(k) == [role |-> "tool", content |-> con(k), reasoning |-> <<>>, calls |-> <<>>,
                        answers |-> ans(k)]
             ms == ToolMessages(s, known, from)
  <1>1. n \in Nat /\ DOMAIN s = 1 .. n /\ \A k \in 1 .. n : s[k] \in A
    OBVIOUS
  <1>2. \A x \in A : x \in PlacedBlock /\ x.type = "tool_result" /\ x.tool \in ToolIds /\ x.at \in Place
    BY DEF Typed, PlacedBlock, ToolTypes
  <1> HIDE DEF A, n
  <1>3. ms = [k \in 1 .. n |-> msg(k)]
    BY <1>1 DEF ToolMessages, Message
  <1>4. ASSUME NEW k \in 1 .. n PROVE IsAnswer(msg(k), s[k], known, from + k)
    <2>1. s[k].tool \in ToolIds /\ s[k].at \in Place /\ from + k \in Nat
      BY <1>1, <1>2
    <2>2. ans(k) \in Nat
      BY <2>1
    <2>3. con(k) \in ContentType
      <3> DEFINE x == Text(s[k])
      <3>1. x \in Piece
        BY <2>1 DEF Text, Piece, Types
      <3> HIDE DEF x
      <3>2. <<x>> \in Seq(Piece)
        BY <3>1
      <3>3. String(<<x>>) \in ContentType
        BY <3>2 DEF String, ContentType
      <3>4. QED BY <3>3 DEF x
    <2>4. <<>> \in Seq(Piece) /\ <<>> \in Seq(CallType)
      BY EmptySeq
    <2> HIDE DEF con
    <2>5. msg(k) \in MessageType
      BY <2>2, <2>3, <2>4 DEF MessageType
    <2>6. QED BY <2>5 DEF IsAnswer, con
  <1>5. \A k \in 1 .. n : ms[k] = msg(k)
    BY <1>3
  <1>6. \A k \in 1 .. n : IsAnswer(ms[k], s[k], known, from + k)
    <2> HIDE DEF msg, ms
    <2>1. QED BY <1>4, <1>5
  <1>7. ms \in [1 .. n -> MessageType]
    <2>1. \A k \in 1 .. n : ms[k] \in MessageType
      BY <1>6 DEF IsAnswer
    <2> HIDE DEF msg
    <2>2. QED BY <2>1, <1>3
  <1>8. ms \in Seq(MessageType) /\ Len(ms) = n
    <2> HIDE DEF ms
    <2>1. QED BY <1>1, <1>7
  <1>9. QED BY <1>1, <1>2, <1>6, <1>8 DEF n

\* A set of numbers up to n that is not empty has a largest one.
LEMMA LargestExists ==
  ASSUME NEW n \in Nat, NEW S \in SUBSET (1 .. n), S # {}
  PROVE  \E k \in S : \A j \in S : j <= k
  <1> DEFINE Q == {i \in Nat : \A U \in SUBSET (1 .. i) : U # {} => \E k \in U : \A j \in U : j <= k}
  <1>1. 0 \in Q
    <2>1. 1 .. 0 = {}
      OBVIOUS
    <2>2. QED BY <2>1
  <1>2. ASSUME NEW i \in Nat, i \in Q PROVE i + 1 \in Q
    <2>1. SUFFICES ASSUME NEW U \in SUBSET (1 .. i + 1), U # {}
                   PROVE  \E k \in U : \A j \in U : j <= k
      OBVIOUS
    <2>2. CASE i + 1 \in U
      BY <2>2
    <2>3. CASE i + 1 \notin U
      <3>1. U \in SUBSET (1 .. i)
        BY <2>3
      <3>2. QED BY <3>1, <2>1, <1>2
    <2>4. QED BY <2>2, <2>3
  <1>3. Nat \subseteq Q
    <2> HIDE DEF Q
    <2>1. QED BY <1>1, <1>2, Induction
  <1>4. n \in Q
    BY <1>3
  <1>5. QED BY <1>4

\* The dictionary after some calls.
LEMMA RememberedIs ==
  ASSUME NEW calls \in Seq(CallType), callOf \in [ToolIds -> Nat]
  PROVE  /\ Remembered(calls) \in [ToolIds -> Nat]
         /\ \A t \in ToolIds :
              \/ /\ Remembered(calls)[t] = callOf[t]
                 /\ \A k \in DOMAIN calls : calls[k].tool # t
              \/ \E k \in DOMAIN calls :
                   /\ Remembered(calls)[t] = calls[k].call /\ calls[k].tool = t
                   /\ \A j \in DOMAIN calls : calls[j].tool = t => j <= k
  <1> DEFINE mine(t) == {k \in DOMAIN calls : calls[k].tool = t}
             top(t) == CHOOSE k \in mine(t) : \A j \in mine(t) : j <= k
             r == Remembered(calls)
  <1>1. /\ DOMAIN calls = 1 .. Len(calls) /\ Len(calls) \in Nat
        /\ \A k \in DOMAIN calls : calls[k].call \in Nat
    <2>1. \A k \in DOMAIN calls : calls[k] \in CallType
      OBVIOUS
    <2>2. QED BY <2>1 DEF CallType
  <1>2. r = [t \in ToolIds |-> IF mine(t) = {} THEN callOf[t] ELSE calls[top(t)].call]
    BY DEF Remembered
  <1>3. ASSUME NEW t \in ToolIds, mine(t) # {}
        PROVE  top(t) \in mine(t) /\ \A j \in mine(t) : j <= top(t)
    <2>1. mine(t) \in SUBSET (1 .. Len(calls))
      BY <1>1
    <2> DEFINE S == mine(t)
    <2> HIDE DEF S
    <2>2. \E k \in S : \A j \in S : j <= k
      BY <1>1, <1>3, <2>1, LargestExists DEF S
    <2>3. QED BY <2>2 DEF S
  <1>4. ASSUME NEW t \in ToolIds
        PROVE  /\ r[t] \in Nat
               /\ \/ /\ r[t] = callOf[t]
                     /\ \A k \in DOMAIN calls : calls[k].tool # t
                  \/ \E k \in DOMAIN calls :
                       /\ r[t] = calls[k].call /\ calls[k].tool = t
                       /\ \A j \in DOMAIN calls : calls[j].tool = t => j <= k
    <2>1. CASE mine(t) = {}
      <3>1. r[t] = callOf[t]
        BY <1>2, <2>1
      <3>2. \A k \in DOMAIN calls : calls[k].tool # t
        BY <2>1
      <3>3. QED BY <3>1, <3>2
    <2>2. CASE mine(t) # {}
      <3>1. r[t] = calls[top(t)].call
        <4> HIDE DEF top, mine
        <4>1. QED BY <1>2, <2>2
      <3>2. top(t) \in DOMAIN calls /\ calls[top(t)].tool = t
        <4>1. top(t) \in mine(t)
          BY <1>3, <2>2
        <4> HIDE DEF top
        <4>2. QED BY <4>1
      <3>3. \A j \in DOMAIN calls : calls[j].tool = t => j <= top(t)
        <4>1. \A j \in mine(t) : j <= top(t)
          BY <1>3, <2>2
        <4> HIDE DEF top
        <4>2. QED BY <4>1
      <3> HIDE DEF top, mine, r
      <3>4. QED BY <1>1, <3>1, <3>2, <3>3
    <2>3. QED BY <2>1, <2>2
  <1>5. r \in [ToolIds -> Nat]
    <2>1. \A t \in ToolIds : r[t] \in Nat
      BY <1>4
    <2>2. r = [t \in ToolIds |-> r[t]]
      BY <1>2
    <2> HIDE DEF r
    <2>3. QED BY <2>1, <2>2
  <1>6. QED BY <1>4, <1>5

\* The parts of ConvertMessage, with their types.
Reading == read \in Nat /\ minted \in Nat /\ callOf \in [ToolIds -> Nat]

\* The types of what ConvertMessage computes.
LEMMA ConvertTypes ==
  ASSUME NEW m \in AnthropicMessages, Reading
  PROVE  /\ CallsFor(m) \in Seq(CallType) /\ Len(CallsFor(m)) \in Nat
         /\ Places(CallsFor(m)) = Places(OfType(BlocksOf(m), {"tool_use"}))
         /\ ResultsIn(m) \in Seq(Typed(PlacedBlock, {"tool_result"})) /\ Len(ResultsIn(m)) \in Nat
         /\ KnownAfter(m) \in [ToolIds -> Nat]
         /\ MainFor(m) \in Seq(MessageType)
         /\ AnswersFor(m) \in Seq(MessageType) /\ Len(AnswersFor(m)) = Len(ResultsIn(m))
         /\ m.role \in {"user", "assistant"}
  <1>1. read \in Nat /\ minted \in Nat /\ callOf \in [ToolIds -> Nat]
    BY DEF Reading
  <1>2. OfType(BlocksOf(m), {"tool_use"}) \in Seq(Typed(PlacedBlock, {"tool_use"}))
    BY <1>1, Selected
  <1>3. /\ CallsFor(m) \in Seq(CallType)
        /\ Places(CallsFor(m)) = Places(OfType(BlocksOf(m), {"tool_use"}))
    BY <1>1, <1>2, CallsType DEF CallsFor
  <1>4. Len(CallsFor(m)) \in Nat
    BY <1>3, LenProperties
  <1>5. ResultsIn(m) \in Seq(Typed(PlacedBlock, {"tool_result"}))
    BY <1>1, Selected DEF ResultsIn
  <1>6. Len(ResultsIn(m)) \in Nat
    BY <1>5, LenProperties
  <1>7. KnownAfter(m) \in [ToolIds -> Nat]
    BY <1>1, <1>3, RememberedIs DEF KnownAfter
  <1>8. m.role \in {"user", "assistant"}
    BY AnthropicMessageCases
  <1>9. MainFor(m) \in Seq(MessageType)
    <2> DEFINE texts == OfType(BlocksOf(m), {"text", "media", "link", "other"})
               thoughts == OfType(BlocksOf(m), {"thinking"})
               calls == CallsFor(m)
    <2>1. texts \in Seq(BodyItem) /\ thoughts \in Seq(BodyItem) /\ calls \in Seq(CallType)
      BY <1>1, <1>3, Selected
    <2>2. MainFor(m) = MainMessage(m.role, texts, thoughts, calls)
      BY DEF MainFor
    <2> HIDE DEF texts, thoughts, calls
    <2>3. \/ \E msg \in MessageType : MainFor(m) = <<msg>>
          \/ MainFor(m) = <<>>
      BY <1>8, <2>1, <2>2, MainIs DEF IsMain
    <2>4. ASSUME NEW msg \in MessageType PROVE <<msg>> \in Seq(MessageType)
      OBVIOUS
    <2>5. <<>> \in Seq(MessageType)
      BY EmptySeq
    <2>6. QED BY <2>3, <2>4, <2>5
  <1>10. AnswersFor(m) \in Seq(MessageType) /\ Len(AnswersFor(m)) = Len(ResultsIn(m))
    <2> DEFINE from == minted + Len(CallsFor(m))
    <2>1. from \in Nat
      BY <1>1, <1>4
    <2> HIDE DEF from
    <2>2. QED BY <2>1, <1>5, <1>7, AnswersAre DEF AnswersFor, from
  <1>11. QED BY <1>3, <1>4, <1>5, <1>6, <1>7, <1>8, <1>9, <1>10

\* The tool messages send on the results, and nothing else.
LEMMA AnswersSend ==
  ASSUME NEW m \in AnthropicMessages, Reading
  PROVE  /\ PartsOf(AnswersFor(m)) = Texts(ResultsIn(m))
         /\ ReasoningOf(AnswersFor(m)) = <<>>
         /\ CallsOf(AnswersFor(m)) = <<>>
  <1> DEFINE s == ResultsIn(m)
             n == Len(s)
             ms == AnswersFor(m)
             known == KnownAfter(m)
             from == minted + Len(CallsFor(m))
  <1>1. /\ s \in Seq(Typed(PlacedBlock, {"tool_result"})) /\ n \in Nat
        /\ known \in [ToolIds -> Nat] /\ ms \in Seq(MessageType) /\ Len(ms) = n
        /\ Len(CallsFor(m)) \in Nat /\ minted \in Nat /\ read \in Nat
    BY ConvertTypes DEF Reading
  <1>2. \A k \in 1 .. n : IsAnswer(ms[k], s[k], known, from + k) /\ s[k].type = "tool_result"
    <2>1. from \in Nat /\ ms = ToolMessages(s, known, from)
      BY <1>1 DEF AnswersFor
    <2> HIDE DEF s, ms, known, from
    <2>2. QED BY <1>1, <2>1, AnswersAre
  <1>3. s \in Seq(BodyItem) /\ DOMAIN s = 1 .. n
    BY <1>1, Selected DEF ResultsIn
  <1>4. DOMAIN ms = 1 .. n
    BY <1>1
  <1> HIDE DEF s, n, ms, known, from
  <1>5. Texts(s) \in Seq(Piece) /\ DOMAIN Texts(s) = 1 .. n
    BY <1>3, SelectionsType DEF Texts
  <1>6. PartsOf(ms) = Texts(s)
    <2>1. ASSUME NEW k \in 1 .. n PROVE ms[k].content.parts = <<Texts(s)[k]>>
      <3>1. ms[k].content.parts = <<Text(s[k])>>
        <4> DEFINE x == <<Text(s[k])>>
        <4>1. ms[k].content = String(x)
          BY <1>2 DEF IsAnswer
        <4> HIDE DEF x
        <4>2. ms[k].content.parts = x
          BY <4>1 DEF String
        <4>3. QED BY <4>2 DEF x
      <3>2. Texts(s)[k] = Text(s[k])
        BY <1>3 DEF Texts
      <3>3. QED BY <3>1, <3>2
    <2>2. [k \in DOMAIN ms |-> ms[k].content.parts] = [k \in DOMAIN Texts(s) |-> <<Texts(s)[k]>>]
      BY <1>4, <1>5, <2>1
    <2>3. FlattenSeq([k \in DOMAIN Texts(s) |-> <<Texts(s)[k]>>]) = Texts(s)
      BY <1>5, FlattenSingles
    <2>4. QED BY <2>2, <2>3 DEF PartsOf
  <1>7. ASSUME NEW ss \in [1 .. n -> {<<>>}] PROVE FlattenSeq(ss) = <<>>
    <2>1. <<>> \in Seq({})
      BY EmptySeq
    <2>2. ss \in Seq(Seq({}))
      <3> DEFINE A == Seq({})
      <3>1. ss \in [1 .. n -> A]
        BY <2>1
      <3> HIDE DEF A
      <3>2. ss \in Seq(A)
        BY <1>1, <3>1 DEF n
      <3>3. QED BY <3>2 DEF A
    <2>3. FlattenSeq(ss) \in Seq({})
      BY <2>2, FlattenType
    <2>4. QED BY <2>3, EmptySeq
  <1>8. ReasoningOf(ms) = <<>>
    <2>1. [k \in DOMAIN ms |-> ms[k].reasoning] \in [1 .. n -> {<<>>}]
      BY <1>2, <1>4 DEF IsAnswer
    <2>2. QED BY <2>1, <1>7 DEF ReasoningOf
  <1>9. CallsOf(ms) = <<>>
    <2>1. [k \in DOMAIN ms |-> ms[k].calls] \in [1 .. n -> {<<>>}]
      BY <1>2, <1>4 DEF IsAnswer
    <2>2. QED BY <2>1, <1>7 DEF CallsOf
  <1>10. QED BY <1>6, <1>8, <1>9 DEF s, ms

\* The main message sends on text and media, reasoning and calls.
LEMMA MainSends ==
  ASSUME NEW m \in AnthropicMessages, Reading
  PROVE  /\ PartsOf(MainFor(m)) = Pieces(OfType(BlocksOf(m), {"text", "media", "link"}))
         /\ ReasoningOf(MainFor(m)) = Pieces(OfType(BlocksOf(m), {"thinking"}))
         /\ CallsOf(MainFor(m)) = CallsFor(m)
  <1> DEFINE texts == OfType(BlocksOf(m), {"text", "media", "link", "other"})
             thoughts == OfType(BlocksOf(m), {"thinking"})
             calls == CallsFor(m)
             main == MainFor(m)
  <1>1. /\ read \in Nat /\ BlocksOf(m) \in Seq(BodyItem) /\ m.role \in {"user", "assistant"}
        /\ texts \in Seq(BodyItem) /\ thoughts \in Seq(BodyItem) /\ calls \in Seq(CallType)
    <2>1. read \in Nat
      BY DEF Reading
    <2>2. QED BY <2>1, ConvertTypes, BlocksType, Selected
  <1>2. OfType(texts, {"text", "media", "link"}) = OfType(BlocksOf(m), {"text", "media", "link"})
    <2>1. {"text", "media", "link"} \subseteq {"text", "media", "link", "other"}
      OBVIOUS
    <2>2. QED BY <1>1, <2>1, OfTypeTwice
  <1>3. m.role # "assistant" => thoughts = <<>>
    <2>1. ASSUME BlocksOf(m) \in Seq(Typed(PlacedBlock, UserTypes)) PROVE thoughts = <<>>
      <3>1. {"thinking"} \cap UserTypes = {}
        BY DEF UserTypes
      <3>2. QED BY <2>1, <3>1, NoneOfOthers
    <2>2. QED BY <2>1, <1>1, BlocksType
  <1>4. main = MainMessage(m.role, texts, thoughts, calls)
    BY DEF MainFor
  <1>5. Pieces(<<>>) = <<>> /\ PartsOf(<<>>) = <<>> /\ ReasoningOf(<<>>) = <<>> /\ CallsOf(<<>>) = <<>>
    BY SelectionsNone
  <1> HIDE DEF texts, thoughts, calls, main
  <1>6. CASE \E msg : main = <<msg>> /\ IsMain(msg, m.role, texts, thoughts, calls)
    <2>1. PICK msg : main = <<msg>> /\ IsMain(msg, m.role, texts, thoughts, calls)
      BY <1>6
    <2>2. msg \in MessageType
      BY <2>1 DEF IsMain
    <2>3. /\ PartsOf(main) = msg.content.parts /\ ReasoningOf(main) = msg.reasoning
          /\ CallsOf(main) = msg.calls
      BY <2>1, <2>2, SelectionsOne
    <2>4. msg.reasoning = Pieces(thoughts)
      BY <2>1, <1>3, <1>5 DEF IsMain
    <2>5. QED BY <2>1, <2>3, <2>4, <1>2 DEF IsMain, main, calls, thoughts
  <1>7. CASE main = <<>> /\ texts = <<>> /\ thoughts = <<>> /\ calls = <<>>
    <2>1. OfType(BlocksOf(m), {"text", "media", "link"}) = <<>>
      BY <1>2, <1>7, OfTypeNil
    <2>2. QED BY <1>5, <1>7, <2>1 DEF main, calls, thoughts
  <1>8. QED BY <1>1, <1>4, <1>6, <1>7, MainIs

\* What a message is converted to sends on its blocks.
LEMMA ConvertSends ==
  ASSUME NEW m \in AnthropicMessages, Reading
  PROVE  Sends(MainFor(m) \o AnswersFor(m), BlocksOf(m))
  <1> DEFINE main == MainFor(m)
             ans == AnswersFor(m)
             bs == BlocksOf(m)
             TI == {"text", "media", "link"}
             TR == {"tool_result"}
             TX == {"result_text", "no_text"}
  <1>1. /\ read \in Nat /\ main \in Seq(MessageType) /\ ans \in Seq(MessageType)
        /\ CallsFor(m) \in Seq(CallType) /\ bs \in Seq(BodyItem)
    <2>1. read \in Nat
      BY DEF Reading
    <2>2. QED BY <2>1, ConvertTypes, BlocksType
  <1>2. /\ PartsOf(main \o ans) = PartsOf(main) \o PartsOf(ans)
        /\ ReasoningOf(main \o ans) = ReasoningOf(main) \o ReasoningOf(ans)
        /\ CallsOf(main \o ans) = CallsOf(main) \o CallsOf(ans)
    <2> HIDE DEF main, ans
    <2>1. QED BY <1>1, SelectionsConcat
  <1> DEFINE a == PartsOf(main)
             b == PartsOf(ans)
  <1>3. a = Pieces(OfType(bs, TI)) /\ b = Texts(OfType(bs, TR))
    BY MainSends, AnswersSend DEF ResultsIn
  <1>4. a \in Seq(Typed(Piece, TI)) /\ b \in Seq(Typed(Piece, TX))
    <2>1. OfType(bs, TI) \in Seq(Typed(BodyItem, TI)) /\ OfType(bs, TR) \in Seq(BodyItem)
      BY <1>1, Selected
    <2>2. b \in Seq(Typed(Piece, TX))
      <3> HIDE DEF a, b, TI, TR, bs
      <3>1. QED BY <2>1, <1>3, TextsTyped
    <2> HIDE DEF a, b, TI, TR, TX, bs
    <2>3. QED BY <2>1, <2>2, <1>3, PiecesTyped
  <1>5. a \in Seq(Piece) /\ b \in Seq(Piece)
    BY <1>1, SelectionsType
  <1> HIDE DEF a, b
  <1>6. OfType(a, TI) = a /\ OfType(b, TI) = <<>> /\ OfType(a, TX) = <<>> /\ OfType(b, TX) = b
    <2>1. TI \subseteq TI /\ TX \subseteq TX /\ TI \cap TX = {} /\ TX \cap TI = {}
      OBVIOUS
    <2> HIDE DEF TI, TX
    <2>2. OfType(a, TI) = a
      BY <1>4, <2>1, AllOfThese
    <2>3. OfType(b, TX) = b
      BY <1>4, <2>1, AllOfThese
    <2>4. OfType(b, TI) = <<>>
      BY <1>4, <2>1, NoneOfOthers
    <2>5. OfType(a, TX) = <<>>
      BY <1>4, <2>1, NoneOfOthers
    <2>6. QED BY <2>2, <2>3, <2>4, <2>5
  <1>7. OfType(a \o b, TI) = a /\ OfType(a \o b, TX) = b
    <2> HIDE DEF TI, TX
    <2>1. OfType(a \o b, TI) = OfType(a, TI) \o OfType(b, TI)
      BY <1>5, OfTypeConcat
    <2>2. OfType(a \o b, TX) = OfType(a, TX) \o OfType(b, TX)
      BY <1>5, OfTypeConcat
    <2>3. a \o <<>> = a /\ <<>> \o b = b
      BY <1>5, ConcatEmptySeq
    <2>4. QED BY <1>6, <2>1, <2>2, <2>3
  <1>8. ReasoningOf(main \o ans) = Pieces(OfType(bs, {"thinking"}))
    <2>1. ReasoningOf(main) \in Seq(Piece)
      BY <1>1, SelectionsType
    <2>2. ReasoningOf(main) \o <<>> = ReasoningOf(main)
      BY <2>1, ConcatEmptySeq
    <2>3. QED BY <1>2, <2>2, MainSends, AnswersSend
  <1>9. Places(CallsOf(main \o ans)) = Places(OfType(bs, {"tool_use"}))
    <2>1. CallsFor(m) \o <<>> = CallsFor(m)
      BY <1>1, ConcatEmptySeq
    <2>2. CallsOf(main \o ans) = CallsFor(m)
      BY <1>2, <2>1, MainSends, AnswersSend
    <2>3. QED BY <2>2, ConvertTypes
  <1>10. /\ OfType(PartsOf(main \o ans), TI) = Pieces(OfType(bs, TI))
         /\ OfType(PartsOf(main \o ans), TX) = Texts(OfType(bs, TR))
    BY <1>2, <1>3, <1>7 DEF a, b
  <1>11. QED BY <1>8, <1>9, <1>10 DEF Sends

-----------------------------------------------------------------------------
(* What is taken as it is                                                  *)

\* Pieces are what they are pieces of.
LEMMA PiecesOfPieces ==
  ASSUME NEW s \in Seq(Piece)
  PROVE  Pieces(s) = s
  <1>1. \A x \in Piece : [type |-> x.type, at |-> x.at] = x
    BY DEF Piece
  <1>2. \A k \in DOMAIN s : s[k] \in Piece
    OBVIOUS
  <1>3. s = [k \in DOMAIN s |-> s[k]]
    OBVIOUS
  <1>4. QED BY <1>1, <1>2, <1>3 DEF Pieces

\* A message that is taken as it is.
ClientTypes == {"text", "media", "override"}

\* It sends on its own text and media.
LEMMA TakenSends ==
  ASSUME NEW msg \in MessageType, msg.content.parts \in Seq(Typed(Piece, ClientTypes)),
         msg.reasoning = <<>>, msg.calls = <<>>
  PROVE  /\ Sends(<<msg>>, OfType(msg.content.parts, {"text", "media", "link"}))
         /\ OfType(msg.content.parts, {"text", "media", "link"}) \in Seq(BodyItem)
  <1> DEFINE s == msg.content.parts
             TI == {"text", "media", "link"}
             bd == OfType(s, TI)
  <1>1. s \in Seq(Piece) /\ s \in Seq(Typed(Piece, ClientTypes))
    BY DEF MessageType, ContentType
  <1>2. bd \in Seq(Typed(Piece, TI)) /\ bd \in Seq(Piece)
    <2> HIDE DEF s, TI
    <2>1. QED BY <1>1, OfTypeType
  <1>3. bd \in Seq(BodyItem)
    <2>1. \A i \in 1 .. Len(bd) : bd[i] \in BodyItem
      BY <1>2, ElementOfSeq DEF BodyItem
    <2> HIDE DEF bd
    <2>2. QED BY <1>2, <2>1
  <1>4. PartsOf(<<msg>>) = s /\ ReasoningOf(<<msg>>) = <<>> /\ CallsOf(<<msg>>) = <<>>
    BY SelectionsOne
  <1>5. OfType(bd, TI) = bd /\ Pieces(bd) = bd
    <2>1. TI \subseteq TI
      OBVIOUS
    <2> HIDE DEF bd, TI
    <2>2. OfType(bd, TI) = bd
      BY <1>2, <2>1, AllOfThese
    <2>3. QED BY <2>2, <1>2, PiecesOfPieces
  <1>6. ASSUME NEW T, T \cap TI = {}
        PROVE  OfType(bd, T) = <<>> /\ Pieces(OfType(bd, T)) = <<>> /\ Places(OfType(bd, T)) = <<>>
    <2> HIDE DEF bd, TI
    <2>1. OfType(bd, T) = <<>>
      BY <1>2, <1>6, NoneOfOthers
    <2>2. QED BY <2>1, SelectionsNone
  <1>7. OfType(s, {"result_text", "no_text"}) = <<>>
    <2>1. {"result_text", "no_text"} \cap ClientTypes = {}
      BY DEF ClientTypes
    <2> HIDE DEF s
    <2>2. QED BY <1>1, <2>1, NoneOfOthers
  <1>8. Places(<<>>) = <<>>
    BY SelectionsNone
  <1>9. OfType(PartsOf(<<msg>>), TI) = Pieces(OfType(bd, TI))
    BY <1>4, <1>5
  <1>10. OfType(PartsOf(<<msg>>), {"result_text", "no_text"}) = Texts(OfType(bd, {"tool_result"}))
    BY <1>4, <1>6, <1>7, SelectionsNone
  <1>11. ReasoningOf(<<msg>>) = Pieces(OfType(bd, {"thinking"}))
    BY <1>4, <1>6
  <1>12. Places(CallsOf(<<msg>>)) = Places(OfType(bd, {"tool_use"}))
    BY <1>4, <1>6, <1>8
  <1> HIDE DEF bd, s
  <1>13. Sends(<<msg>>, bd)
    BY <1>9, <1>10, <1>11, <1>12 DEF Sends
  <1>14. QED BY <1>3, <1>13 DEF bd, s

\* The contents an OpenAI client sends: the override's text may only come first.
LEMMA OpenAIContentIs ==
  ASSUME NEW content \in OpenAIContents
  PROVE  /\ content = [form |-> content.form, parts |-> content.parts]
         /\ content.form \in {"string", "list"} \/ (content.form = "null" /\ content.parts = <<>>)
         /\ content.parts \in Seq([type : ClientTypes])
         /\ \A k \in DOMAIN content.parts : content.parts[k].type = "override" => k = 1
  <1> DEFINE text == [type |-> "text"]
             media == [type |-> "media"]
             prefix == [type |-> "override"]
             P == [type : ClientTypes]
  <1>1. text \in P /\ media \in P /\ prefix \in P
    BY DEF ClientTypes
  <1>2. content \in {String(<<>>), String(<<text>>), String(<<prefix, text>>),
                     List(<<text>>), List(<<media>>), List(<<media, text>>), NoContent}
    BY DEF OpenAIContents
  <1>3. text.type # "override" /\ media.type # "override"
    OBVIOUS
  <1> HIDE DEF text, media, prefix, P
  <1>4. /\ <<>> \in Seq(P) /\ <<text>> \in Seq(P) /\ <<prefix, text>> \in Seq(P)
        /\ <<media>> \in Seq(P) /\ <<media, text>> \in Seq(P)
    BY <1>1
  <1> DEFINE Fine(s) == s \in Seq(P) /\ \A k \in DOMAIN s : s[k].type = "override" => k = 1
             Goal == /\ content = [form |-> content.form, parts |-> content.parts]
                     /\ content.form \in {"string", "list"} \/ (content.form = "null" /\ content.parts = <<>>)
                     /\ Fine(content.parts)
  <1>5. ASSUME NEW s, Fine(s), content = String(s) \/ content = List(s) \/ (s = <<>> /\ content = NoContent)
        PROVE  Goal
    <2> HIDE DEF Fine
    <2>1. CASE content = String(s)
      <3>1. content = [form |-> "string", parts |-> s]
        BY <2>1 DEF String
      <3>2. content.form = "string" /\ content.parts = s
        BY <3>1
      <3>3. QED BY <1>5, <3>1, <3>2
    <2>2. CASE content = List(s)
      <3>1. content = [form |-> "list", parts |-> s]
        BY <2>2 DEF List
      <3>2. content.form = "list" /\ content.parts = s
        BY <3>1
      <3>3. QED BY <1>5, <3>1, <3>2
    <2>3. CASE s = <<>> /\ content = NoContent
      <3>1. content = [form |-> "null", parts |-> s]
        BY <2>3 DEF NoContent
      <3>2. content.form = "null" /\ content.parts = s
        BY <3>1
      <3>3. QED BY <1>5, <2>3, <3>1, <3>2
    <2>4. QED BY <1>5, <2>1, <2>2, <2>3
  <1>6. Fine(<<>>)
    BY <1>4
  <1>7. Fine(<<text>>) /\ Fine(<<media>>)
    BY <1>3, <1>4
  <1>8. Fine(<<prefix, text>>)
    <2> DEFINE s == <<prefix, text>>
    <2>1. \A k \in DOMAIN s : k = 1 \/ s[k] = text
      OBVIOUS
    <2>2. s \in Seq(P)
      BY <1>4
    <2> HIDE DEF s
    <2>3. Fine(s)
      BY <1>3, <2>1, <2>2
    <2>4. QED BY <2>3 DEF s
  <1>9. Fine(<<media, text>>)
    <2> DEFINE s == <<media, text>>
    <2>1. \A k \in DOMAIN s : s[k] = media \/ s[k] = text
      OBVIOUS
    <2>2. s \in Seq(P)
      BY <1>4
    <2> HIDE DEF s
    <2>3. Fine(s)
      BY <1>3, <2>1, <2>2
    <2>4. QED BY <2>3 DEF s
  <1> HIDE DEF Fine, Goal
  <1>10. Goal
    <2>1. CASE content = String(<<>>) \/ content = NoContent
      BY <2>1, <1>5, <1>6
    <2>2. CASE content = String(<<text>>) \/ content = List(<<text>>)
      BY <2>2, <1>5, <1>7
    <2>3. CASE content = String(<<prefix, text>>)
      BY <2>3, <1>5, <1>8
    <2>4. CASE content = List(<<media>>)
      BY <2>4, <1>5, <1>7
    <2>5. CASE content = List(<<media, text>>)
      BY <2>5, <1>5, <1>9
    <2>6. QED BY <1>2, <2>1, <2>2, <2>3, <2>4, <2>5
  <1>11. QED BY <1>10 DEF Goal, Fine, P

\* The message that TakeMessage makes of them.
PlacedParts(content) ==
  [k \in DOMAIN content.parts |->
     IF content.parts[k].type = "override" THEN Override
     ELSE [type |-> content.parts[k].type, at |-> <<read + 1, k>>]]
Taken(role, content) == Message(role, [content EXCEPT !.parts = PlacedParts(content)])

\* Its fields, and where the override may be in it.
LEMMA TakenIs ==
  ASSUME NEW role \in {"system", "developer", "user"}, NEW content \in OpenAIContents, read \in Nat
  PROVE  /\ Taken(role, content) \in MessageType
         /\ Taken(role, content).role = role
         /\ Taken(role, content).content.form = content.form
         /\ Taken(role, content).content.parts = PlacedParts(content)
         /\ Taken(role, content).reasoning = <<>> /\ Taken(role, content).calls = <<>>
         /\ Taken(role, content).answers = None
         /\ PlacedParts(content) \in Seq(Typed(Piece, ClientTypes))
         /\ HeadOnly(PlacedParts(content))
         /\ content.form \in {"string", "list"} \/ PlacedParts(content) = <<>>
  <1> DEFINE s == content.parts
             n == Len(s)
             ps == PlacedParts(content)
             A == Typed(Piece, ClientTypes)
  <1>1. /\ content = [form |-> content.form, parts |-> s]
        /\ content.form \in {"string", "list"} \/ (content.form = "null" /\ s = <<>>)
        /\ s \in Seq([type : ClientTypes])
        /\ \A k \in DOMAIN s : s[k].type = "override" => k = 1
    BY OpenAIContentIs
  <1>2. n \in Nat /\ DOMAIN s = 1 .. n /\ \A k \in 1 .. n : s[k].type \in ClientTypes
    <2> DEFINE P == [type : ClientTypes]
    <2>1. \A x \in P : x.type \in ClientTypes
      OBVIOUS
    <2>2. s \in Seq(P)
      BY <1>1
    <2> HIDE DEF P, s
    <2>3. n \in Nat /\ DOMAIN s = 1 .. n /\ \A k \in 1 .. n : s[k] \in P
      BY <2>2, LenProperties, ElementOfSeq
    <2>4. QED BY <2>1, <2>3
  <1>3. ps = [k \in 1 .. n |-> IF s[k].type = "override" THEN Override
                              ELSE [type |-> s[k].type, at |-> <<read + 1, k>>]]
    BY <1>2 DEF PlacedParts
  <1>4. ASSUME NEW k \in 1 .. n PROVE ps[k] \in A /\ (ps[k].type = "override" => k = 1 /\ ps[k] = Override)
    <2>1. <<read + 1, k>> \in Place /\ Override \in Piece
      <3>1. read + 1 \in Nat /\ k \in Nat
        BY <1>2
      <3>2. QED BY <3>1, PlaceTypes
    <2>2. CASE s[k].type = "override"
      <3>1. ps[k] = Override /\ k = 1
        BY <1>1, <1>2, <1>3, <2>2
      <3>2. Override.type \in ClientTypes
        BY DEF Override, ClientTypes
      <3>3. QED BY <2>1, <3>1, <3>2 DEF Typed
    <2>3. CASE s[k].type # "override"
      <3>1. ps[k] = [type |-> s[k].type, at |-> <<read + 1, k>>]
        BY <1>3, <2>3
      <3>2. s[k].type \in ClientTypes /\ s[k].type \in Types
        BY <1>2 DEF ClientTypes, Types
      <3>3. ps[k] \in Piece /\ ps[k].type = s[k].type
        BY <2>1, <3>1, <3>2 DEF Piece
      <3>4. QED BY <2>3, <3>2, <3>3 DEF Typed
    <2>4. QED BY <2>2, <2>3
  <1> HIDE DEF n
  <1>5. ps \in [1 .. n -> A] /\ DOMAIN ps = 1 .. n
    BY <1>3, <1>4
  <1> HIDE DEF A
  <1>6. ps \in Seq(A)
    <2> HIDE DEF ps
    <2>1. QED BY <1>2, <1>5
  <1>7. HeadOnly(ps)
    BY <1>4, <1>5 DEF HeadOnly
  <1>8. s = <<>> => ps = <<>>
    BY DEF PlacedParts
  <1>9. ps \in Seq(Piece)
    <2>1. \A k \in 1 .. n : ps[k] \in Piece
      BY <1>4 DEF Typed, A
    <2>2. ps \in [1 .. n -> Piece]
      BY <1>3, <2>1
    <2> HIDE DEF ps
    <2>3. QED BY <1>2, <2>2
  <1> DEFINE c == [content EXCEPT !.parts = ps]
  <1> HIDE DEF ps
  <1>10. c = [form |-> content.form, parts |-> ps] /\ c \in ContentType
    BY <1>1, <1>9 DEF ContentType
  <1>11. <<>> \in Seq(Piece) /\ <<>> \in Seq(CallType) /\ None \in Nat
    BY EmptySeq DEF None
  <1>12. Taken(role, content) = Message(role, c)
    BY DEF Taken, ps
  <1> HIDE DEF c
  <1>13. /\ Message(role, c) \in MessageType /\ Message(role, c).role = role
         /\ Message(role, c).content = c
         /\ Message(role, c).reasoning = <<>> /\ Message(role, c).calls = <<>>
         /\ Message(role, c).answers = None
    BY <1>10, <1>11 DEF Message, MessageType
  <1>14. c.form = content.form /\ c.parts = ps
    BY <1>10
  <1>15. content.form \in {"string", "list"} \/ ps = <<>>
    BY <1>1, <1>8
  <1>16. QED BY <1>6, <1>7, <1>12, <1>13, <1>14, <1>15 DEF ps, A

\* The messages of the system field.
LEMMA SystemIs ==
  ASSUME NEW system \in SystemField
  PROVE  /\ SystemMessages(system) \in Seq(MessageType)
         /\ OfType(system, {"text"}) \in Seq(BodyItem)
         /\ Sends(SystemMessages(system), OfType(system, {"text"}))
         /\ \A k \in DOMAIN SystemMessages(system) :
              LET msg == SystemMessages(system)[k] IN
              /\ msg.role = "system" /\ msg.calls = <<>> /\ msg.answers = None
              /\ msg.content.form = "string" /\ HeadOnly(msg.content.parts)
         /\ \A i \in DOMAIN OfType(system, {"text"}) : OfType(system, {"text"})[i].type = "text"
  <1> DEFINE text == [type |-> "text", at |-> <<0, 1>>]
             A == {Override, text}
             T == {"text"}
             TI == {"text", "media", "link"}
  <1>1. text \in Piece /\ Override \in Piece /\ text.type = "text" /\ Override.type = "override"
    <2>1. <<0, 1>> \in Place
      BY PlaceTypes
    <2>2. QED BY <2>1, PlaceTypes DEF Piece, Types, Override
  <1>2. system = <<>> \/ system = <<text>> \/ system = <<Override, text>>
    BY DEF SystemField
  <1> HIDE DEF text
  <1>3. HeadOnly(system) /\ system \in Seq(A)
    <2>1. CASE system = <<>>
      BY <2>1 DEF HeadOnly
    <2>2. CASE system = <<text>>
      BY <1>1, <2>2 DEF HeadOnly
    <2>3. CASE system = <<Override, text>>
      <3>1. \A i \in DOMAIN system : i = 1 \/ system[i] = text
        BY <2>3
      <3>2. HeadOnly(system)
        BY <1>1, <2>3, <3>1 DEF HeadOnly
      <3>3. QED BY <2>3, <3>2
    <2>4. QED BY <1>2, <2>1, <2>2, <2>3
  <1>4. A \subseteq Typed(Piece, ClientTypes) /\ A \subseteq Piece
    BY <1>1 DEF Typed, ClientTypes
  <1>5. system \in Seq(Typed(Piece, ClientTypes)) /\ system \in Seq(Piece)
    <2> HIDE DEF A
    <2>1. QED BY <1>3, <1>4, SeqMonotonic
  <1>6. OfType(system, T) = OfType(system, TI)
    <2>1. \A x \in Typed(A, TI) : x.type \in T
      BY <1>1 DEF Typed
    <2>2. T \subseteq TI
      OBVIOUS
    <2> DEFINE B == Typed(A, TI)
               s == OfType(system, TI)
    <2> HIDE DEF A, T, TI
    <2>3. s \in Seq(B)
      BY <1>3, OfTypeType
    <2>4. OfType(s, T) = OfType(system, T)
      BY <1>3, <2>2, OfTypeTwice
    <2>5. OfType(s, T) = s
      <3> HIDE DEF s
      <3>1. \A x \in B : x.type \in T
        BY <2>1
      <3> HIDE DEF B
      <3>2. QED BY <2>3, <3>1, OfTypeAll
    <2>6. QED BY <2>4, <2>5
  <1>7. OfType(system, T) \in Seq(Typed(Piece, T))
    <2> HIDE DEF T
    <2>1. QED BY <1>5, OfTypeType
  <1>8. \A i \in DOMAIN OfType(system, T) : OfType(system, T)[i].type = "text"
    <2> DEFINE s == OfType(system, T)
    <2>1. \A x \in Typed(Piece, T) : x.type = "text"
      BY DEF Typed
    <2> HIDE DEF s
    <2>2. \A i \in DOMAIN s : s[i] \in Typed(Piece, T)
      BY <1>7 DEF s
    <2>3. \A i \in DOMAIN s : s[i].type = "text"
      BY <2>1, <2>2
    <2>4. QED BY <2>3 DEF s
  <1>9. CASE system = <<>>
    <2>1. SystemMessages(system) = <<>> /\ OfType(system, T) = <<>>
      BY <1>9, OfTypeNil DEF SystemMessages
    <2>2. Sends(<<>>, <<>>)
      BY SelectionsNone, OfTypeNil DEF Sends
    <2>3. <<>> \in Seq(MessageType) /\ <<>> \in Seq(BodyItem) /\ DOMAIN <<>> = {}
      BY EmptySeq
    <2>4. QED BY <1>8, <2>1, <2>2, <2>3
  <1>10. CASE system # <<>>
    <2> DEFINE msg == Message("system", String(system))
    <2>1. SystemMessages(system) = <<msg>>
      BY <1>10 DEF SystemMessages
    <2>2. String(system) \in ContentType /\ String(system).form = "string" /\ String(system).parts = system
      BY <1>5 DEF String, ContentType
    <2>3. <<>> \in Seq(Piece) /\ <<>> \in Seq(CallType) /\ None \in Nat
      BY EmptySeq DEF None
    <2>4. /\ msg \in MessageType /\ msg.role = "system" /\ msg.content = String(system)
          /\ msg.reasoning = <<>> /\ msg.calls = <<>> /\ msg.answers = None
      BY <2>2, <2>3 DEF Message, MessageType
    <2> HIDE DEF msg
    <2>5. Sends(<<msg>>, OfType(system, TI)) /\ OfType(system, TI) \in Seq(BodyItem)
      BY <1>5, <2>2, <2>4, TakenSends
    <2>6. <<msg>> \in Seq(MessageType) /\ \A k \in DOMAIN <<msg>> : <<msg>>[k] = msg
      BY <2>4
    <2>7. QED BY <1>3, <1>6, <1>8, <2>1, <2>2, <2>4, <2>5, <2>6
  <1>11. QED BY <1>9, <1>10

-----------------------------------------------------------------------------
(* Elements of joined lists                                                *)

\* The largest of some numbers up to n.
LEMMA MaxIs ==
  ASSUME NEW n \in Nat, NEW S \in SUBSET (1 .. n), S # {}
  PROVE  Max(S) \in S /\ \A j \in S : j <= Max(S)
  <1>1. PICK k \in S : \A j \in S : j <= k
    BY LargestExists
  <1>2. \A j \in S : j \in Int
    OBVIOUS
  <1>3. k \in S /\ \A y \in S : k >= y
    BY <1>1, <1>2
  <1>4. Max(S) \in S /\ \A y \in S : Max(S) >= y
    BY <1>3 DEF Max
  <1>5. QED BY <1>2, <1>4

\* A number of the set that none exceeds is its Max.
LEMMA MaxOf ==
  ASSUME NEW n \in Nat, NEW S \in SUBSET (1 .. n), NEW m \in S, \A j \in S : j <= m
  PROVE  Max(S) = m
  <1>1. Max(S) \in S /\ m <= Max(S) /\ Max(S) <= m
    BY MaxIs
  <1>2. \A j \in S : j \in Int
    OBVIOUS
  <1> DEFINE x == Max(S)
  <1>3. x \in S /\ m <= x /\ x <= m
    BY <1>1
  <1> HIDE DEF x
  <1>4. x \in Int /\ m \in Int
    BY <1>2, <1>3
  <1>5. x = m
    BY <1>3, <1>4
  <1>6. QED BY <1>5 DEF x

\* Elements of two lists, one after the other.
LEMMA ConcatAt ==
  ASSUME NEW A, NEW s \in Seq(A), NEW t \in Seq(A)
  PROVE  /\ Len(s) \in Nat /\ Len(t) \in Nat /\ s \o t \in Seq(A)
         /\ Len(s \o t) = Len(s) + Len(t)
         /\ DOMAIN s = 1 .. Len(s) /\ DOMAIN t = 1 .. Len(t) /\ DOMAIN (s \o t) = 1 .. Len(s) + Len(t)
         /\ \A i \in 1 .. Len(s) : (s \o t)[i] = s[i] /\ s[i] \in A
         /\ \A i \in 1 .. Len(t) : (s \o t)[Len(s) + i] = t[i] /\ t[i] \in A
         /\ \A k \in 1 .. Len(s) + Len(t) : k \in 1 .. Len(s) \/ \E i \in 1 .. Len(t) : k = Len(s) + i
  <1>1. Len(s) \in Nat /\ Len(t) \in Nat /\ s \o t \in Seq(A) /\ Len(s \o t) = Len(s) + Len(t)
    BY ConcatProperties, LenProperties
  <1>2. \A i \in 1 .. Len(s) + Len(t) : (s \o t)[i] = IF i <= Len(s) THEN s[i] ELSE t[i - Len(s)]
    BY ConcatProperties
  <1>3. DOMAIN s = 1 .. Len(s) /\ DOMAIN t = 1 .. Len(t) /\ DOMAIN (s \o t) = 1 .. Len(s) + Len(t)
    BY <1>1, LenProperties
  <1>4. \A i \in 1 .. Len(s) : (s \o t)[i] = s[i] /\ s[i] \in A
    <2>1. TAKE i \in 1 .. Len(s)
    <2>2. i \in 1 .. Len(s) + Len(t) /\ i <= Len(s)
      BY <1>1
    <2>3. QED BY <1>2, <2>2, ElementOfSeq
  <1>5. \A i \in 1 .. Len(t) : (s \o t)[Len(s) + i] = t[i] /\ t[i] \in A
    <2>1. TAKE i \in 1 .. Len(t)
    <2> DEFINE k == Len(s) + i
    <2>2. k \in 1 .. Len(s) + Len(t) /\ ~(k <= Len(s)) /\ k - Len(s) = i
      BY <1>1
    <2> HIDE DEF k
    <2>3. (s \o t)[k] = t[i]
      BY <1>2, <2>2
    <2>4. QED BY <2>3, ElementOfSeq DEF k
  <1>6. \A k \in 1 .. Len(s) + Len(t) : k \in 1 .. Len(s) \/ \E i \in 1 .. Len(t) : k = Len(s) + i
    <2>1. TAKE k \in 1 .. Len(s) + Len(t)
    <2>2. CASE k <= Len(s)
      BY <1>1, <2>2
    <2>3. CASE ~(k <= Len(s))
      <3>1. k - Len(s) \in 1 .. Len(t) /\ k = Len(s) + (k - Len(s))
        BY <1>1, <2>3
      <3>2. QED BY <3>1
    <2>4. QED BY <2>2, <2>3
  <1>7. QED BY <1>1, <1>3, <1>4, <1>5, <1>6

\* The calls of two lists of messages.
LEMMA CallsConcat ==
  ASSUME NEW ms \in Seq(MessageType), NEW ns \in Seq(MessageType)
  PROVE  AllCallsOf(ms \o ns) = AllCallsOf(ms) \cup AllCallsOf(ns)
  <1> DEFINE t == ms \o ns
  <1>1. /\ Len(ms) \in Nat /\ Len(ns) \in Nat
        /\ DOMAIN ms = 1 .. Len(ms) /\ DOMAIN ns = 1 .. Len(ns) /\ DOMAIN t = 1 .. Len(ms) + Len(ns)
        /\ \A i \in 1 .. Len(ms) : t[i] = ms[i]
        /\ \A i \in 1 .. Len(ns) : t[Len(ms) + i] = ns[i]
        /\ \A k \in DOMAIN t : k \in 1 .. Len(ms) \/ \E i \in 1 .. Len(ns) : k = Len(ms) + i
    BY ConcatAt
  <1> HIDE DEF t
  <1>2. ASSUME NEW c \in AllCallsOf(t) PROVE c \in AllCallsOf(ms) \/ c \in AllCallsOf(ns)
    <2>1. PICK k \in DOMAIN t : c \in CallsIn(t[k])
      BY DEF AllCallsOf
    <2>2. CASE k \in 1 .. Len(ms)
      <3>1. k \in DOMAIN ms /\ c \in CallsIn(ms[k])
        BY <1>1, <2>1, <2>2
      <3>2. QED BY <3>1 DEF AllCallsOf
    <2>3. ASSUME NEW i \in 1 .. Len(ns), k = Len(ms) + i PROVE c \in AllCallsOf(ns)
      <3>1. i \in DOMAIN ns /\ c \in CallsIn(ns[i])
        BY <1>1, <2>1, <2>3
      <3>2. QED BY <3>1 DEF AllCallsOf
    <2>4. QED BY <1>1, <2>2, <2>3
  <1>3. \A i \in 1 .. Len(ms) : i \in DOMAIN t
    BY <1>1
  <1>4. \A i \in 1 .. Len(ns) : Len(ms) + i \in DOMAIN t
    BY <1>1
  <1>5. \A c : c \in AllCallsOf(ms) => c \in AllCallsOf(t)
    BY <1>1, <1>3 DEF AllCallsOf
  <1>6. \A c : c \in AllCallsOf(ns) => c \in AllCallsOf(t)
    BY <1>1, <1>4 DEF AllCallsOf
  <1>7. QED BY <1>2, <1>5, <1>6 DEF t

\* They are calls, and the calls of each message are among them.
LEMMA CallsAre ==
  ASSUME NEW ms \in Seq(MessageType)
  PROVE  /\ \A c \in AllCallsOf(ms) : c \in CallType
         /\ \A k \in DOMAIN ms : \A c \in CallsIn(ms[k]) : c \in AllCallsOf(ms)
  <1>1. \A k \in DOMAIN ms : ms[k] \in MessageType
    OBVIOUS
  <1>2. \A m \in MessageType : \A c \in CallsIn(m) : c \in CallType
    <2>1. TAKE m \in MessageType
    <2>2. m.calls \in Seq(CallType)
      BY DEF MessageType
    <2> DEFINE s == m.calls
    <2> HIDE DEF s
    <2>3. \A i \in DOMAIN s : s[i] \in CallType
      BY <2>2 DEF s
    <2>4. QED BY <2>3 DEF s, CallsIn, ToSet
  <1>3. QED BY <1>1, <1>2 DEF AllCallsOf

\* The uses of a tool id among old blocks are not touched by new ones.
LEMMA OldUses ==
  ASSUME NEW bd \in Seq(BodyItem), NEW bs \in Seq(BodyItem), NEW t, NEW n \in 0 .. Len(bd)
  PROVE  /\ Uses(bd \o bs, t, n) = Uses(bd, t, n)
         /\ Uses(bd, t, n) \in SUBSET (1 .. Len(bd))
  <1>1. Len(bd) \in Nat /\ \A i \in 1 .. Len(bd) : (bd \o bs)[i] = bd[i]
    BY ConcatAt
  <1>2. \A i \in 1 .. n : i \in 1 .. Len(bd) /\ (bd \o bs)[i] = bd[i]
    BY <1>1
  <1>3. QED BY <1>2 DEF Uses

\* The last element of s that is of one of the types and in P is the last in P
\* of those that are selected; so a selection keeps who comes last.
LastKept(s, T, P) ==
  LET r == OfType(s, T) IN
  \/ /\ \A k \in DOMAIN r : r[k] \notin P
     /\ \A i \in DOMAIN s : s[i].type \in T => s[i] \notin P
  \/ \E k \in DOMAIN r, i \in DOMAIN s :
       /\ r[k] = s[i] /\ s[i].type \in T /\ s[i] \in P
       /\ \A j \in DOMAIN r : r[j] \in P => j <= k
       /\ \A j \in DOMAIN s : s[j].type \in T /\ s[j] \in P => j <= i

\* Elements of a list with one more at its end.
LEMMA AppendAt ==
  ASSUME NEW A, NEW s \in Seq(A), NEW x \in A
  PROVE  /\ Len(s) \in Nat /\ DOMAIN s = 1 .. Len(s) /\ DOMAIN Append(s, x) = 1 .. Len(s) + 1
         /\ \A i \in 1 .. Len(s) : Append(s, x)[i] = s[i]
         /\ Append(s, x)[Len(s) + 1] = x
  BY AppendProperties, LenProperties

\* Every list has its last ones kept.
LEMMA LastIsKept ==
  ASSUME NEW A, NEW s \in Seq(A), NEW T, NEW P
  PROVE  LastKept(s, T, P)
  <1> DEFINE Q == {u \in Seq(A) : LastKept(u, T, P)}
  <1>1. <<>> \in Q
    <2>1. <<>> \in Seq(A) /\ DOMAIN <<>> = {} /\ OfType(<<>>, T) = <<>>
      BY EmptySeq, OfTypeNil
    <2>2. QED BY <2>1 DEF LastKept
  <1>2. ASSUME NEW u \in Seq(A), NEW x \in A, u \in Q
        PROVE  Append(u, x) \in Q
    <2> DEFINE v == Append(u, x)
               r == OfType(u, T)
               q == OfType(v, T)
               n == Len(u)
               l == Len(r)
    <2>1. v \in Seq(A) /\ r \in Seq(A) /\ q = r \o Kept(x, T)
      BY AppendProperties, OfTypeType, OfTypeAppend
    <2>2. /\ n \in Nat /\ DOMAIN u = 1 .. n /\ DOMAIN v = 1 .. n + 1
          /\ \A i \in 1 .. n : v[i] = u[i]
          /\ v[n + 1] = x
      BY AppendAt
    <2>3. l \in Nat /\ DOMAIN r = 1 .. l
      BY <2>1, LenProperties
    <2>4. LastKept(u, T, P)
      BY <1>2
    <2> HIDE DEF v
    <2>5. CASE x.type \notin T
      <3>1. q = r
        <4>1. Kept(x, T) = <<>>
          BY <2>5 DEF Kept
        <4> HIDE DEF r, q
        <4>2. QED BY <2>1, <4>1, ConcatEmptySeq
      <3> HIDE DEF r, q, n, l
      <3>2. \A i \in DOMAIN v : v[i].type \in T => i \in DOMAIN u /\ v[i] = u[i]
        BY <2>2, <2>5
      <3>3. \A i \in DOMAIN u : i \in DOMAIN v /\ v[i] = u[i]
        BY <2>2
      <3>4. LastKept(v, T, P)
        BY <2>4, <3>1, <3>2, <3>3 DEF LastKept, r, q
      <3>5. QED BY <2>1, <3>4 DEF v
    <2>6. CASE x.type \in T
      <3>1. q = Append(r, x)
        <4>1. Kept(x, T) = <<x>>
          BY <2>6 DEF Kept
        <4> HIDE DEF r, q
        <4>2. QED BY <2>1, <4>1, AppendIsConcat
      <3>2. /\ DOMAIN q = 1 .. l + 1
            /\ \A i \in 1 .. l : q[i] = r[i]
            /\ q[l + 1] = x
        <4> HIDE DEF r, q
        <4>1. QED BY <2>1, <3>1, AppendAt DEF l
      <3> HIDE DEF r, q, n, l
      <3>3. \A j \in DOMAIN v : j <= n + 1
        BY <2>2
      <3>4. \A j \in DOMAIN q : j <= l + 1
        BY <3>2, <2>3
      <3>5. CASE x \in P
        <4>1. n + 1 \in DOMAIN v /\ l + 1 \in DOMAIN q
          BY <2>2, <2>3, <3>2
        <4>2. LastKept(v, T, P)
          BY <2>2, <2>6, <3>2, <3>3, <3>4, <3>5, <4>1 DEF LastKept, q
        <4>3. QED BY <2>1, <4>2 DEF v
      <3>6. CASE x \notin P
        <4>1. \A i \in DOMAIN v : v[i] \in P => i \in DOMAIN u /\ v[i] = u[i]
          BY <2>2, <3>6
        <4>2. \A i \in DOMAIN q : q[i] \in P => i \in DOMAIN r /\ q[i] = r[i]
          BY <2>3, <3>2, <3>6
        <4>3. \A i \in DOMAIN u : i \in DOMAIN v /\ v[i] = u[i]
          BY <2>2
        <4>4. \A i \in DOMAIN r : i \in DOMAIN q /\ q[i] = r[i]
          BY <2>3, <3>2
        <4>5. LastKept(v, T, P)
          BY <2>4, <4>1, <4>2, <4>3, <4>4 DEF LastKept, r, q
        <4>6. QED BY <2>1, <4>5 DEF v
      <3>7. QED BY <3>5, <3>6
    <2>7. QED BY <2>5, <2>6
  <1> HIDE DEF Q
  <1>3. Seq(A) \subseteq Q
    BY <1>1, <1>2, SequenceInduction
  <1>4. QED BY <1>3 DEF Q

-----------------------------------------------------------------------------
(* New messages and blocks leave the links of the old ones                 *)

\* New messages have new calls, and answer nothing, a call there is, or have an
\* id of their own.
Fresh(ms, ns, n, n2) ==
  \A k \in DOMAIN ns :
    /\ ns[k].answers <= n2
    /\ ns[k].role = "tool" => ns[k].answers # None
    /\ \A c \in CallsIn(ns[k]) : n < c.call /\ c.call <= n2
    /\ \/ ns[k].answers = None
       \/ n < ns[k].answers
       \/ \E c \in AllCallsOf(ms) : c.call = ns[k].answers

\* What was answered stays answered.
LEMMA StillAnswered ==
  ASSUME NEW ms \in Seq(MessageType), NEW ns \in Seq(MessageType),
         NEW bd \in Seq(BodyItem), NEW bs \in Seq(BodyItem),
         NEW n \in Nat, NEW n2 \in Nat, Numbered(ms, n), Fresh(ms, ns, n, n2),
         NEW j \in DOMAIN bd, Answered(ms, bd, j)
  PROVE  j \in DOMAIN (bd \o bs) /\ (bd \o bs)[j] = bd[j] /\ Answered(ms \o ns, bd \o bs, j)
  <1> DEFINE t == ms \o ns
             b == bd \o bs
             tool == bd[j].tool
             U == Uses(bd, tool, j - 1)
  <1>1. /\ Len(ms) \in Nat /\ Len(ns) \in Nat
        /\ DOMAIN ms = 1 .. Len(ms) /\ DOMAIN ns = 1 .. Len(ns) /\ DOMAIN t = 1 .. Len(ms) + Len(ns)
        /\ \A i \in 1 .. Len(ms) : t[i] = ms[i] /\ ms[i] \in MessageType
        /\ \A i \in 1 .. Len(ns) : t[Len(ms) + i] = ns[i] /\ ns[i] \in MessageType
        /\ \A k \in DOMAIN t : k \in 1 .. Len(ms) \/ \E i \in 1 .. Len(ns) : k = Len(ms) + i
    BY ConcatAt
  <1>2. /\ DOMAIN bd = 1 .. Len(bd) /\ DOMAIN b = 1 .. Len(bd) + Len(bs)
        /\ Len(bd) \in Nat /\ Len(bs) \in Nat
        /\ \A i \in 1 .. Len(bd) : b[i] = bd[i]
    BY ConcatAt
  <1>3. b[j] = bd[j] /\ j \in DOMAIN b /\ j - 1 \in 0 .. Len(bd)
    BY <1>2
  <1>4. Uses(b, tool, j - 1) = U /\ U \in SUBSET (1 .. Len(bd))
    BY <1>3, OldUses
  <1>5. PICK k \in DOMAIN ms :
          /\ ToolMessageFor(ms[k], bd[j])
          /\ IF U = {} THEN Lone(ms, k) ELSE Answers(ms, bd, k, Max(U))
    BY DEF Answered
  <1>6. k \in DOMAIN t /\ t[k] = ms[k] /\ ToolMessageFor(t[k], b[j])
    BY <1>1, <1>3, <1>5
  <1>7. ms[k].role = "tool" /\ ms[k].answers # None /\ ms[k].answers \in Nat /\ ms[k].answers <= n
    BY <1>1, <1>5 DEF ToolMessageFor, Numbered, MessageType
  <1>8. CASE U = {}
    <2>1. Lone(ms, k)
      BY <1>5, <1>8
    <2>2. ASSUME NEW c \in AllCallsOf(t) PROVE c.call # t[k].answers
      <3>1. CASE c \in AllCallsOf(ms)
        BY <2>1, <1>6, <3>1 DEF Lone
      <3>2. CASE c \in AllCallsOf(ns)
        <4>1. n < c.call /\ c.call \in Nat
          <5>1. c \in CallType
            BY <3>2, CallsAre
          <5>2. n < c.call
            BY <3>2 DEF Fresh, AllCallsOf
          <5>3. QED BY <5>1, <5>2 DEF CallType
        <4>2. QED BY <1>6, <1>7, <4>1
      <3>3. QED BY <2>2, <3>1, <3>2, CallsConcat
    <2>3. ASSUME NEW l \in DOMAIN t, t[l].answers = t[k].answers PROVE l = k
      <3>1. CASE l \in 1 .. Len(ms)
        BY <1>1, <1>6, <2>1, <2>3, <3>1 DEF Lone
      <3>2. ASSUME NEW i \in 1 .. Len(ns), l = Len(ms) + i PROVE FALSE
        <4>1. ns[i].answers = ms[k].answers /\ ns[i].answers \in Nat
          BY <1>1, <1>6, <2>3, <3>2 DEF MessageType
        <4>2. ns[i].answers # None
          BY <1>7, <4>1
        <4>3. ~(n < ns[i].answers)
          BY <1>7, <4>1
        <4>4. ~ \E c \in AllCallsOf(ms) : c.call = ns[i].answers
          BY <2>1, <4>1 DEF Lone
        <4>5. QED BY <1>1, <3>2, <4>2, <4>3, <4>4 DEF Fresh
      <3>3. QED BY <1>1, <3>1, <3>2
    <2> HIDE DEF t, b, tool, U
    <2>4. Lone(t, k)
      BY <2>2, <2>3 DEF Lone
    <2>5. Answered(t, b, j)
      BY <1>3, <1>4, <1>6, <1>8, <2>4 DEF Answered, tool
    <2>6. QED BY <1>3, <2>5 DEF t, b
  <1>9. CASE U # {}
    <2>1. Max(U) \in U
      BY <1>2, <1>4, <1>9, MaxIs
    <2>2. Max(U) \in 1 .. Len(bd)
      BY <1>4, <2>1
    <2>3. b[Max(U)] = bd[Max(U)]
      BY <1>2, <2>2
    <2>4. PICK i \in 1 .. k - 1 :
            \E c \in CallsIn(ms[i]) : c.call = ms[k].answers /\ c.at = bd[Max(U)].at
      BY <1>5, <1>9 DEF Answers
    <2>5. t[i] = ms[i]
      <3>1. i \in 1 .. Len(ms)
        BY <1>1, <1>5
      <3>2. QED BY <1>1, <3>1
    <2> HIDE DEF t, b, tool, U
    <2>6. Answers(t, b, k, Max(U))
      BY <1>6, <2>3, <2>4, <2>5 DEF Answers
    <2>7. Answered(t, b, j)
      BY <1>3, <1>4, <1>6, <1>9, <2>6 DEF Answered, tool
    <2>8. QED BY <1>3, <2>7 DEF t, b
  <1>10. QED BY <1>8, <1>9

\* Ids stay minted, and tool messages keep theirs.
LEMMA StillNumbered ==
  ASSUME NEW ms \in Seq(MessageType), NEW ns \in Seq(MessageType),
         NEW n \in Nat, NEW n2 \in Nat, n <= n2, Numbered(ms, n), Fresh(ms, ns, n, n2)
  PROVE  Numbered(ms \o ns, n2)
  <1> DEFINE t == ms \o ns
  <1>1. /\ DOMAIN ms = 1 .. Len(ms) /\ DOMAIN ns = 1 .. Len(ns)
        /\ \A i \in 1 .. Len(ms) : t[i] = ms[i] /\ ms[i] \in MessageType
        /\ \A i \in 1 .. Len(ns) : t[Len(ms) + i] = ns[i] /\ ns[i] \in MessageType
        /\ DOMAIN t = 1 .. Len(ms) + Len(ns)
        /\ \A k \in 1 .. Len(ms) + Len(ns) : k \in 1 .. Len(ms) \/ \E i \in 1 .. Len(ns) : k = Len(ms) + i
    BY ConcatAt
  <1> HIDE DEF t
  <1>2. ASSUME NEW k \in 1 .. Len(ms)
        PROVE  /\ ms[k].answers <= n2 /\ (ms[k].role = "tool" => ms[k].answers # None)
               /\ \A c \in CallsIn(ms[k]) : c.call <= n2
    <2>1. ms[k].answers \in Nat /\ ms[k].answers <= n /\ (ms[k].role = "tool" => ms[k].answers # None)
      BY <1>1 DEF Numbered, MessageType
    <2>2. ASSUME NEW c \in CallsIn(ms[k]) PROVE c.call <= n2
      <3>1. c \in CallType
        BY <1>1, CallsAre
      <3>2. c.call <= n /\ c.call \in Nat
        BY <1>1, <3>1 DEF Numbered, CallType
      <3>3. QED BY <3>2
    <2>3. QED BY <2>1, <2>2
  <1>3. ASSUME NEW k \in DOMAIN t
        PROVE  /\ t[k].answers <= n2 /\ (t[k].role = "tool" => t[k].answers # None)
               /\ \A c \in CallsIn(t[k]) : c.call <= n2
    <2>1. CASE k \in 1 .. Len(ms)
      BY <1>1, <1>2, <2>1
    <2>2. ASSUME NEW i \in 1 .. Len(ns), k = Len(ms) + i
          PROVE  /\ t[k].answers <= n2 /\ (t[k].role = "tool" => t[k].answers # None)
                 /\ \A c \in CallsIn(t[k]) : c.call <= n2
      <3>1. t[k] = ns[i] /\ i \in DOMAIN ns
        BY <1>1, <2>2
      <3>2. QED BY <3>1 DEF Fresh
    <2>3. QED BY <1>1, <2>1, <2>2
  <1>4. QED BY <1>3 DEF Numbered, t

\* Messages that have nothing to do with tools, for blocks that have not either.
LEMMA LinkedMore ==
  ASSUME NEW ms \in Seq(MessageType), NEW ns \in Seq(MessageType),
         NEW bd \in Seq(BodyItem), NEW bs \in Seq(BodyItem),
         NEW n \in Nat, NEW known, Linked(ms, bd, known, n),
         \A k \in DOMAIN ns : ns[k].role # "tool" /\ ns[k].calls = <<>> /\ ns[k].answers = None,
         \A i \in DOMAIN bs : bs[i].type \notin ToolTypes
  PROVE  Linked(ms \o ns, bd \o bs, known, n)
  <1> DEFINE t == ms \o ns
             b == bd \o bs
  <1>1. \A k \in DOMAIN ns : CallsIn(ns[k]) = {}
    BY DEF CallsIn, ToSet
  <1>2. None <= n
    BY DEF None
  <1>3. Fresh(ms, ns, n, n) /\ AllCallsOf(ns) = {}
    BY <1>1, <1>2 DEF Fresh, AllCallsOf
  <1>4. AllCallsOf(t) = AllCallsOf(ms)
    <2>1. AllCallsOf(t) = AllCallsOf(ms) \cup AllCallsOf(ns)
      BY CallsConcat
    <2>2. QED BY <1>3, <2>1
  <1>5. Numbered(t, n)
    BY <1>3, StillNumbered DEF Linked
  <1>6. Distinct(t)
    BY <1>4 DEF Linked, Distinct
  <1>7. /\ Len(bd) \in Nat /\ Len(bs) \in Nat /\ DOMAIN bd = 1 .. Len(bd) /\ DOMAIN bs = 1 .. Len(bs)
        /\ DOMAIN b = 1 .. Len(bd) + Len(bs) /\ Len(b) = Len(bd) + Len(bs) /\ b \in Seq(BodyItem)
        /\ \A i \in 1 .. Len(bd) : b[i] = bd[i]
        /\ \A i \in 1 .. Len(bs) : b[Len(bd) + i] = bs[i]
        /\ \A k \in 1 .. Len(bd) + Len(bs) : k \in 1 .. Len(bd) \/ \E i \in 1 .. Len(bs) : k = Len(bd) + i
    BY ConcatAt
  <1>8. ASSUME NEW i \in DOMAIN b, b[i].type \in ToolTypes PROVE i \in DOMAIN bd /\ b[i] = bd[i]
    <2> HIDE DEF b
    <2>1. ~ \E k \in 1 .. Len(bs) : i = Len(bd) + k
      BY <1>7, <1>8
    <2>2. QED BY <1>7, <2>1
  <1>9. ASSUME NEW tool PROVE Uses(b, tool, Len(b)) = Uses(bd, tool, Len(bd))
    <2>1. \A i \in 1 .. Len(b) : b[i].type = "tool_use" => i \in 1 .. Len(bd) /\ b[i] = bd[i]
      BY <1>7, <1>8 DEF ToolTypes
    <2>2. \A i \in 1 .. Len(bd) : i \in 1 .. Len(b) /\ b[i] = bd[i]
      BY <1>7
    <2>3. QED BY <2>1, <2>2 DEF Uses
  <1>10. Known(t, b, known)
    <2>1. Known(ms, bd, known)
      BY DEF Linked
    <2>2. ASSUME NEW tool \in ToolIds, Uses(bd, tool, Len(bd)) # {}
          PROVE  b[Max(Uses(bd, tool, Len(bd)))] = bd[Max(Uses(bd, tool, Len(bd)))]
      <3> DEFINE U == Uses(bd, tool, Len(bd))
      <3>1. U \in SUBSET (1 .. Len(bd))
        BY DEF Uses
      <3> HIDE DEF U
      <3>2. Max(U) \in 1 .. Len(bd)
        BY <1>7, <2>2, <3>1, MaxIs DEF U
      <3>3. QED BY <1>7, <3>2 DEF U
    <2> HIDE DEF b, t
    <2>3. QED BY <1>4, <1>9, <2>1, <2>2 DEF Known
  <1>11. ASSUME NEW j \in DOMAIN b, b[j].type = "tool_result" PROVE Answered(t, b, j)
    <2>1. j \in DOMAIN bd /\ b[j] = bd[j]
      BY <1>8, <1>11 DEF ToolTypes
    <2>2. Answered(ms, bd, j) /\ Numbered(ms, n)
      BY <1>11, <2>1 DEF Linked
    <2>3. QED BY <1>3, <2>1, <2>2, StillAnswered
  <1> HIDE DEF t, b
  <1>12. Linked(t, b, known, n)
    BY <1>5, <1>6, <1>10, <1>11 DEF Linked
  <1>13. QED BY <1>12 DEF t, b

\* The calls that a list of uses is given, and the dictionary after them.
CalledFor(calls, uses, n) ==
  /\ Len(calls) = Len(uses)
  /\ \A k \in DOMAIN calls :
       calls[k].call = n + k /\ calls[k].tool = uses[k].tool /\ calls[k].at = uses[k].at
KnowsThem(known, calls, known2) ==
  \A t \in ToolIds :
    \/ /\ known2[t] = known[t]
       /\ \A k \in DOMAIN calls : calls[k].tool # t
    \/ \E k \in DOMAIN calls :
         /\ known2[t] = calls[k].call /\ calls[k].tool = t
         /\ \A j \in DOMAIN calls : calls[j].tool = t => j <= k

\* A message with the calls of an assistant's blocks.
LEMMA LinkedCalls ==
  ASSUME NEW ms \in Seq(MessageType), NEW ns \in Seq(MessageType),
         NEW bd \in Seq(BodyItem), NEW bs \in Seq(BodyItem), NEW calls \in Seq(CallType),
         NEW n \in Nat, NEW known, NEW known2, Linked(ms, bd, known, n),
         \A k \in DOMAIN ns : ns[k].role # "tool" /\ ns[k].answers = None,
         AllCallsOf(ns) = {calls[k] : k \in DOMAIN calls},
         CalledFor(calls, OfType(bs, {"tool_use"}), n), KnowsThem(known, calls, known2),
         \A i \in DOMAIN bs : bs[i].type # "tool_result"
  PROVE  Linked(ms \o ns, bd \o bs, known2, n + Len(calls))
  <1> DEFINE t == ms \o ns
             b == bd \o bs
             T == {"tool_use"}
             r == OfType(bs, T)
             n2 == n + Len(calls)
  <1>1. /\ r \in Seq(BodyItem) /\ Len(calls) \in Nat /\ Len(calls) = Len(r)
        /\ DOMAIN calls = 1 .. Len(calls) /\ DOMAIN r = 1 .. Len(calls)
        /\ \A k \in 1 .. Len(calls) :
             calls[k].call = n + k /\ calls[k].tool = r[k].tool /\ calls[k].at = r[k].at
    <2>1. r \in Seq(BodyItem)
      BY OfTypeType
    <2>2. Len(calls) \in Nat /\ DOMAIN calls = 1 .. Len(calls) /\ DOMAIN r = 1 .. Len(r)
      BY <2>1, LenProperties
    <2>3. QED BY <2>1, <2>2 DEF CalledFor
  <1>2. n2 \in Nat /\ n <= n2 /\ \A k \in 1 .. Len(calls) : n < n + k /\ n + k <= n2
    BY <1>1
  <1>3. ASSUME NEW c \in AllCallsOf(ns)
        PROVE  /\ \E k \in 1 .. Len(calls) : c = calls[k] /\ c.call = n + k
               /\ n < c.call /\ c.call <= n2
    BY <1>1, <1>2
  <1>4. Fresh(ms, ns, n, n2)
    <2>1. None <= n2
      BY <1>2 DEF None
    <2>2. \A k \in DOMAIN ns : \A c \in CallsIn(ns[k]) : c \in AllCallsOf(ns)
      BY CallsAre
    <2> HIDE DEF n2
    <2>3. QED BY <1>3, <2>1, <2>2 DEF Fresh
  <1>5. Numbered(t, n2)
    BY <1>2, <1>4, StillNumbered DEF Linked
  <1>6. \A c \in AllCallsOf(ms) : c.call \in Nat /\ c.call <= n
    <2>1. TAKE c \in AllCallsOf(ms)
    <2>2. c \in CallType /\ c.call <= n
      BY CallsAre DEF Linked, Numbered, AllCallsOf
    <2>3. QED BY <2>2 DEF CallType
  <1>7. AllCallsOf(t) = AllCallsOf(ms) \cup AllCallsOf(ns)
    BY CallsConcat
  <1>8. Distinct(t)
    <2> SUFFICES ASSUME NEW c \in AllCallsOf(t), NEW d \in AllCallsOf(t), c.call = d.call
                 PROVE  c = d
      BY DEF Distinct
    <2>1. CASE c \in AllCallsOf(ms) /\ d \in AllCallsOf(ms)
      BY <2>1 DEF Linked, Distinct
    <2>2. CASE c \in AllCallsOf(ns) /\ d \in AllCallsOf(ns)
      <3>1. PICK k \in 1 .. Len(calls) : c = calls[k] /\ c.call = n + k
        BY <1>3, <2>2
      <3>2. PICK j \in 1 .. Len(calls) : d = calls[j] /\ d.call = n + j
        BY <1>3, <2>2
      <3>3. k = j
        BY <3>1, <3>2, <1>1
      <3>4. QED BY <3>1, <3>2, <3>3
    <2>3. CASE c \in AllCallsOf(ms) /\ d \in AllCallsOf(ns)
      <3>1. c.call \in Nat /\ c.call <= n /\ n < d.call
        BY <1>3, <1>6, <2>3
      <3>2. QED BY <3>1
    <2>4. CASE c \in AllCallsOf(ns) /\ d \in AllCallsOf(ms)
      <3>1. d.call \in Nat /\ d.call <= n /\ n < c.call
        BY <1>3, <1>6, <2>4
      <3>2. QED BY <3>1
    <2>5. QED BY <1>7, <2>1, <2>2, <2>3, <2>4
  <1>9. /\ Len(bd) \in Nat /\ Len(bs) \in Nat /\ DOMAIN bd = 1 .. Len(bd) /\ DOMAIN bs = 1 .. Len(bs)
        /\ DOMAIN b = 1 .. Len(bd) + Len(bs) /\ Len(b) = Len(bd) + Len(bs) /\ b \in Seq(BodyItem)
        /\ \A i \in 1 .. Len(bd) : b[i] = bd[i]
        /\ \A i \in 1 .. Len(bs) : b[Len(bd) + i] = bs[i] /\ bs[i] \in BodyItem
        /\ \A k \in 1 .. Len(bd) + Len(bs) : k \in 1 .. Len(bd) \/ \E i \in 1 .. Len(bs) : k = Len(bd) + i
    BY ConcatAt
  <1>10. ASSUME NEW j \in DOMAIN b, b[j].type = "tool_result" PROVE Answered(t, b, j)
    <2>1. ~ \E k \in 1 .. Len(bs) : j = Len(bd) + k
      BY <1>9, <1>10
    <2>2. j \in DOMAIN bd /\ b[j] = bd[j]
      <3> HIDE DEF b
      <3>1. QED BY <1>9, <2>1
    <2>3. Answered(ms, bd, j) /\ Numbered(ms, n)
      BY <1>10, <2>2 DEF Linked
    <2>4. QED BY <1>2, <1>4, <2>2, <2>3, StillAnswered
  <1>11. ASSUME NEW tool \in ToolIds
         PROVE  IF Uses(b, tool, Len(b)) = {} THEN known2[tool] = None
                ELSE \E c \in AllCallsOf(t) :
                       c.call = known2[tool] /\ c.at = b[Max(Uses(b, tool, Len(b)))].at
    <2> DEFINE U == Uses(bd, tool, Len(bd))
               V == Uses(b, tool, Len(b))
               P == {x \in BodyItem : x.tool = tool}
    <2>1. \A k \in DOMAIN calls : r[k] \in P <=> calls[k].tool = tool
      <3>1. \A k \in DOMAIN calls : r[k] \in BodyItem
        BY <1>1
      <3> HIDE DEF r
      <3>2. QED BY <1>1, <3>1
    <2>2. \/ /\ known2[tool] = known[tool]
             /\ \A k \in DOMAIN calls : calls[k].tool # tool
          \/ \E k \in DOMAIN calls :
               /\ known2[tool] = calls[k].call /\ calls[k].tool = tool
               /\ \A j \in DOMAIN calls : calls[j].tool = tool => j <= k
      BY DEF KnowsThem
    <2>3. LastKept(bs, T, P)
      BY LastIsKept
    <2>4. CASE \A k \in DOMAIN calls : calls[k].tool # tool
      <3>1. \A i \in DOMAIN bs : bs[i].type \in T => bs[i] \notin P
        <4> HIDE DEF T, P
        <4>1. \A k \in DOMAIN r : r[k] \notin P
          BY <1>1, <2>1, <2>4
        <4>2. QED BY <2>3, <4>1 DEF LastKept, r
      <3>2. V = U
        <4>1. ASSUME NEW i \in 1 .. Len(b), b[i].type = "tool_use", b[i].tool = tool
              PROVE  i \in 1 .. Len(bd) /\ b[i] = bd[i]
          <5> HIDE DEF b
          <5>1. ASSUME NEW k \in 1 .. Len(bs), i = Len(bd) + k PROVE FALSE
            <6>1. bs[k].type \in T /\ bs[k] \in P
              BY <1>9, <4>1, <5>1
            <6>2. QED BY <1>9, <3>1, <6>1
          <5>2. QED BY <1>9, <5>1
        <4>2. \A i \in 1 .. Len(bd) : i \in 1 .. Len(b) /\ b[i] = bd[i]
          BY <1>9
        <4>3. QED BY <4>1, <4>2 DEF Uses
      <3>3. known2[tool] = known[tool]
        BY <2>2, <2>4
      <3>4. IF U = {} THEN known[tool] = None
            ELSE \E c \in AllCallsOf(ms) : c.call = known[tool] /\ c.at = bd[Max(U)].at
        BY DEF Linked, Known
      <3>5. U # {} => b[Max(U)] = bd[Max(U)]
        <4>1. U \in SUBSET (1 .. Len(bd))
          BY DEF Uses
        <4> HIDE DEF U
        <4>2. U # {} => Max(U) \in 1 .. Len(bd)
          BY <1>9, <4>1, MaxIs
        <4>3. QED BY <1>9, <4>2
      <3> HIDE DEF U, V, t, b
      <3>6. QED BY <1>7, <3>2, <3>3, <3>4, <3>5 DEF V
    <2>5. CASE ~ \A k \in DOMAIN calls : calls[k].tool # tool
      <3>1. PICK k \in DOMAIN calls :
              /\ known2[tool] = calls[k].call /\ calls[k].tool = tool
              /\ \A j \in DOMAIN calls : calls[j].tool = tool => j <= k
        BY <2>2, <2>5
      <3>2. PICK h \in DOMAIN r, i \in DOMAIN bs :
              /\ r[h] = bs[i] /\ bs[i].type \in T /\ bs[i] \in P
              /\ \A j \in DOMAIN r : r[j] \in P => j <= h
              /\ \A j \in DOMAIN bs : bs[j].type \in T /\ bs[j] \in P => j <= i
        <4> HIDE DEF T, P
        <4>1. ~ \A j \in DOMAIN r : r[j] \notin P
          BY <1>1, <2>1, <2>5
        <4>2. QED BY <2>3, <4>1 DEF LastKept, r
      <3>3. h = k
        <4> HIDE DEF r, P
        <4>1. h \in DOMAIN calls /\ calls[h].tool = tool /\ h <= k
          BY <1>1, <2>1, <3>1, <3>2
        <4>2. k <= h
          BY <1>1, <2>1, <3>1, <3>2
        <4>3. QED BY <1>1, <4>1, <4>2
      <3> DEFINE m == Len(bd) + i
      <3>4. m \in 1 .. Len(b) /\ b[m] = bs[i]
        <4> HIDE DEF b
        <4>1. QED BY <1>9, <3>2
      <3>5. m \in V
        BY <3>2, <3>4 DEF Uses
      <3>6. ASSUME NEW j \in V PROVE j <= m
        <4> HIDE DEF b
        <4>1. j \in 1 .. Len(b) /\ b[j].type = "tool_use" /\ b[j].tool = tool
          BY DEF Uses
        <4>2. CASE j \in 1 .. Len(bd)
          BY <1>9, <4>2
        <4>3. ASSUME NEW l \in 1 .. Len(bs), j = Len(bd) + l PROVE j <= m
          <5>1. bs[l].type \in T /\ bs[l] \in P
            BY <1>9, <4>1, <4>3
          <5>2. l <= i
            BY <1>9, <3>2, <5>1
          <5>3. QED BY <1>9, <4>3, <5>2
        <4>4. QED BY <1>9, <4>1, <4>2, <4>3
      <3>7. V \in SUBSET (1 .. Len(b))
        BY DEF Uses
      <3>8. Max(V) = m
        <4> HIDE DEF V, m, b
        <4>1. Len(b) \in Nat
          BY <1>9
        <4>2. QED BY <3>5, <3>6, <3>7, <4>1, MaxOf
      <3>9. calls[k] \in AllCallsOf(t)
        BY <1>7, <3>1
      <3>10. calls[k].at = b[m].at
        <4> HIDE DEF r, m, b
        <4>1. QED BY <1>1, <3>2, <3>3, <3>4
      <3> HIDE DEF V, m, t, b
      <3>11. V # {} /\ \E c \in AllCallsOf(t) : c.call = known2[tool] /\ c.at = b[Max(V)].at
        BY <3>1, <3>5, <3>8, <3>9, <3>10
      <3>12. QED BY <3>11 DEF V
    <2>6. QED BY <2>4, <2>5
  <1> HIDE DEF t, b, n2
  <1>12. Known(t, b, known2)
    BY <1>11 DEF Known
  <1>13. Linked(t, b, known2, n2)
    BY <1>5, <1>8, <1>10, <1>12 DEF Linked
  <1>14. QED BY <1>13 DEF t, b, n2

\* The dictionary's ids are minted, and those it has are calls.
LEMMA KnownIs ==
  ASSUME NEW ms \in Seq(MessageType), NEW bd \in Seq(BodyItem), NEW n \in Nat, NEW known,
         Linked(ms, bd, known, n), NEW tool \in ToolIds
  PROVE  /\ known[tool] \in Nat /\ known[tool] <= n
         /\ known[tool] # None =>
              /\ Uses(bd, tool, Len(bd)) # {}
              /\ \E c \in AllCallsOf(ms) : c.call = known[tool]
         /\ Uses(bd, tool, Len(bd)) # {} => known[tool] # None
  <1> DEFINE U == Uses(bd, tool, Len(bd))
  <1>1. IF U = {} THEN known[tool] = None
        ELSE \E c \in AllCallsOf(ms) : c.call = known[tool] /\ c.at = bd[Max(U)].at
    BY DEF Linked, Known
  <1>2. \A c \in AllCallsOf(ms) : c.call \in Nat /\ c.call # 0 /\ c.call <= n
    <2>1. TAKE c \in AllCallsOf(ms)
    <2>2. c \in CallType /\ c.call <= n
      BY CallsAre DEF Linked, Numbered, AllCallsOf
    <2>3. QED BY <2>2 DEF CallType
  <1> HIDE DEF U
  <1>3. None = 0 /\ None <= n
    BY DEF None
  <1>4. QED BY <1>1, <1>2, <1>3 DEF U

\* The messages that answer a list of results.
AnsweringFor(ns, results, known, n) ==
  /\ Len(ns) = Len(results)
  /\ \A k \in DOMAIN ns : IsAnswer(ns[k], results[k], known, n + k) /\ results[k].tool \in ToolIds

\* The tool messages of a user's blocks.
LEMMA LinkedAnswers ==
  ASSUME NEW ms \in Seq(MessageType), NEW ns \in Seq(MessageType),
         NEW bd \in Seq(BodyItem), NEW bs \in Seq(BodyItem),
         NEW n \in Nat, NEW known, Linked(ms, bd, known, n),
         AnsweringFor(ns, OfType(bs, {"tool_result"}), known, n),
         \A i \in DOMAIN bs : bs[i].type # "tool_use"
  PROVE  Linked(ms \o ns, bd \o bs, known, n + Len(ns))
  <1> DEFINE t == ms \o ns
             b == bd \o bs
             T == {"tool_result"}
             r == OfType(bs, T)
             n2 == n + Len(ns)
  <1>1. /\ r \in Seq(BodyItem) /\ Len(ns) \in Nat
        /\ DOMAIN ns = 1 .. Len(ns) /\ DOMAIN r = 1 .. Len(ns)
    <2>1. r \in Seq(BodyItem)
      BY OfTypeType
    <2>2. Len(ns) \in Nat /\ DOMAIN ns = 1 .. Len(ns) /\ DOMAIN r = 1 .. Len(r)
      BY <2>1, LenProperties
    <2>3. Len(ns) = Len(r)
      BY DEF AnsweringFor
    <2>4. QED BY <2>1, <2>2, <2>3
  <1>2. n2 \in Nat /\ n <= n2 /\ \A k \in 1 .. Len(ns) : n < n + k /\ n + k <= n2 /\ n + k \in Nat /\ n + k # 0
    BY <1>1
  <1>3. ASSUME NEW k \in 1 .. Len(ns)
        PROVE  /\ r[k].tool \in ToolIds /\ ns[k].role = "tool" /\ CallsIn(ns[k]) = {}
               /\ ns[k].content.parts[1].at = r[k].at
               /\ \/ known[r[k].tool] # None /\ ns[k].answers = known[r[k].tool]
                  \/ known[r[k].tool] = None /\ ns[k].answers = n + k
    <2>1. IsAnswer(ns[k], r[k], known, n + k) /\ r[k].tool \in ToolIds
      BY <1>1 DEF AnsweringFor
    <2> HIDE DEF r
    <2>2. ns[k].calls = <<>> /\ ns[k].role = "tool"
      BY <2>1 DEF IsAnswer
    <2>3. CallsIn(ns[k]) = {}
      BY <2>2 DEF CallsIn, ToSet
    <2>4. ns[k].content.parts[1].at = r[k].at
      BY <2>1 DEF IsAnswer, String, Text
    <2>5. \/ known[r[k].tool] # None /\ ns[k].answers = known[r[k].tool]
          \/ known[r[k].tool] = None /\ ns[k].answers = n + k
      BY <2>1 DEF IsAnswer
    <2>6. QED BY <2>1, <2>2, <2>3, <2>4, <2>5
  <1> HIDE DEF r
  <1>4. ASSUME NEW tool \in ToolIds
         PROVE  /\ known[tool] \in Nat /\ known[tool] <= n
                /\ known[tool] # None =>
                     /\ Uses(bd, tool, Len(bd)) # {}
                     /\ \E c \in AllCallsOf(ms) : c.call = known[tool]
                /\ Uses(bd, tool, Len(bd)) # {} => known[tool] # None
    BY KnownIs
  <1>5. ASSUME NEW k \in 1 .. Len(ns)
        PROVE  /\ ns[k].answers # None /\ ns[k].answers \in Nat /\ ns[k].answers <= n2
               /\ n < ns[k].answers \/ \E c \in AllCallsOf(ms) : c.call = ns[k].answers
    <2>1. CASE known[r[k].tool] # None
      <3>1. /\ known[r[k].tool] \in Nat /\ known[r[k].tool] <= n
            /\ \E c \in AllCallsOf(ms) : c.call = known[r[k].tool]
        BY <1>3, <2>1, <1>4
      <3>2. ns[k].answers = known[r[k].tool]
        BY <1>3, <2>1
      <3> DEFINE a == known[r[k].tool]
      <3> HIDE DEF a
      <3>3. a \in Nat /\ a <= n /\ a # None /\ ns[k].answers = a /\ \E c \in AllCallsOf(ms) : c.call = a
        BY <2>1, <3>1, <3>2 DEF a
      <3>4. a <= n2
        BY <1>2, <3>3
      <3>5. QED BY <3>3, <3>4
    <2>2. CASE known[r[k].tool] = None
      <3>1. ns[k].answers = n + k
        BY <1>3, <2>2
      <3>2. QED BY <1>2, <3>1 DEF None
    <2>3. QED BY <2>1, <2>2
  <1> HIDE DEF n2
  <1>6. Fresh(ms, ns, n, n2) /\ AllCallsOf(ns) = {}
    BY <1>1, <1>3, <1>5 DEF Fresh, AllCallsOf
  <1>7. AllCallsOf(t) = AllCallsOf(ms)
    <2>1. AllCallsOf(t) = AllCallsOf(ms) \cup AllCallsOf(ns)
      BY CallsConcat
    <2>2. QED BY <1>6, <2>1
  <1>8. Numbered(t, n2)
    BY <1>2, <1>6, StillNumbered DEF Linked
  <1>9. Distinct(t)
    BY <1>7 DEF Linked, Distinct
  <1>10. /\ Len(bd) \in Nat /\ Len(bs) \in Nat /\ DOMAIN bd = 1 .. Len(bd) /\ DOMAIN bs = 1 .. Len(bs)
         /\ DOMAIN b = 1 .. Len(bd) + Len(bs) /\ Len(b) = Len(bd) + Len(bs) /\ b \in Seq(BodyItem)
         /\ \A i \in 1 .. Len(bd) : b[i] = bd[i]
         /\ \A i \in 1 .. Len(bs) : b[Len(bd) + i] = bs[i] /\ bs[i] \in BodyItem
         /\ \A k \in 1 .. Len(bd) + Len(bs) : k \in 1 .. Len(bd) \/ \E i \in 1 .. Len(bs) : k = Len(bd) + i
    BY ConcatAt
  <1>11. ASSUME NEW tool, NEW l \in Len(bd) .. Len(b)
         PROVE  Uses(b, tool, l) = Uses(bd, tool, Len(bd))
    <2> HIDE DEF b
    <2>1. ASSUME NEW i \in 1 .. l, b[i].type = "tool_use" PROVE i \in 1 .. Len(bd) /\ b[i] = bd[i]
      <3>1. ~ \E k \in 1 .. Len(bs) : i = Len(bd) + k
        BY <1>10, <2>1
      <3>2. i \in 1 .. Len(bd) + Len(bs)
        BY <1>10
      <3>3. QED BY <1>10, <3>1, <3>2
    <2>2. \A i \in 1 .. Len(bd) : i \in 1 .. l /\ b[i] = bd[i]
      BY <1>10
    <2>3. QED BY <2>1, <2>2 DEF Uses
  <1>12. ASSUME NEW tool \in ToolIds, Uses(bd, tool, Len(bd)) # {}
         PROVE  b[Max(Uses(bd, tool, Len(bd)))] = bd[Max(Uses(bd, tool, Len(bd)))]
    <2> DEFINE U == Uses(bd, tool, Len(bd))
    <2>1. U \in SUBSET (1 .. Len(bd))
      BY DEF Uses
    <2> HIDE DEF U
    <2>2. Max(U) \in 1 .. Len(bd)
      BY <1>10, <1>12, <2>1, MaxIs DEF U
    <2>3. QED BY <1>10, <2>2 DEF U
  <1>13. Known(t, b, known)
    <2>1. Known(ms, bd, known)
      BY DEF Linked
    <2>2. Len(b) \in Len(bd) .. Len(b)
      BY <1>10
    <2>3. \A tool : Uses(b, tool, Len(b)) = Uses(bd, tool, Len(bd))
      BY <1>11, <2>2
    <2> HIDE DEF b, t
    <2>4. QED BY <1>7, <1>12, <2>1, <2>3 DEF Known
  <1>14. /\ Len(ms) \in Nat /\ DOMAIN ms = 1 .. Len(ms)
         /\ DOMAIN t = 1 .. Len(ms) + Len(ns)
         /\ \A i \in 1 .. Len(ms) : t[i] = ms[i] /\ ms[i] \in MessageType
         /\ \A i \in 1 .. Len(ns) : t[Len(ms) + i] = ns[i] /\ ns[i] \in MessageType
         /\ \A k \in 1 .. Len(ms) + Len(ns) : k \in 1 .. Len(ms) \/ \E i \in 1 .. Len(ns) : k = Len(ms) + i
    BY ConcatAt
  <1>15. ASSUME NEW j \in 1 .. Len(bs), bs[j].type = "tool_result" PROVE Answered(t, b, Len(bd) + j)
    <2> DEFINE P == {bs[j]}
               i == Len(bd) + j
               tool == bs[j].tool
               U == Uses(bd, tool, Len(bd))
    <2>1. PICK k \in DOMAIN r : r[k] = bs[j]
      <3>1. LastKept(bs, T, P)
        BY LastIsKept
      <3>2. bs[j].type \in T /\ bs[j] \in P /\ j \in DOMAIN bs
        BY <1>10, <1>15
      <3>3. ~ \A k \in DOMAIN bs : bs[k].type \in T => bs[k] \notin P
        BY <3>2
      <3> HIDE DEF T, P
      <3>4. PICK k \in DOMAIN r : r[k] \in P
        BY <3>1, <3>3 DEF LastKept, r
      <3>5. QED BY <3>4 DEF P
    <2> DEFINE a == Len(ms) + k
    <2>2. k \in 1 .. Len(ns) /\ r[k].tool = tool /\ tool \in ToolIds
      BY <1>1, <1>3, <2>1
    <2>3. a \in DOMAIN t /\ t[a] = ns[k]
      <3> HIDE DEF t
      <3>1. QED BY <1>1, <1>14, <2>2
    <2>4. b[i] = bs[j] /\ i - 1 \in Len(bd) .. Len(b)
      <3>1. b[i] = bs[j]
        BY <1>10
      <3>2. i - 1 \in Len(bd) .. Len(b)
        <4> HIDE DEF b
        <4>1. QED BY <1>10
      <3>3. QED BY <3>1, <3>2
    <2>5. Uses(b, tool, i - 1) = U
      BY <1>11, <2>4
    <2>6. ToolMessageFor(t[a], b[i])
      BY <1>3, <2>1, <2>2, <2>3, <2>4 DEF ToolMessageFor
    <2>7. CASE U = {}
      <3>1. ns[k].answers = n + k
        BY <1>3, <2>2, <2>7, <1>4
      <3>2. ASSUME NEW c \in AllCallsOf(t) PROVE c.call # t[a].answers
        <4>1. c \in AllCallsOf(ms)
          BY <1>7
        <4>2. c \in CallType /\ c.call <= n
          BY <4>1, CallsAre DEF Linked, Numbered, AllCallsOf
        <4>3. QED BY <1>2, <2>2, <2>3, <3>1, <4>2 DEF CallType
      <3>3. ASSUME NEW l \in DOMAIN t, t[l].answers = t[a].answers PROVE l = a
        <4> HIDE DEF t, a
        <4>1. t[l].answers = n + k
          BY <2>3, <3>1, <3>3
        <4>2. CASE l \in 1 .. Len(ms)
          <5>1. t[l].answers \in Nat /\ t[l].answers <= n
            BY <1>14, <4>2 DEF MessageType, Linked, Numbered
          <5>2. QED BY <1>2, <2>2, <4>1, <5>1
        <4>3. ASSUME NEW h \in 1 .. Len(ns), l = Len(ms) + h PROVE l = a
          <5>1. ns[h].answers = n + k
            BY <1>14, <4>1, <4>3
          <5>2. known[r[h].tool] <= n /\ known[r[h].tool] \in Nat
            BY <1>3, <1>4
          <5>3. ns[h].answers # known[r[h].tool]
            BY <1>2, <2>2, <5>1, <5>2
          <5>4. n + k = n + h
            BY <1>3, <5>1, <5>3
          <5>5. k = h
            BY <2>2, <5>4
          <5>6. QED BY <4>3, <5>5 DEF a
        <4>4. QED BY <1>14, <4>2, <4>3
      <3> HIDE DEF t, b, a, i, tool, U
      <3>4. Lone(t, a)
        BY <3>2, <3>3 DEF Lone
      <3>5. Answered(t, b, i)
        BY <2>3, <2>4, <2>5, <2>6, <2>7, <3>4 DEF Answered, tool
      <3>6. QED BY <3>5 DEF t, b, i
    <2>8. CASE U # {}
      <3>1. known[tool] # None /\ ns[k].answers = known[tool]
        BY <1>3, <2>2, <2>8, <1>4
      <3>2. PICK c \in AllCallsOf(ms) : c.call = known[tool] /\ c.at = bd[Max(U)].at
        BY <2>2, <2>8 DEF Linked, Known
      <3>3. PICK h \in DOMAIN ms : c \in CallsIn(ms[h])
        BY DEF AllCallsOf
      <3>4. h \in 1 .. a - 1 /\ t[h] = ms[h]
        <4> HIDE DEF t
        <4>1. QED BY <1>14, <2>2, <1>1
      <3>5. c.at = b[Max(U)].at
        BY <1>12, <2>2, <2>8, <3>2
      <3> HIDE DEF t, b, a, i, tool, U
      <3>6. Answers(t, b, a, Max(U))
        BY <2>3, <3>1, <3>2, <3>3, <3>4, <3>5 DEF Answers
      <3>7. Answered(t, b, i)
        BY <2>3, <2>4, <2>5, <2>6, <2>8, <3>6 DEF Answered, tool
      <3>8. QED BY <3>7 DEF t, b, i
    <2>9. QED BY <2>7, <2>8
  <1>16. ASSUME NEW j \in DOMAIN b, b[j].type = "tool_result" PROVE Answered(t, b, j)
    <2>1. CASE j \in 1 .. Len(bd)
      <3>1. j \in DOMAIN bd /\ b[j] = bd[j]
        BY <1>10, <2>1
      <3>2. Answered(ms, bd, j) /\ Numbered(ms, n)
        BY <1>16, <3>1 DEF Linked
      <3>3. QED BY <1>2, <1>6, <3>1, <3>2, StillAnswered
    <2>2. ASSUME NEW i \in 1 .. Len(bs), j = Len(bd) + i PROVE Answered(t, b, j)
      <3>1. bs[i].type = "tool_result"
        BY <1>10, <1>16, <2>2
      <3> HIDE DEF t, b
      <3>2. Answered(t, b, Len(bd) + i)
        BY <1>15, <3>1
      <3>3. QED BY <2>2, <3>2
    <2>3. QED BY <1>10, <2>1, <2>2
  <1> HIDE DEF t, b
  <1>17. Linked(t, b, known, n2)
    BY <1>8, <1>9, <1>13, <1>16 DEF Linked
  <1>18. QED BY <1>17 DEF t, b, n2

\* The main message has the calls, and answers none.
LEMMA MainCalls ==
  ASSUME NEW m \in AnthropicMessages, Reading
  PROVE  /\ \A k \in DOMAIN MainFor(m) :
              MainFor(m)[k].role # "tool" /\ MainFor(m)[k].answers = None
         /\ AllCallsOf(MainFor(m)) = {CallsFor(m)[k] : k \in DOMAIN CallsFor(m)}
         /\ \A k \in DOMAIN MainFor(m) :
              CallsFor(m) = <<>> => MainFor(m)[k].calls = <<>>
  <1> DEFINE texts == OfType(BlocksOf(m), {"text", "media", "link", "other"})
             thoughts == OfType(BlocksOf(m), {"thinking"})
             calls == CallsFor(m)
             main == MainFor(m)
  <1>1. m.role \in {"user", "assistant"} /\ calls \in Seq(CallType)
    BY ConvertTypes
  <1>2. texts \in Seq(BodyItem) /\ thoughts \in Seq(BodyItem)
    BY Selected DEF Reading
  <1>3. main = MainMessage(m.role, texts, thoughts, calls)
    BY DEF MainFor
  <1> HIDE DEF texts, thoughts, calls, main
  <1>4. \/ \E msg : main = <<msg>> /\ IsMain(msg, m.role, texts, thoughts, calls)
        \/ main = <<>> /\ calls = <<>>
    BY <1>1, <1>2, <1>3, MainIs
  <1>5. CASE main = <<>> /\ calls = <<>>
    <2>1. DOMAIN main = {} /\ DOMAIN calls = {}
      BY <1>5
    <2>2. AllCallsOf(main) = {} /\ {calls[k] : k \in DOMAIN calls} = {}
      BY <2>1 DEF AllCallsOf
    <2>3. QED BY <2>1, <2>2 DEF main, calls
  <1>6. ASSUME NEW msg, main = <<msg>>, IsMain(msg, m.role, texts, thoughts, calls)
        PROVE  /\ \A k \in DOMAIN main : main[k].role # "tool" /\ main[k].answers = None
               /\ AllCallsOf(main) = {calls[k] : k \in DOMAIN calls}
               /\ \A k \in DOMAIN main : calls = <<>> => main[k].calls = <<>>
    <2>1. DOMAIN main = {1} /\ main[1] = msg
      BY <1>6
    <2>2. msg.role # "tool" /\ msg.answers = None /\ msg.calls = calls
      BY <1>6 DEF IsMain
    <2>3. AllCallsOf(main) = CallsIn(msg)
      BY <2>1 DEF AllCallsOf
    <2>4. CallsIn(msg) = {calls[k] : k \in DOMAIN calls}
      BY <2>2 DEF CallsIn, ToSet
    <2>5. QED BY <2>1, <2>2, <2>3, <2>4
  <1>7. QED BY <1>4, <1>5, <1>6 DEF main, calls

\* ConvertMessage keeps results linked to calls: a user's blocks have no uses,
\* an assistant's no results.
LEMMA ConvertLinked ==
  ASSUME NEW m \in AnthropicMessages, Reading,
         messages \in Seq(MessageType), body \in Seq(BodyItem),
         Linked(messages, body, callOf, minted)
  PROVE  Linked(messages \o MainFor(m) \o AnswersFor(m), body \o BlocksOf(m), KnownAfter(m),
                minted + Len(CallsFor(m)) + Len(ResultsIn(m)))
  <1> DEFINE calls == CallsFor(m)
             results == ResultsIn(m)
             main == MainFor(m)
             ans == AnswersFor(m)
             bs == BlocksOf(m)
             known == KnownAfter(m)
             U == {"tool_use"}
             R == {"tool_result"}
             G == Linked((messages \o main) \o ans, body \o bs, known, minted + Len(calls) + Len(results))
  <1>1. /\ calls \in Seq(CallType) /\ Len(calls) \in Nat
        /\ results \in Seq(Typed(PlacedBlock, R)) /\ Len(results) \in Nat
        /\ known \in [ToolIds -> Nat]
        /\ main \in Seq(MessageType)
        /\ ans \in Seq(MessageType) /\ Len(ans) = Len(results)
    BY ConvertTypes
  <1>2. minted \in Nat /\ read \in Nat /\ callOf \in [ToolIds -> Nat]
    BY DEF Reading
  <1>3. /\ bs \in Seq(PlacedBlock) /\ bs \in Seq(BodyItem)
        /\ \/ m.role = "user" /\ bs \in Seq(Typed(PlacedBlock, UserTypes))
           \/ m.role = "assistant" /\ bs \in Seq(Typed(PlacedBlock, AssistantTypes))
    BY <1>2, BlocksType
  <1>4. calls = Calls(OfType(bs, U)) /\ results = OfType(bs, R) /\ known = Remembered(calls)
        /\ ans = ToolMessages(results, known, minted + Len(calls))
    BY DEF CallsFor, ResultsIn, KnownAfter, AnswersFor
  <1>5. OfType(bs, U) \in Seq(Typed(PlacedBlock, U))
    BY <1>2, Selected
  <1>6. /\ \A k \in DOMAIN main : main[k].role # "tool" /\ main[k].answers = None
        /\ AllCallsOf(main) = {calls[k] : k \in DOMAIN calls}
        /\ \A k \in DOMAIN main : calls = <<>> => main[k].calls = <<>>
    BY MainCalls
  <1> HIDE DEF calls, results, main, ans, bs, known
  <1>7. KnowsThem(callOf, calls, known)
    BY <1>1, <1>2, <1>4, RememberedIs DEF KnowsThem
  <1>8. CalledFor(calls, OfType(bs, U), minted)
    <2> DEFINE s == OfType(bs, U)
    <2> HIDE DEF s, U
    <2>1. /\ Len(Calls(s)) = Len(s) /\ Calls(s) \in Seq(CallType)
          /\ \A k \in 1 .. Len(s) :
               Calls(s)[k] = [call |-> minted + k, tool |-> s[k].tool, at |-> s[k].at]
      <3>1. s \in Seq(Typed(PlacedBlock, {"tool_use"}))
        BY <1>5 DEF s, U
      <3>2. QED BY <1>2, <3>1, CallsType
    <2>2. calls = Calls(s) /\ DOMAIN calls = 1 .. Len(s)
      <3>1. calls = Calls(s)
        BY <1>4 DEF s, U
      <3>2. QED BY <1>1, <2>1, <3>1, LenProperties
    <2>3. CalledFor(calls, s, minted)
      BY <2>1, <2>2 DEF CalledFor
    <2>4. QED BY <2>3 DEF s
  <1>9. ASSUME bs \in Seq(Typed(PlacedBlock, UserTypes)) PROVE G
    <2>1. OfType(bs, U) = <<>>
      <3>1. U \cap UserTypes = {}
        BY DEF UserTypes
      <3> HIDE DEF U
      <3>2. QED BY <1>9, <3>1, NoneOfOthers
    <2>2. calls = <<>> /\ Len(calls) = 0
      BY <1>1, <1>8, <2>1, EmptySeq DEF CalledFor
    <2>3. known = callOf
      <3>1. \A t \in ToolIds : known[t] = callOf[t]
        BY <1>7, <2>2 DEF KnowsThem
      <3>2. QED BY <1>1, <1>2, <3>1
    <2>4. \A i \in DOMAIN bs : bs[i].type # "tool_use"
      <3>1. \A x \in Typed(PlacedBlock, UserTypes) : x.type # "tool_use"
        BY DEF Typed, UserTypes
      <3>2. QED BY <1>9, <3>1
    <2> DEFINE ms == messages \o main
    <2>5. ms \in Seq(MessageType)
      BY <1>1, ConcatProperties
    <2>6. Linked(ms, body, callOf, minted)
      <3> DEFINE nil == <<>>
      <3>1. nil \in Seq(BodyItem) /\ DOMAIN nil = {}
        BY EmptySeq
      <3>2. \A k \in DOMAIN main : main[k].role # "tool" /\ main[k].calls = <<>> /\ main[k].answers = None
        BY <1>6, <2>2
      <3>3. body \o nil = body
        BY ConcatEmptySeq
      <3> HIDE DEF nil
      <3>4. Linked(ms, body \o nil, callOf, minted)
        BY <1>1, <1>2, <3>1, <3>2, LinkedMore
      <3>5. QED BY <3>3, <3>4
    <2>7. AnsweringFor(ans, OfType(bs, R), callOf, minted)
      <3>1. minted + Len(calls) = minted
        BY <1>2, <2>2
      <3>2. ans = ToolMessages(results, callOf, minted)
        BY <1>4, <2>3, <3>1
      <3>3. /\ Len(ans) = Len(results)
            /\ \A k \in 1 .. Len(results) :
                 IsAnswer(ans[k], results[k], callOf, minted + k) /\ results[k].tool \in ToolIds
        BY <1>1, <1>2, <3>2, AnswersAre
      <3>4. DOMAIN ans = 1 .. Len(results)
        BY <1>1, LenProperties
      <3>5. QED BY <1>4, <3>3, <3>4 DEF AnsweringFor
    <2> HIDE DEF ms
    <2>8. Linked(ms \o ans, body \o bs, callOf, minted + Len(ans))
      BY <1>1, <1>2, <1>3, <2>4, <2>5, <2>6, <2>7, LinkedAnswers
    <2>9. minted + Len(calls) + Len(results) = minted + Len(ans)
      BY <1>1, <1>2, <2>2
    <2>10. QED BY <2>3, <2>8, <2>9 DEF ms
  <1>10. ASSUME bs \in Seq(Typed(PlacedBlock, AssistantTypes)) PROVE G
    <2>1. OfType(bs, R) = <<>>
      <3>1. R \cap AssistantTypes = {}
        BY DEF AssistantTypes
      <3> HIDE DEF R
      <3>2. QED BY <1>10, <3>1, NoneOfOthers
    <2>2. Len(results) = 0 /\ ans = <<>>
      BY <1>1, <1>4, <2>1, EmptySeq
    <2>3. \A i \in DOMAIN bs : bs[i].type # "tool_result"
      <3>1. \A x \in Typed(PlacedBlock, AssistantTypes) : x.type # "tool_result"
        BY DEF Typed, AssistantTypes
      <3>2. QED BY <1>10, <3>1
    <2>4. Linked(messages \o main, body \o bs, known, minted + Len(calls))
      BY <1>1, <1>2, <1>3, <1>6, <1>7, <1>8, <2>3, LinkedCalls
    <2>5. (messages \o main) \o ans = messages \o main
      <3>1. messages \o main \in Seq(MessageType)
        BY <1>1, ConcatProperties
      <3>2. QED BY <2>2, <3>1, ConcatEmptySeq
    <2>6. minted + Len(calls) + Len(results) = minted + Len(calls)
      BY <1>1, <1>2, <2>2
    <2>7. QED BY <2>4, <2>5, <2>6
  <1>11. G
    BY <1>3, <1>9, <1>10
  <1>12. QED BY <1>11 DEF calls, results, main, ans, bs, known

\* The dictionary has only ids that are minted.
LEMMA ConvertKnown ==
  ASSUME NEW m \in AnthropicMessages, Reading, callOf \in [ToolIds -> 0 .. minted]
  PROVE  /\ minted + Len(CallsFor(m)) + Len(ResultsIn(m)) \in Nat
         /\ KnownAfter(m) \in [ToolIds -> 0 .. minted + Len(CallsFor(m)) + Len(ResultsIn(m))]
  <1> DEFINE calls == CallsFor(m)
             n2 == minted + Len(calls) + Len(ResultsIn(m))
             known == KnownAfter(m)
             s == OfType(BlocksOf(m), {"tool_use"})
  <1>1. minted \in Nat /\ read \in Nat /\ callOf \in [ToolIds -> Nat]
    BY DEF Reading
  <1>2. calls \in Seq(CallType) /\ Len(calls) \in Nat /\ Len(ResultsIn(m)) \in Nat
        /\ known \in [ToolIds -> Nat]
    BY ConvertTypes
  <1>3. s \in Seq(Typed(PlacedBlock, {"tool_use"}))
    BY <1>1, Selected
  <1>4. calls = Calls(s) /\ known = Remembered(calls)
    BY DEF CallsFor, KnownAfter
  <1> HIDE DEF calls, known, s
  <1>5. \A k \in DOMAIN calls : calls[k].call = minted + k /\ k \in 1 .. Len(calls)
    <2>1. /\ Len(Calls(s)) = Len(s)
          /\ \A k \in 1 .. Len(s) :
               Calls(s)[k] = [call |-> minted + k, tool |-> s[k].tool, at |-> s[k].at]
      BY <1>1, <1>3, CallsType
    <2>2. DOMAIN calls = 1 .. Len(calls)
      BY <1>2, LenProperties
    <2>3. QED BY <1>4, <2>1, <2>2
  <1>6. n2 \in Nat /\ minted <= n2 /\ minted + Len(calls) <= n2
    BY <1>1, <1>2
  <1> HIDE DEF n2
  <1>7. ASSUME NEW t \in ToolIds PROVE known[t] \in 0 .. n2
    <2>1. \/ known[t] = callOf[t]
          \/ \E k \in DOMAIN calls : known[t] = calls[k].call
      BY <1>1, <1>2, <1>4, RememberedIs
    <2>2. known[t] \in Nat /\ callOf[t] \in 0 .. minted
      BY <1>2
    <2>3. CASE known[t] = callOf[t]
      BY <1>1, <1>6, <2>2, <2>3
    <2>4. ASSUME NEW k \in DOMAIN calls, known[t] = calls[k].call PROVE known[t] <= n2
      BY <1>1, <1>2, <1>5, <1>6, <2>4
    <2>5. QED BY <1>6, <2>1, <2>2, <2>3, <2>4
  <1>8. QED BY <1>2, <1>6, <1>7 DEF n2, known, calls

-----------------------------------------------------------------------------
(* Normalising keeps the links                                             *)

\* Messages whose ids are those of others, with some in front that have none.
Alike(ns, ms, d) ==
  /\ Len(ns) = d + Len(ms)
  /\ \A i \in 1 .. d : ns[i].role # "tool" /\ ns[i].calls = <<>> /\ ns[i].answers = None
  /\ \A i \in 1 .. Len(ms) :
       /\ ns[d + i].calls = ms[i].calls /\ ns[d + i].answers = ms[i].answers
       /\ ns[d + i].role = "tool" <=> ms[i].role = "tool"
       /\ ms[i].role = "tool" => ns[d + i].content = ms[i].content

\* The links are those of the others.
LEMMA AlikeLinked ==
  ASSUME NEW ms \in Seq(MessageType), NEW ns \in Seq(MessageType), NEW bd \in Seq(BodyItem),
         NEW d \in Nat, NEW n \in Nat, NEW known, Alike(ns, ms, d), Linked(ms, bd, known, n)
  PROVE  Linked(ns, bd, known, n)
  <1>1. /\ Len(ms) \in Nat /\ DOMAIN ms = 1 .. Len(ms) /\ DOMAIN ns = 1 .. d + Len(ms)
        /\ \A i \in 1 .. Len(ms) : ms[i] \in MessageType
    <2>1. Len(ms) \in Nat /\ DOMAIN ms = 1 .. Len(ms) /\ DOMAIN ns = 1 .. Len(ns)
      BY LenProperties
    <2>2. Len(ns) = d + Len(ms)
      BY DEF Alike
    <2>3. QED BY <2>1, <2>2, ElementOfSeq
  <1>2. ASSUME NEW k \in DOMAIN ns PROVE k \in 1 .. d \/ \E i \in 1 .. Len(ms) : k = d + i
    <2>1. CASE k <= d
      BY <1>1, <2>1
    <2>2. CASE ~(k <= d)
      <3>1. k - d \in 1 .. Len(ms) /\ k = d + (k - d)
        BY <1>1, <2>2
      <3>2. QED BY <3>1
    <2>3. QED BY <2>1, <2>2
  <1>3. ASSUME NEW i \in 1 .. d
        PROVE  ns[i].role # "tool" /\ CallsIn(ns[i]) = {} /\ ns[i].answers = None
    BY DEF Alike, CallsIn, ToSet
  <1>4. ASSUME NEW i \in 1 .. Len(ms)
        PROVE  /\ d + i \in DOMAIN ns /\ CallsIn(ns[d + i]) = CallsIn(ms[i])
               /\ ns[d + i].answers = ms[i].answers /\ (ns[d + i].role = "tool" <=> ms[i].role = "tool")
               /\ ms[i].role = "tool" => ns[d + i].content = ms[i].content
    <2>1. d + i \in DOMAIN ns
      BY <1>1
    <2>2. QED BY <2>1 DEF Alike, CallsIn
  <1>5. AllCallsOf(ns) = AllCallsOf(ms)
    <2>1. ASSUME NEW c \in AllCallsOf(ns) PROVE c \in AllCallsOf(ms)
      <3>1. PICK k \in DOMAIN ns : c \in CallsIn(ns[k])
        BY DEF AllCallsOf
      <3>2. PICK i \in 1 .. Len(ms) : k = d + i
        BY <1>2, <1>3, <3>1
      <3>3. i \in DOMAIN ms /\ c \in CallsIn(ms[i])
        BY <1>1, <1>4, <3>1, <3>2
      <3>4. QED BY <3>3 DEF AllCallsOf
    <2>2. ASSUME NEW c \in AllCallsOf(ms) PROVE c \in AllCallsOf(ns)
      <3>1. PICK i \in DOMAIN ms : c \in CallsIn(ms[i])
        BY DEF AllCallsOf
      <3>2. d + i \in DOMAIN ns /\ c \in CallsIn(ns[d + i])
        BY <1>1, <1>4, <3>1
      <3>3. QED BY <3>2 DEF AllCallsOf
    <2>3. QED BY <2>1, <2>2
  <1>6. Numbered(ns, n)
    <2>1. ASSUME NEW k \in DOMAIN ns
          PROVE  /\ ns[k].answers <= n /\ (ns[k].role = "tool" => ns[k].answers # None)
                 /\ \A c \in CallsIn(ns[k]) : c.call <= n
      <3>1. CASE k \in 1 .. d
        <4>1. None <= n
          BY DEF None
        <4>2. QED BY <1>3, <3>1, <4>1
      <3>2. ASSUME NEW i \in 1 .. Len(ms), k = d + i
            PROVE  /\ ns[k].answers <= n /\ (ns[k].role = "tool" => ns[k].answers # None)
                   /\ \A c \in CallsIn(ns[k]) : c.call <= n
        BY <1>1, <1>4, <3>2 DEF Linked, Numbered
      <3>3. QED BY <1>2, <3>1, <3>2
    <2>2. QED BY <2>1 DEF Numbered
  <1>7. Distinct(ns) /\ Known(ns, bd, known)
    BY <1>5 DEF Linked, Distinct, Known
  <1>8. ASSUME NEW j \in DOMAIN bd, bd[j].type = "tool_result" PROVE Answered(ns, bd, j)
    <2> DEFINE U == Uses(bd, bd[j].tool, j - 1)
    <2>1. Answered(ms, bd, j)
      BY <1>8 DEF Linked
    <2>2. PICK k \in DOMAIN ms :
            /\ ToolMessageFor(ms[k], bd[j])
            /\ IF U = {} THEN Lone(ms, k) ELSE Answers(ms, bd, k, Max(U))
      BY <2>1 DEF Answered
    <2> DEFINE a == d + k
    <2>3. k \in 1 .. Len(ms) /\ a \in DOMAIN ns
      BY <1>1, <1>4
    <2>4. ns[a].answers = ms[k].answers /\ ns[a].role = "tool" /\ ns[a].content = ms[k].content
      BY <1>4, <2>2, <2>3 DEF ToolMessageFor
    <2>5. ToolMessageFor(ns[a], bd[j])
      BY <2>2, <2>4 DEF ToolMessageFor
    <2>6. ms[k].answers # None /\ ms[k].answers \in Nat
      BY <1>1, <2>2, <2>3 DEF Linked, Numbered, ToolMessageFor, MessageType
    <2>7. CASE U = {}
      <3>1. Lone(ms, k)
        BY <2>2, <2>7
      <3>2. \A c \in AllCallsOf(ns) : c.call # ns[a].answers
        BY <1>5, <2>4, <3>1 DEF Lone
      <3>3. ASSUME NEW l \in DOMAIN ns, ns[l].answers = ns[a].answers PROVE l = a
        <4>1. CASE l \in 1 .. d
          BY <1>3, <2>4, <2>6, <3>3, <4>1
        <4>2. ASSUME NEW i \in 1 .. Len(ms), l = d + i PROVE l = a
          <5>1. ms[i].answers = ms[k].answers
            BY <1>4, <2>4, <3>3, <4>2
          <5>2. i = k
            BY <1>1, <3>1, <5>1 DEF Lone
          <5>3. QED BY <4>2, <5>2
        <4>3. QED BY <1>2, <4>1, <4>2
      <3> HIDE DEF U, a
      <3>4. Lone(ns, a)
        BY <3>2, <3>3 DEF Lone
      <3>5. QED BY <2>3, <2>5, <2>7, <3>4 DEF Answered, U
    <2>8. CASE U # {}
      <3>1. PICK i \in 1 .. k - 1 :
              \E c \in CallsIn(ms[i]) : c.call = ms[k].answers /\ c.at = bd[Max(U)].at
        BY <2>2, <2>8 DEF Answers
      <3>2. i \in 1 .. Len(ms) /\ d + i \in 1 .. a - 1
        BY <1>1, <2>3
      <3>3. CallsIn(ns[d + i]) = CallsIn(ms[i])
        BY <1>4, <3>2
      <3> HIDE DEF U, a
      <3>4. Answers(ns, bd, a, Max(U))
        BY <2>4, <3>1, <3>2, <3>3 DEF Answers
      <3>5. QED BY <2>3, <2>5, <2>8, <3>4 DEF Answered, U
    <2>9. QED BY <2>7, <2>8
  <1>9. QED BY <1>6, <1>7, <1>8 DEF Linked

\* Normalising moves no link.
LEMMA NormalizeLinked ==
  ASSUME NEW ms \in Seq(MessageType), NEW bd \in Seq(BodyItem), NEW p \in BOOLEAN,
         NEW n \in Nat, NEW known, Linked(ms, bd, known, n)
  PROVE  Linked(Normalize(ms, p), bd, known, n)
  <1> DEFINE es == Each(Normals(p), ms)
             pre == Inserted(ms, p)
             ns == pre \o es
             d == Len(pre)
  <1>1. es \in Seq(MessageType) /\ pre \in Seq(MessageType) /\ Normalize(ms, p) = ns
    BY NormalizeIs
  <1>2. /\ DOMAIN es = DOMAIN ms /\ Len(es) = Len(ms)
        /\ \A i \in DOMAIN ms : ms[i] \in MessageType /\ es[i] = NormalizeMessage(ms[i], p)
    <2>1. Len(es) = Len(ms)
      BY NormalsType, EachType
    <2>2. QED BY <2>1 DEF Each, Normals
  <1>3. pre = <<>> \/ pre = <<SystemFirst>>
    BY DEF Inserted
  <1> HIDE DEF es, pre
  <1>4. /\ d \in Nat /\ ns \in Seq(MessageType) /\ Len(ns) = d + Len(ms)
        /\ \A i \in 1 .. d : ns[i] = pre[i]
        /\ \A i \in 1 .. Len(ms) : ns[d + i] = es[i]
    <2>1. /\ d \in Nat /\ ns \in Seq(MessageType) /\ Len(ns) = d + Len(es)
          /\ \A i \in 1 .. d : ns[i] = pre[i]
          /\ \A i \in 1 .. Len(es) : ns[d + i] = es[i]
      <3> HIDE DEF ns
      <3>1. /\ Len(pre) \in Nat /\ Len(es) \in Nat /\ pre \o es \in Seq(MessageType)
            /\ Len(pre \o es) = Len(pre) + Len(es)
            /\ \A i \in 1 .. Len(pre) : (pre \o es)[i] = pre[i]
            /\ \A i \in 1 .. Len(es) : (pre \o es)[Len(pre) + i] = es[i]
        BY <1>1, ConcatAt
      <3>2. QED BY <3>1 DEF ns
    <2>2. QED BY <1>2, <2>1
  <1>5. \A i \in 1 .. d : pre[i].role # "tool" /\ pre[i].calls = <<>> /\ pre[i].answers = None
    <2>1. CASE pre = <<>>
      BY <2>1
    <2>2. CASE pre = <<SystemFirst>>
      <3>1. \A i \in 1 .. d : pre[i] = SystemFirst
        BY <2>2
      <3>2. QED BY <3>1, SystemFirstType
    <2>3. QED BY <1>3, <2>1, <2>2
  <1>6. ASSUME NEW i \in 1 .. Len(ms)
        PROVE  /\ es[i].calls = ms[i].calls /\ es[i].answers = ms[i].answers
               /\ es[i].role = "tool" <=> ms[i].role = "tool"
               /\ ms[i].role = "tool" => es[i].content = ms[i].content
    <2>1. ms[i] \in MessageType /\ es[i] = NormalizeMessage(ms[i], p)
      BY <1>2, LenProperties
    <2>2. /\ es[i].calls = ms[i].calls /\ es[i].answers = ms[i].answers
          /\ es[i].role = NormalRole(ms[i])
          /\ es[i].content = IF NormalRole(ms[i]) = "system" /\ p THEN Prefixed(ms[i].content) ELSE ms[i].content
      BY <2>1, NormalizeMessageFields
    <2>3. NormalRole(ms[i]) = "tool" <=> ms[i].role = "tool"
      BY DEF NormalRole
    <2>4. ms[i].role = "tool" => NormalRole(ms[i]) # "system"
      BY <2>3
    <2>5. QED BY <2>2, <2>3, <2>4
  <1> HIDE DEF ns, d
  <1>7. Alike(ns, ms, d)
    BY <1>4, <1>5, <1>6 DEF Alike
  <1>8. Linked(ns, bd, known, n)
    BY <1>4, <1>7, AlikeLinked
  <1>9. QED BY <1>1, <1>8

-----------------------------------------------------------------------------
(* The override                                                            *)

\* A list that is not empty is its first element and the rest.
LEMMA HeadAndTail ==
  ASSUME NEW A, NEW s \in Seq(A), s # <<>>
  PROVE  /\ s = <<s[1]>> \o Tail(s) /\ s[1] \in A /\ Head(s) = s[1] /\ Tail(s) \in Seq(A)
         /\ 1 \in DOMAIN s
         /\ \A i \in DOMAIN Tail(s) : i + 1 \in DOMAIN s /\ i + 1 # 1 /\ Tail(s)[i] = s[i + 1]
  <1> DEFINE r == Tail(s)
             h == <<s[1]>>
  <1>1. /\ r \in Seq(A) /\ Len(r) = Len(s) - 1 /\ \A i \in 1 .. Len(r) : r[i] = s[i + 1]
    BY HeadTailProperties
  <1>2. Len(s) \in Nat /\ Len(s) # 0 /\ DOMAIN s = 1 .. Len(s) /\ DOMAIN r = 1 .. Len(r)
    BY <1>1, EmptySeq, LenProperties
  <1>3. 1 \in DOMAIN s /\ s[1] \in A /\ Head(s) = s[1]
    BY <1>2
  <1>4. h \in Seq(A) /\ Len(h) = 1 /\ h[1] = s[1]
    BY <1>3
  <1> HIDE DEF r, h
  <1>5. /\ h \o r \in Seq(A) /\ Len(h \o r) = Len(s)
        /\ \A i \in 1 .. Len(s) : (h \o r)[i] = IF i <= 1 THEN h[i] ELSE r[i - 1]
    <2>1. /\ h \o r \in Seq(A) /\ Len(h \o r) = Len(h) + Len(r)
          /\ \A i \in 1 .. Len(h) + Len(r) : (h \o r)[i] = IF i <= Len(h) THEN h[i] ELSE r[i - Len(h)]
      <3>1. h \in Seq(A) /\ r \in Seq(A)
        BY <1>1, <1>4
      <3>2. QED BY <3>1, ConcatProperties
    <2>2. Len(h) + Len(r) = Len(s)
      BY <1>1, <1>2, <1>4
    <2>3. QED BY <1>4, <2>1, <2>2
  <1>6. \A i \in 1 .. Len(s) : (h \o r)[i] = s[i]
    <2>1. TAKE i \in 1 .. Len(s)
    <2>2. CASE i <= 1
      BY <1>2, <1>4, <1>5, <2>2
    <2>3. CASE ~(i <= 1)
      <3>1. i - 1 \in 1 .. Len(r) /\ (i - 1) + 1 = i
        BY <1>1, <1>2, <2>3
      <3>2. QED BY <1>1, <1>5, <2>3, <3>1
    <2>4. QED BY <2>2, <2>3
  <1>7. s = h \o r
    <2> DEFINE t == h \o r
    <2>1. t \in Seq(A) /\ Len(t) = Len(s) /\ \A i \in 1 .. Len(s) : t[i] = s[i]
      BY <1>5, <1>6
    <2> HIDE DEF t
    <2>2. t = s
      BY <2>1, SeqEqual
    <2>3. QED BY <2>2 DEF t
  <1>8. \A i \in DOMAIN r : i + 1 \in DOMAIN s /\ i + 1 # 1 /\ r[i] = s[i + 1]
    BY <1>1, <1>2
  <1>9. QED BY <1>1, <1>3, <1>7, <1>8 DEF r, h

\* A selection begins with the first element if it is of one of the types.
LEMMA OfTypeHead ==
  ASSUME NEW A, NEW s \in Seq(A), s # <<>>, NEW T, s[1].type \in T
  PROVE  OfType(s, T) # <<>> /\ Head(OfType(s, T)) = s[1]
  <1> DEFINE r == Tail(s)
             h == <<s[1]>>
             x == s[1]
  <1>1. s = h \o r /\ x \in A /\ r \in Seq(A)
    BY HeadAndTail
  <1>2. h \in Seq(A)
    BY <1>1
  <1>3. OfType(h, T) = <<x>>
    <2>1. OfType(<<x>>, T) = Kept(x, T)
      BY OfTypeOne
    <2>2. QED BY <2>1 DEF Kept
  <1> HIDE DEF r, h
  <1>4. OfType(h \o r, T) = OfType(h, T) \o OfType(r, T)
    BY <1>1, <1>2, OfTypeConcat
  <1>5. OfType(r, T) \in Seq(A)
    BY <1>1, OfTypeType
  <1> DEFINE q == OfType(r, T)
  <1> HIDE DEF x, q
  <1>6. OfType(s, T) = <<x>> \o q /\ q \in Seq(A)
    BY <1>1, <1>3, <1>4, <1>5 DEF q
  <1>7. <<x>> \o q # <<>> /\ Head(<<x>> \o q) = x
    BY <1>1, <1>6
  <1>8. QED BY <1>6, <1>7 DEF x

\* A list whose override can only be the first has it at most once.
LEMMA OverrideAtMostOnce ==
  ASSUME NEW s \in Seq(Piece), HeadOnly(s)
  PROVE  Len(OfType(s, {"override"})) <= 1
  <1> DEFINE T == {"override"}
  <1>1. CASE s = <<>>
    BY <1>1, OfTypeNil
  <1>2. CASE s # <<>>
    <2> DEFINE r == Tail(s)
               x == s[1]
               h == <<x>>
               A == {y \in Piece : y.type \notin T}
    <2>1. /\ s = h \o r /\ x \in Piece /\ r \in Seq(Piece)
          /\ \A i \in DOMAIN r : i + 1 \in DOMAIN s /\ i + 1 # 1 /\ r[i] = s[i + 1]
      BY <1>2, HeadAndTail
    <2>2. h \in Seq(Piece)
      BY <2>1
    <2>3. OfType(h, T) = Kept(x, T)
      BY OfTypeOne
    <2> HIDE DEF r, x
    <2>4. \A i \in 1 .. Len(r) : r[i] \in A
      <3>1. ASSUME NEW i \in DOMAIN r PROVE r[i] \in Piece /\ r[i].type # "override"
        <4>1. i + 1 \in DOMAIN s /\ i + 1 # 1 /\ r[i] = s[i + 1] /\ r[i] \in Piece
          BY <2>1
        <4>2. s[i + 1].type # "override"
          BY <4>1 DEF HeadOnly
        <4>3. QED BY <4>1, <4>2
      <3>2. DOMAIN r = 1 .. Len(r)
        BY <2>1, LenProperties
      <3>3. QED BY <3>1, <3>2
    <2>5. r \in Seq(A)
      <3> HIDE DEF A
      <3>1. QED BY <2>1, <2>4
    <2>6. OfType(r, T) = <<>>
      <3>1. \A y \in A : y.type \notin T
        OBVIOUS
      <3> HIDE DEF A, T
      <3>2. QED BY <2>5, <3>1, OfTypeNone
    <2>7. OfType(s, T) = Kept(x, T)
      <3> HIDE DEF h, T
      <3>1. OfType(h \o r, T) = OfType(h, T) \o OfType(r, T)
        BY <2>1, <2>2, OfTypeConcat
      <3>2. OfType(h, T) \in Seq(Piece)
        BY <2>2, OfTypeType
      <3>3. OfType(h, T) \o <<>> = OfType(h, T)
        BY <3>2, ConcatEmptySeq
      <3>4. QED BY <2>1, <2>3, <2>6, <3>1, <3>3
    <2>8. Len(Kept(x, T)) <= 1
      BY DEF Kept
    <2>9. QED BY <2>7, <2>8
  <1>3. QED BY <1>1, <1>2

\* The override is put in front only where it is not yet.
LEMMA PrefixedShaped ==
  ASSUME NEW content \in ContentType, HeadOnly(content.parts)
  PROVE  HeadOnly(Prefixed(content).parts) /\ Prefixed(content).form = content.form
  <1> DEFINE s == content.parts
             t == OfType(s, {"text", "override"})
             o == <<Override>>
  <1>1. s \in Seq(Piece)
    BY DEF ContentType
  <1>2. CASE Prefixed(content) = content
    BY <1>2
  <1>3. ASSUME Prefixed(content) = WithPrefix(content), s = <<>> \/ Head(s) # Override
        PROVE  HeadOnly(Prefixed(content).parts) /\ Prefixed(content).form = content.form
    <2>1. Prefixed(content).parts = o \o s /\ Prefixed(content).form = content.form
      BY <1>3, WithPrefixType
    <2>2. \A i \in DOMAIN s : s[i].type # "override"
      <3>1. CASE s = <<>>
        BY <3>1
      <3>2. CASE s # <<>>
        <4>1. Head(s) = s[1] /\ s[1] # Override
          BY <1>1, <1>3, <3>2, HeadAndTail
        <4>2. QED BY <4>1 DEF HeadOnly
      <3>3. QED BY <3>1, <3>2
    <2>3. o \in Seq(Piece) /\ Len(o) = 1 /\ o[1] = Override
      BY PlaceTypes
    <2> HIDE DEF o, s
    <2>4. /\ DOMAIN (o \o s) = 1 .. 1 + Len(s)
          /\ \A i \in 1 .. Len(o) : (o \o s)[i] = o[i]
          /\ \A i \in 1 .. Len(s) : (o \o s)[Len(o) + i] = s[i]
          /\ \A k \in 1 .. Len(o) + Len(s) : k \in 1 .. Len(o) \/ \E i \in 1 .. Len(s) : k = Len(o) + i
          /\ DOMAIN s = 1 .. Len(s)
      <3>1. /\ DOMAIN (o \o s) = 1 .. Len(o) + Len(s)
            /\ \A i \in 1 .. Len(o) : (o \o s)[i] = o[i]
            /\ \A i \in 1 .. Len(s) : (o \o s)[Len(o) + i] = s[i]
            /\ \A k \in 1 .. Len(o) + Len(s) : k \in 1 .. Len(o) \/ \E i \in 1 .. Len(s) : k = Len(o) + i
            /\ DOMAIN s = 1 .. Len(s)
        <4>1. o \in Seq(Piece)
          BY <2>3
        <4>2. QED BY <1>1, <4>1, ConcatAt
      <3>2. QED BY <2>3, <3>1
    <2>5. ASSUME NEW i \in DOMAIN (o \o s), (o \o s)[i].type = "override"
          PROVE  i = 1 /\ (o \o s)[i] = Override
      <3>1. CASE i \in 1 .. Len(o)
        <4>1. i = 1
          BY <2>3, <3>1
        <4>2. QED BY <2>3, <2>4, <3>1, <4>1
      <3>2. ASSUME NEW k \in 1 .. Len(s), i = Len(o) + k PROVE FALSE
        BY <2>2, <2>4, <2>5, <3>2
      <3>3. QED BY <2>3, <2>4, <3>1, <3>2
    <2>6. HeadOnly(o \o s)
      BY <2>5 DEF HeadOnly
    <2>7. QED BY <2>1, <2>6
  <1>4. CASE content.form = "string"
    <2>1. \/ Prefixed(content) = content
          \/ Prefixed(content) = WithPrefix(content) /\ (s = <<>> \/ Head(s) # Override)
      BY <1>4 DEF Prefixed, WithPrefix
    <2>2. QED BY <1>2, <1>3, <2>1
  <1>5. CASE content.form = "list"
    <2>1. \/ Prefixed(content) = content
          \/ Prefixed(content) = WithPrefix(content) /\ t # <<>> /\ Head(t) # Override
      BY <1>5 DEF Prefixed, WithPrefix
    <2>2. ASSUME s # <<>>, Head(s) = Override PROVE Head(t) = Override
      <3>1. s[1] = Override /\ Override.type = "override"
        BY <1>1, <2>2, HeadAndTail DEF Override
      <3> DEFINE T == {"text", "override"}
      <3>2. s[1].type \in T
        BY <3>1
      <3> HIDE DEF T, s
      <3>3. Head(OfType(s, T)) = s[1]
        BY <1>1, <2>2, <3>2, OfTypeHead
      <3>4. QED BY <3>1, <3>3 DEF T
    <2>3. QED BY <1>2, <1>3, <2>1, <2>2
  <1>6. CASE content.form \notin {"string", "list"}
    BY <1>2, <1>6, PrefixedCases
  <1>7. QED BY <1>4, <1>5, <1>6

\* A content with text begins with the override then.
LEMMA PrefixedReady ==
  ASSUME NEW content \in ContentType, content.form \in {"string", "list"} \/ content.parts = <<>>
  PROVE  LET texts == OfType(Prefixed(content).parts, {"text", "override"}) IN
         /\ Prefixed(content).form = "string" => texts # <<>>
         /\ texts # <<>> => Head(texts) = Override
  <1> DEFINE s == content.parts
             T == {"text", "override"}
             c == Prefixed(content)
             G == /\ c.form = "string" => OfType(c.parts, T) # <<>>
                  /\ OfType(c.parts, T) # <<>> => Head(OfType(c.parts, T)) = Override
  <1>1. s \in Seq(Piece)
    BY DEF ContentType
  <1>2. ASSUME c.parts \in Seq(Piece), c.parts # <<>>, c.parts[1] = Override
        PROVE  G
    <2> DEFINE p == c.parts
    <2>1. p[1].type \in T
      BY <1>2 DEF Override
    <2> HIDE DEF T, c
    <2>2. OfType(p, T) # <<>> /\ Head(OfType(p, T)) = p[1]
      <3>1. p \in Seq(Piece) /\ p # <<>>
        BY <1>2
      <3> HIDE DEF p
      <3>2. QED BY <2>1, <3>1, OfTypeHead
    <2>3. QED BY <1>2, <2>2
  <1>3. ASSUME c = WithPrefix(content) PROVE G
    <2>1. WithPrefix(content) \in ContentType /\ WithPrefix(content).parts = <<Override>> \o s
      BY WithPrefixType
    <2>2. <<Override>> \o s # <<>> /\ (<<Override>> \o s)[1] = Override
      <3> DEFINE o == <<Override>>
      <3>1. o \in Seq(Piece) /\ Len(o) = 1 /\ o[1] = Override
        BY PlaceTypes
      <3> HIDE DEF o, s
      <3>2. Len(s) \in Nat /\ Len(o \o s) = Len(o) + Len(s) /\ \A i \in 1 .. Len(o) : (o \o s)[i] = o[i]
        <4>1. o \in Seq(Piece)
          BY <3>1
        <4>2. QED BY <1>1, <4>1, ConcatAt
      <3>3. o \o s # <<>> /\ (o \o s)[1] = Override
        BY <3>1, <3>2
      <3>4. QED BY <3>3 DEF o
    <2>3. c.parts \in Seq(Piece) /\ c.parts # <<>> /\ c.parts[1] = Override
      BY <1>3, <2>1, <2>2 DEF ContentType
    <2>4. QED BY <1>2, <2>3
  <1>4. ASSUME content.form = "string" PROVE G
    <2>1. c = WithPrefix(content) \/ (c = content /\ s # <<>> /\ Head(s) = Override)
      BY <1>4 DEF Prefixed, WithPrefix
    <2>2. ASSUME c = content, s # <<>>, Head(s) = Override PROVE G
      <3>1. s[1] = Override
        BY <1>1, <2>2, HeadAndTail
      <3>2. c.parts = s
        BY <2>2
      <3>3. c.parts \in Seq(Piece) /\ c.parts # <<>> /\ c.parts[1] = Override
        BY <1>1, <2>2, <3>1, <3>2
      <3>4. QED BY <1>2, <3>3
    <2>3. QED BY <1>3, <2>1, <2>2
  <1>5. ASSUME content.form = "list" PROVE G
    <2>1. \/ c = WithPrefix(content)
          \/ c = content /\ (OfType(s, T) = <<>> \/ Head(OfType(s, T)) = Override)
      BY <1>5 DEF Prefixed, WithPrefix
    <2>2. CASE c = content /\ (OfType(s, T) = <<>> \/ Head(OfType(s, T)) = Override)
      <3>1. c.parts = s /\ c.form # "string"
        BY <1>5, <2>2
      <3> HIDE DEF c, T
      <3>2. QED BY <2>2, <3>1
    <2>3. QED BY <1>3, <2>1, <2>2
  <1>6. ASSUME content.form \notin {"string", "list"} PROVE G
    <2>1. c = content /\ s = <<>>
      BY <1>6, PrefixedCases
    <2>2. OfType(s, T) = <<>>
      <3> HIDE DEF T
      <3>1. QED BY <2>1, OfTypeNil
    <2>3. c.parts = s /\ c.form # "string"
      BY <1>6, <2>1
    <2> HIDE DEF c, T
    <2>4. QED BY <2>2, <2>3
  <1>7. G
    BY <1>4, <1>5, <1>6
  <1>8. QED BY <1>7

\* Two lists of shaped messages are shaped.
LEMMA ShapedMore ==
  ASSUME NEW ms \in Seq(MessageType), NEW ns \in Seq(MessageType), Shaped(ms), Shaped(ns)
  PROVE  Shaped(ms \o ns)
  <1> DEFINE t == ms \o ns
  <1>1. /\ DOMAIN ms = 1 .. Len(ms) /\ DOMAIN ns = 1 .. Len(ns) /\ DOMAIN t = 1 .. Len(ms) + Len(ns)
        /\ \A i \in 1 .. Len(ms) : t[i] = ms[i]
        /\ \A i \in 1 .. Len(ns) : t[Len(ms) + i] = ns[i]
        /\ \A k \in 1 .. Len(ms) + Len(ns) : k \in 1 .. Len(ms) \/ \E i \in 1 .. Len(ns) : k = Len(ms) + i
    BY ConcatAt
  <1> HIDE DEF t
  <1>2. ASSUME NEW k \in DOMAIN t
        PROVE  /\ HeadOnly(t[k].content.parts)
               /\ t[k].content.form \in {"string", "list"} \/ t[k].content.parts = <<>>
    <2>1. CASE k \in 1 .. Len(ms)
      BY <1>1, <2>1 DEF Shaped
    <2>2. ASSUME NEW i \in 1 .. Len(ns), k = Len(ms) + i
          PROVE  /\ HeadOnly(t[k].content.parts)
                 /\ t[k].content.form \in {"string", "list"} \/ t[k].content.parts = <<>>
      <3>1. t[k] = ns[i] /\ i \in DOMAIN ns
        BY <1>1, <2>2
      <3>2. QED BY <3>1 DEF Shaped
    <2>3. QED BY <1>1, <2>1, <2>2
  <1>3. QED BY <1>2 DEF Shaped, t

\* The messages of an Anthropic client's message have no override.
LEMMA ConvertShaped ==
  ASSUME NEW m \in AnthropicMessages, Reading
  PROVE  Shaped(MainFor(m)) /\ Shaped(AnswersFor(m))
  <1> DEFINE texts == OfType(BlocksOf(m), {"text", "media", "link", "other"})
             thoughts == OfType(BlocksOf(m), {"thinking"})
             calls == CallsFor(m)
             main == MainFor(m)
             s == ResultsIn(m)
             known == KnownAfter(m)
             from == minted + Len(calls)
             ans == AnswersFor(m)
             TI == {"text", "media", "link"}
  <1>1. /\ m.role \in {"user", "assistant"} /\ calls \in Seq(CallType) /\ Len(calls) \in Nat
        /\ s \in Seq(Typed(PlacedBlock, {"tool_result"})) /\ known \in [ToolIds -> Nat]
    BY ConvertTypes
  <1>2. texts \in Seq(BodyItem) /\ thoughts \in Seq(BodyItem)
    BY Selected DEF Reading
  <1>3. main = MainMessage(m.role, texts, thoughts, calls) /\ ans = ToolMessages(s, known, from)
    BY DEF MainFor, AnswersFor
  <1>4. from \in Nat
    BY <1>1 DEF Reading
  <1> HIDE DEF texts, thoughts, calls, main, s, known, from, ans
  <1>5. Shaped(main)
    <2>1. \/ \E msg : main = <<msg>> /\ IsMain(msg, m.role, texts, thoughts, calls)
          \/ main = <<>>
      BY <1>1, <1>2, <1>3, MainIs
    <2>2. CASE main = <<>>
      BY <2>2 DEF Shaped
    <2>3. ASSUME NEW msg, main = <<msg>>, IsMain(msg, m.role, texts, thoughts, calls)
          PROVE  Shaped(main)
      <3> DEFINE ps == OfType(texts, TI)
                 q == Pieces(ps)
      <3>1. q \in Seq(Typed(Piece, TI))
        <4>1. ps \in Seq(Typed(BodyItem, TI))
          <5> HIDE DEF TI
          <5>1. QED BY <1>2, OfTypeType
        <4> HIDE DEF ps, TI
        <4>2. QED BY <4>1, PiecesTyped
      <3>2. \A x \in Typed(Piece, TI) : x.type # "override"
        BY DEF Typed
      <3>3. msg.content.parts = q /\ (msg.content.form \in {"string", "list"} \/ q = <<>>)
        BY <2>3 DEF IsMain
      <3> HIDE DEF q, TI
      <3>4. HeadOnly(q)
        BY <3>1, <3>2 DEF HeadOnly
      <3>5. DOMAIN main = {1} /\ main[1] = msg
        BY <2>3
      <3>6. QED BY <3>3, <3>4, <3>5 DEF Shaped
    <2>4. QED BY <2>1, <2>2, <2>3
  <1>6. Shaped(ans)
    <2>1. /\ ans \in Seq(MessageType) /\ Len(ans) = Len(s)
          /\ \A k \in 1 .. Len(s) : IsAnswer(ans[k], s[k], known, from + k)
      BY <1>1, <1>3, <1>4, AnswersAre
    <2>2. DOMAIN ans = 1 .. Len(s)
      BY <2>1, LenProperties
    <2>3. ASSUME NEW k \in DOMAIN ans
          PROVE  HeadOnly(ans[k].content.parts) /\ ans[k].content.form = "string"
      <3> DEFINE p == Text(s[k])
      <3>1. IsAnswer(ans[k], s[k], known, from + k)
        BY <2>1, <2>2
      <3>2. ans[k].content.parts = <<p>> /\ ans[k].content.form = "string"
        BY <3>1 DEF IsAnswer, String
      <3>3. HeadOnly(<<p>>)
        BY DEF HeadOnly, Text
      <3>4. QED BY <3>2, <3>3
    <2>4. QED BY <2>3 DEF Shaped
  <1>7. QED BY <1>5, <1>6 DEF main, ans

\* Normalised messages are shaped as they were, and ready to be sent.
LEMMA NormalizeReady ==
  ASSUME NEW ms \in Seq(MessageType), NEW p \in BOOLEAN, Shaped(ms)
  PROVE  Shaped(Normalize(ms, p)) /\ Ready(Normalize(ms, p), p)
  <1> DEFINE es == Each(Normals(p), ms)
             pre == Inserted(ms, p)
             ns == Normalize(ms, p)
             Fit(x) == /\ HeadOnly(x.content.parts)
                       /\ x.content.form \in {"string", "list"} \/ x.content.parts = <<>>
                       /\ Prepared(x, p)
  <1>1. es \in Seq(MessageType) /\ pre \in Seq(MessageType) /\ ns = pre \o es
    BY NormalizeIs
  <1>2. /\ DOMAIN es = DOMAIN ms
        /\ \A i \in DOMAIN ms : ms[i] \in MessageType /\ es[i] = NormalizeMessage(ms[i], p)
    BY DEF Each, Normals
  <1>3. pre = <<>> \/ pre = <<SystemFirst>>
    BY DEF Inserted
  <1>4. ASSUME NEW i \in DOMAIN ms
        PROVE  Fit(es[i]) /\ es[i].role = NormalRole(ms[i])
    <2> DEFINE c == ms[i].content
               x == es[i]
    <2>1. /\ c \in ContentType /\ HeadOnly(c.parts)
          /\ c.form \in {"string", "list"} \/ c.parts = <<>>
      BY <1>2 DEF MessageType, Shaped
    <2>2. /\ x.role = NormalRole(ms[i])
          /\ x.content = IF NormalRole(ms[i]) = "system" /\ p THEN Prefixed(c) ELSE c
      BY <1>2, NormalizeMessageFields
    <2>3. HeadOnly(Prefixed(c).parts) /\ Prefixed(c).form = c.form
      <3> HIDE DEF c
      <3>1. QED BY <2>1, PrefixedShaped
    <2>4. Prefixed(c) = c \/ c.form \in {"string", "list"}
      <3> HIDE DEF c
      <3>1. QED BY <2>1, PrefixedCases
    <2>5. LET texts == OfType(Prefixed(c).parts, {"text", "override"}) IN
          /\ Prefixed(c).form = "string" => texts # <<>>
          /\ texts # <<>> => Head(texts) = Override
      <3> HIDE DEF c
      <3>1. QED BY <2>1, PrefixedReady
    <2> HIDE DEF c, x
    <2>6. HeadOnly(x.content.parts) /\ (x.content.form \in {"string", "list"} \/ x.content.parts = <<>>)
      BY <2>1, <2>2, <2>3, <2>4
    <2>7. Prepared(x, p)
      <3>1. x.role # "developer"
        BY <2>2 DEF NormalRole
      <3>2. p /\ x.role = "system" => x.content = Prefixed(c)
        BY <2>2
      <3>3. QED BY <2>5, <3>1, <3>2 DEF Prepared
    <2>8. QED BY <2>2, <2>6, <2>7 DEF x
  <1>5. Fit(SystemFirst)
    <2> DEFINE o == <<Override>>
    <2>1. SystemFirst.role = "system" /\ SystemFirst.content = String(o)
      BY SystemFirstType
    <2>2. HeadOnly(o)
      BY DEF HeadOnly
    <2>3. OfType(o, {"text", "override"}) = <<Override>>
      BY OfTypeOne DEF Kept, Override
    <2>4. SystemFirst.content.form = "string" /\ SystemFirst.content.parts = o
      BY <2>1 DEF String
    <2> DEFINE texts == OfType(o, {"text", "override"})
    <2>5. texts # <<>> /\ Head(texts) = Override
      BY <2>3
    <2> HIDE DEF o
    <2>6. Prepared(SystemFirst, p)
      BY <2>1, <2>4, <2>5 DEF Prepared
    <2>7. QED BY <2>2, <2>4, <2>6
  <1> HIDE DEF es, pre, ns, Fit
  <1>6. /\ Len(pre) \in Nat /\ DOMAIN pre = 1 .. Len(pre) /\ DOMAIN es = 1 .. Len(es)
        /\ DOMAIN (pre \o es) = 1 .. Len(pre) + Len(es)
        /\ \A i \in 1 .. Len(pre) : (pre \o es)[i] = pre[i]
        /\ \A i \in 1 .. Len(es) : (pre \o es)[Len(pre) + i] = es[i]
        /\ \A k \in 1 .. Len(pre) + Len(es) : k \in 1 .. Len(pre) \/ \E i \in 1 .. Len(es) : k = Len(pre) + i
    BY <1>1, ConcatAt
  <1>7. ASSUME NEW k \in DOMAIN ns PROVE Fit(ns[k])
    <2>1. CASE k \in 1 .. Len(pre)
      <3>1. pre[k] = SystemFirst
        BY <1>3, <2>1
      <3>2. QED BY <1>1, <1>5, <1>6, <2>1, <3>1
    <2>2. ASSUME NEW i \in 1 .. Len(es), k = Len(pre) + i PROVE Fit(ns[k])
      <3>1. ns[k] = es[i] /\ i \in DOMAIN ms
        BY <1>1, <1>2, <1>6, <2>2
      <3>2. QED BY <1>4, <3>1
    <2>3. QED BY <1>1, <1>6, <2>1, <2>2
  <1>8. ASSUME p PROVE \E k \in DOMAIN ns : ns[k].role = "system"
    <2>1. CASE \A i \in DOMAIN ms : NormalRole(ms[i]) # "system"
      <3>1. pre = <<SystemFirst>>
        BY <1>8, <2>1 DEF Inserted, pre
      <3>2. Len(pre) = 1 /\ pre[1] = SystemFirst
        BY <3>1
      <3>3. 1 \in 1 .. Len(pre) /\ 1 \in DOMAIN es \cup 1 .. Len(pre)
        BY <3>2
      <3>4. Len(es) \in Nat
        BY <1>1, LenProperties
      <3>5. 1 \in DOMAIN ns /\ ns[1] = SystemFirst
        BY <1>1, <1>6, <3>2, <3>3, <3>4
      <3>6. QED BY <3>5, SystemFirstType
    <2>2. CASE \E i \in DOMAIN ms : NormalRole(ms[i]) = "system"
      <3>1. PICK i \in DOMAIN ms : NormalRole(ms[i]) = "system"
        BY <2>2
      <3>2. i \in 1 .. Len(es) /\ es[i].role = "system"
        BY <1>2, <1>4, <1>6, <3>1
      <3>3. Len(pre) + i \in DOMAIN ns /\ ns[Len(pre) + i] = es[i]
        BY <1>1, <1>6, <3>2
      <3>4. QED BY <3>2, <3>3
    <2>3. QED BY <2>1, <2>2
  <1>9. Shaped(ns)
    BY <1>7 DEF Fit, Shaped
  <1>10. Ready(ns, p)
    <2>1. \A k \in DOMAIN ns : Prepared(ns[k], p)
      BY <1>7 DEF Fit
    <2>2. QED BY <1>8, <2>1 DEF Ready
  <1>11. QED BY <1>9, <1>10 DEF ns

-----------------------------------------------------------------------------
(* The invariant holds                                                     *)

\* Nothing is linked at first.
LEMMA NothingLinked ==
  Linked(<<>>, <<>>, [t \in ToolIds |-> None], 0)
  <1>1. DOMAIN <<>> = {} /\ Len(<<>>) = 0
    OBVIOUS
  <1>2. \A t : Uses(<<>>, t, 0) = {}
    BY DEF Uses
  <1>3. AllCallsOf(<<>>) = {}
    BY <1>1 DEF AllCallsOf
  <1>4. Numbered(<<>>, 0) /\ Distinct(<<>>) /\ Known(<<>>, <<>>, [t \in ToolIds |-> None])
    BY <1>1, <1>2, <1>3 DEF Numbered, Distinct, Known
  <1>5. QED BY <1>1, <1>4 DEF Linked

\* The first state, with the system field's message if there is one.
LEMMA InitInv == Init => IInv
  <1> SUFFICES ASSUME Init PROVE IInv
    OBVIOUS
  <1> DEFINE none == [t \in ToolIds |-> None]
             nil == <<>>
  <1>1. /\ stage = "reading" /\ read = 0 /\ callOf = none /\ minted = 0 /\ override = FALSE
        /\ endpoint \in {"anthropic", "openai"}
    BY DEF Init
  <1>2. TypeOK
    <2>1. None \in 0 .. minted
      BY <1>1 DEF None
    <2>2. callOf \in [ToolIds -> 0 .. minted]
      BY <1>1, <2>1
    <2>3. read \in 0 .. MaxMessages /\ minted \in Nat
      BY <1>1, BoundsAssumption
    <2>4. QED BY <1>1, <2>2, <2>3 DEF TypeOK
  <1>3. Linked(nil, nil, none, 0) /\ nil \in Seq(MessageType) /\ nil \in Seq(BodyItem)
    BY NothingLinked, EmptySeq
  <1>4. CASE messages = <<>> /\ body = <<>>
    <2>1. Sends(<<>>, <<>>)
      BY SelectionsNone, OfTypeNil DEF Sends
    <2>2. Shaped(<<>>)
      BY DEF Shaped
    <2>3. QED BY <1>1, <1>2, <1>3, <1>4, <2>1, <2>2 DEF IInv, TypeInv
  <1>5. ASSUME NEW system \in SystemField, messages = SystemMessages(system), body = OfType(system, {"text"})
        PROVE  IInv
    <2>1. /\ messages \in Seq(MessageType) /\ body \in Seq(BodyItem) /\ Sends(messages, body)
          /\ \A k \in DOMAIN messages :
               /\ messages[k].role = "system" /\ messages[k].calls = <<>> /\ messages[k].answers = None
               /\ messages[k].content.form = "string" /\ HeadOnly(messages[k].content.parts)
          /\ \A i \in DOMAIN body : body[i].type = "text"
      BY <1>5, SystemIs
    <2>2. \A i \in DOMAIN body : body[i].type \notin ToolTypes
      BY <2>1 DEF ToolTypes
    <2>3. \A k \in DOMAIN messages :
            messages[k].role # "tool" /\ messages[k].calls = <<>> /\ messages[k].answers = None
      BY <2>1
    <2> HIDE DEF none, nil
    <2>4. Linked(nil \o messages, nil \o body, none, 0)
      BY <1>3, <2>1, <2>2, <2>3, LinkedMore
    <2>5. nil \o messages = messages /\ nil \o body = body
      BY <2>1, ConcatEmptySeq DEF nil
    <2>6. Linked(messages, body, callOf, minted)
      BY <1>1, <2>4, <2>5
    <2>7. Shaped(messages)
      BY <2>1 DEF Shaped
    <2>8. QED BY <1>1, <1>2, <2>1, <2>6, <2>7 DEF IInv, TypeInv
  <1>6. QED BY <1>4, <1>5 DEF Init

\* One lemma for each action.
LEMMA ConvertKeeps ==
  ASSUME NEW m \in AnthropicMessages, IInv, ConvertMessage(m)
  PROVE  IInv'
  <1> DEFINE main == MainFor(m)
             ans == AnswersFor(m)
             bs == BlocksOf(m)
             n2 == minted + Len(CallsFor(m)) + Len(ResultsIn(m))
  <1>1. /\ TypeOK /\ body \in Seq(BodyItem) /\ messages \in Seq(MessageType)
        /\ Sends(messages, body) /\ Linked(messages, body, callOf, minted) /\ Shaped(messages)
    BY DEF IInv, TypeInv
  <1>2. callOf \in [ToolIds -> 0 .. minted] /\ Reading
    <2>1. callOf \in [ToolIds -> 0 .. minted] /\ minted \in Nat /\ read \in Nat
      BY <1>1, BoundsAssumption DEF TypeOK
    <2>2. \A t \in ToolIds : callOf[t] \in Nat
      BY <2>1
    <2>3. callOf \in [ToolIds -> Nat]
      BY <2>1, <2>2
    <2>4. QED BY <2>1, <2>3 DEF Reading
  <1>3. /\ endpoint = "anthropic" /\ stage = "reading" /\ read < MaxMessages
        /\ read' = read + 1
        /\ body' = body \o bs
        /\ messages' = messages \o main \o ans
        /\ callOf' = KnownAfter(m)
        /\ minted' = n2
        /\ UNCHANGED <<endpoint, stage, override>>
    BY DEF ConvertMessage, BlocksOf, CallsFor, ResultsIn, KnownAfter, MainFor, AnswersFor
  <1>4. main \in Seq(MessageType) /\ ans \in Seq(MessageType) /\ bs \in Seq(BodyItem)
    BY <1>2, ConvertTypes, BlocksType DEF Reading
  <1>5. n2 \in Nat /\ KnownAfter(m) \in [ToolIds -> 0 .. n2]
    BY <1>2, ConvertKnown
  <1>6. Linked(messages \o main \o ans, body \o bs, KnownAfter(m), n2)
    BY <1>1, <1>2, ConvertLinked
  <1>7. Sends(main \o ans, bs)
    BY <1>2, ConvertSends
  <1>8. Shaped(main) /\ Shaped(ans)
    BY <1>2, ConvertShaped
  <1> HIDE DEF main, ans, bs, n2
  <1>9. TypeOK'
    BY <1>1, <1>3, <1>5, BoundsAssumption DEF TypeOK
  <1>10. /\ messages \o main \in Seq(MessageType) /\ main \o ans \in Seq(MessageType)
         /\ body' \in Seq(BodyItem)
    BY <1>1, <1>3, <1>4, ConcatProperties
  <1>11. messages' = messages \o (main \o ans) /\ messages' \in Seq(MessageType)
    <2>1. (messages \o main) \o ans = messages \o (main \o ans)
      BY <1>1, <1>4, ConcatAssociative
    <2>2. (messages \o main) \o ans \in Seq(MessageType)
      <3> DEFINE a == messages \o main
      <3>1. a \in Seq(MessageType)
        BY <1>10
      <3> HIDE DEF a
      <3>2. a \o ans \in Seq(MessageType)
        BY <1>4, <3>1, ConcatProperties
      <3>3. QED BY <3>2 DEF a
    <2>3. QED BY <1>3, <2>1, <2>2
  <1>12. Sends(messages', body')
    <2> DEFINE ns == main \o ans
    <2>1. ns \in Seq(MessageType) /\ Sends(ns, bs)
      BY <1>7, <1>10
    <2> HIDE DEF ns
    <2>2. Sends(messages \o ns, body \o bs)
      BY <1>1, <1>4, <2>1, SendsMore
    <2>3. QED BY <1>3, <1>11, <2>2 DEF ns
  <1>13. Linked(messages', body', callOf', minted')
    BY <1>3, <1>6
  <1>14. Shaped(messages')
    <2> DEFINE a == messages \o main
    <2>1. a \in Seq(MessageType) /\ Shaped(a)
      BY <1>1, <1>4, <1>8, <1>10, ShapedMore
    <2> HIDE DEF a
    <2>2. Shaped(a \o ans)
      BY <1>4, <1>8, <2>1, ShapedMore
    <2>3. QED BY <1>3, <2>2 DEF a
  <1>15. stage' # "sent"
    BY <1>3
  <1>16. QED BY <1>9, <1>10, <1>11, <1>12, <1>13, <1>14, <1>15 DEF IInv, TypeInv, Sends, Linked, Shaped

\* A message of an OpenAI body is linked to nothing, and shaped.
LEMMA TakeKeeps ==
  ASSUME NEW role \in {"system", "developer", "user"}, NEW content \in OpenAIContents,
         IInv, TakeMessage(role, content)
  PROVE  IInv'
  <1> DEFINE ps == PlacedParts(content)
             msg == Taken(role, content)
             ns == <<msg>>
             bs == OfType(ps, {"text", "media", "link"})
  <1>1. /\ TypeOK /\ body \in Seq(BodyItem) /\ messages \in Seq(MessageType)
        /\ Sends(messages, body) /\ Linked(messages, body, callOf, minted) /\ Shaped(messages)
    BY DEF IInv, TypeInv
  <1>2. read \in Nat /\ minted \in Nat
    BY <1>1, BoundsAssumption DEF TypeOK
  <1>3. /\ endpoint = "openai" /\ stage = "reading" /\ read < MaxMessages
        /\ read' = read + 1
        /\ body' = body \o bs
        /\ messages' = Append(messages, msg)
        /\ UNCHANGED <<endpoint, stage, callOf, minted, override>>
    BY DEF TakeMessage, PlacedParts, Taken
  <1>4. /\ msg \in MessageType /\ msg.role = role
        /\ msg.content.form = content.form /\ msg.content.parts = ps
        /\ msg.reasoning = <<>> /\ msg.calls = <<>> /\ msg.answers = None
        /\ ps \in Seq(Typed(Piece, ClientTypes)) /\ HeadOnly(ps)
        /\ content.form \in {"string", "list"} \/ ps = <<>>
    BY <1>2, TakenIs
  <1>5. bs \in Seq(Typed(Piece, {"text", "media", "link"}))
    <2> DEFINE TI == {"text", "media", "link"}
    <2>1. ps \in Seq(Piece)
      BY <1>4 DEF MessageType, ContentType
    <2> HIDE DEF ps, TI
    <2>2. OfType(ps, TI) \in Seq(Typed(Piece, TI))
      BY <2>1, OfTypeType
    <2>3. QED BY <2>2 DEF TI
  <1> HIDE DEF ps, msg
  <1>6. Sends(ns, bs) /\ bs \in Seq(BodyItem)
    BY <1>4, TakenSends
  <1>7. \A i \in DOMAIN bs : bs[i].type \notin ToolTypes
    <2> DEFINE A == Typed(Piece, {"text", "media", "link"})
    <2>1. \A x \in A : x.type \notin ToolTypes
      BY DEF Typed, ToolTypes
    <2> HIDE DEF bs, A
    <2>2. \A i \in DOMAIN bs : bs[i] \in A
      BY <1>5 DEF A
    <2>3. QED BY <2>1, <2>2
  <1>8. /\ ns \in Seq(MessageType)
        /\ \A k \in DOMAIN ns : ns[k] = msg
    BY <1>4
  <1>9. messages' = messages \o ns
    BY <1>1, <1>3, <1>4, AppendIsConcat
  <1> HIDE DEF bs, ns
  <1>10. messages' \in Seq(MessageType) /\ body' \in Seq(BodyItem)
    BY <1>1, <1>3, <1>6, <1>8, <1>9, ConcatProperties
  <1>11. Sends(messages', body')
    BY <1>1, <1>3, <1>6, <1>8, <1>9, SendsMore
  <1>12. Linked(messages', body', callOf', minted')
    <2>1. \A k \in DOMAIN ns : ns[k].role # "tool" /\ ns[k].calls = <<>> /\ ns[k].answers = None
      BY <1>4, <1>8
    <2>2. Linked(messages \o ns, body \o bs, callOf, minted)
      BY <1>1, <1>2, <1>6, <1>7, <1>8, <2>1, LinkedMore
    <2>3. QED BY <1>3, <1>9, <2>2
  <1>13. Shaped(messages')
    <2>1. Shaped(ns)
      BY <1>4, <1>8 DEF Shaped
    <2>2. QED BY <1>1, <1>8, <1>9, <2>1, ShapedMore
  <1>14. TypeOK'
    BY <1>1, <1>3, BoundsAssumption DEF TypeOK
  <1>15. stage' # "sent"
    BY <1>3
  <1>16. QED BY <1>10, <1>11, <1>12, <1>13, <1>14, <1>15 DEF IInv, TypeInv, Sends, Linked, Shaped

\* The three actions that normalise.
LEMMA NormalizeKeeps ==
  ASSUME IInv, override' \in BOOLEAN, messages' = Normalize(messages, override'),
         stage' \in {"normalized", "sent"}, UNCHANGED <<endpoint, body, read, callOf, minted>>
  PROVE  IInv'
  <1>1. /\ TypeOK /\ body \in Seq(BodyItem) /\ messages \in Seq(MessageType) /\ minted \in Nat
        /\ Sends(messages, body) /\ Linked(messages, body, callOf, minted) /\ Shaped(messages)
    BY DEF IInv, TypeInv, TypeOK
  <1> DEFINE p == override'
             ns == Normalize(messages, p)
  <1>2. ns \in Seq(MessageType)
    BY <1>1, NormalizeIs
  <1>3. Sends(ns, body)
    BY <1>1, NormalizeSends
  <1>4. Linked(ns, body, callOf, minted)
    BY <1>1, NormalizeLinked
  <1>5. Shaped(ns) /\ Ready(ns, p)
    BY <1>1, NormalizeReady
  <1>6. TypeOK'
    BY <1>1 DEF TypeOK
  <1>7. messages' = ns /\ body' = body /\ callOf' = callOf /\ minted' = minted
    OBVIOUS
  <1> HIDE DEF ns
  <1>8. QED BY <1>1, <1>2, <1>3, <1>4, <1>5, <1>6, <1>7 DEF IInv, TypeInv, Sends, Linked, Shaped, Ready

\* Every step keeps the invariant.
LEMMA NextInv == IInv /\ [Next]_vars => IInv'
  <1> SUFFICES ASSUME IInv, [Next]_vars PROVE IInv'
    OBVIOUS
  <1>1. ASSUME NEW m \in AnthropicMessages, ConvertMessage(m) PROVE IInv'
    BY <1>1, ConvertKeeps
  <1>2. CASE BuildAnthropicPayload
    BY <1>2, NormalizeKeeps DEF BuildAnthropicPayload, ReadSettings
  <1>3. ASSUME NEW role \in {"system", "developer", "user"}, NEW content \in OpenAIContents,
               TakeMessage(role, content)
        PROVE  IInv'
    BY <1>3, TakeKeeps
  <1>4. CASE NormalizeBody
    BY <1>4, NormalizeKeeps DEF NormalizeBody, ReadSettings
  <1>5. CASE BuildUpstreamPayload
    <2>1. override' = override /\ override \in BOOLEAN
      BY <1>5 DEF BuildUpstreamPayload, IInv, TypeInv, TypeOK
    <2>2. messages' = Normalize(messages, override')
      BY <1>5, <2>1 DEF BuildUpstreamPayload
    <2>3. QED BY <1>5, <2>1, <2>2, NormalizeKeeps DEF BuildUpstreamPayload
  <1>6. CASE UNCHANGED vars
    <2>1. /\ endpoint' = endpoint /\ stage' = stage /\ body' = body /\ read' = read
          /\ messages' = messages /\ callOf' = callOf /\ minted' = minted /\ override' = override
      BY <1>6 DEF vars
    <2>2. TypeOK'
      BY <2>1 DEF IInv, TypeInv, TypeOK
    <2>3. QED BY <2>1, <2>2 DEF IInv, TypeInv
  <1>7. QED BY <1>1, <1>2, <1>3, <1>4, <1>5, <1>6 DEF Next

\* The invariant holds in every state.
THEOREM Invariant == Spec => []IInv
  BY InitInv, NextInv, PTL DEF Spec

\* Every variable keeps its type; above all, no id is remembered that was not
\* minted.
THEOREM TypeCorrect == Spec => []TypeOK
  <1>1. IInv => TypeOK
    BY DEF IInv, TypeInv
  <1>2. QED BY <1>1, Invariant, PTL

\* Of any body, of any length, text and media, the text of each result, reasoning
\* and calls are sent on once and in their order, through conversion and both
\* normalisations; a result that holds no text is sent as an empty one.
THEOREM SentAsOrdered == Spec => []SentInOrder
  <1>1. IInv => SentInOrder
    BY DEF IInv, Sends, SentInOrder
  <1>2. QED BY <1>1, Invariant, PTL

\* Of any number of messages, every result answers the call of the latest
\* tool_use with its id in an earlier message, or, if there was none, no call.
THEOREM ResultsAnswered == Spec => []ResultsAnswerCalls
  <1>1. IInv => ResultsAnswerCalls
    <2> SUFFICES ASSUME IInv PROVE ResultsAnswerCalls
      OBVIOUS
    <2>1. Distinct(messages) /\ \A j \in DOMAIN body : body[j].type = "tool_result" => Answered(messages, body, j)
      BY DEF IInv, Linked
    <2>2. AllCalls = AllCallsOf(messages)
      BY DEF AllCalls, AllCallsOf
    <2>3. \A t, n : UsesOf(t, n) = Uses(body, t, n)
      BY DEF UsesOf, Uses
    <2>4. \A k : AnswersNoCall(k) <=> Lone(messages, k)
      BY <2>2 DEF AnswersNoCall, Lone
    <2>5. \A k, use : AnswersUse(k, use) <=> Answers(messages, body, k, use)
      BY DEF AnswersUse, Answers
    <2>6. \A c, d \in AllCalls : c.call = d.call => c = d
      BY <2>1, <2>2 DEF Distinct
    <2>7. ASSUME NEW j \in DOMAIN body, body[j].type = "tool_result"
          PROVE  LET uses == UsesOf(body[j].tool, j - 1)
                 IN  \E k \in DOMAIN messages :
                       /\ ToolMessageFor(messages[k], body[j])
                       /\ IF uses = {} THEN AnswersNoCall(k) ELSE AnswersUse(k, Max(uses))
      <3>1. PICK k \in DOMAIN messages :
              /\ ToolMessageFor(messages[k], body[j])
              /\ IF Uses(body, body[j].tool, j - 1) = {}
                 THEN Lone(messages, k) ELSE Answers(messages, body, k, Max(Uses(body, body[j].tool, j - 1)))
        BY <2>1, <2>7 DEF Answered
      <3>2. QED BY <2>3, <2>4, <2>5, <3>1
    <2>8. QED BY <2>6, <2>7 DEF ResultsAnswerCalls
  <1>2. QED BY <1>1, Invariant, PTL

\* What is sent has the override first in every system message that has text, and
\* at most once in any, after two normalisations as after one.
THEOREM OverrideIsOnce == Spec => []OverrideOnce
  <1>1. IInv => OverrideOnce
    <2> SUFFICES ASSUME IInv, stage = "sent" PROVE OverrideOnce
      BY DEF OverrideOnce
    <2>1. Ready(messages, override) /\ Shaped(messages) /\ messages \in Seq(MessageType)
      BY DEF IInv, TypeInv
    <2>2. ASSUME NEW k \in DOMAIN messages
          PROVE  LET content == messages[k].content
                     texts   == OfType(content.parts, {"text", "override"})
                 IN  /\ messages[k].role # "developer"
                     /\ Len(OfType(content.parts, {"override"})) <= 1
                     /\ override /\ messages[k].role = "system" =>
                          /\ content.form = "string" => texts # <<>>
                          /\ texts # <<>> => Head(texts) = Override
      <3> DEFINE s == messages[k].content.parts
      <3>1. s \in Seq(Piece) /\ HeadOnly(s)
        <4>1. messages[k] \in MessageType
          BY <2>1
        <4>2. QED BY <2>1, <4>1 DEF MessageType, ContentType, Shaped
      <3>2. Prepared(messages[k], override)
        BY <2>1 DEF Ready
      <3> HIDE DEF s
      <3>3. Len(OfType(s, {"override"})) <= 1
        BY <3>1, OverrideAtMostOnce
      <3>4. QED BY <3>2, <3>3 DEF Prepared, s
    <2>3. override => \E k \in DOMAIN messages : messages[k].role = "system"
      BY <2>1 DEF Ready
    <2>4. QED BY <2>2, <2>3 DEF OverrideOnce
  <1>2. QED BY <1>1, Invariant, PTL

=============================================================================
