-------------------------- MODULE ChatAnswerProofs --------------------------
(***************************************************************************)
(* Proofs about the clients of a chat answer, for any number of chunks, of *)
(* tool calls, of finish reasons and of parts in a chunk.                  *)
(*                                                                         *)
(* The recursive functions of the model are reasoned about by induction    *)
(* over Nat, which Induction states for a set of numbers; Ascending sorts  *)
(* any finite set of integers (AscendingSorts), in the one way there is    *)
(* (AscendingUnique), so that one more event adds at most one piece to     *)
(* what the client of a block has (PiecesGrow).                            *)
(*                                                                         *)
(* The events are then followed one at a time, in the middle of a call as  *)
(* well as between calls: h stands for the events of earlier calls, a      *)
(* state s of the machine has its own, and Running(h, s, a) is what they   *)
(* satisfy together with a, what a collector that never fails has so far.  *)
(* CollectRuns then follows the collector of the code next to that one.    *)
(***************************************************************************)
EXTENDS ChatAnswer, SequenceTheorems, FiniteSetTheorems, TLAPS

-----------------------------------------------------------------------------
(* Induction                                                               *)

\* A set of numbers that holds 0, and k + 1 when it holds k, holds every one.
LEMMA Induction ==
  ASSUME NEW S, 0 \in S, \A k \in Nat : k \in S => k + 1 \in S
  PROVE  Nat \subseteq S
  <1> DEFINE T == Nat \ S
  <1>1. ASSUME T # {} PROVE FALSE
    <2>1. PICK x \in T : \A y \in T : ~ (<<y, x>> \in OpToRel(<, Nat))
      BY <1>1, NatLessThanWellFounded, WFMin
    <2>2. x # 0 /\ x \in Nat
      OBVIOUS
    <2>3. x - 1 \in Nat /\ x - 1 < x
      BY <2>2
    <2>4. x - 1 \notin T
      BY <2>1, <2>2, <2>3 DEF OpToRel
    <2>5. QED BY <2>2, <2>3, <2>4
  <1>2. QED BY <1>1

\* The same up to a bound.
LEMMA BoundedInduction ==
  ASSUME NEW m \in Nat, NEW S, 0 \in S, \A k \in 0 .. m - 1 : k \in S => k + 1 \in S
  PROVE  \A k \in 0 .. m : k \in S
  <1> DEFINE T == {k \in Nat : k <= m => k \in S}
  <1>1. 0 \in T
    OBVIOUS
  <1>2. ASSUME NEW k \in Nat, k \in T PROVE k + 1 \in T
    <2>1. CASE k + 1 <= m
      <3>1. k \in 0 .. m - 1 /\ k \in S
        BY <2>1, <1>2
      <3>2. QED BY <3>1
    <2>2. CASE ~ (k + 1 <= m)
      BY <2>2
    <2>3. QED BY <2>1, <2>2
  <1>3. Nat \subseteq T
    <2> HIDE DEF T
    <2>1. QED BY <1>1, <1>2, Induction
  <1>4. QED BY <1>3

\* A function given its value at 0 and, from step to step, at 1 .. m; the sets
\* of functions are named for the provers to match them.
Maps(A, B) == [A -> B]
Recurs(g, m, base, step) == g[0] = base /\ \A k \in 1 .. m : g[k] = step[k][g[k - 1]]

\* Such a function exists.
LEMMA RecursionExists ==
  ASSUME NEW D, NEW m \in Nat, NEW base \in D, NEW step \in Maps(1 .. m, Maps(D, D))
  PROVE  \E g \in Maps(0 .. m, D) : Recurs(g, m, base, step)
  <1> DEFINE Is(g, l) == \A k \in 0 .. l : g[k] = IF k = 0 THEN base ELSE step[k][g[k - 1]]
             S == {l \in 0 .. m : \E g \in [0 .. l -> D] : Is(g, l)}
  <1>1. step \in [1 .. m -> [D -> D]]
    BY DEF Maps
  <1>2. 0 \in S
    <2> DEFINE h == [k \in 0 .. 0 |-> base]
    <2>1. h \in [0 .. 0 -> D] /\ Is(h, 0)
      OBVIOUS
    <2>2. 0 \in 0 .. m
      OBVIOUS
    <2> HIDE DEF h, Is
    <2>3. QED BY <2>1, <2>2
  <1>3. ASSUME NEW l \in 0 .. m - 1, l \in S
        PROVE  l + 1 \in S
    <2>1. PICK g \in [0 .. l -> D] : Is(g, l)
      BY <1>3
    <2> DEFINE h == [k \in 0 .. l + 1 |-> IF k = l + 1 THEN step[l + 1][g[l]] ELSE g[k]]
    <2>2. step[l + 1][g[l]] \in D
      <3>1. l + 1 \in 1 .. m /\ g[l] \in D
        OBVIOUS
      <3>2. QED BY <3>1, <1>1
    <2>3. h \in [0 .. l + 1 -> D]
      BY <2>2
    <2>4. ASSUME NEW k \in 0 .. l + 1
          PROVE  h[k] = IF k = 0 THEN base ELSE step[k][h[k - 1]]
      <3>1. CASE k = 0
        BY <2>1, <3>1
      <3>2. CASE k \in 1 .. l
        <4>1. h[k] = g[k] /\ h[k - 1] = g[k - 1]
          BY <3>2
        <4>2. QED BY <2>1, <3>2, <4>1
      <3>3. CASE k = l + 1
        <4>1. h[k] = step[l + 1][g[l]] /\ h[k - 1] = g[l]
          BY <3>3
        <4>2. QED BY <3>3, <4>1
      <3>4. QED BY <3>1, <3>2, <3>3
    <2>5. Is(h, l + 1)
      BY <2>4
    <2>6. l + 1 \in 0 .. m
      OBVIOUS
    <2> HIDE DEF h, Is
    <2>7. QED BY <2>3, <2>5, <2>6
  <1>4. m \in S
    <2> HIDE DEF S
    <2>1. \A k \in 0 .. m : k \in S
      BY <1>2, <1>3, BoundedInduction
    <2>2. QED BY <2>1
  <1>5. PICK g \in [0 .. m -> D] : Is(g, m)
    BY <1>4
  <1>6. Recurs(g, m, base, step) /\ g \in Maps(0 .. m, D)
    BY <1>5 DEF Recurs, Maps
  <1>7. QED BY <1>6

-----------------------------------------------------------------------------
(* Sorted sets                                                             *)

\* The elements of S up to x.
UpTo(S, x) == {y \in S : y <= x}

\* More elements are up to a larger one.
LEMMA UpToGrows ==
  ASSUME NEW S \in SUBSET Int, IsFiniteSet(S), NEW x \in S, NEW y \in S, x < y
  PROVE  /\ IsFiniteSet(UpTo(S, x)) /\ Cardinality(UpTo(S, x)) \in 1 .. Cardinality(S)
         /\ Cardinality(UpTo(S, x)) < Cardinality(UpTo(S, y))
  <1>1. IsFiniteSet(UpTo(S, y)) /\ UpTo(S, x) \in SUBSET UpTo(S, y)
    <2>1. UpTo(S, y) \in SUBSET S
      BY DEF UpTo
    <2>2. \A z \in S : z \in Int
      OBVIOUS
    <2>3. \A z \in S : z <= x => z <= y
      BY <2>2
    <2>4. UpTo(S, x) \in SUBSET UpTo(S, y)
      BY <2>3 DEF UpTo
    <2>5. QED BY <2>1, <2>4, FS_Subset
  <1>2. UpTo(S, x) # UpTo(S, y) /\ x \in UpTo(S, x)
    BY DEF UpTo
  <1>3. /\ IsFiniteSet(UpTo(S, x)) /\ Cardinality(UpTo(S, x)) \in Nat
        /\ Cardinality(UpTo(S, y)) \in Nat
    BY <1>1, FS_Subset, FS_CardinalityType
  <1>4. Cardinality(UpTo(S, x)) # 0
    BY <1>2, <1>3, FS_EmptySet
  <1>5. UpTo(S, x) \in SUBSET S
    BY DEF UpTo
  <1>6. Cardinality(UpTo(S, x)) <= Cardinality(S) /\ Cardinality(S) \in Nat
    BY <1>5, FS_Subset, FS_CardinalityType
  <1>7. /\ Cardinality(UpTo(S, x)) <= Cardinality(UpTo(S, y))
        /\ Cardinality(UpTo(S, x)) # Cardinality(UpTo(S, y))
    BY <1>1, <1>2, FS_Subset
  <1>8. QED BY <1>3, <1>4, <1>6, <1>7

\* The ranks of a set's elements are 1 .. Cardinality(S).
LEMMA Ranks ==
  ASSUME NEW S \in SUBSET Int, IsFiniteSet(S)
  PROVE  /\ Cardinality(S) \in Nat
         /\ \A x \in S : Cardinality(UpTo(S, x)) \in 1 .. Cardinality(S)
         /\ \A x, y \in S : x < y => Cardinality(UpTo(S, x)) < Cardinality(UpTo(S, y))
         /\ \A i \in 1 .. Cardinality(S) : \E x \in S : Cardinality(UpTo(S, x)) = i
  <1> DEFINE c == Cardinality(S)
             r == [x \in S |-> Cardinality(UpTo(S, x))]
  <1>1. c \in Nat
    BY FS_CardinalityType
  <1>2. ASSUME NEW x \in S PROVE Cardinality(UpTo(S, x)) \in 1 .. c
    <2>1. UpTo(S, x) \in SUBSET S /\ x \in UpTo(S, x)
      BY DEF UpTo
    <2>2. IsFiniteSet(UpTo(S, x)) /\ Cardinality(UpTo(S, x)) <= c
      BY <2>1, FS_Subset
    <2>3. Cardinality(UpTo(S, x)) \in Nat /\ Cardinality(UpTo(S, x)) # 0
      BY <2>1, <2>2, FS_EmptySet, FS_CardinalityType
    <2>4. QED BY <1>1, <2>2, <2>3
  <1>3. ASSUME NEW x \in S, NEW y \in S, x < y
        PROVE  Cardinality(UpTo(S, x)) < Cardinality(UpTo(S, y))
    BY <1>3, UpToGrows
  <1>4. r \in Injection(S, 1 .. c)
    <2>1. r \in [S -> 1 .. c]
      BY <1>2
    <2>2. ASSUME NEW x \in S, NEW y \in S, x # y PROVE r[x] # r[y]
      <3>1. x < y \/ y < x
        BY <2>2
      <3>2. r[x] \in 1 .. c /\ r[y] \in 1 .. c
        BY <2>1
      <3>3. r[x] < r[y] \/ r[y] < r[x]
        BY <3>1, <1>3
      <3>4. QED BY <3>2, <3>3, <1>1
    <2>3. QED BY <2>1, <2>2 DEF Injection, IsInjective
  <1>5. IsFiniteSet(1 .. c) /\ Cardinality(1 .. c) = c
    BY <1>1, FS_Interval
  <1>6. r \in Surjection(S, 1 .. c)
    <2> HIDE DEF r
    <2>1. QED BY <1>4, <1>5, FS_Injection
  <1>7. ASSUME NEW i \in 1 .. c PROVE \E x \in S : Cardinality(UpTo(S, x)) = i
    BY <1>6 DEF Surjection
  <1>8. QED BY <1>1, <1>2, <1>3, <1>7

\* Ascending(S) enumerates S in increasing order.
LEMMA AscendingSorts ==
  ASSUME NEW S \in SUBSET Int, IsFiniteSet(S)
  PROVE  /\ Cardinality(S) \in Nat
         /\ Ascending(S) \in [1 .. Cardinality(S) -> S]
         /\ \A i, j \in 1 .. Cardinality(S) : i < j => Ascending(S)[i] < Ascending(S)[j]
         /\ \A x \in S : \E i \in 1 .. Cardinality(S) : Ascending(S)[i] = x
  <1> DEFINE c == Cardinality(S)
             a == Ascending(S)
  <1>1. a = [i \in 1 .. c |-> CHOOSE x \in S : Cardinality(UpTo(S, x)) = i]
    BY DEF Ascending, UpTo
  <1>2. ASSUME NEW i \in 1 .. c
        PROVE  a[i] \in S /\ Cardinality(UpTo(S, a[i])) = i
    BY <1>1, Ranks
  <1>3. a \in [1 .. c -> S]
    BY <1>1, <1>2
  <1>4. ASSUME NEW i \in 1 .. c, NEW j \in 1 .. c, i < j PROVE a[i] < a[j]
    <2>1. ASSUME ~ (a[i] < a[j]) PROVE FALSE
      <3>1. a[i] \in Int /\ a[j] \in Int
        BY <1>2
      <3>2. a[j] < a[i] \/ a[j] = a[i]
        BY <2>1, <3>1
      <3>3. Cardinality(UpTo(S, a[i])) = i /\ Cardinality(UpTo(S, a[j])) = j
        BY <1>2
      <3>4. a[j] < a[i] => j < i
        BY <3>3, <1>2, Ranks
      <3>5. a[j] = a[i] => j = i
        BY <3>3
      <3>6. QED BY <3>2, <3>4, <3>5, <1>4
    <2>2. QED BY <2>1
  <1>5. ASSUME NEW x \in S PROVE \E i \in 1 .. c : a[i] = x
    <2>1. PICK i \in 1 .. c : i = Cardinality(UpTo(S, x))
      BY Ranks
    <2>2. a[i] \in S /\ Cardinality(UpTo(S, a[i])) = i
      BY <2>1, <1>2
    <2>3. a[i] \in Int /\ x \in Int
      BY <2>2
    <2>4. ~ (a[i] < x) /\ ~ (x < a[i])
      <3>1. \A y, z \in S : y < z => Cardinality(UpTo(S, y)) < Cardinality(UpTo(S, z))
        BY Ranks
      <3> HIDE DEF a
      <3>2. a[i] < x => i < i
        BY <2>1, <2>2, <3>1
      <3>3. x < a[i] => i < i
        BY <2>1, <2>2, <3>1
      <3>4. QED BY <3>2, <3>3
    <2>5. a[i] = x
      BY <2>3, <2>4
    <2>6. QED BY <2>1, <2>5
  <1>6. QED BY <1>3, <1>4, <1>5, Ranks

\* It is the only sequence that does.
LEMMA AscendingUnique ==
  ASSUME NEW S \in SUBSET Int, NEW m \in Nat, NEW b \in [1 .. m -> S],
         \A i, j \in 1 .. m : i < j => b[i] < b[j],
         \A x \in S : \E i \in 1 .. m : b[i] = x
  PROVE  IsFiniteSet(S) /\ Cardinality(S) = m /\ Ascending(S) = b
  <1>1. \A i, j \in 1 .. m : i # j => b[i] # b[j]
    <2>1. SUFFICES ASSUME NEW i \in 1 .. m, NEW j \in 1 .. m, i # j PROVE b[i] # b[j]
      OBVIOUS
    <2>2. b[i] \in S /\ b[j] \in S /\ (i < j \/ j < i)
      BY <2>1
    <2>3. b[i] \in Int /\ b[j] \in Int /\ (b[i] < b[j] \/ b[j] < b[i])
      BY <2>2
    <2>4. QED BY <2>3
  <1>2. b \in Bijection(1 .. m, S)
    BY <1>1 DEF Bijection, Injection, Surjection, IsInjective
  <1>3. Cardinality(S) = m /\ IsFiniteSet(S)
    <2>1. ExistsBijection(1 .. m, S)
      BY <1>2 DEF ExistsBijection
    <2>2. QED BY <2>1, FS_CountingElements, FS_NatBijection
  <1>4. ASSUME NEW i \in 1 .. m PROVE Cardinality(UpTo(S, b[i])) = i
    <2> DEFINE T == UpTo(S, b[i])
               d == [j \in 1 .. i |-> b[j]]
    <2>1. \A j \in 1 .. i : b[j] \in T
      <3>1. SUFFICES ASSUME NEW j \in 1 .. i PROVE b[j] \in T
        OBVIOUS
      <3>2. b[j] \in S /\ b[i] \in S /\ (j = i \/ j < i) /\ j \in 1 .. m
        OBVIOUS
      <3>3. b[j] \in Int /\ b[i] \in Int /\ (b[j] = b[i] \/ b[j] < b[i])
        BY <3>2
      <3>4. b[j] <= b[i]
        BY <3>3
      <3>5. QED BY <3>2, <3>4 DEF UpTo
    <2>2. \A x \in T : \E j \in 1 .. i : b[j] = x
      <3>1. SUFFICES ASSUME NEW x \in T PROVE \E j \in 1 .. i : b[j] = x
        OBVIOUS
      <3>2. x \in S /\ x <= b[i] /\ b[i] \in Int /\ x \in Int
        BY DEF UpTo
      <3>3. PICK j \in 1 .. m : b[j] = x
        BY <3>2
      <3>4. ~ (i < j)
        BY <3>2, <3>3
      <3>5. j \in 1 .. i
        BY <3>4
      <3>6. QED BY <3>3, <3>5
    <2>3. d \in Bijection(1 .. i, T)
      <3>1. d \in [1 .. i -> T]
        BY <2>1
      <3>2. \A j, k \in 1 .. i : j # k => d[j] # d[k]
        BY <1>1
      <3>3. \A x \in T : \E j \in 1 .. i : d[j] = x
        BY <2>2
      <3> HIDE DEF d, T
      <3>4. QED BY <3>1, <3>2, <3>3 DEF Bijection, Injection, Surjection, IsInjective
    <2>4. ExistsBijection(1 .. i, T)
      BY <2>3 DEF ExistsBijection
    <2>5. i \in Nat
      OBVIOUS
    <2>6. Cardinality(T) = i
      <3> HIDE DEF T
      <3>1. QED BY <2>4, <2>5, FS_CountingElements
    <2>7. QED BY <2>6
  <1>5. ASSUME NEW i \in 1 .. m
        PROVE  (CHOOSE x \in S : Cardinality(UpTo(S, x)) = i) = b[i]
    <2>1. b[i] \in S /\ Cardinality(UpTo(S, b[i])) = i
      BY <1>4
    <2>2. ASSUME NEW x \in S, Cardinality(UpTo(S, x)) = i PROVE x = b[i]
      <3>1. PICK j \in 1 .. m : b[j] = x
        OBVIOUS
      <3>2. Cardinality(UpTo(S, x)) = j
        BY <3>1, <1>4
      <3>3. QED BY <3>1, <3>2, <2>2
    <2>3. QED BY <2>1, <2>2
  <1>6. Ascending(S) = [i \in 1 .. m |-> CHOOSE x \in S : Cardinality(UpTo(S, x)) = i]
    BY <1>3 DEF Ascending, UpTo
  <1>7. Ascending(S) = [i \in 1 .. m |-> b[i]]
    BY <1>5, <1>6
  <1>8. QED BY <1>3, <1>7

\* A number beyond a set is sorted behind it.
LEMMA AscendingAppend ==
  ASSUME NEW S \in SUBSET Int, IsFiniteSet(S), NEW x \in Int, \A y \in S : y < x
  PROVE  /\ Cardinality(S) \in Nat
         /\ Ascending(S) \in [1 .. Cardinality(S) -> S]
         /\ Ascending(S \cup {x})
              = [i \in 1 .. Cardinality(S) + 1 |->
                   IF i = Cardinality(S) + 1 THEN x ELSE Ascending(S)[i]]
  <1> DEFINE c == Cardinality(S)
             a == Ascending(S)
             b == [i \in 1 .. c + 1 |-> IF i = c + 1 THEN x ELSE a[i]]
             T == S \cup {x}
  <1>1. /\ c \in Nat /\ a \in [1 .. c -> S]
        /\ \A i, j \in 1 .. c : i < j => a[i] < a[j]
        /\ \A y \in S : \E i \in 1 .. c : a[i] = y
    BY AscendingSorts
  <1> HIDE DEF a, c
  <1>2. b \in [1 .. c + 1 -> T]
    BY <1>1
  <1>3. ASSUME NEW i \in 1 .. c + 1, NEW j \in 1 .. c + 1, i < j PROVE b[i] < b[j]
    <2>1. i \in 1 .. c /\ b[i] = a[i] /\ a[i] \in S
      BY <1>1, <1>3
    <2>2. CASE j = c + 1
      BY <2>1, <2>2
    <2>3. CASE j # c + 1
      <3>1. j \in 1 .. c /\ b[j] = a[j]
        BY <1>1, <2>3
      <3>2. QED BY <3>1, <2>1, <1>1, <1>3
    <2>4. QED BY <2>2, <2>3
  <1>4. ASSUME NEW y \in T PROVE \E i \in 1 .. c + 1 : b[i] = y
    <2>1. CASE y = x
      <3>1. c + 1 \in 1 .. c + 1 /\ b[c + 1] = x
        BY <1>1
      <3>2. QED BY <3>1, <2>1
    <2>2. CASE y \in S
      <3>1. PICK i \in 1 .. c : a[i] = y
        BY <1>1, <2>2
      <3>2. i \in 1 .. c + 1 /\ b[i] = y
        BY <3>1, <1>1
      <3>3. QED BY <3>2
    <2>3. QED BY <2>1, <2>2
  <1>5. T \in SUBSET Int /\ c + 1 \in Nat
    BY <1>1
  <1>6. Ascending(T) = b
    <2> HIDE DEF b, T
    <2>1. QED BY <1>2, <1>3, <1>4, <1>5, AscendingUnique
  <1>7. QED BY <1>1, <1>6 DEF a, c

-----------------------------------------------------------------------------
(* The pieces of a stream                                                  *)

\* What PiecesAt joins.
Joined(parts, S) == {i \in S : parts[i].piece # 0}

\* Pieces joined are a sequence of pieces.
LEMMA PiecesType ==
  ASSUME NEW E, NEW parts \in Seq(E), NEW S \in SUBSET (1 .. Len(parts)),
         NEW X, \A i \in S : parts[i].piece \in X
  PROVE  PiecesAt(parts, S) \in Seq(X)
  <1> DEFINE T == Joined(parts, S)
             at == Ascending(T)
  <1>1. T \in SUBSET Int /\ IsFiniteSet(T)
    <2>1. T \in SUBSET (1 .. Len(parts)) /\ Len(parts) \in Nat
      BY DEF Joined
    <2>2. IsFiniteSet(1 .. Len(parts))
      BY <2>1, FS_Interval
    <2>3. IsFiniteSet(T)
      <3> HIDE DEF T
      <3>1. QED BY <2>1, <2>2, FS_Subset
    <2>4. QED BY <2>1, <2>3
  <1>2. Cardinality(T) \in Nat /\ at \in [1 .. Cardinality(T) -> T]
    <2> HIDE DEF T
    <2>1. QED BY <1>1, AscendingSorts
  <1>3. \A i \in T : parts[i].piece \in X
    <2>1. T \subseteq S
      BY DEF Joined
    <2> HIDE DEF T
    <2>2. QED BY <2>1
  <1>4. PiecesAt(parts, S) = [k \in DOMAIN at |-> parts[at[k]].piece]
    BY DEF PiecesAt, Joined
  <1>5. PiecesAt(parts, S) \in [1 .. Cardinality(T) -> X]
    <2> HIDE DEF T, at
    <2>1. QED BY <1>2, <1>3, <1>4
  <1>6. QED BY <1>2, <1>5

\* Parts that come later change nothing that was joined,
LEMMA PiecesKept ==
  ASSUME NEW E, NEW parts \in Seq(E), NEW S \in SUBSET (1 .. Len(parts)),
         NEW more, \A i \in S : more[i] = parts[i]
  PROVE  PiecesAt(more, S) = PiecesAt(parts, S)
  <1> DEFINE T == Joined(parts, S)
             at == Ascending(T)
  <1>1. Joined(more, S) = T
    BY DEF Joined
  <1>2. T \in SUBSET (1 .. Len(parts)) /\ Len(parts) \in Nat /\ T \in SUBSET S
    <2>1. T \in SUBSET S
      BY DEF Joined
    <2> HIDE DEF T
    <2>2. QED BY <2>1
  <1>3. T \in SUBSET Int /\ IsFiniteSet(T)
    <2>1. IsFiniteSet(1 .. Len(parts))
      BY <1>2, FS_Interval
    <2>2. IsFiniteSet(T)
      <3> HIDE DEF T
      <3>1. QED BY <1>2, <2>1, FS_Subset
    <2>3. QED BY <1>2, <2>2
  <1>4. at \in [1 .. Cardinality(T) -> T]
    <2> HIDE DEF T
    <2>1. QED BY <1>3, AscendingSorts
  <1>5. /\ PiecesAt(parts, S) = [k \in DOMAIN at |-> parts[at[k]].piece]
        /\ PiecesAt(more, S) = [k \in DOMAIN at |-> more[at[k]].piece]
    BY <1>1 DEF PiecesAt, Joined
  <1>6. \A k \in DOMAIN at : more[at[k]] = parts[at[k]]
    <2> HIDE DEF T, at
    <2>1. QED BY <1>2, <1>4
  <1>7. QED
    <2> HIDE DEF T, at
    <2>1. QED BY <1>5, <1>6

\* and one that is joined too comes behind.
LEMMA PiecesGrow ==
  ASSUME NEW E, NEW parts \in Seq(E), NEW S \in SUBSET (1 .. Len(parts)), NEW e \in E,
         NEW U, \A i : i \in U <=> i \in S \/ i = Len(parts) + 1
  PROVE  PiecesAt(Append(parts, e), U)
           = IF e.piece = 0 THEN PiecesAt(parts, S) ELSE Append(PiecesAt(parts, S), e.piece)
  <1> DEFINE l == Len(parts)
             more == Append(parts, e)
             T == Joined(parts, S)
             c == Cardinality(T)
             at == Ascending(T)
  <1>1. l \in Nat /\ more[l + 1] = e /\ \A i \in S : more[i] = parts[i]
    BY AppendProperties
  <1>2. T \in SUBSET (1 .. l) /\ T \in SUBSET S
    <2>1. T \in SUBSET S
      BY DEF Joined
    <2> HIDE DEF T
    <2>2. QED BY <2>1
  <1>3. CASE e.piece = 0
    <2>1. Joined(more, U) = Joined(more, S)
      BY <1>1, <1>3 DEF Joined
    <2>2. PiecesAt(more, U) = PiecesAt(more, S)
      BY <2>1 DEF PiecesAt, Joined
    <2>3. PiecesAt(more, S) = PiecesAt(parts, S)
      BY <1>1, PiecesKept
    <2>4. QED BY <2>2, <2>3, <1>3
  <1>4. CASE e.piece # 0
    <2>1. Joined(more, U) = T \cup {l + 1}
      BY <1>1, <1>4 DEF Joined
    <2>2. T \in SUBSET Int /\ IsFiniteSet(T) /\ l + 1 \in Int /\ \A y \in T : y < l + 1
      <3>1. IsFiniteSet(1 .. l)
        BY <1>1, FS_Interval
      <3>2. IsFiniteSet(T)
        <4> HIDE DEF T
        <4>1. QED BY <1>2, <3>1, FS_Subset
      <3>3. QED BY <1>1, <1>2, <3>2
    <2>3. /\ c \in Nat /\ at \in [1 .. c -> T]
          /\ Ascending(T \cup {l + 1}) = [i \in 1 .. c + 1 |-> IF i = c + 1 THEN l + 1 ELSE at[i]]
      <3> HIDE DEF T, l
      <3>1. QED BY <2>2, AscendingAppend
    <2> DEFINE bt == Ascending(T \cup {l + 1})
               f == PiecesAt(parts, S)
               g == PiecesAt(more, U)
               X == {parts[i].piece : i \in S} \cup {e.piece}
    <2>4. g = [k \in DOMAIN bt |-> more[bt[k]].piece]
      BY <2>1 DEF PiecesAt, Joined
    <2>5. f = [k \in DOMAIN at |-> parts[at[k]].piece]
      BY DEF PiecesAt, Joined
    <2>6. f \in Seq(X)
      BY PiecesType
    <2> HIDE DEF T, l, more, at, bt, c, f, g, X
    <2>7. /\ g = [k \in 1 .. c + 1 |-> IF k = c + 1 THEN e.piece ELSE f[k]]
          /\ Len(f) = c
      <3>1. DOMAIN bt = 1 .. c + 1 /\ DOMAIN f = 1 .. c
        BY <2>3, <2>5 DEF bt
      <3>2. ASSUME NEW k \in 1 .. c + 1
            PROVE  more[bt[k]].piece = IF k = c + 1 THEN e.piece ELSE f[k]
        <4>1. CASE k = c + 1
          BY <4>1, <2>3, <1>1 DEF bt
        <4>2. CASE k # c + 1
          <5>1. k \in 1 .. c /\ bt[k] = at[k]
            BY <4>2, <2>3 DEF bt
          <5>2. at[k] \in S
            BY <5>1, <2>3, <1>2
          <5>3. QED BY <5>1, <5>2, <4>2, <1>1, <2>5, <2>3
        <4>3. QED BY <4>1, <4>2
      <3>3. Len(f) = c
        BY <3>1, <2>6, <2>3, LenProperties
      <3>4. QED BY <3>1, <3>2, <3>3, <2>4
    <2>8. e.piece \in X
      BY DEF X
    <2>9. Append(f, e.piece) = [k \in 1 .. c + 1 |-> IF k = c + 1 THEN e.piece ELSE f[k]]
      BY <2>6, <2>7, <2>8
    <2>10. g = Append(f, e.piece)
      BY <2>7, <2>9
    <2>11. QED BY <2>10, <1>4 DEF f, g, more, l
  <1>5. QED BY <1>3, <1>4

\* No positions, no pieces.
LEMMA PiecesNone ==
  ASSUME NEW parts
  PROVE  PiecesAt(parts, {}) = <<>>
  <1>1. Joined(parts, {}) = {}
    BY DEF Joined
  <1>2. Cardinality({}) = 0 /\ IsFiniteSet({})
    BY FS_EmptySet
  <1>3. DOMAIN Ascending({}) = {}
    BY <1>2 DEF Ascending
  <1>4. PiecesAt(parts, {}) = [k \in {} |-> parts[Ascending({})[k]].piece]
    BY <1>1, <1>3 DEF PiecesAt, Joined
  <1>5. QED BY <1>4

-----------------------------------------------------------------------------
(* The events of a stream, and the state that emits them                   *)

Finishes == FinishReasons \cup {NoFinish}

StreamStates ==
  [started : BOOLEAN, textBlock : Int, textClosed : BOOLEAN,
   active : {"none", "text", "tool_use"}, blockOf : [ToolCalls -> Int],
   next : Nat, finish : Finishes, events : Seq(Event)]

\* The positions of the events of one type, and of the deltas of one block.
At(h, type) == {i \in DOMAIN h : h[i].type = type}
DeltasOf(h, b) == {i \in At(h, "content_block_delta") : h[i].index = b}

\* What the constructors make is an event.
LEMMA EventTypes ==
  /\ MessageStart \in Event /\ MessageStop \in Event /\ ErrorSent \in Event
  /\ \A f \in Finishes : MessageDelta(f) \in Event
  /\ \A b \in Int, k \in Kinds : BlockStart(b, k) \in Event
  /\ \A b \in Int : BlockStop(b) \in Event
  /\ \A b \in Int, k \in Kinds, p \in Nat : Delta(b, k, p) \in Event
  <1>1. MessageStart \in Event /\ MessageStop \in Event /\ ErrorSent \in Event
    BY DEF Event, MessageStart, MessageStop, ErrorSent
  <1>2. ASSUME NEW f \in Finishes PROVE MessageDelta(f) \in Event
    BY DEF Event, MessageDelta, MapStopReason
  <1>3. ASSUME NEW b \in Int, NEW k \in Kinds PROVE BlockStart(b, k) \in Event
    BY DEF Event, BlockStart
  <1>4. ASSUME NEW b \in Int PROVE BlockStop(b) \in Event
    BY DEF Event, BlockStop
  <1>5. ASSUME NEW b \in Int, NEW k \in Kinds, NEW p \in Nat PROVE Delta(b, k, p) \in Event
    BY DEF Event, Delta
  <1>6. QED BY <1>1, <1>2, <1>3, <1>4, <1>5

\* One more event.
LEMMA OneMore ==
  ASSUME NEW h \in Seq(Event), NEW e \in Event
  PROVE  /\ Append(h, e) \in Seq(Event) /\ Append(h, e) # <<>>
         /\ Len(h) \in Nat /\ Len(Append(h, e)) = Len(h) + 1
         /\ DOMAIN h = 1 .. Len(h) /\ DOMAIN Append(h, e) = 1 .. Len(h) + 1
         /\ \A i \in 1 .. Len(h) : Append(h, e)[i] = h[i]
         /\ Append(h, e)[Len(h) + 1] = e
         /\ \A type : At(Append(h, e), type)
                        = At(h, type) \cup (IF e.type = type THEN {Len(h) + 1} ELSE {})
         /\ \A type : At(h, type) \subseteq 1 .. Len(h)
  <1> DEFINE g == Append(h, e)
  <1>1. /\ g \in Seq(Event) /\ g # <<>> /\ Len(h) \in Nat /\ Len(g) = Len(h) + 1
        /\ \A i \in 1 .. Len(h) : g[i] = h[i]
        /\ g[Len(h) + 1] = e
    BY AppendProperties
  <1>2. DOMAIN h = 1 .. Len(h) /\ DOMAIN g = 1 .. Len(h) + 1
    BY <1>1, LenProperties
  <1> HIDE DEF g
  <1>3. ASSUME NEW type
        PROVE  At(g, type) = At(h, type) \cup (IF e.type = type THEN {Len(h) + 1} ELSE {})
    <2>1. \A i \in 1 .. Len(h) + 1 : i \in 1 .. Len(h) \/ i = Len(h) + 1
      BY <1>1
    <2>2. \A i \in 1 .. Len(h) : i \in 1 .. Len(h) + 1 /\ i # Len(h) + 1
      BY <1>1
    <2>3. Len(h) + 1 \in 1 .. Len(h) + 1
      BY <1>1
    <2>4. ASSUME NEW i PROVE i \in At(g, type) <=>
            i \in At(h, type) \/ (e.type = type /\ i = Len(h) + 1)
      BY <1>1, <1>2, <2>1, <2>2, <2>3 DEF At
    <2>5. QED BY <2>4
  <1>4. \A type : At(h, type) \subseteq 1 .. Len(h)
    BY <1>2 DEF At
  <1>5. QED BY <1>1, <1>2, <1>3, <1>4 DEF g

\* An element appended to what is joined is appended to the whole.
LEMMA ConcatAppend ==
  ASSUME NEW E, NEW u \in Seq(E), NEW v \in Seq(E), NEW e \in E
  PROVE  u \o Append(v, e) = Append(u \o v, e)
  <1>1. Append(v, e) = v \o <<e>> /\ <<e>> \in Seq(E) /\ u \o v \in Seq(E)
    BY AppendIsConcat, ConcatProperties
  <1>2. Append(u \o v, e) = (u \o v) \o <<e>>
    BY <1>1, AppendIsConcat
  <1>3. (u \o v) \o <<e>> = u \o (v \o <<e>>)
    BY <1>1, SMT
  <1>4. QED BY <1>1, <1>2, <1>3, Zenon

\* What the state machine has emitted, after the events h of earlier calls.
History(h, s) == h \o s.events

\* Emit appends to the history.
LEMMA EmitHistory ==
  ASSUME NEW h \in Seq(Event), NEW s \in StreamStates, NEW e \in Event
  PROVE  /\ Emit(s, e) \in StreamStates
         /\ History(h, Emit(s, e)) = Append(History(h, s), e)
         /\ History(h, s) \in Seq(Event)
         /\ Emit(s, e) = [s EXCEPT !.events = Append(s.events, e)]
  <1>1. s.events \in Seq(Event) /\ Append(s.events, e) \in Seq(Event)
    BY AppendProperties DEF StreamStates
  <1>2. Emit(s, e) = [s EXCEPT !.events = Append(s.events, e)]
    BY DEF Emit
  <1>3. Emit(s, e) \in StreamStates /\ Emit(s, e).events = Append(s.events, e)
    BY <1>1, <1>2 DEF StreamStates
  <1>4. h \o Append(s.events, e) = Append(h \o s.events, e)
    BY <1>1, ConcatAppend
  <1>5. h \o s.events \in Seq(Event)
    BY <1>1, ConcatProperties
  <1>6. QED BY <1>2, <1>3, <1>4, <1>5 DEF History

-----------------------------------------------------------------------------
(* The invariant of an open stream, over the events h it has emitted       *)

\* Blocks are numbered once each.
Numbering(s) ==
  /\ s.textBlock = None \/ s.textBlock \in 0 .. s.next - 1
  /\ \A t \in ToolCalls : s.blockOf[t] = None \/ s.blockOf[t] \in 0 .. s.next - 1
  /\ \A t \in ToolCalls : s.blockOf[t] # None => s.blockOf[t] # s.textBlock
  /\ \A t, u \in ToolCalls : s.blockOf[t] # None /\ s.blockOf[t] = s.blockOf[u] => t = u
  /\ \A b \in 0 .. s.next - 1 : b = s.textBlock \/ \E t \in ToolCalls : s.blockOf[t] = b

\* The message starts first and has not ended.
Begun(h, s) ==
  /\ s.started <=> h # <<>>
  /\ ~ s.started => s.next = 0
  /\ \A i \in DOMAIN h : h[i].type = "message_start" <=> i = 1
  /\ At(h, "message_delta") = {} /\ At(h, "message_stop") = {}

\* Every block was started once, in the order of the numbers.
Started(h, s) ==
  /\ \A i \in At(h, "content_block_start") :
       /\ h[i].index \in 0 .. s.next - 1
       /\ h[i].kind = IF h[i].index = s.textBlock THEN "text" ELSE "tool_use"
  /\ \A i, j \in At(h, "content_block_start") : i < j => h[i].index < h[j].index
  /\ \A b \in 0 .. s.next - 1 : \E i \in At(h, "content_block_start") : h[i].index = b

\* Only the text block has been stopped, once, after its start.
Stopped(h, s) ==
  /\ \A i \in At(h, "content_block_stop") : s.textClosed /\ h[i].index = s.textBlock
  /\ s.textClosed => s.textBlock # None /\ At(h, "content_block_stop") # {}
  /\ \A i, j \in At(h, "content_block_stop") : i = j
  /\ \A i \in At(h, "content_block_stop") :
       \E j \in At(h, "content_block_start") : j < i /\ h[j].index = h[i].index

\* DeltasInBlocks, of any sequence of events.
Fed(h) ==
  \A i \in At(h, "content_block_delta") :
    /\ \E j \in At(h, "content_block_start") :
         j < i /\ h[j].index = h[i].index /\ h[j].kind = h[i].kind
    /\ \A k \in At(h, "content_block_stop") :
         h[k].index = h[i].index /\ k < i =>
           /\ h[i].kind = "text"
           /\ \E j \in At(h, "content_block_start") : j < i /\ h[j].kind = "tool_use"

\* A text block is closed by the first tool call that follows.
Settled(h, s) ==
  /\ s.textBlock # None => s.active = IF s.textClosed THEN "tool_use" ELSE "text"
  /\ s.textClosed => \E j \in At(h, "content_block_start") : h[j].kind = "tool_use"

Flow(h, s) ==
  /\ Numbering(s) /\ Begun(h, s) /\ Started(h, s) /\ Stopped(h, s) /\ Fed(h)

\* Event e is not one that Fed speaks of: what it says is unchanged.
LEMMA FedKept ==
  ASSUME NEW h \in Seq(Event), NEW e \in Event, Fed(h), e.type # "content_block_delta"
  PROVE  Fed(Append(h, e))
  <1> DEFINE g == Append(h, e)
             l == Len(h)
  <1>1. /\ l \in Nat /\ g[l + 1] = e
        /\ \A i \in 1 .. l : g[i] = h[i]
        /\ At(g, "content_block_delta") = At(h, "content_block_delta")
        /\ At(h, "content_block_start") \subseteq At(g, "content_block_start")
        /\ At(g, "content_block_stop") \subseteq At(h, "content_block_stop") \cup {l + 1}
        /\ At(h, "content_block_delta") \subseteq 1 .. l
        /\ At(h, "content_block_start") \subseteq 1 .. l
        /\ At(h, "content_block_stop") \subseteq 1 .. l
    <2>1. \A type : At(g, type) = At(h, type) \cup (IF e.type = type THEN {l + 1} ELSE {})
      BY OneMore
    <2>2. \A type : At(h, type) \subseteq 1 .. l
      BY OneMore
    <2>3. l \in Nat /\ g[l + 1] = e /\ \A i \in 1 .. l : g[i] = h[i]
      BY OneMore
    <2> HIDE DEF g, l
    <2>4. At(g, "content_block_delta") = At(h, "content_block_delta")
      BY <2>1
    <2>5. QED BY <2>1, <2>2, <2>3, <2>4
  <1> HIDE DEF g, l
  <1>2. ASSUME NEW i \in At(h, "content_block_delta")
        PROVE  /\ \E j \in At(g, "content_block_start") :
                    j < i /\ g[j].index = g[i].index /\ g[j].kind = g[i].kind
               /\ \A k \in At(g, "content_block_stop") :
                    g[k].index = g[i].index /\ k < i =>
                      /\ g[i].kind = "text"
                      /\ \E j \in At(g, "content_block_start") : j < i /\ g[j].kind = "tool_use"
    <2>1. i \in 1 .. l /\ g[i] = h[i]
      BY <1>1
    <2>2. \E j \in At(g, "content_block_start") :
            j < i /\ g[j].index = g[i].index /\ g[j].kind = g[i].kind
      <3>1. PICK j \in At(h, "content_block_start") :
              j < i /\ h[j].index = h[i].index /\ h[j].kind = h[i].kind
        BY DEF Fed
      <3>2. j \in At(g, "content_block_start") /\ g[j] = h[j]
        BY <1>1
      <3>3. QED BY <2>1, <3>1, <3>2
    <2>3. ASSUME NEW k \in At(g, "content_block_stop"), g[k].index = g[i].index, k < i
          PROVE  /\ g[i].kind = "text"
                 /\ \E j \in At(g, "content_block_start") : j < i /\ g[j].kind = "tool_use"
      <3>1. k \in At(h, "content_block_stop") /\ g[k] = h[k]
        BY <1>1, <2>1, <2>3
      <3>2. /\ h[i].kind = "text"
            /\ \E j \in At(h, "content_block_start") : j < i /\ h[j].kind = "tool_use"
        BY <2>1, <2>3, <3>1 DEF Fed
      <3>3. PICK j \in At(h, "content_block_start") : j < i /\ h[j].kind = "tool_use"
        BY <3>2
      <3>4. j \in At(g, "content_block_start") /\ g[j] = h[j]
        BY <1>1
      <3>5. QED BY <2>1, <3>2, <3>3, <3>4
    <2>4. QED BY <2>2, <2>3
  <1>3. Fed(g)
    BY <1>1, <1>2 DEF Fed
  <1>4. QED BY <1>3 DEF g

\* message_start.
LEMMA FlowBegins ==
  ASSUME NEW h \in Seq(Event), NEW s \in StreamStates, NEW z \in StreamStates,
         Flow(h, s), Settled(h, s), ~ s.started,
         z = [s EXCEPT !.started = TRUE, !.events = z.events]
  PROVE  Flow(Append(h, MessageStart), z) /\ Settled(Append(h, MessageStart), z)
  <1> DEFINE g == Append(h, MessageStart)
  <1>1. h = <<>> /\ s.next = 0
    BY DEF Flow, Begun
  <1>2. MessageStart \in Event /\ MessageStart.type = "message_start"
    BY EventTypes DEF MessageStart
  <1>3. /\ z.started /\ z.textBlock = s.textBlock /\ z.textClosed = s.textClosed
        /\ z.active = s.active /\ z.blockOf = s.blockOf /\ z.next = s.next
    BY DEF StreamStates
  <1>4. /\ Len(h) = 0 /\ g # <<>> /\ DOMAIN g = {1} /\ g[1] = MessageStart
    BY <1>1, <1>2, OneMore
  <1>5. \A type : At(h, type) = {}
    BY <1>1 DEF At
  <1>6. \A type : type # "message_start" => At(g, type) = {}
    BY <1>2, <1>4 DEF At
  <1> HIDE DEF g
  <1>7. Numbering(z)
    BY <1>3 DEF Flow, Numbering
  <1>8. Begun(g, z)
    BY <1>2, <1>3, <1>4, <1>6 DEF Begun
  <1>9. Started(g, z)
    <2>1. 0 .. z.next - 1 = {}
      BY <1>1, <1>3
    <2>2. QED BY <1>6, <2>1 DEF Started
  <1>10. ~ s.textClosed
    BY <1>5 DEF Flow, Stopped
  <1>11. Stopped(g, z)
    BY <1>3, <1>6, <1>10 DEF Stopped
  <1>12. Fed(g)
    BY <1>6 DEF Fed
  <1>13. Settled(g, z)
    BY <1>3, <1>10 DEF Settled
  <1>14. QED BY <1>7, <1>8, <1>9, <1>11, <1>12, <1>13 DEF Flow, g

\* Where an event leaves things: the positions by type, for the three types
\* of block events.
LEMMA OneMoreAt ==
  ASSUME NEW h \in Seq(Event), NEW e \in Event
  PROVE  /\ Len(h) \in Nat /\ Append(h, e) \in Seq(Event) /\ Append(h, e) # <<>>
         /\ Append(h, e)[Len(h) + 1] = e
         /\ DOMAIN h = 1 .. Len(h) /\ DOMAIN Append(h, e) = 1 .. Len(h) + 1
         /\ \A i \in 1 .. Len(h) : Append(h, e)[i] = h[i]
         /\ \A type : At(h, type) \subseteq 1 .. Len(h)
         /\ \A type : e.type = type => At(Append(h, e), type) = At(h, type) \cup {Len(h) + 1}
         /\ \A type : e.type # type => At(Append(h, e), type) = At(h, type)
  <1> DEFINE g == Append(h, e)
             l == Len(h)
  <1>1. /\ l \in Nat /\ g \in Seq(Event) /\ g # <<>> /\ g[l + 1] = e
        /\ DOMAIN h = 1 .. l /\ DOMAIN g = 1 .. l + 1
        /\ \A i \in 1 .. l : g[i] = h[i]
        /\ \A type : At(h, type) \subseteq 1 .. l
    BY OneMore
  <1>2. \A type : At(g, type) = At(h, type) \cup (IF e.type = type THEN {l + 1} ELSE {})
    BY OneMore
  <1> HIDE DEF g, l
  <1>3. ASSUME NEW type
        PROVE  /\ e.type = type => At(g, type) = At(h, type) \cup {l + 1}
               /\ e.type # type => At(g, type) = At(h, type)
    BY <1>2
  <1>4. QED BY <1>1, <1>3 DEF g, l

\* The message goes on with an event that neither starts nor ends it.
LEMMA BegunKept ==
  ASSUME NEW h \in Seq(Event), NEW e \in Event, NEW s \in StreamStates, NEW z \in StreamStates,
         Begun(h, s), s.started, z.started,
         e.type \notin {"message_start", "message_delta", "message_stop"}
  PROVE  Begun(Append(h, e), z)
  <1> DEFINE g == Append(h, e)
             l == Len(h)
  <1>1. /\ l \in Nat /\ g # <<>> /\ g[l + 1] = e
        /\ DOMAIN h = 1 .. l /\ DOMAIN g = 1 .. l + 1
        /\ \A i \in 1 .. l : g[i] = h[i]
        /\ \A type : e.type # type => At(g, type) = At(h, type)
    BY OneMoreAt
  <1> HIDE DEF g, l
  <1>2. At(g, "message_delta") = {} /\ At(g, "message_stop") = {}
    BY <1>1 DEF Begun
  <1>3. l # 0
    <2>1. h # <<>>
      BY DEF Begun
    <2>2. QED BY <2>1, <1>1 DEF l
  <1>4. ASSUME NEW i \in DOMAIN g PROVE g[i].type = "message_start" <=> i = 1
    <2>1. CASE i \in 1 .. l
      BY <2>1, <1>1 DEF Begun
    <2>2. CASE i = l + 1
      BY <2>2, <1>1, <1>3
    <2>3. QED BY <2>1, <2>2, <1>1
  <1>5. Begun(g, z)
    BY <1>1, <1>2, <1>4 DEF Begun
  <1>6. QED BY <1>5 DEF g

\* A block starts with the next number.
LEMMA StartedGrows ==
  ASSUME NEW h \in Seq(Event), NEW s \in StreamStates, NEW z \in StreamStates, NEW kind \in Kinds,
         Started(h, s), z.next = s.next + 1,
         \A b \in 0 .. s.next - 1 : b = z.textBlock <=> b = s.textBlock,
         kind = IF s.next = z.textBlock THEN "text" ELSE "tool_use"
  PROVE  Started(Append(h, BlockStart(s.next, kind)), z)
  <1> DEFINE e == BlockStart(s.next, kind)
             g == Append(h, e)
             l == Len(h)
             old == At(h, "content_block_start")
  <1>1. /\ e \in Event /\ e.type = "content_block_start" /\ e.index = s.next /\ e.kind = kind
        /\ s.next \in Nat
    BY EventTypes DEF BlockStart, StreamStates
  <1>2. /\ l \in Nat /\ g[l + 1] = e /\ old \subseteq 1 .. l
        /\ \A i \in 1 .. l : g[i] = h[i]
        /\ At(g, "content_block_start") = old \cup {l + 1}
    <2>1. /\ l \in Nat /\ g[l + 1] = e /\ \A i \in 1 .. l : g[i] = h[i]
          /\ \A type : At(h, type) \subseteq 1 .. l
          /\ \A type : e.type = type => At(g, type) = At(h, type) \cup {l + 1}
          /\ \A type : e.type # type => At(g, type) = At(h, type)
      BY <1>1, OneMoreAt
    <2> HIDE DEF g, l, e
    <2>2. QED BY <1>1, <2>1
  <1>3. \A i \in old : /\ h[i].index \in 0 .. s.next - 1 /\ i \in 1 .. l /\ g[i] = h[i]
                       /\ h[i].kind = IF h[i].index = s.textBlock THEN "text" ELSE "tool_use"
    BY <1>2 DEF Started
  <1> HIDE DEF g, l, old, e
  <1>4. ASSUME NEW i \in old \cup {l + 1}
        PROVE  /\ g[i].index \in 0 .. z.next - 1
               /\ g[i].kind = IF g[i].index = z.textBlock THEN "text" ELSE "tool_use"
    <2>1. CASE i \in old
      BY <2>1, <1>1, <1>3
    <2>2. CASE i = l + 1
      BY <2>2, <1>1, <1>2
    <2>3. QED BY <2>1, <2>2
  <1>5. ASSUME NEW i \in old \cup {l + 1}, NEW j \in old \cup {l + 1}, i < j
        PROVE  g[i].index < g[j].index
    <2>1. CASE i \in old /\ j \in old
      BY <2>1, <1>3, <1>5 DEF Started, old
    <2>2. CASE i \in old /\ j = l + 1
      BY <2>2, <1>1, <1>2, <1>3
    <2>3. CASE i = l + 1
      BY <2>3, <1>2, <1>3, <1>5
    <2>4. QED BY <2>1, <2>2, <2>3
  <1>6. ASSUME NEW b \in 0 .. z.next - 1 PROVE \E i \in old \cup {l + 1} : g[i].index = b
    <2>1. CASE b = s.next
      BY <2>1, <1>1, <1>2
    <2>2. CASE b # s.next
      <3>1. b \in 0 .. s.next - 1
        BY <2>2, <1>1
      <3>2. PICK i \in old : h[i].index = b
        BY <3>1 DEF Started, old
      <3>3. QED BY <3>2, <1>3
    <2>3. QED BY <2>1, <2>2
  <1>7. Started(g, z)
    BY <1>2, <1>4, <1>5, <1>6 DEF Started
  <1>8. QED BY <1>7 DEF g, e

\* An event that is no start leaves the blocks as they are.
LEMMA StartedKept ==
  ASSUME NEW h \in Seq(Event), NEW e \in Event, NEW s \in StreamStates, NEW z \in StreamStates,
         Started(h, s), z.next = s.next, z.textBlock = s.textBlock,
         e.type # "content_block_start"
  PROVE  Started(Append(h, e), z)
  <1> DEFINE g == Append(h, e)
             l == Len(h)
             old == At(h, "content_block_start")
  <1>1. /\ old \subseteq 1 .. l
        /\ \A i \in 1 .. l : g[i] = h[i]
        /\ At(g, "content_block_start") = old
    BY OneMoreAt
  <1>2. \A i \in old : g[i] = h[i]
    BY <1>1
  <1> HIDE DEF g
  <1>3. Started(g, z)
    BY <1>1, <1>2 DEF Started
  <1>4. QED BY <1>3 DEF g

\* An event that is no stop leaves the stopped blocks as they are.
LEMMA StoppedKept ==
  ASSUME NEW h \in Seq(Event), NEW e \in Event, NEW s \in StreamStates, NEW z \in StreamStates,
         Stopped(h, s), z.textClosed = s.textClosed,
         z.textBlock = s.textBlock \/ ~ s.textClosed,
         e.type # "content_block_stop"
  PROVE  Stopped(Append(h, e), z)
  <1> DEFINE g == Append(h, e)
             l == Len(h)
             old == At(h, "content_block_stop")
  <1>1. /\ old \subseteq 1 .. l
        /\ \A i \in 1 .. l : g[i] = h[i]
        /\ At(g, "content_block_stop") = old
        /\ At(h, "content_block_start") \subseteq At(g, "content_block_start")
        /\ At(h, "content_block_start") \subseteq 1 .. l
    <2>1. /\ \A i \in 1 .. l : g[i] = h[i]
          /\ \A type : At(h, type) \subseteq 1 .. l
          /\ \A type : e.type = type => At(g, type) = At(h, type) \cup {l + 1}
          /\ \A type : e.type # type => At(g, type) = At(h, type)
      BY OneMoreAt
    <2> HIDE DEF g, l
    <2>2. QED BY <2>1
  <1>2. /\ \A i \in old : g[i] = h[i]
        /\ \A i \in At(h, "content_block_start") : g[i] = h[i]
    BY <1>1
  <1> HIDE DEF g, l
  <1>3. Stopped(g, z)
    <2>1. ASSUME NEW i \in old
          PROVE  \E j \in At(g, "content_block_start") : j < i /\ g[j].index = g[i].index
      <3>1. PICK j \in At(h, "content_block_start") : j < i /\ h[j].index = h[i].index
        BY DEF Stopped
      <3>2. QED BY <1>1, <1>2, <3>1
    <2>2. QED BY <1>1, <1>2, <2>1 DEF Stopped
  <1>4. QED BY <1>3 DEF g

\* The text block opens.
LEMMA FlowOpensText ==
  ASSUME NEW h \in Seq(Event), NEW s \in StreamStates, NEW z \in StreamStates,
         Flow(h, s), s.started, s.textBlock = None,
         z.started, z.textBlock = s.next, z.textClosed = s.textClosed, z.active = "text",
         z.blockOf = s.blockOf, z.next = s.next + 1
  PROVE  Flow(Append(h, BlockStart(s.next, "text")), z)
         /\ Settled(Append(h, BlockStart(s.next, "text")), z)
  <1> DEFINE e == BlockStart(s.next, "text")
             g == Append(h, e)
  <1>1. e \in Event /\ e.type = "content_block_start" /\ s.next \in Nat /\ "text" \in Kinds
    BY EventTypes DEF BlockStart, StreamStates, Kinds
  <1>2. ~ s.textClosed
    BY DEF Flow, Stopped
  <1>3. Numbering(z)
    <2>1. Numbering(s)
      BY DEF Flow
    <2>2. \A t \in ToolCalls : z.blockOf[t] = None \/ z.blockOf[t] \in 0 .. s.next - 1
      BY <2>1 DEF Numbering
    <2>3. \A b \in 0 .. z.next - 1 : b = s.next \/ b \in 0 .. s.next - 1
      BY <1>1
    <2>4. \A b \in 0 .. s.next - 1 : \E t \in ToolCalls : z.blockOf[t] = b
      BY <2>1, <1>1 DEF Numbering, None
    <2>5. QED BY <2>1, <2>2, <2>3, <2>4, <1>1 DEF Numbering, None
  <1>4. Begun(g, z)
    <2>1. Begun(h, s)
      BY DEF Flow
    <2>2. QED BY <2>1, <1>1, BegunKept
  <1>5. Started(g, z)
    <2>1. Started(h, s)
      BY DEF Flow
    <2>2. \A b \in 0 .. s.next - 1 : b = z.textBlock <=> b = s.textBlock
      BY <1>1 DEF None
    <2>3. QED BY <2>1, <2>2, <1>1, StartedGrows
  <1>6. Stopped(g, z)
    <2>1. Stopped(h, s)
      BY DEF Flow
    <2>2. QED BY <2>1, <1>1, <1>2, StoppedKept
  <1>7. Fed(g)
    BY <1>1, FedKept DEF Flow
  <1>8. Settled(g, z)
    BY <1>2 DEF Settled
  <1>9. QED BY <1>3, <1>4, <1>5, <1>6, <1>7, <1>8 DEF Flow

\* A delta goes to a block that was started.
LEMMA FlowDelta ==
  ASSUME NEW h \in Seq(Event), NEW s \in StreamStates, NEW z \in StreamStates,
         NEW b \in 0 .. s.next - 1, NEW kind, NEW p \in Nat,
         Flow(h, s), Settled(h, s), s.started,
         kind = IF b = s.textBlock THEN "text" ELSE "tool_use",
         z.started, z.textBlock = s.textBlock, z.textClosed = s.textClosed,
         z.active = s.active, z.blockOf = s.blockOf, z.next = s.next
  PROVE  Flow(Append(h, Delta(b, kind, p)), z) /\ Settled(Append(h, Delta(b, kind, p)), z)
  <1> DEFINE e == Delta(b, kind, p)
             g == Append(h, e)
             l == Len(h)
  <1>1. /\ e \in Event /\ e.type = "content_block_delta"
        /\ e.index = b /\ e.kind = kind
    BY EventTypes DEF Delta, Kinds
  <1>2. /\ l \in Nat /\ g[l + 1] = e
        /\ \A i \in 1 .. l : g[i] = h[i]
        /\ \A type : At(h, type) \subseteq 1 .. l
        /\ At(g, "content_block_delta") = At(h, "content_block_delta") \cup {l + 1}
        /\ At(g, "content_block_start") = At(h, "content_block_start")
        /\ At(g, "content_block_stop") = At(h, "content_block_stop")
    <2>1. /\ l \in Nat /\ g[l + 1] = e /\ \A i \in 1 .. l : g[i] = h[i]
          /\ \A type : At(h, type) \subseteq 1 .. l
          /\ \A type : e.type = type => At(g, type) = At(h, type) \cup {l + 1}
          /\ \A type : e.type # type => At(g, type) = At(h, type)
      BY <1>1, OneMoreAt
    <2> HIDE DEF g, l, e
    <2>2. QED BY <1>1, <2>1
  <1>3. Numbering(z) /\ Begun(g, z) /\ Started(g, z) /\ Stopped(g, z)
    <2>1. Numbering(s) /\ Begun(h, s) /\ Started(h, s) /\ Stopped(h, s)
      BY DEF Flow
    <2>2. Numbering(z)
      BY <2>1 DEF Numbering
    <2>3. QED BY <1>1, <2>1, <2>2, BegunKept, StartedKept, StoppedKept
  <1> HIDE DEF g, l, e
  <1>4. \A type : \A i \in At(h, type) : i \in 1 .. l /\ g[i] = h[i]
    BY <1>2
  <1>5. Settled(g, z)
    BY <1>2, <1>4 DEF Settled
  <1>6. ASSUME NEW i \in At(h, "content_block_delta")
        PROVE  /\ \E j \in At(g, "content_block_start") :
                    j < i /\ g[j].index = g[i].index /\ g[j].kind = g[i].kind
               /\ \A k \in At(g, "content_block_stop") :
                    g[k].index = g[i].index /\ k < i =>
                      /\ g[i].kind = "text"
                      /\ \E j \in At(g, "content_block_start") : j < i /\ g[j].kind = "tool_use"
    BY <1>2, <1>4 DEF Fed, Flow
  <1>7. \E j \in At(g, "content_block_start") :
          j < l + 1 /\ g[j].index = g[l + 1].index /\ g[j].kind = g[l + 1].kind
    <2>1. PICK j \in At(h, "content_block_start") : h[j].index = b
      BY DEF Flow, Started
    <2>2. h[j].kind = kind
      BY <2>1 DEF Flow, Started
    <2>3. j < l + 1
      BY <1>2, <1>4
    <2>4. QED BY <1>1, <1>2, <1>4, <2>1, <2>2, <2>3
  <1>8. ASSUME NEW k \in At(g, "content_block_stop"), g[k].index = g[l + 1].index
        PROVE  /\ g[l + 1].kind = "text"
               /\ \E j \in At(g, "content_block_start") : j < l + 1 /\ g[j].kind = "tool_use"
    <2>1. k \in At(h, "content_block_stop") /\ h[k].index = b
      BY <1>1, <1>2, <1>4, <1>8
    <2>2. s.textClosed /\ b = s.textBlock
      BY <2>1 DEF Flow, Stopped
    <2>3. PICK j \in At(h, "content_block_start") : h[j].kind = "tool_use"
      BY <2>2 DEF Settled
    <2>4. j < l + 1 /\ g[j].kind = "tool_use" /\ j \in At(g, "content_block_start")
      BY <1>2, <1>4, <2>3
    <2>5. QED BY <1>1, <1>2, <2>2, <2>4
  <1>9. Fed(g)
    BY <1>2, <1>6, <1>7, <1>8 DEF Fed
  <1>10. QED BY <1>3, <1>5, <1>9 DEF Flow, g, e

\* The text block closes before a tool call.
LEMMA FlowClosesText ==
  ASSUME NEW h \in Seq(Event), NEW s \in StreamStates, NEW z \in StreamStates,
         Flow(h, s), s.started, s.textBlock # None, ~ s.textClosed,
         z.started, z.textBlock = s.textBlock, z.textClosed,
         z.blockOf = s.blockOf, z.next = s.next
  PROVE  Flow(Append(h, BlockStop(s.textBlock)), z)
  <1> DEFINE e == BlockStop(s.textBlock)
             g == Append(h, e)
             l == Len(h)
  <1>1. e \in Event /\ e.type = "content_block_stop" /\ e.index = s.textBlock
    BY EventTypes DEF BlockStop, StreamStates
  <1>2. At(h, "content_block_stop") = {}
    BY DEF Flow, Stopped
  <1>3. g[l + 1] = e /\ At(g, "content_block_stop") = {l + 1}
    <2>1. /\ l \in Nat /\ g[l + 1] = e /\ \A i \in 1 .. l : g[i] = h[i]
          /\ \A type : At(h, type) \subseteq 1 .. l
          /\ \A type : e.type = type => At(g, type) = At(h, type) \cup {l + 1}
          /\ \A type : e.type # type => At(g, type) = At(h, type)
      BY <1>1, OneMoreAt
    <2> HIDE DEF g, l, e
    <2>2. QED BY <1>1, <1>2, <2>1
  <1>4. \E j \in At(g, "content_block_start") : j < l + 1 /\ g[j].index = s.textBlock
    <2>1. PICK j \in At(h, "content_block_start") : h[j].index = s.textBlock
      BY DEF Flow, Started, Numbering
    <2>2. /\ l \in Nat /\ \A i \in 1 .. l : g[i] = h[i]
          /\ \A type : At(h, type) \subseteq 1 .. l
          /\ \A type : e.type # type => At(g, type) = At(h, type)
      BY <1>1, OneMoreAt
    <2> HIDE DEF g, l, e
    <2>3. j \in 1 .. l /\ j \in At(g, "content_block_start")
      BY <1>1, <2>2
    <2>4. QED BY <2>1, <2>2, <2>3
  <1>5. Numbering(z) /\ Begun(g, z) /\ Started(g, z) /\ Fed(g)
    <2>1. Numbering(s) /\ Begun(h, s) /\ Started(h, s) /\ Fed(h)
      BY DEF Flow
    <2>2. Numbering(z)
      BY <2>1 DEF Numbering
    <2>3. QED BY <1>1, <2>1, <2>2, BegunKept, StartedKept, FedKept
  <1>6. Stopped(g, z)
    <2> HIDE DEF g, e, l
    <2>1. QED BY <1>1, <1>3, <1>4 DEF Stopped
  <1>7. QED BY <1>5, <1>6 DEF Flow

\* A tool block opens, the text block being closed if there is one.
LEMMA FlowOpensTool ==
  ASSUME NEW h \in Seq(Event), NEW s \in StreamStates, NEW z \in StreamStates,
         NEW t \in ToolCalls,
         Flow(h, s), s.started, s.blockOf[t] = None, s.textBlock # None => s.textClosed,
         z.started, z.textBlock = s.textBlock, z.textClosed = s.textClosed,
         z.active = "tool_use", z.blockOf = [s.blockOf EXCEPT ![t] = s.next],
         z.next = s.next + 1
  PROVE  Flow(Append(h, BlockStart(s.next, "tool_use")), z)
         /\ Settled(Append(h, BlockStart(s.next, "tool_use")), z)
  <1> DEFINE e == BlockStart(s.next, "tool_use")
             g == Append(h, e)
             l == Len(h)
  <1>1. /\ e \in Event /\ e.type = "content_block_start" /\ e.kind = "tool_use"
        /\ s.next \in Nat /\ "tool_use" \in Kinds /\ s.blockOf \in [ToolCalls -> Int]
    BY EventTypes DEF BlockStart, StreamStates, Kinds
  <1>2. Numbering(s) /\ s.textBlock # s.next
    BY <1>1 DEF Flow, Numbering, None
  <1>3. Numbering(z)
    <2>1. z.blockOf[t] = s.next /\ \A u \in ToolCalls \ {t} : z.blockOf[u] = s.blockOf[u]
      BY <1>1
    <2>2. \A u \in ToolCalls : s.blockOf[u] = None \/ s.blockOf[u] \in 0 .. s.next - 1
      BY <1>2 DEF Numbering
    <2>3. \A u \in ToolCalls : z.blockOf[u] = None \/ z.blockOf[u] \in 0 .. z.next - 1
      BY <1>1, <2>1, <2>2
    <2>4. \A u \in ToolCalls : z.blockOf[u] # None => z.blockOf[u] # z.textBlock
      BY <1>1, <1>2, <2>1 DEF Numbering
    <2>5. \A u, v \in ToolCalls :
            z.blockOf[u] # None /\ z.blockOf[u] = z.blockOf[v] => u = v
      <3>1. \A u \in ToolCalls : s.blockOf[u] # s.next
        BY <1>1, <2>2 DEF None
      <3>2. \A u, v \in ToolCalls :
              s.blockOf[u] # None /\ s.blockOf[u] = s.blockOf[v] => u = v
        BY <1>2 DEF Numbering
      <3>3. QED BY <2>1, <3>1, <3>2
    <2>6. ASSUME NEW b \in 0 .. z.next - 1
          PROVE  b = z.textBlock \/ \E u \in ToolCalls : z.blockOf[u] = b
      <3>1. CASE b = s.next
        BY <3>1, <2>1
      <3>2. CASE b # s.next
        <4>1. b \in 0 .. s.next - 1
          BY <3>2, <1>1
        <4>2. b = s.textBlock \/ \E u \in ToolCalls : s.blockOf[u] = b
          BY <4>1, <1>2 DEF Numbering
        <4>3. \A u \in ToolCalls : s.blockOf[u] = b => u # t
          BY <4>1 DEF None
        <4>4. QED BY <4>2, <4>3, <2>1
      <3>3. QED BY <3>1, <3>2
    <2>7. z.textBlock = None \/ z.textBlock \in 0 .. z.next - 1
      BY <1>1, <1>2 DEF Numbering
    <2>8. QED BY <2>3, <2>4, <2>5, <2>6, <2>7 DEF Numbering
  <1>4. Begun(g, z)
    <2>1. Begun(h, s)
      BY DEF Flow
    <2>2. QED BY <2>1, <1>1, BegunKept
  <1>5. Started(g, z)
    <2>1. Started(h, s)
      BY DEF Flow
    <2>2. \A b \in 0 .. s.next - 1 : b = z.textBlock <=> b = s.textBlock
      OBVIOUS
    <2>3. QED BY <2>1, <2>2, <1>1, <1>2, StartedGrows
  <1>6. Stopped(g, z)
    <2>1. Stopped(h, s)
      BY DEF Flow
    <2>2. QED BY <2>1, <1>1, StoppedKept
  <1>7. Fed(g)
    BY <1>1, FedKept DEF Flow
  <1>8. Settled(g, z)
    <2>1. /\ l \in Nat /\ g[l + 1] = e
          /\ \A type : e.type = type => At(g, type) = At(h, type) \cup {l + 1}
      BY <1>1, OneMoreAt
    <2> HIDE DEF g, l, e
    <2>2. l + 1 \in At(g, "content_block_start") /\ g[l + 1].kind = "tool_use"
      BY <1>1, <2>1
    <2>3. QED BY <2>2 DEF Settled
  <1>9. QED BY <1>3, <1>4, <1>5, <1>6, <1>7, <1>8 DEF Flow

-----------------------------------------------------------------------------
(* What the client has of each block                                       *)

Assembly(h, b) == PiecesAt(h, DeltasOf(h, b))

\* An event that is no delta adds nothing to a block.
LEMMA AssemblyKept ==
  ASSUME NEW h \in Seq(Event), NEW e \in Event, e.type # "content_block_delta", NEW b
  PROVE  Assembly(Append(h, e), b) = Assembly(h, b)
  <1> DEFINE g == Append(h, e)
             l == Len(h)
             D == DeltasOf(h, b)
  <1>1. /\ At(g, "content_block_delta") = At(h, "content_block_delta")
        /\ At(h, "content_block_delta") \subseteq 1 .. l
        /\ \A i \in 1 .. l : g[i] = h[i]
    BY OneMoreAt
  <1>2. D \in SUBSET (1 .. l)
    BY <1>1 DEF DeltasOf
  <1> HIDE DEF g
  <1>3. DeltasOf(g, b) = D
    BY <1>1 DEF DeltasOf
  <1>4. \A i \in D : g[i] = h[i]
    BY <1>1, <1>2
  <1> HIDE DEF D
  <1>5. PiecesAt(g, D) = PiecesAt(h, D)
    BY <1>2, <1>4, PiecesKept
  <1>6. QED BY <1>3, <1>5 DEF Assembly, g, D

\* A delta adds its piece to its block and to no other.
LEMMA AssemblyGrows ==
  ASSUME NEW h \in Seq(Event), NEW b \in Int, NEW kind \in Kinds, NEW p \in Nat, NEW c
  PROVE  Assembly(Append(h, Delta(b, kind, p)), c)
           = IF c = b /\ p # 0 THEN Append(Assembly(h, c), p) ELSE Assembly(h, c)
  <1> DEFINE e == Delta(b, kind, p)
             g == Append(h, e)
             l == Len(h)
             D == DeltasOf(h, c)
             F == DeltasOf(g, c)
  <1>1. e \in Event /\ e.type = "content_block_delta" /\ e.index = b /\ e.piece = p
    BY EventTypes DEF Delta
  <1>2. /\ At(h, "content_block_delta") \subseteq 1 .. l /\ l \in Nat
        /\ At(g, "content_block_delta") = At(h, "content_block_delta") \cup {l + 1}
        /\ \A i \in 1 .. l : g[i] = h[i]
        /\ g[l + 1] = e
    <2>1. /\ l \in Nat /\ g[l + 1] = e /\ \A i \in 1 .. l : g[i] = h[i]
          /\ \A type : At(h, type) \subseteq 1 .. l
          /\ \A type : e.type = type => At(g, type) = At(h, type) \cup {l + 1}
      BY <1>1, OneMoreAt
    <2> HIDE DEF g, l, e
    <2>2. QED BY <1>1, <2>1
  <1>3. D \in SUBSET (1 .. l)
    BY <1>2 DEF DeltasOf
  <1>4. F = IF c = b THEN D \cup {l + 1} ELSE D
    <2> HIDE DEF g, l, e
    <2>1. \A i \in At(h, "content_block_delta") : g[i] = h[i]
      BY <1>2
    <2>2. QED BY <1>1, <1>2, <2>1 DEF DeltasOf
  <1>5. \A i \in D : g[i] = h[i]
    BY <1>2, <1>3
  <1>6. CASE c # b
    <2>1. PiecesAt(g, D) = PiecesAt(h, D)
      <3> HIDE DEF D, g
      <3>1. QED BY <1>3, <1>5, PiecesKept
    <2>2. QED BY <1>4, <1>6, <2>1 DEF Assembly
  <1>7. CASE c = b
    <2>1. /\ e \in Event /\ D \in SUBSET (1 .. Len(h))
          /\ \A i : i \in F <=> i \in D \/ i = Len(h) + 1
      BY <1>1, <1>3, <1>4, <1>7
    <2> HIDE DEF D, F, e
    <2>2. PiecesAt(g, F) = IF e.piece = 0 THEN PiecesAt(h, D) ELSE Append(PiecesAt(h, D), e.piece)
      <3>1. CASE e.piece = 0
        BY <2>1, <3>1, PiecesGrow
      <3>2. CASE e.piece # 0
        BY <2>1, <3>2, PiecesGrow
      <3>3. QED BY <3>1, <3>2
    <2>3. QED BY <2>2, <1>1, <1>7 DEF Assembly, D, F, e
  <1>8. QED BY <1>6, <1>7

\* A block that was not started has nothing.
LEMMA AssemblyEmpty ==
  ASSUME NEW h \in Seq(Event), NEW s \in StreamStates, Started(h, s), Fed(h),
         NEW b, b \notin 0 .. s.next - 1
  PROVE  Assembly(h, b) = <<>>
  <1>1. DeltasOf(h, b) = {}
    BY DEF DeltasOf, Fed, Started
  <1>2. QED BY <1>1, PiecesNone DEF Assembly

-----------------------------------------------------------------------------
(* The two Anthropic clients                                               *)
(*                                                                         *)
(* What the collecting client is sent is followed in two steps: first with *)
(* a collector that never fails, whatever the arguments of a call are at   *)
(* first, and further below with the one that joins None and raises.       *)

\* What that collector keeps.
JoinedStates ==
  [text : Seq(Nat), order : Seq(ToolCalls), args : [ToolCalls -> Seq(Nat)], finish : Finishes]

\* A tool call in the order of first mention, its arguments joined.
Join(a, d, p) ==
  [a EXCEPT !.order = IF \E i \in DOMAIN @ : @[i] = d.tool THEN @ ELSE Append(@, d.tool),
            !.args[d.tool] = IF d.args = "piece" THEN Append(@, p) ELSE @]

\* The tool call deltas of a chunk, one after the other.
Joins(a, tools, p) ==
  LET after[k \in 0 .. Len(tools)] ==
        IF k = 0 THEN a ELSE Join(after[k - 1], tools[k], p)
  IN  after[Len(tools)]

JoinChunk(a, chunk, p) ==
  Joins([a EXCEPT !.text = IF chunk.content = "piece" THEN Append(@, p) ELSE @,
                  !.finish = LatestFinish(@, chunk)],
        chunk.tools, p)

\* What the client of the events h has, block for block, is what a collects.
Matches(h, s, a) ==
  /\ a.text = Assembly(h, s.textBlock)
  /\ \A t \in ToolCalls : a.args[t] = Assembly(h, s.blockOf[t])
  /\ \A t \in ToolCalls : s.blockOf[t] # None <=> \E i \in DOMAIN a.order : a.order[i] = t
  /\ \A i, j \in DOMAIN a.order : i < j => s.blockOf[a.order[i]] < s.blockOf[a.order[j]]

\* The same blocks, and an event that is no delta.
LEMMA MatchesKept ==
  ASSUME NEW h \in Seq(Event), NEW e \in Event, e.type # "content_block_delta",
         NEW s, NEW z, NEW a, Matches(h, s, a),
         z.textBlock = s.textBlock, z.blockOf = s.blockOf
  PROVE  Matches(Append(h, e), z, a)
  <1>1. \A b : Assembly(Append(h, e), b) = Assembly(h, b)
    BY AssemblyKept
  <1>2. QED BY <1>1 DEF Matches

\* The text block opens, with nothing in it.
LEMMA MatchesOpensText ==
  ASSUME NEW h \in Seq(Event), NEW s \in StreamStates, NEW z, NEW a,
         Matches(h, s, a), Flow(h, s), s.textBlock = None,
         z.textBlock = s.next, z.blockOf = s.blockOf
  PROVE  Matches(Append(h, BlockStart(s.next, "text")), z, a)
  <1> DEFINE e == BlockStart(s.next, "text")
             g == Append(h, e)
  <1>1. /\ e \in Event /\ e.type # "content_block_delta" /\ s.next \in Nat
    <2>1. s.next \in Nat /\ "text" \in Kinds
      BY DEF StreamStates, Kinds
    <2>2. e \in Event
      BY <2>1, EventTypes
    <2>3. e.type # "content_block_delta"
      BY DEF BlockStart
    <2>4. QED BY <2>1, <2>2, <2>3
  <1>2. \A b : Assembly(g, b) = Assembly(h, b)
    BY <1>1, AssemblyKept
  <1>3. Assembly(h, None) = <<>> /\ Assembly(h, s.next) = <<>>
    <2>1. None \notin 0 .. s.next - 1 /\ s.next \notin 0 .. s.next - 1
      BY <1>1 DEF None
    <2>2. QED BY <2>1, AssemblyEmpty DEF Flow
  <1> HIDE DEF g
  <1>4. Matches(g, z, a)
    BY <1>2, <1>3 DEF Matches
  <1>5. QED BY <1>4 DEF g

\* A piece of text.
LEMMA MatchesText ==
  ASSUME NEW h \in Seq(Event), NEW s \in StreamStates, NEW z, NEW a \in JoinedStates,
         NEW p \in Nat, Matches(h, s, a), Flow(h, s), s.textBlock # None,
         z.textBlock = s.textBlock, z.blockOf = s.blockOf
  PROVE  Matches(Append(h, Delta(s.textBlock, "text", p)), z,
                 [a EXCEPT !.text = IF p = 0 THEN @ ELSE Append(@, p)])
  <1> DEFINE g == Append(h, Delta(s.textBlock, "text", p))
             c == [a EXCEPT !.text = IF p = 0 THEN @ ELSE Append(@, p)]
  <1>1. s.textBlock \in Int /\ "text" \in Kinds
    BY DEF StreamStates, Kinds
  <1>2. \A b : Assembly(g, b) = IF b = s.textBlock /\ p # 0
                                THEN Append(Assembly(h, b), p) ELSE Assembly(h, b)
    BY <1>1, AssemblyGrows
  <1>3. /\ c.text = IF p = 0 THEN a.text ELSE Append(a.text, p)
        /\ c.args = a.args /\ c.order = a.order /\ c.finish = a.finish
    BY DEF JoinedStates
  <1> HIDE DEF g, c
  <1>4. \A t \in ToolCalls : s.blockOf[t] # s.textBlock
    BY DEF Flow, Numbering
  <1>5. c.text = Assembly(g, z.textBlock)
    BY <1>2, <1>3 DEF Matches
  <1>6. \A t \in ToolCalls : c.args[t] = Assembly(g, z.blockOf[t])
    BY <1>2, <1>3, <1>4 DEF Matches
  <1>7. Matches(g, z, c)
    BY <1>3, <1>5, <1>6 DEF Matches
  <1>8. QED BY <1>7 DEF g, c

\* A tool block opens: the tool is collected last.
LEMMA MatchesOpensTool ==
  ASSUME NEW h \in Seq(Event), NEW s \in StreamStates, NEW z, NEW a \in JoinedStates,
         NEW t \in ToolCalls, Matches(h, s, a), Flow(h, s), s.blockOf[t] = None,
         z.textBlock = s.textBlock, z.blockOf = [s.blockOf EXCEPT ![t] = s.next]
  PROVE  Matches(Append(h, BlockStart(s.next, "tool_use")), z,
                 [a EXCEPT !.order = Append(@, t)])
  <1> DEFINE e == BlockStart(s.next, "tool_use")
             g == Append(h, e)
             c == [a EXCEPT !.order = Append(@, t)]
             m == Len(a.order)
  <1>1. /\ e \in Event /\ e.type # "content_block_delta" /\ s.next \in Nat
        /\ s.blockOf \in [ToolCalls -> Int]
    <2>1. s.next \in Nat /\ s.blockOf \in [ToolCalls -> Int] /\ "tool_use" \in Kinds
      BY DEF StreamStates, Kinds
    <2>2. e \in Event
      BY <2>1, EventTypes
    <2>3. e.type # "content_block_delta"
      BY DEF BlockStart
    <2>4. QED BY <2>1, <2>2, <2>3
  <1>2. \A b : Assembly(g, b) = Assembly(h, b)
    BY <1>1, AssemblyKept
  <1>3. Assembly(h, None) = <<>> /\ Assembly(h, s.next) = <<>>
    <2>1. None \notin 0 .. s.next - 1 /\ s.next \notin 0 .. s.next - 1
      BY <1>1 DEF None
    <2>2. QED BY <2>1, AssemblyEmpty DEF Flow
  <1>4. /\ c.text = a.text /\ c.args = a.args /\ c.finish = a.finish
        /\ c.order = Append(a.order, t)
    BY DEF JoinedStates
  <1>5. /\ a.order \in Seq(ToolCalls) /\ m \in Nat /\ DOMAIN a.order = 1 .. m
        /\ DOMAIN c.order = 1 .. m + 1 /\ c.order[m + 1] = t
        /\ \A i \in 1 .. m : c.order[i] = a.order[i] /\ a.order[i] \in ToolCalls
    <2>1. a.order \in Seq(ToolCalls)
      BY DEF JoinedStates
    <2>2. QED BY <1>4, <2>1
  <1>6. z.blockOf[t] = s.next /\ \A u \in ToolCalls : u # t => z.blockOf[u] = s.blockOf[u]
    BY <1>1
  <1>7. \A i \in 1 .. m : a.order[i] # t /\ s.blockOf[a.order[i]] \in 0 .. s.next - 1
    <2>1. \A i \in 1 .. m : s.blockOf[a.order[i]] # None
      BY <1>5 DEF Matches
    <2>2. QED BY <2>1, <1>5 DEF Flow, Numbering
  <1> HIDE DEF g, e, c, m
  <1>8. \A u \in ToolCalls : c.args[u] = Assembly(g, z.blockOf[u])
    BY <1>2, <1>3, <1>4, <1>6 DEF Matches
  <1>9. ASSUME NEW u \in ToolCalls
        PROVE  z.blockOf[u] # None <=> \E i \in DOMAIN c.order : c.order[i] = u
    <2>1. CASE u = t
      <3>1. m + 1 \in DOMAIN c.order /\ c.order[m + 1] = t
        BY <1>5
      <3>2. QED BY <3>1, <2>1, <1>1, <1>6 DEF None
    <2>2. CASE u # t
      <3>1. (\E i \in DOMAIN c.order : c.order[i] = u) <=> \E i \in 1 .. m : a.order[i] = u
        <4>1. ASSUME NEW i \in DOMAIN c.order, c.order[i] = u
              PROVE  i \in 1 .. m /\ a.order[i] = u
          <5>1. i # m + 1
            BY <4>1, <1>5, <2>2
          <5>2. QED BY <4>1, <5>1, <1>5
        <4>2. ASSUME NEW i \in 1 .. m, a.order[i] = u
              PROVE  i \in DOMAIN c.order /\ c.order[i] = u
          BY <4>2, <1>5
        <4>3. QED BY <4>1, <4>2
      <3>2. QED BY <3>1, <2>2, <1>5, <1>6 DEF Matches
    <2>3. QED BY <2>1, <2>2
  <1>10. ASSUME NEW i \in DOMAIN c.order, NEW j \in DOMAIN c.order, i < j
         PROVE  z.blockOf[c.order[i]] < z.blockOf[c.order[j]]
    <2>1. i \in 1 .. m /\ c.order[i] = a.order[i] /\ z.blockOf[c.order[i]] = s.blockOf[a.order[i]]
      BY <1>5, <1>6, <1>7, <1>10
    <2>2. CASE j = m + 1
      BY <2>1, <2>2, <1>1, <1>5, <1>6, <1>7
    <2>3. CASE j \in 1 .. m
      <3>1. z.blockOf[c.order[j]] = s.blockOf[a.order[j]]
        BY <2>3, <1>5, <1>6, <1>7
      <3>2. s.blockOf[a.order[i]] < s.blockOf[a.order[j]]
        BY <2>1, <2>3, <1>5, <1>10 DEF Matches
      <3>3. QED BY <3>1, <3>2, <2>1
    <2>4. QED BY <2>2, <2>3, <1>5
  <1>11. Matches(g, z, c)
    BY <1>2, <1>4, <1>8, <1>9, <1>10 DEF Matches
  <1>12. QED BY <1>11 DEF g, e, c

\* A piece of a tool's arguments.
LEMMA MatchesArguments ==
  ASSUME NEW h \in Seq(Event), NEW s \in StreamStates, NEW z, NEW a \in JoinedStates,
         NEW t \in ToolCalls, NEW p \in Nat \ {0},
         Matches(h, s, a), Flow(h, s), s.blockOf[t] # None,
         z.textBlock = s.textBlock, z.blockOf = s.blockOf
  PROVE  Matches(Append(h, Delta(s.blockOf[t], "tool_use", p)), z,
                 [a EXCEPT !.args[t] = Append(@, p)])
  <1> DEFINE g == Append(h, Delta(s.blockOf[t], "tool_use", p))
             c == [a EXCEPT !.args[t] = Append(@, p)]
  <1>1. s.blockOf[t] \in Int /\ "tool_use" \in Kinds
    BY DEF StreamStates, Kinds
  <1>2. \A b : Assembly(g, b) = IF b = s.blockOf[t] /\ p # 0
                                THEN Append(Assembly(h, b), p) ELSE Assembly(h, b)
    BY <1>1, AssemblyGrows
  <1>3. /\ c.text = a.text /\ c.order = a.order /\ c.finish = a.finish
        /\ c.args[t] = Append(a.args[t], p)
        /\ \A u \in ToolCalls : u # t => c.args[u] = a.args[u]
    BY DEF JoinedStates
  <1> HIDE DEF g, c
  <1>4. /\ s.textBlock # s.blockOf[t]
        /\ \A u \in ToolCalls : u # t => s.blockOf[u] # s.blockOf[t]
    BY DEF Flow, Numbering
  <1>5. \A u \in ToolCalls : c.args[u] = Assembly(g, z.blockOf[u])
    <2>1. \A u \in ToolCalls : a.args[u] = Assembly(h, s.blockOf[u])
      BY DEF Matches
    <2>2. QED BY <1>2, <1>3, <1>4, <2>1
  <1>6. Matches(g, z, c)
    BY <1>2, <1>3, <1>4, <1>5 DEF Matches
  <1>7. QED BY <1>6 DEF g, c

-----------------------------------------------------------------------------
(* The state machine's steps, after the events h of earlier calls          *)

Running(h, s, a) ==
  /\ s.started
  /\ Flow(History(h, s), s) /\ Settled(History(h, s), s) /\ Matches(History(h, s), s, a)

\* Emitting changes nothing but the events.
LEMMA EmitFields ==
  ASSUME NEW h \in Seq(Event), NEW s \in StreamStates, NEW e \in Event
  PROVE  /\ Emit(s, e) \in StreamStates
         /\ History(h, s) \in Seq(Event)
         /\ History(h, Emit(s, e)) = Append(History(h, s), e)
         /\ Emit(s, e).started = s.started /\ Emit(s, e).textBlock = s.textBlock
         /\ Emit(s, e).textClosed = s.textClosed /\ Emit(s, e).active = s.active
         /\ Emit(s, e).blockOf = s.blockOf /\ Emit(s, e).next = s.next
         /\ Emit(s, e).finish = s.finish
  <1>1. Emit(s, e) = [s EXCEPT !.events = Append(s.events, e)]
    BY EmitHistory
  <1>2. /\ Emit(s, e).started = s.started /\ Emit(s, e).textBlock = s.textBlock
        /\ Emit(s, e).textClosed = s.textClosed /\ Emit(s, e).active = s.active
        /\ Emit(s, e).blockOf = s.blockOf /\ Emit(s, e).next = s.next
        /\ Emit(s, e).finish = s.finish
    BY <1>1 DEF StreamStates
  <1>3. QED BY <1>2, EmitHistory

\* OpenText keeps the invariant, and there is a text block then.
LEMMA OpenTextRuns ==
  ASSUME NEW h \in Seq(Event), NEW s \in StreamStates, NEW a, Running(h, s, a)
  PROVE  /\ OpenText(s) \in StreamStates /\ Running(h, OpenText(s), a)
         /\ OpenText(s).textBlock # None /\ OpenText(s).finish = s.finish
  <1>1. CASE s.textBlock # None
    BY <1>1 DEF OpenText
  <1>2. CASE s.textBlock = None
    <2> DEFINE u == [s EXCEPT !.textBlock = s.next, !.next = @ + 1, !.active = "text"]
               e == BlockStart(s.next, "text")
               z == Emit(u, e)
               g == History(h, s)
    <2>1. OpenText(s) = z
      BY <1>2 DEF OpenText
    <2>2. /\ u \in StreamStates /\ u.started = s.started /\ u.textBlock = s.next
          /\ u.textClosed = s.textClosed /\ u.active = "text" /\ u.blockOf = s.blockOf
          /\ u.next = s.next + 1 /\ u.finish = s.finish /\ u.events = s.events /\ s.next \in Nat
      <3>1. s.next \in Nat /\ s.next \in Int /\ s.next + 1 \in Nat
        BY DEF StreamStates
      <3>2. u \in StreamStates
        BY <3>1 DEF StreamStates
      <3>3. /\ u.started = s.started /\ u.textBlock = s.next
            /\ u.textClosed = s.textClosed /\ u.active = "text" /\ u.blockOf = s.blockOf
            /\ u.next = s.next + 1 /\ u.finish = s.finish /\ u.events = s.events
        BY DEF StreamStates
      <3>4. QED BY <3>1, <3>2, <3>3
    <2>3. e \in Event
      <3>1. "text" \in Kinds
        BY DEF Kinds
      <3>2. QED BY <2>2, <3>1, EventTypes
    <2>4. g = History(h, u)
      BY <2>2 DEF History
    <2> HIDE DEF u, e, g
    <2>5. /\ z \in StreamStates /\ g \in Seq(Event) /\ History(h, z) = Append(g, e)
          /\ z.started = s.started /\ z.textBlock = s.next
          /\ z.textClosed = s.textClosed /\ z.active = "text" /\ z.blockOf = s.blockOf
          /\ z.next = s.next + 1 /\ z.finish = s.finish
      <3>1. u \in StreamStates /\ e \in Event
        BY <2>2, <2>3
      <3>2. /\ z \in StreamStates /\ History(h, u) \in Seq(Event)
            /\ History(h, z) = Append(History(h, u), e)
            /\ z.started = u.started /\ z.textBlock = u.textBlock
            /\ z.textClosed = u.textClosed /\ z.active = u.active /\ z.blockOf = u.blockOf
            /\ z.next = u.next /\ z.finish = u.finish
        BY <3>1, EmitFields
      <3>3. QED BY <3>2, <2>2, <2>4
    <2>6. s.started /\ Flow(g, s) /\ Settled(g, s) /\ Matches(g, s, a)
      BY DEF Running, g
    <2> HIDE DEF z
    <2>7. Flow(Append(g, e), z) /\ Settled(Append(g, e), z)
      BY <1>2, <2>5, <2>6, FlowOpensText DEF e
    <2>8. Matches(Append(g, e), z, a)
      BY <1>2, <2>5, <2>6, MatchesOpensText DEF e
    <2>9. z.textBlock # None
      BY <2>2, <2>5 DEF None
    <2>10. QED BY <2>1, <2>5, <2>6, <2>7, <2>8, <2>9 DEF Running
  <1>3. QED BY <1>1, <1>2

\* A text delta, and what is collected of it.
LEMMA TextDeltaRuns ==
  ASSUME NEW h \in Seq(Event), NEW s \in StreamStates, NEW a \in JoinedStates,
         NEW p \in Nat, Running(h, s, a)
  PROVE  /\ TextDelta(s, p) \in StreamStates /\ TextDelta(s, p).finish = s.finish
         /\ Running(h, TextDelta(s, p), [a EXCEPT !.text = IF p = 0 THEN @ ELSE Append(@, p)])
  <1> DEFINE u == OpenText(s)
             e == Delta(u.textBlock, "text", p)
             z == Emit(u, e)
             g == History(h, u)
             c == [a EXCEPT !.text = IF p = 0 THEN @ ELSE Append(@, p)]
  <1>1. /\ u \in StreamStates /\ Running(h, u, a) /\ u.textBlock # None
        /\ u.finish = s.finish
    BY OpenTextRuns
  <1>2. TextDelta(s, p) = z
    BY DEF TextDelta
  <1> HIDE DEF u
  <1>3. u.started /\ Flow(g, u) /\ Settled(g, u) /\ Matches(g, u, a)
    BY <1>1 DEF Running
  <1>4. u.textBlock \in 0 .. u.next - 1 /\ u.textBlock \in Int
    BY <1>1, <1>3 DEF Flow, Numbering, StreamStates
  <1>5. e \in Event
    <2>1. "text" \in Kinds
      BY DEF Kinds
    <2>2. QED BY <1>4, <2>1, EventTypes
  <1> HIDE DEF e, g
  <1>6. /\ z \in StreamStates /\ g \in Seq(Event) /\ History(h, z) = Append(g, e)
        /\ z.started = u.started /\ z.textBlock = u.textBlock
        /\ z.textClosed = u.textClosed /\ z.active = u.active /\ z.blockOf = u.blockOf
        /\ z.next = u.next /\ z.finish = u.finish
    BY <1>1, <1>5, EmitFields DEF g
  <1> HIDE DEF z
  <1>7. Flow(Append(g, e), z) /\ Settled(Append(g, e), z)
    BY <1>1, <1>3, <1>4, <1>6, FlowDelta DEF e
  <1>8. Matches(Append(g, e), z, c)
    BY <1>1, <1>3, <1>6, MatchesText DEF e
  <1>9. Running(h, z, c)
    BY <1>3, <1>6, <1>7, <1>8 DEF Running
  <1>10. QED BY <1>1, <1>2, <1>6, <1>9

\* A new tool call, and what is collected of it.
LEMMA OpenToolRuns ==
  ASSUME NEW h \in Seq(Event), NEW s \in StreamStates, NEW a \in JoinedStates,
         NEW t \in ToolCalls, Running(h, s, a), s.blockOf[t] = None
  PROVE  /\ OpenTool(s, t) \in StreamStates /\ OpenTool(s, t).blockOf[t] # None
         /\ OpenTool(s, t).finish = s.finish
         /\ Running(h, OpenTool(s, t), [a EXCEPT !.order = Append(@, t)])
  <1> DEFINE b == CloseText(s)
             u == [b EXCEPT !.blockOf[t] = b.next, !.next = @ + 1, !.active = "tool_use"]
             e == BlockStart(b.next, "tool_use")
             z == Emit(u, e)
             g == History(h, b)
             c == [a EXCEPT !.order = Append(@, t)]
  <1>1. OpenTool(s, t) = z
    BY DEF OpenTool
  <1>2. /\ b \in StreamStates /\ b.started /\ Flow(g, b) /\ Matches(g, b, a)
        /\ b.textBlock # None => b.textClosed
        /\ b.blockOf = s.blockOf /\ b.finish = s.finish
    <2>1. /\ s.started /\ Flow(History(h, s), s) /\ Settled(History(h, s), s)
          /\ Matches(History(h, s), s, a)
      BY DEF Running
    <2>2. CASE s.textBlock # None /\ ~ s.textClosed
      <3> DEFINE v == [s EXCEPT !.textClosed = TRUE]
                 x == BlockStop(s.textBlock)
      <3>1. b = Emit(v, x)
        <4>1. s.active = "text"
          BY <2>1, <2>2 DEF Settled
        <4>2. QED BY <2>2, <4>1 DEF CloseText
      <3>2. /\ v \in StreamStates /\ v.started = s.started /\ v.textBlock = s.textBlock
            /\ v.textClosed /\ v.blockOf = s.blockOf /\ v.next = s.next
            /\ v.finish = s.finish /\ v.events = s.events
        BY DEF StreamStates
      <3>3. x \in Event /\ x.type # "content_block_delta"
        <4>1. s.textBlock \in Int
          BY DEF StreamStates
        <4>2. x.type # "content_block_delta"
          BY DEF BlockStop
        <4>3. QED BY <4>1, <4>2, EventTypes
      <3>4. History(h, v) = History(h, s)
        BY <3>2 DEF History
      <3> HIDE DEF v, x, b
      <3>5. /\ b \in StreamStates /\ History(h, s) \in Seq(Event)
            /\ g = Append(History(h, s), x)
            /\ b.started = s.started /\ b.textBlock = s.textBlock /\ b.textClosed
            /\ b.blockOf = s.blockOf /\ b.next = s.next /\ b.finish = s.finish
        <4>1. /\ b \in StreamStates /\ History(h, v) \in Seq(Event)
              /\ g = Append(History(h, v), x)
              /\ b.started = v.started /\ b.textBlock = v.textBlock
              /\ b.textClosed = v.textClosed
              /\ b.blockOf = v.blockOf /\ b.next = v.next /\ b.finish = v.finish
          BY <3>1, <3>2, <3>3, EmitFields
        <4>2. QED BY <4>1, <3>2, <3>4
      <3> HIDE DEF g
      <3>6. Flow(g, b)
        BY <2>1, <2>2, <3>5, FlowClosesText DEF x
      <3>7. Matches(g, b, a)
        BY <2>1, <3>3, <3>5, MatchesKept
      <3>8. QED BY <2>1, <3>5, <3>6, <3>7
    <2>3. CASE ~ (s.textBlock # None /\ ~ s.textClosed)
      <3>1. b = s
        BY <2>3 DEF CloseText
      <3>2. QED BY <2>1, <2>3, <3>1
    <2>4. QED BY <2>2, <2>3
  <1> HIDE DEF b
  <1>3. /\ u \in StreamStates /\ u.started = b.started /\ u.textBlock = b.textBlock
        /\ u.textClosed = b.textClosed /\ u.active = "tool_use"
        /\ u.blockOf = [b.blockOf EXCEPT ![t] = b.next]
        /\ u.next = b.next + 1 /\ u.finish = b.finish /\ u.events = b.events
        /\ b.next \in Nat /\ u.blockOf[t] = b.next
    <2>1. /\ b.next \in Nat /\ b.next \in Int /\ b.next + 1 \in Nat
          /\ b.blockOf \in [ToolCalls -> Int]
      BY <1>2 DEF StreamStates
    <2>2. u \in StreamStates
      BY <1>2, <2>1 DEF StreamStates
    <2>3. /\ u.started = b.started /\ u.textBlock = b.textBlock
          /\ u.textClosed = b.textClosed /\ u.active = "tool_use"
          /\ u.blockOf = [b.blockOf EXCEPT ![t] = b.next]
          /\ u.next = b.next + 1 /\ u.finish = b.finish /\ u.events = b.events
      BY <1>2 DEF StreamStates
    <2>4. u.blockOf[t] = b.next
      BY <2>1, <2>3
    <2>5. QED BY <2>1, <2>2, <2>3, <2>4
  <1>4. e \in Event
    <2>1. "tool_use" \in Kinds
      BY DEF Kinds
    <2>2. QED BY <1>3, <2>1, EventTypes
  <1>5. g = History(h, u)
    BY <1>3 DEF History
  <1> HIDE DEF u, e, g
  <1>6. /\ z \in StreamStates /\ g \in Seq(Event) /\ History(h, z) = Append(g, e)
        /\ z.started = b.started /\ z.textBlock = b.textBlock
        /\ z.textClosed = b.textClosed /\ z.active = "tool_use"
        /\ z.blockOf = [b.blockOf EXCEPT ![t] = b.next]
        /\ z.next = b.next + 1 /\ z.finish = b.finish /\ z.blockOf[t] = b.next
    <2>1. u \in StreamStates /\ e \in Event
      BY <1>3, <1>4
    <2>2. /\ z \in StreamStates /\ History(h, u) \in Seq(Event)
          /\ History(h, z) = Append(History(h, u), e)
          /\ z.started = u.started /\ z.textBlock = u.textBlock
          /\ z.textClosed = u.textClosed /\ z.active = u.active /\ z.blockOf = u.blockOf
          /\ z.next = u.next /\ z.finish = u.finish
      BY <2>1, EmitFields
    <2>3. QED BY <2>2, <1>3, <1>5
  <1> HIDE DEF z
  <1>7. Flow(Append(g, e), z) /\ Settled(Append(g, e), z)
    BY <1>2, <1>6, FlowOpensTool DEF e
  <1>8. Matches(Append(g, e), z, c)
    BY <1>2, <1>6, MatchesOpensTool DEF e
  <1>9. Running(h, z, c)
    BY <1>2, <1>6, <1>7, <1>8 DEF Running
  <1>10. z.blockOf[t] # None
    BY <1>3, <1>6 DEF None
  <1>11. QED BY <1>1, <1>2, <1>6, <1>9, <1>10

\* A tool call delta, and what is collected of it.
LEMMA ToolDeltaRuns ==
  ASSUME NEW h \in Seq(Event), NEW s \in StreamStates, NEW a \in JoinedStates,
         NEW d \in ToolDeltas, NEW p \in Nat \ {0}, Running(h, s, a)
  PROVE  /\ ToolDelta(s, d, p) \in StreamStates /\ Join(a, d, p) \in JoinedStates
         /\ ToolDelta(s, d, p).finish = s.finish /\ Join(a, d, p).finish = a.finish
         /\ Running(h, ToolDelta(s, d, p), Join(a, d, p))
  <1> DEFINE t == d.tool
             u == OpenTool(s, t)
             b == IF \E i \in DOMAIN a.order : a.order[i] = t
                  THEN a ELSE [a EXCEPT !.order = Append(@, t)]
  <1>1. t \in ToolCalls /\ d.args \in Contents
    BY DEF ToolDeltas
  <1>2. /\ a.order \in Seq(ToolCalls) /\ a.args \in [ToolCalls -> Seq(Nat)]
    BY DEF JoinedStates
  <1>3. b \in JoinedStates /\ b.finish = a.finish
    <2>1. Append(a.order, t) \in Seq(ToolCalls)
      BY <1>1, <1>2, AppendProperties
    <2>2. QED BY <2>1 DEF JoinedStates
  <1>4. Join(a, d, p) = IF d.args = "piece" THEN [b EXCEPT !.args[t] = Append(@, p)] ELSE b
    <2>1. CASE \E i \in DOMAIN a.order : a.order[i] = t
      BY <2>1, <1>1, <1>2 DEF Join, JoinedStates
    <2>2. CASE ~ \E i \in DOMAIN a.order : a.order[i] = t
      BY <2>2, <1>1, <1>2 DEF Join, JoinedStates
    <2>3. QED BY <2>1, <2>2
  <1>5. u \in StreamStates /\ u.blockOf[t] # None /\ Running(h, u, b) /\ u.finish = s.finish
    <2>1. s.blockOf[t] # None <=> \E i \in DOMAIN a.order : a.order[i] = t
      BY <1>1 DEF Running, Matches
    <2>2. CASE s.blockOf[t] = None
      <3>1. b = [a EXCEPT !.order = Append(@, t)]
        BY <2>1, <2>2
      <3> HIDE DEF b
      <3>2. QED BY <3>1, <2>2, <1>1, OpenToolRuns
    <2>3. CASE s.blockOf[t] # None
      <3>1. b = a /\ u = s
        BY <2>1, <2>3 DEF OpenTool
      <3> HIDE DEF b, u
      <3>2. QED BY <3>1, <2>3
    <2>4. QED BY <2>2, <2>3
  <1> HIDE DEF b, u
  <1>6. CASE d.args # "piece"
    <2>1. ToolDelta(s, d, p) = u /\ Join(a, d, p) = b
      BY <1>4, <1>6 DEF ToolDelta, u
    <2>2. QED BY <2>1, <1>3, <1>5
  <1>7. CASE d.args = "piece"
    <2> DEFINE e == Delta(u.blockOf[t], "tool_use", p)
               z == Emit(u, e)
               g == History(h, u)
               c == [b EXCEPT !.args[t] = Append(@, p)]
    <2>1. ToolDelta(s, d, p) = z /\ Join(a, d, p) = c
      BY <1>4, <1>7 DEF ToolDelta, u
    <2>2. c \in JoinedStates /\ c.finish = b.finish
      <3>1. b.args[t] \in Seq(Nat)
        BY <1>1, <1>3 DEF JoinedStates
      <3>2. Append(b.args[t], p) \in Seq(Nat)
        BY <3>1, AppendProperties
      <3>3. QED BY <1>1, <1>3, <3>2 DEF JoinedStates
    <2>3. u.started /\ Flow(g, u) /\ Settled(g, u) /\ Matches(g, u, b)
      BY <1>5 DEF Running
    <2>4. /\ u.blockOf[t] \in 0 .. u.next - 1 /\ u.blockOf[t] \in Int
          /\ u.blockOf[t] # u.textBlock
      BY <1>1, <1>5, <2>3 DEF Flow, Numbering, StreamStates
    <2>5. e \in Event
      <3>1. "tool_use" \in Kinds
        BY DEF Kinds
      <3>2. QED BY <2>4, <3>1, EventTypes
    <2> HIDE DEF e, g
    <2>6. /\ z \in StreamStates /\ g \in Seq(Event) /\ History(h, z) = Append(g, e)
          /\ z.started = u.started /\ z.textBlock = u.textBlock
          /\ z.textClosed = u.textClosed /\ z.active = u.active /\ z.blockOf = u.blockOf
          /\ z.next = u.next /\ z.finish = u.finish
      BY <1>5, <2>5, EmitFields DEF g
    <2> HIDE DEF z
    <2>7. Flow(Append(g, e), z) /\ Settled(Append(g, e), z)
      BY <1>5, <2>3, <2>4, <2>6, FlowDelta DEF e
    <2>8. Matches(Append(g, e), z, c)
      BY <1>1, <1>3, <1>5, <2>3, <2>6, MatchesArguments DEF e
    <2>9. Running(h, z, c)
      BY <2>3, <2>6, <2>7, <2>8 DEF Running
    <2>10. QED BY <1>3, <1>5, <2>1, <2>2, <2>6, <2>9
  <1>8. QED BY <1>1, <1>6, <1>7

-----------------------------------------------------------------------------
(* The OpenAI clients                                                      *)

Part ==
  [part : {"content", "reasoning"}, piece : Nat]
    \cup [part : {"tool_call"}, tool : ToolCalls, piece : Nat, null : BOOLEAN]
    \cup [part : {"finish"}, reason : FinishReasons]
    \cup [part : {"error", "done"}]

CompletionStates ==
  [content : Seq(Nat), reasoning : Seq(Nat), calls : SUBSET ToolCalls,
   args : [ToolCalls -> Seq(Nat)], finish : Finishes]

PartsOf(r, part) == {i \in DOMAIN r : r[i].part = part}
CallsOf(r, t) == {i \in PartsOf(r, "tool_call") : r[i].tool = t}

\* What the constructors make is a part.
LEMMA PartTypes ==
  /\ \A p \in Nat : Text(p) \in Part /\ Thought(p) \in Part
  /\ \A d \in ToolDeltas, p \in Nat : Call(d, p) \in Part
  /\ \A f \in FinishReasons : Finished(f) \in Part
  /\ ErrorEvent \in Part /\ DoneEvent \in Part
  <1>1. ASSUME NEW p \in Nat PROVE Text(p) \in Part /\ Thought(p) \in Part
    BY DEF Part, Text, Thought
  <1>2. ASSUME NEW d \in ToolDeltas, NEW p \in Nat PROVE Call(d, p) \in Part
    BY DEF Part, Call, ToolDeltas
  <1>3. ASSUME NEW f \in FinishReasons PROVE Finished(f) \in Part
    BY DEF Part, Finished
  <1>4. ErrorEvent \in Part /\ DoneEvent \in Part
    BY DEF Part, ErrorEvent, DoneEvent
  <1>5. QED BY <1>1, <1>2, <1>3, <1>4

\* One more part.
LEMMA OneMorePart ==
  ASSUME NEW r \in Seq(Part), NEW e \in Part
  PROVE  /\ Len(r) \in Nat /\ Append(r, e) \in Seq(Part)
         /\ Append(r, e)[Len(r) + 1] = e
         /\ \A i \in 1 .. Len(r) : Append(r, e)[i] = r[i]
         /\ \A part : PartsOf(r, part) \subseteq 1 .. Len(r)
         /\ \A part, i : i \in PartsOf(Append(r, e), part)
                           <=> i \in PartsOf(r, part) \/ (e.part = part /\ i = Len(r) + 1)
  <1> DEFINE g == Append(r, e)
             l == Len(r)
  <1>1. /\ l \in Nat /\ g \in Seq(Part) /\ Len(g) = l + 1 /\ g[l + 1] = e
        /\ \A i \in 1 .. l : g[i] = r[i]
    BY AppendProperties
  <1>2. DOMAIN r = 1 .. l /\ DOMAIN g = 1 .. l + 1
    BY <1>1, LenProperties
  <1> HIDE DEF g, l
  <1>3. \A i : i \in 1 .. l + 1 <=> i \in 1 .. l \/ i = l + 1
    BY <1>1
  <1>4. l + 1 \notin 1 .. l
    BY <1>1
  <1>5. ASSUME NEW part, NEW i
        PROVE  i \in PartsOf(g, part) <=> i \in PartsOf(r, part) \/ (e.part = part /\ i = l + 1)
    BY <1>1, <1>2, <1>3, <1>4 DEF PartsOf
  <1>6. \A part : PartsOf(r, part) \subseteq 1 .. l
    BY <1>2 DEF PartsOf
  <1>7. QED BY <1>1, <1>5, <1>6 DEF g, l

\* What the client of the parts r has is what c, and in part a, collect.
Agrees(r, a, c) ==
  /\ c.content = PiecesAt(r, PartsOf(r, "content")) /\ a.text = c.content
  /\ c.reasoning = PiecesAt(r, PartsOf(r, "reasoning"))
  /\ \A t \in ToolCalls : c.args[t] = PiecesAt(r, CallsOf(r, t))
  /\ c.args = a.args
  /\ \A t : t \in c.calls <=> \E i \in PartsOf(r, "tool_call") : r[i].tool = t
  /\ \A t : t \in c.calls <=> \E i \in DOMAIN a.order : a.order[i] = t

\* f is the last finish reason the client of r was told.
Told(r, f) ==
  \/ f = NoFinish /\ PartsOf(r, "finish") = {}
  \/ \E i \in PartsOf(r, "finish") :
       r[i].reason = f /\ \A j \in PartsOf(r, "finish") : j <= i

\* A part of another kind changes no position, and nothing of the pieces.
LEMMA PiecesOtherPart ==
  ASSUME NEW r \in Seq(Part), NEW e \in Part
  PROVE  /\ \A part : e.part # part =>
              /\ PartsOf(Append(r, e), part) = PartsOf(r, part)
              /\ PiecesAt(Append(r, e), PartsOf(r, part)) = PiecesAt(r, PartsOf(r, part))
         /\ \A t : ~ (e.part = "tool_call" /\ e.tool = t) =>
              PiecesAt(Append(r, e), CallsOf(Append(r, e), t)) = PiecesAt(r, CallsOf(r, t))
  <1> DEFINE g == Append(r, e)
             l == Len(r)
  <1>1. /\ l \in Nat /\ g[l + 1] = e /\ \A i \in 1 .. l : g[i] = r[i]
        /\ \A part : PartsOf(r, part) \subseteq 1 .. l
        /\ \A part, i : i \in PartsOf(g, part)
                          <=> i \in PartsOf(r, part) \/ (e.part = part /\ i = l + 1)
    BY OneMorePart
  <1> HIDE DEF g
  <1>2. ASSUME NEW S \in SUBSET (1 .. l) PROVE PiecesAt(g, S) = PiecesAt(r, S)
    <2>1. \A i \in S : g[i] = r[i]
      BY <1>1
    <2>2. QED BY <2>1, PiecesKept
  <1>3. ASSUME NEW part, e.part # part
        PROVE  PartsOf(g, part) = PartsOf(r, part)
    <2>1. \A i : i \in PartsOf(g, part) <=> i \in PartsOf(r, part)
      BY <1>1, <1>3
    <2>2. QED BY <2>1
  <1>4. ASSUME NEW t, ~ (e.part = "tool_call" /\ e.tool = t)
        PROVE  PiecesAt(g, CallsOf(g, t)) = PiecesAt(r, CallsOf(r, t))
    <2>1. \A i : i \in CallsOf(g, t) <=> i \in CallsOf(r, t)
      BY <1>1, <1>4 DEF CallsOf
    <2>2. CallsOf(g, t) = CallsOf(r, t)
      BY <2>1
    <2>3. CallsOf(r, t) \in SUBSET (1 .. l)
      BY <1>1 DEF CallsOf
    <2>4. QED BY <2>2, <2>3, <1>2
  <1>5. \A part : PartsOf(r, part) \in SUBSET (1 .. l)
    BY <1>1
  <1>6. QED BY <1>2, <1>3, <1>4, <1>5 DEF g

\* A finish, an error or the end.
LEMMA AgreesKept ==
  ASSUME NEW r \in Seq(Part), NEW e \in Part, NEW a, NEW c, Agrees(r, a, c),
         e.part \notin {"content", "reasoning", "tool_call"}
  PROVE  Agrees(Append(r, e), a, c)
  <1> DEFINE g == Append(r, e)
  <1>1. /\ PartsOf(g, "content") = PartsOf(r, "content")
        /\ PartsOf(g, "reasoning") = PartsOf(r, "reasoning")
        /\ PartsOf(g, "tool_call") = PartsOf(r, "tool_call")
        /\ PiecesAt(g, PartsOf(r, "content")) = PiecesAt(r, PartsOf(r, "content"))
        /\ PiecesAt(g, PartsOf(r, "reasoning")) = PiecesAt(r, PartsOf(r, "reasoning"))
        /\ \A t : PiecesAt(g, CallsOf(g, t)) = PiecesAt(r, CallsOf(r, t))
    BY PiecesOtherPart
  <1>2. \A i \in PartsOf(r, "tool_call") : g[i] = r[i]
    BY OneMorePart
  <1> HIDE DEF g
  <1>3. Agrees(g, a, c)
    BY <1>1, <1>2 DEF Agrees
  <1>4. QED BY <1>3 DEF g

\* A part that is no finish leaves the last finish what it was.
LEMMA ToldKept ==
  ASSUME NEW r \in Seq(Part), NEW e \in Part, NEW f, Told(r, f), e.part # "finish"
  PROVE  Told(Append(r, e), f)
  <1> DEFINE g == Append(r, e)
  <1>1. PartsOf(g, "finish") = PartsOf(r, "finish")
    BY PiecesOtherPart
  <1>2. \A i \in PartsOf(r, "finish") : g[i] = r[i]
    BY OneMorePart
  <1> HIDE DEF g
  <1>3. Told(g, f)
    BY <1>1, <1>2 DEF Told
  <1>4. QED BY <1>3 DEF g

\* A finish is the last one.
LEMMA ToldFinish ==
  ASSUME NEW r \in Seq(Part), NEW f \in FinishReasons
  PROVE  Told(Append(r, Finished(f)), f)
  <1> DEFINE e == Finished(f)
             g == Append(r, e)
             l == Len(r)
  <1>1. e \in Part /\ e.part = "finish" /\ e.reason = f
    BY PartTypes DEF Finished
  <1>2. /\ l \in Nat /\ g[l + 1] = e
        /\ \A part : PartsOf(r, part) \subseteq 1 .. l
        /\ \A part, i : i \in PartsOf(g, part)
                          <=> i \in PartsOf(r, part) \/ (e.part = part /\ i = l + 1)
    BY <1>1, OneMorePart
  <1> HIDE DEF e, g, l
  <1>3. l + 1 \in PartsOf(g, "finish") /\ \A j \in PartsOf(g, "finish") : j <= l + 1
    <2>1. \A j \in PartsOf(r, "finish") : j <= l + 1
      BY <1>2
    <2>2. QED BY <1>1, <1>2, <2>1
  <1>4. Told(g, f)
    BY <1>1, <1>2, <1>3 DEF Told
  <1>5. QED BY <1>4 DEF e, g

\* The pieces of one kind grow by a part of that kind.
LEMMA PiecesOfPart ==
  ASSUME NEW r \in Seq(Part), NEW e \in Part, NEW S \in SUBSET (1 .. Len(r)),
         NEW U, \A i : i \in U <=> i \in S \/ i = Len(r) + 1
  PROVE  /\ e.piece = 0 => PiecesAt(Append(r, e), U) = PiecesAt(r, S)
         /\ e.piece # 0 => PiecesAt(Append(r, e), U) = Append(PiecesAt(r, S), e.piece)
  BY PiecesGrow

\* A piece of text, or an empty one, reaches the clients alike.
LEMMA AgreesText ==
  ASSUME NEW r \in Seq(Part), NEW a \in JoinedStates, NEW c \in CompletionStates,
         NEW p \in Nat, Agrees(r, a, c)
  PROVE  Agrees(Append(r, Text(p)),
                [a EXCEPT !.text = IF p = 0 THEN @ ELSE Append(@, p)],
                [c EXCEPT !.content = IF p = 0 THEN @ ELSE Append(@, p)])
  <1> DEFINE e == Text(p)
             g == Append(r, e)
             l == Len(r)
             b == [a EXCEPT !.text = IF p = 0 THEN @ ELSE Append(@, p)]
             d == [c EXCEPT !.content = IF p = 0 THEN @ ELSE Append(@, p)]
  <1>1. e \in Part /\ e.part = "content" /\ e.piece = p
    BY PartTypes DEF Text
  <1>2. /\ PartsOf(g, "reasoning") = PartsOf(r, "reasoning")
        /\ PartsOf(g, "tool_call") = PartsOf(r, "tool_call")
        /\ PiecesAt(g, PartsOf(r, "reasoning")) = PiecesAt(r, PartsOf(r, "reasoning"))
        /\ \A t : PiecesAt(g, CallsOf(g, t)) = PiecesAt(r, CallsOf(r, t))
    BY <1>1, PiecesOtherPart
  <1>3. /\ \A i \in PartsOf(r, "tool_call") : g[i] = r[i]
        /\ PartsOf(r, "content") \in SUBSET (1 .. l)
        /\ \A i : i \in PartsOf(g, "content") <=> i \in PartsOf(r, "content") \/ i = l + 1
    BY <1>1, OneMorePart
  <1>4. PiecesAt(g, PartsOf(g, "content"))
          = IF p = 0 THEN PiecesAt(r, PartsOf(r, "content"))
                     ELSE Append(PiecesAt(r, PartsOf(r, "content")), p)
    <2> HIDE DEF e
    <2>1. CASE p = 0
      BY <1>1, <1>3, <2>1, PiecesOfPart
    <2>2. CASE p # 0
      BY <1>1, <1>3, <2>2, PiecesOfPart
    <2>3. QED BY <2>1, <2>2
  <1>5. /\ b.text = IF p = 0 THEN a.text ELSE Append(a.text, p)
        /\ b.args = a.args /\ b.order = a.order
        /\ d.content = IF p = 0 THEN c.content ELSE Append(c.content, p)
        /\ d.reasoning = c.reasoning /\ d.args = c.args /\ d.calls = c.calls
    BY DEF JoinedStates, CompletionStates
  <1> HIDE DEF g, e, b, d
  <1>6. Agrees(g, b, d)
    BY <1>2, <1>3, <1>4, <1>5 DEF Agrees
  <1>7. QED BY <1>6 DEF g, e, b, d

\* So does a piece of reasoning.
LEMMA AgreesThought ==
  ASSUME NEW r \in Seq(Part), NEW a, NEW c \in CompletionStates,
         NEW p \in Nat \ {0}, Agrees(r, a, c)
  PROVE  Agrees(Append(r, Thought(p)), a, [c EXCEPT !.reasoning = Append(@, p)])
  <1> DEFINE e == Thought(p)
             g == Append(r, e)
             l == Len(r)
             d == [c EXCEPT !.reasoning = Append(@, p)]
  <1>1. e \in Part /\ e.part = "reasoning" /\ e.piece = p
    BY PartTypes DEF Thought
  <1>2. /\ PartsOf(g, "content") = PartsOf(r, "content")
        /\ PartsOf(g, "tool_call") = PartsOf(r, "tool_call")
        /\ PiecesAt(g, PartsOf(r, "content")) = PiecesAt(r, PartsOf(r, "content"))
        /\ \A t : PiecesAt(g, CallsOf(g, t)) = PiecesAt(r, CallsOf(r, t))
    BY <1>1, PiecesOtherPart
  <1>3. /\ \A i \in PartsOf(r, "tool_call") : g[i] = r[i]
        /\ PartsOf(r, "reasoning") \in SUBSET (1 .. l)
        /\ \A i : i \in PartsOf(g, "reasoning") <=> i \in PartsOf(r, "reasoning") \/ i = l + 1
    BY <1>1, OneMorePart
  <1>4. PiecesAt(g, PartsOf(g, "reasoning")) = Append(PiecesAt(r, PartsOf(r, "reasoning")), p)
    <2> HIDE DEF e
    <2>1. QED BY <1>1, <1>3, PiecesOfPart
  <1>5. /\ d.reasoning = Append(c.reasoning, p)
        /\ d.content = c.content /\ d.args = c.args /\ d.calls = c.calls
    BY DEF CompletionStates
  <1> HIDE DEF g, e, d
  <1>6. Agrees(g, a, d)
    BY <1>2, <1>3, <1>4, <1>5 DEF Agrees
  <1>7. QED BY <1>6 DEF g, e, d

\* So does a delta of a tool call.
LEMMA AgreesCall ==
  ASSUME NEW r \in Seq(Part), NEW a \in JoinedStates, NEW c \in CompletionStates,
         NEW d \in ToolDeltas, NEW p \in Nat \ {0}, Agrees(r, a, c)
  PROVE  /\ Agrees(Append(r, Call(d, p)), Join(a, d, p), AddToolCall(c, d, p))
         /\ AddToolCall(c, d, p) \in CompletionStates
         /\ AddToolCall(c, d, p).finish = c.finish
  <1> DEFINE t == d.tool
             q == IF d.args = "piece" THEN p ELSE 0
             e == Call(d, p)
             g == Append(r, e)
             l == Len(r)
             b == Join(a, d, p)
             f == AddToolCall(c, d, p)
  <1>1. t \in ToolCalls /\ d.args \in Contents /\ q \in Nat
    BY DEF ToolDeltas
  <1>2. e \in Part /\ e.part = "tool_call" /\ e.tool = t /\ e.piece = q
    <2>1. e \in Part
      BY PartTypes
    <2>2. QED BY <2>1 DEF Call
  <1>3. /\ a.args \in [ToolCalls -> Seq(Nat)] /\ c.args \in [ToolCalls -> Seq(Nat)]
        /\ a.order \in Seq(ToolCalls) /\ c.calls \in SUBSET ToolCalls
    BY DEF JoinedStates, CompletionStates
  <1>4. Append(c.args[t], p) \in Seq(Nat)
    BY <1>1, <1>3, AppendProperties
  <1>5. /\ f.content = c.content /\ f.reasoning = c.reasoning /\ f.finish = c.finish
        /\ f.calls = c.calls \cup {t}
        /\ f.args = [c.args EXCEPT ![t] = IF d.args = "piece" THEN Append(@, p) ELSE @]
        /\ f \in CompletionStates
    BY <1>1, <1>3, <1>4 DEF AddToolCall, CompletionStates
  <1>6. /\ b.text = a.text
        /\ b.args = [a.args EXCEPT ![t] = IF d.args = "piece" THEN Append(@, p) ELSE @]
        /\ b.order = IF \E i \in DOMAIN a.order : a.order[i] = t
                     THEN a.order ELSE Append(a.order, t)
    BY <1>1, <1>3 DEF Join, JoinedStates
  <1>7. /\ PartsOf(g, "content") = PartsOf(r, "content")
        /\ PartsOf(g, "reasoning") = PartsOf(r, "reasoning")
        /\ PiecesAt(g, PartsOf(r, "content")) = PiecesAt(r, PartsOf(r, "content"))
        /\ PiecesAt(g, PartsOf(r, "reasoning")) = PiecesAt(r, PartsOf(r, "reasoning"))
        /\ \A u : u # t => PiecesAt(g, CallsOf(g, u)) = PiecesAt(r, CallsOf(r, u))
    BY <1>2, PiecesOtherPart
  <1>8. /\ \A i \in PartsOf(r, "tool_call") : g[i] = r[i] /\ i \in 1 .. l
        /\ \A i : i \in PartsOf(g, "tool_call") <=> i \in PartsOf(r, "tool_call") \/ i = l + 1
        /\ g[l + 1] = e
    BY <1>2, OneMorePart
  <1> HIDE DEF g, e, b, f
  <1>9. PiecesAt(g, CallsOf(g, t))
          = IF d.args = "piece" THEN Append(PiecesAt(r, CallsOf(r, t)), p) ELSE PiecesAt(r, CallsOf(r, t))
    <2>1. /\ CallsOf(r, t) \in SUBSET (1 .. l)
          /\ \A i : i \in CallsOf(g, t) <=> i \in CallsOf(r, t) \/ i = l + 1
      BY <1>2, <1>8 DEF CallsOf
    <2>2. CASE d.args = "piece"
      BY <1>2, <2>1, <2>2, PiecesOfPart DEF g
    <2>3. CASE d.args # "piece"
      BY <1>2, <2>1, <2>3, PiecesOfPart DEF g
    <2>4. QED BY <2>2, <2>3, <1>1
  <1>10. \A u \in ToolCalls : f.args[u] = PiecesAt(g, CallsOf(g, u))
    <2>1. \A u \in ToolCalls : c.args[u] = PiecesAt(r, CallsOf(r, u))
      BY DEF Agrees
    <2>2. f.args[t] = IF d.args = "piece" THEN Append(c.args[t], p) ELSE c.args[t]
      BY <1>1, <1>3, <1>5
    <2>3. \A u \in ToolCalls : u # t => f.args[u] = c.args[u]
      BY <1>3, <1>5
    <2>4. f.args[t] = PiecesAt(g, CallsOf(g, t))
      BY <2>1, <2>2, <1>1, <1>9
    <2>5. QED BY <2>1, <2>3, <2>4, <1>7
  <1>11. \A u : u \in f.calls <=> \E i \in PartsOf(g, "tool_call") : g[i].tool = u
    BY <1>2, <1>5, <1>8 DEF Agrees
  <1>12. \A u : u \in f.calls <=> \E i \in DOMAIN b.order : b.order[i] = u
    <2>1. \A u : u \in c.calls <=> \E i \in DOMAIN a.order : a.order[i] = u
      BY DEF Agrees
    <2>2. CASE \E i \in DOMAIN a.order : a.order[i] = t
      BY <2>1, <2>2, <1>5, <1>6
    <2>3. CASE ~ \E i \in DOMAIN a.order : a.order[i] = t
      <3> DEFINE m == Len(a.order)
      <3>1. /\ m \in Nat /\ DOMAIN a.order = 1 .. m /\ DOMAIN b.order = 1 .. m + 1
            /\ b.order[m + 1] = t
            /\ \A i \in 1 .. m : b.order[i] = a.order[i]
        BY <2>3, <1>1, <1>3, <1>6
      <3> HIDE DEF m
      <3>2. ASSUME NEW u PROVE (\E i \in DOMAIN b.order : b.order[i] = u) <=>
              (\E i \in DOMAIN a.order : a.order[i] = u) \/ u = t
        <4>1. \A i : i \in 1 .. m + 1 <=> i \in 1 .. m \/ i = m + 1
          BY <3>1
        <4>2. QED BY <3>1, <4>1
      <3>3. QED BY <3>2, <2>1, <1>5
    <2>4. QED BY <2>2, <2>3
  <1>13. Agrees(g, b, f)
    <2>1. /\ c.content = PiecesAt(r, PartsOf(r, "content")) /\ a.text = c.content
          /\ c.reasoning = PiecesAt(r, PartsOf(r, "reasoning")) /\ c.args = a.args
      BY DEF Agrees
    <2>2. /\ f.content = PiecesAt(g, PartsOf(g, "content")) /\ b.text = f.content
          /\ f.reasoning = PiecesAt(g, PartsOf(g, "reasoning"))
      BY <2>1, <1>5, <1>6, <1>7
    <2>3. f.args = b.args
      BY <2>1, <1>5, <1>6
    <2>4. QED BY <2>2, <2>3, <1>10, <1>11, <1>12 DEF Agrees
  <1>14. QED BY <1>5, <1>13 DEF g, e, b, f

-----------------------------------------------------------------------------
(* The tool call deltas of a chunk                                         *)

\* ToolDelta and Join map states to states, whatever these are.
LEMMA ToolDeltaType ==
  ASSUME NEW s \in StreamStates, NEW d \in ToolDeltas, NEW p \in Nat
  PROVE  ToolDelta(s, d, p) \in StreamStates
  <1> DEFINE t == d.tool
  <1>1. t \in ToolCalls /\ d.args \in Contents
    BY DEF ToolDeltas
  <1>2. /\ \A x \in StreamStates, e \in Event : Emit(x, e) \in StreamStates
        /\ "text" \in Kinds /\ "tool_use" \in Kinds
    <2>1. ASSUME NEW x \in StreamStates, NEW e \in Event PROVE Emit(x, e) \in StreamStates
      <3>1. <<>> \in Seq(Event)
        OBVIOUS
      <3>2. QED BY <3>1, EmitHistory
    <2>2. QED BY <2>1 DEF Kinds
  <1>3. CloseText(s) \in StreamStates
    <2> DEFINE v == [s EXCEPT !.textClosed = TRUE]
    <2>1. v \in StreamStates /\ BlockStop(s.textBlock) \in Event
      <3>1. s.textBlock \in Int
        BY DEF StreamStates
      <3>2. v \in StreamStates
        BY DEF StreamStates
      <3>3. QED BY <3>1, <3>2, EventTypes
    <2>2. QED BY <1>2, <2>1 DEF CloseText
  <1>4. OpenTool(s, t) \in StreamStates
    <2> DEFINE c == CloseText(s)
               u == [c EXCEPT !.blockOf[t] = c.next, !.next = @ + 1, !.active = "tool_use"]
    <2> HIDE DEF c
    <2>1. c.next \in Nat /\ c.next \in Int /\ c.next + 1 \in Nat /\ c \in StreamStates
      BY <1>3 DEF StreamStates, c
    <2>2. u \in StreamStates
      BY <1>1, <2>1 DEF StreamStates
    <2>3. BlockStart(c.next, "tool_use") \in Event
      BY <1>2, <2>1, EventTypes
    <2> HIDE DEF u
    <2>4. Emit(u, BlockStart(c.next, "tool_use")) \in StreamStates
      BY <1>2, <2>2, <2>3
    <2>5. QED BY <2>4 DEF OpenTool, u, c
  <1> DEFINE o == OpenTool(s, t)
  <1>5. Delta(o.blockOf[t], "tool_use", p) \in Event
    <2> HIDE DEF o
    <2>1. o.blockOf[t] \in Int
      BY <1>1, <1>4 DEF StreamStates, o
    <2>2. QED BY <1>2, <2>1, EventTypes
  <1>6. Emit(o, Delta(o.blockOf[t], "tool_use", p)) \in StreamStates
    BY <1>2, <1>4, <1>5
  <1>7. QED BY <1>4, <1>6 DEF ToolDelta

\* Join keeps the type of what is collected.
LEMMA JoinType ==
  ASSUME NEW a \in JoinedStates, NEW d \in ToolDeltas, NEW p \in Nat
  PROVE  Join(a, d, p) \in JoinedStates
  <1>1. d.tool \in ToolCalls /\ d.args \in Contents
    BY DEF ToolDeltas
  <1>2. /\ a.order \in Seq(ToolCalls) /\ a.args \in [ToolCalls -> Seq(Nat)]
    BY DEF JoinedStates
  <1>3. Append(a.order, d.tool) \in Seq(ToolCalls) /\ Append(a.args[d.tool], p) \in Seq(Nat)
    BY <1>1, <1>2, AppendProperties
  <1>4. QED BY <1>1, <1>2, <1>3 DEF Join, JoinedStates

\* AddToolCall keeps the type of a completion.
LEMMA AddToolCallType ==
  ASSUME NEW c \in CompletionStates, NEW d \in ToolDeltas, NEW p \in Nat
  PROVE  AddToolCall(c, d, p) \in CompletionStates
  <1>1. d.tool \in ToolCalls /\ d.args \in Contents
    BY DEF ToolDeltas
  <1>2. c.args \in [ToolCalls -> Seq(Nat)] /\ c.calls \in SUBSET ToolCalls
    BY DEF CompletionStates
  <1>3. Append(c.args[d.tool], p) \in Seq(Nat) /\ c.calls \cup {d.tool} \in SUBSET ToolCalls
    BY <1>1, <1>2, AppendProperties
  <1>4. QED BY <1>1, <1>2, <1>3 DEF AddToolCall, CompletionStates

\* The recursions over the deltas are what they say.
LEMMA ConsumeToolsSteps ==
  ASSUME NEW s \in StreamStates, NEW tools \in Seq(ToolDeltas), NEW p \in Nat
  PROVE  \E g : /\ g[0] = s
                /\ \A k \in 1 .. Len(tools) : g[k] = ToolDelta(g[k - 1], tools[k], p)
                /\ ConsumeTools(s, tools, p) = g[Len(tools)]
  <1> DEFINE m == Len(tools)
             step == [k \in 1 .. m |-> [x \in StreamStates |-> ToolDelta(x, tools[k], p)]]
             Is(g) == g = [k \in 0 .. m |-> IF k = 0 THEN s ELSE ToolDelta(g[k - 1], tools[k], p)]
             after == CHOOSE g : Is(g)
  <1>1. m \in Nat /\ step \in [1 .. m -> [StreamStates -> StreamStates]]
    BY ToolDeltaType
  <1>2. PICK g \in Maps(0 .. m, StreamStates) : Recurs(g, m, s, step)
    <2>1. step \in Maps(1 .. m, Maps(StreamStates, StreamStates))
      BY <1>1 DEF Maps
    <2> HIDE DEF step, m
    <2>2. QED BY <1>1, <2>1, RecursionExists
  <1>3. \A k \in 1 .. m : g[k] = ToolDelta(g[k - 1], tools[k], p)
    <2>1. \A k \in 1 .. m : k - 1 \in 0 .. m /\ g[k - 1] \in StreamStates
      <3>1. m \in Nat /\ g \in Maps(0 .. m, StreamStates)
        BY <1>1, <1>2
      <3> HIDE DEF m
      <3>2. QED BY <3>1 DEF Maps
    <2>2. QED BY <1>2, <2>1 DEF Recurs
  <1>4. Is(g)
    <2>1. \A k \in 0 .. m : g[k] = IF k = 0 THEN s ELSE ToolDelta(g[k - 1], tools[k], p)
      BY <1>1, <1>2, <1>3 DEF Recurs
    <2>2. g = [k \in 0 .. m |-> g[k]]
      BY <1>2 DEF Maps
    <2> HIDE DEF step
    <2>3. QED BY <2>1, <2>2
  <1>5. Is(after)
    <2> HIDE DEF Is
    <2>1. QED BY <1>4
  <1>6. ConsumeTools(s, tools, p) = after[m]
    BY DEF ConsumeTools
  <1> HIDE DEF after
  <1>7. after[0] = s /\ \A k \in 1 .. m : after[k] = ToolDelta(after[k - 1], tools[k], p)
    BY <1>1, <1>5
  <1>8. QED BY <1>6, <1>7

\* The recursion of Joins.
LEMMA JoinsSteps ==
  ASSUME NEW a \in JoinedStates, NEW tools \in Seq(ToolDeltas), NEW p \in Nat
  PROVE  \E g : /\ g[0] = a
                /\ \A k \in 1 .. Len(tools) : g[k] = Join(g[k - 1], tools[k], p)
                /\ Joins(a, tools, p) = g[Len(tools)]
  <1> DEFINE m == Len(tools)
             step == [k \in 1 .. m |-> [x \in JoinedStates |-> Join(x, tools[k], p)]]
             Is(g) == g = [k \in 0 .. m |-> IF k = 0 THEN a ELSE Join(g[k - 1], tools[k], p)]
             after == CHOOSE g : Is(g)
  <1>1. m \in Nat /\ step \in [1 .. m -> [JoinedStates -> JoinedStates]]
    BY JoinType
  <1>2. PICK g \in Maps(0 .. m, JoinedStates) : Recurs(g, m, a, step)
    <2>1. step \in Maps(1 .. m, Maps(JoinedStates, JoinedStates))
      BY <1>1 DEF Maps
    <2> HIDE DEF step, m
    <2>2. QED BY <1>1, <2>1, RecursionExists
  <1>3. \A k \in 1 .. m : g[k] = Join(g[k - 1], tools[k], p)
    <2>1. \A k \in 1 .. m : k - 1 \in 0 .. m /\ g[k - 1] \in JoinedStates
      <3>1. m \in Nat /\ g \in Maps(0 .. m, JoinedStates)
        BY <1>1, <1>2
      <3> HIDE DEF m
      <3>2. QED BY <3>1 DEF Maps
    <2>2. QED BY <1>2, <2>1 DEF Recurs
  <1>4. Is(g)
    <2>1. \A k \in 0 .. m : g[k] = IF k = 0 THEN a ELSE Join(g[k - 1], tools[k], p)
      BY <1>1, <1>2, <1>3 DEF Recurs
    <2>2. g = [k \in 0 .. m |-> g[k]]
      BY <1>2 DEF Maps
    <2> HIDE DEF step
    <2>3. QED BY <2>1, <2>2
  <1>5. Is(after)
    <2> HIDE DEF Is
    <2>1. QED BY <1>4
  <1>6. Joins(a, tools, p) = after[m]
    BY DEF Joins
  <1> HIDE DEF after
  <1>7. after[0] = a /\ \A k \in 1 .. m : after[k] = Join(after[k - 1], tools[k], p)
    BY <1>1, <1>5
  <1>8. QED BY <1>6, <1>7

\* The recursion of AddToolCalls.
LEMMA AddToolCallsSteps ==
  ASSUME NEW c \in CompletionStates, NEW tools \in Seq(ToolDeltas), NEW p \in Nat
  PROVE  \E g : /\ g[0] = c
                /\ \A k \in 1 .. Len(tools) : g[k] = AddToolCall(g[k - 1], tools[k], p)
                /\ AddToolCalls(c, tools, p) = g[Len(tools)]
  <1> DEFINE m == Len(tools)
             step == [k \in 1 .. m |-> [x \in CompletionStates |-> AddToolCall(x, tools[k], p)]]
             Is(g) == g = [k \in 0 .. m |-> IF k = 0 THEN c ELSE AddToolCall(g[k - 1], tools[k], p)]
             after == CHOOSE g : Is(g)
  <1>1. m \in Nat /\ step \in [1 .. m -> [CompletionStates -> CompletionStates]]
    BY AddToolCallType
  <1>2. PICK g \in Maps(0 .. m, CompletionStates) : Recurs(g, m, c, step)
    <2>1. step \in Maps(1 .. m, Maps(CompletionStates, CompletionStates))
      BY <1>1 DEF Maps
    <2> HIDE DEF step, m
    <2>2. QED BY <1>1, <2>1, RecursionExists
  <1>3. \A k \in 1 .. m : g[k] = AddToolCall(g[k - 1], tools[k], p)
    <2>1. \A k \in 1 .. m : k - 1 \in 0 .. m /\ g[k - 1] \in CompletionStates
      <3>1. m \in Nat /\ g \in Maps(0 .. m, CompletionStates)
        BY <1>1, <1>2
      <3> HIDE DEF m
      <3>2. QED BY <3>1 DEF Maps
    <2>2. QED BY <1>2, <2>1 DEF Recurs
  <1>4. Is(g)
    <2>1. \A k \in 0 .. m : g[k] = IF k = 0 THEN c ELSE AddToolCall(g[k - 1], tools[k], p)
      BY <1>1, <1>2, <1>3 DEF Recurs
    <2>2. g = [k \in 0 .. m |-> g[k]]
      BY <1>2 DEF Maps
    <2> HIDE DEF step
    <2>3. QED BY <2>1, <2>2
  <1>5. Is(after)
    <2> HIDE DEF Is
    <2>1. QED BY <1>4
  <1>6. AddToolCalls(c, tools, p) = after[m]
    BY DEF AddToolCalls
  <1> HIDE DEF after
  <1>7. after[0] = c /\ \A k \in 1 .. m : after[k] = AddToolCall(after[k - 1], tools[k], p)
    BY <1>1, <1>5
  <1>8. QED BY <1>6, <1>7

\* The parts the deltas are relayed as.
Relays(tools, k, p) == [i \in 1 .. k |-> Call(tools[i], p)]

\* One more delta relayed is one more part.
LEMMA RelaysGrow ==
  ASSUME NEW r \in Seq(Part), NEW tools \in Seq(ToolDeltas), NEW p \in Nat,
         NEW k \in 0 .. Len(tools) - 1
  PROVE  /\ r \o Relays(tools, k, p) \in Seq(Part)
         /\ r \o Relays(tools, k + 1, p) = Append(r \o Relays(tools, k, p), Call(tools[k + 1], p))
         /\ Call(tools[k + 1], p) \in Part /\ tools[k + 1] \in ToolDeltas
  <1> DEFINE v == Relays(tools, k, p)
             w == Relays(tools, k + 1, p)
             e == Call(tools[k + 1], p)
  <1>1. \A i \in 1 .. k + 1 : tools[i] \in ToolDeltas
    OBVIOUS
  <1>2. \A i \in 1 .. k + 1 : Call(tools[i], p) \in Part
    BY <1>1, PartTypes
  <1>3. v \in [1 .. k -> Part] /\ w \in [1 .. k + 1 -> Part] /\ e \in Part
    BY <1>2 DEF Relays
  <1>4. /\ v \in Seq(Part) /\ Len(v) = k /\ k \in Nat
        /\ \A i \in 1 .. k : w[i] = v[i]
        /\ w[k + 1] = e
    BY <1>3 DEF Relays
  <1> HIDE DEF v, w, e
  <1>5. w = Append(v, e)
    <2> DEFINE g == Append(v, e)
    <2>1. g \in Seq(Part) /\ Len(g) = k + 1 /\ (\A i \in 1 .. k : g[i] = v[i]) /\ g[k + 1] = e
      BY <1>3, <1>4, AppendProperties
    <2> HIDE DEF g
    <2>2. g \in [1 .. k + 1 -> Part]
      BY <1>4, <2>1
    <2>3. ASSUME NEW i \in 1 .. k + 1 PROVE w[i] = g[i]
      <3>1. CASE i = k + 1
        BY <3>1, <1>4, <2>1
      <3>2. CASE i \in 1 .. k
        BY <3>2, <1>4, <2>1
      <3>3. QED BY <1>4, <3>1, <3>2
    <2>4. w = g
      BY <1>3, <2>2, <2>3
    <2>5. QED BY <2>4 DEF g
  <1>6. r \o v \in Seq(Part) /\ r \o Append(v, e) = Append(r \o v, e)
    BY <1>3, <1>4, ConcatProperties, ConcatAppend
  <1>7. k + 1 \in 1 .. k + 1 /\ r \o w = Append(r \o v, e)
    BY <1>4, <1>5, <1>6
  <1>8. tools[k + 1] \in ToolDeltas
    BY <1>1, <1>7
  <1>9. /\ r \o Relays(tools, k, p) \in Seq(Part)
        /\ r \o Relays(tools, k + 1, p) = Append(r \o Relays(tools, k, p), Call(tools[k + 1], p))
        /\ Call(tools[k + 1], p) \in Part
    BY <1>3, <1>6, <1>7 DEF v, w, e
  <1>10. QED BY <1>8, <1>9

\* The tool call deltas of a chunk, one after the other, keep the clients together.
LEMMA ToolsRun ==
  ASSUME NEW h \in Seq(Event), NEW s \in StreamStates, NEW a \in JoinedStates,
         NEW c \in CompletionStates, NEW r \in Seq(Part), NEW f,
         NEW tools \in Seq(ToolDeltas), NEW p \in Nat \ {0},
         Running(h, s, a), Agrees(r, a, c), Told(r, f)
  PROVE  /\ ConsumeTools(s, tools, p) \in StreamStates
         /\ Joins(a, tools, p) \in JoinedStates
         /\ AddToolCalls(c, tools, p) \in CompletionStates
         /\ r \o Relays(tools, Len(tools), p) \in Seq(Part)
         /\ Running(h, ConsumeTools(s, tools, p), Joins(a, tools, p))
         /\ Agrees(r \o Relays(tools, Len(tools), p), Joins(a, tools, p),
                   AddToolCalls(c, tools, p))
         /\ Told(r \o Relays(tools, Len(tools), p), f)
         /\ ConsumeTools(s, tools, p).finish = s.finish
         /\ Joins(a, tools, p).finish = a.finish
         /\ AddToolCalls(c, tools, p).finish = c.finish
  <1> DEFINE m == Len(tools)
  <1>1. m \in Nat
    OBVIOUS
  <1>2. PICK z : /\ z[0] = s /\ ConsumeTools(s, tools, p) = z[m]
                 /\ \A k \in 1 .. m : z[k] = ToolDelta(z[k - 1], tools[k], p)
    BY ConsumeToolsSteps, SMTT(30)
  <1>3. PICK b : /\ b[0] = a /\ Joins(a, tools, p) = b[m]
                 /\ \A k \in 1 .. m : b[k] = Join(b[k - 1], tools[k], p)
    BY JoinsSteps
  <1>4. PICK d : /\ d[0] = c /\ AddToolCalls(c, tools, p) = d[m]
                 /\ \A k \in 1 .. m : d[k] = AddToolCall(d[k - 1], tools[k], p)
    BY AddToolCallsSteps
  <1> DEFINE Q(k) == r \o Relays(tools, k, p)
             Holds(k) == /\ z[k] \in StreamStates /\ b[k] \in JoinedStates
                         /\ d[k] \in CompletionStates /\ Q(k) \in Seq(Part)
                         /\ Running(h, z[k], b[k]) /\ Agrees(Q(k), b[k], d[k])
                         /\ Told(Q(k), f)
                         /\ z[k].finish = s.finish /\ b[k].finish = a.finish
                         /\ d[k].finish = c.finish
             S == {k \in 0 .. m : Holds(k)}
  <1>5. Holds(0)
    <2>1. Q(0) = r
      <3>1. Relays(tools, 0, p) = <<>>
        BY DEF Relays
      <3>2. QED BY <3>1
    <2> HIDE DEF Q
    <2>2. QED BY <2>1, <1>2, <1>3, <1>4
  <1>6. ASSUME NEW k \in 0 .. m - 1, Holds(k)
        PROVE  Holds(k + 1)
    <2> DEFINE e == Call(tools[k + 1], p)
               t == tools[k + 1]
    <2>1. Q(k) \in Seq(Part) /\ Q(k + 1) = Append(Q(k), e) /\ e \in Part /\ t \in ToolDeltas
      BY RelaysGrow
    <2> HIDE DEF Q
    <2>2. /\ z[k + 1] = ToolDelta(z[k], t, p) /\ b[k + 1] = Join(b[k], t, p)
          /\ d[k + 1] = AddToolCall(d[k], t, p)
      <3>1. k + 1 \in 1 .. m /\ (k + 1) - 1 = k
        BY <1>1
      <3>2. QED BY <3>1, <1>2, <1>3, <1>4
    <2>3. e.part = "tool_call"
      BY DEF Call
    <2> HIDE DEF e, t
    <2>4. /\ z[k] \in StreamStates /\ b[k] \in JoinedStates /\ d[k] \in CompletionStates
          /\ Running(h, z[k], b[k]) /\ Agrees(Q(k), b[k], d[k]) /\ Told(Q(k), f)
          /\ z[k].finish = s.finish /\ b[k].finish = a.finish /\ d[k].finish = c.finish
      BY <1>6
    <2> DEFINE z0 == z[k]  z1 == z[k + 1]  b0 == b[k]  b1 == b[k + 1]
               d0 == d[k]  d1 == d[k + 1]  q0 == Q(k)  q1 == Q(k + 1)
    <2>5. /\ q0 \in Seq(Part) /\ q1 = Append(q0, e) /\ e \in Part /\ t \in ToolDeltas
          /\ z1 = ToolDelta(z0, t, p) /\ b1 = Join(b0, t, p) /\ d1 = AddToolCall(d0, t, p)
          /\ z0 \in StreamStates /\ b0 \in JoinedStates /\ d0 \in CompletionStates
          /\ Running(h, z0, b0) /\ Agrees(q0, b0, d0) /\ Told(q0, f)
          /\ z0.finish = s.finish /\ b0.finish = a.finish /\ d0.finish = c.finish
          /\ e = Call(t, p)
      BY <2>1, <2>2, <2>4 DEF e, t
    <2>6. SUFFICES /\ z1 \in StreamStates /\ b1 \in JoinedStates /\ d1 \in CompletionStates
                   /\ q1 \in Seq(Part) /\ Running(h, z1, b1) /\ Agrees(q1, b1, d1) /\ Told(q1, f)
                   /\ z1.finish = s.finish /\ b1.finish = a.finish /\ d1.finish = c.finish
      OBVIOUS
    <2> HIDE DEF z0, z1, b0, b1, d0, d1, q0, q1, Holds, S, m
    <2>7. /\ z1 \in StreamStates /\ b1 \in JoinedStates /\ Running(h, z1, b1)
          /\ z1.finish = s.finish /\ b1.finish = a.finish
      BY <2>5, ToolDeltaRuns
    <2>8. Agrees(q1, b1, d1) /\ d1 \in CompletionStates /\ d1.finish = c.finish
      BY <2>5, AgreesCall
    <2>9. Told(q1, f) /\ q1 \in Seq(Part)
      BY <2>3, <2>5, ToldKept, AppendProperties
    <2>10. QED BY <2>7, <2>8, <2>9
  <1> HIDE DEF Holds, m
  <1>7. 0 \in S /\ \A k \in 0 .. m - 1 : k \in S => k + 1 \in S
    BY <1>1, <1>5, <1>6
  <1>8. m \in S
    <2> HIDE DEF S
    <2>1. \A k \in 0 .. m : k \in S
      BY <1>1, <1>7, BoundedInduction
    <2>2. QED BY <2>1, <1>1
  <1>9. Holds(m)
    BY <1>8
  <1>10. QED BY <1>2, <1>3, <1>4, <1>9 DEF Holds, m

-----------------------------------------------------------------------------
(* A chunk                                                                 *)

\* What the predicates say of a state depends on these fields alone.
LEMMA SameFields ==
  ASSUME NEW h, NEW s, NEW z, NEW a, NEW b,
         z.started = s.started, z.textBlock = s.textBlock, z.textClosed = s.textClosed,
         z.active = s.active, z.blockOf = s.blockOf, z.next = s.next,
         b.text = a.text, b.order = a.order, b.args = a.args
  PROVE  /\ Flow(h, s) => Flow(h, z)
         /\ Settled(h, s) => Settled(h, z)
         /\ Matches(h, s, a) => Matches(h, z, b)
  <1>1. /\ Numbering(s) => Numbering(z)
        /\ Begun(h, s) => Begun(h, z)
        /\ Started(h, s) => Started(h, z)
    BY DEF Numbering, Begun, Started
  <1>2. Stopped(h, s) => Stopped(h, z)
    BY DEF Stopped
  <1>3. Settled(h, s) => Settled(h, z)
    BY DEF Settled
  <1>4. Matches(h, s, a) => Matches(h, z, b)
    BY DEF Matches
  <1>5. QED BY <1>1, <1>2, <1>3, <1>4 DEF Flow

\* A call on the state machine starts the message if nothing has.
LEMMA StartMessageRuns ==
  ASSUME NEW h \in Seq(Event), NEW s \in StreamStates, NEW a,
         Flow(h, s), Settled(h, s), Matches(h, s, a),
         NEW z, z = StartMessage([s EXCEPT !.events = <<>>])
  PROVE  /\ z \in StreamStates /\ Running(h, z, a)
         /\ z.finish = s.finish /\ z.textBlock = s.textBlock /\ z.textClosed = s.textClosed
         /\ z.active = s.active /\ z.blockOf = s.blockOf /\ z.next = s.next
  <1> DEFINE u == [s EXCEPT !.events = <<>>]
             v == [u EXCEPT !.started = TRUE]
  <1>1. /\ u \in StreamStates /\ u.events = <<>> /\ u.started = s.started
        /\ u.finish = s.finish /\ u.textBlock = s.textBlock /\ u.textClosed = s.textClosed
        /\ u.active = s.active /\ u.blockOf = s.blockOf /\ u.next = s.next
    <2>1. u.events = <<>> /\ <<>> \in Seq(Event)
      BY DEF StreamStates
    <2>2. u \in StreamStates
      BY <2>1 DEF StreamStates
    <2>3. /\ u.started = s.started
          /\ u.finish = s.finish /\ u.textBlock = s.textBlock /\ u.textClosed = s.textClosed
          /\ u.active = s.active /\ u.blockOf = s.blockOf /\ u.next = s.next
      BY DEF StreamStates
    <2>4. QED BY <2>1, <2>2, <2>3
  <1>2. History(h, u) = h
    BY <1>1 DEF History
  <1>3. Flow(h, u) /\ Settled(h, u) /\ Matches(h, u, a)
    <2> HIDE DEF u
    <2>1. QED BY <1>1, SameFields
  <1>4. CASE s.started
    <2>1. z = u
      BY <1>1, <1>4 DEF StartMessage
    <2> HIDE DEF u
    <2>2. QED BY <2>1, <1>1, <1>2, <1>3, <1>4 DEF Running
  <1>5. CASE ~ s.started
    <2>1. z = Emit(v, MessageStart)
      BY <1>1, <1>5 DEF StartMessage
    <2>2. /\ v \in StreamStates /\ v.events = <<>> /\ v.started
          /\ v.finish = u.finish /\ v.textBlock = u.textBlock /\ v.textClosed = u.textClosed
          /\ v.active = u.active /\ v.blockOf = u.blockOf /\ v.next = u.next
      <3> HIDE DEF u
      <3>1. v \in StreamStates
        BY <1>1 DEF StreamStates
      <3>2. QED BY <3>1, <1>1 DEF StreamStates
    <2>3. MessageStart \in Event /\ MessageStart.type = "message_start"
      BY EventTypes DEF MessageStart
    <2> DEFINE g == Append(h, MessageStart)
    <2>4. History(h, v) = h
      BY <2>2 DEF History
    <2>5. Flow(g, v) /\ Settled(g, v)
      <3>1. v = [u EXCEPT !.started = TRUE, !.events = v.events] /\ ~ u.started
        BY <1>1, <1>5
      <3> HIDE DEF u, v
      <3>2. QED BY <3>1, <1>1, <1>3, <2>2, FlowBegins
    <2>6. Matches(g, v, a)
      <3> HIDE DEF u, v
      <3>1. MessageStart.type # "content_block_delta"
        BY <2>3
      <3>2. QED BY <3>1, <1>3, <2>2, <2>3, MatchesKept
    <2> HIDE DEF u, v, g
    <2>7. /\ z \in StreamStates /\ History(h, z) = Append(History(h, v), MessageStart)
          /\ z.started = v.started /\ z.textBlock = v.textBlock
          /\ z.textClosed = v.textClosed /\ z.active = v.active
          /\ z.blockOf = v.blockOf /\ z.next = v.next
          /\ z.finish = v.finish
      <3> DEFINE y == Emit(v, MessageStart)
      <3>1. /\ y \in StreamStates /\ History(h, y) = Append(History(h, v), MessageStart)
            /\ y.started = v.started /\ y.textBlock = v.textBlock
            /\ y.textClosed = v.textClosed /\ y.active = v.active
            /\ y.blockOf = v.blockOf /\ y.next = v.next
            /\ y.finish = v.finish
        BY <2>2, <2>3, EmitFields
      <3> HIDE DEF y
      <3>2. z = y
        BY <2>1 DEF y
      <3>3. QED BY <3>1, <3>2
    <2>8. History(h, z) = g
      BY <2>4, <2>7 DEF g
    <2>9. Flow(g, z) /\ Settled(g, z) /\ Matches(g, z, a)
      BY <2>5, <2>6, <2>7, SameFields
    <2>10. QED BY <1>1, <2>2, <2>7, <2>8, <2>9 DEF Running
  <1>6. QED BY <1>4, <1>5

\* What a chunk is made of.
LEMMA ChunkTypes ==
  ASSUME NEW chunk \in Chunks
  PROVE  /\ chunk.content \in {"null", "empty", "piece"} /\ chunk.reasoning \in BOOLEAN
         /\ chunk.tools \in Seq(ToolDeltas) /\ chunk.finish \in Finishes
  <1>1. chunk \in AnyChunk
    BY DEF Chunks
  <1>2. PICK k \in 0 .. MaxDeltas : chunk.tools \in [1 .. k -> ToolDeltas]
    BY <1>1 DEF AnyChunk
  <1>3. k \in Nat
    BY BoundsAssumption
  <1>4. chunk.tools \in Seq(ToolDeltas)
    BY <1>2, <1>3
  <1>5. QED BY <1>1, <1>4 DEF AnyChunk, Contents, Finishes

\* What the content of a chunk makes of the stream's state, of the two collected
\* answers and of the parts relayed; what its reasoning and its finish_reason do.
TextOf(s, content, p) ==
  CASE content = "null"  -> s
    [] content = "empty" -> TextDelta(s, 0)
    [] content = "piece" -> TextDelta(s, p)
TextKept(a, content, p) == [a EXCEPT !.text = IF content = "piece" THEN Append(@, p) ELSE @]
ContentKept(c, content, p) ==
  [c EXCEPT !.content = IF content = "piece" THEN Append(@, p) ELSE @]
ContentSent(r, content, p) ==
  CASE content = "null"  -> r
    [] content = "empty" -> Append(r, Text(0))
    [] content = "piece" -> Append(r, Text(p))
ReasoningKept(c, reasoning, p) ==
  [c EXCEPT !.reasoning = IF reasoning THEN Append(@, p) ELSE @]
ReasoningSent(r, reasoning, p) == IF reasoning THEN Append(r, Thought(p)) ELSE r
FinishSent(r, finish) == IF finish = NoFinish THEN r ELSE Append(r, Finished(finish))

\* consume_chunk and add of the collected message.
LEMMA TextRuns ==
  ASSUME NEW h \in Seq(Event), NEW s \in StreamStates, NEW a \in JoinedStates,
         NEW content \in {"null", "empty", "piece"}, NEW p \in Nat \ {0}, Running(h, s, a)
  PROVE  /\ TextOf(s, content, p) \in StreamStates
         /\ TextKept(a, content, p) \in JoinedStates
         /\ Running(h, TextOf(s, content, p), TextKept(a, content, p))
         /\ TextOf(s, content, p).finish = s.finish /\ TextKept(a, content, p).finish = a.finish
  <1> DEFINE z == TextOf(s, content, p)
             b == TextKept(a, content, p)
  <1>1. a.text \in Seq(Nat) /\ Append(a.text, p) \in Seq(Nat)
    BY AppendProperties DEF JoinedStates
  <1>2. CASE content = "null"
    <2>1. z = s /\ b = a
      BY <1>2 DEF JoinedStates, TextOf, TextKept
    <2>2. QED BY <2>1
  <1>3. CASE content = "empty"
    <2>1. /\ z = TextDelta(s, 0) /\ b = a
          /\ [a EXCEPT !.text = IF 0 = 0 THEN @ ELSE Append(@, 0)] = a
      BY <1>3 DEF JoinedStates, TextOf, TextKept
    <2>2. /\ TextDelta(s, 0) \in StreamStates /\ TextDelta(s, 0).finish = s.finish
          /\ Running(h, TextDelta(s, 0), [a EXCEPT !.text = IF 0 = 0 THEN @ ELSE Append(@, 0)])
      <3>1. 0 \in Nat
        OBVIOUS
      <3>2. QED BY <3>1, TextDeltaRuns
    <2>3. QED BY <2>1, <2>2
  <1>4. CASE content = "piece"
    <2>1. /\ z = TextDelta(s, p) /\ b = [a EXCEPT !.text = Append(@, p)]
          /\ [a EXCEPT !.text = IF p = 0 THEN @ ELSE Append(@, p)]
               = [a EXCEPT !.text = Append(@, p)]
      BY <1>4 DEF TextOf, TextKept
    <2>2. b \in JoinedStates /\ b.finish = a.finish
      BY <1>1, <2>1 DEF JoinedStates
    <2>3. z \in StreamStates /\ z.finish = s.finish /\ Running(h, z, b)
      <3>1. p \in Nat
        OBVIOUS
      <3>2. /\ TextDelta(s, p) \in StreamStates /\ TextDelta(s, p).finish = s.finish
            /\ Running(h, TextDelta(s, p), [a EXCEPT !.text = IF p = 0 THEN @ ELSE Append(@, p)])
        BY <3>1, TextDeltaRuns
      <3>3. QED BY <2>1, <3>2
    <2>4. QED BY <2>2, <2>3
  <1>5. QED BY <1>2, <1>3, <1>4

\* Joining sequences is associative.
LEMMA Joining ==
  ASSUME NEW E, NEW u \in Seq(E), NEW v \in Seq(E), NEW w \in Seq(E)
  PROVE  u \o (v \o w) = (u \o v) \o w
  BY SMT

\* What a chunk is relayed as, piece by piece.
LEMMA SanitizeRelays ==
  ASSUME NEW r \in Seq(Part), NEW chunk \in Chunks, NEW p \in Nat \ {0}
  PROVE  r \o Sanitize(chunk, p)
           = FinishSent(ReasoningSent(ContentSent(r, chunk.content, p), chunk.reasoning, p)
                          \o Relays(chunk.tools, Len(chunk.tools), p), chunk.finish)
  <1> DEFINE r1 == ContentSent(r, chunk.content, p)
             r2 == ReasoningSent(r1, chunk.reasoning, p)
             r3 == r2 \o Relays(chunk.tools, Len(chunk.tools), p)
             r4 == FinishSent(r3, chunk.finish)
  <1> DEFINE A == CASE chunk.content = "null"  -> <<>>
                    [] chunk.content = "empty" -> <<Text(0)>>
                    [] chunk.content = "piece" -> <<Text(p)>>
             B == IF chunk.reasoning THEN <<Thought(p)>> ELSE <<>>
             C == Relays(chunk.tools, Len(chunk.tools), p)
             D == IF chunk.finish = NoFinish THEN <<>> ELSE <<Finished(chunk.finish)>>
  <1>1. /\ chunk.content \in {"null", "empty", "piece"} /\ chunk.reasoning \in BOOLEAN
        /\ chunk.tools \in Seq(ToolDeltas) /\ chunk.finish \in Finishes
    BY ChunkTypes
  <1>2. /\ Text(0) \in Part /\ Text(p) \in Part /\ Thought(p) \in Part
        /\ chunk.finish # NoFinish => Finished(chunk.finish) \in Part
    BY <1>1, PartTypes DEF Finishes
  <1>3. A \in Seq(Part) /\ B \in Seq(Part) /\ D \in Seq(Part)
    <2>1. A \in Seq(Part)
      BY <1>1, <1>2
    <2>2. B \in Seq(Part)
      BY <1>2
    <2>3. D \in Seq(Part)
      BY <1>2
    <2>4. QED BY <2>1, <2>2, <2>3
  <1>4. C \in Seq(Part)
    <2>1. Len(chunk.tools) \in Nat /\ DOMAIN chunk.tools = 1 .. Len(chunk.tools)
      BY <1>1, LenProperties
    <2>2. \A i \in 1 .. Len(chunk.tools) : Call(chunk.tools[i], p) \in Part
      <3>1. \A i \in 1 .. Len(chunk.tools) : chunk.tools[i] \in ToolDeltas
        BY <1>1
      <3>2. QED BY <3>1, PartTypes
    <2>3. QED BY <2>1, <2>2 DEF Relays
  <1>5. Sanitize(chunk, p) = A \o B \o C \o D
    <2>1. [i \in DOMAIN chunk.tools |-> Call(chunk.tools[i], p)] = C
      BY <1>1, LenProperties DEF Relays
    <2>2. QED BY <2>1 DEF Sanitize
  <1>6. r \o A = r1
    <2>1. CASE chunk.content = "null"
      <3>1. A = <<>> /\ r1 = r
        BY <2>1 DEF ContentSent
      <3>2. QED BY <3>1, ConcatEmptySeq
    <2>2. CASE chunk.content = "empty"
      <3>1. A = <<Text(0)>> /\ r1 = Append(r, Text(0))
        BY <2>2 DEF ContentSent
      <3>2. QED BY <3>1, <1>2, AppendIsConcat
    <2>3. CASE chunk.content = "piece"
      <3>1. A = <<Text(p)>> /\ r1 = Append(r, Text(p))
        BY <2>3 DEF ContentSent
      <3>2. QED BY <3>1, <1>2, AppendIsConcat
    <2>4. QED BY <1>1, <2>1, <2>2, <2>3
  <1> HIDE DEF A
  <1>7. r1 \in Seq(Part)
    BY <1>3, <1>6, ConcatProperties, ZenonT(30)
  <1>8. r1 \o B = r2
    <2>1. CASE chunk.reasoning
      BY <2>1, <1>2, <1>7, AppendIsConcat DEF ReasoningSent
    <2>2. CASE ~ chunk.reasoning
      BY <2>2, <1>7, ConcatEmptySeq DEF ReasoningSent
    <2>3. QED BY <2>1, <2>2
  <1> HIDE DEF B
  <1>9. r2 \in Seq(Part)
    BY <1>3, <1>7, <1>8, ConcatProperties, ZenonT(30)
  <1> HIDE DEF C
  <1>10. r2 \o C = r3
    BY DEF C
  <1>11. r3 \in Seq(Part)
    BY <1>4, <1>9, <1>10, ConcatProperties
  <1>12. r3 \o D = r4
    <2>1. CASE chunk.finish = NoFinish
      BY <2>1, <1>11, ConcatEmptySeq DEF FinishSent
    <2>2. CASE chunk.finish # NoFinish
      BY <2>2, <1>2, <1>11, AppendIsConcat DEF FinishSent
    <2>3. QED BY <2>1, <2>2
  <1> HIDE DEF D
  <1>13. r \o (A \o B \o C \o D) = (((r \o A) \o B) \o C) \o D
    <2>1. r \o (A \o B \o C \o D) = (r \o (A \o B \o C)) \o D
      <3> DEFINE E == A \o B \o C
      <3>1. E \in Seq(Part)
        BY <1>3, <1>4, ConcatProperties
      <3> HIDE DEF E
      <3>2. r \o (E \o D) = (r \o E) \o D
        BY <3>1, <1>3, Joining
      <3>3. QED BY <3>2 DEF E
    <2>2. r \o (A \o B \o C) = (r \o (A \o B)) \o C
      <3> DEFINE E == A \o B
      <3>1. E \in Seq(Part)
        BY <1>3, ConcatProperties
      <3> HIDE DEF E
      <3>2. r \o (E \o C) = (r \o E) \o C
        BY <3>1, <1>4, Joining
      <3>3. QED BY <3>2 DEF E
    <2>3. r \o (A \o B) = (r \o A) \o B
      BY <1>3, Joining
    <2>4. QED BY <2>1, <2>2, <2>3
  <1>14. QED BY <1>5, <1>6, <1>8, <1>10, <1>12, <1>13

\* The content of a chunk, as the OpenAI clients get it.
LEMMA ContentAgrees ==
  ASSUME NEW r \in Seq(Part), NEW a \in JoinedStates, NEW c \in CompletionStates,
         NEW content \in {"null", "empty", "piece"}, NEW p \in Nat \ {0}, NEW f,
         Agrees(r, a, c), Told(r, f),
         NEW q, q = ContentSent(r, content, p),
         NEW b, b = TextKept(a, content, p), NEW d, d = ContentKept(c, content, p)
  PROVE  /\ q \in Seq(Part) /\ Agrees(q, b, d) /\ Told(q, f)
         /\ d \in CompletionStates /\ d.finish = c.finish
  <1>1. c.content \in Seq(Nat) /\ Append(c.content, p) \in Seq(Nat)
    BY AppendProperties DEF CompletionStates
  <1>2. /\ Text(0) \in Part /\ Text(p) \in Part
        /\ Text(0).part # "finish" /\ Text(p).part # "finish"
    BY PartTypes DEF Text
  <1>3. CASE content = "null"
    <2>1. q = r /\ b = a /\ d = c
      BY <1>3 DEF ContentSent, TextKept, ContentKept, JoinedStates, CompletionStates
    <2>2. QED BY <2>1
  <1>4. CASE content = "empty"
    <2>1. /\ q = Append(r, Text(0)) /\ b = a /\ d = c
          /\ [a EXCEPT !.text = IF 0 = 0 THEN @ ELSE Append(@, 0)] = a
          /\ [c EXCEPT !.content = IF 0 = 0 THEN @ ELSE Append(@, 0)] = c
      BY <1>4 DEF ContentSent, TextKept, ContentKept, JoinedStates, CompletionStates
    <2>2. Agrees(Append(r, Text(0)),
                 [a EXCEPT !.text = IF 0 = 0 THEN @ ELSE Append(@, 0)],
                 [c EXCEPT !.content = IF 0 = 0 THEN @ ELSE Append(@, 0)])
      <3>1. 0 \in Nat
        OBVIOUS
      <3>2. QED BY <3>1, AgreesText
    <2>3. Told(Append(r, Text(0)), f) /\ Append(r, Text(0)) \in Seq(Part)
      BY <1>2, ToldKept, AppendProperties
    <2>4. QED BY <2>1, <2>2, <2>3
  <1>5. CASE content = "piece"
    <2>1. /\ q = Append(r, Text(p))
          /\ b = [a EXCEPT !.text = Append(@, p)] /\ d = [c EXCEPT !.content = Append(@, p)]
          /\ [a EXCEPT !.text = IF p = 0 THEN @ ELSE Append(@, p)] = b
          /\ [c EXCEPT !.content = IF p = 0 THEN @ ELSE Append(@, p)] = d
      BY <1>5 DEF ContentSent, TextKept, ContentKept
    <2>2. Agrees(Append(r, Text(p)),
                 [a EXCEPT !.text = IF p = 0 THEN @ ELSE Append(@, p)],
                 [c EXCEPT !.content = IF p = 0 THEN @ ELSE Append(@, p)])
      <3>1. p \in Nat
        OBVIOUS
      <3>2. QED BY <3>1, AgreesText
    <2>3. Told(Append(r, Text(p)), f) /\ Append(r, Text(p)) \in Seq(Part)
      BY <1>2, ToldKept, AppendProperties
    <2>4. d \in CompletionStates /\ d.finish = c.finish
      BY <1>1, <2>1 DEF CompletionStates
    <2>5. QED BY <2>1, <2>2, <2>3, <2>4
  <1>6. QED BY <1>3, <1>4, <1>5

\* And its reasoning.
LEMMA ReasoningAgrees ==
  ASSUME NEW r \in Seq(Part), NEW a, NEW c \in CompletionStates,
         NEW reasoning \in BOOLEAN, NEW p \in Nat \ {0}, NEW f,
         Agrees(r, a, c), Told(r, f),
         NEW q, q = ReasoningSent(r, reasoning, p), NEW d, d = ReasoningKept(c, reasoning, p)
  PROVE  /\ q \in Seq(Part) /\ Agrees(q, a, d) /\ Told(q, f)
         /\ d \in CompletionStates /\ d.finish = c.finish
  <1>1. c.reasoning \in Seq(Nat) /\ Append(c.reasoning, p) \in Seq(Nat)
    BY AppendProperties DEF CompletionStates
  <1>2. Thought(p) \in Part /\ Thought(p).part # "finish"
    BY PartTypes DEF Thought
  <1>3. CASE reasoning
    <2>1. q = Append(r, Thought(p)) /\ d = [c EXCEPT !.reasoning = Append(@, p)]
      BY <1>3 DEF ReasoningSent, ReasoningKept
    <2>2. Agrees(Append(r, Thought(p)), a, [c EXCEPT !.reasoning = Append(@, p)])
      BY AgreesThought
    <2>3. Told(Append(r, Thought(p)), f) /\ Append(r, Thought(p)) \in Seq(Part)
      BY <1>2, ToldKept, AppendProperties
    <2>4. d \in CompletionStates /\ d.finish = c.finish
      BY <1>1, <2>1 DEF CompletionStates
    <2>5. QED BY <2>1, <2>2, <2>3, <2>4
  <1>4. CASE ~ reasoning
    <2>1. q = r /\ d = c
      BY <1>4 DEF ReasoningSent, ReasoningKept, CompletionStates
    <2>2. QED BY <2>1
  <1>5. QED BY <1>3, <1>4

\* And its finish_reason.
LEMMA FinishAgrees ==
  ASSUME NEW r \in Seq(Part), NEW a, NEW c, NEW finish \in Finishes, Agrees(r, a, c),
         NEW f, Told(r, f)
  PROVE  /\ FinishSent(r, finish) \in Seq(Part) /\ Agrees(FinishSent(r, finish), a, c)
         /\ Told(FinishSent(r, finish), IF finish = NoFinish THEN f ELSE finish)
  <1> DEFINE q == FinishSent(r, finish)
  <1>1. CASE finish = NoFinish
    BY <1>1 DEF FinishSent
  <1>2. CASE finish # NoFinish
    <2> DEFINE e == Finished(finish)
    <2>1. finish \in FinishReasons
      BY <1>2 DEF Finishes
    <2>2. e \in Part /\ e.part \notin {"content", "reasoning", "tool_call"}
      <3>1. e \in Part
        BY <2>1, PartTypes
      <3>2. e.part = "finish"
        BY DEF Finished
      <3>3. QED BY <3>1, <3>2
    <2>3. q = Append(r, e)
      BY <1>2 DEF FinishSent
    <2>4. Told(q, finish)
      BY <2>1, <2>3, ToldFinish
    <2> HIDE DEF e
    <2>5. Agrees(Append(r, e), a, c) /\ Append(r, e) \in Seq(Part)
      BY <2>2, AgreesKept, AppendProperties
    <2>6. QED BY <1>2, <2>3, <2>4, <2>5
  <1>3. QED BY <1>1, <1>2

\* What the four clients have after the events h of earlier calls: z is the
\* state machine, b and d what is collected, q the parts relayed.
Together(h, z, b, d, q) ==
  /\ z \in StreamStates /\ b \in JoinedStates /\ d \in CompletionStates
  /\ q \in Seq(Part)
  /\ Running(h, z, b) /\ Agrees(q, b, d) /\ Told(q, d.finish)
  /\ z.finish = d.finish /\ b.finish = d.finish

\* A chunk keeps them together.
LEMMA ChunkRuns ==
  ASSUME NEW h \in Seq(Event), NEW s \in StreamStates, NEW a \in JoinedStates,
         NEW c \in CompletionStates, NEW r \in Seq(Part), NEW chunk \in Chunks,
         NEW p \in Nat \ {0},
         Flow(h, s), Settled(h, s), Matches(h, s, a), Agrees(r, a, c), Told(r, c.finish),
         s.finish = c.finish, a.finish = c.finish
  PROVE  Together(h, ConsumeChunk(s, chunk, p), JoinChunk(a, chunk, p),
                  Accumulate(c, chunk, p), r \o Sanitize(chunk, p))
  <1> DEFINE z == ConsumeChunk(s, chunk, p)
             b == JoinChunk(a, chunk, p)
             d == Accumulate(c, chunk, p)
             q == r \o Sanitize(chunk, p)
  <1> SUFFICES Together(h, z, b, d, q)
    OBVIOUS
  <1> DEFINE f == c.finish
             g == LatestFinish(f, chunk)
             tools == chunk.tools
             z0 == StartMessage([s EXCEPT !.events = <<>>])
             z1 == TextOf(z0, chunk.content, p)
             z2 == ConsumeTools(z1, tools, p)
             a0 == [a EXCEPT !.finish = g]
             a1 == TextKept(a0, chunk.content, p)
             c0 == [c EXCEPT !.finish = g]
             c1 == ContentKept(c0, chunk.content, p)
             c2 == ReasoningKept(c1, chunk.reasoning, p)
             r1 == ContentSent(r, chunk.content, p)
             r2 == ReasoningSent(r1, chunk.reasoning, p)
             r3 == r2 \o Relays(tools, Len(tools), p)
             r4 == FinishSent(r3, chunk.finish)
  <1>1. /\ chunk.content \in {"null", "empty", "piece"} /\ chunk.reasoning \in BOOLEAN
        /\ tools \in Seq(ToolDeltas) /\ chunk.finish \in Finishes
    BY ChunkTypes
  <1>2. f \in Finishes /\ g \in Finishes
    BY <1>1 DEF CompletionStates, LatestFinish
  <1>3. /\ z = [z2 EXCEPT !.finish = LatestFinish(@, chunk)]
        /\ q = r4
    <2>1. z = [z2 EXCEPT !.finish = LatestFinish(@, chunk)]
      BY DEF ConsumeChunk, TextOf
    <2>2. q = r4
      BY SanitizeRelays
    <2>3. QED BY <2>1, <2>2
  <1>4. b = Joins(a1, tools, p)
    <2>1. a1 = [a EXCEPT !.text = IF chunk.content = "piece" THEN Append(@, p) ELSE @,
                         !.finish = LatestFinish(@, chunk)]
      BY DEF JoinedStates, TextKept
    <2> HIDE DEF a1
    <2>2. QED BY <2>1 DEF JoinChunk
  <1>5. d = AddToolCalls(c2, tools, p)
    <2>1. c2 = [c EXCEPT !.content = IF chunk.content = "piece" THEN Append(@, p) ELSE @,
                         !.reasoning = IF chunk.reasoning THEN Append(@, p) ELSE @,
                         !.finish = LatestFinish(@, chunk)]
      BY DEF CompletionStates, ContentKept, ReasoningKept
    <2> HIDE DEF c2
    <2>2. QED BY <2>1 DEF Accumulate
  <1> HIDE DEF z, b, d, q
  <1>6. /\ a0 \in JoinedStates /\ a0.finish = g /\ a0.text = a.text /\ a0.order = a.order
        /\ a0.args = a.args
        /\ c0 \in CompletionStates /\ c0.finish = g
    <2> HIDE DEF g
    <2>1. QED BY <1>2 DEF JoinedStates, CompletionStates
  <1>7. Matches(h, s, a0) /\ Agrees(r, a0, c0)
    <2>1. Matches(h, s, a0)
      BY <1>6 DEF Matches
    <2>2. /\ c0.content = c.content /\ c0.reasoning = c.reasoning /\ c0.calls = c.calls
          /\ c0.args = c.args
      BY DEF CompletionStates
    <2> HIDE DEF a0, c0
    <2>3. Agrees(r, a0, c0)
      BY <1>6, <2>2 DEF Agrees
    <2>4. QED BY <2>1, <2>3
  <1> HIDE DEF a0, c0, g
  <1>8. z0 \in StreamStates /\ Running(h, z0, a0) /\ z0.finish = f
    <2>1. z0 = StartMessage([s EXCEPT !.events = <<>>])
      OBVIOUS
    <2> HIDE DEF z0
    <2>2. z0 \in StreamStates /\ Running(h, z0, a0) /\ z0.finish = s.finish
      BY <1>7, <2>1, StartMessageRuns
    <2>3. QED BY <2>2
  <1> HIDE DEF z0
  <1>9. /\ z1 \in StreamStates /\ a1 \in JoinedStates /\ Running(h, z1, a1)
        /\ z1.finish = f /\ a1.finish = g
    <2> DEFINE k == chunk.content
    <2>1. k \in {"null", "empty", "piece"} /\ a0 \in JoinedStates /\ a0.finish = g
      BY <1>1, <1>6
    <2> HIDE DEF k
    <2>2. /\ TextOf(z0, k, p) \in StreamStates /\ TextKept(a0, k, p) \in JoinedStates
          /\ Running(h, TextOf(z0, k, p), TextKept(a0, k, p))
          /\ TextOf(z0, k, p).finish = z0.finish /\ TextKept(a0, k, p).finish = a0.finish
      BY <1>8, <2>1, TextRuns, SMTT(60)
    <2>3. QED BY <1>8, <2>1, <2>2 DEF k
  <1>10. r1 \in Seq(Part) /\ Agrees(r1, a1, c1) /\ Told(r1, f) /\ c1 \in CompletionStates
         /\ c1.finish = g
    <2>1. /\ r1 = ContentSent(r, chunk.content, p) /\ a1 = TextKept(a0, chunk.content, p)
          /\ c1 = ContentKept(c0, chunk.content, p)
          /\ chunk.content \in {"null", "empty", "piece"} /\ Told(r, f)
      BY <1>1
    <2> HIDE DEF r1, a1, c1, f
    <2>2. r1 \in Seq(Part) /\ Agrees(r1, a1, c1) /\ Told(r1, f) /\ c1 \in CompletionStates
          /\ c1.finish = c0.finish
      BY <1>6, <1>7, <2>1, ContentAgrees
    <2>3. QED BY <1>6, <2>2
  <1> HIDE DEF z1, a1, c1, r1, f
  <1>11. r2 \in Seq(Part) /\ Agrees(r2, a1, c2) /\ Told(r2, f) /\ c2 \in CompletionStates
         /\ c2.finish = g
    <2>1. /\ r2 = ReasoningSent(r1, chunk.reasoning, p)
          /\ c2 = ReasoningKept(c1, chunk.reasoning, p) /\ chunk.reasoning \in BOOLEAN
      BY <1>1
    <2> HIDE DEF r2, c2
    <2>2. r2 \in Seq(Part) /\ Agrees(r2, a1, c2) /\ Told(r2, f) /\ c2 \in CompletionStates
          /\ c2.finish = c1.finish
      BY <1>10, <2>1, ReasoningAgrees
    <2>3. QED BY <1>10, <2>2
  <1> HIDE DEF r2, c2
  <1>12. /\ z2 \in StreamStates /\ b \in JoinedStates /\ d \in CompletionStates
         /\ r3 \in Seq(Part) /\ Running(h, z2, b) /\ Agrees(r3, b, d) /\ Told(r3, f)
         /\ z2.finish = f /\ b.finish = g /\ d.finish = g
    <2> HIDE DEF tools
    <2>1. /\ ConsumeTools(z1, tools, p) \in StreamStates
          /\ Joins(a1, tools, p) \in JoinedStates
          /\ AddToolCalls(c2, tools, p) \in CompletionStates
          /\ r2 \o Relays(tools, Len(tools), p) \in Seq(Part)
          /\ Running(h, ConsumeTools(z1, tools, p), Joins(a1, tools, p))
          /\ Agrees(r2 \o Relays(tools, Len(tools), p), Joins(a1, tools, p),
                    AddToolCalls(c2, tools, p))
          /\ Told(r2 \o Relays(tools, Len(tools), p), f)
          /\ ConsumeTools(z1, tools, p).finish = z1.finish
          /\ Joins(a1, tools, p).finish = a1.finish
          /\ AddToolCalls(c2, tools, p).finish = c2.finish
      BY <1>1, <1>9, <1>11, ToolsRun
    <2>2. QED BY <1>4, <1>5, <1>9, <1>11, <2>1
  <1> HIDE DEF z2, r3
  <1>13. r4 \in Seq(Part) /\ Agrees(r4, b, d) /\ Told(r4, g)
    <2> DEFINE k == chunk.finish
    <2>1. k \in Finishes
      BY <1>1
    <2> HIDE DEF k
    <2>2. /\ FinishSent(r3, k) \in Seq(Part) /\ Agrees(FinishSent(r3, k), b, d)
          /\ Told(FinishSent(r3, k), IF k = NoFinish THEN f ELSE k)
      BY <1>12, <2>1, FinishAgrees
    <2>3. QED BY <2>2 DEF g, k, LatestFinish
  <1>14. z \in StreamStates /\ Running(h, z, b) /\ z.finish = g
    <2>1. LatestFinish(z2.finish, chunk) = g
      BY <1>12 DEF g
    <2>2. /\ z \in StreamStates /\ z.finish = g /\ z.events = z2.events
          /\ z.started = z2.started /\ z.textBlock = z2.textBlock
          /\ z.textClosed = z2.textClosed /\ z.active = z2.active
          /\ z.blockOf = z2.blockOf /\ z.next = z2.next
      <3>1. z = [z2 EXCEPT !.finish = g]
        BY <1>3, <2>1
      <3>2. z \in StreamStates
        BY <3>1, <1>2, <1>12 DEF StreamStates
      <3>3. QED BY <3>1, <3>2, <1>12 DEF StreamStates
    <2>3. History(h, z) = History(h, z2)
      BY <2>2 DEF History
    <2> DEFINE e == History(h, z2)
    <2>4. /\ z2.started /\ Flow(e, z2) /\ Settled(e, z2) /\ Matches(e, z2, b)
      BY <1>12 DEF Running
    <2> HIDE DEF e
    <2>5. Flow(e, z) /\ Settled(e, z) /\ Matches(e, z, b)
      BY <2>2, <2>4, SameFields
    <2>6. QED BY <2>2, <2>3, <2>4, <2>5 DEF Running, e
  <1>15. QED BY <1>3, <1>12, <1>13, <1>14 DEF Together

-----------------------------------------------------------------------------
(* [DONE]                                                                  *)

\* Every block has been stopped once, after its start.
Balanced(h, s) ==
  /\ \A b \in 0 .. s.next - 1 :
       \E i \in At(h, "content_block_stop") :
         /\ h[i].index = b
         /\ \A j \in At(h, "content_block_stop") : h[j].index = b => j = i
  /\ \A i \in At(h, "content_block_stop") :
       \E j \in At(h, "content_block_start") : j < i /\ h[j].index = h[i].index

\* The message starts with the first event, and only there.
StartsFirst(h) == \A i \in DOMAIN h : h[i].type = "message_start" <=> i = 1

\* The stops of the tool blocks.
ToolStops(s) ==
  LET opened == Ascending({t \in ToolCalls : s.blockOf[t] # None})
  IN  [i \in DOMAIN opened |-> BlockStop(s.blockOf[opened[i]])]

\* There is one for each.
LEMMA ToolStopsOnce ==
  ASSUME NEW s \in StreamStates, Numbering(s)
  PROVE  /\ ToolStops(s) \in Seq(Event) /\ Len(ToolStops(s)) \in Nat
         /\ DOMAIN ToolStops(s) = 1 .. Len(ToolStops(s))
         /\ \A i \in DOMAIN ToolStops(s) :
              /\ ToolStops(s)[i].type = "content_block_stop"
              /\ ToolStops(s)[i].index # s.textBlock
              /\ ToolStops(s)[i].index \in 0 .. s.next - 1
         /\ \A i, j \in DOMAIN ToolStops(s) :
              ToolStops(s)[i].index = ToolStops(s)[j].index => i = j
         /\ \A t \in ToolCalls : s.blockOf[t] # None =>
              \E i \in DOMAIN ToolStops(s) : ToolStops(s)[i].index = s.blockOf[t]
  <1> DEFINE O == {t \in ToolCalls : s.blockOf[t] # None}
             o == Ascending(O)
             m == Cardinality(O)
             k == ToolStops(s)
  <1>1. O \in SUBSET Int /\ IsFiniteSet(O)
    <2>1. O \in SUBSET ToolCalls /\ IsFiniteSet(ToolCalls) /\ ToolCalls \in SUBSET Int
      BY ToolCallsAssumption
    <2> HIDE DEF O
    <2>2. QED BY <2>1, FS_Subset
  <1>2. /\ m \in Nat /\ o \in [1 .. m -> O]
        /\ \A i, j \in 1 .. m : i < j => o[i] < o[j]
        /\ \A x \in O : \E i \in 1 .. m : o[i] = x
    <2> HIDE DEF O
    <2>1. QED BY <1>1, AscendingSorts
  <1>3. k = [i \in 1 .. m |-> BlockStop(s.blockOf[o[i]])]
    BY <1>2 DEF ToolStops
  <1>4. \A i \in 1 .. m : o[i] \in ToolCalls /\ s.blockOf[o[i]] # None /\ o[i] \in Int
    BY <1>1, <1>2
  <1>5. \A i \in 1 .. m : s.blockOf[o[i]] \in Int
    BY <1>4 DEF StreamStates
  <1>6. \A i \in 1 .. m : /\ k[i] \in Event /\ k[i].type = "content_block_stop"
                          /\ k[i].index = s.blockOf[o[i]]
    <2> HIDE DEF o, m, k
    <2>1. QED BY <1>3, <1>5, EventTypes DEF BlockStop
  <1>7. k \in Seq(Event) /\ Len(k) = m /\ DOMAIN k = 1 .. m
    <2> HIDE DEF o, m, k
    <2>1. k \in [1 .. m -> Event]
      BY <1>3, <1>6
    <2>2. QED BY <2>1, <1>2
  <1> HIDE DEF o, m, k
  <1>8. \A i \in 1 .. m : k[i].index # s.textBlock /\ k[i].index \in 0 .. s.next - 1
    BY <1>4, <1>6 DEF Numbering
  <1>9. ASSUME NEW i \in 1 .. m, NEW j \in 1 .. m, k[i].index = k[j].index
        PROVE  i = j
    <2>1. o[i] = o[j]
      BY <1>4, <1>6, <1>9 DEF Numbering
    <2>2. ~ (i < j) /\ ~ (j < i)
      BY <1>2, <1>4, <2>1
    <2>3. QED BY <2>2, <1>2
  <1>10. ASSUME NEW t \in ToolCalls, s.blockOf[t] # None
         PROVE  \E i \in 1 .. m : k[i].index = s.blockOf[t]
    <2>1. PICK i \in 1 .. m : o[i] = t
      BY <1>2, <1>10
    <2>2. QED BY <2>1, <1>6
  <1>11. /\ k \in Seq(Event) /\ Len(k) \in Nat /\ DOMAIN k = 1 .. Len(k)
         /\ \A i \in DOMAIN k : /\ k[i].type = "content_block_stop"
                                /\ k[i].index # s.textBlock
                                /\ k[i].index \in 0 .. s.next - 1
         /\ \A i, j \in DOMAIN k : k[i].index = k[j].index => i = j
         /\ \A t \in ToolCalls : s.blockOf[t] # None =>
              \E i \in DOMAIN k : k[i].index = s.blockOf[t]
    BY <1>2, <1>6, <1>7, <1>8, <1>9, <1>10
  <1>12. QED BY <1>11 DEF k

\* What h and the stops k give, joined.
Continued(h, k, g) ==
  /\ g \in Seq(Event) /\ Len(h) \in Nat /\ Len(k) \in Nat
  /\ DOMAIN h = 1 .. Len(h) /\ DOMAIN k = 1 .. Len(k)
  /\ DOMAIN g = 1 .. Len(h) + Len(k)
  /\ \A i \in 1 .. Len(h) : g[i] = h[i]
  /\ \A i \in 1 .. Len(k) : g[Len(h) + i] = k[i] /\ Len(h) + i \in At(g, "content_block_stop")
  /\ \A type : At(h, type) \subseteq 1 .. Len(h) /\ At(h, type) \subseteq At(g, type)
  /\ \A type : type # "content_block_stop" => At(g, type) = At(h, type)
  /\ \A i \in At(g, "content_block_stop") :
       \/ i \in At(h, "content_block_stop")
       \/ \E j \in 1 .. Len(k) : i = Len(h) + j

\* Stops joined to h change nothing but the stops.
LEMMA MoreStops ==
  ASSUME NEW h \in Seq(Event), NEW k \in Seq(Event),
         \A i \in DOMAIN k : k[i].type = "content_block_stop"
  PROVE  Continued(h, k, h \o k)
  <1> DEFINE l == Len(h)
             m == Len(k)
             g == h \o k
  <1>1. l \in Nat /\ m \in Nat /\ DOMAIN h = 1 .. l /\ DOMAIN k = 1 .. m
    BY LenProperties
  <1>2. /\ g \in Seq(Event) /\ Len(g) = l + m
        /\ \A i \in 1 .. l + m : g[i] = IF i <= l THEN h[i] ELSE k[i - l]
    BY ConcatProperties
  <1>3. DOMAIN g = 1 .. l + m
    BY <1>2, LenProperties
  <1> HIDE DEF l, m, g
  <1>4. \A i \in 1 .. l : g[i] = h[i] /\ i \in 1 .. l + m
    BY <1>1, <1>2
  <1>5. \A i \in 1 .. m : g[l + i] = k[i] /\ l + i \in 1 .. l + m
    BY <1>1, <1>2
  <1>6. \A i \in 1 .. l + m : i \in 1 .. l \/ \E j \in 1 .. m : i = l + j
    <2>1. ASSUME NEW i \in 1 .. l + m, i \notin 1 .. l PROVE \E j \in 1 .. m : i = l + j
      <3>1. i - l \in 1 .. m /\ i = l + (i - l)
        BY <1>1, <2>1
      <3>2. QED BY <3>1
    <2>2. QED BY <2>1
  <1>7. \A type : At(h, type) \subseteq 1 .. l /\ At(h, type) \subseteq At(g, type)
    BY <1>1, <1>3, <1>4 DEF At
  <1>8. ASSUME NEW type, type # "content_block_stop" PROVE At(g, type) \subseteq At(h, type)
    <2>1. ASSUME NEW i \in At(g, type) PROVE i \in At(h, type)
      <3>1. i \in 1 .. l + m /\ g[i].type = type
        BY <1>3 DEF At
      <3>2. ASSUME NEW j \in 1 .. m, i = l + j PROVE FALSE
        <4>1. g[i] = k[j] /\ k[j].type = "content_block_stop"
          BY <1>1, <1>5, <3>2
        <4>2. QED BY <4>1, <3>1, <1>8
      <3>3. i \in 1 .. l
        BY <1>6, <3>1, <3>2
      <3>4. QED BY <1>1, <1>4, <3>1, <3>3 DEF At
    <2>2. QED BY <2>1
  <1>9. \A i \in 1 .. m : l + i \in At(g, "content_block_stop")
    BY <1>1, <1>3, <1>5 DEF At
  <1>10. ASSUME NEW i \in At(g, "content_block_stop")
         PROVE  i \in At(h, "content_block_stop") \/ \E j \in 1 .. m : i = l + j
    BY <1>1, <1>3, <1>4, <1>6 DEF At
  <1>11. \A type : type # "content_block_stop" => At(g, type) = At(h, type)
    <2>1. ASSUME NEW type, type # "content_block_stop" PROVE At(g, type) = At(h, type)
      <3>1. At(g, type) \subseteq At(h, type) /\ At(h, type) \subseteq At(g, type)
        BY <1>7, <1>8, <2>1
      <3>2. QED BY <3>1
    <2>2. QED BY <2>1
  <1>12. Continued(h, k, g)
    BY <1>1, <1>2, <1>3, <1>4, <1>5, <1>7, <1>9, <1>10, <1>11 DEF Continued, l, m
  <1>13. QED BY <1>12 DEF g

\* What the tool blocks' stops make of the events h: g.
StoppedAfter(h, s, g) ==
  /\ g \in Seq(Event) /\ Balanced(g, s) /\ Started(g, s) /\ Fed(g)
  /\ h # <<>> => g # <<>>
  /\ StartsFirst(h) /\ h # <<>> => StartsFirst(g)
  /\ At(g, "message_delta") = {} /\ At(g, "message_stop") = {}
  /\ \A b : Assembly(g, b) = Assembly(h, b)

\* Once the text block is stopped, the tool blocks' stops balance the blocks.
LEMMA ToolStopsBalance ==
  ASSUME NEW h \in Seq(Event), NEW s \in StreamStates,
         Flow(h, s), s.textBlock # None => s.textClosed
  PROVE  StoppedAfter(h, s, h \o ToolStops(s))
  <1> DEFINE g == h \o ToolStops(s)
  <1> SUFFICES StoppedAfter(h, s, g)
    OBVIOUS
  <1> DEFINE k == ToolStops(s)
             l == Len(h)
             m == Len(k)
  <1>1. /\ k \in Seq(Event)
        /\ \A i \in DOMAIN k : /\ k[i].type = "content_block_stop"
                               /\ k[i].index # s.textBlock
                               /\ k[i].index \in 0 .. s.next - 1
        /\ \A i, j \in DOMAIN k : k[i].index = k[j].index => i = j
        /\ \A t \in ToolCalls : s.blockOf[t] # None =>
             \E i \in DOMAIN k : k[i].index = s.blockOf[t]
    BY ToolStopsOnce DEF Flow
  <1> HIDE DEF k
  <1>2. g = h \o k
    BY DEF k
  <1> HIDE DEF g
  <1>3. /\ g \in Seq(Event) /\ l \in Nat /\ m \in Nat
        /\ DOMAIN h = 1 .. l /\ DOMAIN k = 1 .. m /\ DOMAIN g = 1 .. l + m
        /\ \A i \in 1 .. l : g[i] = h[i]
        /\ \A i \in 1 .. m : g[l + i] = k[i] /\ l + i \in At(g, "content_block_stop")
        /\ \A type : At(h, type) \subseteq 1 .. l /\ At(h, type) \subseteq At(g, type)
        /\ \A type : type # "content_block_stop" => At(g, type) = At(h, type)
        /\ \A i \in At(g, "content_block_stop") :
             \/ i \in At(h, "content_block_stop")
             \/ \E j \in 1 .. m : i = l + j
    <2>1. \A i \in DOMAIN k : k[i].type = "content_block_stop"
      BY <1>1
    <2>2. Continued(h, k, g)
      BY <1>1, <1>2, <2>1, MoreStops
    <2>3. QED BY <2>2 DEF Continued
  <1> HIDE DEF l, m
  <1>4. /\ At(g, "content_block_start") = At(h, "content_block_start")
        /\ At(g, "content_block_delta") = At(h, "content_block_delta")
        /\ At(g, "message_delta") = {} /\ At(g, "message_stop") = {}
    BY <1>3 DEF Flow, Begun
  <1>5. \A type : \A i \in At(h, type) : g[i] = h[i] /\ i \in 1 .. l /\ i \in Int
    BY <1>3
  <1>6. Started(g, s)
    <2>1. Started(h, s)
      BY DEF Flow
    <2> DEFINE S == At(h, "content_block_start")
    <2>2. At(g, "content_block_start") = S /\ \A i \in S : g[i] = h[i]
      BY <1>4, <1>5
    <2> HIDE DEF S
    <2>3. /\ \A i \in S : /\ h[i].index \in 0 .. s.next - 1
                          /\ h[i].kind = IF h[i].index = s.textBlock THEN "text" ELSE "tool_use"
          /\ \A i, j \in S : i < j => h[i].index < h[j].index
          /\ \A b \in 0 .. s.next - 1 : \E i \in S : h[i].index = b
      BY <2>1 DEF Started, S
    <2>4. \A i \in S : /\ g[i].index \in 0 .. s.next - 1
                       /\ g[i].kind = IF g[i].index = s.textBlock THEN "text" ELSE "tool_use"
      <3>1. ASSUME NEW i \in S
            PROVE  /\ g[i].index \in 0 .. s.next - 1
                   /\ g[i].kind = IF g[i].index = s.textBlock THEN "text" ELSE "tool_use"
        <4>1. g[i] = h[i]
          BY <2>2
        <4>2. QED BY <2>3, <4>1
      <3>2. QED BY <3>1
    <2>5. ASSUME NEW i \in S, NEW j \in S, i < j PROVE g[i].index < g[j].index
      <3>1. g[i] = h[i] /\ g[j] = h[j]
        BY <2>2
      <3>2. h[i].index < h[j].index
        BY <2>3, <2>5
      <3>3. QED BY <3>1, <3>2
    <2>6. ASSUME NEW b \in 0 .. s.next - 1 PROVE \E i \in S : g[i].index = b
      <3>1. PICK i \in S : h[i].index = b
        BY <2>3
      <3>2. g[i] = h[i]
        BY <2>2
      <3>3. QED BY <3>1, <3>2
    <2>7. QED BY <2>2, <2>4, <2>5, <2>6 DEF Started
  <1>7. \A i \in At(h, "content_block_delta"), j \in At(g, "content_block_stop") :
          j < i => j \in At(h, "content_block_stop")
    BY <1>3, <1>5
  <1>8. Fed(g)
    <2>1. Fed(h)
      BY DEF Flow
    <2>2. ASSUME NEW i \in At(g, "content_block_delta")
          PROVE  \E j \in At(g, "content_block_start") :
                   j < i /\ g[j].index = g[i].index /\ g[j].kind = g[i].kind
      <3>1. i \in At(h, "content_block_delta") /\ g[i] = h[i]
        BY <1>4, <1>5
      <3>2. PICK j \in At(h, "content_block_start") :
              j < i /\ h[j].index = h[i].index /\ h[j].kind = h[i].kind
        BY <2>1, <3>1 DEF Fed
      <3>3. j \in At(g, "content_block_start") /\ g[j] = h[j]
        BY <1>4, <1>5
      <3>4. QED BY <3>1, <3>2, <3>3
    <2>3. ASSUME NEW i \in At(g, "content_block_delta"), NEW j \in At(g, "content_block_stop"),
                 g[j].index = g[i].index, j < i
          PROVE  /\ g[i].kind = "text"
                 /\ \E u \in At(g, "content_block_start") : u < i /\ g[u].kind = "tool_use"
      <3>1. j \in At(h, "content_block_stop") /\ i \in At(h, "content_block_delta")
        BY <1>4, <1>7, <2>3
      <3>2. h[i] = g[i] /\ h[j] = g[j]
        BY <1>5, <3>1
      <3>3. /\ h[i].kind = "text"
            /\ \E u \in At(h, "content_block_start") : u < i /\ h[u].kind = "tool_use"
        BY <2>1, <2>3, <3>1, <3>2 DEF Fed
      <3>4. QED BY <1>4, <1>5, <3>2, <3>3
    <2>4. QED BY <2>2, <2>3 DEF Fed
  <1>9. \A i \in At(g, "content_block_stop") :
          \/ /\ i \in At(h, "content_block_stop") /\ g[i].index = s.textBlock /\ i \in 1 .. l
             /\ g[i] = h[i]
          \/ \E j \in 1 .. m : i = l + j /\ g[i] = k[j]
    <2>1. Stopped(h, s)
      BY DEF Flow
    <2>2. ASSUME NEW i \in At(h, "content_block_stop")
          PROVE  g[i].index = s.textBlock /\ i \in 1 .. l /\ g[i] = h[i]
      <3>1. g[i] = h[i] /\ i \in 1 .. l
        BY <1>5
      <3>2. QED BY <2>1, <3>1 DEF Stopped
    <2>3. ASSUME NEW i \in At(g, "content_block_stop"), i \notin At(h, "content_block_stop")
          PROVE  \E j \in 1 .. m : i = l + j /\ g[i] = k[j]
      <3>1. PICK j \in 1 .. m : i = l + j
        BY <1>3, <2>3
      <3>2. g[l + j] = k[j]
        BY <1>3
      <3>3. QED BY <3>1, <3>2
    <2>4. QED BY <2>2, <2>3
  <1>10. ASSUME NEW b \in 0 .. s.next - 1
         PROVE  \E i \in At(g, "content_block_stop") :
                  /\ g[i].index = b
                  /\ \A j \in At(g, "content_block_stop") : g[j].index = b => j = i
    <2>1. CASE b = s.textBlock
      <3>1. s.textClosed
        BY <2>1 DEF None
      <3>2. PICK i \in At(h, "content_block_stop") :
              h[i].index = b /\ \A j \in At(h, "content_block_stop") : j = i
        BY <2>1, <3>1 DEF Flow, Stopped
      <3>3. i \in At(g, "content_block_stop") /\ g[i].index = b
        BY <1>3, <1>5, <3>2
      <3>4. \A j \in 1 .. m : k[j].index # b
        BY <1>1, <1>3, <2>1
      <3>5. \A j \in At(g, "content_block_stop") : g[j].index = b => j = i
        BY <1>9, <3>2, <3>4
      <3>6. QED BY <3>3, <3>5
    <2>2. CASE b # s.textBlock
      <3>1. PICK t \in ToolCalls : s.blockOf[t] = b
        BY <2>2 DEF Flow, Numbering
      <3>2. b # None
        BY DEF None
      <3>3. PICK i \in 1 .. m : k[i].index = b
        BY <1>1, <1>3, <3>1, <3>2
      <3>4. l + i \in At(g, "content_block_stop") /\ g[l + i].index = b
        BY <1>3, <3>3
      <3>5. \A j \in 1 .. m : k[j].index = b => j = i
        BY <1>1, <1>3, <3>3
      <3>6. \A j \in At(g, "content_block_stop") : g[j].index = b => j = l + i
        BY <1>9, <2>2, <3>5
      <3>7. QED BY <3>4, <3>6
    <2>3. QED BY <2>1, <2>2
  <1>11. ASSUME NEW i \in At(g, "content_block_stop")
         PROVE  \E j \in At(g, "content_block_start") : j < i /\ g[j].index = g[i].index
    <2>1. CASE i \in At(h, "content_block_stop")
      <3>1. PICK j \in At(h, "content_block_start") : j < i /\ h[j].index = h[i].index
        BY <2>1 DEF Flow, Stopped
      <3>2. QED BY <1>4, <1>5, <2>1, <3>1
    <2>2. CASE i \notin At(h, "content_block_stop")
      <3>1. PICK u \in 1 .. m : i = l + u /\ g[i] = k[u]
        BY <1>9, <2>2
      <3>2. g[i].index \in 0 .. s.next - 1
        BY <1>1, <1>3, <3>1
      <3>3. PICK j \in At(h, "content_block_start") : h[j].index = g[i].index
        BY <3>2 DEF Flow, Started
      <3>4. j \in 1 .. l /\ g[j] = h[j] /\ j \in At(g, "content_block_start")
        BY <1>4, <1>5, <3>3
      <3>5. j < i
        BY <1>3, <3>1, <3>4
      <3>6. QED BY <3>3, <3>4, <3>5
    <2>3. QED BY <2>1, <2>2
  <1>12. Balanced(g, s)
    BY <1>10, <1>11 DEF Balanced
  <1>13. h # <<>> => g # <<>>
    <2>1. ASSUME h # <<>> PROVE g # <<>>
      <3>1. l # 0
        BY <2>1 DEF l
      <3>2. 1 \in DOMAIN g
        BY <3>1, <1>3
      <3>3. QED BY <3>2
    <2>2. QED BY <2>1
  <1>14. ASSUME StartsFirst(h), h # <<>> PROVE StartsFirst(g)
    <2>1. l # 0
      BY <1>14 DEF l
    <2>2. At(h, "message_start") = {1}
      BY <1>3, <1>14, <2>1 DEF StartsFirst, At
    <2>3. At(g, "message_start") = {1}
      BY <1>3, <2>2
    <2>4. QED BY <2>3 DEF StartsFirst, At
  <1>15. \A b : Assembly(g, b) = Assembly(h, b)
    <2>1. ASSUME NEW b PROVE Assembly(g, b) = Assembly(h, b)
      <3> DEFINE D == DeltasOf(h, b)
      <3>1. DeltasOf(g, b) = D
        BY <1>4, <1>5 DEF DeltasOf
      <3>2. D \in SUBSET (1 .. Len(h)) /\ \A i \in D : g[i] = h[i]
        BY <1>5 DEF DeltasOf, l
      <3> HIDE DEF D
      <3>3. PiecesAt(g, D) = PiecesAt(h, D)
        BY <3>2, PiecesKept
      <3>4. QED BY <3>1, <3>3 DEF Assembly, D
    <2>2. QED BY <2>1
  <1>16. QED BY <1>3, <1>4, <1>6, <1>8, <1>12, <1>13, <1>14, <1>15 DEF StoppedAfter

\* The text block is stopped if it was open.
CloseOpenText(s) ==
  IF s.textBlock # None /\ ~s.textClosed
  THEN LET c == [s EXCEPT !.textClosed = TRUE]
       IN  IF c.active = "text" THEN Emit(c, BlockStop(c.textBlock)) ELSE c
  ELSE s

\* Closing the text block keeps the invariant of the events.
LEMMA CloseOpenTextRuns ==
  ASSUME NEW h \in Seq(Event), NEW s \in StreamStates, NEW a, Running(h, s, a),
         NEW z, z = CloseOpenText(s)
  PROVE  /\ z \in StreamStates /\ Flow(History(h, z), z) /\ Matches(History(h, z), z, a)
         /\ z.textBlock # None => z.textClosed
         /\ z.started /\ z.finish = s.finish /\ z.textBlock = s.textBlock
         /\ z.blockOf = s.blockOf /\ z.next = s.next
  <1>1. CASE ~ (s.textBlock # None /\ ~ s.textClosed)
    <2>1. z = s
      BY <1>1 DEF CloseOpenText
    <2>2. s.textClosed \in BOOLEAN
      BY DEF StreamStates
    <2>3. QED BY <1>1, <2>1, <2>2 DEF Running
  <1>2. CASE s.textBlock # None /\ ~ s.textClosed
    <2> DEFINE c == [s EXCEPT !.textClosed = TRUE]
               e == BlockStop(s.textBlock)
               g == History(h, s)
    <2>1. /\ c \in StreamStates /\ c.started = s.started /\ c.textBlock = s.textBlock
          /\ c.textClosed /\ c.active = s.active /\ c.blockOf = s.blockOf
          /\ c.next = s.next /\ c.finish = s.finish /\ c.events = s.events
      <3>1. c \in StreamStates
        BY DEF StreamStates
      <3>2. QED BY <3>1 DEF StreamStates
    <2>2. e \in Event /\ e.type = "content_block_stop"
      <3>1. s.textBlock \in Int
        BY DEF StreamStates
      <3>2. e \in Event
        BY <3>1, EventTypes
      <3>3. QED BY <3>2 DEF BlockStop
    <2>3. s.active = "text"
      BY <1>2 DEF Running, Settled
    <2>4. z = Emit(c, e)
      <3>1. CloseOpenText(s) = IF c.active = "text" THEN Emit(c, BlockStop(c.textBlock)) ELSE c
        BY <1>2 DEF CloseOpenText
      <3> HIDE DEF c
      <3>2. QED BY <3>1, <2>1, <2>3
    <2>5. History(h, c) = g
      BY <2>1 DEF History
    <2> HIDE DEF c
    <2>6. /\ Emit(c, e) \in StreamStates /\ History(h, Emit(c, e)) = Append(History(h, c), e)
          /\ History(h, c) \in Seq(Event)
          /\ Emit(c, e).started = c.started /\ Emit(c, e).textBlock = c.textBlock
          /\ Emit(c, e).textClosed = c.textClosed
          /\ Emit(c, e).blockOf = c.blockOf /\ Emit(c, e).next = c.next
          /\ Emit(c, e).finish = c.finish
      <3> HIDE DEF e
      <3>1. QED BY <2>1, <2>2, EmitFields
    <2>7. /\ z \in StreamStates /\ History(h, z) = Append(g, e) /\ g \in Seq(Event)
          /\ z.started = s.started /\ z.textBlock = s.textBlock /\ z.textClosed
          /\ z.blockOf = s.blockOf /\ z.next = s.next /\ z.finish = s.finish
      BY <2>1, <2>4, <2>5, <2>6
    <2>8. s.started /\ Flow(g, s) /\ Matches(g, s, a)
      BY DEF Running
    <2> HIDE DEF g
    <2>9. Flow(Append(g, e), z)
      BY <1>2, <2>7, <2>8, FlowClosesText
    <2>10. Matches(Append(g, e), z, a)
      <3> HIDE DEF e
      <3>1. e.type # "content_block_delta"
        BY <2>2
      <3>2. QED BY <2>2, <2>7, <2>8, <3>1, MatchesKept
    <2>11. QED BY <2>7, <2>8, <2>9, <2>10
  <1>3. QED BY <1>1, <1>2

\* An event that ends the message.
LEMMA BalancedKept ==
  ASSUME NEW h \in Seq(Event), NEW e \in Event, NEW s \in StreamStates, NEW z \in StreamStates,
         z.next = s.next, z.textBlock = s.textBlock, z.blockOf = s.blockOf, NEW a,
         Balanced(h, s), Started(h, s), Fed(h), StartsFirst(h), h # <<>>, Numbering(s),
         Matches(h, s, a),
         e.type \in {"message_delta", "message_stop"}
  PROVE  LET g == Append(h, e) IN
         /\ g \in Seq(Event) /\ g # <<>> /\ Len(g) = Len(h) + 1 /\ Len(h) \in Nat \ {0}
         /\ Balanced(g, z) /\ Started(g, z) /\ Fed(g) /\ StartsFirst(g) /\ Numbering(z)
         /\ Matches(g, z, a)
         /\ \A type : e.type # type => At(g, type) = At(h, type)
         /\ \A type : e.type = type => At(g, type) = At(h, type) \cup {Len(g)}
         /\ g[Len(g)] = e /\ g[Len(h)] = h[Len(h)]
  <1> DEFINE g == Append(h, e)
             l == Len(h)
  <1>1. /\ e.type # "content_block_delta" /\ e.type # "content_block_start"
        /\ e.type # "content_block_stop" /\ e.type # "message_start"
    OBVIOUS
  <1>2. /\ l \in Nat /\ g \in Seq(Event) /\ g # <<>> /\ g[l + 1] = e
        /\ DOMAIN h = 1 .. l /\ DOMAIN g = 1 .. l + 1
        /\ \A i \in 1 .. l : g[i] = h[i]
        /\ \A type : At(h, type) \subseteq 1 .. l
        /\ \A type : e.type = type => At(g, type) = At(h, type) \cup {l + 1}
        /\ \A type : e.type # type => At(g, type) = At(h, type)
    BY OneMoreAt
  <1>3. l # 0 /\ Len(g) = l + 1
    <2>1. l # 0
      OBVIOUS
    <2>2. QED BY <2>1, AppendProperties
  <1>4. Started(g, z) /\ Fed(g) /\ Matches(g, z, a)
    BY <1>1, StartedKept, FedKept, MatchesKept
  <1>5. Numbering(z)
    BY DEF Numbering
  <1> HIDE DEF g, l
  <1>6. /\ At(g, "content_block_stop") = At(h, "content_block_stop")
        /\ At(g, "content_block_start") = At(h, "content_block_start")
        /\ At(g, "message_start") = At(h, "message_start")
        /\ \A i \in At(h, "content_block_stop") : g[i] = h[i]
        /\ \A i \in At(h, "content_block_start") : g[i] = h[i]
    BY <1>1, <1>2
  <1>7. Balanced(g, z)
    <2>1. ASSUME NEW b \in 0 .. z.next - 1
          PROVE  \E i \in At(g, "content_block_stop") :
                   /\ g[i].index = b
                   /\ \A j \in At(g, "content_block_stop") : g[j].index = b => j = i
      <3>1. PICK i \in At(h, "content_block_stop") :
              h[i].index = b /\ \A j \in At(h, "content_block_stop") : h[j].index = b => j = i
        BY DEF Balanced
      <3>2. QED BY <1>6, <3>1
    <2>2. ASSUME NEW i \in At(g, "content_block_stop")
          PROVE  \E j \in At(g, "content_block_start") : j < i /\ g[j].index = g[i].index
      <3>1. PICK j \in At(h, "content_block_start") : j < i /\ h[j].index = h[i].index
        BY <1>6 DEF Balanced
      <3>2. QED BY <1>6, <3>1
    <2>3. QED BY <2>1, <2>2 DEF Balanced
  <1>8. StartsFirst(g)
    <2>1. At(h, "message_start") = {1}
      BY <1>2, <1>3 DEF StartsFirst, At
    <2>2. At(g, "message_start") = {1}
      BY <1>6, <2>1
    <2>3. QED BY <2>2 DEF StartsFirst, At
  <1>9. g[Len(g)] = e /\ g[Len(h)] = h[Len(h)]
    BY <1>2, <1>3 DEF l
  <1>10. QED BY <1>2, <1>3, <1>4, <1>5, <1>7, <1>8, <1>9 DEF g, l

\* What the client of a finished stream has.
Ended(h, s, a) ==
  /\ h # <<>> /\ Numbering(s) /\ Started(h, s) /\ Fed(h) /\ StartsFirst(h)
  /\ Balanced(h, s) /\ Matches(h, s, a)
  /\ At(h, "message_stop") = {Len(h)}
  /\ Len(h) - 1 \in Nat \ {0} /\ h[Len(h) - 1].stop = MapStopReason(s.finish)

\* finalize_events ends the message as Ended says.
LEMMA FinalizeRuns ==
  ASSUME NEW h \in Seq(Event), NEW s \in StreamStates, NEW a,
         Flow(h, s), Settled(h, s), Matches(h, s, a),
         NEW z, z = FinalizeEvents(s)
  PROVE  z \in StreamStates /\ Ended(History(h, z), z, a) /\ z.finish = s.finish
  <1> DEFINE z0 == StartMessage([s EXCEPT !.events = <<>>])
             z1 == CloseOpenText(z0)
             z2 == StopTools(z1)
             d == MessageDelta(s.finish)
             z3 == Emit(z2, d)
             z4 == Emit(z3, MessageStop)
             g1 == History(h, z1)
             g2 == g1 \o ToolStops(z1)
             g3 == Append(g2, d)
             g4 == Append(g3, MessageStop)
  <1>1. z = z4
    BY DEF FinalizeEvents, CloseOpenText
  <1>2. z0 \in StreamStates /\ Running(h, z0, a) /\ z0.finish = s.finish
    <2>1. z0 = StartMessage([s EXCEPT !.events = <<>>])
      OBVIOUS
    <2> HIDE DEF z0
    <2>2. QED BY <2>1, StartMessageRuns
  <1> HIDE DEF z0
  <1>3. /\ z1 \in StreamStates /\ Flow(g1, z1) /\ Matches(g1, z1, a)
        /\ z1.textBlock # None => z1.textClosed
        /\ z1.started /\ z1.finish = s.finish
    <2>1. z1 = CloseOpenText(z0)
      OBVIOUS
    <2> HIDE DEF z1
    <2>2. QED BY <1>2, <2>1, CloseOpenTextRuns
  <1> HIDE DEF z1
  <1>4. g1 \in Seq(Event) /\ z1.events \in Seq(Event) /\ ToolStops(z1) \in Seq(Event)
    <2>1. z1.events \in Seq(Event)
      BY <1>3 DEF StreamStates
    <2>2. ToolStops(z1) \in Seq(Event)
      BY <1>3, ToolStopsOnce DEF Flow
    <2>3. QED BY <2>1, <2>2, ConcatProperties DEF History
  <1>5. g1 # <<>> /\ StartsFirst(g1) /\ Numbering(z1)
    BY <1>3 DEF Flow, Begun, StartsFirst
  <1>6. /\ z2 \in StreamStates /\ History(h, z2) = g2
        /\ z2.textBlock = z1.textBlock /\ z2.blockOf = z1.blockOf /\ z2.next = z1.next
        /\ z2.finish = s.finish
    <2>1. z2 = [z1 EXCEPT !.events = z1.events \o ToolStops(z1)]
      BY DEF StopTools, ToolStops
    <2>2. z1.events \o ToolStops(z1) \in Seq(Event)
      BY <1>4, ConcatProperties
    <2>3. z2 \in StreamStates /\ z2.events = z1.events \o ToolStops(z1)
      BY <1>3, <2>1, <2>2 DEF StreamStates
    <2>4. /\ z2.textBlock = z1.textBlock /\ z2.blockOf = z1.blockOf /\ z2.next = z1.next
          /\ z2.finish = s.finish
      BY <1>3, <2>1 DEF StreamStates
    <2>5. h \o (z1.events \o ToolStops(z1)) = (h \o z1.events) \o ToolStops(z1)
      <3> DEFINE v == z1.events
                 w == ToolStops(z1)
      <3>1. v \in Seq(Event) /\ w \in Seq(Event)
        BY <1>4
      <3> HIDE DEF v, w
      <3>2. h \o (v \o w) = (h \o v) \o w
        BY <3>1, Joining
      <3>3. QED BY <3>2 DEF v, w
    <2>6. QED BY <2>3, <2>4, <2>5 DEF History
  <1>7. /\ g2 \in Seq(Event) /\ Balanced(g2, z1) /\ Started(g2, z1) /\ Fed(g2)
        /\ g2 # <<>> /\ StartsFirst(g2)
        /\ At(g2, "message_stop") = {}
        /\ \A b : Assembly(g2, b) = Assembly(g1, b)
    <2> DEFINE u == g1
    <2>1. u \in Seq(Event) /\ u # <<>> /\ StartsFirst(u) /\ Flow(u, z1)
      BY <1>3, <1>4, <1>5
    <2>2. g2 = u \o ToolStops(z1)
      OBVIOUS
    <2> HIDE DEF u, g2
    <2>3. StoppedAfter(u, z1, u \o ToolStops(z1))
      BY <1>3, <2>1, ToolStopsBalance
    <2>4. StoppedAfter(u, z1, g2)
      BY <2>2, <2>3
    <2>5. QED BY <2>1, <2>4 DEF StoppedAfter, u
  <1>8. Matches(g2, z1, a)
    <2> HIDE DEF g1, g2
    <2>1. QED BY <1>3, <1>7 DEF Matches
  <1>9. /\ d \in Event /\ d.type = "message_delta" /\ d.stop = MapStopReason(s.finish)
        /\ MessageStop \in Event /\ MessageStop.type = "message_stop"
    <2>1. s.finish \in Finishes
      BY DEF StreamStates
    <2>2. QED BY <2>1, EventTypes DEF MessageDelta, MessageStop
  <1> HIDE DEF g1, g2, d, z2
  <1>10. /\ z3 \in StreamStates /\ History(h, z3) = g3
         /\ z3.textBlock = z1.textBlock /\ z3.blockOf = z1.blockOf /\ z3.next = z1.next
         /\ z3.finish = s.finish
    <2>1. /\ z3 \in StreamStates /\ History(h, z3) = Append(History(h, z2), d)
          /\ z3.textBlock = z2.textBlock /\ z3.blockOf = z2.blockOf /\ z3.next = z2.next
          /\ z3.finish = z2.finish
      <3>1. z2 \in StreamStates /\ d \in Event
        BY <1>6, <1>9
      <3>2. QED BY <3>1, EmitFields
    <2>2. QED BY <1>6, <2>1
  <1> HIDE DEF z3
  <1>11. /\ z4 \in StreamStates /\ History(h, z4) = g4
         /\ z4.textBlock = z1.textBlock /\ z4.blockOf = z1.blockOf /\ z4.next = z1.next
         /\ z4.finish = s.finish
    <2>1. /\ z4 \in StreamStates /\ History(h, z4) = Append(History(h, z3), MessageStop)
          /\ z4.textBlock = z3.textBlock /\ z4.blockOf = z3.blockOf /\ z4.next = z3.next
          /\ z4.finish = z3.finish
      <3>1. z3 \in StreamStates /\ MessageStop \in Event
        BY <1>9, <1>10
      <3>2. QED BY <3>1, EmitFields
    <2>2. QED BY <1>10, <2>1
  <1> HIDE DEF z4
  <1>12. /\ g3 \in Seq(Event) /\ g3 # <<>> /\ Len(g3) = Len(g2) + 1 /\ Len(g2) \in Nat \ {0}
         /\ Balanced(g3, z3) /\ Started(g3, z3) /\ Fed(g3) /\ StartsFirst(g3) /\ Numbering(z3)
         /\ Matches(g3, z3, a)
         /\ At(g3, "message_stop") = {} /\ g3[Len(g3)] = d
    <2>1. d.type \in {"message_delta", "message_stop"} /\ d.type # "message_stop"
      BY <1>9
    <2>2. LET g == Append(g2, d) IN
          /\ g \in Seq(Event) /\ g # <<>> /\ Len(g) = Len(g2) + 1 /\ Len(g2) \in Nat \ {0}
          /\ Balanced(g, z3) /\ Started(g, z3) /\ Fed(g) /\ StartsFirst(g) /\ Numbering(z3)
          /\ Matches(g, z3, a)
          /\ \A type : d.type # type => At(g, type) = At(g2, type)
          /\ \A type : d.type = type => At(g, type) = At(g2, type) \cup {Len(g)}
          /\ g[Len(g)] = d /\ g[Len(g2)] = g2[Len(g2)]
      BY <1>3, <1>5, <1>7, <1>8, <1>9, <1>10, <2>1, BalancedKept
    <2>3. QED BY <2>1, <2>2, <1>7
  <1> HIDE DEF g3
  <1>13. /\ g4 \in Seq(Event) /\ g4 # <<>> /\ Len(g4) = Len(g3) + 1
         /\ Balanced(g4, z4) /\ Started(g4, z4) /\ Fed(g4) /\ StartsFirst(g4) /\ Numbering(z4)
         /\ Matches(g4, z4, a)
         /\ At(g4, "message_stop") = {Len(g4)} /\ g4[Len(g3)] = d
    <2> DEFINE e == MessageStop
    <2>1. e.type \in {"message_delta", "message_stop"} /\ e.type = "message_stop" /\ e \in Event
      BY <1>9
    <2> HIDE DEF e
    <2>2. LET g == Append(g3, e) IN
          /\ g \in Seq(Event) /\ g # <<>> /\ Len(g) = Len(g3) + 1 /\ Len(g3) \in Nat \ {0}
          /\ Balanced(g, z4) /\ Started(g, z4) /\ Fed(g) /\ StartsFirst(g) /\ Numbering(z4)
          /\ Matches(g, z4, a)
          /\ \A type : e.type # type => At(g, type) = At(g3, type)
          /\ \A type : e.type = type => At(g, type) = At(g3, type) \cup {Len(g)}
          /\ g[Len(g)] = e /\ g[Len(g3)] = g3[Len(g3)]
      BY <1>10, <1>11, <1>12, <2>1, BalancedKept
    <2>3. QED BY <2>1, <2>2, <1>12 DEF e
  <1> HIDE DEF g4
  <1>14. Len(g4) - 1 = Len(g3) /\ Len(g3) \in Nat \ {0} /\ g4[Len(g4) - 1] = d
    BY <1>12, <1>13
  <1>15. Ended(g4, z4, a)
    BY <1>9, <1>11, <1>13, <1>14 DEF Ended
  <1>16. QED BY <1>1, <1>11, <1>15

-----------------------------------------------------------------------------
(* The collector that fails                                                *)

\* a keeps what the collector that never fails keeps in g, unless it failed.
Keeps(a, g) ==
  ~ a.failed => a.text = g.text /\ a.order = g.order /\ a.args = g.args
Follows(a, g) == Keeps(a, g) /\ (~ a.failed => a.finish = g.finish)

\* The first delta of t that was relayed had null arguments; a later one had a
\* piece of them.
FirstNull(r, t) ==
  \E i \in CallsOf(r, t) : r[i].null /\ \A j \in CallsOf(r, t) : i <= j
Broken(r, t) == FirstNull(r, t) /\ \E j \in CallsOf(r, t) : r[j].piece # 0

\* a failed when it had to, and knows the calls it would fail at.
NullsKnown(r, a) ==
  /\ a.failed <=> \E t \in ToolCalls : Broken(r, t)
  /\ ~ a.failed => \A t \in ToolCalls :
       /\ (\E i \in DOMAIN a.order : a.order[i] = t) <=> CallsOf(r, t) # {}
       /\ t \in a.nulls <=> FirstNull(r, t)

\* A part that is no tool call.
LEMMA NullsKept ==
  ASSUME NEW r \in Seq(Part), NEW e \in Part, e.part # "tool_call", NEW a, NullsKnown(r, a)
  PROVE  NullsKnown(Append(r, e), a)
  <1> DEFINE g == Append(r, e)
  <1>1. /\ PartsOf(g, "tool_call") = PartsOf(r, "tool_call")
        /\ \A i \in PartsOf(r, "tool_call") : g[i] = r[i]
    <2>1. /\ \A i \in 1 .. Len(r) : g[i] = r[i]
          /\ PartsOf(r, "tool_call") \subseteq 1 .. Len(r)
          /\ \A i : i \in PartsOf(g, "tool_call") <=> i \in PartsOf(r, "tool_call")
      BY OneMorePart
    <2> HIDE DEF g
    <2>2. QED BY <2>1
  <1> HIDE DEF g
  <1>2. \A t : /\ CallsOf(g, t) = CallsOf(r, t)
               /\ CallsOf(r, t) \subseteq PartsOf(r, "tool_call")
    BY <1>1 DEF CallsOf
  <1>3. \A t : FirstNull(g, t) <=> FirstNull(r, t)
    BY <1>1, <1>2 DEF FirstNull
  <1>4. \A t : Broken(g, t) <=> Broken(r, t)
    BY <1>1, <1>2, <1>3 DEF Broken
  <1>5. NullsKnown(g, a)
    BY <1>2, <1>3, <1>4 DEF NullsKnown
  <1>6. QED BY <1>5 DEF g

\* The fields NullsKnown speaks of.
LEMMA NullsSame ==
  ASSUME NEW r, NEW a, NEW b, NullsKnown(r, a), b.failed = a.failed,
         ~ a.failed => b.order = a.order /\ b.nulls = a.nulls
  PROVE  NullsKnown(r, b)
  <1>1. CASE a.failed
    BY <1>1 DEF NullsKnown
  <1>2. CASE ~ a.failed
    BY <1>2 DEF NullsKnown
  <1>3. QED BY <1>1, <1>2

\* One more delta of a call: what its first one was stays, and it breaks the
\* call when that one was null and it has a piece.
LEMMA CallMore ==
  ASSUME NEW r \in Seq(Part), NEW d \in ToolDeltas, NEW p \in Nat \ {0}
  PROVE  LET g == Append(r, Call(d, p))
             t == d.tool
         IN  /\ \A u : u # t => /\ CallsOf(g, u) = CallsOf(r, u)
                                /\ FirstNull(g, u) <=> FirstNull(r, u)
                                /\ Broken(g, u) <=> Broken(r, u)
             /\ CallsOf(g, t) # {}
             /\ CallsOf(r, t) # {} => (FirstNull(g, t) <=> FirstNull(r, t))
             /\ CallsOf(r, t) = {} => (FirstNull(g, t) <=> d.args = "null")
             /\ Broken(g, t) <=> Broken(r, t) \/ (FirstNull(r, t) /\ d.args = "piece")
  <1> DEFINE e == Call(d, p)
             g == Append(r, e)
             t == d.tool
             l == Len(r)
             C == CallsOf(r, t)
             D == CallsOf(g, t)
  <1>1. /\ e \in Part /\ e.part = "tool_call" /\ e.tool = t /\ e.null = (d.args = "null")
        /\ e.piece = IF d.args = "piece" THEN p ELSE 0
    BY PartTypes DEF Call
  <1>2. /\ l \in Nat /\ g[l + 1] = e
        /\ \A i \in 1 .. l : g[i] = r[i]
        /\ PartsOf(r, "tool_call") \subseteq 1 .. l
        /\ \A i : i \in PartsOf(g, "tool_call") <=> i \in PartsOf(r, "tool_call") \/ i = l + 1
    BY <1>1, OneMorePart
  <1> HIDE DEF g, e, l, t
  <1>3. /\ C \subseteq 1 .. l /\ l + 1 \notin 1 .. l
        /\ \A i : i \in D <=> i \in C \/ i = l + 1
        /\ \A i \in C : g[i] = r[i]
    BY <1>1, <1>2 DEF CallsOf
  <1>4. ASSUME NEW u, u # t
        PROVE  /\ CallsOf(g, u) = CallsOf(r, u)
               /\ FirstNull(g, u) <=> FirstNull(r, u)
               /\ Broken(g, u) <=> Broken(r, u)
    <2>1. /\ CallsOf(g, u) = CallsOf(r, u)
          /\ \A i \in CallsOf(r, u) : g[i] = r[i]
      BY <1>1, <1>2, <1>4 DEF CallsOf
    <2>2. FirstNull(g, u) <=> FirstNull(r, u)
      BY <2>1 DEF FirstNull
    <2>3. QED BY <2>1, <2>2 DEF Broken
  <1> DEFINE F == \E i \in C : r[i].null /\ \A j \in C : i <= j
             G == \E i \in D : g[i].null /\ \A j \in D : i <= j
             P == \E j \in C : r[j].piece # 0
             Q == \E j \in D : g[j].piece # 0
  <1>5. /\ FirstNull(r, t) = F /\ FirstNull(g, t) = G
        /\ Broken(r, t) = (F /\ P) /\ Broken(g, t) = (G /\ Q)
    BY DEF FirstNull, Broken
  <1> HIDE DEF C, D
  <1>6. D # {}
    BY <1>3
  <1>7. ASSUME C # {} PROVE G <=> F
    <2>1. ASSUME F PROVE G
      <3>1. PICK i \in C : r[i].null /\ \A j \in C : i <= j
        BY <2>1
      <3>2. i \in D /\ g[i].null
        BY <1>3, <3>1
      <3>3. \A j \in D : i <= j
        <4>1. i \in 1 .. l /\ i <= l + 1
          BY <1>2, <1>3
        <4>2. ASSUME NEW j \in D PROVE i <= j
          <5>1. j \in C \/ j = l + 1
            BY <1>3
          <5>2. QED BY <3>1, <4>1, <5>1
        <4>3. QED BY <4>2
      <3>4. QED BY <3>2, <3>3
    <2>2. ASSUME G PROVE F
      <3>1. PICK i \in D : g[i].null /\ \A j \in D : i <= j
        BY <2>2
      <3>2. PICK k \in C : TRUE
        BY <1>7
      <3>3. i <= k /\ k \in 1 .. l
        BY <1>3, <3>1, <3>2
      <3>4. i \in C
        BY <1>2, <1>3, <3>1, <3>3
      <3>5. r[i].null /\ \A j \in C : i <= j
        BY <1>3, <3>1, <3>4
      <3>6. QED BY <3>4, <3>5
    <2>3. QED BY <2>1, <2>2
  <1>8. ASSUME C = {} PROVE G <=> d.args = "null"
    <2>1. \A i : i \in D <=> i = l + 1
      BY <1>3, <1>8
    <2>2. l + 1 \in D /\ \A j \in D : l + 1 <= j
      BY <1>2, <2>1
    <2>3. G <=> g[l + 1].null
      BY <2>1, <2>2
    <2>4. QED BY <2>3, <1>1, <1>2
  <1>9. Q <=> P \/ d.args = "piece"
    <2>1. g[l + 1].piece # 0 <=> d.args = "piece"
      BY <1>1, <1>2
    <2>2. (\E j \in D : g[j].piece # 0) <=> (\E j \in C : r[j].piece # 0) \/ g[l + 1].piece # 0
      BY <1>3
    <2>3. QED BY <2>1, <2>2
  <1>10. F => C # {}
    OBVIOUS
  <1>11. P => C # {}
    OBVIOUS
  <1> HIDE DEF F, G, P, Q
  <1>12. (G /\ Q) <=> (F /\ P) \/ (F /\ d.args = "piece")
    <2>1. CASE C # {}
      BY <1>7, <1>9, <2>1
    <2>2. CASE C = {}
      <3>1. ~ F /\ ~ P /\ (Q <=> d.args = "piece") /\ (G <=> d.args = "null")
        BY <1>8, <1>9, <1>10, <1>11, <2>2
      <3>2. ~ (d.args = "piece" /\ d.args = "null")
        OBVIOUS
      <3>3. QED BY <3>1, <3>2
    <2>3. QED BY <2>1, <2>2
  <1>13. QED BY <1>4, <1>5, <1>6, <1>7, <1>8, <1>12 DEF g, e, t, C, D

\* The call of delta d has been collected; d makes the collector fail.
Knows(a, d) == \E i \in DOMAIN a.order : a.order[i] = d.tool
FailsAt(a, d) == Knows(a, d) /\ d.args = "piece" /\ d.tool \in a.nulls

\* What CollectTool does to one that has not failed.
LEMMA CollectToolCases ==
  ASSUME NEW a \in CollectedStates, NEW d \in ToolDeltas, NEW p \in 1 .. MaxChunks, ~ a.failed
  PROVE  /\ FailsAt(a, d) => CollectTool(a, d, p) = [a EXCEPT !.failed = TRUE]
         /\ ~ FailsAt(a, d) =>
              /\ CollectTool(a, d, p).failed = FALSE
              /\ CollectTool(a, d, p).text = a.text
              /\ CollectTool(a, d, p).finish = a.finish
              /\ CollectTool(a, d, p).order
                   = IF Knows(a, d) THEN a.order ELSE Append(a.order, d.tool)
              /\ CollectTool(a, d, p).args
                   = [a.args EXCEPT ![d.tool] = IF d.args = "piece" THEN Append(@, p) ELSE @]
              /\ CollectTool(a, d, p).nulls
                   = IF ~ Knows(a, d) /\ d.args = "null" THEN a.nulls \cup {d.tool} ELSE a.nulls
         /\ CollectTool(a, d, p) \in CollectedStates
  <1> DEFINE t == d.tool
             b == CollectTool(a, d, p)
             o == IF Knows(a, d) THEN a.order ELSE Append(a.order, t)
             x == [a.args EXCEPT ![t] = IF d.args = "piece" THEN Append(@, p) ELSE @]
             k == IF ~ Knows(a, d) /\ d.args = "null" THEN a.nulls \cup {t} ELSE a.nulls
             z == [a EXCEPT !.order = o, !.args = x, !.nulls = k]
  <1>1. /\ t \in ToolCalls /\ a.order \in Seq(ToolCalls) /\ a.nulls \in SUBSET ToolCalls
        /\ a.args \in [ToolCalls -> Seq(1 .. MaxChunks)]
    BY DEF ToolDeltas, CollectedStates
  <1>2. b = IF FailsAt(a, d) THEN [a EXCEPT !.failed = TRUE] ELSE z
    BY <1>1 DEF CollectTool, CollectedStates, Knows, FailsAt
  <1>3. o \in Seq(ToolCalls) /\ k \in SUBSET ToolCalls
    BY <1>1, AppendProperties
  <1>4. x \in [ToolCalls -> Seq(1 .. MaxChunks)]
    <2>1. Append(a.args[t], p) \in Seq(1 .. MaxChunks)
      BY <1>1, AppendProperties
    <2>2. QED BY <1>1, <2>1
  <1> HIDE DEF o, x, k
  <1>5. /\ z.failed = a.failed /\ z.text = a.text /\ z.finish = a.finish
        /\ z.order = o /\ z.args = x /\ z.nulls = k /\ z \in CollectedStates
    BY <1>3, <1>4 DEF CollectedStates
  <1>6. [a EXCEPT !.failed = TRUE] \in CollectedStates
    BY DEF CollectedStates
  <1>7. a.failed = FALSE
    BY DEF CollectedStates
  <1> HIDE DEF z, b
  <1>8. b \in CollectedStates
    BY <1>2, <1>5, <1>6
  <1>9. FailsAt(a, d) => b = [a EXCEPT !.failed = TRUE]
    BY <1>2
  <1>10. ~ FailsAt(a, d) =>
           /\ b.failed = FALSE /\ b.text = a.text /\ b.finish = a.finish
           /\ b.order = o /\ b.args = x /\ b.nulls = k
    BY <1>2, <1>5, <1>7
  <1>11. QED BY <1>8, <1>9, <1>10 DEF o, x, k, b

\* CollectTool keeps the type of what is collected.
LEMMA CollectToolType ==
  ASSUME NEW a \in CollectedStates, NEW d \in ToolDeltas, NEW p \in 1 .. MaxChunks
  PROVE  CollectTool(a, d, p) \in CollectedStates
  <1>1. CASE a.failed
    BY <1>1 DEF CollectTool
  <1>2. CASE ~ a.failed
    BY <1>2, CollectToolCases
  <1>3. QED BY <1>1, <1>2

\* The recursion of CollectTools.
LEMMA CollectToolsSteps ==
  ASSUME NEW a \in CollectedStates, NEW tools \in Seq(ToolDeltas), NEW p \in 1 .. MaxChunks
  PROVE  \E g : /\ g[0] = a
                /\ \A k \in 1 .. Len(tools) : g[k] = CollectTool(g[k - 1], tools[k], p)
                /\ CollectTools(a, tools, p) = g[Len(tools)]
  <1> DEFINE m == Len(tools)
             step == [k \in 1 .. m |-> [x \in CollectedStates |-> CollectTool(x, tools[k], p)]]
             Is(g) == g = [k \in 0 .. m |-> IF k = 0 THEN a ELSE CollectTool(g[k - 1], tools[k], p)]
             after == CHOOSE g : Is(g)
  <1>1. m \in Nat /\ step \in [1 .. m -> [CollectedStates -> CollectedStates]]
    BY CollectToolType
  <1>2. PICK g \in Maps(0 .. m, CollectedStates) : Recurs(g, m, a, step)
    <2>1. step \in Maps(1 .. m, Maps(CollectedStates, CollectedStates))
      BY <1>1 DEF Maps
    <2> HIDE DEF step, m
    <2>2. QED BY <1>1, <2>1, RecursionExists
  <1>3. \A k \in 1 .. m : g[k] = CollectTool(g[k - 1], tools[k], p)
    <2>1. \A k \in 1 .. m : k - 1 \in 0 .. m /\ g[k - 1] \in CollectedStates
      <3>1. m \in Nat /\ g \in Maps(0 .. m, CollectedStates)
        BY <1>1, <1>2
      <3> HIDE DEF m
      <3>2. QED BY <3>1 DEF Maps
    <2>2. QED BY <1>2, <2>1 DEF Recurs
  <1>4. Is(g)
    <2>1. \A k \in 0 .. m : g[k] = IF k = 0 THEN a ELSE CollectTool(g[k - 1], tools[k], p)
      BY <1>1, <1>2, <1>3 DEF Recurs
    <2>2. g = [k \in 0 .. m |-> g[k]]
      BY <1>2 DEF Maps
    <2> HIDE DEF step
    <2>3. QED BY <2>1, <2>2
  <1>5. Is(after)
    <2> HIDE DEF Is
    <2>1. QED BY <1>4
  <1>6. CollectTools(a, tools, p) = after[m]
    BY DEF CollectTools
  <1> HIDE DEF after
  <1>7. after[0] = a /\ \A k \in 1 .. m : after[k] = CollectTool(after[k - 1], tools[k], p)
    BY <1>1, <1>5
  <1>8. QED BY <1>6, <1>7

\* A delta that comes is followed, or fails with good reason.
LEMMA CollectToolRuns ==
  ASSUME NEW r \in Seq(Part), NEW a \in CollectedStates, NEW g \in JoinedStates,
         NEW d \in ToolDeltas, NEW p \in 1 .. MaxChunks, NullsKnown(r, a), Keeps(a, g)
  PROVE  /\ NullsKnown(Append(r, Call(d, p)), CollectTool(a, d, p))
         /\ Keeps(CollectTool(a, d, p), Join(g, d, p))
         /\ CollectTool(a, d, p).finish = a.finish
         /\ a.failed => CollectTool(a, d, p) = a
  <1> DEFINE t == d.tool
             q == Append(r, Call(d, p))
             b == CollectTool(a, d, p)
             f == Join(g, d, p)
             known == Knows(a, d)
             fails == FailsAt(a, d)
  <1>1. /\ t \in ToolCalls /\ p \in Nat \ {0} /\ a.failed \in BOOLEAN
        /\ a.order \in Seq(ToolCalls) /\ a.nulls \in SUBSET ToolCalls
    BY BoundsAssumption DEF ToolDeltas, CollectedStates
  <1>2. /\ \A u : u # t => /\ CallsOf(q, u) = CallsOf(r, u)
                           /\ FirstNull(q, u) <=> FirstNull(r, u)
                           /\ Broken(q, u) <=> Broken(r, u)
        /\ CallsOf(q, t) # {}
        /\ CallsOf(r, t) # {} => (FirstNull(q, t) <=> FirstNull(r, t))
        /\ CallsOf(r, t) = {} => (FirstNull(q, t) <=> d.args = "null")
        /\ Broken(q, t) <=> Broken(r, t) \/ (FirstNull(r, t) /\ d.args = "piece")
    BY <1>1, CallMore
  <1>3. a.failed => b = a
    BY DEF CollectTool
  <1>4. ASSUME ~ a.failed
        PROVE  /\ fails => b = [a EXCEPT !.failed = TRUE]
               /\ ~ fails =>
                    /\ b.failed = FALSE /\ b.text = a.text /\ b.finish = a.finish
                    /\ b.order = IF known THEN a.order ELSE Append(a.order, t)
                    /\ b.args = [a.args EXCEPT ![t] = IF d.args = "piece" THEN Append(@, p) ELSE @]
                    /\ b.nulls = IF ~ known /\ d.args = "null" THEN a.nulls \cup {t} ELSE a.nulls
    BY <1>4, CollectToolCases
  <1> HIDE DEF q, t
  <1>5. CASE a.failed
    <2>1. \E u \in ToolCalls : Broken(q, u)
      <3>1. PICK u \in ToolCalls : Broken(r, u)
        BY <1>5 DEF NullsKnown
      <3>2. Broken(q, u)
        BY <1>2, <3>1
      <3>3. QED BY <3>2
    <2>2. b = a
      BY <1>3, <1>5
    <2> HIDE DEF b, f
    <2>3. NullsKnown(q, b)
      BY <1>5, <2>1, <2>2 DEF NullsKnown
    <2>4. Keeps(b, f)
      BY <1>5, <2>2 DEF Keeps
    <2>5. QED BY <1>3, <2>2, <2>3, <2>4 DEF b, f, q
  <1>6. CASE ~ a.failed
    <2>1. /\ ~ \E u \in ToolCalls : Broken(r, u)
          /\ \A u \in ToolCalls :
               /\ (\E i \in DOMAIN a.order : a.order[i] = u) <=> CallsOf(r, u) # {}
               /\ u \in a.nulls <=> FirstNull(r, u)
      BY <1>6 DEF NullsKnown
    <2>2. known <=> CallsOf(r, t) # {}
      BY <1>1, <2>1 DEF Knows, t
    <2>3. /\ fails => b = [a EXCEPT !.failed = TRUE]
          /\ ~ fails =>
               /\ b.failed = FALSE /\ b.text = a.text /\ b.finish = a.finish
               /\ b.order = IF known THEN a.order ELSE Append(a.order, t)
               /\ b.args = [a.args EXCEPT ![t] = IF d.args = "piece" THEN Append(@, p) ELSE @]
               /\ b.nulls = IF ~ known /\ d.args = "null" THEN a.nulls \cup {t} ELSE a.nulls
      BY <1>6, <1>4
    <2>4. /\ f.text = g.text
          /\ f.order = IF \E i \in DOMAIN g.order : g.order[i] = t
                       THEN g.order ELSE Append(g.order, t)
          /\ f.args = [g.args EXCEPT ![t] = IF d.args = "piece" THEN Append(@, p) ELSE @]
      BY DEF Join, JoinedStates, t
    <2>5. a.text = g.text /\ a.order = g.order /\ a.args = g.args
      BY <1>6 DEF Keeps
    <2>6. CASE fails
      <3>1. b.failed = TRUE /\ b.finish = a.finish
        BY <2>3, <2>6 DEF CollectedStates
      <3>2. Broken(q, t)
        <4>1. d.args = "piece" /\ t \in a.nulls
          BY <2>6 DEF FailsAt, t
        <4>2. QED BY <1>1, <1>2, <2>1, <4>1
      <3> HIDE DEF b, f
      <3>3. NullsKnown(q, b)
        BY <1>1, <3>1, <3>2 DEF NullsKnown
      <3>4. Keeps(b, f)
        BY <3>1 DEF Keeps
      <3>5. QED BY <1>3, <3>1, <3>3, <3>4 DEF b, f, q
    <2>7. CASE ~ fails
      <3>1. /\ b.failed = FALSE /\ b.finish = a.finish /\ b.text = a.text
            /\ b.order = IF known THEN a.order ELSE Append(a.order, t)
            /\ b.args = [a.args EXCEPT ![t] = IF d.args = "piece" THEN Append(@, p) ELSE @]
            /\ b.nulls = IF ~ known /\ d.args = "null" THEN a.nulls \cup {t} ELSE a.nulls
        BY <2>3, <2>7
      <3> HIDE DEF b, f
      <3>2. ~ Broken(q, t)
        <4>1. ~ Broken(r, t) /\ (FirstNull(r, t) <=> t \in a.nulls)
          BY <1>1, <2>1
        <4>2. FirstNull(r, t) => CallsOf(r, t) # {}
          BY DEF FirstNull
        <4>3. ~ (known /\ d.args = "piece" /\ t \in a.nulls)
          BY <2>7 DEF FailsAt, t
        <4>4. QED BY <1>2, <2>2, <4>1, <4>2, <4>3
      <3>3. \A u \in ToolCalls : ~ Broken(q, u)
        BY <1>2, <2>1, <3>2
      <3>4. \A u : (\E i \in DOMAIN b.order : b.order[i] = u)
                     <=> (\E i \in DOMAIN a.order : a.order[i] = u) \/ u = t
        <4>1. CASE known
          BY <3>1, <4>1 DEF Knows, t
        <4>2. CASE ~ known
          <5> DEFINE m == Len(a.order)
          <5>1. /\ m \in Nat /\ DOMAIN a.order = 1 .. m /\ DOMAIN b.order = 1 .. m + 1
                /\ b.order[m + 1] = t
                /\ \A i \in 1 .. m : b.order[i] = a.order[i]
            BY <1>1, <3>1, <4>2
          <5> HIDE DEF m
          <5>2. \A i : i \in 1 .. m + 1 <=> i \in 1 .. m \/ i = m + 1
            BY <5>1
          <5>3. QED BY <5>1, <5>2
        <4>3. QED BY <4>1, <4>2
      <3>5. \A u \in ToolCalls :
              (\E i \in DOMAIN b.order : b.order[i] = u) <=> CallsOf(q, u) # {}
        BY <1>2, <2>1, <3>4
      <3>6. \A u \in ToolCalls : u \in b.nulls <=> FirstNull(q, u)
        <4>1. ASSUME NEW u \in ToolCalls, u # t PROVE u \in b.nulls <=> FirstNull(q, u)
          BY <1>2, <2>1, <3>1, <4>1
        <4>2. t \in b.nulls <=> FirstNull(q, t)
          <5>1. CASE known
            BY <1>1, <1>2, <2>1, <2>2, <3>1, <5>1
          <5>2. CASE ~ known
            <6>1. CallsOf(r, t) = {}
              BY <2>2, <5>2
            <6>2. ~ FirstNull(r, t) /\ t \notin a.nulls
              BY <1>1, <2>1, <6>1 DEF FirstNull
            <6>3. FirstNull(q, t) <=> d.args = "null"
              BY <1>2, <6>1
            <6>4. QED BY <3>1, <5>2, <6>2, <6>3
          <5>3. QED BY <5>1, <5>2
        <4>3. QED BY <4>1, <4>2
      <3>7. NullsKnown(q, b)
        BY <3>1, <3>3, <3>5, <3>6 DEF NullsKnown
      <3>8. Keeps(b, f)
        <4>1. known <=> \E i \in DOMAIN g.order : g.order[i] = t
          BY <2>5 DEF Knows, t
        <4>2. b.order = f.order
          BY <2>4, <2>5, <3>1, <4>1
        <4>3. b.args = f.args /\ b.text = f.text
          BY <2>4, <2>5, <3>1
        <4>4. QED BY <4>2, <4>3 DEF Keeps
      <3>9. QED BY <1>3, <3>1, <3>7, <3>8 DEF b, f, q
    <2>8. QED BY <2>6, <2>7
  <1>7. QED BY <1>1, <1>5, <1>6

\* The deltas of a chunk.
LEMMA CollectToolsRun ==
  ASSUME NEW r \in Seq(Part), NEW a \in CollectedStates, NEW g \in JoinedStates,
         NEW tools \in Seq(ToolDeltas), NEW p \in 1 .. MaxChunks,
         NullsKnown(r, a), Keeps(a, g)
  PROVE  /\ CollectTools(a, tools, p) \in CollectedStates
         /\ r \o Relays(tools, Len(tools), p) \in Seq(Part)
         /\ NullsKnown(r \o Relays(tools, Len(tools), p), CollectTools(a, tools, p))
         /\ Keeps(CollectTools(a, tools, p), Joins(g, tools, p))
         /\ CollectTools(a, tools, p).finish = a.finish
         /\ Joins(g, tools, p).finish = g.finish
         /\ a.failed => CollectTools(a, tools, p) = a
  <1> DEFINE m == Len(tools)
  <1>1. m \in Nat /\ p \in Nat
    BY BoundsAssumption
  <1>2. PICK z : /\ z[0] = a /\ CollectTools(a, tools, p) = z[m]
                 /\ \A k \in 1 .. m : z[k] = CollectTool(z[k - 1], tools[k], p)
    BY CollectToolsSteps
  <1>3. PICK b : /\ b[0] = g /\ Joins(g, tools, p) = b[m]
                 /\ \A k \in 1 .. m : b[k] = Join(b[k - 1], tools[k], p)
    BY <1>1, JoinsSteps
  <1> DEFINE Q(k) == r \o Relays(tools, k, p)
             Holds(k) == /\ z[k] \in CollectedStates /\ b[k] \in JoinedStates
                         /\ Q(k) \in Seq(Part)
                         /\ NullsKnown(Q(k), z[k]) /\ Keeps(z[k], b[k])
                         /\ z[k].finish = a.finish /\ b[k].finish = g.finish
                         /\ a.failed => z[k] = a
             S == {k \in 0 .. m : Holds(k)}
  <1>4. Holds(0)
    <2>1. Q(0) = r
      <3>1. Relays(tools, 0, p) = <<>>
        BY DEF Relays
      <3>2. QED BY <3>1
    <2> HIDE DEF Q
    <2>2. QED BY <2>1, <1>2, <1>3
  <1>5. ASSUME NEW k \in 0 .. m - 1, Holds(k)
        PROVE  Holds(k + 1)
    <2> DEFINE t == tools[k + 1]
    <2>1. Q(k) \in Seq(Part) /\ Q(k + 1) = Append(Q(k), Call(t, p)) /\ t \in ToolDeltas
          /\ Call(t, p) \in Part
      BY <1>1, RelaysGrow
    <2> HIDE DEF Q
    <2>2. z[k + 1] = CollectTool(z[k], t, p) /\ b[k + 1] = Join(b[k], t, p)
      <3>1. k + 1 \in 1 .. m /\ (k + 1) - 1 = k
        BY <1>1
      <3>2. QED BY <3>1, <1>2, <1>3
    <2> HIDE DEF t
    <2> DEFINE z0 == z[k]  z1 == z[k + 1]  b0 == b[k]  b1 == b[k + 1]
               q0 == Q(k)  q1 == Q(k + 1)
    <2>3. /\ q0 \in Seq(Part) /\ q1 = Append(q0, Call(t, p)) /\ t \in ToolDeltas
          /\ Call(t, p) \in Part
          /\ z1 = CollectTool(z0, t, p) /\ b1 = Join(b0, t, p)
          /\ z0 \in CollectedStates /\ b0 \in JoinedStates
          /\ NullsKnown(q0, z0) /\ Keeps(z0, b0)
          /\ z0.finish = a.finish /\ b0.finish = g.finish
          /\ a.failed => z0 = a
      BY <1>5, <2>1, <2>2
    <2>4. SUFFICES /\ z1 \in CollectedStates /\ b1 \in JoinedStates /\ q1 \in Seq(Part)
                   /\ NullsKnown(q1, z1) /\ Keeps(z1, b1)
                   /\ z1.finish = a.finish /\ b1.finish = g.finish
                   /\ a.failed => z1 = a
      OBVIOUS
    <2> HIDE DEF z0, z1, b0, b1, q0, q1, Holds, S, m
    <2>5. z1 \in CollectedStates /\ b1 \in JoinedStates /\ q1 \in Seq(Part)
      BY <1>1, <2>3, CollectToolType, JoinType, AppendProperties
    <2>6. /\ NullsKnown(q1, z1) /\ Keeps(z1, b1) /\ z1.finish = z0.finish
          /\ z0.failed => z1 = z0
      BY <2>3, CollectToolRuns
    <2>7. b1.finish = b0.finish
      BY <2>3 DEF Join, JoinedStates
    <2>8. QED BY <2>3, <2>5, <2>6, <2>7
  <1> HIDE DEF Holds, m
  <1>6. 0 \in S /\ \A k \in 0 .. m - 1 : k \in S => k + 1 \in S
    BY <1>1, <1>4, <1>5
  <1>7. m \in S
    <2> HIDE DEF S
    <2>1. \A k \in 0 .. m : k \in S
      BY <1>1, <1>6, BoundedInduction
    <2>2. QED BY <2>1, <1>1
  <1>8. Holds(m)
    BY <1>7
  <1>9. QED BY <1>2, <1>3, <1>8 DEF Holds, m

\* A chunk: what is collected of it, failures included, is what its parts say.
LEMMA CollectRuns ==
  ASSUME NEW r \in Seq(Part), NEW a \in CollectedStates, NEW g \in JoinedStates,
         NEW chunk \in Chunks, NEW p \in 1 .. MaxChunks,
         NullsKnown(r, a), Follows(a, g)
  PROVE  /\ CollectChunk(a, chunk, p) \in CollectedStates
         /\ NullsKnown(r \o Sanitize(chunk, p), CollectChunk(a, chunk, p))
         /\ Follows(CollectChunk(a, chunk, p), JoinChunk(g, chunk, p))
  <1> DEFINE tools == chunk.tools
             a1 == [a EXCEPT !.text = IF chunk.content = "piece" THEN Append(@, p) ELSE @]
             g1 == [g EXCEPT !.text = IF chunk.content = "piece" THEN Append(@, p) ELSE @,
                             !.finish = LatestFinish(@, chunk)]
             z == CollectTools(a1, tools, p)
             y == [z EXCEPT !.finish = LatestFinish(@, chunk)]
             f == Joins(g1, tools, p)
             b == CollectChunk(a, chunk, p)
             h == JoinChunk(g, chunk, p)
             r1 == ContentSent(r, chunk.content, p)
             r2 == ReasoningSent(r1, chunk.reasoning, p)
             r3 == r2 \o Relays(tools, Len(tools), p)
             r4 == FinishSent(r3, chunk.finish)
  <1>1. /\ chunk.content \in {"null", "empty", "piece"} /\ chunk.reasoning \in BOOLEAN
        /\ tools \in Seq(ToolDeltas) /\ chunk.finish \in Finishes
        /\ p \in Nat \ {0} /\ p \in Nat
    BY ChunkTypes, BoundsAssumption
  <1>2. r \o Sanitize(chunk, p) = r4
    BY <1>1, SanitizeRelays
  <1>3. h = f
    BY DEF JoinChunk
  <1>4. b = IF a.failed THEN a ELSE IF z.failed THEN z ELSE y
    BY DEF CollectChunk
  <1>5. /\ a1 \in CollectedStates /\ a1.failed = a.failed /\ a1.order = a.order
        /\ a1.nulls = a.nulls /\ a1.finish = a.finish /\ a1.args = a.args
        /\ a1.text = IF chunk.content = "piece" THEN Append(a.text, p) ELSE a.text
    <2>1. a.text \in Seq(1 .. MaxChunks) /\ Append(a.text, p) \in Seq(1 .. MaxChunks)
      BY AppendProperties DEF CollectedStates
    <2>2. QED BY <2>1 DEF CollectedStates
  <1>6. /\ g1 \in JoinedStates /\ g1.order = g.order /\ g1.args = g.args
        /\ g1.text = IF chunk.content = "piece" THEN Append(g.text, p) ELSE g.text
        /\ g1.finish = LatestFinish(g.finish, chunk)
    <2>1. g.text \in Seq(Nat) /\ Append(g.text, p) \in Seq(Nat)
      BY <1>1, AppendProperties DEF JoinedStates
    <2>2. LatestFinish(g.finish, chunk) \in Finishes
      BY <1>1 DEF LatestFinish, JoinedStates
    <2> HIDE DEF LatestFinish
    <2>3. QED BY <2>1, <2>2 DEF JoinedStates
  <1> HIDE DEF a1, g1, b, h
  <1>7. Keeps(a1, g1)
    BY <1>5, <1>6 DEF Follows, Keeps
  <1>8. r2 \in Seq(Part) /\ NullsKnown(r2, a1)
    <2>1. NullsKnown(r, a1)
      BY <1>5, NullsSame
    <2>2. r1 \in Seq(Part) /\ NullsKnown(r1, a1)
      <3>1. \A q \in Nat : Text(q) \in Part /\ Text(q).part # "tool_call"
        BY PartTypes DEF Text
      <3>2. \A q \in Nat : /\ Append(r, Text(q)) \in Seq(Part)
                           /\ NullsKnown(Append(r, Text(q)), a1)
        BY <2>1, <3>1, NullsKept, AppendProperties
      <3>3. r1 = r \/ r1 = Append(r, Text(0)) \/ r1 = Append(r, Text(p))
        BY <1>1 DEF ContentSent
      <3> HIDE DEF r1
      <3>4. QED BY <1>1, <2>1, <3>2, <3>3
    <2> HIDE DEF r1
    <2>3. r2 = r1 \/ r2 = Append(r1, Thought(p))
      BY DEF ReasoningSent
    <2>4. Thought(p) \in Part /\ Thought(p).part # "tool_call"
      BY <1>1, PartTypes DEF Thought
    <2>5. Append(r1, Thought(p)) \in Seq(Part) /\ NullsKnown(Append(r1, Thought(p)), a1)
      BY <2>2, <2>4, NullsKept, AppendProperties
    <2> HIDE DEF r2
    <2>6. QED BY <2>2, <2>3, <2>5
  <1> HIDE DEF r2
  <1>9. /\ z \in CollectedStates /\ r3 \in Seq(Part) /\ NullsKnown(r3, z)
        /\ Keeps(z, f) /\ z.finish = a1.finish /\ f.finish = g1.finish
        /\ a1.failed => z = a1
    BY <1>1, <1>5, <1>6, <1>7, <1>8, CollectToolsRun
  <1> HIDE DEF z, f, r3
  <1>10. NullsKnown(r4, z)
    <2>1. CASE chunk.finish = NoFinish
      BY <1>9, <2>1 DEF FinishSent
    <2>2. CASE chunk.finish # NoFinish
      <3>1. chunk.finish \in FinishReasons
        BY <1>1, <2>2 DEF Finishes
      <3>2. Finished(chunk.finish) \in Part /\ Finished(chunk.finish).part # "tool_call"
        BY <3>1, PartTypes DEF Finished
      <3>3. NullsKnown(Append(r3, Finished(chunk.finish)), z)
        BY <1>9, <3>2, NullsKept
      <3>4. QED BY <2>2, <3>3 DEF FinishSent
    <2>3. QED BY <2>1, <2>2
  <1> HIDE DEF r4
  <1>11. CASE a.failed
    <2>1. b = a /\ z.failed = a.failed
      BY <1>4, <1>5, <1>9, <1>11
    <2>2. NullsKnown(r4, a)
      BY <1>10, <1>11, <2>1, NullsSame
    <2>3. Follows(a, h)
      BY <1>11 DEF Follows, Keeps
    <2>4. QED BY <1>2, <2>1, <2>2, <2>3 DEF b, h
  <1>12. CASE ~ a.failed /\ z.failed
    <2>1. b = z
      BY <1>4, <1>12
    <2>2. Follows(z, h)
      BY <1>12 DEF Follows, Keeps
    <2>3. QED BY <1>2, <1>9, <1>10, <2>1, <2>2 DEF b, h
  <1>13. CASE ~ a.failed /\ ~ z.failed
    <2>1. b = y
      BY <1>4, <1>13
    <2>2. /\ y \in CollectedStates /\ y.failed = z.failed /\ y.order = z.order
          /\ y.nulls = z.nulls /\ y.text = z.text /\ y.args = z.args
          /\ y.finish = LatestFinish(z.finish, chunk)
      <3>1. LatestFinish(z.finish, chunk) \in FinishReasons \cup {NoFinish}
        BY <1>1, <1>9 DEF LatestFinish, CollectedStates, Finishes
      <3> HIDE DEF LatestFinish
      <3>2. QED BY <1>9, <3>1 DEF CollectedStates
    <2> HIDE DEF y
    <2>3. NullsKnown(r4, y)
      BY <1>10, <2>2, NullsSame
    <2>4. y.finish = f.finish
      <3>1. a.finish = g.finish
        BY <1>13 DEF Follows
      <3>2. QED BY <1>5, <1>6, <1>9, <2>2, <3>1
    <2>5. Follows(y, f)
      BY <1>9, <2>2, <2>4 DEF Follows, Keeps
    <2>6. QED BY <1>2, <1>3, <2>1, <2>2, <2>3, <2>5 DEF b, h
  <1>14. a.failed \in BOOLEAN /\ z.failed \in BOOLEAN
    BY <1>9 DEF CollectedStates
  <1>15. QED BY <1>11, <1>12, <1>13, <1>14

-----------------------------------------------------------------------------
(* The inductive invariant                                                 *)

\* The message starts first if it has started.
StartsOnce(h) ==
  /\ At(h, "message_start") \subseteq {1}
  /\ At(h, "content_block_start") # {} => 1 \in At(h, "message_start")

\* What the client of a stream that was cut has.
Ceased(h, s, a) ==
  Numbering(s) /\ Started(h, s) /\ Fed(h) /\ StartsOnce(h) /\ Matches(h, s, a)

\* What the clients have, g being what the collector that never fails keeps.
Shape(g) ==
  /\ Agrees(relayed, g, completion) /\ g.finish = completion.finish
  /\ status = "open" => Flow(out, stream) /\ Settled(out, stream) /\ Matches(out, stream, g)
  /\ status = "done" => Ended(out, stream, g)
  /\ status = "cut" => Ceased(out, stream, g)

IInv ==
  /\ n \in 0 .. MaxChunks /\ status \in {"open", "done", "cut"}
  /\ out \in Seq(Event) /\ stream \in StreamStates /\ stream.events = <<>>
  /\ collected \in CollectedStates /\ completion \in CompletionStates /\ relayed \in Seq(Part)
  /\ stream.finish = completion.finish /\ Told(relayed, completion.finish)
  /\ NullsKnown(relayed, collected)
  /\ \E g \in JoinedStates : Follows(collected, g) /\ Shape(g)

\* Initially.
LEMMA InvInit == AnswerInit => IInv
  <1> SUFFICES ASSUME AnswerInit PROVE IInv
    OBVIOUS
  <1> USE DEF AnswerInit, StreamInit, OpenAIInit
  <1>1. n \in 0 .. MaxChunks /\ status \in {"open", "done", "cut"} /\ status # "done"
    BY BoundsAssumption
  <1>2. out = <<>> /\ out \in Seq(Event) /\ relayed = <<>> /\ relayed \in Seq(Part)
    OBVIOUS
  <1>3. stream \in StreamStates /\ stream.events = <<>> /\ stream.finish = NoFinish
    BY DEF InitStream, StreamStates, Finishes, None
  <1> DEFINE g == [text |-> <<>>, order |-> <<>>, args |-> [t \in ToolCalls |-> <<>>],
                    finish |-> NoFinish]
  <1>4. /\ g \in JoinedStates /\ g.finish = NoFinish
        /\ completion \in CompletionStates /\ completion.finish = NoFinish
        /\ collected \in CollectedStates
    BY DEF InitCollected, InitCompletion, JoinedStates, CollectedStates, CompletionStates,
           Finishes
  <1>5. /\ stream.started = FALSE /\ stream.textBlock = None /\ stream.textClosed = FALSE
        /\ stream.active = "none" /\ stream.next = 0
        /\ \A t \in ToolCalls : stream.blockOf[t] = None
    BY DEF InitStream
  <1>6. /\ g.text = <<>> /\ g.order = <<>>
        /\ \A t \in ToolCalls : g.args[t] = <<>>
        /\ completion.content = <<>> /\ completion.reasoning = <<>> /\ completion.calls = {}
        /\ completion.args = g.args
        /\ Follows(collected, g)
        /\ collected.order = <<>> /\ collected.nulls = {} /\ collected.failed = FALSE
    BY DEF InitCollected, InitCompletion, Follows, Keeps
  <1> HIDE DEF g
  <1>7. /\ \A type : At(out, type) = {}
        /\ \A part : PartsOf(relayed, part) = {}
        /\ \A b : DeltasOf(out, b) = {} /\ \A t : CallsOf(relayed, t) = {}
    <2>1. (\A type : At(out, type) = {}) /\ (\A part : PartsOf(relayed, part) = {})
      BY <1>2 DEF At, PartsOf
    <2>2. \A b : DeltasOf(out, b) = {}
      BY <2>1 DEF DeltasOf
    <2>3. \A t : CallsOf(relayed, t) = {}
      BY <2>1 DEF CallsOf
    <2>4. QED BY <2>1, <2>2, <2>3
  <1>8. \A b : Assembly(out, b) = <<>>
    BY <1>7, PiecesNone DEF Assembly
  <1>9. Flow(out, stream) /\ Settled(out, stream)
    <2>1. 0 .. stream.next - 1 = {}
      BY <1>5
    <2>2. Numbering(stream)
      BY <1>5, <2>1 DEF Numbering
    <2>3. Begun(out, stream)
      BY <1>2, <1>5, <1>7 DEF Begun
    <2>4. Started(out, stream) /\ Stopped(out, stream) /\ Fed(out)
      BY <1>5, <1>7, <2>1 DEF Started, Stopped, Fed
    <2>5. Settled(out, stream)
      BY <1>5 DEF Settled
    <2>6. QED BY <2>2, <2>3, <2>4, <2>5 DEF Flow
  <1>10. Matches(out, stream, g)
    <2>1. DOMAIN g.order = {}
      BY <1>6
    <2>2. QED BY <1>5, <1>6, <1>8, <2>1 DEF Matches
  <1>11. Agrees(relayed, g, completion) /\ Told(relayed, completion.finish)
    <2>1. DOMAIN g.order = {}
      BY <1>6
    <2>2. \A S : S = {} => PiecesAt(relayed, S) = <<>>
      BY PiecesNone
    <2>3. Agrees(relayed, g, completion)
      BY <1>6, <1>7, <2>1, <2>2 DEF Agrees
    <2>4. QED BY <1>4, <1>7, <2>3 DEF Told
  <1>12. NullsKnown(relayed, collected)
    <2>1. DOMAIN collected.order = {}
      BY <1>6
    <2>2. \A t : ~ FirstNull(relayed, t) /\ ~ Broken(relayed, t)
      BY <1>7 DEF FirstNull, Broken
    <2>3. QED BY <1>6, <1>7, <2>1, <2>2 DEF NullsKnown
  <1>13. Shape(g)
    BY <1>4, <1>9, <1>10, <1>11 DEF Shape
  <1>14. QED BY <1>1, <1>2, <1>3, <1>4, <1>6, <1>11, <1>12, <1>13 DEF IInv

\* What Send leaves of a state.
LEMMA SendKeeps ==
  ASSUME NEW s \in StreamStates, NEW z, z = [s EXCEPT !.events = <<>>]
  PROVE  /\ z \in StreamStates /\ z.events = <<>>
         /\ z.started = s.started /\ z.textBlock = s.textBlock /\ z.textClosed = s.textClosed
         /\ z.active = s.active /\ z.blockOf = s.blockOf /\ z.next = s.next
         /\ z.finish = s.finish
  <1>1. z.events = <<>> /\ <<>> \in Seq(Event)
    BY DEF StreamStates
  <1>2. z \in StreamStates
    BY <1>1 DEF StreamStates
  <1>3. QED BY <1>1, <1>2 DEF StreamStates

\* A chunk keeps the invariant.
LEMMA InvChunk ==
  ASSUME IInv, NEW chunk \in Chunks, Chunk(chunk), Relay(chunk, n + 1)
  PROVE  IInv'
  <1> DEFINE z == ConsumeChunk(stream, chunk, n + 1)
  <1>1. /\ status = "open" /\ status' = status /\ n < MaxChunks /\ n' = n + 1
        /\ stream' = [z EXCEPT !.events = <<>>] /\ out' = History(out, z)
        /\ collected' = CollectChunk(collected, chunk, n + 1)
        /\ relayed' = relayed \o Sanitize(chunk, n + 1)
        /\ completion' = Accumulate(completion, chunk, n + 1)
    BY DEF Chunk, Relay, Send, History
  <1>2. n \in Nat /\ n + 1 \in Nat \ {0} /\ n' \in 0 .. MaxChunks
    BY <1>1, BoundsAssumption DEF IInv
  <1> PICK g \in JoinedStates : Follows(collected, g) /\ Shape(g)
    BY DEF IInv
  <1>3. /\ Flow(out, stream) /\ Settled(out, stream) /\ Matches(out, stream, g)
        /\ out \in Seq(Event) /\ stream \in StreamStates
        /\ collected \in CollectedStates /\ completion \in CompletionStates
        /\ relayed \in Seq(Part) /\ NullsKnown(relayed, collected)
        /\ stream.finish = completion.finish /\ g.finish = completion.finish
        /\ Agrees(relayed, g, completion) /\ Told(relayed, completion.finish)
    BY <1>1 DEF IInv, Shape
  <1> DEFINE p == n + 1
             b == JoinChunk(g, chunk, p)
             a == CollectChunk(collected, chunk, p)
             d == Accumulate(completion, chunk, p)
             q == relayed \o Sanitize(chunk, p)
  <1>4. /\ z = ConsumeChunk(stream, chunk, p) /\ b = JoinChunk(g, chunk, p)
        /\ d = Accumulate(completion, chunk, p) /\ q = relayed \o Sanitize(chunk, p)
        /\ a = CollectChunk(collected, chunk, p)
        /\ p \in Nat \ {0} /\ p \in 1 .. MaxChunks
    BY <1>1, <1>2, BoundsAssumption
  <1>5. /\ stream' = [z EXCEPT !.events = <<>>] /\ out' = History(out, z)
        /\ collected' = a /\ relayed' = q /\ completion' = d
    BY <1>1
  <1> HIDE DEF z, a, b, d, q, p
  <1>6. /\ z \in StreamStates /\ b \in JoinedStates /\ d \in CompletionStates
        /\ q \in Seq(Part)
        /\ Running(out, z, b) /\ Agrees(q, b, d) /\ Told(q, d.finish)
        /\ z.finish = d.finish /\ b.finish = d.finish
    <2>1. Together(out, ConsumeChunk(stream, chunk, p), JoinChunk(g, chunk, p),
                   Accumulate(completion, chunk, p), relayed \o Sanitize(chunk, p))
      BY <1>3, <1>4, ChunkRuns
    <2>2. Together(out, z, b, d, q)
      BY <1>4, <2>1
    <2>3. QED BY <2>2 DEF Together
  <1>7. /\ stream' \in StreamStates /\ stream'.events = <<>>
        /\ stream'.started = z.started /\ stream'.textBlock = z.textBlock
        /\ stream'.textClosed = z.textClosed
        /\ stream'.active = z.active /\ stream'.blockOf = z.blockOf /\ stream'.next = z.next
        /\ stream'.finish = z.finish
    BY <1>5, <1>6, SendKeeps
  <1>8. out' \in Seq(Event)
    <2>1. z.events \in Seq(Event)
      BY <1>6 DEF StreamStates
    <2>2. QED BY <1>3, <1>5, <2>1, ConcatProperties DEF History
  <1>9. Flow(out', stream') /\ Settled(out', stream') /\ Matches(out', stream', b)
    <2>1. Flow(out', z) /\ Settled(out', z) /\ Matches(out', z, b)
      BY <1>5, <1>6 DEF Running
    <2>2. QED BY <1>7, <2>1, SameFields
  <1>10. status' = "open"
    BY <1>1
  <1>11. /\ n' \in 0 .. MaxChunks /\ status' \in {"open", "done", "cut"} /\ status' # "done"
         /\ out' \in Seq(Event) /\ stream' \in StreamStates /\ stream'.events = <<>>
         /\ completion' \in CompletionStates /\ relayed' \in Seq(Part)
         /\ stream'.finish = completion'.finish /\ b.finish = completion'.finish
         /\ Agrees(relayed', b, completion') /\ Told(relayed', completion'.finish)
         /\ Flow(out', stream') /\ Settled(out', stream') /\ Matches(out', stream', b)
    BY <1>2, <1>5, <1>6, <1>7, <1>8, <1>9, <1>10
  <1>12. /\ collected' \in CollectedStates /\ NullsKnown(relayed', collected')
         /\ Follows(collected', b) /\ b \in JoinedStates
    <2>1. a \in CollectedStates /\ NullsKnown(q, a) /\ Follows(a, b)
      BY <1>3, <1>4, CollectRuns
    <2>2. QED BY <1>5, <1>6, <2>1
  <1>13. QED BY <1>10, <1>11, <1>12 DEF IInv, Shape

\* Parts that end the relayed stream.
LEMMA EndPartsAgree ==
  ASSUME NEW r \in Seq(Part), NEW a, NEW c, NEW f, Agrees(r, a, c), Told(r, f),
         NEW e \in {ErrorEvent, DoneEvent}
  PROVE  /\ Append(r, e) \in Seq(Part) /\ Agrees(Append(r, e), a, c)
         /\ Told(Append(r, e), f)
         /\ \A b : NullsKnown(r, b) => NullsKnown(Append(r, e), b)
  <1>1. e \in Part /\ e.part \in {"error", "done"}
    BY PartTypes DEF ErrorEvent, DoneEvent
  <1>2. e.part \notin {"content", "reasoning", "tool_call"} /\ e.part # "finish"
    BY <1>1
  <1>3. \A b : NullsKnown(r, b) => NullsKnown(Append(r, e), b)
    BY <1>1, <1>2, NullsKept
  <1>4. QED BY <1>1, <1>2, <1>3, AgreesKept, ToldKept, AppendProperties

\* [DONE] establishes what the invariant says of an ended stream.
LEMMA InvDone ==
  ASSUME IInv, Done, RelayDone
  PROVE  IInv'
  <1> DEFINE z == FinalizeEvents(stream)
             r == Append(relayed, DoneEvent)
  <1>1. /\ status = "open" /\ status' = "done" /\ n' = n
        /\ stream' = [z EXCEPT !.events = <<>>] /\ out' = History(out, z)
        /\ collected' = collected /\ completion' = completion /\ relayed' = r
    BY DEF Done, RelayDone, Send, History
  <1> PICK g \in JoinedStates : Follows(collected, g) /\ Shape(g)
    BY DEF IInv
  <1>2. /\ Flow(out, stream) /\ Settled(out, stream) /\ Matches(out, stream, g)
        /\ out \in Seq(Event) /\ stream \in StreamStates /\ z = FinalizeEvents(stream)
    BY <1>1 DEF IInv, Shape
  <1>3. /\ r \in Seq(Part) /\ Agrees(r, g, completion) /\ Told(r, completion.finish)
        /\ NullsKnown(r, collected) /\ g.finish = completion.finish
    BY EndPartsAgree DEF IInv, Shape
  <1> HIDE DEF z, r
  <1>4. /\ z \in StreamStates /\ Ended(History(out, z), z, g)
        /\ z.finish = stream.finish
    BY <1>2, FinalizeRuns
  <1>5. /\ stream' \in StreamStates /\ stream'.events = <<>>
        /\ stream'.textBlock = z.textBlock
        /\ stream'.blockOf = z.blockOf /\ stream'.next = z.next
        /\ stream'.finish = z.finish
    BY <1>1, <1>4, SendKeeps
  <1>6. out' \in Seq(Event)
    <2>1. z.events \in Seq(Event)
      BY <1>4 DEF StreamStates
    <2>2. QED BY <1>1, <1>2, <2>1, ConcatProperties DEF History
  <1>7. Ended(out', stream', g)
    <2> DEFINE h == out'
               s == stream'
    <2>1. Ended(h, z, g) /\ s.textBlock = z.textBlock
          /\ s.blockOf = z.blockOf /\ s.next = z.next /\ s.finish = z.finish
      BY <1>1, <1>4, <1>5
    <2> HIDE DEF h, s
    <2>2. Ended(h, s, g)
      BY <2>1 DEF Ended, Numbering, Started, Balanced, Matches
    <2>3. QED BY <2>2 DEF h, s
  <1>8. /\ n' \in 0 .. MaxChunks /\ status' = "done"
        /\ out' \in Seq(Event) /\ stream' \in StreamStates /\ stream'.events = <<>>
        /\ collected' \in CollectedStates /\ completion' \in CompletionStates
        /\ relayed' \in Seq(Part) /\ Follows(collected', g)
        /\ stream'.finish = completion'.finish /\ g.finish = completion'.finish
        /\ Agrees(relayed', g, completion') /\ Told(relayed', completion'.finish)
        /\ NullsKnown(relayed', collected')
        /\ Ended(out', stream', g)
    BY <1>1, <1>3, <1>4, <1>5, <1>6, <1>7 DEF IInv
  <1>9. QED BY <1>8 DEF IInv, Shape

\* A message that starts first starts once.
LEMMA StartsProperly ==
  ASSUME NEW h, DOMAIN h = 1 .. Len(h), Len(h) \in Nat, StartsFirst(h)
  PROVE  StartsOnce(h)
  <1>1. At(h, "message_start") \subseteq {1}
    BY DEF At, StartsFirst
  <1>2. ASSUME At(h, "content_block_start") # {} PROVE 1 \in At(h, "message_start")
    <2>1. 1 \in DOMAIN h
      BY <1>2 DEF At
    <2>2. QED BY <2>1 DEF At, StartsFirst
  <1>3. QED BY <1>1, <1>2 DEF StartsOnce

\* A cut leaves the message as it is but for an error, and ends the relayed
\* stream at most.
LEMMA InvCut ==
  ASSUME IInv, NEW failed \in BOOLEAN, Cut(failed), RelayCut(failed)
  PROVE  IInv'
  <1>1. /\ status = "open" /\ status' = "cut" /\ n' = n /\ stream' = stream
        /\ out' = IF failed THEN Append(out, ErrorSent) ELSE out
        /\ relayed' = IF failed THEN relayed \o <<ErrorEvent, DoneEvent>> ELSE relayed
        /\ collected' = collected /\ completion' = completion
    BY DEF Cut, RelayCut
  <1> PICK g \in JoinedStates : Follows(collected, g) /\ Shape(g)
    BY DEF IInv
  <1>2. /\ relayed' \in Seq(Part) /\ Agrees(relayed', g, completion)
        /\ Told(relayed', completion.finish) /\ NullsKnown(relayed', collected)
    <2>1. /\ relayed \in Seq(Part) /\ Agrees(relayed, g, completion)
          /\ Told(relayed, completion.finish) /\ NullsKnown(relayed, collected)
      BY DEF IInv, Shape
    <2>2. CASE ~ failed
      BY <1>1, <2>1, <2>2
    <2>3. CASE failed
      <3> DEFINE r == Append(relayed, ErrorEvent)
      <3>1. /\ r \in Seq(Part) /\ Agrees(r, g, completion) /\ Told(r, completion.finish)
            /\ NullsKnown(r, collected)
        BY <2>1, EndPartsAgree
      <3> HIDE DEF r
      <3>2. /\ Append(r, DoneEvent) \in Seq(Part)
            /\ Agrees(Append(r, DoneEvent), g, completion)
            /\ Told(Append(r, DoneEvent), completion.finish)
            /\ NullsKnown(Append(r, DoneEvent), collected)
        BY <3>1, EndPartsAgree
      <3>3. relayed' = Append(r, DoneEvent)
        <4>1. <<ErrorEvent, DoneEvent>> = Append(<<ErrorEvent>>, DoneEvent)
          OBVIOUS
        <4>2. ErrorEvent \in Part /\ DoneEvent \in Part /\ <<ErrorEvent>> \in Seq(Part)
          BY PartTypes
        <4>3. relayed \o Append(<<ErrorEvent>>, DoneEvent)
                = Append(relayed \o <<ErrorEvent>>, DoneEvent)
          BY <2>1, <4>2, ConcatAppend
        <4>4. relayed \o <<ErrorEvent>> = r
          BY <2>1, <4>2, AppendIsConcat DEF r
        <4>5. QED BY <1>1, <2>3, <4>1, <4>3, <4>4
      <3>4. QED BY <3>2, <3>3
    <2>4. QED BY <2>2, <2>3
  <1>3. out' \in Seq(Event) /\ Ceased(out', stream, g)
    <2>1. /\ out \in Seq(Event) /\ stream \in StreamStates
          /\ Numbering(stream) /\ Started(out, stream) /\ Fed(out) /\ Begun(out, stream)
          /\ Matches(out, stream, g)
      BY <1>1 DEF IInv, Shape, Flow
    <2>2. StartsOnce(out)
      <3>1. DOMAIN out = 1 .. Len(out) /\ Len(out) \in Nat
        BY <2>1, LenProperties
      <3>2. StartsFirst(out)
        BY <2>1 DEF Begun, StartsFirst
      <3>3. QED BY <3>1, <3>2, StartsProperly
    <2>3. CASE ~ failed
      BY <1>1, <2>1, <2>2, <2>3 DEF Ceased
    <2>4. CASE failed
      <3> DEFINE h == Append(out, ErrorSent)
      <3>1. ErrorSent \in Event /\ ErrorSent.type = "error"
        BY EventTypes DEF ErrorSent
      <3>2. h \in Seq(Event) /\ \A type : type # "error" => At(h, type) = At(out, type)
        BY <2>1, <3>1, OneMoreAt
      <3>3. Started(h, stream) /\ Fed(h) /\ Matches(h, stream, g)
        BY <2>1, <3>1, StartedKept, FedKept, MatchesKept
      <3> HIDE DEF h
      <3>4. StartsOnce(h)
        BY <2>2, <3>2 DEF StartsOnce
      <3>5. h \in Seq(Event) /\ Ceased(h, stream, g)
        BY <2>1, <3>2, <3>3, <3>4 DEF Ceased
      <3>6. QED BY <1>1, <2>4, <3>5 DEF h
    <2>5. QED BY <2>3, <2>4
  <1>4. /\ n' \in 0 .. MaxChunks /\ stream' \in StreamStates /\ stream'.events = <<>>
        /\ collected' \in CollectedStates /\ completion' \in CompletionStates
        /\ stream'.finish = completion'.finish /\ g.finish = completion'.finish
    BY <1>1 DEF IInv, Shape
  <1>5. QED BY <1>1, <1>2, <1>3, <1>4 DEF IInv, Shape

\* Every step keeps the invariant.
LEMMA InvStep == IInv /\ [AnswerNext]_<<streamVars, openaiVars>> => IInv'
  <1> SUFFICES ASSUME IInv, [AnswerNext]_<<streamVars, openaiVars>> PROVE IInv'
    OBVIOUS
  <1>1. ASSUME NEW chunk \in Chunks, Chunk(chunk), Relay(chunk, n + 1) PROVE IInv'
    BY <1>1, InvChunk
  <1>2. CASE BareChunk /\ UNCHANGED openaiVars
    <2>1. n' \in 0 .. MaxChunks
      BY <1>2, BoundsAssumption DEF IInv, BareChunk
    <2>2. QED BY <1>2, <2>1 DEF IInv, Shape, BareChunk, openaiVars
  <1>3. CASE Done /\ RelayDone
    BY <1>3, InvDone
  <1>4. ASSUME NEW failed \in BOOLEAN, Cut(failed), RelayCut(failed) PROVE IInv'
    BY <1>4, InvCut
  <1>5. CASE UNCHANGED <<streamVars, openaiVars>>
    BY <1>5 DEF IInv, Shape, streamVars, openaiVars
  <1>6. QED BY <1>1, <1>2, <1>3, <1>4, <1>5 DEF AnswerNext

\* Every reachable state, for any number of chunks, tool calls and deltas,
\* satisfies the inductive invariant.
THEOREM Invariant == Spec => []IInv
  <1>1. AnswerInit => IInv
    BY InvInit
  <1>2. IInv /\ [AnswerNext]_<<streamVars, openaiVars>> => IInv'
    BY InvStep
  <1>3. QED BY <1>1, <1>2, PTL DEF Spec

-----------------------------------------------------------------------------
(* The properties                                                          *)

\* What the invariant says of every state, open, done or cut.
LEMMA Always ==
  ASSUME IInv
  PROVE  /\ out \in Seq(Event) /\ DOMAIN out = 1 .. Len(out) /\ Len(out) \in Nat
         /\ stream \in StreamStates
         /\ Numbering(stream) /\ Started(out, stream) /\ Fed(out) /\ StartsOnce(out)
         /\ \A type : Of(type) = At(out, type)
         /\ \A b : Starts(b) = {i \in At(out, "content_block_start") : out[i].index = b}
         /\ \A b : Stops(b) = {i \in At(out, "content_block_stop") : out[i].index = b}
         /\ \A b : Assembled(b) = Assembly(out, b)
  <1>1. out \in Seq(Event) /\ stream \in StreamStates
    BY DEF IInv
  <1>2. DOMAIN out = 1 .. Len(out) /\ Len(out) \in Nat
    BY <1>1, LenProperties
  <1>3. /\ Numbering(stream) /\ Started(out, stream) /\ Fed(out) /\ StartsOnce(out)
    <2>1. CASE status = "done"
      <3>1. /\ Numbering(stream) /\ Started(out, stream) /\ Fed(out) /\ StartsFirst(out)
        BY <2>1 DEF IInv, Shape, Ended
      <3>2. QED BY <1>2, <3>1, StartsProperly
    <2>2. CASE status = "open"
      <3>1. /\ Numbering(stream) /\ Started(out, stream) /\ Fed(out) /\ Begun(out, stream)
        BY <2>2 DEF IInv, Shape, Flow
      <3>2. StartsFirst(out)
        BY <3>1 DEF Begun, StartsFirst
      <3>3. QED BY <1>2, <3>1, <3>2, StartsProperly
    <2>3. CASE status = "cut"
      BY <2>3 DEF IInv, Shape, Ceased
    <2>4. QED BY <2>1, <2>2, <2>3 DEF IInv
  <1>4. \A type : Of(type) = At(out, type)
    BY DEF Of, Positions, At
  <1>5. /\ \A b : Starts(b) = {i \in At(out, "content_block_start") : out[i].index = b}
        /\ \A b : Stops(b) = {i \in At(out, "content_block_stop") : out[i].index = b}
        /\ \A b : Assembled(b) = Assembly(out, b)
    BY <1>4 DEF Starts, Stops, Assembled, Assembly, DeltasOf
  <1>6. QED BY <1>1, <1>2, <1>3, <1>4, <1>5

\* What was collected, failures aside, and what is streamed.
LEMMA Collects ==
  ASSUME IInv
  PROVE  \E g \in JoinedStates :
           /\ Follows(collected, g) /\ Matches(out, stream, g)
           /\ Agrees(relayed, g, completion) /\ g.finish = completion.finish
  <1>1. PICK g \in JoinedStates : Follows(collected, g) /\ Shape(g)
    BY DEF IInv
  <1>2. Matches(out, stream, g)
    <2>1. CASE status = "done"
      BY <1>1, <2>1 DEF Shape, Ended
    <2>2. CASE status = "open"
      BY <1>1, <2>2 DEF Shape
    <2>3. CASE status = "cut"
      BY <1>1, <2>3 DEF Shape, Ceased
    <2>4. QED BY <2>1, <2>2, <2>3 DEF IInv
  <1>3. QED BY <1>1, <1>2 DEF Shape

\* There is a block for each tool call, and one for the text.
LEMMA BlocksBounded ==
  ASSUME NEW s \in StreamStates, Numbering(s)
  PROVE  s.next <= Cardinality(ToolCalls) + 1 /\ Cardinality(ToolCalls) \in Nat
  <1> DEFINE A == 0 .. s.next - 1
             B == A \ {s.textBlock}
             f == [b \in B |-> CHOOSE t \in ToolCalls : s.blockOf[t] = b]
             c == Cardinality(ToolCalls)
  <1>1. c \in Nat /\ IsFiniteSet(ToolCalls)
    BY ToolCallsAssumption, FS_CardinalityType
  <1>2. s.next \in Nat
    BY DEF StreamStates
  <1>3. IsFiniteSet(A) /\ Cardinality(A) = s.next
    <2>1. /\ IsFiniteSet(0 .. s.next - 1)
          /\ Cardinality(0 .. s.next - 1) = IF 0 > s.next - 1 THEN 0 ELSE (s.next - 1) - 0 + 1
      BY <1>2, FS_Interval, SMTT(30)
    <2>2. QED BY <1>2, <2>1
  <1>4. /\ IsFiniteSet(B)
        /\ Cardinality(B) = IF s.textBlock \in A THEN Cardinality(A) - 1 ELSE Cardinality(A)
    <2> HIDE DEF A
    <2>1. QED BY <1>3, FS_RemoveElement
  <1>5. \A b \in B : f[b] \in ToolCalls /\ s.blockOf[f[b]] = b
    <2>1. \A b \in B : \E t \in ToolCalls : s.blockOf[t] = b
      BY DEF Numbering
    <2> HIDE DEF B
    <2>2. QED BY <2>1
  <1> HIDE DEF B
  <1>6. f \in Injection(B, ToolCalls)
    <2>1. f \in [B -> ToolCalls]
      BY <1>5
    <2>2. \A x, y \in B : f[x] = f[y] => x = y
      BY <1>5
    <2>3. QED BY <2>1, <2>2 DEF Injection, IsInjective
  <1>7. Cardinality(B) <= c
    <2> HIDE DEF f
    <2>1. QED BY <1>1, <1>6, FS_Injection
  <1>8. QED BY <1>1, <1>2, <1>3, <1>4, <1>7

\* The blocks are as many as the tool calls and one at most.
LEMMA TypeHolds == IInv => TypeOK
  <1> SUFFICES ASSUME IInv PROVE TypeOK
    OBVIOUS
  <1> DEFINE c == Cardinality(ToolCalls)
  <1>1. stream \in StreamStates /\ Numbering(stream)
    BY Always
  <1>2. stream.next <= c + 1 /\ c \in Nat /\ stream.next \in Nat
    BY <1>1, BlocksBounded DEF StreamStates
  <1>3. \A b \in 0 .. stream.next - 1 : b \in 0 .. c
    BY <1>2
  <1>4. stream.next \in 0 .. c + 1
    BY <1>2
  <1>5. stream.textBlock \in {None} \cup 0 .. c
    BY <1>1, <1>3 DEF Numbering
  <1>6. stream.blockOf \in [ToolCalls -> {None} \cup 0 .. c]
    <2>1. stream.blockOf \in [ToolCalls -> Int]
      BY <1>1 DEF StreamStates
    <2>2. \A t \in ToolCalls : stream.blockOf[t] \in {None} \cup 0 .. c
      BY <1>1, <1>3 DEF Numbering
    <2>3. QED BY <2>1, <2>2
  <1>7. /\ stream.started \in BOOLEAN /\ stream.textClosed \in BOOLEAN
        /\ stream.active \in {"none", "text", "tool_use"}
        /\ stream.finish \in FinishReasons \cup {NoFinish}
    BY <1>1 DEF StreamStates, Finishes
  <1>8. /\ n \in 0 .. MaxChunks /\ status \in {"open", "done", "cut"}
        /\ stream.events = <<>> /\ out \in Seq(Event) /\ collected \in CollectedStates
    BY DEF IInv
  <1>9. QED BY <1>4, <1>5, <1>6, <1>7, <1>8 DEF TypeOK

\* The blocks that were started are numbered by the events that started them.
LEMMA OrderHolds == IInv => BlocksInOrder
  <1> SUFFICES ASSUME IInv PROVE BlocksInOrder
    OBVIOUS
  <1> DEFINE T == At(out, "content_block_start")
             A == 0 .. stream.next - 1
             f == [i \in T |-> out[i].index]
  <1>1. /\ DOMAIN out = 1 .. Len(out) /\ Len(out) \in Nat
        /\ StartsOnce(out) /\ Started(out, stream)
        /\ Of("content_block_start") = T /\ Of("message_start") = At(out, "message_start")
        /\ stream.next \in Nat
    BY Always DEF StreamStates
  <1>2. Of("message_start") \subseteq {1}
    BY <1>1 DEF StartsOnce
  <1>3. ASSUME T # {} PROVE 1 \in Of("message_start")
    BY <1>1, <1>3 DEF StartsOnce
  <1>4. T \in SUBSET Int
    BY <1>1 DEF At
  <1>5. /\ \A i \in T : out[i].index \in A
        /\ \A i, j \in T : i < j => out[i].index < out[j].index
        /\ \A b \in A : \E i \in T : out[i].index = b
    BY <1>1 DEF Started
  <1>6. A \in SUBSET Int
    BY <1>1
  <1>7. {out[i].index : i \in T} = A
    <2> HIDE DEF T, A
    <2>1. QED BY <1>5
  <1>8. f \in Injection(T, A) /\ f \in Surjection(T, A)
    <2> HIDE DEF T, A
    <2>1. f \in [T -> A]
      BY <1>5
    <2>2. ASSUME NEW i \in T, NEW j \in T, f[i] = f[j] PROVE i = j
      <3>1. i \in Int /\ j \in Int /\ out[i].index \in Int /\ out[j].index \in Int
        BY <1>4, <1>5, <1>6
      <3>2. ~ (i < j) /\ ~ (j < i)
        BY <1>5, <2>2, <3>1
      <3>3. QED BY <3>1, <3>2
    <2>3. \A b \in A : \E i \in T : f[i] = b
      BY <1>5
    <2>4. QED BY <2>1, <2>2, <2>3 DEF Injection, IsInjective, Surjection
  <1>9. IsFiniteSet(A) /\ Cardinality(A) = stream.next
    <2>1. /\ IsFiniteSet(0 .. stream.next - 1)
          /\ Cardinality(0 .. stream.next - 1)
               = IF 0 > stream.next - 1 THEN 0 ELSE (stream.next - 1) - 0 + 1
      <3> DEFINE l == stream.next - 1
      <3>1. 0 \in Int /\ l \in Int
        BY <1>1
      <3> HIDE DEF l
      <3>2. IsFiniteSet(0 .. l) /\ Cardinality(0 .. l) = IF 0 > l THEN 0 ELSE l - 0 + 1
        BY <3>1, FS_Interval
      <3>3. QED BY <3>2 DEF l
    <2>2. QED BY <1>1, <2>1
  <1>10. Cardinality(T) = stream.next
    <2> HIDE DEF T, A, f
    <2>1. QED BY <1>8, <1>9, FS_Injection
  <1>11. {out[i].index : i \in T} = 0 .. Cardinality(T) - 1
    BY <1>7, <1>10
  <1> HIDE DEF T
  <1>12. QED BY <1>1, <1>2, <1>3, <1>5, <1>11 DEF BlocksInOrder

\* Fed says it of the events.
LEMMA DeltasHold == IInv => DeltasInBlocks
  <1> SUFFICES ASSUME IInv PROVE DeltasInBlocks
    OBVIOUS
  <1>1. /\ Fed(out)
        /\ \A type : Of(type) = At(out, type)
        /\ \A b : Starts(b) = {i \in At(out, "content_block_start") : out[i].index = b}
        /\ \A b : Stops(b) = {i \in At(out, "content_block_stop") : out[i].index = b}
    BY Always
  <1>2. ASSUME NEW i \in Of("content_block_delta")
        PROVE  /\ \E j \in Starts(out[i].index) : j < i /\ out[j].kind = out[i].kind
               /\ \A k \in Stops(out[i].index) :
                    k < i => /\ out[i].kind = "text"
                             /\ \E j \in Of("content_block_start") :
                                  j < i /\ out[j].kind = "tool_use"
    <2>1. i \in At(out, "content_block_delta")
      BY <1>1
    <2>2. PICK j \in At(out, "content_block_start") :
            j < i /\ out[j].index = out[i].index /\ out[j].kind = out[i].kind
      BY <1>1, <2>1 DEF Fed
    <2>3. \A k \in At(out, "content_block_stop") :
            out[k].index = out[i].index /\ k < i =>
              /\ out[i].kind = "text"
              /\ \E u \in At(out, "content_block_start") : u < i /\ out[u].kind = "tool_use"
      BY <1>1, <2>1 DEF Fed
    <2>4. QED BY <1>1, <2>2, <2>3
  <1>3. QED BY <1>2 DEF DeltasInBlocks

\* An ended stream is balanced.
LEMMA BalanceHolds == IInv => BlocksBalanced
  <1> SUFFICES ASSUME IInv, status = "done" PROVE BlocksBalanced
    BY DEF BlocksBalanced
  <1>1. /\ \A type : Of(type) = At(out, type)
        /\ \A b : Starts(b) = {i \in At(out, "content_block_start") : out[i].index = b}
        /\ \A b : Stops(b) = {i \in At(out, "content_block_stop") : out[i].index = b}
    BY Always
  <1>2. Balanced(out, stream) /\ At(out, "message_stop") = {Len(out)}
    BY DEF IInv, Shape, Ended
  <1>3. ASSUME NEW b \in 0 .. stream.next - 1 PROVE Cardinality(Stops(b)) = 1
    <2>1. PICK i \in At(out, "content_block_stop") :
            /\ out[i].index = b
            /\ \A j \in At(out, "content_block_stop") : out[j].index = b => j = i
      BY <1>2 DEF Balanced
    <2>2. Stops(b) = {i}
      BY <1>1, <2>1
    <2>3. QED BY <2>2, FS_Singleton
  <1>4. ASSUME NEW i \in Of("content_block_stop") PROVE \E j \in Starts(out[i].index) : j < i
    <2>1. PICK j \in At(out, "content_block_start") : j < i /\ out[j].index = out[i].index
      BY <1>1, <1>2 DEF Balanced
    <2>2. QED BY <1>1, <2>1
  <1>5. QED BY <1>1, <1>2, <1>3, <1>4 DEF BlocksBalanced

\* The tool blocks, in the order they started, are the calls collected.
LEMMA BlocksCollected ==
  ASSUME stream \in StreamStates, Numbering(stream),
         NEW g \in JoinedStates, Matches(out, stream, g)
  PROVE  Ascending({stream.blockOf[t] : t \in ToolCalls} \ {None})
           = [i \in DOMAIN g.order |-> stream.blockOf[g.order[i]]]
  <1> DEFINE S == {stream.blockOf[t] : t \in ToolCalls} \ {None}
             o == g.order
             m == Len(o)
             f == [i \in 1 .. m |-> stream.blockOf[o[i]]]
  <1>1. /\ Matches(out, stream, g) /\ Numbering(stream)
        /\ stream.blockOf \in [ToolCalls -> Int]
    BY DEF StreamStates
  <1>2. o \in Seq(ToolCalls) /\ m \in Nat /\ DOMAIN o = 1 .. m
    BY LenProperties DEF JoinedStates
  <1>3. /\ \A t \in ToolCalls : stream.blockOf[t] # None <=> \E i \in 1 .. m : o[i] = t
        /\ \A i, j \in 1 .. m : i < j => stream.blockOf[o[i]] < stream.blockOf[o[j]]
    BY <1>1, <1>2 DEF Matches
  <1>4. \A i \in 1 .. m : o[i] \in ToolCalls
    BY <1>2
  <1> HIDE DEF o, m
  <1>5. S \in SUBSET Int
    BY <1>1
  <1>6. f \in [1 .. m -> S]
    BY <1>3, <1>4
  <1>7. \A i, j \in 1 .. m : i < j => f[i] < f[j]
    BY <1>3
  <1>8. \A x \in S : \E i \in 1 .. m : f[i] = x
    <2>1. ASSUME NEW x \in S PROVE \E i \in 1 .. m : f[i] = x
      <3>1. PICK t \in ToolCalls : stream.blockOf[t] = x /\ x # None
        OBVIOUS
      <3>2. PICK i \in 1 .. m : o[i] = t
        BY <1>3, <3>1
      <3>3. QED BY <3>1, <3>2
    <2>2. QED BY <2>1
  <1> HIDE DEF S, f
  <1>9. Ascending(S) = f
    BY <1>2, <1>5, <1>6, <1>7, <1>8, AscendingUnique
  <1>10. QED BY <1>2, <1>9 DEF S, f, o, m

\* Block for block, what is streamed is what is collected.
LEMMA StreamHolds == IInv => StreamMatchesCollected
  <1> SUFFICES ASSUME IInv, ~ collected.failed
              PROVE  /\ FinalResponse(collected).content
                          = IF StreamedContent = <<>> THEN <<Block("text", <<>>)>>
                            ELSE StreamedContent
                     /\ status = "done" => out[Len(out) - 1].stop = FinalResponse(collected).stop
    BY DEF StreamMatchesCollected
  <1>0. PICK g \in JoinedStates :
          /\ Follows(collected, g) /\ Matches(out, stream, g) /\ g.finish = completion.finish
    BY Collects
  <1> DEFINE o == g.order
             f == [i \in DOMAIN o |-> stream.blockOf[o[i]]]
             tools == Ascending({stream.blockOf[t] : t \in ToolCalls} \ {None})
             text == IF stream.textBlock = None THEN <<>> ELSE Assembled(stream.textBlock)
             final == FinalResponse(collected)
  <1>1. /\ Matches(out, stream, g) /\ Started(out, stream) /\ Fed(out)
        /\ stream \in StreamStates /\ Numbering(stream)
        /\ \A b : Assembled(b) = Assembly(out, b)
    BY Always, <1>0
  <1>2. o \in Seq(ToolCalls) /\ \A i \in DOMAIN o : o[i] \in ToolCalls
    BY DEF JoinedStates
  <1>3. tools = f
    BY <1>1, BlocksCollected
  <1>4. [i \in DOMAIN tools |-> Block("tool_use", Assembled(tools[i]))]
          = [i \in DOMAIN o |-> Block("tool_use", g.args[o[i]])]
    <2>1. \A i \in DOMAIN o : Assembled(f[i]) = g.args[o[i]]
      BY <1>1, <1>2 DEF Matches
    <2> HIDE DEF tools, o
    <2>2. DOMAIN tools = DOMAIN o /\ \A i \in DOMAIN o : tools[i] = f[i]
      BY <1>3
    <2>3. QED BY <2>1, <2>2
  <1>5. text = g.text
    <2>1. CASE stream.textBlock # None
      BY <1>1, <2>1 DEF Matches
    <2>2. CASE stream.textBlock = None
      <3>1. None \notin 0 .. stream.next - 1
        BY DEF None
      <3>2. Assembly(out, None) = <<>>
        <4>1. out \in Seq(Event)
          BY DEF IInv
        <4>2. QED BY <1>1, <3>1, <4>1, AssemblyEmpty
      <3>3. g.text = <<>>
        BY <1>1, <2>2, <3>2 DEF Matches
      <3>4. QED BY <2>2, <3>3
    <2>3. QED BY <2>1, <2>2
  <1>6. StreamedContent
          = (IF g.text = <<>> THEN <<>> ELSE <<Block("text", g.text)>>)
              \o [i \in DOMAIN o |-> Block("tool_use", g.args[o[i]])]
    <2>1. StreamedContent = (IF text = <<>> THEN <<>> ELSE <<Block("text", text)>>)
                              \o [i \in DOMAIN tools |-> Block("tool_use", Assembled(tools[i]))]
      BY DEF StreamedContent
    <2> HIDE DEF text, tools, o
    <2>2. QED BY <1>4, <1>5, <2>1
  <1>7. final = FinalResponse(g)
    <2>1. /\ collected.text = g.text /\ collected.order = g.order
          /\ collected.args = g.args /\ collected.finish = g.finish
      BY <1>0 DEF Follows, Keeps
    <2>2. QED BY <2>1 DEF FinalResponse
  <1>8. final.content
          = IF StreamedContent = <<>> THEN <<Block("text", <<>>)>> ELSE StreamedContent
    BY <1>6, <1>7 DEF FinalResponse
  <1>9. status = "done" => out[Len(out) - 1].stop = final.stop
    <2>1. status = "done" => out[Len(out) - 1].stop = MapStopReason(stream.finish)
      BY DEF IInv, Shape, Ended
    <2>2. stream.finish = g.finish
      BY <1>0 DEF IInv
    <2>3. QED BY <1>7, <2>1, <2>2 DEF FinalResponse
  <1>10. QED BY <1>8, <1>9

\* The client of the parts relayed has what the completion has.
LEMMA SameHolds == IInv => SameAnswer
  <1> SUFFICES ASSUME IInv PROVE SameAnswer
    OBVIOUS
  <1> DEFINE r == relayed
             c == completion
             calls == Ascending(RelayedCalls)
             reasons == Parts("finish")
             latest == CHOOSE i \in reasons : \A j \in reasons : j <= i
             openai == FinalCompletion(c)
  <1>0. PICK g \in JoinedStates :
          /\ Follows(collected, g) /\ Agrees(relayed, g, completion)
          /\ g.finish = completion.finish
    BY Collects
  <1>1. /\ r \in Seq(Part) /\ c \in CompletionStates
        /\ Agrees(r, g, c) /\ Told(r, c.finish) /\ g.finish = c.finish
        /\ NullsKnown(r, collected)
    BY <1>0 DEF IInv
  <1>2. \A part : Parts(part) = PartsOf(r, part)
    BY DEF Parts, PartsOf
  <1>3. RelayedCalls = c.calls
    <2>1. \A t : t \in RelayedCalls <=> \E i \in PartsOf(r, "tool_call") : r[i].tool = t
      BY <1>2 DEF RelayedCalls
    <2>2. \A t : t \in c.calls <=> \E i \in PartsOf(r, "tool_call") : r[i].tool = t
      BY <1>1 DEF Agrees
    <2>3. QED BY <2>1, <2>2
  <1>4. \A k \in DOMAIN calls : calls[k] \in ToolCalls
    <2>1. c.calls \in SUBSET ToolCalls
      BY <1>1 DEF CompletionStates
    <2>2. c.calls \in SUBSET Int /\ IsFiniteSet(c.calls)
      <3>1. IsFiniteSet(ToolCalls) /\ ToolCalls \in SUBSET Int
        BY ToolCallsAssumption
      <3>2. QED BY <2>1, <3>1, FS_Subset
    <2>3. /\ Ascending(c.calls) \in [1 .. Cardinality(c.calls) -> c.calls]
      BY <2>2, AscendingSorts
    <2>4. QED BY <1>3, <2>1, <2>3
  <1>5. [k \in DOMAIN calls |->
           PiecesAt(relayed, {i \in Parts("tool_call") : relayed[i].tool = calls[k]})]
          = [k \in DOMAIN calls |-> c.args[calls[k]]]
    <2>1. \A t : {i \in Parts("tool_call") : relayed[i].tool = t} = CallsOf(r, t)
      BY <1>2 DEF CallsOf
    <2>2. \A t \in ToolCalls : c.args[t] = PiecesAt(r, CallsOf(r, t))
      BY <1>1 DEF Agrees
    <2> HIDE DEF calls
    <2>3. QED BY <1>4, <2>1, <2>2
  <1>6. /\ c.content = PiecesAt(relayed, Parts("content"))
        /\ c.reasoning = PiecesAt(relayed, Parts("reasoning"))
    BY <1>1, <1>2 DEF Agrees
  <1>7. (IF reasons = {} THEN NoFinish ELSE relayed[latest].reason) = c.finish
    <2>1. reasons = PartsOf(r, "finish")
      BY <1>2
    <2>2. CASE c.finish = NoFinish /\ reasons = {}
      BY <2>2
    <2>3. CASE \E i \in reasons : r[i].reason = c.finish /\ \A j \in reasons : j <= i
      <3>1. PICK i \in reasons : r[i].reason = c.finish /\ \A j \in reasons : j <= i
        BY <2>3
      <3>2. i \in DOMAIN r /\ r[i].part = "finish" /\ r[i] \in Part /\ reasons \subseteq Int
        BY <1>1, <2>1 DEF PartsOf
      <3>3. r[i].reason \in FinishReasons
        BY <3>2 DEF Part
      <3>4. c.finish # NoFinish
        BY <3>1, <3>3, FinishReasonsAssumption
      <3> HIDE DEF reasons
      <3>5. latest \in reasons /\ \A j \in reasons : j <= latest
        BY <3>1
      <3> HIDE DEF latest
      <3>6. latest = i
        <4>1. latest <= i /\ i <= latest
          BY <3>1, <3>5
        <4>2. latest \in Int /\ i \in Int
          BY <3>1, <3>2, <3>5
        <4>3. QED BY <4>1, <4>2
      <3>7. QED BY <3>1, <3>4, <3>6
    <2>4. QED BY <1>1, <2>1, <2>2, <2>3 DEF Told
  <1>8. /\ openai = [RelayedAnswer EXCEPT !.finish = IF @ = NoFinish THEN "stop" ELSE @]
        /\ RelayedAnswer.finish = c.finish
    <2>1. RelayedAnswer =
            [content    |-> PiecesAt(relayed, Parts("content")),
             reasoning  |-> PiecesAt(relayed, Parts("reasoning")),
             tool_calls |-> [k \in DOMAIN calls |->
                 PiecesAt(relayed, {i \in Parts("tool_call") : relayed[i].tool = calls[k]})],
             finish     |-> IF reasons = {} THEN NoFinish ELSE relayed[latest].reason]
      BY DEF RelayedAnswer
    <2>2. openai = [content |-> c.content, reasoning |-> c.reasoning,
                    tool_calls |-> [k \in DOMAIN calls |-> c.args[calls[k]]],
                    finish |-> IF c.finish = NoFinish THEN "stop" ELSE c.finish]
      BY <1>3 DEF FinalCompletion
    <2> HIDE DEF openai, calls, reasons, latest
    <2>3. RelayedAnswer = [content |-> c.content, reasoning |-> c.reasoning,
                           tool_calls |-> [k \in DOMAIN calls |-> c.args[calls[k]]],
                           finish |-> c.finish]
      BY <1>5, <1>6, <1>7, <2>1
    <2>4. QED BY <2>2, <2>3
  <1>9. openai.content = c.content
    BY DEF FinalCompletion
  <1>10. collected.failed <=> BrokenCalls # {}
    <2>1. \A t : {i \in Parts("tool_call") : relayed[i].tool = t} = CallsOf(r, t)
      BY <1>2 DEF CallsOf
    <2>2. \A t : t \in NullCalls <=> t \in RelayedCalls /\ FirstNull(r, t)
      BY <2>1 DEF NullCalls, FirstNull
    <2>3. \A t : t \in BrokenCalls <=> t \in RelayedCalls /\ Broken(r, t)
      BY <2>1, <2>2 DEF BrokenCalls, Broken
    <2>4. \A t : Broken(r, t) => t \in RelayedCalls
      BY <2>1 DEF Broken, FirstNull, RelayedCalls
    <2>5. RelayedCalls \subseteq ToolCalls
      BY <1>1, <1>3 DEF CompletionStates
    <2>6. collected.failed <=> \E t \in ToolCalls : Broken(r, t)
      BY <1>1 DEF NullsKnown
    <2>7. QED BY <2>3, <2>4, <2>5, <2>6
  <1>11. ASSUME ~ collected.failed
         PROVE  /\ collected.text = openai.content
                /\ {collected.order[i] : i \in DOMAIN collected.order} = RelayedCalls
                /\ collected.args = c.args
                /\ FinalResponse(collected).stop = MapStopReason(RelayedAnswer.finish)
    <2>1. /\ collected.text = g.text /\ collected.order = g.order
          /\ collected.args = g.args /\ collected.finish = g.finish
      BY <1>0, <1>11 DEF Follows, Keeps
    <2>2. collected.text = openai.content /\ collected.args = c.args
      BY <1>1, <1>9, <2>1 DEF Agrees
    <2>3. {collected.order[i] : i \in DOMAIN collected.order} = RelayedCalls
      <3>1. \A t : t \in c.calls <=> \E i \in DOMAIN g.order : g.order[i] = t
        BY <1>1 DEF Agrees
      <3>2. QED BY <1>3, <2>1, <3>1
    <2>4. FinalResponse(collected).stop = MapStopReason(c.finish)
      BY <1>1, <2>1 DEF FinalResponse
    <2>5. QED BY <1>8, <2>2, <2>3, <2>4
  <1> HIDE DEF openai
  <1>12. QED BY <1>8, <1>10, <1>11 DEF SameAnswer, openai

\* Every variable of the stream has its type, whatever comes upstream: a block
\* number is at most the number of tool calls.
THEOREM TypeCorrect == Spec => []TypeOK
  BY Invariant, TypeHolds, PTL

\* A message is started once and first, and its blocks are numbered 0, 1, ... in
\* the order they start (anthropic_compat.py:582-715).
THEOREM InOrder == Spec => []BlocksInOrder
  BY Invariant, OrderHolds, PTL

\* A delta goes to a block of its kind that was started and not stopped, but for
\* text after a tool call (anthropic_compat.py:617-646).
THEOREM InBlocks == Spec => []DeltasInBlocks
  BY Invariant, DeltasHold, PTL

\* After [DONE] every block that was started has been stopped, once and after its
\* start, and the message last (anthropic_compat.py:739-810).
THEOREM InBalance == Spec => []BlocksBalanced
  BY Invariant, BalanceHolds, PTL

\* A streaming Anthropic client puts together the message a collecting one is
\* sent, unless that one's answer failed because a call's arguments were null at
\* first (anthropic_compat.py:395-460, 534-810).
THEOREM StreamedAsCollected == Spec => []StreamMatchesCollected
  BY Invariant, StreamHolds, PTL

\* The clients of an answer are told the same text, calls and finish, and those
\* of the OpenAI endpoint the same reasoning, whatever parts the chunks have; the
\* collected Anthropic message alone fails, and exactly when a call whose
\* arguments were null at first gets a piece of them
\* (anthropic_compat.py:443-465, openai_compat.py:131-258).
THEOREM AnsweredAlike == Spec => []SameAnswer
  BY Invariant, SameHolds, PTL

=============================================================================
