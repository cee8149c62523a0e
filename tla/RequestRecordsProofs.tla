------------------------ MODULE RequestRecordsProofs ------------------------
(***************************************************************************)
(* Proofs about RequestRecords, for every limit, 0 and negative ones       *)
(* included, and any number of requests and restarts.                      *)
(***************************************************************************)
EXTENDS RequestRecords, SequenceTheorems, TLAPS

\* The requests of this process since the last clear got ids of their own.
Counted == start <= served /\ served - start <= nextId - 1

IInv == TypeOK /\ Counted /\ RingIsLatest

Records == [id : Nat \ {0}, request : Nat \ {0}]

\* How many are kept, and that they are numbered from 1 on.
LEMMA KeptRange ==
  ASSUME TypeOK, Counted
  PROVE  /\ limit \in Int /\ Kept \in Nat
         /\ Kept <= served - start /\ Kept <= nextId - 1 /\ Kept <= served
         /\ limit > 0 => /\ Kept <= limit
                         /\ Kept < limit => Kept = served - start
         /\ limit < 0 => Kept = 0
  <1>1. limit \in Int
    BY LimitsAssumption DEF TypeOK
  <1>2. CASE limit > 0
    BY <1>1, <1>2 DEF TypeOK, Counted, Kept
  <1>3. CASE limit = 0
    BY <1>3 DEF TypeOK, Counted, Kept
  <1>4. CASE limit < 0
    BY <1>1, <1>4 DEF TypeOK, Counted, Kept
  <1>5. QED BY <1>1, <1>2, <1>3, <1>4

\* Whether a ring of n records drops one when the next is added.
Drop(n) == IF limit < 0 \/ (limit > 0 /\ n = limit) THEN 1 ELSE 0

\* Latest drops the oldest of the records that are one too many.
LEMMA LatestDropsOldest ==
  ASSUME NEW n \in Nat, NEW s \in Seq(Records), Len(s) = n + 1,
         limit \in Int, limit > 0 => n <= limit, limit < 0 => n = 0
  PROVE  /\ Latest(s) \in Seq(Records)
         /\ Len(Latest(s)) = n + 1 - Drop(n)
         /\ \A i \in 1 .. n + 1 - Drop(n) : Latest(s)[i] = s[i + Drop(n)]
  <1>1. CASE limit > 0 /\ n < limit
    <2>1. Latest(s) = s /\ Drop(n) = 0
      BY <1>1 DEF Latest, Drop
    <2>2. QED BY <2>1
  <1>2. CASE limit > 0 /\ n = limit
    <2>1. Latest(s) = SubSeq(s, 2, Len(s)) /\ Drop(n) = 1
      BY <1>2 DEF Latest, Drop
    <2>2. /\ SubSeq(s, 2, Len(s)) \in Seq(Records)
          /\ Len(SubSeq(s, 2, Len(s))) = Len(s) - 1
          /\ \A i \in 1 .. Len(s) - 1 : SubSeq(s, 2, Len(s))[i] = s[i + 1]
      BY <1>2
    <2>3. QED BY <2>1, <2>2
  <1>3. CASE limit = 0
    <2>1. Latest(s) = SubSeq(s, 1, Len(s)) /\ Drop(n) = 0
      BY <1>3 DEF Latest, Drop
    <2>2. SubSeq(s, 1, Len(s)) = s
      OBVIOUS
    <2>3. QED BY <2>1, <2>2
  <1>4. CASE limit < 0
    <2>1. Latest(s) = SubSeq(s, -limit + 1, 1) /\ Drop(n) = 1 /\ n = 0 /\ -limit + 1 > 1
      BY <1>4 DEF Latest, Drop
    <2>2. SubSeq(s, -limit + 1, 1) = <<>>
      BY <2>1
    <2>3. QED BY <2>1, <2>2
  <1>5. QED BY <1>1, <1>2, <1>3, <1>4

-----------------------------------------------------------------------------

\* Serving a request keeps the ring what it should be.
LEMMA AddKeeps ==
  ASSUME IInv, NEW w \in Writes, Add(w)
  PROVE  IInv'
  <1> DEFINE record == [id |-> nextId, request |-> served + 1]
             s == Append(records, record)
  <1>0. TypeOK /\ Counted /\ RingIsLatest
    BY DEF IInv
  <1>1. /\ served' = served + 1 /\ nextId' = nextId + 1 /\ start' = start
        /\ limit' = limit /\ records' = Latest(s)
    BY DEF Add
  <1>2. record \in Records /\ records \in Seq(Records)
    BY <1>0 DEF TypeOK, Records
  <1>3. Len(records) = Kept /\ Kept \in Nat
    BY <1>0, KeptRange DEF RingIsLatest
  <1>4. s \in Seq(Records) /\ Len(s) = Kept + 1 /\ s[Kept + 1] = record
        /\ \A i \in 1 .. Kept : s[i] = records[i]
    BY <1>2, <1>3
  <1>5. Counted'
    BY <1>0, <1>1 DEF Counted, TypeOK
  <1>6. \A i \in 1 .. Kept + 1 :
          s[i] = [id |-> nextId - 1 - Kept + i, request |-> served - Kept + i]
    <2>1. ASSUME NEW i \in 1 .. Kept
          PROVE  s[i] = [id |-> nextId - 1 - Kept + i, request |-> served - Kept + i]
      BY <1>0, <1>4 DEF RingIsLatest
    <2>2. /\ nextId - 1 - Kept + (Kept + 1) = nextId
          /\ served - Kept + (Kept + 1) = served + 1
      BY <1>0, <1>3 DEF TypeOK
    <2>3. s[Kept + 1] = [id |-> nextId - 1 - Kept + (Kept + 1),
                         request |-> served - Kept + (Kept + 1)]
      BY <1>4, <2>2
    <2>4. QED BY <1>3, <2>1, <2>3
  <1> HIDE DEF s
  <1>7. Drop(Kept) \in {0, 1} /\ Kept' = Kept + 1 - Drop(Kept)
    <2>0. /\ served \in Nat /\ start \in Nat /\ limit \in Int
          /\ Kept <= served - start
          /\ limit > 0 => /\ Kept <= limit
                          /\ Kept < limit => Kept = served - start
          /\ limit < 0 => Kept = 0
      BY <1>0, KeptRange DEF TypeOK
    <2>1. CASE limit > 0
      <3>1. Kept' = IF served + 1 - start > limit THEN limit ELSE served + 1 - start
        BY <1>1, <2>0, <2>1 DEF Kept
      <3>2. CASE Kept < limit
        BY <1>3, <2>0, <2>1, <3>1, <3>2 DEF Drop
      <3>3. CASE Kept = limit
        BY <1>3, <2>0, <2>1, <3>1, <3>3 DEF Drop
      <3>4. QED BY <1>3, <2>0, <2>1, <3>2, <3>3
    <2>2. CASE limit = 0
      BY <1>1, <2>0, <2>2 DEF Kept, Drop
    <2>3. CASE limit < 0
      BY <1>1, <2>0, <2>3 DEF Kept, Drop
    <2>4. QED BY <2>0, <2>1, <2>2, <2>3
  <1>8. /\ Latest(s) \in Seq(Records)
        /\ Len(Latest(s)) = Kept'
        /\ \A i \in 1 .. Kept' : Latest(s)[i] = s[i + Drop(Kept)]
    <2>1. /\ limit \in Int /\ (limit > 0 => Kept <= limit) /\ (limit < 0 => Kept = 0)
      BY <1>0, KeptRange
    <2>2. QED BY <1>3, <1>4, <1>7, <2>1, LatestDropsOldest
  <1>9. records' \in Seq(Records) /\ RingIsLatest'
    <2>1. ASSUME NEW i \in 1 .. Kept'
          PROVE  records'[i] = [id |-> nextId' - 1 - Kept' + i, request |-> served' - Kept' + i]
      <3>1. i + Drop(Kept) \in 1 .. Kept + 1
        BY <1>3, <1>7
      <3>2. records'[i] = [id |-> nextId - 1 - Kept + (i + Drop(Kept)),
                           request |-> served - Kept + (i + Drop(Kept))]
        BY <1>1, <1>6, <1>8, <3>1
      <3>3. /\ nextId' - 1 - Kept' + i = nextId - 1 - Kept + (i + Drop(Kept))
            /\ served' - Kept' + i = served - Kept + (i + Drop(Kept))
        <4> DEFINE dr == Drop(Kept)
                   k == Kept
                   l == Kept'
        <4>1. /\ dr \in {0, 1} /\ k \in Nat /\ l = k + 1 - dr /\ i \in Int
              /\ nextId \in Nat /\ served \in Nat
              /\ nextId' = nextId + 1 /\ served' = served + 1
          BY <1>0, <1>1, <1>3, <1>7 DEF TypeOK
        <4> HIDE DEF dr, k, l
        <4>2. /\ nextId' - 1 - l + i = nextId - 1 - k + (i + dr)
              /\ served' - l + i = served - k + (i + dr)
          BY <4>1
        <4>3. QED BY <4>2 DEF dr, k, l
      <3>4. QED BY <3>2, <3>3
    <2>2. QED BY <1>1, <1>8, <2>1 DEF RingIsLatest
  <1>10. file' \in Seq([id : Nat, request : Nat]) /\ midLine' \in BOOLEAN
    <2>1. /\ Spoilt \in [id : Nat, request : Nat] /\ record \in [id : Nat, request : Nat]
          /\ file \in Seq([id : Nat, request : Nat])
      BY <1>0, <1>2 DEF Spoilt, Records, TypeOK
    <2>2. AppendToFile(record, w)
      BY DEF Add
    <2>3. \/ /\ file' = Append(file, IF midLine THEN Spoilt ELSE record) /\ midLine' = FALSE
          \/ UNCHANGED <<file, midLine>>
          \/ UNCHANGED file /\ midLine' = TRUE
      BY <2>2 DEF AppendToFile, Writes
    <2>4. (IF midLine THEN Spoilt ELSE record) \in [id : Nat, request : Nat]
      BY <2>1
    <2>5. Append(file, IF midLine THEN Spoilt ELSE record) \in Seq([id : Nat, request : Nat])
      BY <2>1, <2>4
    <2>6. midLine \in BOOLEAN
      BY <1>0 DEF TypeOK
    <2>7. QED BY <2>1, <2>3, <2>5, <2>6
  <1>11. writes' \in [1 .. served' -> Writes]
    <2>1. writes \in Seq(Writes) /\ Len(writes) = served
      BY <1>0 DEF TypeOK
    <2>2. writes' \in Seq(Writes) /\ Len(writes') = served + 1
      BY <2>1 DEF Add
    <2>3. QED BY <1>0, <1>1, <2>2 DEF TypeOK
  <1>12. TypeOK'
    BY <1>0, <1>1, <1>9, <1>10, <1>11 DEF TypeOK, Records, Add
  <1>13. QED BY <1>5, <1>9, <1>12 DEF IInv

\* An empty ring is right after a clear, and in a new process.
LEMMA EmptyRing ==
  ASSUME TypeOK, limit' \in Limits, records' = <<>>, start' = served, served' = served,
         nextId' \in {1, nextId}
  PROVE  Counted' /\ RingIsLatest'
  <1>1. served \in Nat /\ nextId \in Nat \ {0}
    BY DEF TypeOK
  <1>2. Kept' = 0
    <2>1. limit' \in Int
      BY LimitsAssumption
    <2>2. QED BY <1>1, <2>1 DEF Kept
  <1>3. Counted'
    <2>1. nextId' - 1 >= 0
      <3>1. CASE nextId' = 1
        BY <3>1
      <3>2. CASE nextId' = nextId
        BY <1>1, <3>2
      <3>3. QED BY <3>1, <3>2
    <2>2. start' <= served' /\ served' - start' = 0
      BY <1>1
    <2>3. QED BY <2>1, <2>2 DEF Counted
  <1>4. Len(records') = 0
    OBVIOUS
  <1>5. QED BY <1>2, <1>3, <1>4 DEF RingIsLatest

LEMMA InitIInv == Init => IInv
  <1> SUFFICES ASSUME Init PROVE IInv
    OBVIOUS
  <1>1. TypeOK
    <2>1. writes \in [1 .. served -> Writes]
      BY DEF Init
    <2>2. /\ records \in Seq([id : Nat \ {0}, request : Nat \ {0}])
          /\ file \in Seq([id : Nat, request : Nat])
      BY DEF Init
    <2>3. midLine \in BOOLEAN
      BY DEF Init
    <2>4. /\ nextId \in Nat \ {0}
          /\ served \in Nat /\ start \in Nat /\ emptied \in Nat /\ restarts \in Nat
      BY DEF Init
    <2>5. limit \in Limits
      BY DEF Init
    <2>6. QED BY <2>1, <2>2, <2>3, <2>4, <2>5 DEF TypeOK
  <1>2. Kept = 0
    BY LimitsAssumption DEF Init, Kept
  <1>3. QED BY <1>1, <1>2 DEF Init, IInv, Counted, RingIsLatest

LEMMA NextKeepsIInv == IInv /\ [Next]_vars => IInv'
  <1> SUFFICES ASSUME IInv, [Next]_vars PROVE IInv'
    OBVIOUS
  <1>1. CASE \E w \in Writes : Add(w)
    BY <1>1, AddKeeps
  <1>2. CASE Clear
    <2>1. TypeOK'
      <3>1. records' \in Seq([id : Nat \ {0}, request : Nat \ {0}])
        BY <1>2 DEF Clear
      <3>2. file' \in Seq([id : Nat, request : Nat])
        <4>1. CASE file' = <<>>
          BY <4>1
        <4>2. CASE UNCHANGED file
          BY <4>2 DEF IInv, TypeOK
        <4>3. QED BY <1>2, <4>1, <4>2 DEF Clear
      <3>3. /\ midLine' \in BOOLEAN /\ start' \in Nat /\ emptied' \in Nat
        BY <1>2 DEF Clear, IInv, TypeOK
      <3>4. QED BY <1>2, <3>1, <3>2, <3>3 DEF Clear, IInv, TypeOK
    <2>2. TypeOK /\ limit' \in Limits
      BY <1>2 DEF Clear, IInv, TypeOK
    <2>3. QED BY <1>2, <2>1, <2>2, EmptyRing DEF Clear, IInv
  <1>3. CASE Restart
    <2>1. TypeOK'
      BY <1>3 DEF Restart, IInv, TypeOK
    <2>2. QED BY <1>3, <2>1, EmptyRing DEF Restart, IInv
  <1>4. CASE UNCHANGED vars
    BY <1>4 DEF vars, IInv, TypeOK, Counted, RingIsLatest, Kept
  <1>5. QED BY <1>1, <1>2, <1>3, <1>4 DEF Next

LEMMA Invariance == Spec => []IInv
  <1>1. Init => IInv
    BY InitIInv
  <1>2. IInv /\ [Next]_vars => IInv'
    BY NextKeepsIInv
  <1>3. QED BY <1>1, <1>2, PTL DEF Spec

-----------------------------------------------------------------------------

\* The variables have their types.
THEOREM TypeCorrect == Spec => []TypeOK
  <1>1. IInv => TypeOK
    BY DEF IInv
  <1>2. QED BY <1>1, Invariance, PTL

\* RequestStore.list shows exactly the latest requests of this process since
\* the last clear, oldest first and under consecutive ids, for any limit that
\* config.py accepts: all of them if it is 0, and none if it is negative.
THEOREM RingShowsLatest == Spec => []RingIsLatest
  <1>1. IInv => RingIsLatest
    BY DEF IInv
  <1>2. QED BY <1>1, Invariance, PTL

-----------------------------------------------------------------------------
(* The file                                                                *)

\* A torn line would be at the end of the file when request r is appended.
Pending(r) == \E q \in emptied + 1 .. r - 1 : Spoils(q, r)

\* The history tells whether the file ends in a torn line, and the ring never
\* holds a request from before the file was emptied.
FileInv ==
  /\ emptied <= start
  /\ midLine <=> Pending(served + 1)
  /\ FileKeepsRing

\* What one more append changes of the history.
LEMMA HistoryGrows ==
  ASSUME IInv, FileInv, NEW w \in Writes, Add(w)
  PROVE  /\ \A r \in 1 .. served : Sound(r)' <=> Sound(r)
         /\ Sound(served)' <=> w = "whole" /\ ~ midLine
         /\ Pending(served + 1)' <=> w = "torn" \/ (w = "nothing" /\ midLine)
  <1>0. /\ served \in Nat /\ emptied \in Nat /\ writes \in [1 .. served -> Writes]
        /\ emptied <= served /\ emptied' = emptied /\ served' = served + 1
        /\ writes' = Append(writes, w)
    BY DEF IInv, TypeOK, Counted, FileInv, Add
  <1>1. /\ \A k \in 1 .. served : writes'[k] = writes[k]
        /\ writes'[served + 1] = w
    <2>1. writes \in Seq(Writes) /\ Len(writes) = served
      BY <1>0
    <2>2. QED BY <1>0, <2>1
  <1>2. ASSUME NEW r \in 1 .. served + 1
        PROVE  Pending(r)' <=> Pending(r)
    <2>1. ASSUME NEW q \in emptied + 1 .. r - 1
          PROVE  Spoils(q, r)' <=> Spoils(q, r)
      <3>1. q \in 1 .. served /\ \A k \in q + 1 .. r - 1 : k \in 1 .. served
        BY <1>0
      <3>2. writes'[q] = writes[q] /\ \A k \in q + 1 .. r - 1 : writes'[k] = writes[k]
        BY <1>1, <3>1
      <3>3. QED BY <3>2 DEF Spoils
    <2>2. QED BY <1>0, <2>1 DEF Pending
  <1>3. \A r \in 1 .. served : Sound(r)' <=> Sound(r)
    <2>1. ASSUME NEW r \in 1 .. served PROVE Sound(r)' <=> Sound(r)
      <3>1. Pending(r)' <=> Pending(r)
        BY <1>0, <1>2
      <3>2. writes'[r] = writes[r]
        BY <1>1
      <3>3. QED BY <3>1, <3>2 DEF Sound, Pending
    <2>2. QED BY <2>1
  <1>4. Pending(served + 1) <=> midLine
    BY DEF FileInv
  <1>5. Sound(served)' <=> w = "whole" /\ ~ midLine
    <2>1. ASSUME NEW r, r = served + 1
          PROVE  Sound(r)' <=> w = "whole" /\ ~ midLine
      <3>1. Pending(r)' <=> midLine
        BY <1>0, <1>2, <1>4, <2>1
      <3>2. writes'[r] = w
        BY <1>1, <2>1
      <3>3. QED BY <3>1, <3>2 DEF Sound, Pending
    <2>2. served' = served + 1
      BY <1>0
    <2>3. QED BY <2>1, <2>2
  <1>6. Pending(served + 1)' <=> w = "torn" \/ (w = "nothing" /\ midLine)
    <2>1. ASSUME NEW r, r = served + 2, NEW q \in emptied + 1 .. served
          PROVE  Spoils(q, r)' <=> w = "nothing" /\ Spoils(q, served + 1)
      <3>1. /\ \A k \in q + 1 .. r - 1 : k \in q + 1 .. (served + 1) - 1 \/ k = served + 1
            /\ \A k \in q + 1 .. (served + 1) - 1 : k \in q + 1 .. r - 1
            /\ served + 1 \in q + 1 .. r - 1
        BY <1>0, <2>1
      <3>2. q \in 1 .. served /\ \A k \in q + 1 .. (served + 1) - 1 : k \in 1 .. served
        BY <1>0
      <3>3. /\ writes'[q] = writes[q]
            /\ \A k \in q + 1 .. (served + 1) - 1 : writes'[k] = writes[k]
        BY <1>1, <3>2
      <3>4. QED BY <1>1, <3>1, <3>3 DEF Spoils
    <2>2. ASSUME NEW r, r = served + 2, NEW q, q = served + 1
          PROVE  Spoils(q, r)' <=> w = "torn"
      <3>1. q + 1 .. r - 1 = {}
        BY <1>0, <2>2
      <3>2. QED BY <1>1, <2>2, <3>1 DEF Spoils
    <2>3. ASSUME NEW r, r = served + 2
          PROVE  Pending(r)' <=> w = "torn" \/ (w = "nothing" /\ midLine)
      <3>1. /\ \A q \in emptied + 1 .. r - 1 : q \in emptied + 1 .. served \/ q = served + 1
            /\ \A q \in emptied + 1 .. served : q \in emptied + 1 .. r - 1
            /\ served + 1 \in emptied + 1 .. r - 1
            /\ emptied + 1 .. (served + 1) - 1 = emptied + 1 .. served
        BY <1>0, <2>3
      <3>2. Pending(r)' <=> \E q \in emptied + 1 .. r - 1 : Spoils(q, r)'
        BY <1>0 DEF Pending
      <3>3. midLine <=> \E q \in emptied + 1 .. served : Spoils(q, served + 1)
        BY <1>4, <3>1 DEF Pending
      <3>4. QED BY <2>1, <2>2, <2>3, <3>1, <3>2, <3>3
    <2>4. served' + 1 = served + 2
      BY <1>0
    <2>5. QED BY <2>3, <2>4
  <1>7. QED BY <1>3, <1>5, <1>6

\* Requests the file has, and requests the ring has.
LEMMA Numbered ==
  ASSUME IInv, FileInv
  PROVE  /\ \A i \in Lines : i \in 1 .. Len(file) /\ file[i].request \in emptied + 1 .. served
         /\ \A k \in DOMAIN records : records[k].request \in 1 .. served
  <1>1. \A i \in Lines : i \in 1 .. Len(file) /\ file[i].request \in emptied + 1 .. served
    BY DEF IInv, TypeOK, FileInv, FileKeepsRing, Lines
  <1>2. ASSUME NEW k \in DOMAIN records PROVE records[k].request \in 1 .. served
    <2>1. Kept \in Nat /\ Kept <= served /\ served \in Nat
      BY KeptRange DEF IInv, TypeOK
    <2>2. k \in 1 .. Kept
      BY DEF IInv, TypeOK, RingIsLatest
    <2>3. records[k].request = served - Kept + k
      BY <2>2 DEF IInv, RingIsLatest
    <2>4. QED BY <2>1, <2>2, <2>3
  <1>3. QED BY <1>1, <1>2

\* After a request the ring has it and some of what it had before.
LEMMA RingAfterAdd ==
  ASSUME IInv, NEW w \in Writes, Add(w), NEW k \in DOMAIN records'
  PROVE  \/ records'[k] = [id |-> nextId, request |-> served + 1]
         \/ \E j \in DOMAIN records : records'[k] = records[j]
  <1> DEFINE record == [id |-> nextId, request |-> served + 1]
             s == Append(records, record)
  <1>1. record \in Records /\ records \in Seq(Records)
    BY DEF IInv, TypeOK, Records
  <1>2. /\ s \in Seq(Records) /\ Len(s) = Len(records) + 1
        /\ Len(records) \in Nat /\ limit \in Int
        /\ limit > 0 => Len(records) <= limit
        /\ limit < 0 => Len(records) = 0
    BY <1>1, KeptRange DEF IInv, RingIsLatest
  <1>3. ASSUME NEW i \in 1 .. Len(s)
        PROVE  s[i] = record \/ \E j \in DOMAIN records : s[i] = records[j]
    <2>1. CASE i = Len(records) + 1
      BY <1>1, <2>1
    <2>2. CASE i \in 1 .. Len(records)
      BY <1>1, <2>2
    <2>3. QED BY <1>2, <2>1, <2>2
  <1> HIDE DEF s
  <1>4. records' = Latest(s)
    BY DEF Add, s
  <1>5. \E i \in 1 .. Len(s) : records'[k] = s[i]
    <2> DEFINE n == Len(records)
    <2>1. /\ Latest(s) \in Seq(Records) /\ Len(Latest(s)) = n + 1 - Drop(n)
          /\ \A i \in 1 .. n + 1 - Drop(n) : Latest(s)[i] = s[i + Drop(n)]
      BY <1>2, LatestDropsOldest
    <2>2. Drop(n) \in {0, 1}
      BY DEF Drop
    <2>3. k \in 1 .. n + 1 - Drop(n)
      BY <1>2, <1>4, <2>1, <2>2
    <2>4. k + Drop(n) \in 1 .. Len(s)
      BY <1>2, <2>2, <2>3
    <2>5. QED BY <1>4, <2>1, <2>3, <2>4
  <1>6. QED BY <1>3, <1>5

\* What an append makes of the lines: one more, at the end, if it was sound.
LEMMA LinesAfterAdd ==
  ASSUME IInv, NEW w \in Writes, Add(w)
  PROVE  /\ \A i \in Lines : file'[i] = file[i]
         /\ IF w = "whole" /\ ~ midLine
            THEN /\ Lines' = Lines \cup {Len(file) + 1}
                 /\ file'[Len(file) + 1] = [id |-> nextId, request |-> served + 1]
            ELSE Lines' = Lines
         /\ midLine' <=> w = "torn" \/ (w = "nothing" /\ midLine)
  <1> DEFINE record == [id |-> nextId, request |-> served + 1]
             FileLines == [id : Nat, request : Nat]
  <1>0. /\ file \in Seq(FileLines) /\ Len(file) \in Nat /\ midLine \in BOOLEAN
        /\ record \in FileLines /\ Spoilt \in FileLines /\ record # Spoilt
    BY DEF IInv, TypeOK, Spoilt
  <1>1. AppendToFile(record, w)
    BY DEF Add
  <1>2. ASSUME NEW line \in FileLines, file' = Append(file, line)
        PROVE  /\ \A i \in Lines : file'[i] = file[i]
               /\ file'[Len(file) + 1] = line
               /\ line = Spoilt => Lines' = Lines
               /\ line # Spoilt => Lines' = Lines \cup {Len(file) + 1}
    <2>1. /\ DOMAIN file = 1 .. Len(file)
          /\ DOMAIN file' = 1 .. Len(file) + 1
          /\ \A i \in 1 .. Len(file) : file'[i] = file[i]
          /\ file'[Len(file) + 1] = line
      BY <1>0, <1>2
    <2>2. DOMAIN file' = DOMAIN file \cup {Len(file) + 1} /\ Len(file) + 1 \notin DOMAIN file
      BY <1>0, <2>1
    <2>3. Lines' = {i \in DOMAIN file' : file'[i] # Spoilt}
      BY DEF Lines, Spoilt
    <2>4. QED BY <2>1, <2>2, <2>3 DEF Lines
  <1>3. CASE w = "whole"
    <2>1. file' = Append(file, IF midLine THEN Spoilt ELSE record) /\ midLine' = FALSE
      BY <1>1, <1>3 DEF AppendToFile
    <2>2. CASE midLine
      BY <1>0, <1>2, <1>3, <2>1, <2>2
    <2>3. CASE ~ midLine
      BY <1>0, <1>2, <1>3, <2>1, <2>3
    <2>4. QED BY <2>2, <2>3
  <1>4. CASE w = "nothing"
    BY <1>1, <1>4 DEF AppendToFile, Lines, Spoilt
  <1>5. CASE w = "torn"
    BY <1>1, <1>5 DEF AppendToFile, Lines, Spoilt
  <1>6. QED BY <1>3, <1>4, <1>5 DEF Writes

LEMMA AddKeepsFile ==
  ASSUME IInv, FileInv, NEW w \in Writes, Add(w)
  PROVE  FileInv'
  <1> DEFINE sound == w = "whole" /\ ~ midLine
             record == [id |-> nextId, request |-> served + 1]
             end == Len(file) + 1
  <1>0. /\ served \in Nat /\ emptied \in Nat /\ emptied <= served
        /\ served' = served + 1 /\ emptied' = emptied /\ start' = start
        /\ Len(file) \in Nat
    BY DEF IInv, TypeOK, Counted, FileInv, Add
  <1>1. /\ \A i \in Lines : file'[i] = file[i]
        /\ IF sound
           THEN Lines' = Lines \cup {end} /\ file'[end] = record
           ELSE Lines' = Lines
        /\ midLine' <=> w = "torn" \/ (w = "nothing" /\ midLine)
    BY LinesAfterAdd
  <1>2. /\ \A r \in 1 .. served : Sound(r)' <=> Sound(r)
        /\ \A r : r = served + 1 => (Sound(r)' <=> sound)
        /\ Pending(served + 1)' <=> w = "torn" \/ (w = "nothing" /\ midLine)
    BY <1>0, HistoryGrows
  <1>3. /\ \A i \in Lines : i \in 1 .. Len(file) /\ file[i].request \in emptied + 1 .. served
        /\ \A k \in DOMAIN records : records[k].request \in 1 .. served
    BY Numbered
  <1>4. /\ \A i, j \in Lines : i < j => file[i].request < file[j].request
        /\ {file[i].request : i \in Lines} = {r \in emptied + 1 .. served : Sound(r)}
        /\ \A k \in DOMAIN records :
             Sound(records[k].request) => \E i \in Lines : file[i] = records[k]
    BY DEF FileInv, FileKeepsRing
  <1>5. record.request = served + 1
    OBVIOUS
  <1> HIDE DEF record, sound, end
  <1>6. ASSUME NEW i \in Lines', NEW j \in Lines', i < j
        PROVE  file'[i].request < file'[j].request
    <2>1. i \in Lines
      BY <1>0, <1>1, <1>3, <1>6 DEF end
    <2>2. CASE j \in Lines
      BY <1>1, <1>4, <1>6, <2>1, <2>2
    <2>3. CASE j \notin Lines
      <3>1. file'[j].request = served + 1
        BY <1>1, <1>5, <2>3
      <3>2. file'[i].request \in emptied + 1 .. served
        BY <1>1, <1>3, <2>1
      <3>3. QED BY <1>0, <3>1, <3>2
    <2>4. QED BY <2>2, <2>3
  <1>7. {file'[i].request : i \in Lines'} = {r \in emptied' + 1 .. served' : Sound(r)'}
    <2>1. {file'[i].request : i \in Lines} = {file[i].request : i \in Lines}
      BY <1>1
    <2>2. \A r \in emptied + 1 .. served : Sound(r)' <=> Sound(r)
      BY <1>0, <1>2
    <2>3. emptied' + 1 .. served' = (emptied + 1 .. served) \cup {served + 1}
      BY <1>0
    <2>4. CASE sound
      BY <1>1, <1>2, <1>4, <1>5, <2>1, <2>2, <2>3, <2>4
    <2>5. CASE ~ sound
      BY <1>1, <1>2, <1>4, <2>1, <2>2, <2>3, <2>5
    <2>6. QED BY <2>4, <2>5
  <1>8. ASSUME NEW k \in DOMAIN records', Sound(records[k].request)'
        PROVE  \E i \in Lines' : file'[i] = records'[k]
    <2>1. CASE records'[k] = record
      <3>1. sound
        BY <1>2, <1>5, <1>8, <2>1
      <3>2. QED BY <1>1, <2>1, <3>1
    <2>2. ASSUME NEW j \in DOMAIN records, records'[k] = records[j]
          PROVE  \E i \in Lines' : file'[i] = records'[k]
      <3>1. Sound(records[j].request)
        BY <1>2, <1>3, <1>8, <2>2
      <3>2. PICK i \in Lines : file[i] = records[j]
        BY <1>4, <3>1
      <3>3. QED BY <1>1, <2>2, <3>2
    <2>3. QED BY <2>1, <2>2, RingAfterAdd DEF record
  <1>9. FileKeepsRing'
    BY <1>6, <1>7, <1>8 DEF FileKeepsRing
  <1>10. QED BY <1>0, <1>1, <1>2, <1>9 DEF FileInv

\* Clearing the ring leaves the file and its history alone, or empties both.
LEMMA ClearKeepsFile ==
  ASSUME IInv, FileInv, Clear
  PROVE  FileInv'
  <1>0. /\ served \in Nat /\ emptied \in Nat /\ emptied <= served
        /\ served' = served /\ writes' = writes /\ start' = served /\ records' = <<>>
    BY DEF IInv, TypeOK, Counted, FileInv, Clear
  <1>1. CASE file' = <<>> /\ midLine' = FALSE /\ emptied' = served
    <2>1. emptied' + 1 .. served' = {} /\ emptied' + 1 .. (served' + 1) - 1 = {}
      BY <1>0, <1>1
    <2>2. ~ Pending(served + 1)'
      BY <2>1 DEF Pending
    <2>3. Lines' = {}
      BY <1>1 DEF Lines
    <2>4. FileKeepsRing'
      BY <1>0, <2>1, <2>3 DEF FileKeepsRing
    <2>5. QED BY <1>0, <1>1, <2>2, <2>4 DEF FileInv
  <1>2. CASE UNCHANGED <<file, midLine, emptied>>
    BY <1>0, <1>2 DEF FileInv, FileKeepsRing, Lines, Spoilt, Sound, Spoils, Pending
  <1>3. QED BY <1>1, <1>2 DEF Clear

LEMMA FileInvariance == Spec => []FileInv
  <1>1. Init => FileInv
    <2> SUFFICES ASSUME Init PROVE FileInv
      OBVIOUS
    <2>1. served = 0 /\ emptied = 0 /\ start = 0 /\ file = <<>> /\ records = <<>> /\ midLine = FALSE
      BY DEF Init
    <2>2. Lines = {} /\ emptied + 1 .. served = {} /\ emptied + 1 .. (served + 1) - 1 = {}
      BY <2>1 DEF Lines
    <2>3. QED BY <2>1, <2>2 DEF FileInv, FileKeepsRing, Pending
  <1>2. IInv /\ FileInv /\ [Next]_vars => FileInv'
    <2> SUFFICES ASSUME IInv, FileInv, [Next]_vars PROVE FileInv'
      OBVIOUS
    <2>1. CASE \E w \in Writes : Add(w)
      BY <2>1, AddKeepsFile
    <2>2. CASE Clear
      BY <2>2, ClearKeepsFile
    <2>3. CASE Restart
      <3>1. /\ records' = <<>> /\ start' = served /\ emptied <= served
            /\ UNCHANGED <<file, midLine, served, writes, emptied>>
        BY <2>3 DEF Restart, IInv, TypeOK, Counted, FileInv
      <3>2. QED BY <3>1 DEF FileInv, FileKeepsRing, Lines, Spoilt, Sound, Spoils, Pending
    <2>4. CASE UNCHANGED vars
      BY <2>4 DEF vars, FileInv, FileKeepsRing, Lines, Spoilt, Sound, Spoils, Pending
    <2>5. QED BY <2>1, <2>2, <2>3, <2>4 DEF Next
  <1>3. QED BY <1>1, <1>2, Invariance, PTL DEF Spec

-----------------------------------------------------------------------------

\* The file keeps every record that was written whole on a line of its own,
\* once and in order, and so every such record of the ring, whichever appends
\* and clears fail.
THEOREM FileIsSound == Spec => []FileKeepsRing
  <1>1. FileInv => FileKeepsRing
    BY DEF FileInv
  <1>2. QED BY <1>1, FileInvariance, PTL

=============================================================================
