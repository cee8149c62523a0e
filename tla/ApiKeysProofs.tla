---------------------------- MODULE ApiKeysProofs ----------------------------
(***************************************************************************)
(* Proofs about ApiKeys, for all sets of names, keys and models.           *)
(***************************************************************************)
EXTENDS ApiKeys, SequenceTheorems, TLAPS

\* No two records of a list have the same name, as in a dict.
NamesUnique(list) == \A i, j \in DOMAIN list : list[i].name = list[j].name => i = j

\* A saved list is the one in .env, unless the gateway started with FREEBUFF_API_KEY
\* and nothing was saved since.
SavedInFile == saved => file = keys \/ file \in {NoList, <<>>} \/ ~Readable(file)

\* What .env has is a list the store had.
FileOK == file # NoList => file \in Seq(Record) /\ NamesUnique(file)

IInv == TypeOK /\ FileOK /\ SavedInFile

\* The names of a list stay unique when a record with a new name is appended.
LEMMA AppendUnique ==
  ASSUME NEW list \in Seq(Record), NamesUnique(list), NEW rec \in Record,
         \A i \in DOMAIN list : list[i].name # rec.name
  PROVE  Append(list, rec) \in Seq(Record) /\ NamesUnique(Append(list, rec))
  <1> DEFINE longer == Append(list, rec)
  <1>1. /\ longer \in Seq(Record) /\ Len(longer) = Len(list) + 1
        /\ \A i \in 1 .. Len(list) : longer[i] = list[i]
        /\ longer[Len(list) + 1] = rec
    BY AppendProperties
  <1>2. DOMAIN longer = 1 .. Len(list) + 1 /\ DOMAIN list = 1 .. Len(list) /\ Len(list) \in Nat
    BY <1>1, LenProperties
  <1> HIDE DEF longer
  <1>3. NamesUnique(longer)
    BY <1>1, <1>2 DEF NamesUnique
  <1>4. QED BY <1>1, <1>3 DEF longer

\* They stay unique when one is removed.
LEMMA RemoveUnique ==
  ASSUME NEW list \in Seq(Record), NamesUnique(list), NEW k \in DOMAIN list
  PROVE  LET shorter == SubSeq(list, 1, k - 1) \o SubSeq(list, k + 1, Len(list))
         IN  shorter \in Seq(Record) /\ NamesUnique(shorter)
  <1> DEFINE u == SubSeq(list, 1, k - 1)
             v == SubSeq(list, k + 1, Len(list))
             shorter == u \o v
  <1>1. k \in 1 .. Len(list) /\ Len(list) \in Nat
    BY LenProperties
  <1>2. /\ u \in Seq(Record) /\ Len(u) = k - 1
        /\ \A i \in 1 .. k - 1 : u[i] = list[i]
    BY <1>1
  <1>3. /\ v \in Seq(Record) /\ Len(v) = Len(list) - k
        /\ \A i \in 1 .. Len(list) - k : v[i] = list[i + k]
    BY <1>1
  <1> HIDE DEF u, v
  <1>4. /\ shorter \in Seq(Record)
        /\ Len(shorter) = Len(u) + Len(v)
        /\ \A i \in 1 .. Len(u) + Len(v) :
             shorter[i] = IF i <= Len(u) THEN u[i] ELSE v[i - Len(u)]
    BY <1>2, <1>3, ConcatProperties
  <1> HIDE DEF shorter
  <1>5. Len(shorter) = Len(list) - 1
    BY <1>1, <1>2, <1>3, <1>4
  <1>6. ASSUME NEW i \in 1 .. Len(list) - 1
        PROVE  shorter[i] = list[IF i < k THEN i ELSE i + 1]
    <2>1. CASE i < k
      BY <1>1, <1>2, <1>3, <1>4, <2>1
    <2>2. CASE i >= k
      <3>1. i - (k - 1) \in 1 .. Len(list) - k
        BY <1>1, <2>2
      <3>2. v[i - (k - 1)] = list[i + 1]
        BY <1>1, <1>3, <3>1
      <3>3. QED BY <1>1, <1>2, <1>3, <1>4, <2>2, <3>2
    <2>3. QED BY <1>1, <2>1, <2>2
  <1>7. NamesUnique(shorter)
    <2>1. DOMAIN shorter = 1 .. Len(list) - 1 /\ DOMAIN list = 1 .. Len(list)
      BY <1>4, <1>5, LenProperties
    <2>2. SUFFICES ASSUME NEW i \in 1 .. Len(list) - 1, NEW j \in 1 .. Len(list) - 1,
                          shorter[i].name = shorter[j].name
                   PROVE  i = j
      BY <2>1 DEF NamesUnique
    <2> DEFINE p == IF i < k THEN i ELSE i + 1
               q == IF j < k THEN j ELSE j + 1
    <2>3. p \in DOMAIN list /\ q \in DOMAIN list
      BY <1>1, <2>1
    <2>4. list[p].name = list[q].name
      BY <1>6, <2>2
    <2>5. p = q
      BY <2>3, <2>4 DEF NamesUnique
    <2>6. QED BY <1>1, <2>5
  <1>8. QED BY <1>4, <1>7 DEF shorter, u, v

\* They stay unique when a record gets other values under its name.
LEMMA ReplaceUnique ==
  ASSUME NEW list \in Seq(Record), NamesUnique(list), NEW k \in DOMAIN list,
         NEW rec \in Record, rec.name = list[k].name
  PROVE  /\ [list EXCEPT ![k] = rec] \in Seq(Record)
         /\ NamesUnique([list EXCEPT ![k] = rec])
  <1> DEFINE new == [list EXCEPT ![k] = rec]
  <1>1. new \in Seq(Record)
    BY ExceptSeq, LenProperties
  <1>2. /\ DOMAIN new = DOMAIN list
        /\ \A i \in DOMAIN list : new[i].name = list[i].name
    OBVIOUS
  <1> HIDE DEF new
  <1>3. NamesUnique(new)
    BY <1>2 DEF NamesUnique
  <1>4. QED BY <1>1, <1>3 DEF new

\* What a gateway starts with.
LEMMA LoadedOK ==
  ASSUME FileOK, fallback \in Keys \cup {NoKey}
  PROVE  /\ Loaded \in Seq(Record) /\ NamesUnique(Loaded)
         /\ \/ Loaded = file /\ file # NoList
            \/ Loaded = Fallback /\ (file \in {NoList, <<>>} \/ ~Readable(file))
  <1>1. Fallback \in Seq(Record) /\ NamesUnique(Fallback)
    <2>1. CASE fallback = NoKey
      BY <2>1 DEF Fallback, NamesUnique
    <2>2. CASE fallback # NoKey
      <3> DEFINE rec == [name |-> "default", key |-> fallback, allowed |-> {"*"}, enabled |-> TRUE]
      <3>1. rec \in Record
        BY <2>2, NamesAssumption, AllowancesAssumption DEF Record
      <3>2. Fallback = <<rec>>
        BY <2>2 DEF Fallback
      <3> HIDE DEF rec
      <3>3. QED BY <3>1, <3>2 DEF NamesUnique
    <2>3. QED BY <2>1, <2>2
  <1>2. QED BY <1>1 DEF Loaded, FileOK

\* A change of the store is saved or is not.
LEMMA ChangeKeeps ==
  ASSUME IInv, NEW list \in Seq(Record), NamesUnique(list), Change(list)
  PROVE  IInv'
  <1>1. keys' = list /\ fallback' = fallback
    BY DEF Change
  <1>2. (file' = list /\ saved' = TRUE) \/ (file' = file /\ saved' = FALSE)
    BY DEF Change
  <1>3. FileOK'
    BY <1>2 DEF IInv, FileOK, NamesUnique
  <1>4. TypeOK'
    BY <1>1, <1>2 DEF IInv, TypeOK, NamesUnique
  <1>5. SavedInFile'
    BY <1>1, <1>2 DEF SavedInFile
  <1>6. QED BY <1>3, <1>4, <1>5 DEF IInv

\* The initial states satisfy the inductive invariant.
LEMMA InitIInv == Init => IInv
  <1> SUFFICES ASSUME Init PROVE IInv
    OBVIOUS
  <1>1. FileOK /\ SavedInFile
    BY DEF Init, FileOK, SavedInFile
  <1>2. Loaded \in Seq(Record) /\ NamesUnique(Loaded)
    BY <1>1, LoadedOK DEF Init
  <1>3. TypeOK
    BY <1>2 DEF Init, TypeOK, NamesUnique
  <1>4. QED BY <1>1, <1>3 DEF IInv

\* Every step keeps the inductive invariant.
LEMMA NextIInv == IInv /\ [Next]_vars => IInv'
  <1> SUFFICES ASSUME IInv, [Next]_vars PROVE IInv'
    OBVIOUS
  <1>1. keys \in Seq(Record) /\ NamesUnique(keys)
    BY DEF IInv, TypeOK, NamesUnique
  <1>2. ASSUME NEW i \in DOMAIN keys PROVE keys[i] \in Record
    BY <1>1, ElementOfSeq, LenProperties
  <1>3. ASSUME NEW n \in Names, NEW k \in Keys, NEW allowed \in Allowances,
               CreateKey(n, k, allowed)
        PROVE  IInv'
    <2> DEFINE rec == [name |-> n, key |-> k, allowed |-> allowed, enabled |-> TRUE]
    <2>1. rec \in Record /\ rec.name = n
      BY DEF Record
    <2>2. Change(Append(keys, rec)) /\ \A i \in DOMAIN keys : keys[i].name # n
      BY <1>3 DEF CreateKey, HasName
    <2> HIDE DEF rec
    <2>3. QED BY <1>1, <2>1, <2>2, AppendUnique, ChangeKeeps
  <1>4. ASSUME NEW i \in DOMAIN keys, NEW k \in Keys \cup {NoKey}, NEW allowed \in Allowances,
               NEW enabled \in BOOLEAN, UpdateKey(i, k, allowed, enabled)
        PROVE  IInv'
    <2> DEFINE rec == [keys[i] EXCEPT !.key = IF k = NoKey THEN @ ELSE k,
                                      !.allowed = allowed,
                                      !.enabled = enabled]
    <2>1. rec \in Record /\ rec.name = keys[i].name
      BY <1>2 DEF Record
    <2>2. Change([keys EXCEPT ![i] = rec])
      <3>1. keys = [j \in DOMAIN keys |-> keys[j]]
        BY <1>1
      <3>2. [keys EXCEPT ![i].key = IF k = NoKey THEN @ ELSE k,
                         ![i].allowed = allowed,
                         ![i].enabled = enabled] = [keys EXCEPT ![i] = rec]
        BY <3>1
      <3>3. QED BY <1>4, <3>2 DEF UpdateKey
    <2> HIDE DEF rec
    <2>3. QED BY <1>1, <2>1, <2>2, ReplaceUnique, ChangeKeeps
  <1>5. ASSUME NEW i \in DOMAIN keys, DeleteKey(i)
        PROVE  IInv'
    BY <1>1, <1>5, RemoveUnique, ChangeKeeps DEF DeleteKey
  <1>6. ASSUME NEW i \in DOMAIN keys, ToggleKey(i)
        PROVE  IInv'
    <2> DEFINE rec == [keys[i] EXCEPT !.enabled = ~@]
    <2>1. rec \in Record /\ rec.name = keys[i].name
      BY <1>2 DEF Record
    <2>2. Change([keys EXCEPT ![i] = rec])
      BY <1>6 DEF ToggleKey
    <2> HIDE DEF rec
    <2>3. QED BY <1>1, <2>1, <2>2, ReplaceUnique, ChangeKeeps
  <1>7. ASSUME NEW k \in Keys, SaveApiKey(k)
        PROVE  IInv'
    BY <1>7 DEF IInv, SaveApiKey, TypeOK, FileOK, SavedInFile, NamesUnique, Readable
  <1>8. CASE Restart
    <2>1. /\ Loaded \in Seq(Record) /\ NamesUnique(Loaded)
          /\ Loaded = file \/ file \in {NoList, <<>>} \/ ~Readable(file)
      BY LoadedOK DEF IInv, TypeOK
    <2>2. keys' = Loaded /\ saved' = TRUE /\ file' = file /\ fallback' = fallback
      BY <1>8 DEF Restart
    <2>3. TypeOK'
      BY <2>1, <2>2 DEF IInv, TypeOK, NamesUnique
    <2>4. FileOK' /\ SavedInFile'
      BY <2>1, <2>2 DEF IInv, FileOK, SavedInFile, NamesUnique, Readable
    <2>5. QED BY <2>3, <2>4 DEF IInv
  <1>9. CASE UNCHANGED vars
    BY <1>9 DEF IInv, vars, TypeOK, FileOK, SavedInFile, NamesUnique, Readable
  <1>10. QED BY <1>3, <1>4, <1>5, <1>6, <1>7, <1>8, <1>9 DEF Next

\* The inductive invariant holds in every reachable state.
LEMMA InvariantIInv == Spec => []IInv
  BY InitIInv, NextIInv, PTL DEF Spec

-----------------------------------------------------------------------------
(* The theorems                                                            *)

\* No key is ever blank and no name used twice (usage_store.py:100-188).
THEOREM TypeCorrect == Spec => []TypeOK
  <1>1. IInv => TypeOK
    BY DEF IInv
  <1>2. QED BY <1>1, InvariantIInv, PTL

\* A restart brings back the keys that were saved, or, where .env has no list
\* that can be read, FREEBUFF_API_KEY alone (admin.py:770-776,
\* usage_store.py:107-131).
THEOREM KeysPersist == Spec => RestartKeepsKeys
  <1>1. IInv /\ [Next]_vars =>
          [Restart /\ saved =>
             \/ keys' = keys
             \/ keys' = Fallback /\ (file \in {NoList, <<>>} \/ ~Readable(file))]_vars
    <2> SUFFICES ASSUME IInv, Restart, saved
                 PROVE  \/ keys' = keys
                        \/ keys' = Fallback /\ (file \in {NoList, <<>>} \/ ~Readable(file))
      OBVIOUS
    <2>1. keys' = Loaded
      BY DEF Restart
    <2>2. file = keys \/ file \in {NoList, <<>>} \/ ~Readable(file)
      BY DEF IInv, SavedInFile
    <2>3. QED BY <2>1, <2>2 DEF Loaded
  <1>2. QED BY <1>1, InvariantIInv, PTL DEF Spec, RestartKeepsKeys

=============================================================================
