---------------------------- MODULE GatewayProofs ----------------------------
(***************************************************************************)
(* Proofs about Gateway, for every set of chats and accounts and any       *)
(* number of replaced pools.                                               *)
(*                                                                         *)
(* Three things are invariant of one chat: that it has a lease exactly     *)
(* while its handler or generator runs, or was lost; that its runs are     *)
(* what the first n calls of one script make of them, where n and the      *)
(* calls left to make follow from the step it is at; and which records it  *)
(* has at which step.                                                      *)
(***************************************************************************)
EXTENDS Gateway, SequenceTheorems, TLAPS

\* Any step of one chat.
ChatStep(c) ==
  \/ Arrive(c) \/ Refuse(c) \/ Proceed(c) \/ ClientLeaves(c) \/ FinalizeRun(c)
  \/ Cancel(c)

-----------------------------------------------------------------------------
(* The script of a chat's run calls                                        *)

\* All the calls made for a chat when none fails: the preparation, then the
\* finalization.  The first five are the same for both chains.
Script(ch) ==
  IF ch = "pruner"
  THEN <<Start("root"), Start("kid"), Step("kid", 1, FALSE), Finish("kid", 2),
         Step("root", 1, TRUE), Step("root", 2, FALSE), Finish("root", 3)>>
  ELSE <<Start("root"), Start("kid"), Step("kid", 1, FALSE), Finish("kid", 2),
         Step("root", 1, TRUE), Finish("root", 2)>>

Total(ch) == IF ch = "pruner" THEN 7 ELSE 6
Prepared(ch) == IF ch = "pruner" THEN 5 ELSE 2

ARun(state, steps, names, total) ==
  [state |-> state, steps |-> steps, names |-> names, total |-> total]

\* The runs after the first n calls of the script.
RootAt(ch, n) ==
  IF n = 0 THEN ARun("none", <<>>, FALSE, 0)
  ELSE IF n < 5 THEN ARun("open", <<>>, FALSE, 0)
  ELSE IF n = 5 THEN ARun("open", <<1>>, TRUE, 0)
  ELSE IF ch # "pruner" THEN ARun("finished", <<1>>, TRUE, 2)
  ELSE IF n = 6 THEN ARun("open", <<1, 2>>, TRUE, 0)
  ELSE ARun("finished", <<1, 2>>, TRUE, 3)

KidAt(n) ==
  IF n < 2 THEN ARun("none", <<>>, FALSE, 0)
  ELSE IF n = 2 THEN ARun("open", <<>>, FALSE, 0)
  ELSE IF n = 3 THEN ARun("open", <<1>>, FALSE, 0)
  ELSE ARun("finished", <<1>>, FALSE, 2)

At(ch, n) == [root |-> RootAt(ch, n), kid |-> KidAt(n)]

Calls ==
  {Start("root"), Start("kid"), Step("kid", 1, FALSE), Finish("kid", 2),
   Step("root", 1, TRUE), Step("root", 2, FALSE), Finish("root", 2), Finish("root", 3)}

\* s holds the calls of the script after the n-th, up to the m-th.
IsRest(s, ch, n, m) ==
  /\ s \in Seq(Calls)
  /\ Len(s) = m - n
  /\ \A i \in 1 .. m - n : s[i] = Script(ch)[n + i]

\* The preparation and the finalization are the two parts of the script.
LEMMA ScriptParts ==
  ASSUME NEW ch \in Chains
  PROVE  /\ IsRest(Preparation(ch), ch, 0, Prepared(ch))
         /\ IsRest(Finalization(ch), ch, Prepared(ch), Total(ch))
  <1>1. Preparation(ch) \in Seq(Calls) /\ Len(Preparation(ch)) = Prepared(ch)
    <2>1. CASE ch = "pruner"
      BY <2>1 DEF Preparation, Calls, Prepared
    <2>2. CASE ch # "pruner"
      BY <2>2 DEF Preparation, Calls, Prepared
    <2>3. QED BY <2>1, <2>2
  <1>2. Finalization(ch) \in Seq(Calls) /\ Len(Finalization(ch)) = Total(ch) - Prepared(ch)
    <2>1. CASE ch = "pruner"
      BY <2>1 DEF Finalization, Calls, Prepared, Total
    <2>2. CASE ch # "pruner"
      BY <2>2 DEF Finalization, Calls, Prepared, Total
    <2>3. QED BY <2>1, <2>2
  <1>3. ASSUME NEW i \in 1 .. Prepared(ch)
        PROVE  Preparation(ch)[i] = Script(ch)[i]
    <2>1. CASE ch = "pruner"
      <3>1. i \in 1 .. 5
        BY <2>1 DEF Prepared
      <3>2. /\ Preparation(ch)[1] = Script(ch)[1] /\ Preparation(ch)[2] = Script(ch)[2]
            /\ Preparation(ch)[3] = Script(ch)[3] /\ Preparation(ch)[4] = Script(ch)[4]
            /\ Preparation(ch)[5] = Script(ch)[5]
        BY <2>1 DEF Preparation, Script
      <3>3. QED BY <3>1, <3>2
    <2>2. CASE ch # "pruner"
      BY <2>2 DEF Preparation, Prepared, Script
    <2>3. QED BY <2>1, <2>2
  <1>4. ASSUME NEW i \in 1 .. Total(ch) - Prepared(ch)
        PROVE  Finalization(ch)[i] = Script(ch)[Prepared(ch) + i]
    <2>1. CASE ch = "pruner"
      <3>1. i \in 1 .. 2 /\ Prepared(ch) + i = 5 + i
        BY <2>1 DEF Prepared, Total
      <3>2. Finalization(ch)[1] = Script(ch)[6] /\ Finalization(ch)[2] = Script(ch)[7]
        BY <2>1 DEF Finalization, Script
      <3>3. QED BY <3>1, <3>2
    <2>2. CASE ch # "pruner"
      <3>1. i \in 1 .. 4 /\ Prepared(ch) + i = 2 + i
        BY <2>2 DEF Prepared, Total
      <3>2. /\ Finalization(ch)[1] = Script(ch)[3] /\ Finalization(ch)[2] = Script(ch)[4]
            /\ Finalization(ch)[3] = Script(ch)[5] /\ Finalization(ch)[4] = Script(ch)[6]
        BY <2>2 DEF Finalization, Script
      <3>3. QED BY <3>1, <3>2
    <2>3. QED BY <2>1, <2>2
  <1>5. QED BY <1>1, <1>2, <1>3, <1>4 DEF IsRest, Prepared, Total

\* Taking the calls one by one.
LEMMA RestSteps ==
  ASSUME NEW ch, NEW n \in Nat, NEW m \in Nat, NEW s, IsRest(s, ch, n, m)
  PROVE  /\ s = <<>> <=> n = m
         /\ s # <<>> => /\ n < m
                        /\ Head(s) = Script(ch)[n + 1]
                        /\ IsRest(Tail(s), ch, n + 1, m)
  <1>1. s \in Seq(Calls) /\ Len(s) = m - n
    BY DEF IsRest
  <1>2. s = <<>> <=> n = m
    BY <1>1
  <1>3. ASSUME s # <<>>
        PROVE n < m /\ Head(s) = Script(ch)[n + 1] /\ IsRest(Tail(s), ch, n + 1, m)
    <2>1. n < m
      BY <1>1, <1>2, <1>3
    <2>2. Head(s) = Script(ch)[n + 1]
      BY <1>1, <2>1 DEF IsRest
    <2>3. Tail(s) \in Seq(Calls) /\ Len(Tail(s)) = m - (n + 1)
      BY <1>1, <2>1
    <2>4. ASSUME NEW i \in 1 .. m - (n + 1)
          PROVE  Tail(s)[i] = Script(ch)[(n + 1) + i]
      <3>1. Tail(s)[i] = s[i + 1]
        BY <1>1, <2>1
      <3>2. i + 1 \in 1 .. m - n /\ n + (i + 1) = (n + 1) + i
        OBVIOUS
      <3>3. QED BY <3>1, <3>2 DEF IsRest
    <2>5. QED BY <2>1, <2>2, <2>3, <2>4 DEF IsRest
  <1>4. QED BY <1>2, <1>3

\* What the calls make of the runs they find.
LEMMA CallEffects ==
  /\ Applied(ARun("none", <<>>, FALSE, 0), Start("root")) = ARun("open", <<>>, FALSE, 0)
  /\ Applied(ARun("none", <<>>, FALSE, 0), Start("kid")) = ARun("open", <<>>, FALSE, 0)
  /\ Applied(ARun("open", <<>>, FALSE, 0), Step("kid", 1, FALSE)) = ARun("open", <<1>>, FALSE, 0)
  /\ Applied(ARun("open", <<1>>, FALSE, 0), Finish("kid", 2)) = ARun("finished", <<1>>, FALSE, 2)
  /\ Applied(ARun("open", <<>>, FALSE, 0), Step("root", 1, TRUE)) = ARun("open", <<1>>, TRUE, 0)
  /\ Applied(ARun("open", <<1>>, TRUE, 0), Step("root", 2, FALSE)) = ARun("open", <<1, 2>>, TRUE, 0)
  /\ Applied(ARun("open", <<1>>, TRUE, 0), Finish("root", 2)) = ARun("finished", <<1>>, TRUE, 2)
  /\ Applied(ARun("open", <<1, 2>>, TRUE, 0), Finish("root", 3)) = ARun("finished", <<1, 2>>, TRUE, 3)
  <1>1. <<1>> = Append(<<>>, 1)
    OBVIOUS
  <1>2. <<1, 2>> = Append(<<1>>, 2)
    <2>1. /\ Append(<<1>>, 2) \in Seq(Nat) /\ <<1, 2>> \in Seq(Nat)
          /\ Len(Append(<<1>>, 2)) = 2 /\ Len(<<1, 2>>) = 2
      OBVIOUS
    <2>2. \A i \in 1 .. 2 : <<1, 2>>[i] = Append(<<1>>, 2)[i]
      OBVIOUS
    <2>3. QED BY <2>1, <2>2, SeqEqual
  <1>3. Applied(ARun("open", <<>>, FALSE, 0), Step("kid", 1, FALSE)) = ARun("open", <<1>>, FALSE, 0)
    <2>1. ASSUME NEW s, NEW t, t = Append(s, 1)
          PROVE  Applied(ARun("open", s, FALSE, 0), Step("kid", 1, FALSE)) = ARun("open", t, FALSE, 0)
      BY <2>1 DEF ARun, Applied, Step
    <2>2. QED BY <1>1, <2>1
  <1>4. Applied(ARun("open", <<>>, FALSE, 0), Step("root", 1, TRUE)) = ARun("open", <<1>>, TRUE, 0)
    <2>1. ASSUME NEW s, NEW t, t = Append(s, 1)
          PROVE  Applied(ARun("open", s, FALSE, 0), Step("root", 1, TRUE)) = ARun("open", t, TRUE, 0)
      BY <2>1 DEF ARun, Applied, Step
    <2>2. QED BY <1>1, <2>1
  <1>5. Applied(ARun("open", <<1>>, TRUE, 0), Step("root", 2, FALSE)) = ARun("open", <<1, 2>>, TRUE, 0)
    <2>1. ASSUME NEW s, NEW t, t = Append(s, 2)
          PROVE  Applied(ARun("open", s, TRUE, 0), Step("root", 2, FALSE)) = ARun("open", t, TRUE, 0)
      BY <2>1 DEF ARun, Applied, Step
    <2>2. QED BY <1>2, <2>1
  <1>6. ASSUME NEW s
        PROVE  /\ Applied(ARun("none", s, FALSE, 0), Start("root")) = ARun("open", s, FALSE, 0)
               /\ Applied(ARun("none", s, FALSE, 0), Start("kid")) = ARun("open", s, FALSE, 0)
               /\ Applied(ARun("open", s, FALSE, 0), Finish("kid", 2)) = ARun("finished", s, FALSE, 2)
               /\ Applied(ARun("open", s, TRUE, 0), Finish("root", 2)) = ARun("finished", s, TRUE, 2)
               /\ Applied(ARun("open", s, TRUE, 0), Finish("root", 3)) = ARun("finished", s, TRUE, 3)
    BY DEF ARun, Applied, Start, Finish
  <1>7. QED BY <1>3, <1>4, <1>5, <1>6

\* Each call of the script makes of its run what At says, and is about no other.
LEMMA CallAdvances ==
  ASSUME NEW ch \in Chains, NEW n \in 0 .. Total(ch) - 1
  PROVE  LET call == Script(ch)[n + 1] IN
         \/ /\ call.run = "root" /\ Applied(RootAt(ch, n), call) = RootAt(ch, n + 1)
            /\ KidAt(n + 1) = KidAt(n)
         \/ /\ call.run = "kid" /\ Applied(KidAt(n), call) = KidAt(n + 1)
            /\ RootAt(ch, n + 1) = RootAt(ch, n)
  <1> DEFINE call == Script(ch)[n + 1]
  <1>1. CASE n = 0
    <2>1. call = Start("root") /\ call.run = "root"
      BY <1>1 DEF Script, Start
    <2>2. /\ RootAt(ch, n) = ARun("none", <<>>, FALSE, 0)
          /\ RootAt(ch, n + 1) = ARun("open", <<>>, FALSE, 0)
          /\ KidAt(n + 1) = KidAt(n)
      BY <1>1 DEF RootAt, KidAt
    <2>3. Applied(RootAt(ch, n), call) = RootAt(ch, n + 1)
      BY <2>1, <2>2, CallEffects
    <2>4. QED BY <2>1, <2>2, <2>3
  <1>2. CASE n = 1
    <2>1. call = Start("kid") /\ call.run = "kid"
      BY <1>2 DEF Script, Start
    <2>2. /\ KidAt(n) = ARun("none", <<>>, FALSE, 0)
          /\ KidAt(n + 1) = ARun("open", <<>>, FALSE, 0)
          /\ RootAt(ch, n + 1) = RootAt(ch, n)
      BY <1>2 DEF RootAt, KidAt
    <2>3. Applied(KidAt(n), call) = KidAt(n + 1)
      BY <2>1, <2>2, CallEffects
    <2>4. QED BY <2>1, <2>2, <2>3
  <1>3. CASE n = 2
    <2>1. call = Step("kid", 1, FALSE) /\ call.run = "kid"
      BY <1>3 DEF Script, Step
    <2>2. /\ KidAt(n) = ARun("open", <<>>, FALSE, 0)
          /\ KidAt(n + 1) = ARun("open", <<1>>, FALSE, 0)
          /\ RootAt(ch, n + 1) = RootAt(ch, n)
      BY <1>3 DEF RootAt, KidAt
    <2>3. Applied(KidAt(n), call) = KidAt(n + 1)
      BY <2>1, <2>2, CallEffects
    <2>4. QED BY <2>1, <2>2, <2>3
  <1>4. CASE n = 3
    <2>1. call = Finish("kid", 2) /\ call.run = "kid"
      BY <1>4 DEF Script, Finish
    <2>2. /\ KidAt(n) = ARun("open", <<1>>, FALSE, 0)
          /\ KidAt(n + 1) = ARun("finished", <<1>>, FALSE, 2)
          /\ RootAt(ch, n + 1) = RootAt(ch, n)
      BY <1>4 DEF RootAt, KidAt
    <2>3. Applied(KidAt(n), call) = KidAt(n + 1)
      BY <2>1, <2>2, CallEffects
    <2>4. QED BY <2>1, <2>2, <2>3
  <1>5. CASE n = 4
    <2>1. call = Step("root", 1, TRUE) /\ call.run = "root"
      BY <1>5 DEF Script, Step
    <2>2. /\ RootAt(ch, n) = ARun("open", <<>>, FALSE, 0)
          /\ RootAt(ch, n + 1) = ARun("open", <<1>>, TRUE, 0)
          /\ KidAt(n + 1) = KidAt(n)
      BY <1>5 DEF RootAt, KidAt
    <2>3. Applied(RootAt(ch, n), call) = RootAt(ch, n + 1)
      BY <2>1, <2>2, CallEffects
    <2>4. QED BY <2>1, <2>2, <2>3
  <1>6. CASE n = 5 /\ ch = "pruner"
    <2>1. call = Step("root", 2, FALSE) /\ call.run = "root"
      BY <1>6 DEF Script, Step
    <2>2. /\ RootAt(ch, n) = ARun("open", <<1>>, TRUE, 0)
          /\ RootAt(ch, n + 1) = ARun("open", <<1, 2>>, TRUE, 0)
          /\ KidAt(n + 1) = KidAt(n)
      BY <1>6 DEF RootAt, KidAt
    <2>3. Applied(RootAt(ch, n), call) = RootAt(ch, n + 1)
      BY <2>1, <2>2, CallEffects
    <2>4. QED BY <2>1, <2>2, <2>3
  <1>7. CASE n = 5 /\ ch # "pruner"
    <2>1. call = Finish("root", 2) /\ call.run = "root"
      BY <1>7 DEF Script, Finish
    <2>2. /\ RootAt(ch, n) = ARun("open", <<1>>, TRUE, 0)
          /\ RootAt(ch, n + 1) = ARun("finished", <<1>>, TRUE, 2)
          /\ KidAt(n + 1) = KidAt(n)
      BY <1>7 DEF RootAt, KidAt
    <2>3. Applied(RootAt(ch, n), call) = RootAt(ch, n + 1)
      BY <2>1, <2>2, CallEffects
    <2>4. QED BY <2>1, <2>2, <2>3
  <1>8. CASE n = 6
    <2>1. ch = "pruner"
      BY <1>8 DEF Total
    <2>2. call = Finish("root", 3) /\ call.run = "root"
      BY <1>8, <2>1 DEF Script, Finish
    <2>3. /\ RootAt(ch, n) = ARun("open", <<1, 2>>, TRUE, 0)
          /\ RootAt(ch, n + 1) = ARun("finished", <<1, 2>>, TRUE, 3)
          /\ KidAt(n + 1) = KidAt(n)
      BY <1>8, <2>1 DEF RootAt, KidAt
    <2>4. Applied(RootAt(ch, n), call) = RootAt(ch, n + 1)
      BY <2>2, <2>3, CallEffects
    <2>5. QED BY <2>2, <2>3, <2>4
  <1>9. QED
    <2>1. n \in 0 .. 6
      BY DEF Total
    <2>2. QED BY <1>1, <1>2, <1>3, <1>4, <1>5, <1>6, <1>7, <1>8, <2>1

-----------------------------------------------------------------------------
(* The invariant                                                           *)

\* The type of every variable but the runs, whose shape RunsOK tells.
Typing ==
  /\ want \subseteq Chats
  /\ holds \in [Chats -> Slots \cup {NoSlot}]
  /\ current \in Pools
  /\ pool \in [Chats -> Pools]
  /\ kind \in [Chats -> Kinds]
  /\ chain \in [Chats -> Chains]
  /\ pc \in [Chats -> PC]
  /\ todo \in [Chats -> Seq(Calls)]
  /\ fin \in [Chats -> {"no", "pending", "over"}]
  /\ failed \subseteq Chats
  /\ outcome \in [Chats -> Outcomes]
  /\ records \in [Chats -> Seq({"success", "error"})]

RunsOK == runs \in [Chats -> [root : Run, kid : Run]]

\* Where in its script a chat is, by the step it is at, and what is left to do.
\* A chat one of whose calls failed may have stopped anywhere.
PhaseOK(c, n) ==
  /\ pc[c] \in {"new", "waiting", "acquiring", "checks"} =>
       n = 0 /\ fin[c] = "no" /\ c \notin failed
  /\ pc[c] = "chain" =>
       /\ n <= Prepared(chain[c]) /\ fin[c] = "no" /\ c \notin failed
       /\ IsRest(todo[c], chain[c], n, Prepared(chain[c]))
  /\ pc[c] \in {"starting", "streaming", "erroring", "abandoned", "collecting"} =>
       n = Prepared(chain[c]) /\ fin[c] = "no" /\ c \notin failed
  /\ pc[c] = "closing" => fin[c] # "no"
  /\ pc[c] = "lost" => fin[c] = "no"
  /\ pc[c] = "over" /\ fin[c] = "no" /\ c \notin failed => n = 0
  /\ fin[c] = "pending" =>
       /\ n >= Prepared(chain[c]) /\ c \notin failed /\ todo[c] # <<>>
       /\ IsRest(todo[c], chain[c], n, Total(chain[c]))
  /\ fin[c] = "over" /\ c \notin failed => n = Total(chain[c])
  /\ pc[c] # "chain" /\ fin[c] # "pending" => todo[c] = <<>>

Progress(c) ==
  \E n \in 0 .. Total(chain[c]) : runs[c] = At(chain[c], n) /\ PhaseOK(c, n)

\* Which outcome and which records a chat has, by the step it is at.
RecordsOK(c) ==
  /\ pc[c] \notin {"erroring", "abandoned", "closing", "over"} =>
       outcome[c] = "open" /\ records[c] = <<>>
  /\ pc[c] \in {"starting", "streaming", "erroring", "abandoned"} =>
       kind[c] \in {"openai", "anthropic"}
  /\ pc[c] \in {"collecting", "closing"} => kind[c] \in {"collect", "test"}
  /\ pc[c] = "erroring" => outcome[c] = "failed"
  /\ pc[c] = "abandoned" => outcome[c] \in {"failed", "left"}
  /\ pc[c] = "closing" => outcome[c] \in {"ok", "failed", "broken", "cancelled"}
  /\ pc[c] \in {"erroring", "abandoned"} =>
       records[c] = IF kind[c] = "openai" /\ outcome[c] = "failed" THEN <<"error">> ELSE <<>>
  /\ pc[c] = "closing" => records[c] = <<>>
  /\ pc[c] = "over" =>
       /\ \/ records[c] \in {<<>>, <<"success">>, <<"error">>}
          \/ outcome[c] = "unsent" /\ records[c] = <<"success", "error">>
       /\ records[c] # <<>> <=> outcome[c] \notin {"open", "cancelled"} /\ kind[c] # "test"
       /\ records[c] # <<>> /\ kind[c] # "anthropic" =>
            /\ outcome[c] = "failed" => records[c] = <<"error">>
            /\ outcome[c] = "ok" => records[c] = <<"success">>

IInv ==
  /\ Typing
  /\ RunsOK
  /\ LeaseCoversChat
  /\ \A c \in Chats : Progress(c) /\ RecordsOK(c)

-----------------------------------------------------------------------------
(* Typing                                                                  *)

\* What the lease's operations keep.
LEMMA LeaseTyping ==
  ASSUME Typing, NEW c \in Chats,
         \/ Lease!Ask(c) \/ Lease!Refuse(c) \/ Lease!Return(c) \/ UNCHANGED leaseVars
         \/ \E p \in Pools : Borrow(c, p)
  PROVE  want' \subseteq Chats /\ holds' \in [Chats -> Slots \cup {NoSlot}]
  <1> USE DEF Typing
  <1>1. CASE \E p \in Pools : Borrow(c, p)
    <2>1. PICK p \in Pools, a \in Accounts : Lease!Grant(c, <<p, a>>)
      BY <1>1 DEF Borrow
    <2>2. <<p, a>> \in Slots
      BY DEF Slots
    <2>3. QED BY <2>1, <2>2 DEF Lease!Grant
  <1>2. CASE Lease!Ask(c)
    BY <1>2 DEF Lease!Ask
  <1>3. CASE Lease!Refuse(c)
    BY <1>3 DEF Lease!Refuse
  <1>4. CASE Lease!Return(c)
    BY <1>4 DEF Lease!Return
  <1>5. CASE UNCHANGED leaseVars
    BY <1>5 DEF leaseVars
  <1>6. QED BY <1>1, <1>2, <1>3, <1>4, <1>5

\* A call, whether it is answered or raises.
LEMMA CallTyping ==
  ASSUME Typing, NEW c \in Chats, todo[c] # <<>>, CallSucceeds(c) \/ CallFails(c)
  PROVE  todo' \in [Chats -> Seq(Calls)] /\ failed' \subseteq Chats
  <1>1. Tail(todo[c]) \in Seq(Calls) /\ <<>> \in Seq(Calls)
    BY DEF Typing
  <1>2. QED BY <1>1 DEF Typing, CallSucceeds, CallFails

\* A record is added.
LEMMA RecordTyping ==
  ASSUME Typing, NEW c \in Chats, NEW status \in {"success", "error"}, Record(c, status)
  PROVE  records' \in [Chats -> Seq({"success", "error"})]
  <1>1. Append(records[c], status) \in Seq({"success", "error"})
    BY DEF Typing
  <1>2. QED BY <1>1 DEF Typing, Record

\* The finally block.
LEMMA FinallyTyping ==
  ASSUME Typing, NEW c \in Chats, Finally(c), outcome' \in [Chats -> Outcomes]
  PROVE  Typing'
  <1>1. want' \subseteq Chats /\ holds' \in [Chats -> Slots \cup {NoSlot}]
    BY LeaseTyping DEF Finally
  <1>2. Finalization(chain[c]) \in Seq(Calls)
    BY ScriptParts DEF Typing, IsRest
  <1>3. todo' \in [Chats -> Seq(Calls)] /\ fin' \in [Chats -> {"no", "pending", "over"}]
    BY <1>2 DEF Typing, Finally
  <1>4. records' \in [Chats -> Seq({"success", "error"})]
    BY RecordTyping DEF Typing, Finally
  <1>5. pc' \in [Chats -> PC]
    BY DEF Typing, Finally, Goto, PC
  <1>6. QED BY <1>1, <1>3, <1>4, <1>5 DEF Typing, Finally

\* The steps up to the one that sends the chat.
LEMMA OpeningTyping ==
  ASSUME Typing, NEW c \in Chats,
         \/ Arrive(c) \/ Refuse(c) \/ Answered(c) \/ SessionAcquired(c)
         \/ ChecksDone(c) \/ PrepareRun(c) \/ SendChat(c) \/ StartStream(c)
  PROVE  Typing'
  <1> USE DEF PC, Leased, Goto
  <1>1. CASE Arrive(c)
    <2>1. want' \subseteq Chats /\ holds' \in [Chats -> Slots \cup {NoSlot}]
      BY <1>1, LeaseTyping DEF Arrive, Typing
    <2>2. QED BY <1>1, <2>1 DEF Arrive, Typing
  <1>2. CASE Refuse(c)
    BY <1>2 DEF Refuse, Typing
  <1>3. CASE Answered(c)
    <2>1. want' \subseteq Chats /\ holds' \in [Chats -> Slots \cup {NoSlot}]
      BY <1>3, LeaseTyping DEF Answered, Typing
    <2>2. QED BY <1>3, <2>1 DEF Answered, Typing
  <1>4. CASE SessionAcquired(c)
    <2>1. want' \subseteq Chats /\ holds' \in [Chats -> Slots \cup {NoSlot}]
      BY <1>4, LeaseTyping DEF SessionAcquired
    <2>2. QED BY <1>4, <2>1 DEF SessionAcquired, Typing
  <1>5. CASE ChecksDone(c)
    <2>1. want' \subseteq Chats /\ holds' \in [Chats -> Slots \cup {NoSlot}]
      BY <1>5, LeaseTyping DEF ChecksDone
    <2>2. Preparation(chain[c]) \in Seq(Calls)
      BY ScriptParts DEF Typing, IsRest
    <2>3. todo' \in [Chats -> Seq(Calls)]
      BY <1>5, <2>2 DEF ChecksDone, Typing
    <2>4. pc' \in [Chats -> PC]
      BY <1>5 DEF ChecksDone, Typing
    <2>5. QED BY <1>5, <2>1, <2>3, <2>4 DEF ChecksDone, Typing
  <1>6. CASE PrepareRun(c)
    <2>1. want' \subseteq Chats /\ holds' \in [Chats -> Slots \cup {NoSlot}]
      BY <1>6, LeaseTyping DEF PrepareRun, leaseVars
    <2>2. todo' \in [Chats -> Seq(Calls)] /\ failed' \subseteq Chats
      BY <1>6, CallTyping DEF PrepareRun
    <2>3. QED BY <1>6, <2>1, <2>2 DEF PrepareRun, Typing
  <1>7. CASE SendChat(c)
    BY <1>7 DEF SendChat, Typing
  <1>8. CASE StartStream(c)
    BY <1>8 DEF StartStream, Typing
  <1>9. QED BY <1>1, <1>2, <1>3, <1>4, <1>5, <1>6, <1>7, <1>8

\* The steps of the answer, and the finalizer's.
LEMMA AnswerTyping ==
  ASSUME IInv, NEW c \in Chats,
         \/ StreamEnds(c) \/ StreamFails(c) \/ ErrorSent(c) \/ ClientLeaves(c)
         \/ CloseAbandoned(c) \/ CollectEnds(c) \/ CollectAnswers(c)
         \/ TestAnswers(c) \/ FinalizeRun(c) \/ Cancel(c)
  PROVE  Typing'
  <1> USE DEF PC, Leased, Goto
  <1>0. Typing
    BY DEF IInv
  <1>1. CASE StreamEnds(c)
    <2>1. outcome' \in [Chats -> Outcomes]
      BY <1>0, <1>1 DEF StreamEnds, Typing, Outcomes
    <2>2. QED BY <1>0, <1>1, <2>1, FinallyTyping DEF StreamEnds
  <1>2. CASE StreamFails(c)
    <2>1. records' \in [Chats -> Seq({"success", "error"})]
      BY <1>0, <1>2, RecordTyping DEF StreamFails, Typing
    <2>2. QED BY <1>0, <1>2, <2>1 DEF StreamFails, Typing, Outcomes
  <1>3. CASE ErrorSent(c)
    <2>1. outcome' \in [Chats -> Outcomes]
      BY <1>0, <1>3 DEF ErrorSent, Typing
    <2>2. QED BY <1>0, <1>3, <2>1, FinallyTyping DEF ErrorSent
  <1>4. CASE ClientLeaves(c)
    BY <1>0, <1>4 DEF ClientLeaves, Typing, Outcomes
  <1>5. CASE CloseAbandoned(c)
    <2>1. outcome' \in [Chats -> Outcomes]
      BY <1>0, <1>5 DEF CloseAbandoned, Typing
    <2>2. QED BY <1>0, <1>5, <2>1, FinallyTyping DEF CloseAbandoned
  <1>6. CASE CollectEnds(c)
    <2>1. Finalization(chain[c]) \in Seq(Calls)
      BY <1>0, ScriptParts DEF Typing, IsRest
    <2>2. QED BY <1>0, <1>6, <2>1 DEF CollectEnds, Typing, Outcomes
  <1>7. CASE CollectAnswers(c)
    <2>1. want' \subseteq Chats /\ holds' \in [Chats -> Slots \cup {NoSlot}]
      BY <1>0, <1>7, LeaseTyping DEF CollectAnswers
    <2>2. records' \in [Chats -> Seq({"success", "error"})]
      <3>1. CASE \E status \in {"success", "error"} : Record(c, status)
        BY <1>0, <3>1, RecordTyping
      <3>2. CASE records' = [records EXCEPT ![c] = @ \o <<"success", "error">>]
        <4>1. records[c] \o <<"success", "error">> \in Seq({"success", "error"})
          <5>1. <<"success", "error">> \in Seq({"success", "error"})
            OBVIOUS
          <5>2. records[c] \in Seq({"success", "error"})
            BY <1>0 DEF Typing
          <5>3. QED BY <5>1, <5>2, ConcatProperties
        <4>2. QED BY <1>0, <3>2, <4>1 DEF Typing
      <3>3. CASE UNCHANGED records
        BY <1>0, <3>3 DEF Typing
      <3>4. QED BY <1>7, <3>1, <3>2, <3>3 DEF CollectAnswers
    <2>3. outcome' \in [Chats -> Outcomes]
      BY <1>0, <1>7 DEF CollectAnswers, Typing, Outcomes
    <2>4. QED BY <1>0, <1>7, <2>1, <2>2, <2>3 DEF CollectAnswers, Typing
  <1>8. CASE TestAnswers(c)
    <2>1. want' \subseteq Chats /\ holds' \in [Chats -> Slots \cup {NoSlot}]
      BY <1>0, <1>8, LeaseTyping DEF TestAnswers
    <2>2. QED BY <1>0, <1>8, <2>1 DEF TestAnswers, Typing
  <1>9. CASE FinalizeRun(c)
    <2>1. todo[c] # <<>>
      BY <1>9 DEF FinalizeRun, IInv, Progress, PhaseOK
    <2>2. todo' \in [Chats -> Seq(Calls)] /\ failed' \subseteq Chats
      BY <1>0, <1>9, <2>1, CallTyping DEF FinalizeRun
    <2>3. QED BY <1>0, <1>9, <2>2 DEF FinalizeRun, Typing
  <1>10. CASE Cancel(c)
    <2>1. want' \subseteq Chats /\ holds' \in [Chats -> Slots \cup {NoSlot}]
      BY <1>0, <1>10, LeaseTyping DEF Cancel, leaseVars
    <2>2. todo' \in [Chats -> Seq(Calls)] /\ failed' \subseteq Chats
      <3>1. <<>> \in Seq(Calls)
        OBVIOUS
      <3>2. CASE todo' = [todo EXCEPT ![c] = <<>>] /\ failed' = failed \cup {c}
        BY <1>0, <3>1, <3>2 DEF Typing
      <3>3. CASE UNCHANGED <<todo, failed>>
        BY <1>0, <3>3 DEF Typing
      <3>4. QED BY <1>10, <3>2, <3>3 DEF Cancel
    <2>3. pc' \in [Chats -> PC] /\ fin' \in [Chats -> {"no", "pending", "over"}]
      BY <1>0, <1>10 DEF Cancel, Typing
    <2>4. outcome' \in [Chats -> Outcomes]
      BY <1>0, <1>10 DEF Cancel, Typing, Outcomes
    <2>5. QED BY <1>0, <1>10, <2>1, <2>2, <2>3, <2>4 DEF Cancel, Typing
  <1>11. QED BY <1>1, <1>2, <1>3, <1>4, <1>5, <1>6, <1>7, <1>8, <1>9, <1>10

-----------------------------------------------------------------------------
(* What a step leaves alone                                                *)

\* Nothing about chat d changes but its lease and the pool.
Untouched(d) ==
  /\ pool'[d] = pool[d] /\ pc'[d] = pc[d] /\ todo'[d] = todo[d] /\ fin'[d] = fin[d]
  /\ runs'[d] = runs[d] /\ outcome'[d] = outcome[d] /\ records'[d] = records[d]
  /\ d \in failed' <=> d \in failed

\* A step of one chat is about no other, and never about how it is answered.
LEMMA OthersUntouched ==
  ASSUME Typing, RunsOK, NEW c \in Chats, ChatStep(c)
  PROVE  kind' = kind /\ chain' = chain /\ \A d \in Chats : d # c => Untouched(d)
  <1> USE DEF Typing, Untouched, Goto, Record
  <1>0. ASSUME CallSucceeds(c) \/ CallFails(c)
        PROVE  \A d \in Chats : d # c =>
                 /\ todo'[d] = todo[d] /\ runs'[d] = runs[d]
                 /\ d \in failed' <=> d \in failed
    <2>1. ASSUME Effect(c, Head(todo[c])), NEW d \in Chats, d # c
          PROVE  runs'[d] = runs[d]
      BY <2>1 DEF Effect, RunsOK
    <2>2. QED BY <1>0, <2>1 DEF CallSucceeds, CallFails
  <1>1. CASE Arrive(c)
    BY <1>1 DEF Arrive
  <1>2. CASE Refuse(c)
    BY <1>2 DEF Refuse
  <1>3. CASE Answered(c)
    BY <1>3 DEF Answered
  <1>4. CASE SessionAcquired(c)
    BY <1>4 DEF SessionAcquired
  <1>5. CASE ChecksDone(c)
    BY <1>5 DEF ChecksDone
  <1>6. CASE PrepareRun(c)
    BY <1>0, <1>6 DEF PrepareRun
  <1>7. CASE SendChat(c)
    BY <1>7 DEF SendChat
  <1>8. CASE StreamEnds(c)
    BY <1>8 DEF StreamEnds, Finally
  <1>9. CASE StreamFails(c)
    BY <1>9 DEF StreamFails
  <1>10. CASE ErrorSent(c)
    BY <1>10 DEF ErrorSent, Finally
  <1>11. CASE ClientLeaves(c)
    BY <1>11 DEF ClientLeaves
  <1>12. CASE CloseAbandoned(c)
    BY <1>12 DEF CloseAbandoned, Finally
  <1>13. CASE CollectEnds(c)
    BY <1>13 DEF CollectEnds
  <1>14. CASE CollectAnswers(c)
    BY <1>14 DEF CollectAnswers
  <1>15. CASE TestAnswers(c)
    BY <1>15 DEF TestAnswers
  <1>16. CASE FinalizeRun(c)
    BY <1>0, <1>16 DEF FinalizeRun
  <1>17. CASE StartStream(c)
    BY <1>17 DEF StartStream
  <1>18. CASE Cancel(c)
    BY <1>18 DEF Cancel
  <1>19. QED
    BY <1>1, <1>2, <1>3, <1>4, <1>5, <1>6, <1>7, <1>8, <1>9, <1>10, <1>11, <1>12,
       <1>13, <1>14, <1>15, <1>16, <1>17, <1>18 DEF ChatStep, Proceed

-----------------------------------------------------------------------------
(* The lease                                                               *)

\* The steps at which a chat has an account.
Holding == Leased \cup {"lost"}

\* The three things a step of chat c may do about its lease: keep what it has,
\* begin with an account of its pool, and end without one.
Keeps(c) ==
  UNCHANGED holds /\ (pc'[c] \in Holding <=> pc[c] \in Holding)
  /\ (pool'[c] = pool[c] \/ pc'[c] \notin Holding)
Begins(c) ==
  \E p \in Pools : Borrow(c, p) /\ pool'[c] = p /\ pc'[c] \in Holding
Ends(c) ==
  Lease!Return(c) /\ pool'[c] = pool[c] /\ pc'[c] \notin Holding

LEMMA LeaseSteps ==
  ASSUME Typing, NEW c \in Chats, ChatStep(c)
  PROVE  Keeps(c) \/ Begins(c) \/ Ends(c)
  <1> USE DEF Typing, Goto, Leased, Holding
  <1>1. CASE Arrive(c)
    BY <1>1 DEF Arrive, Keeps, Begins, Lease!Ask
  <1>2. CASE Refuse(c)
    BY <1>2 DEF Refuse, Keeps
  <1>3. CASE Answered(c)
    BY <1>3 DEF Answered, Keeps, Begins, Lease!Refuse
  <1>4. CASE SessionAcquired(c)
    BY <1>4 DEF SessionAcquired, Keeps, Ends, leaseVars
  <1>5. CASE ChecksDone(c)
    BY <1>5 DEF ChecksDone, Keeps, Ends, leaseVars
  <1>6. CASE PrepareRun(c)
    BY <1>6 DEF PrepareRun, Keeps, Ends
  <1>7. CASE SendChat(c)
    BY <1>7 DEF SendChat, Keeps
  <1>8. CASE StreamEnds(c) \/ ErrorSent(c) \/ CloseAbandoned(c)
    BY <1>8 DEF StreamEnds, ErrorSent, CloseAbandoned, Finally, Ends
  <1>9. CASE StreamFails(c) \/ ClientLeaves(c) \/ CollectEnds(c)
    BY <1>9 DEF StreamFails, ClientLeaves, CollectEnds, Keeps
  <1>10. CASE CollectAnswers(c) \/ TestAnswers(c)
    BY <1>10 DEF CollectAnswers, TestAnswers, Ends
  <1>11. CASE FinalizeRun(c)
    BY <1>11 DEF FinalizeRun, Keeps
  <1>12. CASE StartStream(c)
    BY <1>12 DEF StartStream, Keeps
  <1>13. CASE Cancel(c)
    BY <1>13 DEF Cancel, Keeps, Ends, Lease!Refuse, leaseVars
  <1>14. QED
    BY <1>1, <1>2, <1>3, <1>4, <1>5, <1>6, <1>7, <1>8, <1>9, <1>10, <1>11, <1>12, <1>13
    DEF ChatStep, Proceed

\* So the lease covers the chat.
LEMMA LeaseKept ==
  ASSUME Typing, RunsOK, LeaseCoversChat, NEW c \in Chats, ChatStep(c)
  PROVE  LeaseCoversChat'
  <1>1. \A d \in Chats : d # c => pc'[d] = pc[d] /\ pool'[d] = pool[d]
    BY OthersUntouched DEF Untouched
  <1>2. CASE Keeps(c)
    BY <1>1, <1>2 DEF Keeps, LeaseCoversChat, Holding
  <1>3. CASE Begins(c)
    <2>1. PICK p \in Pools, a \in Accounts :
            Lease!Grant(c, <<p, a>>) /\ pool'[c] = p /\ pc'[c] \in Holding
      BY <1>3 DEF Begins, Borrow
    <2>2. /\ <<p, a>> # NoSlot /\ <<p, a>>[1] = p
          /\ holds'[c] = <<p, a>> /\ \A d \in Chats : holds[d] # <<p, a>>
          /\ \A d \in Chats : d # c => holds'[d] = holds[d]
      BY <2>1 DEF Lease!Grant, NoSlot, Typing
    <2>3. QED BY <1>1, <2>1, <2>2 DEF LeaseCoversChat, Holding
  <1>4. CASE Ends(c)
    <2>1. holds'[c] = NoSlot /\ \A d \in Chats : d # c => holds'[d] = holds[d]
      BY <1>4 DEF Ends, Lease!Return, Typing
    <2>2. QED BY <1>1, <1>4, <2>1 DEF Ends, LeaseCoversChat, Holding
  <1>5. QED BY <1>2, <1>3, <1>4, LeaseSteps

-----------------------------------------------------------------------------
(* The runs                                                                *)

\* Whatever part of the script was played, the runs are well typed.
LEMMA AtType ==
  ASSUME NEW ch \in Chains, NEW n \in 0 .. Total(ch)
  PROVE  At(ch, n) \in [root : Run, kid : Run]
  <1>1. /\ <<>> \in Seq(1 .. 2) /\ <<1>> \in Seq(1 .. 2) /\ <<1, 2>> \in Seq(1 .. 2)
    OBVIOUS
  <1>2. RootAt(ch, n) \in Run
    BY <1>1 DEF RootAt, ARun, Run
  <1>3. KidAt(n) \in Run
    BY <1>1 DEF KidAt, ARun, Run
  <1>4. QED BY <1>2, <1>3 DEF At

\* A call plays the next line of the script, or fails, with or without effect.
LEMMA CallPlays ==
  ASSUME Typing, RunsOK, NEW c \in Chats, NEW n \in Nat, NEW m \in 0 .. Total(chain[c]),
         runs[c] = At(chain[c], n), IsRest(todo[c], chain[c], n, m), todo[c] # <<>>
  PROVE  /\ n + 1 \in 0 .. m
         /\ CallSucceeds(c) => /\ runs'[c] = At(chain[c], n + 1)
                               /\ IsRest(todo'[c], chain[c], n + 1, m)
                               /\ todo'[c] = <<>> <=> n + 1 = m
                               /\ c \in failed' <=> c \in failed
         /\ CallFails(c) => /\ runs'[c] = At(chain[c], n) \/ runs'[c] = At(chain[c], n + 1)
                            /\ todo'[c] = <<>> /\ c \in failed'
         /\ CallSucceeds(c) \/ CallFails(c) => runs' = [runs EXCEPT ![c] = runs'[c]]
  <1> DEFINE call == Head(todo[c])
  <1>0. chain[c] \in Chains /\ m \in Nat /\ n + 1 \in Nat
    BY DEF Typing, Total
  <1>1. /\ n < m /\ call = Script(chain[c])[n + 1]
        /\ IsRest(Tail(todo[c]), chain[c], n + 1, m)
    <2> DEFINE s == todo[c]
    <2>1. IsRest(s, chain[c], n, m) /\ s # <<>>
      OBVIOUS
    <2> HIDE DEF s
    <2>2. n < m /\ Head(s) = Script(chain[c])[n + 1] /\ IsRest(Tail(s), chain[c], n + 1, m)
      BY <1>0, <2>1, RestSteps
    <2>3. QED BY <2>2 DEF s
  <1>2. n \in 0 .. Total(chain[c]) - 1
    BY <1>0, <1>1 DEF Total
  <1>3. ASSUME Effect(c, call)
        PROVE  runs'[c] = At(chain[c], n + 1) /\ runs' = [runs EXCEPT ![c] = runs'[c]]
    <2>1. runs' = [runs EXCEPT ![c] = [At(chain[c], n) EXCEPT ![call.run] = Applied(@, call)]]
      BY <1>3 DEF Effect, RunsOK
    <2>2. [At(chain[c], n) EXCEPT ![call.run] = Applied(@, call)] = At(chain[c], n + 1)
      BY <1>0, <1>1, <1>2, CallAdvances DEF At
    <2>3. QED BY <2>1, <2>2 DEF RunsOK
  <1>4. ASSUME CallSucceeds(c)
        PROVE  /\ runs'[c] = At(chain[c], n + 1)
               /\ IsRest(todo'[c], chain[c], n + 1, m)
               /\ todo'[c] = <<>> <=> n + 1 = m
               /\ c \in failed' <=> c \in failed
    <2>1. todo'[c] = Tail(todo[c])
      BY <1>4 DEF CallSucceeds, Typing
    <2>2. todo'[c] = <<>> <=> n + 1 = m
      <3>1. IsRest(todo'[c], chain[c], n + 1, m)
        BY <1>1, <2>1
      <3>2. todo'[c] \in Seq(Calls) /\ Len(todo'[c]) = m - (n + 1)
        BY <3>1 DEF IsRest
      <3>3. QED BY <1>0, <3>2
    <2>3. QED BY <1>1, <1>3, <1>4, <2>1, <2>2 DEF CallSucceeds
  <1>5. ASSUME CallFails(c)
        PROVE  /\ runs'[c] = At(chain[c], n) \/ runs'[c] = At(chain[c], n + 1)
               /\ todo'[c] = <<>> /\ c \in failed'
    BY <1>3, <1>5 DEF CallFails, Typing
  <1>6. CallSucceeds(c) \/ CallFails(c) => runs' = [runs EXCEPT ![c] = runs'[c]]
    <2>1. UNCHANGED runs => runs' = [runs EXCEPT ![c] = runs'[c]]
      BY DEF RunsOK
    <2>2. QED BY <1>3, <2>1 DEF CallSucceeds, CallFails
  <1>7. QED BY <1>1, <1>4, <1>5, <1>6


\* Chat c goes on in the script; its runs are what was played.
LEMMA ProgressKept ==
  ASSUME IInv, NEW c \in Chats, ChatStep(c)
  PROVE  Progress(c)' /\ RunsOK'
  <1>0. Typing /\ RunsOK /\ Progress(c) /\ RecordsOK(c) /\ chain[c] \in Chains
    BY DEF IInv, Typing
  <1>1. PICK n \in 0 .. Total(chain[c]) : runs[c] = At(chain[c], n) /\ PhaseOK(c, n)
    BY <1>0 DEF Progress
  <1>2. chain' = chain
    BY <1>0, OthersUntouched
  <1>3. ASSUME NEW k \in 0 .. Total(chain[c]), runs'[c] = At(chain[c], k),
               runs' = [runs EXCEPT ![c] = runs'[c]], PhaseOK(c, k)'
        PROVE  Progress(c)' /\ RunsOK'
    <2>1. Progress(c)'
      BY <1>2, <1>3 DEF Progress
    <2>2. runs'[c] \in [root : Run, kid : Run]
      BY <1>0, <1>3, AtType
    <2>3. QED BY <1>0, <1>3, <2>1, <2>2 DEF RunsOK
  <1>4. UNCHANGED runs => runs' = [runs EXCEPT ![c] = runs'[c]]
    BY <1>0 DEF RunsOK
  <1>5. ASSUME UNCHANGED runs, PhaseOK(c, n)'
        PROVE  Progress(c)' /\ RunsOK'
    BY <1>1, <1>3, <1>4, <1>5
  <1>6. /\ Prepared(chain[c]) \in 1 .. 5 /\ Total(chain[c]) \in 6 .. 7
        /\ Prepared(chain[c]) < Total(chain[c])
    BY DEF Prepared, Total
  <1>7. CASE Arrive(c) \/ Refuse(c) \/ Answered(c) \/ SessionAcquired(c)
    BY <1>0, <1>1, <1>5, <1>7
    DEF Arrive, Refuse, Answered, SessionAcquired, Goto, PhaseOK, Typing
  <1>8. CASE ChecksDone(c)
    <2>1. n = 0 /\ fin[c] = "no" /\ c \notin failed /\ todo[c] = <<>>
      BY <1>1, <1>8 DEF ChecksDone, PhaseOK
    <2>2. IsRest(Preparation(chain[c]), chain[c], 0, Prepared(chain[c]))
      BY <1>0, ScriptParts
    <2>3. PhaseOK(c, n)'
      BY <1>0, <1>2, <1>6, <1>8, <2>1, <2>2 DEF ChecksDone, Goto, PhaseOK, Typing
    <2>4. QED BY <1>5, <1>8, <2>3 DEF ChecksDone
  <1>9. CASE PrepareRun(c)
    <2>1. /\ n <= Prepared(chain[c]) /\ fin[c] = "no" /\ c \notin failed
          /\ IsRest(todo[c], chain[c], n, Prepared(chain[c])) /\ todo[c] # <<>>
      BY <1>1, <1>9 DEF PrepareRun, PhaseOK
    <2>2. n \in Nat /\ Prepared(chain[c]) \in 0 .. Total(chain[c])
      BY <1>6
    <2>3. CASE CallSucceeds(c) /\ UNCHANGED pc
      <3>1. /\ n + 1 \in 0 .. Prepared(chain[c]) /\ runs'[c] = At(chain[c], n + 1)
            /\ IsRest(todo'[c], chain[c], n + 1, Prepared(chain[c])) /\ c \notin failed'
            /\ runs' = [runs EXCEPT ![c] = runs'[c]]
        BY <1>0, <1>1, <2>1, <2>2, <2>3, CallPlays
      <3>2. PhaseOK(c, n + 1)'
        BY <1>2, <1>9, <2>1, <2>3, <3>1 DEF PrepareRun, PhaseOK
      <3>3. n + 1 \in 0 .. Total(chain[c])
        BY <1>6, <3>1
      <3>4. QED BY <1>3, <3>1, <3>2, <3>3
    <2>4. CASE CallFails(c) /\ Goto(c, "over")
      <3>1. PICK k \in {n, n + 1} : runs'[c] = At(chain[c], k)
        BY <1>0, <1>1, <2>1, <2>2, <2>4, CallPlays
      <3>2. /\ n + 1 \in 0 .. Prepared(chain[c]) /\ todo'[c] = <<>> /\ c \in failed'
            /\ runs' = [runs EXCEPT ![c] = runs'[c]]
        BY <1>0, <1>1, <2>1, <2>2, <2>4, CallPlays
      <3>3. pc'[c] = "over" /\ fin'[c] = "no"
        BY <1>0, <1>9, <2>1, <2>4 DEF PrepareRun, Goto, Typing
      <3>4. PhaseOK(c, k)'
        BY <3>2, <3>3 DEF PhaseOK
      <3>5. k \in 0 .. Total(chain[c])
        BY <1>6, <2>2, <3>1, <3>2
      <3>6. QED BY <1>3, <3>1, <3>2, <3>4, <3>5
    <2>5. QED BY <1>9, <2>3, <2>4 DEF PrepareRun
  <1>10. CASE SendChat(c)
    <2>1. n = Prepared(chain[c]) /\ fin[c] = "no" /\ c \notin failed
      BY <1>1, <1>6, <1>10 DEF SendChat, PhaseOK, IsRest
    <2>2. pc'[c] \in {"collecting", "starting"}
      BY <1>0, <1>10 DEF SendChat, Goto, Typing
    <2>3. PhaseOK(c, n)'
      BY <1>2, <1>10, <2>1, <2>2 DEF SendChat, PhaseOK
    <2>4. QED BY <1>5, <1>10, <2>3 DEF SendChat
  <1>11. CASE StartStream(c) \/ StreamFails(c) \/ ClientLeaves(c)
    BY <1>0, <1>1, <1>5, <1>11
    DEF StartStream, StreamFails, ClientLeaves, Goto, PhaseOK, Typing
  <1>12. CASE StreamEnds(c) \/ ErrorSent(c) \/ CloseAbandoned(c) \/ CollectEnds(c)
    <2>1. n = Prepared(chain[c]) /\ fin[c] = "no" /\ c \notin failed
      BY <1>1, <1>12 DEF StreamEnds, ErrorSent, CloseAbandoned, CollectEnds, PhaseOK
    <2>2. /\ fin'[c] = "pending" /\ todo'[c] = Finalization(chain[c])
          /\ pc'[c] \in {"over", "closing"} /\ c \notin failed' /\ UNCHANGED runs
      BY <1>0, <1>12, <2>1
      DEF StreamEnds, ErrorSent, CloseAbandoned, CollectEnds, Finally, Goto, Typing
    <2>3. IsRest(todo'[c], chain[c], n, Total(chain[c]))
      BY <1>0, <2>1, <2>2, ScriptParts
    <2>4. todo'[c] # <<>>
      BY <1>6, <2>1, <2>3 DEF IsRest
    <2>5. PhaseOK(c, n)'
      BY <1>2, <1>6, <2>1, <2>2, <2>3, <2>4 DEF PhaseOK
    <2>6. QED BY <1>5, <2>2, <2>5
  <1>13. CASE CollectAnswers(c) \/ TestAnswers(c)
    BY <1>0, <1>1, <1>5, <1>13 DEF CollectAnswers, TestAnswers, Goto, PhaseOK, Typing
  <1>14. CASE FinalizeRun(c)
    <2>1. /\ n >= Prepared(chain[c]) /\ c \notin failed /\ todo[c] # <<>>
          /\ IsRest(todo[c], chain[c], n, Total(chain[c]))
          /\ pc[c] \in {"closing", "over"}
      BY <1>0, <1>1, <1>14 DEF FinalizeRun, PhaseOK, Typing, PC, Leased
    <2>2. n \in Nat /\ Total(chain[c]) \in 0 .. Total(chain[c])
      BY <1>6
    <2>3. pc' = pc /\ fin'[c] = IF todo'[c] = <<>> THEN "over" ELSE "pending"
      BY <1>0, <1>14 DEF FinalizeRun, Typing
    <2>4. CASE CallSucceeds(c)
      <3>1. /\ n + 1 \in 0 .. Total(chain[c]) /\ runs'[c] = At(chain[c], n + 1)
            /\ IsRest(todo'[c], chain[c], n + 1, Total(chain[c])) /\ c \notin failed'
            /\ todo'[c] = <<>> <=> n + 1 = Total(chain[c])
            /\ runs' = [runs EXCEPT ![c] = runs'[c]]
        BY <1>0, <1>1, <2>1, <2>2, <2>4, CallPlays
      <3>2. PhaseOK(c, n + 1)'
        BY <1>2, <1>6, <2>1, <2>2, <2>3, <3>1 DEF PhaseOK
      <3>3. QED BY <1>3, <3>1, <3>2
    <2>5. CASE CallFails(c)
      <3>1. PICK k \in {n, n + 1} : runs'[c] = At(chain[c], k)
        BY <1>0, <1>1, <2>1, <2>2, <2>5, CallPlays
      <3>2. /\ n + 1 \in 0 .. Total(chain[c]) /\ todo'[c] = <<>> /\ c \in failed'
            /\ runs' = [runs EXCEPT ![c] = runs'[c]]
        BY <1>0, <1>1, <2>1, <2>2, <2>5, CallPlays
      <3>3. PhaseOK(c, k)'
        BY <2>1, <2>3, <3>2 DEF PhaseOK
      <3>4. QED BY <1>3, <2>2, <3>1, <3>2, <3>3
    <2>6. QED BY <1>14, <2>4, <2>5 DEF FinalizeRun
  <1>15. CASE Cancel(c)
    <2>1. CASE pc[c] = "waiting" /\ Goto(c, "over") /\ UNCHANGED <<chain, todo, fin, runs, failed>>
      BY <1>0, <1>1, <1>5, <2>1 DEF Goto, PhaseOK, Typing
    <2>2. CASE /\ pc[c] \in {"acquiring", "checks", "chain"}
               /\ Goto(c, "over") \/ Goto(c, "lost")
               /\ todo' = [todo EXCEPT ![c] = <<>>]
               /\ failed' = failed \cup {c}
               /\ UNCHANGED <<chain, fin, runs>>
      <3>1. fin[c] = "no"
        BY <1>1, <2>2 DEF PhaseOK
      <3>2. /\ pc'[c] \in {"over", "lost"} /\ fin'[c] = "no" /\ c \in failed'
            /\ todo'[c] = <<>>
        BY <1>0, <2>2, <3>1 DEF Goto, Typing
      <3>3. PhaseOK(c, n)'
        BY <3>2 DEF PhaseOK
      <3>4. QED BY <1>5, <2>2, <3>3
    <2>3. CASE /\ fin[c] = "pending"
               /\ fin' = [fin EXCEPT ![c] = "over"]
               /\ todo' = [todo EXCEPT ![c] = <<>>]
               /\ failed' = failed \cup {c}
               /\ UNCHANGED <<pc, chain, runs>>
      <3>1. pc[c] \in {"closing", "over"}
        BY <1>0, <1>1, <2>3 DEF PhaseOK, Typing, PC, Leased
      <3>2. /\ pc'[c] \in {"closing", "over"} /\ fin'[c] = "over" /\ c \in failed'
            /\ todo'[c] = <<>>
        BY <1>0, <2>3, <3>1 DEF Typing
      <3>3. PhaseOK(c, n)'
        BY <3>2 DEF PhaseOK
      <3>4. QED BY <1>5, <2>3, <3>3
    <2>4. QED BY <1>15, <2>1, <2>2, <2>3 DEF Cancel
  <1>16. QED
    BY <1>7, <1>8, <1>9, <1>10, <1>11, <1>12, <1>13, <1>14, <1>15 DEF ChatStep, Proceed

-----------------------------------------------------------------------------
(* The records                                                             *)

\* The finally block records a chat that is not recorded yet.
LEMMA FinallyRecordsOnce ==
  ASSUME Typing, NEW c \in Chats, Finally(c), outcome'[c] \notin {"open", "cancelled"},
         kind[c] \in {"openai", "anthropic"}, kind' = kind,
         FinallyRecords(c) => records[c] = <<>>,
         ~FinallyRecords(c) => records[c] = <<"error">>,
         outcome[c] = "open" \/ outcome'[c] = outcome[c],
         outcome'[c] = "failed" => outcome[c] = "failed"
  PROVE  RecordsOK(c)'
  <1>1. pc'[c] = "over"
    BY DEF Finally, Goto, Typing
  <1>2. CASE FinallyRecords(c)
    <2>1. records'[c] = <<"success">>
      BY <1>2 DEF Finally, Record, Typing
    <2>2. kind[c] = "openai" => outcome'[c] # "failed"
      BY <1>2 DEF FinallyRecords
    <2>3. QED BY <1>1, <2>1, <2>2 DEF RecordsOK
  <1>3. CASE ~FinallyRecords(c)
    <2>1. records'[c] = <<"error">> /\ kind[c] = "openai" /\ outcome[c] = "failed"
      BY <1>3 DEF Finally, FinallyRecords
    <2>2. QED BY <1>1, <2>1 DEF RecordsOK
  <1>4. QED BY <1>2, <1>3

\* Every step of a chat keeps to its records.
LEMMA RecordsKept ==
  ASSUME IInv, NEW c \in Chats, ChatStep(c)
  PROVE  RecordsOK(c)'
  <1>0. Typing /\ RunsOK /\ RecordsOK(c) /\ Progress(c)
    BY DEF IInv
  <1>1. kind' = kind /\ kind[c] \in Kinds
    BY <1>0, OthersUntouched DEF Typing
  <1>2. CASE Arrive(c) \/ Refuse(c) \/ Answered(c) \/ SessionAcquired(c) \/ ChecksDone(c)
             \/ PrepareRun(c) \/ SendChat(c)
    <2>1. /\ outcome' = outcome /\ records' = records
          /\ pc[c] \in {"new", "waiting", "acquiring", "checks", "chain"}
      BY <1>2 DEF Arrive, Refuse, Answered, SessionAcquired, ChecksDone, PrepareRun, SendChat
    <2>2. outcome[c] = "open" /\ records[c] = <<>>
      BY <1>0, <2>1 DEF RecordsOK
    <2>3. \/ pc'[c] \in {"waiting", "acquiring", "checks", "chain", "over"}
          \/ pc'[c] = "collecting" /\ kind[c] \in {"collect", "test"}
          \/ pc'[c] = "starting" /\ kind[c] \in {"openai", "anthropic"}
      BY <1>0, <1>1, <1>2
      DEF Arrive, Refuse, Answered, SessionAcquired, ChecksDone, PrepareRun, SendChat,
          Goto, Typing, Kinds
    <2>4. QED BY <1>1, <2>1, <2>2, <2>3 DEF RecordsOK
  <1>3. CASE StreamEnds(c)
    <2>1. /\ outcome[c] = "open" /\ records[c] = <<>> /\ kind[c] \in {"openai", "anthropic"}
          /\ outcome'[c] \in {"ok", "broken", "left"}
      BY <1>0, <1>3 DEF StreamEnds, RecordsOK, Typing
    <2>2. FinallyRecords(c)
      BY <2>1 DEF FinallyRecords
    <2>3. QED BY <1>0, <1>1, <1>3, <2>1, <2>2, FinallyRecordsOnce DEF StreamEnds
  <1>4. CASE StreamFails(c)
    <2>1. /\ records[c] = <<>> /\ kind[c] \in {"openai", "anthropic"}
          /\ outcome'[c] = "failed" /\ pc'[c] = "erroring"
      BY <1>0, <1>4 DEF StreamFails, RecordsOK, Goto, Typing
    <2>2. records'[c] = IF kind[c] = "openai" THEN <<"error">> ELSE <<>>
      BY <1>0, <1>4, <2>1 DEF StreamFails, Record, Typing
    <2>3. QED BY <1>1, <2>1, <2>2 DEF RecordsOK
  <1>5. CASE ErrorSent(c) \/ CloseAbandoned(c)
    <2>1. /\ outcome[c] \in {"failed", "left"} /\ kind[c] \in {"openai", "anthropic"} /\ Finally(c)
          /\ records[c] = IF kind[c] = "openai" /\ outcome[c] = "failed" THEN <<"error">> ELSE <<>>
          /\ outcome' = outcome
      BY <1>0, <1>5 DEF ErrorSent, CloseAbandoned, RecordsOK
    <2>2. /\ FinallyRecords(c) => records[c] = <<>>
          /\ ~FinallyRecords(c) => records[c] = <<"error">>
      BY <2>1 DEF FinallyRecords
    <2>3. QED BY <1>0, <1>1, <2>1, <2>2, FinallyRecordsOnce
  <1>6. CASE ClientLeaves(c) /\ pc[c] # "starting"
    <2>1. /\ kind[c] \in {"openai", "anthropic"} /\ pc'[c] = "abandoned" /\ records' = records
          /\ outcome'[c] = IF outcome[c] = "open" THEN "left" ELSE outcome[c]
      BY <1>0, <1>6 DEF ClientLeaves, RecordsOK, Goto, Typing
    <2>2. \/ outcome[c] = "open" /\ records[c] = <<>>
          \/ /\ outcome[c] = "failed"
             /\ records[c] = IF kind[c] = "openai" THEN <<"error">> ELSE <<>>
      BY <1>0, <1>6 DEF ClientLeaves, RecordsOK
    <2>3. QED BY <1>1, <2>1, <2>2 DEF RecordsOK
  <1>7. CASE CollectEnds(c)
    BY <1>0, <1>1, <1>7 DEF CollectEnds, RecordsOK, Goto, Typing
  <1>8. CASE CollectAnswers(c)
    <2>1. /\ records[c] = <<>> /\ kind[c] = "collect" /\ pc'[c] = "over"
          /\ outcome[c] \in {"ok", "failed", "broken", "cancelled"}
      BY <1>0, <1>8 DEF CollectAnswers, RecordsOK, Goto, Typing
    <2>2. CASE /\ outcome[c] # "cancelled" /\ UNCHANGED outcome
               /\ Record(c, IF outcome[c] = "ok" THEN "success" ELSE "error")
      <3>1. records'[c] = IF outcome[c] = "ok" THEN <<"success">> ELSE <<"error">>
        BY <1>0, <2>1, <2>2 DEF Record, Typing
      <3>2. QED BY <1>1, <2>1, <2>2, <3>1 DEF RecordsOK
    <2>3. CASE /\ records' = [records EXCEPT ![c] = @ \o <<"success", "error">>]
               /\ outcome' = [outcome EXCEPT ![c] = "unsent"]
      <3>1. outcome'[c] = "unsent" /\ records'[c] = <<>> \o <<"success", "error">>
        BY <1>0, <2>1, <2>3 DEF Typing
      <3>2. <<>> \o <<"success", "error">> = <<"success", "error">>
        <4>1. <<"success", "error">> \in Seq({"success", "error"})
          OBVIOUS
        <4>2. QED BY <4>1, ConcatEmptySeq
      <3>3. <<"success", "error">> # <<>>
        OBVIOUS
      <3>4. QED BY <1>1, <2>1, <3>1, <3>2, <3>3 DEF RecordsOK
    <2>4. CASE outcome[c] = "cancelled" /\ UNCHANGED <<records, outcome>>
      BY <1>1, <2>1, <2>4 DEF RecordsOK
    <2>5. QED BY <1>8, <2>2, <2>3, <2>4 DEF CollectAnswers
  <1>9. CASE TestAnswers(c)
    BY <1>0, <1>1, <1>9 DEF TestAnswers, RecordsOK, Goto, Typing
  <1>10. CASE FinalizeRun(c)
    <2>1. UNCHANGED <<pc, outcome, records>>
      BY <1>10 DEF FinalizeRun
    <2>2. QED BY <1>0, <1>1, <2>1 DEF RecordsOK
  <1>11. CASE StartStream(c) \/ (ClientLeaves(c) /\ pc[c] = "starting")
    <2>1. /\ pc[c] = "starting" /\ pc'[c] \in {"streaming", "lost"}
          /\ UNCHANGED <<outcome, records>>
      BY <1>0, <1>11 DEF StartStream, ClientLeaves, Goto, Typing
    <2>2. QED BY <1>0, <1>1, <2>1 DEF RecordsOK
  <1>12. CASE Cancel(c)
    <2>1. CASE /\ pc[c] \in {"waiting", "acquiring", "checks", "chain"}
               /\ pc'[c] \in {"over", "lost"} /\ UNCHANGED <<outcome, records>>
      BY <1>0, <1>1, <2>1 DEF RecordsOK
    <2>2. CASE /\ fin[c] = "pending" /\ UNCHANGED <<pc, records>>
               /\ outcome' = [outcome EXCEPT ![c] = IF pc[c] = "closing" THEN "cancelled" ELSE @]
      <3>1. pc[c] \in {"closing", "over"}
        BY <1>0, <2>2 DEF Progress, PhaseOK, Typing, PC, Leased
      <3>2. outcome'[c] = IF pc[c] = "closing" THEN "cancelled" ELSE outcome[c]
        BY <1>0, <2>2 DEF Typing
      <3>3. QED BY <1>0, <1>1, <2>2, <3>1, <3>2 DEF RecordsOK
    <2>3. QED BY <1>0, <1>12, <2>1, <2>2 DEF Cancel, Goto, Typing
  <1>13. QED
    BY <1>2, <1>3, <1>4, <1>5, <1>6, <1>7, <1>8, <1>9, <1>10, <1>11, <1>12
    DEF ChatStep, Proceed

-----------------------------------------------------------------------------
(* The invariant holds                                                     *)

LEMMA InitIInv == Init => IInv
  <1> SUFFICES ASSUME Init PROVE IInv
    OBVIOUS
  <1>1. /\ \A c \in Chats : pc[c] = "new" /\ todo[c] = <<>> /\ fin[c] = "no"
        /\ failed = {} /\ chain \in [Chats -> Chains]
    BY DEF Init
  <1>2. Typing
    <2>1. NoSlot \in Slots \cup {NoSlot} /\ 0 \in Pools /\ <<>> \in Seq(Calls)
          /\ <<>> \in Seq({"success", "error"})
      BY MaxPoolAssumption DEF Pools
    <2>2. QED BY <2>1 DEF Init, Lease!Init, Typing, PC, Leased, Outcomes
  <1>3. NewRun = RootAt("pruner", 0) /\ NewRun = RootAt("child", 0) /\ NewRun = KidAt(0)
    BY DEF NewRun, RootAt, KidAt, ARun
  <1>4. ASSUME NEW c \in Chats PROVE Progress(c)
    <2>1. runs[c] = At(chain[c], 0)
      BY <1>1, <1>3 DEF Init, At, Chains
    <2>2. PhaseOK(c, 0)
      BY <1>1 DEF PhaseOK
    <2>3. 0 \in 0 .. Total(chain[c])
      BY DEF Total
    <2>4. QED BY <2>1, <2>2, <2>3 DEF Progress
  <1>5. RunsOK
    <2>1. NewRun \in Run
      BY DEF NewRun, Run
    <2>2. QED BY <2>1 DEF Init, RunsOK
  <1>6. LeaseCoversChat
    BY DEF Init, Lease!Init, LeaseCoversChat, Leased
  <1>7. ASSUME NEW c \in Chats PROVE RecordsOK(c)
    BY DEF Init, RecordsOK
  <1>8. QED BY <1>2, <1>4, <1>5, <1>6, <1>7 DEF IInv

\* A step of a chat keeps the invariant.
LEMMA ChatStepKeeps ==
  ASSUME IInv, NEW c \in Chats, ChatStep(c)
  PROVE  IInv'
  <1>1. Typing'
    BY OpeningTyping, AnswerTyping DEF IInv, ChatStep, Proceed
  <1>2. RunsOK' /\ Progress(c)'
    BY ProgressKept
  <1>3. LeaseCoversChat'
    BY LeaseKept DEF IInv
  <1>4. RecordsOK(c)'
    BY RecordsKept
  <1>5. ASSUME NEW d \in Chats, d # c PROVE Progress(d)' /\ RecordsOK(d)'
    <2>1. kind' = kind /\ chain' = chain /\ Untouched(d)
      BY <1>5, OthersUntouched DEF IInv
    <2>2. RecordsOK(d)'
      BY <2>1 DEF IInv, RecordsOK, Untouched
    <2>3. PICK n \in 0 .. Total(chain[d]) : runs[d] = At(chain[d], n) /\ PhaseOK(d, n)
      BY DEF IInv, Progress
    <2>4. PhaseOK(d, n)'
      BY <2>1, <2>3 DEF PhaseOK, Untouched
    <2>5. QED BY <2>1, <2>2, <2>3, <2>4 DEF Progress, Untouched
  <1>6. QED BY <1>1, <1>2, <1>3, <1>4, <1>5 DEF IInv

\* So does every step.
LEMMA NextKeepsIInv == IInv /\ [Next]_vars => IInv'
  <1> SUFFICES ASSUME IInv, [Next]_vars PROVE IInv'
    OBVIOUS
  <1>1. CASE \E c \in Chats : ChatStep(c)
    BY <1>1, ChatStepKeeps
  <1>2. ASSUME UNCHANGED <<want, holds, pool, kind, chain, pc, todo, fin, runs, failed,
                           outcome, records>>,
               current' \in Pools
        PROVE  IInv'
    BY <1>2 DEF IInv, Typing, RunsOK, LeaseCoversChat, Progress, PhaseOK, RecordsOK
  <1>3. CASE ReplacePool
    <2>1. current' \in Pools
      BY <1>3, MaxPoolAssumption DEF ReplacePool, Pools, IInv, Typing
    <2>2. QED BY <1>2, <1>3, <2>1 DEF ReplacePool
  <1>4. CASE UNCHANGED vars
    BY <1>2, <1>4 DEF vars, IInv, Typing
  <1>5. QED BY <1>1, <1>3, <1>4 DEF Next, ChatStep

LEMMA Invariance == Spec => []IInv
  <1>1. Init => IInv
    BY InitIInv
  <1>2. IInv /\ [Next]_vars => IInv'
    BY NextKeepsIInv
  <1>3. QED BY <1>1, <1>2, PTL DEF Spec, SafeSpec

-----------------------------------------------------------------------------
(* What follows                                                            *)

\* The variables have their types: in particular no chat ever has more than the
\* five calls of a preparation to make.
THEOREM TypeCorrect == Spec => []TypeOK
  <1>1. IInv => TypeOK
    <2> SUFFICES ASSUME IInv PROVE TypeOK
      OBVIOUS
    <2>1. ASSUME NEW c \in Chats PROVE Len(todo[c]) <= 5
      <3>1. PICK n \in 0 .. Total(chain[c]) : PhaseOK(c, n)
        BY DEF IInv, Progress
      <3>2. CASE pc[c] = "chain"
        BY <3>1, <3>2 DEF PhaseOK, IsRest, Prepared, Total
      <3>3. CASE fin[c] = "pending"
        BY <3>1, <3>3 DEF PhaseOK, IsRest, Prepared, Total
      <3>4. CASE pc[c] # "chain" /\ fin[c] # "pending"
        BY <3>1, <3>4 DEF PhaseOK
      <3>5. QED BY <3>2, <3>3, <3>4
    <2>2. \A c \in Chats : runs[c].root \in Run /\ runs[c].kid \in Run
      BY DEF IInv, RunsOK
    <2>3. QED BY <2>1, <2>2 DEF IInv, Typing, TypeOK
  <1>2. QED BY <1>1, Invariance, PTL

\* A chat has an account of the pool it asked, and has it alone, exactly while
\* its handler or generator runs, or when it was lost: no error and no replaced
\* pool keeps a lease, and no client that leaves a stream that has begun; a
\* client that leaves before the generator's first step does, and so does a
\* task that is cancelled while it prepares the chat.
THEOREM LeaseCovers == Spec => []LeaseCoversChat
  <1>1. IInv => LeaseCoversChat
    BY DEF IInv
  <1>2. QED BY <1>1, Invariance, PTL

\* Whatever part of the script was played, what the service was told of the two
\* runs is a proper history.
LEMMA HistoryAt ==
  ASSUME NEW ch \in Chains, NEW n \in 0 .. Total(ch)
  PROVE  /\ RootAt(ch, n).state # "none" <=> n > 0
         /\ KidAt(n).state # "none" => n > 0
         /\ RootAt(ch, n).state = "open" => 0 < n /\ n < Total(ch)
         /\ KidAt(n).state = "open" => 0 < n /\ n < Total(ch)
         /\ RootAt(ch, n).names \/ RootAt(ch, n).state = "finished" =>
              KidAt(n).state = "finished"
         /\ n = Total(ch) => RootAt(ch, n).state = "finished"
  BY DEF RootAt, KidAt, ARun, Total

LEMMA StepsAt ==
  ASSUME NEW ch \in Chains, NEW n \in 0 .. Total(ch),
         NEW run, run \in {RootAt(ch, n), KidAt(n)}
  PROVE  /\ run.steps = [i \in 1 .. Len(run.steps) |-> i]
         /\ run.steps # <<>> => run.state # "none"
         /\ run.state = "finished" => run.total = Len(run.steps) + 1
  <1>1. CASE run.steps = <<>> /\ run.state # "finished"
    BY <1>1
  <1>2. CASE run.steps = <<1>> /\ run.state # "none" /\ (run.state = "finished" => run.total = 2)
    <2>1. <<1>> = [i \in 1 .. 1 |-> i] /\ Len(<<1>>) = 1
      OBVIOUS
    <2>2. QED BY <1>2, <2>1
  <1>3. CASE run.steps = <<1, 2>> /\ run.state # "none" /\ (run.state = "finished" => run.total = 3)
    <2>1. <<1, 2>> = [i \in 1 .. 2 |-> i] /\ Len(<<1, 2>>) = 2
      OBVIOUS
    <2>2. QED BY <1>3, <2>1
  <1>4. QED BY <1>1, <1>2, <1>3 DEF RootAt, KidAt, ARun

\* The history the service is told of each run is proper, whichever calls failed.
THEOREM RunHistories == Spec => []RunsWellFormed
  <1>1. IInv => RunsWellFormed
    <2> SUFFICES ASSUME IInv, NEW c \in Chats
                 PROVE  /\ \A x \in {"root", "kid"} :
                             LET run == runs[c][x] IN
                             /\ run.steps = [i \in 1 .. Len(run.steps) |-> i]
                             /\ run.steps # <<>> => run.state # "none"
                             /\ run.state = "finished" => run.total = Len(run.steps) + 1
                        /\ runs[c].kid.state # "none" => runs[c].root.state # "none"
                        /\ runs[c].root.names \/ runs[c].root.state = "finished" =>
                             runs[c].kid.state = "finished"
      BY DEF RunsWellFormed
    <2>1. PICK n \in 0 .. Total(chain[c]) : runs[c] = At(chain[c], n)
      BY DEF IInv, Progress
    <2>2. chain[c] \in Chains
      BY DEF IInv, Typing
    <2>3. runs[c].root = RootAt(chain[c], n) /\ runs[c].kid = KidAt(n)
      BY <2>1 DEF At
    <2>4. ASSUME NEW x \in {"root", "kid"}
          PROVE  LET run == runs[c][x] IN
                 /\ run.steps = [i \in 1 .. Len(run.steps) |-> i]
                 /\ run.steps # <<>> => run.state # "none"
                 /\ run.state = "finished" => run.total = Len(run.steps) + 1
      <3>1. runs[c][x] \in {RootAt(chain[c], n), KidAt(n)}
        BY <2>3
      <3>2. QED BY <2>2, <3>1, StepsAt
    <2>5. QED BY <2>2, <2>3, <2>4, HistoryAt
  <1>2. QED BY <1>1, Invariance, PTL

\* A run that is open at the service still has its request or its finalizer at
\* work, or one of the calls for its chat failed or was cancelled, or the chat
\* was lost.
THEOREM RunsRemembered == Spec => []NoRunForgotten
  <1>1. IInv => NoRunForgotten
    <2> SUFFICES ASSUME IInv, NEW c \in Chats, NEW x \in {"root", "kid"},
                        runs[c][x].state = "open", pc[c] \notin Leased \cup {"lost"},
                        fin[c] # "pending", c \notin failed
                 PROVE  FALSE
      BY DEF NoRunForgotten
    <2>1. PICK n \in 0 .. Total(chain[c]) : runs[c] = At(chain[c], n) /\ PhaseOK(c, n)
      BY DEF IInv, Progress
    <2>2. /\ chain[c] \in Chains /\ pc[c] \in {"new", "waiting", "over"}
          /\ fin[c] \in {"no", "over"}
      BY DEF IInv, Typing, PC
    <2>3. n = 0 \/ n = Total(chain[c])
      BY <2>1, <2>2 DEF PhaseOK
    <2>4. runs[c].root = RootAt(chain[c], n) /\ runs[c].kid = KidAt(n)
      BY <2>1 DEF At
    <2>5. 0 < n /\ n < Total(chain[c])
      BY <2>2, <2>4, HistoryAt
    <2>6. QED BY <2>3, <2>5
  <1>2. QED BY <1>1, Invariance, PTL

\* A chat that reached the service is recorded once when it is over, and one that
\* did not, never.  An OpenAI stream or a collected chat that failed with a
\* CodebuffError is an error and one that went well a success; of the status of
\* an Anthropic stream nothing is said (FailureRecorded).  A collected answer
\* that could not be encoded is recorded twice, and a cancelled one not at all.
THEOREM RecordsRight == Spec => []RecordedOnce
  <1>1. IInv => RecordedOnce
    <2> SUFFICES ASSUME IInv, NEW c \in Chats
                 PROVE  /\ \/ Len(records[c]) <= 1
                           \/ outcome[c] = "unsent" /\ records[c] = <<"success", "error">>
                        /\ pc[c] = "over" =>
                             (records[c] # <<>> <=>
                                outcome[c] \notin {"open", "cancelled"} /\ kind[c] # "test")
                        /\ records[c] # <<>> /\ kind[c] # "anthropic" =>
                             /\ outcome[c] = "failed" => records[c] = <<"error">>
                             /\ outcome[c] = "ok" => records[c] = <<"success">>
      BY DEF RecordedOnce
    <2>1. RecordsOK(c) /\ Typing
      BY DEF IInv
    <2>2. \/ pc[c] \notin {"erroring", "abandoned", "closing", "over"} /\ records[c] = <<>>
          \/ pc[c] = "erroring" /\ outcome[c] = "failed"
             /\ records[c] \in {<<>>, <<"error">>}
          \/ pc[c] = "abandoned" /\ records[c] \in {<<>>, <<"error">>}
             /\ (records[c] # <<>> => outcome[c] = "failed")
          \/ pc[c] = "closing" /\ records[c] = <<>>
          \/ pc[c] = "over" /\ records[c] \in {<<>>, <<"success">>, <<"error">>}
          \/ pc[c] = "over" /\ outcome[c] = "unsent" /\ records[c] = <<"success", "error">>
      BY <2>1 DEF RecordsOK
    <2>3. \/ Len(records[c]) <= 1
          \/ outcome[c] = "unsent" /\ records[c] = <<"success", "error">>
      <3>1. CASE records[c] = <<>>
        BY <3>1
      <3>2. CASE records[c] = <<"success">>
        BY <3>2
      <3>3. CASE records[c] = <<"error">>
        BY <3>3
      <3>4. QED
        <4>1. \/ records[c] = <<>> \/ records[c] = <<"success">> \/ records[c] = <<"error">>
              \/ outcome[c] = "unsent" /\ records[c] = <<"success", "error">>
          BY <2>2
        <4>2. QED BY <3>1, <3>2, <3>3, <4>1
    <2>4. QED BY <2>1, <2>2, <2>3 DEF RecordsOK
  <1>2. QED BY <1>1, Invariance, PTL

\* The account of a chat that is answered in one piece goes back only when its
\* runs are closed, or one of its run calls failed or was cancelled.
THEOREM CollectedChatsCloseFirst == Spec => CollectClosesFirst
  <1> DEFINE A == \A c \in Chats :
       kind[c] \in {"collect", "test"} /\ holds[c] # NoSlot /\ holds'[c] = NoSlot =>
         c \in failed' \/ runs[c].root.state = "none" \/ runs[c].root.state = "finished"
  <1>1. ASSUME IInv, Next PROVE A
    <2> SUFFICES ASSUME NEW c \in Chats, kind[c] \in {"collect", "test"},
                        holds[c] # NoSlot, holds'[c] = NoSlot
                 PROVE  \/ c \in failed' \/ runs[c].root.state = "none"
                        \/ runs[c].root.state = "finished"
      OBVIOUS
    <2>1. Typing /\ RunsOK /\ chain[c] \in Chains /\ RecordsOK(c)
      BY <1>1 DEF IInv, Typing
    <2>2. PICK d \in Chats : ChatStep(d)
      BY <1>1 DEF Next, ReplacePool, vars, ChatStep
    <2>3. d = c
      <3>1. CASE Keeps(d)
        BY <3>1 DEF Keeps
      <3>2. CASE Begins(d)
        BY <2>1, <3>2 DEF Begins, Borrow, Lease!Grant, Typing, NoSlot
      <3>3. CASE Ends(d)
        BY <2>1, <3>3 DEF Ends, Lease!Return, Typing
      <3>4. QED BY <2>1, <2>2, <3>1, <3>2, <3>3, LeaseSteps
    <2>4. PICK n \in 0 .. Total(chain[c]) : runs[c] = At(chain[c], n) /\ PhaseOK(c, n)
      BY <1>1 DEF IInv, Progress
    <2>5. runs[c].root = RootAt(chain[c], n)
      BY <2>4 DEF At
    <2>6. CASE SessionAcquired(c) \/ ChecksDone(c)
      <3>1. n = 0
        BY <2>4, <2>6 DEF SessionAcquired, ChecksDone, PhaseOK
      <3>2. QED BY <2>5, <3>1 DEF RootAt, ARun
    <2>7. CASE PrepareRun(c)
      BY <2>1, <2>7 DEF PrepareRun, CallFails, Typing
    <2>8. CASE StreamEnds(c) \/ ErrorSent(c) \/ CloseAbandoned(c)
      BY <2>1, <2>8 DEF StreamEnds, ErrorSent, CloseAbandoned, RecordsOK
    <2>9. CASE CollectAnswers(c) \/ TestAnswers(c)
      <3>1. fin[c] = "over" /\ failed' = failed
        BY <2>9 DEF CollectAnswers, TestAnswers
      <3>2. c \in failed \/ n = Total(chain[c])
        BY <2>4, <3>1 DEF PhaseOK
      <3>3. QED BY <2>1, <2>5, <3>1, <3>2, HistoryAt
    <2>10. CASE Arrive(c) \/ Answered(c)
      BY <2>1, <2>10
      DEF Arrive, Answered, Borrow, Lease!Grant, Lease!Ask, Lease!Refuse, Typing
    <2>11. CASE Refuse(c) \/ SendChat(c) \/ StreamFails(c) \/ ClientLeaves(c)
                \/ CollectEnds(c) \/ FinalizeRun(c)
      BY <2>11 DEF Refuse, SendChat, StreamFails, ClientLeaves, CollectEnds, FinalizeRun
    <2>12. CASE StartStream(c) \/ Cancel(c)
      BY <2>1, <2>12 DEF StartStream, Cancel, Lease!Refuse, leaseVars, Typing
    <2>13. QED
      BY <2>2, <2>3, <2>6, <2>7, <2>8, <2>9, <2>10, <2>11, <2>12 DEF ChatStep, Proceed
  <1>2. IInv /\ [Next]_vars => [A]_vars
    BY <1>1
  <1>3. QED BY <1>2, Invariance, PTL DEF Spec, SafeSpec, CollectClosesFirst

=============================================================================
