--------------------------- MODULE RequestRecords ---------------------------
(***************************************************************************)
(* RequestStore (usage_store.py:13-97): what the gateway remembers of the  *)
(* requests it served, a ring in memory and a JSONL file beside it.  Every *)
(* record gets the next id, pushes the oldest one out of a full ring and   *)
(* is appended to the file, if that works: the file is best effort, and is *)
(* never read back.                                                        *)
(*                                                                         *)
(* A record's content is left out; `request` tells the requests of all     *)
(* processes apart.  list() and stats() (33-80) only read the ring.        *)
(***************************************************************************)
EXTENDS Integers, Sequences, FiniteSets

CONSTANTS
  Limits,       \* what FREEBUFF_MAX_REQUEST_RECORDS may be set to
  MaxRequests,  \* bound on the requests served
  MaxRestarts   \* bound on the restarts of the gateway

\* config.py accepts any integer (188).
ASSUME LimitsAssumption == Limits \subseteq Int
ASSUME BoundsAssumption == MaxRequests \in Nat /\ MaxRestarts \in Nat

\* What an append leaves in the file: the whole line, nothing, or a part of it
\* without its newline.
Writes == {"whole", "nothing", "torn"}

\* A line that is no record: a torn one and the line written after it.
Spoilt == [id |-> 0, request |-> 0]

VARIABLES
  limit,     \* _max
  records,   \* _records
  nextId,    \* _next_id
  file,      \* the lines of request_records.jsonl, but for a torn last one
  midLine,   \* whether the file ends in a torn line
  served,    \* requests recorded so far, by all processes
  writes,    \* what the append of each of them left
  restarts,
  start,     \* requests recorded before this process started or cleared
  emptied    \* requests recorded before the file was last emptied

vars == <<limit, records, nextId, file, midLine, served, writes, restarts, start,
          emptied>>

-----------------------------------------------------------------------------

\* Mutation of Latest: a full ring loses one record more.
MutLatest(s) ==
  LET dropped == IF limit > 0 THEN Len(s) - limit + 1 ELSE -limit
  IN  IF Len(s) > limit THEN SubSeq(s, dropped + 1, Len(s)) ELSE s

\* self._records[-self._max:] once there are too many.  A slice from -0 on is
\* the whole list, and with a negative limit it counts from the front.
Latest(s) ==
  LET dropped == IF limit > 0 THEN Len(s) - limit ELSE -limit
  IN  IF Len(s) > limit THEN SubSeq(s, dropped + 1, Len(s)) ELSE s

\* Mutation of AppendToFile: a record that did not get into the file is written
\* again, in front of the next one.
MutAppendToFile(record, w) ==
  CASE w = "whole"   -> /\ file' = file \o <<IF midLine THEN Spoilt ELSE record, record>>
                        /\ midLine' = FALSE
    [] w = "nothing" -> UNCHANGED <<file, midLine>>
    [] w = "torn"    -> UNCHANGED file /\ midLine' = TRUE

\* _append_to_file, whose errors are swallowed: a line that follows a torn one
\* is glued to it.
AppendToFile(record, w) ==
  CASE w = "whole"   -> /\ file' = Append(file, IF midLine THEN Spoilt ELSE record)
                        /\ midLine' = FALSE
    [] w = "nothing" -> UNCHANGED <<file, midLine>>
    [] w = "torn"    -> UNCHANGED file /\ midLine' = TRUE

-----------------------------------------------------------------------------

Init ==
  /\ limit \in Limits
  /\ records = <<>>
  /\ nextId = 1
  /\ file = <<>>
  /\ midLine = FALSE
  /\ served = 0
  /\ writes = <<>>
  /\ restarts = 0
  /\ start = 0
  /\ emptied = 0

\* add: a request was served.
Add(w) ==
  LET record == [id |-> nextId, request |-> served + 1] IN
  /\ served < MaxRequests
  /\ served' = served + 1
  /\ nextId' = nextId + 1
  /\ records' = Latest(Append(records, record))
  /\ AppendToFile(record, w)
  /\ writes' = Append(writes, w)
  /\ UNCHANGED <<limit, restarts, start, emptied>>

\* clear: the ring first; emptying the file may raise, and the admin's request
\* fails with the ring empty and the file as it was.
Clear ==
  /\ records' = <<>>
  /\ start' = served
  /\ \/ file' = <<>> /\ midLine' = FALSE /\ emptied' = served
     \/ UNCHANGED <<file, midLine, emptied>>
  /\ UNCHANGED <<limit, nextId, served, writes, restarts>>

\* The process ends, and a new store begins at id 1 with the old file and the
\* limit that is set by now.
Restart ==
  /\ restarts < MaxRestarts
  /\ restarts' = restarts + 1
  /\ limit' \in Limits
  /\ records' = <<>>
  /\ nextId' = 1
  /\ start' = served
  /\ UNCHANGED <<file, midLine, served, writes, emptied>>

Next == (\E w \in Writes : Add(w)) \/ Clear \/ Restart

Spec == Init /\ [][Next]_vars

-----------------------------------------------------------------------------
(* Properties                                                              *)

\* The type of every variable.
TypeOK ==
  /\ limit \in Limits
  /\ records \in Seq([id : Nat \ {0}, request : Nat \ {0}])
  /\ nextId \in Nat \ {0}
  /\ file \in Seq([id : Nat, request : Nat])
  /\ midLine \in BOOLEAN
  /\ served \in Nat /\ start \in Nat /\ emptied \in Nat /\ restarts \in Nat
  /\ writes \in [1 .. served -> Writes]

\* How many of the requests served since the start or the last clear are kept:
\* as many as the limit says, all if it is 0, and none if it is negative.
Kept ==
  CASE limit > 0 -> IF served - start > limit THEN limit ELSE served - start
    [] limit = 0 -> served - start
    [] limit < 0 -> 0

\* The ring holds exactly the latest requests of this process since it was
\* last cleared, the oldest first, under the ids that end before the next one:
\* none is lost while there is room, kept for too long, or listed twice.  A
\* limit of 0 is no limit.
RingIsLatest ==
  /\ Len(records) = Kept
  /\ \A i \in 1 .. Kept :
       records[i] = [id |-> nextId - 1 - Kept + i, request |-> served - Kept + i]

\* The append of request q left a torn line at the end of the file, which is
\* still there when request r is appended.
Spoils(q, r) ==
  writes[q] = "torn" /\ \A k \in q + 1 .. r - 1 : writes[k] = "nothing"

\* Request r was written on a line of its own.
Sound(r) ==
  writes[r] = "whole" /\ ~ \E q \in emptied + 1 .. r - 1 : Spoils(q, r)

\* Where the file has lines that are records.
Lines == {i \in DOMAIN file : file[i] # Spoilt}

\* The file has one line for each request since it was last emptied, in order
\* and over restarts, but for those whose write failed or came after a torn
\* one; whatever is still in the ring and was written is in it unchanged.
FileKeepsRing ==
  /\ \A i, j \in Lines : i < j => file[i].request < file[j].request
  /\ {file[i].request : i \in Lines} = {r \in emptied + 1 .. served : Sound(r)}
  /\ \A k \in DOMAIN records :
       Sound(records[k].request) => \E i \in Lines : file[i] = records[k]

=============================================================================
