------------------------------- MODULE ApiKeys -------------------------------
(***************************************************************************)
(* The keys clients call /v1 with: ApiKeyStore (usage_store.py:100-188),   *)
(* the handlers of the admin panel that change it (admin.py:642-658,       *)
(* 766-854), and what a restart reads back from .env (app.py:57-62).       *)
(*                                                                         *)
(* A handler changes the store, then writes the whole list to .env; if     *)
(* that raises, as with the read-only mount of docker-compose.yml:15, the  *)
(* change stays in memory.  The single key, FREEBUFF_API_KEY, is written   *)
(* first and not given to the store, which reads it at start-up, if there  *)
(* is no list.  Handlers do not await in between, so each is one step.     *)
(*                                                                         *)
(* Not modelled: the serverless deployment, which writes nothing, the      *)
(* OPENAI_API_KEY that stands in for a missing FREEBUFF_API_KEY, and an    *)
(* environment that was set before .env is read.                           *)
(***************************************************************************)
EXTENDS Integers, Sequences

CONSTANTS
  Names,      \* names of keys, "default" among them
  CutNames,   \* those in which python-dotenv sees a comment: " #"
  Keys,       \* what clients send
  NoKey,      \* the empty string
  Models,     \* model ids
  Allowances, \* lists of models a key may be given
  NoList      \* FREEBUFF_API_KEYS is not in .env

ASSUME NamesAssumption == "default" \in Names /\ CutNames \subseteq Names \ {"default"}
ASSUME NoKeyAssumption == NoKey \notin Keys
ASSUME AllowancesAssumption ==
  {"*"} \in Allowances /\ Allowances \subseteq SUBSET (Models \cup {"*"})

\* ApiKeyRecord.
Record == [name : Names, key : Keys, allowed : Allowances, enabled : BOOLEAN]

VARIABLES
  keys,      \* ApiKeyStore._keys, in the order of the dict
  fallback,  \* settings.local_api_key, and FREEBUFF_API_KEY in .env
  file,      \* FREEBUFF_API_KEYS in .env
  saved      \* did the last change of the keys reach .env?

vars == <<keys, fallback, file, saved>>

-----------------------------------------------------------------------------
(* The store                                                               *)

HasName(n) == \E i \in DOMAIN keys : keys[i].name = n

\* The records authenticate tries: it returns the first that fits.
Matches(k) == {i \in DOMAIN keys : keys[i].enabled /\ keys[i].key = k}
Accepts(k) == Matches(k) # {}

\* ApiKeyRecord.allows_model.
Allows(rec, m) == "*" \in rec.allowed \/ m \in rec.allowed

\* The list comes back from .env as it was written unless a part of it is taken
\* for a comment; then it is no JSON any more.
Readable(list) == \A i \in DOMAIN list : list[i].name \notin CutNames

\* The store of a gateway that has only FREEBUFF_API_KEY.
Fallback ==
  IF fallback = NoKey THEN <<>>
  ELSE <<[name |-> "default", key |-> fallback, allowed |-> {"*"}, enabled |-> TRUE]>>

\* load_from_settings.
Loaded == IF file = NoList THEN Fallback
          ELSE IF Readable(file) /\ file # <<>> THEN file ELSE Fallback

Init ==
  /\ fallback \in Keys \cup {NoKey}
  /\ file = NoList
  /\ keys = Loaded
  /\ saved = TRUE

\* The store is changed, and _persist_api_keys writes it to .env or raises.
Change(list) ==
  /\ keys' = list
  /\ \/ file' = list /\ saved' = TRUE
     \/ file' = file /\ saved' = FALSE
  /\ UNCHANGED fallback

-----------------------------------------------------------------------------
(* The handlers                                                            *)

\* create_api_key.
CreateKey(n, k, allowed) ==
  /\ ~HasName(n)
  /\ Change(Append(keys, [name |-> n, key |-> k, allowed |-> allowed, enabled |-> TRUE]))

\* Mutation of UpdateKey: a blank key is stored.
MutUpdateKey(i, k, allowed, enabled) ==
  Change([keys EXCEPT ![i].key = k, ![i].allowed = allowed, ![i].enabled = enabled])

\* update_api_key; a blank key keeps the old one, and a field that is not in
\* the request keeps its value, which is one of the values it may be given.
UpdateKey(i, k, allowed, enabled) ==
  Change([keys EXCEPT ![i].key = IF k = NoKey THEN @ ELSE k,
                      ![i].allowed = allowed,
                      ![i].enabled = enabled])

\* delete_api_key.
DeleteKey(i) == Change(SubSeq(keys, 1, i - 1) \o SubSeq(keys, i + 1, Len(keys)))

\* Mutation of ToggleKey: .env is not written.
MutToggleKey(i) ==
  /\ keys' = [keys EXCEPT ![i].enabled = ~@]
  /\ UNCHANGED <<fallback, file, saved>>

\* toggle_api_key.
ToggleKey(i) == Change([keys EXCEPT ![i].enabled = ~@])

\* save_api_key: FREEBUFF_API_KEY, in .env and in the settings, or in neither.
SaveApiKey(k) ==
  /\ fallback' = k
  /\ UNCHANGED <<keys, file, saved>>

\* The process ends, between two steps or after the file was written in one,
\* and is started again.
Restart ==
  /\ keys' = Loaded
  /\ saved' = TRUE
  /\ UNCHANGED <<fallback, file>>

Next ==
  \/ \E n \in Names, k \in Keys, allowed \in Allowances : CreateKey(n, k, allowed)
  \/ \E i \in DOMAIN keys :
       \/ \E k \in Keys \cup {NoKey}, allowed \in Allowances, enabled \in BOOLEAN :
            UpdateKey(i, k, allowed, enabled)
       \/ DeleteKey(i)
       \/ ToggleKey(i)
  \/ \E k \in Keys : SaveApiKey(k)
  \/ Restart

Spec == Init /\ [][Next]_vars

-----------------------------------------------------------------------------
(* Properties                                                              *)

\* The type of every variable: no key is ever blank, and no name is used twice.
TypeOK ==
  /\ keys \in Seq(Record)
  /\ \A i, j \in DOMAIN keys : keys[i].name = keys[j].name => i = j
  /\ fallback \in Keys \cup {NoKey}
  /\ file \in Seq(Record) \cup {NoList}
  /\ saved \in BOOLEAN

\* Keys that were "persisted" (admin.py:808, 831, 841) come back from a restart
\* as they were, in the same order, disabled ones disabled and deleted ones
\* gone; only where .env has no list, an empty one or one that cannot be read
\* does the gateway start with FREEBUFF_API_KEY alone.
RestartKeepsKeys ==
  [][Restart /\ saved =>
       \/ keys' = keys
       \/ keys' = Fallback /\ (file \in {NoList, <<>>} \/ ~Readable(file))]_vars

\* The panel says of a key's models "blank = all" (admin_static/index.html:476).
BlankMeansAll ==
  \A i \in DOMAIN keys : keys[i].allowed = {} => \A m \in Models : Allows(keys[i], m)

\* FREEBUFF_API_KEY is the "key clients use to call /v1/*", unless there is a
\* list (README.md:213): it is accepted where none was ever saved or changed.
SettingsKeyAccepted ==
  fallback # NoKey /\ file = NoList /\ saved => Accepts(fallback)

=============================================================================
