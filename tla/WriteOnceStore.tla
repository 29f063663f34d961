--------------------------- MODULE WriteOnceStore ---------------------------
(***************************************************************************)
(* What a directory of published artifacts promises its callers, without   *)
(* locks, links or pending names: every name holds nothing or one complete *)
(* candidate; a candidate is put only where there is nothing and goes only *)
(* through a removal that names it; a caller hears "published" only for    *)
(* its own put, once it is durable, and "matched-existing" or a read value *)
(* only for what the name held at a moment of the call.  A power loss may  *)
(* bring back any value a name had since the last sync.                    *)
(***************************************************************************)
EXTENDS FiniteSets

CONSTANTS Procs, Names, Candidates, Absent

VARIABLES
  call,       \* call[p]: the request of p
  store,      \* store[n]: the candidate at n, or Absent
  survivors,  \* survivors[n]: values a power loss may leave at n
  putters,    \* the callers whose candidate was put
  reply,      \* reply[p]: what p has been or will be told
  value       \* value[p]: what p read

svars == <<call, store, survivors, putters, reply, value>>

Values == Candidates \cup {Absent}

Init ==
  /\ call \in [Procs -> [op : {"publish", "remove", "read"},
                         name : Names, candidate : Candidates]]
  /\ store = [n \in Names |-> Absent]
  /\ survivors = [n \in Names |-> {Absent}]
  /\ putters = {}
  /\ reply = [p \in Procs |-> "none"]
  /\ value = [p \in Procs |-> Absent]

Write(n, v) ==
  /\ store' = [store EXCEPT ![n] = v]
  /\ survivors' = [survivors EXCEPT ![n] = @ \cup {v}]

Put(p) ==
  LET n == call[p].name IN
  /\ call[p].op = "publish"
  /\ p \notin putters
  /\ reply[p] = "none"
  /\ store[n] = Absent
  /\ Write(n, call[p].candidate)
  /\ putters' = putters \cup {p}
  /\ UNCHANGED <<call, reply, value>>

Remove(p) ==
  LET n == call[p].name IN
  /\ call[p].op = "remove"
  /\ reply[p] = "none"
  /\ store[n] = call[p].candidate
  /\ Write(n, Absent)
  /\ UNCHANGED <<call, putters, reply, value>>

\* A sync makes the current values the only ones a power loss may leave.  The
\* removal that asks for it learns of its success in the same step.
Sync ==
  /\ survivors' = [n \in Names |-> {store[n]}]
  /\ \/ UNCHANGED reply
     \/ \E p \in Procs : /\ call[p].op = "remove"
                         /\ reply[p] = "none"
                         /\ store[call[p].name] = Absent
                         /\ reply' = [reply EXCEPT ![p] = "removed"]
  /\ UNCHANGED <<call, store, putters, value>>

\* What p may be told, given what its name holds now.
MayHear(p, r) ==
  LET n == call[p].name
      o == call[p].op
      c == call[p].candidate
  IN CASE r = "published" -> /\ o = "publish"
                             /\ p \in putters
                             /\ store[n] = c
                             /\ survivors[n] = {c}
       [] r = "matched-existing" -> o = "publish" /\ store[n] = c
       [] r = "conflict" -> o = "publish" /\ store[n] \notin {Absent, c}
       [] r = "removed"  -> o = "remove" /\ store[n] = Absent
       [] r = "mismatch" -> o = "remove" /\ store[n] \notin {Absent, c}
       [] r = "busy"     -> p \notin putters
       [] OTHER          -> FALSE

Hear(p) ==
  /\ reply[p] = "none"
  /\ \E r \in {"published", "matched-existing", "conflict", "removed",
               "mismatch", "busy"} :
       MayHear(p, r) /\ reply' = [reply EXCEPT ![p] = r]
  /\ UNCHANGED <<call, store, survivors, putters, value>>

Read(p) ==
  /\ call[p].op = "read"
  /\ reply[p] = "none"
  /\ value' = [value EXCEPT ![p] = store[call[p].name]]
  /\ reply' = [reply EXCEPT ![p] = "read"]
  /\ UNCHANGED <<call, store, survivors, putters>>

\* Any call may fail, also one whose effect is already there.
Fail(p) ==
  /\ reply' = [reply EXCEPT ![p] = "failed"]
  /\ UNCHANGED <<call, store, survivors, putters, value>>

PowerLoss ==
  /\ store' \in [Names -> Values]
  /\ \A n \in Names : store'[n] \in survivors[n]
  /\ survivors' = [n \in Names |-> {store'[n]}]
  /\ UNCHANGED <<call, putters, reply, value>>

Next ==
  \/ \E p \in Procs : Put(p) \/ Remove(p) \/ Hear(p) \/ Read(p) \/ Fail(p)
  \/ Sync
  \/ PowerLoss

Spec == Init /\ [][Next]_svars
=============================================================================
