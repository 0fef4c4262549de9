--------------------------- MODULE CommandPromise ---------------------------
(***************************************************************************)
(* What the command queue promises to the panel and to the AI that polls   *)
(* GetCommand: a submitted command is open until it has one final row, it  *)
(* is executed at most once, and "ok" or "failed" is the outcome of that   *)
(* execution.  A row may time out although the command ran, or runs later: *)
(* the probe is not told.                                                  *)
(***************************************************************************)
CONSTANT Cmds

VARIABLES row,    \* "none", "open" or the final state of the row
          ran,    \* the commands whose execution has begun
          result  \* how it ended, "none" before

Final == {"ok", "failed", "timeout"}

Init ==
  /\ row = [c \in Cmds |-> "none"]
  /\ ran = {}
  /\ result = [c \in Cmds |-> "none"]

Submit(c) ==
  /\ row[c] = "none"
  /\ row' = [row EXCEPT ![c] = "open"]
  /\ UNCHANGED <<ran, result>>

Begin(c) ==
  /\ row[c] # "none" /\ c \notin ran
  /\ ran' = ran \cup {c}
  /\ UNCHANGED <<row, result>>

End(c, verdict) ==
  /\ c \in ran /\ result[c] = "none"
  /\ result' = [result EXCEPT ![c] = verdict]
  /\ UNCHANGED <<row, ran>>

Settle(c) ==
  /\ row[c] = "open" /\ result[c] # "none"
  /\ row' = [row EXCEPT ![c] = result[c]]
  /\ UNCHANGED <<ran, result>>

\* One sweep of the scheduler expires any number of open rows.
Expire(cs) ==
  /\ \A c \in cs : row[c] = "open"
  /\ row' = [c \in Cmds |-> IF c \in cs THEN "timeout" ELSE row[c]]
  /\ UNCHANGED <<ran, result>>

Next ==
  \/ \E c \in Cmds : Submit(c) \/ Begin(c) \/ Settle(c)
  \/ \E c \in Cmds, v \in {"ok", "failed"} : End(c, v)
  \/ \E cs \in SUBSET Cmds : Expire(cs)

vars == <<row, ran, result>>
Spec == Init /\ [][Next]_vars
=============================================================================
