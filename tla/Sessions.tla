------------------------------ MODULE Sessions ------------------------------
(***************************************************************************)
(* The operator's sessions: the login gate and the failure streak of one   *)
(* address, the rows of the sessions table, and the web sockets that were  *)
(* admitted with a session and live on after the request                   *)
(* (internal/server/httpapi/auth_handlers.go, loginlimit.go, server.go,    *)
(* wsreg.go, events.go; internal/server/store/auth.go).                    *)
(*                                                                         *)
(* A socket is checked once, before its upgrade, and counted after it; a   *)
(* revocation writes the rows first and closes the counted sockets then.   *)
(***************************************************************************)
EXTENDS Integers, FiniteSets

CONSTANTS Ids,         \* session ids, one per successful login
          Sockets,     \* event streams and terminals
          Requests,    \* requests that revoke: a password change or "revoke all"
          MaxInflight, \* loginGateMaxInflight
          Burst,       \* loginGateBurst
          MaxFails,    \* maxLoginFails
          MaxTicks     \* bound on what time brings: refills, expiries, served blocks

NoId == "none"

VARIABLES
  row,        \* per id: "none", "live", "revoked" or "pruned"
  aged,       \* ids past SessionTTL
  mustChange, \* the initial password is still in use
  login,      \* ids whose login holds a slot of the gate
  tokens,     \* of the gate
  streak,     \* failures of the address, and whether it is blocked
  ws,         \* per socket: its session and where it is
  request,    \* per request: its session, its kind, where it is, the rows it revoked
  settled,    \* history: ids whose revocation has also closed the sockets
  late,       \* history: sockets between the check and the count at such a moment
  ticks

sessionVars == <<row, aged, mustChange, login, tokens, streak, ws, request, settled, late, ticks>>
tableVars == <<row, aged, mustChange>>
gateVars == <<login, tokens, streak>>
wsVars == <<ws, settled, late>>

SessionInit ==
  /\ row = [i \in Ids |-> "none"] /\ aged = {} /\ mustChange \in BOOLEAN
  /\ login = {} /\ tokens = Burst /\ streak = [fails |-> 0, block |-> "none"]
  /\ ws = [k \in Sockets |-> [of |-> NoId, pc |-> "none"]]
  /\ request = [q \in Requests |-> [by |-> NoId, kind |-> "none", pc |-> "none", took |-> {}]]
  /\ settled = {} /\ late = {} /\ ticks = 0

Tick == ticks < MaxTicks /\ ticks' = ticks + 1

(***************************************************************************)
(* Login.                                                                  *)
(***************************************************************************)
\* A blocked address never reaches the gate, a full gate never the password.
TryAcquire(i) ==
  /\ row[i] = "none" /\ i \notin login /\ streak.block # "running"
  /\ Cardinality(login) < MaxInflight /\ tokens > 0
  /\ login' = login \cup {i} /\ tokens' = tokens - 1
  /\ UNCHANGED <<tableVars, streak, wsVars, request, ticks>>
RefillGate ==
  /\ tokens < Burst /\ tokens' = tokens + 1 /\ Tick
  /\ UNCHANGED <<tableVars, login, streak, wsVars, request>>
\* A block that has been served is history, not a streak.
RecordLoginFail ==
  LET n == (IF streak.block = "served" THEN 0 ELSE streak.fails) + 1
  IN  [fails |-> n, block |-> IF n >= MaxFails THEN "running"
                              ELSE IF streak.block = "served" THEN "none" ELSE streak.block]
\* A failure from a protected network is not counted.
LoginFails(i) ==
  /\ i \in login /\ login' = login \ {i}
  /\ streak' \in {streak, RecordLoginFail}
  /\ UNCHANGED <<tableVars, tokens, wsVars, request, ticks>>
LoginSucceeds(i) ==
  /\ i \in login /\ login' = login \ {i}
  /\ row' = [row EXCEPT ![i] = "live"]
  /\ streak' = [fails |-> 0, block |-> "none"]
  /\ UNCHANGED <<aged, mustChange, tokens, wsVars, request, ticks>>
BlockServed ==
  /\ streak.block = "running" /\ streak' = [streak EXCEPT !.block = "served"] /\ Tick
  /\ UNCHANGED <<tableVars, login, tokens, wsVars, request>>

(***************************************************************************)
(* The check every request passes.                                         *)
(***************************************************************************)
Admitted(i, exempt) == row[i] = "live" /\ i \notin aged /\ (mustChange => exempt)

AgeSession(i) ==
  /\ row[i] \in {"live", "revoked"} /\ i \notin aged /\ aged' = aged \cup {i} /\ Tick
  /\ UNCHANGED <<row, mustChange, gateVars, wsVars, request>>
\* A request with a session past its time, or a logout, which passes no check.
RevokeSession(i) ==
  /\ row[i] = "live" /\ row' = [row EXCEPT ![i] = "revoked"]
  /\ UNCHANGED <<aged, mustChange, gateVars, wsVars, request, ticks>>
PruneExpiredSessions ==
  /\ \E i \in aged : row[i] # "pruned"
  /\ row' = [i \in Ids |-> IF i \in aged THEN "pruned" ELSE row[i]]
  /\ UNCHANGED <<aged, mustChange, gateVars, wsVars, request, ticks>>

(***************************************************************************)
(* Sockets.                                                                *)
(***************************************************************************)
UpgradeSocket(k, i) ==
  /\ ws[k].pc = "none" /\ Admitted(i, FALSE)
  /\ ws' = [ws EXCEPT ![k] = [of |-> i, pc |-> "admitted"]]
  /\ UNCHANGED <<tableVars, gateVars, settled, late, request, ticks>>
CountSocket(k) ==
  /\ ws[k].pc = "admitted" /\ ws' = [ws EXCEPT ![k].pc = "open"]
  /\ UNCHANGED <<tableVars, gateVars, settled, late, request, ticks>>
SocketEnds(k) ==
  /\ ws[k].pc \in {"admitted", "open"} /\ ws' = [ws EXCEPT ![k].pc = "closed"]
  /\ UNCHANGED <<tableVars, gateVars, settled, late, request, ticks>>

(***************************************************************************)
(* Revocations: the rows, then the sockets.                                *)
(***************************************************************************)
Keep(q) == IF request[q].kind = "password" THEN request[q].by ELSE NoId
AskRevocation(q, i, kind) ==
  /\ request[q].pc = "none" /\ Admitted(i, kind = "password")
  /\ request' = [request EXCEPT ![q] = [by |-> i, kind |-> kind, pc |-> "admitted", took |-> {}]]
  /\ UNCHANGED <<tableVars, gateVars, wsVars, ticks>>
RevokeRows(q) ==
  /\ request[q].pc = "admitted"
  /\ mustChange' = (mustChange /\ request[q].kind # "password")
  /\ LET took == {i \in Ids \ {Keep(q)} : row[i] = "live"}
     IN  /\ row' = [i \in Ids |-> IF i \in took THEN "revoked" ELSE row[i]]
         /\ request' = [request EXCEPT ![q].pc = "rows", ![q].took = took]
  /\ UNCHANGED <<aged, gateVars, wsVars, ticks>>
\* A statement fails: the password may be the new one, the sockets stay.
RevocationFails(q) ==
  /\ request[q].pc = "admitted"
  /\ request' = [request EXCEPT ![q].pc = "failed"]
  /\ mustChange' \in {mustChange, mustChange /\ request[q].kind # "password"}
  /\ UNCHANGED <<row, aged, gateVars, wsVars, ticks>>

\* Mutant of CloseTargets: an empty exception closes nothing.
CloseTargetsOfOthers(keep) == {k \in Sockets : keep # NoId /\ ws[k].pc = "open" /\ ws[k].of # keep}
CloseTargets(keep) == {k \in Sockets : ws[k].pc = "open" /\ ws[k].of # keep}
CloseExcept(q) ==
  /\ request[q].pc = "rows" /\ request' = [request EXCEPT ![q].pc = "closed"]
  /\ ws' = [k \in Sockets |->
       IF k \in CloseTargets(Keep(q)) THEN [ws[k] EXCEPT !.pc = "closed"] ELSE ws[k]]
  /\ settled' = settled \cup request[q].took
  /\ late' = late \cup {k \in Sockets : ws[k].pc = "admitted"}
  /\ UNCHANGED <<tableVars, gateVars, ticks>>

SessionNext ==
  \/ \E i \in Ids :
       \/ TryAcquire(i) \/ LoginFails(i) \/ LoginSucceeds(i)
       \/ AgeSession(i) \/ RevokeSession(i)
       \/ \E k \in Sockets : UpgradeSocket(k, i)
       \/ \E q \in Requests, kind \in {"password", "all"} : AskRevocation(q, i, kind)
  \/ RefillGate \/ BlockServed \/ PruneExpiredSessions
  \/ \E k \in Sockets : CountSocket(k) \/ SocketEnds(k)
  \/ \E q \in Requests : RevokeRows(q) \/ RevocationFails(q) \/ CloseExcept(q)
SessionSpec == SessionInit /\ [][SessionNext]_sessionVars

(***************************************************************************)
(* Properties.                                                             *)
(***************************************************************************)
\* Revoking ends what was already open: once a revocation has run, no socket of
\* a session it revoked is open, whatever logins, upgrades and other revocations
\* happened meanwhile.  One that had passed the check and was not yet counted
\* is the exception the code leaves (wsreg.go:9-18, 55-73).
EvictedIsCut == \A k \in Sockets : ws[k].pc = "open" /\ ws[k].of \in settled => k \in late
=============================================================================
