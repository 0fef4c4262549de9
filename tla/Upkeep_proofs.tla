---------------------------- MODULE Upkeep_proofs ----------------------------
(***************************************************************************)
(* Safety of six small components of the panel and the probe that share no *)
(* step: sessions, terminals, enrolment, billing reminders, data files and *)
(* traffic.  Each has an inductive invariant, the two facts that make it   *)
(* one, and the theorem that follows.                                      *)
(***************************************************************************)
EXTENDS Sessions, Terminals, Enrolment, Reminders, DataFiles, Metering, SequenceTheorems, TLAPS

(***************************************************************************)
(* Sessions.                                                               *)
(***************************************************************************)
\* What a revocation took stays gone and is never the session that asked;
\* a login that is under way has no row yet, so no socket can have it.
Gone == {"revoked", "pruned"}
Asked == [by : Ids \cup {NoId}, kind : {"none", "password", "all"},
          pc : {"none", "admitted", "rows", "failed", "closed"}, took : SUBSET Ids]
SessionInv ==
  /\ row \in [Ids -> {"none", "live", "revoked", "pruned"}]
  /\ ws \in [Sockets -> [of : Ids \cup {NoId}, pc : {"none", "admitted", "open", "closed"}]]
  /\ request \in [Requests -> Asked]
  /\ login \subseteq Ids /\ aged \subseteq Ids /\ settled \subseteq Ids
  /\ \A i \in login : row[i] = "none"
  /\ \A i \in aged : row[i] # "none"
  /\ \A i \in settled : row[i] \in Gone
  /\ \A q \in Requests : request[q].pc = "rows" =>
       \A i \in request[q].took : row[i] \in Gone /\ i # Keep(q)
  /\ \A k \in Sockets : ws[k].pc \in {"admitted", "open"} /\ ws[k].of \in settled => k \in late

\* A request that has taken its sessions is one.
LEMMA RowsTaken ==
  ASSUME NEW a \in Asked, NEW taken \in SUBSET Ids
  PROVE  [[a EXCEPT !.pc = "rows"] EXCEPT !.took = taken] \in Asked
BY DEF Asked

\* No row is there, no request has taken one.
LEMMA SessionInvInit == SessionInit => SessionInv
BY DEF SessionInit, SessionInv, Asked

\* RevokeRows and CloseExcept are the two halves of a revocation; the others
\* touch one row, one socket or none.
LEMMA SessionInvStep == SessionInv /\ [SessionNext]_sessionVars => SessionInv'
<1> SUFFICES ASSUME SessionInv, [SessionNext]_sessionVars PROVE SessionInv'
  OBVIOUS
<1> USE DEF SessionInv, Gone, Asked, tableVars, gateVars, wsVars, Keep
<1>1. ASSUME NEW i \in Ids, TryAcquire(i) \/ LoginFails(i) PROVE SessionInv'
  BY <1>1 DEF TryAcquire, LoginFails
<1>2. ASSUME NEW i \in Ids, LoginSucceeds(i) PROVE SessionInv'
  BY <1>2 DEF LoginSucceeds
<1>3. ASSUME NEW i \in Ids, AgeSession(i) PROVE SessionInv'
  BY <1>3 DEF AgeSession
<1>4. ASSUME NEW i \in Ids, RevokeSession(i) PROVE SessionInv'
  BY <1>4 DEF RevokeSession
<1>5. ASSUME NEW i \in Ids, NEW k \in Sockets, UpgradeSocket(k, i) PROVE SessionInv'
  BY <1>5 DEF UpgradeSocket, Admitted
<1>6. ASSUME NEW i \in Ids, NEW q \in Requests, NEW kind \in {"password", "all"}, AskRevocation(q, i, kind)
      PROVE SessionInv'
  BY <1>6 DEF AskRevocation
<1>7. CASE RefillGate \/ BlockServed
  BY <1>7 DEF RefillGate, BlockServed
<1>8. CASE PruneExpiredSessions
  BY <1>8 DEF PruneExpiredSessions
<1>9. ASSUME NEW k \in Sockets, CountSocket(k) \/ SocketEnds(k) PROVE SessionInv'
  BY <1>9 DEF CountSocket, SocketEnds
<1>10. ASSUME NEW q \in Requests, RevokeRows(q) PROVE SessionInv'
  <2> DEFINE took == {i \in Ids \ {Keep(q)} : row[i] = "live"}
  <2>1. /\ row' = [i \in Ids |-> IF i \in took THEN "revoked" ELSE row[i]]
        /\ request' = [request EXCEPT ![q].pc = "rows", ![q].took = took]
        /\ UNCHANGED <<aged, login, ws, settled, late>>
    BY <1>10 DEF RevokeRows
  <2>2. took \in SUBSET Ids /\ (\A i \in took : row[i] = "live" /\ i # Keep(q))
    OBVIOUS
  <2>3. \A i \in Ids : IF i \in took THEN row'[i] = "revoked" ELSE row'[i] = row[i]
    BY <2>1
  <2> HIDE DEF took
  <2>4. \A p \in Requests : Keep(p)' = Keep(p)
    BY <2>1, <2>2
  <2>5. \A p \in Requests : request'[p].took = IF p = q THEN took ELSE request[p].took
    BY <2>1, <2>2
  <2>6. \A p \in Requests : request'[p].pc = IF p = q THEN "rows" ELSE request[p].pc
    BY <2>1, <2>2
  <2>7. \A p \in Requests : request'[p].pc = "rows" =>
          \A i \in request'[p].took : row'[i] \in Gone /\ i # Keep(p)'
    <3> SUFFICES ASSUME NEW p \in Requests, request'[p].pc = "rows", NEW i \in request'[p].took
                 PROVE row'[i] \in Gone /\ i # Keep(p)'
      OBVIOUS
    <3>1. CASE p = q
      BY <3>1, <2>2, <2>3, <2>4, <2>5
    <3>2. CASE p # q
      BY <3>2, <2>3, <2>4, <2>5, <2>6
    <3> QED
      BY <3>1, <3>2
  <2>8. request' \in [Requests -> Asked]
    <3> HIDE DEF Asked, Keep
    <3>1. [[request[q] EXCEPT !.pc = "rows"] EXCEPT !.took = took] \in Asked
      BY <2>2, RowsTaken
    <3> QED
      BY <2>1, <3>1
  <2> HIDE DEF Keep, Asked
  <2> QED
    BY <2>1, <2>2, <2>3, <2>7, <2>8
<1>11. ASSUME NEW q \in Requests, RevocationFails(q) PROVE SessionInv'
  BY <1>11 DEF RevocationFails
<1>12. ASSUME NEW q \in Requests, CloseExcept(q) PROVE SessionInv'
  <2> DEFINE closed == CloseTargets(Keep(q))
  <2>1. /\ request[q].pc = "rows"
        /\ request' = [request EXCEPT ![q].pc = "closed"]
        /\ ws' = [k \in Sockets |-> IF k \in closed THEN [ws[k] EXCEPT !.pc = "closed"] ELSE ws[k]]
        /\ settled' = settled \cup request[q].took
        /\ late' = late \cup {k \in Sockets : ws[k].pc = "admitted"}
        /\ UNCHANGED <<row, aged, login>>
    BY <1>12 DEF CloseExcept
  <2>2. \A k \in Sockets : ws[k].pc = "open" /\ ws[k].of # Keep(q) => k \in closed
    BY DEF CloseTargets
  <2> HIDE DEF closed
  <2>3. \A k \in Sockets : /\ ws'[k].of = ws[k].of
                          /\ ws'[k].pc = IF k \in closed THEN "closed" ELSE ws[k].pc
    BY <2>1
  <2>4. \A k \in Sockets : ws'[k].pc \in {"admitted", "open"} /\ ws'[k].of \in settled' => k \in late'
    BY <2>1, <2>2, <2>3
  <2>5. ws' \in [Sockets -> [of : Ids \cup {NoId}, pc : {"none", "admitted", "open", "closed"}]]
    BY <2>1
  <2>6. \A p \in Requests : /\ request'[p].took = request[p].took /\ Keep(p)' = Keep(p)
                           /\ request'[p].pc = IF p = q THEN "closed" ELSE request[p].pc
    BY <2>1
  <2>7. request' \in [Requests -> Asked]
    <3>1. [request[q] EXCEPT !.pc = "closed"] \in Asked
      OBVIOUS
    <3> HIDE DEF Asked
    <3> QED
      BY <2>1, <3>1
  <2>8. request[q].took \subseteq Ids
    OBVIOUS
  <2> HIDE DEF Keep, Asked
  <2> QED
    BY <2>1, <2>4, <2>5, <2>6, <2>7, <2>8
<1>13. CASE UNCHANGED sessionVars
  BY <1>13 DEF sessionVars
<1> QED
  BY <1>1, <1>2, <1>3, <1>4, <1>5, <1>6, <1>7, <1>8, <1>9, <1>10, <1>11, <1>12, <1>13 DEF SessionNext

\* Once a revocation has run, no socket of a session it revoked is open, for any
\* number of sessions, sockets and revocations that overlap; a socket between
\* its check and its count at that moment is the exception (wsreg.go:55-73).
THEOREM RevokedAreCut == SessionSpec => []EvictedIsCut
<1>1. SessionInv => EvictedIsCut
  BY DEF SessionInv, EvictedIsCut
<1> QED
  BY <1>1, SessionInvInit, SessionInvStep, PTL DEF SessionSpec

(***************************************************************************)
(* Terminals.                                                              *)
(***************************************************************************)
\* The manager is stopped exactly while the link is down, so an open that was
\* under way when it went down finds it stopped and keeps nothing.
TermInv ==
  /\ shell \in [Terms -> {"none", "starting", "live", "killed"}]
  /\ manager \in [active : Terms \cup {NoTerm}, stopped : BOOLEAN, opening : Terms \cup {NoTerm}]
  /\ link \in [number : Int, up : BOOLEAN]
  /\ down \in Seq([type : {"open", "input", "close"}, term : Terms])
  /\ manager.stopped <=> ~link.up
  /\ manager.opening # NoTerm => manager.active = NoTerm
  /\ ShellHasOwner

\* No shell is alive.
LEMMA TermInvInit == TerminalInit => TermInv
BY NoTermAssumption DEF TerminalInit, TermInv, NoOpening, ShellHasOwner, Live

\* A frame is read only while no open holds the manager.
LEMMA FrameKnown ==
  ASSUME TermInv, ReadsFrame
  PROVE  /\ Frame.term \in Terms /\ link.up /\ manager.opening = NoTerm
         /\ down' \in Seq([type : {"open", "input", "close"}, term : Terms])
<1>1. Head(down) \in [type : {"open", "input", "close"}, term : Terms]
  BY HeadTailProperties DEF TermInv, ReadsFrame
<1>2. Tail(down) \in Seq([type : {"open", "input", "close"}, term : Terms])
  BY HeadTailProperties DEF TermInv, ReadsFrame
<1> QED
  BY <1>1, <1>2 DEF Frame, ReadsFrame

\* What the panel queues is a frame about a known terminal.
LEMMA FrameSent ==
  ASSUME TermInv, NEW type \in {"open", "input", "close"}, NEW t \in Terms, NEW ok, Enqueues(type, t, ok)
  PROVE  down' \in Seq([type : {"open", "input", "close"}, term : Terms])
<1>1. Append(down, [type |-> type, term |-> t]) \in Seq([type : {"open", "input", "close"}, term : Terms])
  BY AppendProperties DEF TermInv
<1> QED
  BY <1>1 DEF Enqueues, TermInv

\* TermOpen, KeepTerminal, TermClose, ShutDown and Reconnect move the owner.
LEMMA TermInvStep == TermInv /\ [TerminalNext]_termVars => TermInv'
<1> SUFFICES ASSUME TermInv, [TerminalNext]_termVars PROVE TermInv'
  OBVIOUS
<1>1. CASE UNCHANGED <<link, down, manager, shell>>
  BY <1>1 DEF TermInv, ShellHasOwner, Live
<1>2. CASE /\ down' \in Seq([type : {"open", "input", "close"}, term : Terms])
           /\ UNCHANGED <<link, manager, shell>>
  BY <1>2 DEF TermInv, ShellHasOwner, Live
<1>3. ASSUME NEW t \in Terms, NEW type \in {"open", "input", "close"}, BrowserSends(t, type) PROVE TermInv'
  BY <1>2, <1>3, FrameSent DEF BrowserSends
<1>4. ASSUME NEW t \in Terms, LeaveTerminal(t) PROVE TermInv'
  BY <1>1, <1>2, <1>4, FrameSent DEF LeaveTerminal
<1>5. ASSUME NEW t \in Terms, SendTerminalKeys(t) PROVE TermInv'
  BY <1>2, <1>5, FrameSent DEF SendTerminalKeys
<1>6. ASSUME NEW t \in Terms,
             \/ AskTerminal(t) \/ OpenSocket(t) \/ BrowserGone(t)
             \/ AskTerminalBuffer(t) \/ EndQuery(t) \/ RelayTerminal(t)
      PROVE TermInv'
  BY <1>1, <1>6 DEF AskTerminal, OpenSocket, BrowserGone, SocketAt, AskTerminalBuffer, EndQuery, RelayTerminal
<1> USE NoTermAssumption DEF TermInv, ShellHasOwner, Live, Stopped
<1>7. ASSUME NEW t \in Terms, ShellEnds(t) PROVE TermInv'
  BY <1>7 DEF ShellEnds
<1>8. CASE TermOpen
  BY <1>8, FrameKnown DEF TermOpen
<1>9. CASE StartTerminal
  BY <1>9 DEF StartTerminal
<1>10. CASE KeepTerminal
  BY <1>10 DEF KeepTerminal, GoesAhead
<1>11. CASE TermInput
  BY <1>11, FrameKnown DEF TermInput
<1>12. CASE TermClose
  BY <1>12, FrameKnown DEF TermClose
<1>13. CASE ShutDown
  <2>1. /\ link.up /\ link' = [link EXCEPT !.up = FALSE] /\ down' = <<>>
        /\ manager' = [[manager EXCEPT !.stopped = TRUE] EXCEPT !.active = NoTerm]
        /\ shell' = Stopped(manager.active)
    BY <1>13 DEF ShutDown
  <2>2. \A t \in Terms : ~Live(t)'
    BY <2>1
  <2>3. shell' \in [Terms -> {"none", "starting", "live", "killed"}]
    BY <2>1
  <2>4. manager' \in [active : Terms \cup {NoTerm}, stopped : BOOLEAN, opening : Terms \cup {NoTerm}]
    BY <2>1
  <2>5. manager'.stopped /\ manager'.active = NoTerm /\ ~link'.up /\ link' \in [number : Int, up : BOOLEAN]
    BY <2>1
  <2>6. down' \in Seq([type : {"open", "input", "close"}, term : Terms])
    BY <2>1
  <2> QED
    BY <2>2, <2>3, <2>4, <2>5, <2>6
<1>14. CASE Reconnect
  BY <1>14 DEF Reconnect, NoOpening
<1>15. CASE UNCHANGED termVars
  BY <1>1, <1>15 DEF termVars
<1> HIDE DEF TermInv
<1> QED
  BY <1>3, <1>4, <1>5, <1>6, <1>7, <1>8, <1>9, <1>10, <1>11, <1>12, <1>13, <1>14, <1>15 DEF TerminalNext

\* No shell is left running behind a newer one or past its connection, for any
\* number of terminals and of frames in flight (terminal.go:80-124, 188-197).
THEOREM ShellsAreOwned == TerminalSpec => []ShellHasOwner
<1>1. TermInv => ShellHasOwner
  BY DEF TermInv
<1> QED
  BY <1>1, TermInvInit, TermInvStep, PTL DEF TerminalSpec

(***************************************************************************)
(* Enrolment.                                                              *)
(***************************************************************************)
Machines == (Hosts \X Nat) \cup {<<>>}
AnyNode == Nodes \cup {NoNode}
NodeRows == [state : {"none", "exists", "deleted"}, machine : Machines, secret : Nat]
Registrations == [pc : {"idle", "consumed", "writing", "answered"}, token : Tokens \cup {"none"},
                  bound : AnyNode, machine : Machines, claim : AnyNode, secret : Nat, target : AnyNode,
                  adopts : BOOLEAN, knew : BOOLEAN]
\* A registration may write over a node that its token is bound to, or that it
\* knew the secret of when the token was bound to none.
Licensed(r) == r.target = NoNode \/ r.bound = r.target \/ (r.bound = NoNode /\ r.knew)

\* Whoever is about to write was licensed when it decided.
EnrolInv ==
  /\ token \in [Tokens -> [state : {"none", "fresh", "used", "expired"}, bound : AnyNode]]
  /\ node \in [Nodes -> NodeRows]
  /\ host \in [Hosts -> [machine : Hosts \X Nat, node : AnyNode, secret : Nat]]
  /\ registration \in [Hosts -> Registrations]
  /\ secrets \in Nat
  /\ \A h \in Hosts : registration[h].pc = "writing" => Licensed(registration[h])

\* No registration is one.
LEMMA IdleTyped == Idle \in Registrations
BY DEF Idle, Registrations, Machines, AnyNode, NoSecret

\* No registration is under way.
LEMMA EnrolInvInit == EnrolInit => EnrolInv
<1> SUFFICES ASSUME EnrolInit PROVE EnrolInv
  OBVIOUS
<1>1. \A h \in Hosts : [machine |-> <<h, 0>>, node |-> NoNode, secret |-> NoSecret]
        \in [machine : Hosts \X Nat, node : AnyNode, secret : Nat]
  BY DEF NoSecret, AnyNode
<1>2. node \in [Nodes -> NodeRows]
  BY DEF EnrolInit, NodeRows, Machines, NoSecret
<1>3. registration \in [Hosts -> Registrations] /\ \A h \in Hosts : registration[h].pc = "idle"
  BY IdleTyped DEF EnrolInit, Idle
<1> QED
  BY <1>1, <1>2, <1>3 DEF EnrolInit, EnrolInv, AnyNode

\* The lookup finds only targets the token allows.
LEMMA Decided ==
  ASSUME EnrolInv, NEW h \in Hosts, NEW n \in Targets(registration[h])
  PROVE  LET r == registration[h]
             d == [r EXCEPT !.pc = "writing", !.target = n, !.adopts = ByMachine(r.machine) = {},
                            !.knew = Knows(r, n)]
         IN  d \in Registrations /\ Licensed(d)
<1> DEFINE r == registration[h]
           d == [r EXCEPT !.pc = "writing", !.target = n, !.adopts = ByMachine(r.machine) = {},
                          !.knew = Knows(r, n)]
<1>1. r \in Registrations
  BY DEF EnrolInv
<1>2. n \in AnyNode
  BY <1>1 DEF Targets, ByMachine, AnyNode, Registrations
<1>3. n = NoNode \/ r.bound = n \/ (r.bound = NoNode /\ Knows(r, n))
  BY DEF Targets, Allowed
<1>4. Knows(r, n) \in BOOLEAN /\ (ByMachine(r.machine) = {}) \in BOOLEAN
  BY DEF Knows
<1>5. d \in Registrations
  BY <1>1, <1>2, <1>4 DEF Registrations
<1>6. d.target = n /\ d.bound = r.bound /\ d.knew = Knows(r, n)
  BY <1>1 DEF Registrations
<1> QED
  BY <1>3, <1>5, <1>6 DEF Licensed

\* What WriteNode stores is well formed.
LEMMA NodeWritten ==
  ASSUME EnrolInv, NEW h \in Hosts, NEW n \in IdsFor(registration[h])
  PROVE  /\ [registration[h] EXCEPT !.pc = "answered", !.target = n, !.secret = secrets + 1] \in Registrations
         /\ Row(registration[h], n) \in NodeRows
         /\ n \in Nodes
<1>0. registration[h] \in Registrations /\ node \in [Nodes -> NodeRows] /\ secrets + 1 \in Nat
  BY DEF EnrolInv
<1>1. n \in Nodes
  BY <1>0 DEF IdsFor, Registrations, AnyNode
<1>2. ASSUME NEW s \in Nat
      PROVE  /\ [registration[h] EXCEPT !.pc = "answered", !.target = n, !.secret = s] \in Registrations
             /\ [state |-> "exists", secret |-> s, machine |-> registration[h].machine] \in NodeRows
             /\ [state |-> "exists", secret |-> s, machine |-> node[n].machine] \in NodeRows
  BY <1>0, <1>1 DEF Registrations, AnyNode, NodeRows
<1>3. Row(registration[h], n) \in NodeRows
  BY <1>0, <1>2 DEF Row
<1> QED
  BY <1>0, <1>1, <1>2, <1>3

\* Decide is the step that makes a registration licensed.
LEMMA EnrolInvStep == EnrolInv /\ [EnrolNext]_enrolVars => EnrolInv'
<1> SUFFICES ASSUME EnrolInv, [EnrolNext]_enrolVars PROVE EnrolInv'
  OBVIOUS
<1> USE DEF EnrolInv
<1>1. ASSUME NEW t \in Tokens, ExpireToken(t) PROVE EnrolInv'
  BY <1>1 DEF ExpireToken, Mishap
<1>2. ASSUME NEW t \in Tokens, NEW bound \in Nodes \cup {NoNode}, CreateRegToken(t, bound) PROVE EnrolInv'
  BY <1>2 DEF CreateRegToken, AnyNode
<1>3. ASSUME NEW t \in Tokens, NEW h \in Hosts, ConsumeRegToken(h, t) PROVE EnrolInv'
  <2> DEFINE r == [Idle EXCEPT !.pc = "consumed", !.token = t, !.bound = token[t].bound,
                               !.machine = host[h].machine, !.claim = host[h].node, !.secret = host[h].secret]
  <2>1. host[h].machine \in Machines /\ host[h].node \in AnyNode /\ host[h].secret \in Nat
        /\ token[t].bound \in AnyNode
    BY DEF Machines
  <2>2. r \in Registrations /\ r.pc = "consumed"
    BY <2>1, IdleTyped DEF Registrations
  <2>3. registration' = [registration EXCEPT ![h] = r] /\ token' = [token EXCEPT ![t].state = "used"]
        /\ UNCHANGED <<node, host, secrets>>
    BY <1>3 DEF ConsumeRegToken
  <2> HIDE DEF r
  <2> QED
    BY <2>2, <2>3
<1>4. ASSUME NEW h \in Hosts, Decide(h) PROVE EnrolInv'
  <2>1. UNCHANGED <<token, node, host, secrets>>
    BY <1>4 DEF Decide
  <2>2. CASE registration' = [registration EXCEPT ![h] = Idle]
    BY <2>1, <2>2, IdleTyped DEF Idle
  <2>3. CASE \E r \in Registrations : registration' = [registration EXCEPT ![h] = r] /\ Licensed(r)
    BY <2>1, <2>3
  <2>4. ASSUME NEW n \in Targets(registration[h]),
               registration' = [registration EXCEPT ![h] =
                 [registration[h] EXCEPT !.pc = "writing", !.target = n,
                    !.adopts = ByMachine(registration[h].machine) = {}, !.knew = Knows(registration[h], n)]]
        PROVE  EnrolInv'
    <3> HIDE DEF EnrolInv
    <3> QED
      BY <2>3, <2>4, Decided
  <2> HIDE DEF EnrolInv
  <2> QED
    BY <1>4, <2>2, <2>4 DEF Decide
<1>5. ASSUME NEW h \in Hosts, WriteNode(h) PROVE EnrolInv'
  <2>1. PICK n \in IdsFor(registration[h]) :
          /\ node' = IF node[n].state = "deleted" THEN node ELSE [node EXCEPT ![n] = Row(registration[h], n)]
          /\ registration' = [registration EXCEPT ![h] =
               [registration[h] EXCEPT !.pc = "answered", !.target = n, !.secret = secrets + 1]]
    BY <1>5 DEF WriteNode
  <2>2. secrets' \in Nat /\ UNCHANGED <<token, host>>
    BY <1>5 DEF WriteNode
  <2> DEFINE r == [registration[h] EXCEPT !.pc = "answered", !.target = n, !.secret = secrets + 1]
  <2>3. r \in Registrations /\ Row(registration[h], n) \in NodeRows
    BY NodeWritten
  <2>4. r.pc = "answered"
    BY DEF Registrations
  <2>5. registration' = [registration EXCEPT ![h] = r]
    BY <2>1
  <2> HIDE DEF r
  <2>6. node' \in [Nodes -> NodeRows]
    BY <2>1, <2>3
  <2> QED
    BY <2>2, <2>3, <2>4, <2>5, <2>6
<1>6. ASSUME NEW h \in Hosts, WriteClashes(h) PROVE EnrolInv'
  BY <1>6, IdleTyped DEF WriteClashes, Idle
<1>7. ASSUME NEW h \in Hosts, NEW lost \in BOOLEAN, Answered(h, lost) PROVE EnrolInv'
  <2>1. registration' = [registration EXCEPT ![h] = Idle] /\ UNCHANGED <<token, node, secrets>>
    BY <1>7 DEF Answered
  <2>2. host' \in [Hosts -> [machine : Hosts \X Nat, node : AnyNode, secret : Nat]]
    <3> DEFINE c == [[host[h] EXCEPT !.node = registration[h].target] EXCEPT !.secret = registration[h].secret]
    <3>1. registration[h].target \in AnyNode /\ registration[h].secret \in Nat
      BY DEF Registrations
    <3>2. c \in [machine : Hosts \X Nat, node : AnyNode, secret : Nat]
      <4> DEFINE M == Hosts \X Nat
      <4>1. host[h] \in [machine : M, node : AnyNode, secret : Nat]
        OBVIOUS
      <4> HIDE DEF M
      <4>2. c \in [machine : M, node : AnyNode, secret : Nat]
        BY <3>1, <4>1
      <4> QED
        BY <4>2 DEF M
    <3>3. host' = IF lost THEN host ELSE [host EXCEPT ![h] = c]
      BY <1>7 DEF Answered
    <3> HIDE DEF c
    <3> QED
      BY <3>2, <3>3
  <2> QED
    BY <2>1, <2>2, IdleTyped DEF Idle
<1>8. ASSUME NEW h \in Hosts, NEW whole \in BOOLEAN, LoseConfig(h, whole) PROVE EnrolInv'
  <2>1. UNCHANGED <<token, node, registration, secrets>>
    BY <1>8 DEF LoseConfig
  <2> DEFINE m == IF whole THEN <<h, host[h].machine[2] + 1>> ELSE host[h].machine
             c == [machine |-> m, node |-> NoNode, secret |-> NoSecret]
  <2>2. host[h].machine \in Hosts \X Nat
    OBVIOUS
  <2>3. host[h].machine[2] + 1 \in Nat
    BY <2>2
  <2>4. m \in Hosts \X Nat
    BY <2>2, <2>3
  <2> HIDE DEF m
  <2>5. c \in [machine : Hosts \X Nat, node : AnyNode, secret : Nat]
    BY <2>4 DEF AnyNode, NoSecret
  <2>6. host' = [host EXCEPT ![h] = c]
    BY <1>8 DEF LoseConfig, m
  <2> HIDE DEF c
  <2> QED
    BY <2>1, <2>5, <2>6
<1>9. ASSUME NEW n \in Nodes, DeleteNode(n) PROVE EnrolInv'
  BY <1>9 DEF DeleteNode, NodeRows
<1>10. ASSUME NEW h \in Hosts, ConnectAgent(h) PROVE EnrolInv'
  BY <1>10 DEF ConnectAgent
<1>11. CASE UNCHANGED enrolVars
  BY <1>11 DEF enrolVars
<1> HIDE DEF EnrolInv
<1> QED
  BY <1>1, <1>2, <1>3, <1>4, <1>5, <1>6, <1>7, <1>8, <1>9, <1>10, <1>11 DEF EnrolNext

\* For any number of nodes, hosts and tokens, the secret of a node is replaced
\* only by a registration that was licensed to (agent_handlers.go:133-185).
THEOREM CredentialsStay == EnrolSpec => SecretsStay
<1> DEFINE Replaced(n) == Exists(n) /\ Secret(n)' # Secret(n) /\ Exists(n)'
           By(n, h) == /\ registration[h].pc = "writing" /\ registration'[h].pc = "answered"
                       /\ registration[h].target = n
                       /\ registration[h].bound = n \/ (registration[h].bound = NoNode /\ registration[h].knew)
<1>1. ASSUME EnrolInv, [EnrolNext]_enrolVars, NEW n \in Nodes, Replaced(n)
      PROVE  \E h \in Hosts : By(n, h)
  <2>1. node[n].state = "exists" /\ node'[n] # node[n] /\ n # NoNode
    BY <1>1 DEF Exists, Secret
  <2>2. CASE \E h \in Hosts : WriteNode(h)
    <3>1. PICK h \in Hosts : WriteNode(h)
      BY <2>2
    <3>2. PICK m \in IdsFor(registration[h]) :
            /\ node' = IF node[m].state = "deleted" THEN node ELSE [node EXCEPT ![m] = Row(registration[h], m)]
            /\ registration' = [registration EXCEPT ![h] =
                 [registration[h] EXCEPT !.pc = "answered", !.target = m, !.secret = secrets + 1]]
      BY <3>1 DEF WriteNode
    <3>3. n = m
      BY <1>1, <2>1, <3>2 DEF EnrolInv
    <3>4. registration[h].target = n
      BY <2>1, <3>2, <3>3 DEF IdsFor
    <3>5. registration[h].pc = "writing" /\ registration'[h].pc = "answered"
      BY <1>1, <3>1, <3>2 DEF WriteNode, EnrolInv, Registrations
    <3>6. Licensed(registration[h])
      BY <1>1, <3>5 DEF EnrolInv
    <3> QED
      BY <2>1, <3>4, <3>5, <3>6 DEF Licensed
  <2>3. CASE \E m \in Nodes : DeleteNode(m)
    <3>1. PICK m \in Nodes : DeleteNode(m)
      BY <2>3
    <3>2. node' = [node EXCEPT ![m].state = "deleted"] /\ node \in [Nodes -> NodeRows]
      BY <1>1, <3>1 DEF DeleteNode, EnrolInv
    <3>3. n = m /\ node'[n].state = "deleted"
      BY <2>1, <3>2 DEF NodeRows
    <3> QED
      BY <1>1, <3>3 DEF Exists
  <2>4. CASE UNCHANGED node
    BY <2>1, <2>4
  <2> QED
    BY <1>1, <2>2, <2>3, <2>4 DEF EnrolNext, enrolVars, ExpireToken, CreateRegToken, ConsumeRegToken, Decide,
       WriteClashes, ConnectAgent, LoseConfig, Answered
<1>2. EnrolInv /\ [EnrolNext]_enrolVars => [\A n \in Nodes : Replaced(n) => \E h \in Hosts : By(n, h)]_enrolVars
  BY <1>1
<1>3. EnrolSpec => []EnrolInv
  BY EnrolInvInit, EnrolInvStep, PTL DEF EnrolSpec
<1> QED
  BY <1>2, <1>3, PTL DEF EnrolSpec, SecretsStay

(***************************************************************************)
(* Reminders.                                                              *)
(***************************************************************************)
\* The stage a date has today.
StageOf(day) == IF day - today <= 0 THEN 0 ELSE day - today
\* Values of raising.
Raisings == [stage : Dates, due : Dates]

\* A stage that has been reminded of is a later one than the date has now, or it
\* is the one that is open.
ReminderInv ==
  /\ today \in Dates /\ due \in Dates \cup {NoStage} /\ reminder \in Dates \cup {NoStage}
  /\ raising \in Raisings \cup {Nothing}
  /\ reminded \in [Dates -> {0, 1}]
  /\ raising # Nothing => /\ raising.stage >= StageOf(raising.due)
                          /\ raising.stage = 0 \/ raising.stage \in Stages
  /\ \A s \in Dates : reminded[s] = 1 =>
       /\ s = 0 \/ s \in Stages
       /\ IF raising # Nothing THEN raising.due = due /\ s > raising.stage
          ELSE s > StageOf(due) \/ (s = StageOf(due) /\ reminder = s)

\* No stage has been reminded of.
LEMMA ReminderInvInit == ReminderInit => ReminderInv
BY StagesAssumption DEF ReminderInit, ReminderInv, Dates, NoStage, Nothing

\* Days pass, so stages only go down until the date is edited.
LEMMA ReminderInvStep == ReminderInv /\ [ReminderNext]_reminderVars => ReminderInv'
<1> SUFFICES ASSUME ReminderInv, [ReminderNext]_reminderVars PROVE ReminderInv'
  OBVIOUS
<1> USE StagesAssumption DEF ReminderInv, Dates, NoStage, Raisings, StageOf
<1>1. ASSUME NEW day \in Dates, UpsertNodeBilling(day) PROVE ReminderInv'
  BY <1>1 DEF UpsertNodeBilling
<1>2. CASE NextDay
  BY <1>2 DEF NextDay
<1>3. CASE closeBillingAlerts
  BY <1>3 DEF closeBillingAlerts, Pass, billingKind, billingStageOpen, Stage, Left, Nothing
<1>4. CASE CreateReminder
  BY <1>4 DEF CreateReminder, Nothing
<1>5. CASE PanelStops
  BY <1>5 DEF PanelStops, Nothing
<1>6. CASE UNCHANGED reminderVars
  BY <1>6 DEF reminderVars
<1> QED
  BY <1>1, <1>2, <1>3, <1>4, <1>5, <1>6 DEF ReminderNext

\* Each stage of a date is reminded of at most once, for any set of stages and
\* however long the panel runs (scheduler.go:446-538).
THEOREM StagesRemindOnce == ReminderSpec => []RemindedOnce
<1>1. ReminderInv => RemindedOnce
  BY DEF ReminderInv, RemindedOnce
<1> QED
  BY <1>1, ReminderInvInit, ReminderInvStep, PTL DEF ReminderSpec

(***************************************************************************)
(* Data files.                                                             *)
(***************************************************************************)
\* Values of a status and the origins a file may have.
States == {"ok", "failed", "pending", "disabled"}
Origins == {Missing, Unknown, Upload} \cup {Mirrors[i] : i \in DOMAIN Mirrors}
\* Between the file and the word about it the writer remembers what it wrote;
\* otherwise the word is true, or the source is unknown.
DatabaseInv ==
  /\ db \in [origin : Origins, old : BOOLEAN]
  /\ status \in [state : States, source : Origins]
  /\ update \in [pc : {"idle", "asked", "moved"}, mirror : Nat]
  /\ upload \in {"idle", "moved"}
  /\ unsure \in BOOLEAN
  /\ update.pc # "idle" => update.mirror \in DOMAIN Mirrors
  /\ ~unsure /\ update.pc = "moved" => upload = "idle" /\ db.origin = Mirrors[update.mirror]
  /\ ~unsure /\ upload = "moved" => db.origin = Upload
  /\ ~unsure /\ update.pc # "moved" /\ upload = "idle" /\ status.source # Unknown => status.source = db.origin

\* The catalogue a document on disk gives.
InMemory(doc) == IF doc = Corrupt THEN NoDoc ELSE doc
CatalogueInv ==
  /\ cache \in [doc : Int, old : BOOLEAN]
  /\ refresh \in [pc : {"idle", "asked", "parsed", "moved"}, doc : Nat]
  /\ docs \in Nat
  /\ IF refresh.pc = "moved" THEN cache.doc = refresh.doc ELSE index = InMemory(cache.doc)

\* Files are found, nothing has been told of them.
LEMMA DataInvInit == DataInit => DatabaseInv /\ CatalogueInv
<1> SUFFICES ASSUME DataInit PROVE DatabaseInv /\ CatalogueInv
  OBVIOUS
<1>1. Missing \in Origins /\ Unknown \in Origins /\ "disabled" \in States
  BY DEF Origins, States
<1>2. DatabaseInv
  BY <1>1 DEF DataInit, DatabaseInv, NoUpdate
<1>3. CatalogueInv
  BY DEF DataInit, CatalogueInv, InMemory, NoRefresh, NoDoc, Corrupt
<1> QED
  BY <1>2, <1>3

\* Of the database: refresh, upload, ageing and restart.
LEMMA DatabaseInvStep == DatabaseInv /\ [DataNext]_dataVars => DatabaseInv'
<1> SUFFICES ASSUME DatabaseInv, [DataNext]_dataVars PROVE DatabaseInv'
  OBVIOUS
<1>0. /\ 1 \in DOMAIN Mirrors
      /\ \A i \in DOMAIN Mirrors : Mirrors[i] # Unknown
      /\ \A i \in DOMAIN Mirrors : i < Len(Mirrors) => i + 1 \in DOMAIN Mirrors
  BY MirrorsAssumption
<1>s. /\ {"ok", "failed", "pending", "disabled"} \subseteq States
      /\ Unknown \in Origins /\ Upload \in Origins /\ \A i \in DOMAIN Mirrors : Mirrors[i] \in Origins
  BY DEF Origins, States
<1>u. Upload # Unknown
  BY DEF Upload, Unknown
<1>t. \A state \in States, source \in Origins :
        /\ Told(state, source) \in [state : States, source : Origins]
        /\ Told(state, source).source = IF source = Unknown THEN status.source ELSE source
  BY DEF DatabaseInv, Told
<1> USE <1>0, <1>s, <1>u, <1>t DEF DatabaseInv
<1>1. ASSUME NEW force \in BOOLEAN, Ensure(force) PROVE DatabaseInv'
  BY <1>1 DEF Ensure
<1>2. CASE CheckFresh
  BY <1>2 DEF CheckFresh
<1>3. CASE MirrorFails
  BY <1>3 DEF MirrorFails, NoUpdate
<1>4. CASE CommitMMDB
  BY <1>4 DEF CommitMMDB
<1>5. CASE TellUpdated
  BY <1>5 DEF TellUpdated, NoUpdate
<1>6. CASE WriteMMDB
  BY <1>6 DEF WriteMMDB
<1>7. CASE TellUploaded
  BY <1>7 DEF TellUploaded, NoteInstalled
<1>8. CASE FilesAge
  BY <1>8 DEF FilesAge
<1>9. CASE UpdatersRestart
  <2>1. \E state \in States : status' = Told(state, Unknown)
    BY <1>9 DEF UpdatersRestart
  <2>2. status' \in [state : States, source : Origins] /\ status'.source = status.source
    BY <2>1
  <2>3. /\ update' \in [pc : {"idle", "asked", "moved"}, mirror : Nat] /\ update'.pc # "moved"
        /\ update'.pc # "idle" => update'.mirror \in DOMAIN Mirrors
    BY <1>9 DEF UpdatersRestart, NoUpdate
  <2>4. /\ unsure' = (unsure \/ update.pc = "moved" \/ upload = "moved")
        /\ upload' = "idle" /\ db' = db
    BY <1>9 DEF UpdatersRestart
  <2> QED
    BY <2>2, <2>3, <2>4
<1>10. CASE UNCHANGED <<db, status, update, upload, unsure>>
  BY <1>10
<1> HIDE DEF DatabaseInv
<1> QED
  BY <1>1, <1>2, <1>3, <1>4, <1>5, <1>6, <1>7, <1>8, <1>9, <1>10
     DEF DataNext, dataVars, dbVars, EnsureIndex, FetchCatalogueFails, ParseCatalogue, InstallCatalogue,
         SwapIndex, SwitchAuto

\* Of the catalogue: a document is installed only once it has been parsed.
LEMMA CatalogueInvStep == CatalogueInv /\ [DataNext]_dataVars => CatalogueInv'
<1> SUFFICES ASSUME CatalogueInv, [DataNext]_dataVars PROVE CatalogueInv'
  OBVIOUS
<1> USE DEF CatalogueInv, InMemory, NoDoc, Corrupt, NoRefresh
<1>1. ASSUME NEW force \in BOOLEAN, EnsureIndex(force) PROVE CatalogueInv'
  BY <1>1 DEF EnsureIndex, Expired
<1>2. CASE FetchCatalogueFails
  BY <1>2 DEF FetchCatalogueFails
<1>3. CASE ParseCatalogue
  BY <1>3 DEF ParseCatalogue, IndexWhenParsed
<1>4. CASE InstallCatalogue
  BY <1>4 DEF InstallCatalogue
<1>5. CASE SwapIndex
  BY <1>5 DEF SwapIndex
<1>6. CASE FilesAge
  BY <1>6 DEF FilesAge
<1>7. CASE UpdatersRestart
  BY <1>7 DEF UpdatersRestart
<1>8. CASE UNCHANGED catalogueVars
  BY <1>8 DEF catalogueVars
<1> HIDE DEF CatalogueInv
<1> QED
  BY <1>1, <1>2, <1>3, <1>4, <1>5, <1>6, <1>7, <1>8
     DEF DataNext, dataVars, Ensure, CheckFresh, MirrorFails, CommitMMDB, TellUpdated, WriteMMDB, TellUploaded,
         SwitchAuto

\* The panel names the origin of the database it has, for any list of mirrors
\* (geoipupdate.go:390-448).
THEOREM OriginsAreTold == DataSpec => []OriginIsTold
<1>1. DatabaseInv => OriginIsTold
  BY DEF DatabaseInv, OriginIsTold
<1> QED
  BY <1>1, DataInvInit, DatabaseInvStep, PTL DEF DataSpec

\* What is in memory is what a restart would read from disk, for any number of
\* refreshes (modelsdev.go:300-334).
THEOREM MemoryIsDisk == DataSpec => []IndexIsCache
<1>1. CatalogueInv => IndexIsCache
  BY DEF CatalogueInv, IndexIsCache, InMemory
<1> QED
  BY <1>1, DataInvInit, CatalogueInvStep, PTL DEF DataSpec

(***************************************************************************)
(* Traffic.                                                                *)
(***************************************************************************)
\* Reports, rows and what a reader holds.
Picks == Ifaces \cup {Automatic}
Reading == [iface : Ifaces, raw : Nat, ts : Nat, total : Nat]
Rows == [raw : Int, ts : Nat, start : Int, used : Int, total : Nat]
MeterTypes ==
  /\ raw \in [Ifaces -> Nat] /\ carried \in [Ifaces -> Nat] /\ booked \in [Ifaces -> Nat]
  /\ probe \in Picks /\ net \in [iface : Picks, cycle : BOOLEAN]
  /\ conn \in 1..MaxConns /\ clock \in Nat /\ spoilt \in BOOLEAN
  /\ frames \in [1..MaxConns -> Seq(Reading)]
  /\ counter \in [Ifaces -> Rows]
  /\ reader \in [1..MaxConns -> [busy : BOOLEAN, frame : Reading \cup {NoFrame}, prev : Rows]]
  /\ \A c \in 1..MaxConns : reader[c].busy => reader[c].frame \in Reading

\* The later of two readings shows no more growth than the interface carried between them:
\* a counter starts over, it does not jump.
Follows(later, earlier) ==
  /\ earlier.total <= later.total
  /\ earlier.raw >= 0 => later.raw - earlier.raw <= later.total - earlier.total
Now(i) == [raw |-> raw[i], total |-> carried[i]]
InOrder(queue) ==
  \A m, n \in 1..Len(queue) :
    m < n /\ queue[m].iface = queue[n].iface => Follows(queue[n], queue[m])
\* What was read lies in the past, and a connection delivers in order.
Past ==
  /\ \A i \in Ifaces : Follows(Now(i), counter[i])
  /\ \A c \in 1..MaxConns :
       /\ InOrder(frames[c])
       /\ \A n \in 1..Len(frames[c]) : Follows(Now(frames[c][n].iface), frames[c][n])
       /\ reader[c].busy => Follows(Now(reader[c].frame.iface), reader[c].frame)
\* Until something is spoilt one report is applied at a time, to the row it was read
\* against, and it is older than all that wait.
OneByOne ==
  /\ \A i \in Ifaces : booked[i] <= counter[i].total
  /\ \A c \in 1..MaxConns, n \in Nat :
       n \in 1..Len(frames[c]) => Follows(frames[c][n], counter[frames[c][n].iface])
  /\ \A c \in 1..MaxConns : reader[c].busy =>
       LET f == reader[c].frame
       IN  /\ \A b \in 1..MaxConns : reader[b].busy => b = c
           /\ reader[c].prev \in {counter[f.iface], NoRow}
           /\ Follows(f, counter[f.iface])
           /\ \A b \in 1..MaxConns, n \in Nat :
                n \in 1..Len(frames[b]) /\ frames[b][n].iface = f.iface => Follows(frames[b][n], f)
MeterInv == MeterTypes /\ Past /\ (spoilt \/ OneByOne)

\* A probe is enrolled with nothing reported and nothing booked.
LEMMA MeterInvInit == MeterInit => MeterInv
<1> SUFFICES ASSUME MeterInit PROVE MeterInv
  OBVIOUS
<1> USE MeterAssumption
<1>1. NoRow \in Rows /\ NoRow.raw = -1 /\ NoRow.total = 0
  BY DEF NoRow, Rows
<1>2. \A c \in 1..MaxConns : frames[c] = <<>> /\ Len(frames[c]) = 0 /\ ~reader[c].busy
  BY DEF MeterInit, IdleReader
<1>3. MeterTypes
  <2>1. <<>> \in Seq(Reading)
    OBVIOUS
  <2>2. IdleReader \in [busy : BOOLEAN, frame : Reading \cup {NoFrame}, prev : Rows]
    BY <1>1 DEF IdleReader
  <2>3. raw \in [Ifaces -> Nat] /\ carried \in [Ifaces -> Nat] /\ booked \in [Ifaces -> Nat]
        /\ counter \in [Ifaces -> Rows]
    BY <1>1 DEF MeterInit
  <2>4. /\ probe \in Picks /\ net \in [iface : Picks, cycle : BOOLEAN] /\ conn \in 1..MaxConns
        /\ clock \in Nat /\ spoilt \in BOOLEAN
    <3>1. probe = Automatic /\ net = [iface |-> Automatic, cycle |-> FALSE] /\ Automatic \in Picks
      BY DEF MeterInit, Picks
    <3>2. conn = 1 /\ clock = 0 /\ spoilt = FALSE /\ 1 \in 1..MaxConns
      BY DEF MeterInit
    <3> QED
      BY <3>1, <3>2
  <2>5. frames \in [1..MaxConns -> Seq(Reading)]
    BY <2>1 DEF MeterInit
  <2>6. reader \in [1..MaxConns -> [busy : BOOLEAN, frame : Reading \cup {NoFrame}, prev : Rows]]
    BY <2>2 DEF MeterInit
  <2>7. \A c \in 1..MaxConns : reader[c].busy => reader[c].frame \in Reading
    BY <1>2
  <2> QED
    BY <2>3, <2>4, <2>5, <2>6, <2>7 DEF MeterTypes
<1>4. \A i \in Ifaces : counter[i] = NoRow /\ raw[i] = 1 /\ carried[i] = 0 /\ booked[i] = 0
  BY DEF MeterInit
<1>5. Past
  <2>1. \A i \in Ifaces : Follows(Now(i), counter[i])
    <3> SUFFICES ASSUME NEW i \in Ifaces PROVE Follows(Now(i), counter[i])
      OBVIOUS
    <3>1. counter[i].raw = -1 /\ counter[i].total = 0 /\ Now(i).total = 0
      BY <1>1, <1>4 DEF Now
    <3> QED
      BY <3>1 DEF Follows
  <2> QED
    BY <1>2, <2>1 DEF Past, InOrder
<1>6. OneByOne
  BY <1>1, <1>2, <1>4 DEF OneByOne
<1> QED
  BY <1>3, <1>5, <1>6 DEF MeterInv

\* What a step may do to the queue of a connection: nothing, lose it, deliver its oldest
\* report, or take in a reading of the moment.
LEMMA QueueStep ==
  ASSUME MeterTypes, MeterNext, NEW c \in 1..MaxConns
  PROVE  \/ frames'[c] = frames[c]
         \/ frames'[c] = <<>>
         \/ frames[c] # <<>> /\ frames'[c] = Tail(frames[c])
         \/ \E i \in Ifaces : \E f \in Reading :
              /\ frames'[c] = Append(frames[c], f)
              /\ f.iface = i /\ f.raw = raw[i] /\ f.total = carried[i]
              /\ UNCHANGED <<raw, carried>>
<1> USE MeterAssumption
<1>f. DOMAIN frames = 1..MaxConns /\ conn \in 1..MaxConns /\ clock \in Nat
      /\ raw \in [Ifaces -> Nat] /\ carried \in [Ifaces -> Nat]
      /\ frames \in [1..MaxConns -> Seq(Reading)]
  BY DEF MeterTypes
<1>1. ASSUME NEW told \in Picks, Report(told), UNCHANGED <<raw, carried>>
      PROVE  \/ frames'[c] = frames[c]
             \/ \E i \in Ifaces : \E f \in Reading :
                  /\ frames'[c] = Append(frames[c], f)
                  /\ f.iface = i /\ f.raw = raw[i] /\ f.total = carried[i]
                  /\ UNCHANGED <<raw, carried>>
  <2> DEFINE i == Measured(told)
             f == [iface |-> i, raw |-> raw[i], ts |-> clock, total |-> carried[i]]
  <2>1. i \in Ifaces
    BY DEF Measured, Picks
  <2>2. f \in Reading /\ f.iface = i /\ f.raw = raw[i] /\ f.total = carried[i]
    BY <1>f, <2>1 DEF Reading
  <2>3. frames' = [frames EXCEPT ![conn] = Append(frames[conn], f)]
    BY <1>1 DEF Report
  <2> HIDE DEF i, f
  <2>4. c # conn => frames'[c] = frames[c]
    BY <1>f, <2>3
  <2>5. c = conn => frames'[c] = Append(frames[c], f)
    BY <1>f, <2>3
  <2> QED
    BY <1>1, <2>1, <2>2, <2>4, <2>5
<1>2. CASE reportOnce
  BY <1>1, <1>2 DEF reportOnce, MeterTypes
<1>3. CASE setTrafficIface
  BY <1>1, <1>3 DEF setTrafficIface, MeterTypes
<1>4. ASSUME NEW reboot \in BOOLEAN, NEW lost \in BOOLEAN, LinkDrops(reboot, lost)
      PROVE  frames'[c] = frames[c] \/ frames'[c] = <<>>
  BY <1>f, <1>4 DEF LinkDrops
<1>5. ASSUME NEW b \in 1..MaxConns, NEW known \in BOOLEAN, onTraffic(b, known)
      PROVE  frames'[c] = frames[c] \/ (frames[c] # <<>> /\ frames'[c] = Tail(frames[c]))
  BY <1>f, <1>5 DEF onTraffic
<1>6. CASE UNCHANGED frames
  BY <1>6
<1> QED
  BY <1>2, <1>3, <1>4, <1>5, <1>6
     DEF MeterNext, Carry, DayPasses, accumulate, UpdateNetwork, checkTraffic, wireVars

\* A report of the queue was there before, or it is a reading of the moment.
LEMMA OldOrFresh ==
  ASSUME MeterTypes, MeterNext, NEW c \in 1..MaxConns, NEW n \in 1..Len(frames'[c])
  PROVE  /\ frames'[c] \in Seq(Reading) /\ frames'[c][n] \in Reading
         /\ \/ \E m \in 1..Len(frames[c]) : frames'[c][n] = frames[c][m]
            \/ \E i \in Ifaces : /\ frames'[c][n].iface = i
                                 /\ frames'[c][n].raw = raw[i] /\ frames'[c][n].total = carried[i]
                                 /\ UNCHANGED <<raw, carried>>
<1> DEFINE s == frames[c]
<1>s. s \in Seq(Reading) /\ Len(s) \in Nat /\ \A m \in 1..Len(s) : s[m] \in Reading
  BY LenProperties, ElementOfSeq DEF MeterTypes
<1> HIDE DEF s
<1>1. CASE frames'[c] = s
  BY <1>1, <1>s DEF s
<1>2. CASE frames'[c] = <<>>
  BY <1>2
<1>3. CASE s # <<>> /\ frames'[c] = Tail(s)
  <2>1. Tail(s) \in Seq(Reading) /\ Len(Tail(s)) = Len(s) - 1
        /\ \A m \in 1..Len(s) - 1 : Tail(s)[m] = s[m + 1]
    BY <1>s, <1>3, HeadTailProperties
  <2>2. n \in 1..Len(s) - 1 /\ n + 1 \in 1..Len(s)
    BY <1>s, <1>3, <2>1
  <2> QED
    BY <1>s, <1>3, <2>1, <2>2 DEF s
<1>4. ASSUME NEW i \in Ifaces, NEW f \in Reading, frames'[c] = Append(s, f),
             f.iface = i, f.raw = raw[i], f.total = carried[i], UNCHANGED <<raw, carried>>
      PROVE  /\ frames'[c] \in Seq(Reading) /\ frames'[c][n] \in Reading
             /\ (\E m \in 1..Len(s) : frames'[c][n] = s[m]) \/ frames'[c][n] = f
  <2>1. Append(s, f) \in Seq(Reading) /\ Len(Append(s, f)) = Len(s) + 1
        /\ (\A m \in 1..Len(s) : Append(s, f)[m] = s[m]) /\ Append(s, f)[Len(s) + 1] = f
    BY <1>s, AppendProperties
  <2>2. n \in 1..Len(s) \/ n = Len(s) + 1
    BY <1>s, <1>4, <2>1
  <2> QED
    BY <1>s, <1>4, <2>1, <2>2
<1> QED
  BY <1>1, <1>2, <1>3, <1>4, QueueStep DEF s

\* The counter of an interface never grows by more than what was carried.
LEMMA Growth ==
  ASSUME MeterTypes, MeterNext, NEW i \in Ifaces
  PROVE  /\ raw[i] \in Nat /\ raw'[i] \in Nat /\ carried[i] \in Nat /\ carried'[i] \in Nat
         /\ carried[i] <= carried'[i] /\ raw'[i] - raw[i] <= carried'[i] - carried[i]
<1>f. raw \in [Ifaces -> Nat] /\ carried \in [Ifaces -> Nat]
  BY DEF MeterTypes
<1>1. ASSUME NEW j \in Ifaces, Carry(j)
      PROVE  \/ raw'[i] = raw[i] /\ carried'[i] = carried[i]
             \/ raw'[i] = raw[i] + 1 /\ carried'[i] = carried[i] + 1
  BY <1>f, <1>1 DEF Carry
<1>2. ASSUME NEW reboot \in BOOLEAN, NEW lost \in BOOLEAN, LinkDrops(reboot, lost)
      PROVE  raw'[i] \in {0, raw[i]} /\ carried'[i] = carried[i]
  BY <1>f, <1>2 DEF LinkDrops
<1>3. CASE UNCHANGED <<raw, carried>>
  BY <1>f, <1>3
<1>4. raw[i] \in Nat /\ carried[i] \in Nat
  BY <1>f
<1> QED
  BY <1>1, <1>2, <1>3, <1>4
     DEF MeterNext, DayPasses, reportOnce, setTrafficIface, onTraffic, accumulate, UpdateNetwork,
         checkTraffic, wireVars

\* So what was read stays in the past.
LEMMA StaysPast ==
  ASSUME MeterTypes, MeterNext, NEW i \in Ifaces, NEW x, x.raw \in Int, x.total \in Nat,
         Follows(Now(i), x)
  PROVE  /\ x.total <= carried'[i]
         /\ x.raw >= 0 => raw'[i] - x.raw <= carried'[i] - x.total
<1>1. x.total <= carried[i] /\ (x.raw >= 0 => raw[i] - x.raw <= carried[i] - x.total)
  BY DEF Follows, Now
<1> QED
  BY <1>1, Growth

\* A queue keeps its order: a reading of the moment comes after all that wait.
LEMMA OrderKept ==
  ASSUME MeterTypes, MeterNext, Past, NEW c \in 1..MaxConns
  PROVE  InOrder(frames'[c])
<1> DEFINE s == frames[c]
<1>s. s \in Seq(Reading) /\ Len(s) \in Nat /\ (\A m \in 1..Len(s) : s[m] \in Reading)
  BY LenProperties, ElementOfSeq DEF MeterTypes
<1>p. InOrder(s) /\ \A n \in 1..Len(s) : Follows(Now(s[n].iface), s[n])
  BY DEF Past
<1> HIDE DEF s
<1>1. CASE frames'[c] = s
  BY <1>1, <1>p
<1>2. CASE frames'[c] = <<>>
  BY <1>2 DEF InOrder
<1>3. CASE s # <<>> /\ frames'[c] = Tail(s)
  <2>1. Len(Tail(s)) = Len(s) - 1 /\ \A m \in 1..Len(s) - 1 : Tail(s)[m] = s[m + 1]
    BY <1>s, <1>3, HeadTailProperties
  <2> SUFFICES ASSUME NEW m \in 1..Len(s) - 1, NEW n \in 1..Len(s) - 1, m < n,
                      s[m + 1].iface = s[n + 1].iface
               PROVE  Follows(s[n + 1], s[m + 1])
    BY <1>3, <2>1 DEF InOrder
  <2>2. m + 1 \in 1..Len(s) /\ n + 1 \in 1..Len(s) /\ m + 1 < n + 1
    BY <1>s
  <2> QED
    BY <1>p, <2>2 DEF InOrder
<1>4. ASSUME NEW i \in Ifaces, NEW f \in Reading, frames'[c] = Append(s, f),
             f.iface = i, f.raw = raw[i], f.total = carried[i]
      PROVE  InOrder(frames'[c])
  <2>1. Len(Append(s, f)) = Len(s) + 1
        /\ (\A m \in 1..Len(s) : Append(s, f)[m] = s[m]) /\ Append(s, f)[Len(s) + 1] = f
    BY <1>s, AppendProperties
  <2> DEFINE q == frames'[c]
  <2>2. Len(q) = Len(s) + 1 /\ (\A m \in 1..Len(s) : q[m] = s[m]) /\ q[Len(s) + 1] = f
    BY <1>4, <2>1
  <2> HIDE DEF q
  <2> SUFFICES ASSUME NEW m \in 1..Len(q), NEW n \in 1..Len(q), m < n, q[m].iface = q[n].iface
               PROVE  Follows(q[n], q[m])
    BY DEF InOrder, q
  <2>3. m \in 1..Len(s) /\ q[m] = s[m]
    BY <1>s, <2>2
  <2>4. CASE n \in 1..Len(s)
    BY <1>p, <2>2, <2>3, <2>4 DEF InOrder
  <2>5. CASE n = Len(s) + 1
    <3>1. q[n] = f /\ s[m].iface = i
      BY <1>4, <2>2, <2>3, <2>5
    <3>2. Follows(Now(i), s[m])
      BY <1>p, <2>3, <3>1
    <3> QED
      BY <1>4, <2>3, <3>1, <3>2 DEF Follows, Now
  <2> QED
    BY <1>s, <2>2, <2>4, <2>5
<1> QED
  BY <1>1, <1>2, <1>3, <1>4, QueueStep DEF s

\* What a new row holds is typed, and its difference is never negative.
LEMMA RowTyped ==
  ASSUME MeterTypes, NEW f \in Reading, NEW prev \in Rows
  PROVE  /\ Delta(f, prev) \in Nat /\ NewRow(f, prev) \in Rows
         /\ NewRow(f, prev).raw = f.raw /\ NewRow(f, prev).total = f.total
<1> USE MeterAssumption
<1>1. f.raw \in Nat /\ f.ts \in Nat /\ f.total \in Nat /\ prev.raw \in Int /\ prev.used \in Int
      /\ prev.ts \in Nat
  BY DEF Reading, Rows
<1>2. Delta(f, prev) \in Nat
  BY <1>1 DEF Delta
<1>3. PeriodStart(f.ts) \in Int
  <2>1. f.ts \div CycleDays \in Int
    BY <1>1
  <2> QED
    BY <2>1 DEF PeriodStart
<1>4. NewRow(f, prev).used \in Int
  <2> DEFINE d == Delta(f, prev)
             p == PeriodStart(f.ts)
  <2>1. NewRow(f, prev).used = IF prev.raw >= 0 /\ p = prev.start THEN prev.used + d ELSE d
    BY DEF NewRow
  <2>2. d \in Nat
    BY <1>2
  <2> HIDE DEF d, p
  <2> QED
    BY <1>1, <2>1, <2>2
<1>5. NewRow(f, prev) = [raw |-> f.raw, ts |-> f.ts, start |-> PeriodStart(f.ts),
                         used |-> NewRow(f, prev).used, total |-> f.total]
  BY DEF NewRow
<1> QED
  BY <1>1, <1>2, <1>3, <1>4, <1>5 DEF Rows

\* Every step keeps the types.
LEMMA MeterTypesStep ==
  ASSUME MeterTypes, MeterNext
  PROVE  MeterTypes'
<1>f. /\ booked \in [Ifaces -> Nat] /\ counter \in [Ifaces -> Rows]
      /\ raw \in [Ifaces -> Nat] /\ carried \in [Ifaces -> Nat]
      /\ frames \in [1..MaxConns -> Seq(Reading)]
      /\ reader \in [1..MaxConns -> [busy : BOOLEAN, frame : Reading \cup {NoFrame}, prev : Rows]]
      /\ \A c \in 1..MaxConns : reader[c].busy => reader[c].frame \in Reading
  BY DEF MeterTypes
<1>n. NoRow \in Rows /\ IdleReader \in [busy : BOOLEAN, frame : Reading \cup {NoFrame}, prev : Rows]
      /\ ~IdleReader.busy
  BY DEF NoRow, Rows, IdleReader
<1>1. raw' \in [Ifaces -> Nat] /\ carried' \in [Ifaces -> Nat]
  <2>1. ASSUME NEW i \in Ifaces, Carry(i)
        PROVE  raw' \in [Ifaces -> Nat] /\ carried' \in [Ifaces -> Nat]
    BY <1>f, <2>1 DEF Carry
  <2>2. ASSUME NEW reboot \in BOOLEAN, NEW lost \in BOOLEAN, LinkDrops(reboot, lost)
        PROVE  raw' \in [Ifaces -> Nat] /\ carried' \in [Ifaces -> Nat]
    BY <1>f, <2>2 DEF LinkDrops
  <2>3. CASE UNCHANGED <<raw, carried>>
    BY <1>f, <2>3
  <2> QED
    BY <2>1, <2>2, <2>3
       DEF MeterNext, DayPasses, reportOnce, setTrafficIface, onTraffic, accumulate, UpdateNetwork,
           checkTraffic, wireVars
<1>2. /\ probe' \in Picks /\ net' \in [iface : Picks, cycle : BOOLEAN]
      /\ conn' \in 1..MaxConns /\ clock' \in Nat
  <2> USE MeterAssumption DEF MeterTypes
  <2>1. ASSUME NEW i \in Picks, NEW cycle \in BOOLEAN, UpdateNetwork(i, cycle)
        PROVE  UNCHANGED <<probe, conn, clock>> /\ net' \in [iface : Picks, cycle : BOOLEAN]
    BY <2>1 DEF UpdateNetwork, wireVars
  <2>2. CASE setTrafficIface
    BY <2>2 DEF setTrafficIface
  <2>3. ASSUME NEW reboot \in BOOLEAN, NEW lost \in BOOLEAN, LinkDrops(reboot, lost)
        PROVE  UNCHANGED <<probe, net, clock>> /\ conn' \in 1..MaxConns
    BY <2>3 DEF LinkDrops
  <2>4. CASE DayPasses
    BY <2>4 DEF DayPasses, wireVars
  <2>5. CASE UNCHANGED <<probe, net, conn, clock>>
    BY <2>5
  <2> QED
    BY <2>1, <2>2, <2>3, <2>4, <2>5
       DEF MeterNext, Carry, reportOnce, onTraffic, accumulate, checkTraffic, wireVars, Picks
<1>3. frames' \in [1..MaxConns -> Seq(Reading)]
  <2>1. frames' = [c \in 1..MaxConns |-> frames'[c]]
    <3>1. ASSUME NEW b \in 1..MaxConns, NEW x, frames' = [frames EXCEPT ![b] = x]
          PROVE  frames' = [c \in 1..MaxConns |-> frames'[c]]
      BY <1>f, <3>1
    <3>2. CASE UNCHANGED frames
      BY <1>f, <3>2
    <3>3. conn \in 1..MaxConns
      BY DEF MeterTypes
    <3> QED
      BY <3>1, <3>2, <3>3
         DEF MeterNext, Carry, DayPasses, reportOnce, setTrafficIface, Report, LinkDrops, onTraffic,
             accumulate, UpdateNetwork, checkTraffic, wireVars
  <2>2. ASSUME NEW c \in 1..MaxConns PROVE frames'[c] \in Seq(Reading)
    <3>1. frames[c] \in Seq(Reading) /\ \A f \in Reading : Append(frames[c], f) \in Seq(Reading)
      BY <1>f, AppendProperties
    <3>2. frames[c] # <<>> => Tail(frames[c]) \in Seq(Reading)
      BY <1>f, HeadTailProperties
    <3>3. <<>> \in Seq(Reading)
      OBVIOUS
    <3> QED
      BY <3>1, <3>2, <3>3, QueueStep
  <2> QED
    BY <2>1, <2>2
<1>4. /\ booked' \in [Ifaces -> Nat] /\ counter' \in [Ifaces -> Rows] /\ spoilt' \in BOOLEAN
      /\ reader' \in [1..MaxConns -> [busy : BOOLEAN, frame : Reading \cup {NoFrame}, prev : Rows]]
      /\ \A c \in 1..MaxConns : reader'[c].busy => reader'[c].frame \in Reading
  <2>s. spoilt \in BOOLEAN
    BY DEF MeterTypes
  <2>1. ASSUME NEW c \in 1..MaxConns, NEW known \in BOOLEAN, onTraffic(c, known)
        PROVE  /\ UNCHANGED <<booked, counter>> /\ spoilt' \in BOOLEAN
               /\ reader' \in [1..MaxConns -> [busy : BOOLEAN, frame : Reading \cup {NoFrame}, prev : Rows]]
               /\ \A b \in 1..MaxConns : reader'[b].busy => reader'[b].frame \in Reading
    <3> DEFINE f == Head(frames[c])
               prev == IF known THEN counter[f.iface] ELSE NoRow
               now == [busy |-> TRUE, frame |-> f, prev |-> prev]
    <3>1. f \in Reading
      BY <1>f, <2>1, HeadTailProperties DEF onTraffic
    <3>2. prev \in Rows
      BY <1>f, <1>n, <3>1 DEF Reading
    <3>3. /\ UNCHANGED <<booked, counter>> /\ spoilt' \in BOOLEAN
          /\ reader' = [reader EXCEPT ![c] = now] \/ reader' = reader
      BY <2>1, <2>s DEF onTraffic
    <3> HIDE DEF f, prev
    <3>4. now \in [busy : BOOLEAN, frame : Reading \cup {NoFrame}, prev : Rows] /\ now.frame \in Reading
      BY <3>1, <3>2
    <3> HIDE DEF now
    <3> QED
      BY <1>f, <3>3, <3>4
  <2>2. ASSUME NEW c \in 1..MaxConns, NEW written \in BOOLEAN, accumulate(c, written)
        PROVE  /\ booked' \in [Ifaces -> Nat] /\ counter' \in [Ifaces -> Rows] /\ spoilt' \in BOOLEAN
               /\ reader' \in [1..MaxConns -> [busy : BOOLEAN, frame : Reading \cup {NoFrame}, prev : Rows]]
               /\ \A b \in 1..MaxConns : reader'[b].busy => reader'[b].frame \in Reading
    <3> DEFINE f == reader[c].frame
               prev == reader[c].prev
               next == NewRow(f, prev)
               delta == Delta(f, prev)
    <3>1. f \in Reading /\ prev \in Rows /\ f.iface \in Ifaces
      BY <1>f, <2>2 DEF accumulate, Reading
    <3>2. next \in Rows /\ delta \in Nat
      BY <3>1, RowTyped
    <3>3. /\ counter' \in {counter, [counter EXCEPT ![f.iface] = next]}
          /\ booked' = [booked EXCEPT ![f.iface] = booked[f.iface] + delta] /\ spoilt' \in BOOLEAN
          /\ reader' = [reader EXCEPT ![c] = IdleReader]
      BY <2>2, <2>s DEF accumulate
    <3> HIDE DEF f, prev, next, delta
    <3>4. counter' \in [Ifaces -> Rows] /\ booked' \in [Ifaces -> Nat]
      <4>1. booked[f.iface] + delta \in Nat
        BY <1>f, <3>1, <3>2
      <4>2. booked' \in [Ifaces -> Nat]
        BY <1>f, <3>3, <4>1
      <4>3. counter' \in [Ifaces -> Rows]
        BY <1>f, <3>2, <3>3
      <4> QED
        BY <4>2, <4>3
    <3>5. /\ reader' \in [1..MaxConns -> [busy : BOOLEAN, frame : Reading \cup {NoFrame}, prev : Rows]]
          /\ \A b \in 1..MaxConns : reader'[b].busy => reader'[b].frame \in Reading
      BY <1>f, <1>n, <3>3
    <3> QED
      BY <3>3, <3>4, <3>5
  <2>3. CASE UNCHANGED bookVars
    BY <1>f, <2>s, <2>3 DEF bookVars
  <2> QED
    BY <1>f, <2>1, <2>2, <2>3
       DEF MeterNext, Carry, DayPasses, reportOnce, setTrafficIface, LinkDrops, UpdateNetwork, checkTraffic
<1> QED
  BY <1>1, <1>2, <1>3, <1>4 DEF MeterTypes

\* Every step keeps what was read in the past.
LEMMA PastStep ==
  ASSUME MeterTypes, MeterNext, Past
  PROVE  Past'
<1>f. /\ counter \in [Ifaces -> Rows]
      /\ reader \in [1..MaxConns -> [busy : BOOLEAN, frame : Reading \cup {NoFrame}, prev : Rows]]
      /\ \A c \in 1..MaxConns : reader[c].busy => reader[c].frame \in Reading
      /\ \A c \in 1..MaxConns : frames[c] \in Seq(Reading)
  BY DEF MeterTypes
<1>r. /\ \A f \in Reading : f.raw \in Nat /\ f.total \in Nat /\ f.iface \in Ifaces
      /\ \A r \in Rows : r.raw \in Int /\ r.total \in Nat
  BY DEF Reading, Rows
<1> DEFINE Behind(i, x) == /\ x.total <= carried'[i]
                           /\ x.raw >= 0 => raw'[i] - x.raw <= carried'[i] - x.total
<1>1. ASSUME NEW i \in Ifaces PROVE Behind(i, counter[i])
  BY <1>f, <1>r, StaysPast DEF Past
<1>2. ASSUME NEW c \in 1..MaxConns, reader[c].busy
      PROVE  reader[c].frame \in Reading /\ Behind(reader[c].frame.iface, reader[c].frame)
  BY <1>2, <1>f, <1>r, StaysPast DEF Past
<1>3. ASSUME NEW c \in 1..MaxConns, NEW n \in 1..Len(frames[c])
      PROVE  frames[c][n] \in Reading /\ Behind(frames[c][n].iface, frames[c][n])
  <2>1. frames[c][n] \in Reading
    BY <1>f, ElementOfSeq
  <2>2. Follows(Now(frames[c][n].iface), frames[c][n])
    BY DEF Past
  <2> QED
    BY <1>r, <2>1, <2>2, StaysPast
<1>4. ASSUME NEW c \in 1..MaxConns, NEW n \in 1..Len(frames'[c])
      PROVE  Behind(frames'[c][n].iface, frames'[c][n])
  <2>1. CASE \E m \in 1..Len(frames[c]) : frames'[c][n] = frames[c][m]
    BY <1>3, <2>1
  <2>2. ASSUME NEW i \in Ifaces, frames'[c][n].iface = i, frames'[c][n].raw = raw[i],
               frames'[c][n].total = carried[i], UNCHANGED <<raw, carried>>
        PROVE  Behind(frames'[c][n].iface, frames'[c][n])
    BY <2>2, Growth
  <2> QED
    BY <2>1, <2>2, OldOrFresh
<1>5. ASSUME NEW i \in Ifaces PROVE Behind(i, counter'[i])
  <2>1. ASSUME NEW c \in 1..MaxConns, NEW written \in BOOLEAN, accumulate(c, written)
        PROVE  Behind(i, counter'[i])
    <3> DEFINE f == reader[c].frame
    <3>1. f \in Reading /\ Behind(f.iface, f) /\ reader[c].prev \in Rows
      BY <1>2, <1>f, <2>1 DEF accumulate
    <3>2. NewRow(f, reader[c].prev).raw = f.raw /\ NewRow(f, reader[c].prev).total = f.total
      BY DEF NewRow
    <3>3. counter'[i] = counter[i] \/ (i = f.iface /\ counter'[i] = NewRow(f, reader[c].prev))
      BY <1>f, <2>1 DEF accumulate
    <3> HIDE DEF f
    <3> QED
      BY <1>1, <3>1, <3>2, <3>3
  <2>2. CASE UNCHANGED counter
    BY <1>1, <2>2
  <2> QED
    BY <2>1, <2>2
       DEF MeterNext, Carry, DayPasses, reportOnce, setTrafficIface, LinkDrops, onTraffic,
           UpdateNetwork, checkTraffic, bookVars
<1>6. ASSUME NEW c \in 1..MaxConns, reader'[c].busy PROVE Behind(reader'[c].frame.iface, reader'[c].frame)
  <2>1. CASE reader'[c] = reader[c]
    BY <1>2, <1>6, <2>1
  <2>2. ASSUME NEW b \in 1..MaxConns, NEW known \in BOOLEAN, onTraffic(b, known), reader'[c] # reader[c]
        PROVE  Behind(reader'[c].frame.iface, reader'[c].frame)
    <3>1. reader'[c].frame = Head(frames[c]) /\ frames[c] # <<>>
      BY <1>f, <2>2 DEF onTraffic
    <3>2. Head(frames[c]) = frames[c][1] /\ 1 \in 1..Len(frames[c])
      BY <1>f, <3>1, HeadTailProperties, LenProperties, EmptySeq
    <3> QED
      BY <1>3, <3>1, <3>2
  <2>3. ASSUME NEW b \in 1..MaxConns, NEW written \in BOOLEAN, accumulate(b, written), reader'[c] # reader[c]
        PROVE  FALSE
    BY <1>f, <1>6, <2>3 DEF accumulate, IdleReader
  <2> QED
    BY <2>1, <2>2, <2>3
       DEF MeterNext, Carry, DayPasses, reportOnce, setTrafficIface, LinkDrops, UpdateNetwork,
           checkTraffic, bookVars
<1>7. \A c \in 1..MaxConns : \A n \in 1..Len(frames'[c]) : frames'[c][n].iface \in Ifaces
  BY <1>r, OldOrFresh
<1>8. \A c \in 1..MaxConns : reader'[c].busy => reader'[c].frame.iface \in Ifaces
  BY <1>r, MeterTypesStep DEF MeterTypes
<1>9. \A i \in Ifaces : Follows(Now(i), counter[i])'
  BY <1>5 DEF Follows, Now
<1>10. ASSUME NEW c \in 1..MaxConns, NEW n \in 1..Len(frames'[c])
       PROVE  Follows(Now(frames[c][n].iface), frames[c][n])'
  BY <1>4, <1>7 DEF Follows, Now
<1>11. ASSUME NEW c \in 1..MaxConns, reader'[c].busy
       PROVE  Follows(Now(reader[c].frame.iface), reader[c].frame)'
  BY <1>6, <1>8, <1>11 DEF Follows, Now
<1> HIDE DEF Behind
<1> QED
  BY <1>9, <1>10, <1>11, OrderKept DEF Past

\* Until something is spoilt, reports are applied one by one.
LEMMA OneByOneStep ==
  ASSUME MeterTypes, MeterNext, Past, ~spoilt => OneByOne, ~spoilt'
  PROVE  OneByOne'
<1>f. /\ counter \in [Ifaces -> Rows] /\ booked \in [Ifaces -> Nat]
      /\ reader \in [1..MaxConns -> [busy : BOOLEAN, frame : Reading \cup {NoFrame}, prev : Rows]]
      /\ \A c \in 1..MaxConns : reader[c].busy => reader[c].frame \in Reading
      /\ \A c \in 1..MaxConns : frames[c] \in Seq(Reading)
  BY DEF MeterTypes
<1>r. /\ \A f \in Reading : f.raw \in Nat /\ f.total \in Nat /\ f.iface \in Ifaces
      /\ \A r \in Rows : r.raw \in Int /\ r.total \in Nat
  BY DEF Reading, Rows
<1>s. ~spoilt
  BY DEF MeterNext, Carry, DayPasses, reportOnce, setTrafficIface, LinkDrops, onTraffic, accumulate,
         UpdateNetwork, checkTraffic, bookVars
<1>o. OneByOne
  BY <1>s
<1>q. ASSUME NEW c \in 1..MaxConns, NEW n \in 1..Len(frames'[c])
      PROVE  /\ frames'[c][n] \in Reading
             /\ Follows(frames'[c][n], counter[frames'[c][n].iface])
             /\ \A b \in 1..MaxConns : reader[b].busy /\ reader[b].frame.iface = frames'[c][n].iface
                  => Follows(frames'[c][n], reader[b].frame)
  <2>1. ASSUME NEW m \in 1..Len(frames[c]), frames'[c][n] = frames[c][m]
        PROVE  /\ Follows(frames'[c][n], counter[frames'[c][n].iface])
               /\ \A b \in 1..MaxConns : reader[b].busy /\ reader[b].frame.iface = frames'[c][n].iface
                    => Follows(frames'[c][n], reader[b].frame)
    <3>1. m \in Nat
      OBVIOUS
    <3> QED
      BY <1>o, <2>1, <3>1 DEF OneByOne
  <2>2. ASSUME NEW i \in Ifaces, frames'[c][n].iface = i, frames'[c][n].raw = raw[i],
               frames'[c][n].total = carried[i]
        PROVE  /\ Follows(frames'[c][n], counter[frames'[c][n].iface])
               /\ \A b \in 1..MaxConns : reader[b].busy /\ reader[b].frame.iface = frames'[c][n].iface
                    => Follows(frames'[c][n], reader[b].frame)
    <3>1. \A x : Follows(Now(i), x) <=> Follows(frames'[c][n], x)
      BY <2>2 DEF Follows, Now
    <3> QED
      BY <2>2, <3>1 DEF Past
  <2> QED
    BY <2>1, <2>2, OldOrFresh
<1>1. CASE UNCHANGED <<booked, counter, reader>>
  <2>1. \A i \in Ifaces : booked'[i] <= counter'[i].total
    BY <1>o, <1>1 DEF OneByOne
  <2>2. \A c \in 1..MaxConns, n \in Nat :
          n \in 1..Len(frames'[c]) => Follows(frames'[c][n], counter'[frames'[c][n].iface])
    BY <1>1, <1>q
  <2>3. ASSUME NEW c \in 1..MaxConns, reader'[c].busy
        PROVE  LET f == reader'[c].frame
               IN  /\ \A b \in 1..MaxConns : reader'[b].busy => b = c
                   /\ reader'[c].prev \in {counter'[f.iface], NoRow}
                   /\ Follows(f, counter'[f.iface])
                   /\ \A b \in 1..MaxConns, n \in Nat :
                        n \in 1..Len(frames'[b]) /\ frames'[b][n].iface = f.iface
                          => Follows(frames'[b][n], f)
    BY <1>o, <1>1, <1>q, <2>3 DEF OneByOne
  <2> QED
    BY <2>1, <2>2, <2>3 DEF OneByOne
<1>2. ASSUME NEW c \in 1..MaxConns, NEW known \in BOOLEAN, onTraffic(c, known)
      PROVE  OneByOne'
  <2> DEFINE f == Head(frames[c])
             prev == IF known THEN counter[f.iface] ELSE NoRow
  <2>1. /\ ~reader[c].busy /\ frames[c] # <<>> /\ UNCHANGED <<booked, counter>>
        /\ frames' = [frames EXCEPT ![c] = Tail(frames[c])]
        /\ \A b \in 1..MaxConns : b # c => ~reader[b].busy /\ frames[b] = <<>>
        /\ reader' \in {reader, [reader EXCEPT ![c] = [busy |-> TRUE, frame |-> f, prev |-> prev]]}
    BY <1>2 DEF onTraffic, Overlaps
  <2>2. /\ f = frames[c][1] /\ Len(frames[c]) \in Nat /\ 1 \in 1..Len(frames[c]) /\ f \in Reading
        /\ Len(Tail(frames[c])) = Len(frames[c]) - 1
        /\ \A n \in 1..Len(frames[c]) - 1 : Tail(frames[c])[n] = frames[c][n + 1]
    BY <1>f, <2>1, HeadTailProperties, LenProperties, EmptySeq
  <2>3. prev \in {counter[f.iface], NoRow}
    OBVIOUS
  <2> HIDE DEF f, prev
  <2>4. Follows(f, counter[f.iface])
    BY <1>o, <2>2 DEF OneByOne
  <2>5. ASSUME NEW b \in 1..MaxConns, NEW n \in 1..Len(frames'[b]), frames'[b][n].iface = f.iface
        PROVE  Follows(frames'[b][n], f)
    <3>0. frames \in [1..MaxConns -> Seq(Reading)]
      BY DEF MeterTypes
    <3>1. b = c /\ frames'[c] = Tail(frames[c])
      BY <2>1, <2>5, <3>0
    <3>2. n \in 1..Len(frames[c]) - 1 /\ frames'[b][n] = frames[c][n + 1]
      BY <2>2, <3>1
    <3>3. n + 1 \in 1..Len(frames[c]) /\ 1 < n + 1 /\ frames[c][n + 1].iface = frames[c][1].iface
      BY <2>2, <2>5, <3>2
    <3>4. InOrder(frames[c])
      BY DEF Past
    <3> QED
      BY <2>2, <3>2, <3>3, <3>4 DEF InOrder
  <2>6. ASSUME NEW a \in 1..MaxConns, reader'[a].busy
        PROVE  /\ a = c /\ reader'[a].frame = f /\ reader'[a].prev = prev
    <3> DEFINE now == [busy |-> TRUE, frame |-> f, prev |-> prev]
    <3>1. now.frame = f /\ now.prev = prev
      OBVIOUS
    <3>2. reader' \in {reader, [reader EXCEPT ![c] = now]}
      BY <2>1
    <3> HIDE DEF now
    <3>3. a # c => reader'[a] = reader[a]
      BY <1>f, <3>2
    <3>4. a = c
      BY <2>1, <2>6, <3>3
    <3>5. reader'[c] = now
      BY <1>f, <2>1, <2>6, <3>2, <3>4
    <3> QED
      BY <3>1, <3>4, <3>5
  <2>7. \A i \in Ifaces : booked'[i] <= counter'[i].total
    BY <1>o, <2>1 DEF OneByOne
  <2>8. \A b \in 1..MaxConns, n \in Nat :
          n \in 1..Len(frames'[b]) => Follows(frames'[b][n], counter'[frames'[b][n].iface])
    BY <1>q, <2>1
  <2>9. ASSUME NEW a \in 1..MaxConns, reader'[a].busy
        PROVE  LET g == reader'[a].frame
               IN  /\ \A b \in 1..MaxConns : reader'[b].busy => b = a
                   /\ reader'[a].prev \in {counter'[g.iface], NoRow}
                   /\ Follows(g, counter'[g.iface])
                   /\ \A b \in 1..MaxConns, n \in Nat :
                        n \in 1..Len(frames'[b]) /\ frames'[b][n].iface = g.iface
                          => Follows(frames'[b][n], g)
    <3>1. reader'[a].frame = f /\ reader'[a].prev = prev /\ a = c
      BY <2>6, <2>9
    <3>2. \A b \in 1..MaxConns : reader'[b].busy => b = a
      BY <2>6, <3>1
    <3>3. prev \in {counter'[f.iface], NoRow} /\ Follows(f, counter'[f.iface])
      BY <2>1, <2>3, <2>4
    <3> QED
      BY <2>5, <3>1, <3>2, <3>3
  <2> QED
    BY <2>7, <2>8, <2>9 DEF OneByOne
<1>3. ASSUME NEW c \in 1..MaxConns, NEW written \in BOOLEAN, accumulate(c, written)
      PROVE  OneByOne'
  <2> DEFINE f == reader[c].frame
             prev == reader[c].prev
             delta == Delta(f, prev)
  <2>1. /\ reader[c].busy /\ reader' = [reader EXCEPT ![c] = IdleReader] /\ UNCHANGED frames
        /\ counter' = [counter EXCEPT ![f.iface] = NewRow(f, prev)]
        /\ booked' = [booked EXCEPT ![f.iface] = booked[f.iface] + delta]
    BY <1>3 DEF accumulate, wireVars
  <2>2. f \in Reading /\ prev \in Rows /\ f.iface \in Ifaces
    BY <1>f, <1>r, <2>1
  <2>3. NewRow(f, prev).raw = f.raw /\ NewRow(f, prev).total = f.total /\ delta \in Nat
    BY <2>2, RowTyped
  <2>4. /\ \A b \in 1..MaxConns : reader[b].busy => b = c
        /\ prev \in {counter[f.iface], NoRow} /\ Follows(f, counter[f.iface])
        /\ \A b \in 1..MaxConns, n \in Nat :
             n \in 1..Len(frames[b]) /\ frames[b][n].iface = f.iface => Follows(frames[b][n], f)
    BY <1>o, <2>1 DEF OneByOne
  <2>5. booked[f.iface] + delta <= f.total
    <3>1. booked[f.iface] <= counter[f.iface].total /\ booked[f.iface] \in Nat
      BY <1>o, <1>f, <2>2 DEF OneByOne
    <3>2. /\ counter[f.iface].total <= f.total
          /\ counter[f.iface].raw >= 0 => f.raw - counter[f.iface].raw <= f.total - counter[f.iface].total
      BY <2>4 DEF Follows
    <3>3. counter[f.iface].raw \in Int /\ counter[f.iface].total \in Nat /\ f.raw \in Nat /\ f.total \in Nat
      BY <1>f, <1>r, <2>2
    <3>4. delta = 0 \/ (prev.raw >= 0 /\ delta = f.raw - prev.raw)
      BY <2>2, <3>3, <1>r DEF Delta
    <3> HIDE DEF delta
    <3>5. CASE delta = 0
      BY <3>1, <3>2, <3>3, <3>5
    <3>6. CASE prev.raw >= 0 /\ delta = f.raw - prev.raw
      <4>1. prev = counter[f.iface]
        BY <2>4, <3>6 DEF NoRow
      <4> QED
        BY <3>1, <3>2, <3>3, <3>6, <4>1
    <3> QED
      BY <3>4, <3>5, <3>6
  <2> HIDE DEF f, prev, delta
  <2>6. ASSUME NEW i \in Ifaces PROVE booked'[i] <= counter'[i].total
    BY <1>f, <1>o, <2>1, <2>2, <2>3, <2>5 DEF OneByOne
  <2>7. ASSUME NEW b \in 1..MaxConns, NEW n \in 1..Len(frames'[b])
        PROVE  Follows(frames'[b][n], counter'[frames'[b][n].iface])
    <3>1. frames'[b][n] = frames[b][n] /\ n \in Nat /\ n \in 1..Len(frames[b])
          /\ Follows(frames[b][n], counter[frames[b][n].iface])
      BY <1>q, <2>1
    <3>2. CASE frames[b][n].iface # f.iface
      BY <1>f, <2>1, <3>1, <3>2
    <3>3. CASE frames[b][n].iface = f.iface
      <4>1. Follows(frames[b][n], f)
        BY <2>4, <3>1, <3>3
      <4>2. counter'[f.iface] = NewRow(f, prev)
        BY <1>f, <2>1, <2>2
      <4> QED
        BY <2>3, <3>1, <3>3, <4>1, <4>2 DEF Follows
    <3> QED
      BY <3>2, <3>3
  <2>8. \A a \in 1..MaxConns : ~reader'[a].busy
    BY <1>f, <2>1, <2>4 DEF IdleReader
  <2>9. \A i \in Ifaces : booked'[i] <= counter'[i].total
    BY <2>6
  <2>10. \A b \in 1..MaxConns, n \in Nat :
           n \in 1..Len(frames'[b]) => Follows(frames'[b][n], counter'[frames'[b][n].iface])
    BY <2>7
  <2> QED
    BY <2>8, <2>9, <2>10 DEF OneByOne
<1> QED
  BY <1>1, <1>2, <1>3
     DEF MeterNext, Carry, DayPasses, reportOnce, setTrafficIface, LinkDrops, UpdateNetwork,
         checkTraffic, bookVars

\* A step that changes nothing of the meter.
LEMMA MeterIdle == MeterInv /\ UNCHANGED meterVars => MeterInv'
<1> SUFFICES ASSUME MeterInv, UNCHANGED meterVars PROVE MeterInv'
  OBVIOUS
<1>1. UNCHANGED <<raw, carried, probe, conn, frames, reader, counter, booked, spoilt, net, clock>>
  BY DEF meterVars, wireVars, bookVars
<1>2. MeterTypes'
  BY <1>1 DEF MeterInv, MeterTypes
<1>3. Past'
  BY <1>1 DEF MeterInv, Past, Now
<1>4. OneByOne => OneByOne'
  BY <1>1 DEF OneByOne
<1> QED
  BY <1>1, <1>2, <1>3, <1>4 DEF MeterInv

\* So every step keeps the invariant.
LEMMA MeterInvStep == MeterInv /\ [MeterNext]_meterVars => MeterInv'
BY MeterIdle, MeterTypesStep, PastStep, OneByOneStep DEF MeterInv

\* Nothing the kernel counted once is in the books twice, for any interfaces, connections
\* and reports under way: the difference a report adds is of what was carried since the
\* row it was read against (hub/handlers.go:173-217).
THEOREM BooksAreCarried == MeterSpec => []NothingCountedTwice
<1>1. MeterInv => NothingCountedTwice
  <2> SUFFICES ASSUME MeterInv, ~spoilt, NEW i \in Ifaces PROVE booked[i] <= carried[i]
    BY DEF NothingCountedTwice
  <2>1. booked[i] <= counter[i].total /\ counter[i].total <= carried[i]
    BY DEF MeterInv, OneByOne, Past, Follows, Now
  <2>2. booked[i] \in Nat /\ counter[i].total \in Nat /\ carried[i] \in Nat
    BY DEF MeterInv, MeterTypes, Rows
  <2> QED
    BY <2>1, <2>2
<1> QED
  BY <1>1, MeterInvInit, MeterInvStep, PTL DEF MeterSpec

=============================================================================
