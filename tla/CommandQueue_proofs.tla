------------------------ MODULE CommandQueue_proofs ------------------------
(***************************************************************************)
(* Safety of the command queue for every number of commands and sockets.   *)
(* AtMostOnce and VerdictIsReal are not inductive: IInv adds where an      *)
(* envelope can be (FramesInv), what an execution leaves behind (RunsInv), *)
(* who holds a mutex (MutexInv) and what an answer in flight says          *)
(* (AnswersInv).                                                           *)
(***************************************************************************)
EXTENDS CommandQueue, FiniteSetTheorems, TLAPS

\* An envelope is the only one of its command, its row has left "pending" and
\* its command has not been started.
FramesInv ==
  /\ \A f, g \in frames : f.cmd = g.cmd => f = g
  /\ \A f \in frames : status[f.cmd] \notin {"none", "pending"} /\ started[f.cmd] = 0
  /\ \A c \in Cmds : status[c] \in {"none", "pending"} => started[c] = 0

\* Before the start of a command there is no outcome and no execMu holder;
\* while it runs there is one worker and no outcome; a live session that holds
\* execMu has a worker or an outcome.
RunsInv ==
  /\ \A c \in Cmds : started[c] = 0 =>
       /\ outcome[c] = "none"
       /\ \A s \in Sockets : execMu[s] # Held(c)
  /\ \A w \in running : started[w.cmd] # 0 /\ outcome[w.cmd] = "none"
  /\ \A v, w \in running : v.cmd = w.cmd => v = w
  /\ \A s \in Sockets, c \in Cmds :
       execMu[s] = Held(c) /\ session[s] = "live" =>
         Worker(c, s) \in running \/ outcome[c] # "none"

\* A worker belongs to a session that was dialled and, while that session lives,
\* its command holds the session's execMu.
MutexInv ==
  \A w \in running :
    /\ session[w.sock] # "none"
    /\ session[w.sock] = "live" => execMu[w.sock] = Held(w.cmd)

\* A socket the agent has not dialled yet holds nothing on the agent's side.
SessionsInv ==
  /\ \A s \in Sockets : session[s] = "none" => execMu[s] = Free
  /\ \A f \in frames : f.at = "waiting" => session[f.sock] # "none"

\* An answer in flight carries the outcome of its execution.
AnswersInv == \A a \in answers : outcome[a.cmd] = a.verdict

IInv ==
  /\ TypeOK /\ FramesInv /\ RunsInv /\ MutexInv /\ SessionsInv /\ AnswersInv
  /\ AtMostOnce /\ VerdictIsReal

\* Held and Free are told apart by one field, which is all the steps use.
LEMMA HeldIsNotFree == ASSUME NEW c \in Cmds PROVE Held(c) # Free
BY DEF Held, Free

LEMMA HeldInjective ==
  ASSUME NEW c \in Cmds, NEW d \in Cmds, Held(c) = Held(d) PROVE c = d
BY DEF Held

LEMMA InitIInv == Init => IInv
BY BoundsAssumption, HeldIsNotFree
   DEF Init, IInv, TypeOK, FramesInv, RunsInv, MutexInv, SessionsInv, AnswersInv,
       AtMostOnce, VerdictIsReal, Verdicts, Open, Frames

LEMMA StepIInv == IInv /\ [Next]_vars => IInv'
<1> SUFFICES ASSUME IInv, [Next]_vars PROVE IInv'
  OBVIOUS
<1> USE BoundsAssumption, NoSocketAssumption
    DEF IInv, TypeOK, FramesInv, RunsInv, MutexInv, SessionsInv, AnswersInv, AtMostOnce,
        VerdictIsReal, rows, hub, agent, Verdicts, Open, Frames, Places, Worker
<1>1. CASE Tick
  BY <1>1 DEF Tick
<1>2. CASE TimeoutStaleCommands
  BY <1>2 DEF TimeoutStaleCommands
<1>3. CASE PumpSnapshots
  BY <1>3 DEF PumpSnapshots
<1>4. CASE PumpDrained
  BY <1>4 DEF PumpDrained
<1>5. CASE ServerRestart
  BY <1>5 DEF ServerRestart
<1>6. ASSUME NEW c \in Cmds, CreateCommand(c) PROVE IInv'
  BY <1>6 DEF CreateCommand
<1>7. ASSUME NEW c \in Cmds, PumpClaims(c) PROVE IInv'
  BY <1>7 DEF PumpClaims, NextPendingCommand, Oldest
<1>8. ASSUME NEW s \in Sockets, HandleAgentWS(s) PROVE IInv'
  BY <1>8, HeldIsNotFree DEF HandleAgentWS
<1>9. ASSUME NEW s \in Sockets, HandlerDrained(s) PROVE IInv'
  BY <1>9 DEF HandlerDrained
<1>10. ASSUME NEW s \in Sockets, ReadPumpEnds(s) PROVE IInv'
  BY <1>10 DEF ReadPumpEnds, Close, At
<1>11. ASSUME NEW c \in Cmds, NEW s \in Sockets, HandlerClaims(c, s) PROVE IInv'
  BY <1>11 DEF HandlerClaims, NextPendingCommand, Oldest
<1>12. ASSUME NEW f \in frames, SendEnvelope(f) PROVE IInv'
  BY <1>12 DEF SendEnvelope, Move
<1>13. ASSUME NEW f \in frames, WritePump(f) PROVE IInv'
  BY <1>13 DEF WritePump, Move
<1>14. ASSUME NEW f \in frames, WriteFails(f) PROVE IInv'
  BY <1>14 DEF WriteFails, Close
<1>15. ASSUME NEW a \in answers, OnCmdResult(a) PROVE IInv'
  BY <1>15 DEF OnCmdResult, FinishCommand
<1>16. ASSUME NEW f \in frames, ReadFrame(f) PROVE IInv'
  BY <1>16 DEF ReadFrame, Move
<1>17. ASSUME NEW f \in frames, ExecuteCommand(f) PROVE IInv'
  BY <1>17, HeldInjective, HeldIsNotFree DEF ExecuteCommand
<1>18. ASSUME NEW f \in frames, ExecuteGivesUp(f) PROVE IInv'
  BY <1>18 DEF ExecuteGivesUp
<1>19. ASSUME NEW w \in running, NEW v \in Verdicts, WorkerEnds(w, v) PROVE IInv'
  BY <1>19 DEF WorkerEnds
<1>20. ASSUME NEW s \in Sockets, NEW c \in Cmds, RunCommandReturns(s, c) PROVE IInv'
  <2> USE <1>20 DEF RunCommandReturns
  <2>1. MutexInv'
    <3> SUFFICES ASSUME NEW w \in running, session[w.sock] = "live", w.sock = s
                 PROVE FALSE
      OBVIOUS
    <3>1. w.cmd = c
      BY HeldInjective
    <3>2. w = [cmd |-> c, sock |-> s]
      BY <3>1
    <3> QED BY <3>2
  <2>2. TypeOK' /\ AnswersInv'
    BY DEF ReplyWith, Answer
  <2>3. FramesInv' /\ RunsInv' /\ SessionsInv' /\ AtMostOnce' /\ VerdictIsReal'
    BY HeldIsNotFree
  <2> QED BY <2>1, <2>2, <2>3
<1>21. ASSUME NEW s \in Sockets, Shutdown(s) PROVE IInv'
  BY <1>21 DEF Shutdown, At
<1>22. CASE AgentRestart
  BY <1>22, HeldIsNotFree DEF AgentRestart
<1>23. CASE UNCHANGED vars
  BY <1>23 DEF vars
<1> HIDE DEF IInv
<1> QED
  BY <1>1, <1>2, <1>3, <1>4, <1>5, <1>6, <1>7, <1>8, <1>9, <1>10, <1>11, <1>12,
     <1>13, <1>14, <1>15, <1>16, <1>17, <1>18, <1>19, <1>20, <1>21, <1>22, <1>23
     DEF Next, Server, Agent

\* IInv holds in every reachable state.
LEMMA Invariance == Spec => []IInv
<1>1. Init => IInv
  BY InitIInv
<1>2. IInv /\ [Next]_vars => IInv'
  BY StepIInv
<1> QED BY <1>1, <1>2, PTL DEF Spec

\* Every variable keeps its type: envelopes, answers and workers always name
\* commands and sockets that exist.
THEOREM TypeCorrect == Spec => []TypeOK
BY Invariance, PTL DEF IInv

\* No command is executed twice, for any number of commands, connections,
\* restarts and any capacity of the send queue (NextPendingCommand claims a row
\* once, and a "sent" row is never dispatched again).
THEOREM ExecutedAtMostOnce == Spec => []AtMostOnce
BY Invariance, PTL DEF IInv

\* A row that reads ok or failed carries the outcome of the execution; the
\* zero CmdResult of an abandoned execution never gets there.
THEOREM VerdictsAreReal == Spec => []VerdictIsReal
BY Invariance, PTL DEF IInv

\* The workers of a live session are one at most: two of them would both hold its
\* execMu (executeCommand takes it, runCommand keeps it until the worker ended).
THEOREM OneWorkerPerSession == Spec => []LiveSessionIsSerial
<1>1. IInv => LiveSessionIsSerial
  <2> SUFFICES ASSUME IInv, NEW s \in Sockets, session[s] = "live"
               PROVE Cardinality({w \in running : w.sock = s}) <= 1
    BY DEF LiveSessionIsSerial
  <2> DEFINE W == {w \in running : w.sock = s}
  <2>1. \A v, w \in W : v = w
    BY HeldInjective DEF IInv, TypeOK, MutexInv
  <2>2. CASE W = {}
    BY <2>2, FS_EmptySet
  <2>3. CASE W # {}
    <3>1. PICK w \in W : W = {w}
      BY <2>1, <2>3
    <3> HIDE DEF W
    <3>2. Cardinality(W) = 1
      BY <3>1, FS_Singleton
    <3> QED BY <3>2 DEF W
  <2> QED BY <2>2, <2>3
<1> QED BY <1>1, Invariance, PTL

\* Every step of the queue is a step of CommandPromise, or changes nothing a
\* client of the queue can see.
LEMMA PromiseStep == IInv /\ [Next]_vars => [Promise!Next]_Promise!vars
<1> SUFFICES ASSUME IInv, [Next]_vars PROVE [Promise!Next]_Promise!vars
  OBVIOUS
<1> USE DEF IInv, TypeOK, PromisedRow, PromisedRun, PromisedOutcome, Verdicts, Open,
            rows, hub, agent, Promise!vars
<1>1. CASE TimeoutStaleCommands
  <2>1. PICK cs \in SUBSET Cmds : cs = {c \in Cmds : status[c] \in Open /\ Expired(c)}
    OBVIOUS
  <2>2. \A c \in cs : PromisedRow[c] = "open"
    BY <2>1
  <2>3. PromisedRow' = [c \in Cmds |-> IF c \in cs THEN "timeout" ELSE PromisedRow[c]]
    BY <1>1, <2>1 DEF TimeoutStaleCommands
  <2>4. UNCHANGED <<PromisedRun, PromisedOutcome>>
    BY <1>1 DEF TimeoutStaleCommands
  <2>5. Promise!Expire(cs)
    BY <2>2, <2>3, <2>4 DEF Promise!Expire
  <2> QED BY <2>5 DEF Promise!Next
<1>2. ASSUME NEW c \in Cmds, CreateCommand(c) PROVE [Promise!Next]_Promise!vars
  <2>1. Promise!Submit(c)
    BY <1>2 DEF CreateCommand, Promise!Submit
  <2> QED BY <2>1 DEF Promise!Next
<1>3. ASSUME NEW c \in Cmds, PumpClaims(c) \/ \E s \in Sockets : HandlerClaims(c, s)
      PROVE UNCHANGED Promise!vars
  BY <1>3 DEF HandlerClaims, PumpClaims, NextPendingCommand, Oldest
<1>4. ASSUME NEW a \in answers, OnCmdResult(a) PROVE [Promise!Next]_Promise!vars
  <2>1. CASE status[a.cmd] \in Open
    <3>1. Promise!Settle(a.cmd)
      BY <1>4, <2>1 DEF OnCmdResult, FinishCommand, AnswersInv, Promise!Settle
    <3> QED BY <3>1 DEF Promise!Next
  <2>2. CASE status[a.cmd] \notin Open
    BY <1>4, <2>2 DEF OnCmdResult, FinishCommand
  <2> QED BY <2>1, <2>2
<1>5. ASSUME NEW f \in frames, ExecuteCommand(f) PROVE [Promise!Next]_Promise!vars
  <2>1. Promise!Begin(f.cmd)
    <3>1. f.cmd \in Cmds /\ started[f.cmd] = 0 /\ status[f.cmd] # "none"
      BY <1>5 DEF FramesInv, Frames
    <3>2. PromisedRun' = PromisedRun \cup {f.cmd}
      BY <1>5, <3>1 DEF ExecuteCommand
    <3> QED BY <1>5, <3>1, <3>2 DEF ExecuteCommand, Promise!Begin
  <2> QED BY <1>5, <2>1 DEF Frames, Promise!Next
<1>6. ASSUME NEW w \in running, NEW v \in Verdicts, WorkerEnds(w, v)
      PROVE [Promise!Next]_Promise!vars
  <2>1. Promise!End(w.cmd, v)
    BY <1>6 DEF WorkerEnds, RunsInv, Promise!End
  <2> QED BY <1>6, <2>1 DEF Promise!Next
<1>7. ASSUME NEW f \in frames,
             SendEnvelope(f) \/ WritePump(f) \/ WriteFails(f) \/ ReadFrame(f) \/ ExecuteGivesUp(f)
      PROVE UNCHANGED Promise!vars
  BY <1>7 DEF SendEnvelope, WritePump, WriteFails, ReadFrame, ExecuteGivesUp
<1>8. ASSUME NEW s \in Sockets,
             HandleAgentWS(s) \/ HandlerDrained(s) \/ ReadPumpEnds(s) \/ Shutdown(s)
      PROVE UNCHANGED Promise!vars
  BY <1>8 DEF HandleAgentWS, HandlerDrained, ReadPumpEnds, Shutdown
<1>9. ASSUME NEW s \in Sockets, NEW c \in Cmds, RunCommandReturns(s, c)
      PROVE UNCHANGED Promise!vars
  BY <1>9 DEF RunCommandReturns
<1>10. ASSUME Tick \/ PumpSnapshots \/ PumpDrained \/ ServerRestart \/ AgentRestart
       PROVE UNCHANGED Promise!vars
  BY <1>10 DEF Tick, PumpSnapshots, PumpDrained, ServerRestart, AgentRestart
<1>11. ASSUME UNCHANGED vars PROVE UNCHANGED Promise!vars
  BY <1>11 DEF vars
<1> HIDE DEF IInv, TypeOK
<1>12. CASE Server
  BY <1>1, <1>2, <1>3, <1>4, <1>7, <1>8, <1>10, <1>12 DEF Server
<1>13. CASE Agent
  BY <1>5, <1>6, <1>7, <1>8, <1>9, <1>10, <1>13 DEF Agent
<1> QED
  BY <1>11, <1>12, <1>13 DEF Next

\* The queue implements the promise made to the panel: however the two drains,
\* the sockets and the restarts interleave, a command is run at most once and
\* its row goes from open to one final state (enqueueCommand to FinishCommand).
THEOREM QueueImplementsPromise == Spec => ImplementsPromise
<1>1. Init => Promise!Init
  BY DEF Init, Promise!Init, PromisedRow, PromisedRun, PromisedOutcome, Open
<1>2. IInv /\ [Next]_vars => [Promise!Next]_Promise!vars
  BY PromiseStep
<1> QED
  BY <1>1, <1>2, Invariance, PTL DEF Spec, ImplementsPromise, Promise!Spec

\* No step rewrites a final row, a late answer included: it would be a step
\* CommandPromise does not have.
THEOREM SettledRowsAreFinal == Spec => SettledIsFinal
<1>1. ASSUME IInv, [Next]_vars, NEW c \in Cmds,
             status[c] \in Verdicts \cup {"timeout"}
      PROVE status'[c] = status[c]
  <2>1. [Promise!Next]_Promise!vars
    BY <1>1, PromiseStep
  <2>2. PromisedRow[c] = status[c] /\ status[c] \notin {"none", "open"}
    BY <1>1 DEF PromisedRow, Verdicts, Open
  <2>3. PromisedRow'[c] = PromisedRow[c]
    BY <2>1, <2>2 DEF Promise!Next, Promise!vars, Promise!Submit, Promise!Begin,
                      Promise!End, Promise!Settle, Promise!Expire, PromisedRow
  <2>4. PromisedRow'[c] = IF status'[c] \in Open THEN "open" ELSE status'[c]
    BY DEF PromisedRow, Open
  <2> QED BY <2>2, <2>3, <2>4
<1>2. IInv /\ [Next]_vars =>
        [\A c \in Cmds : status[c] \in Verdicts \cup {"timeout"} => status'[c] = status[c]]_vars
  BY <1>1
<1> QED BY <1>2, Invariance, PTL DEF Spec, SettledIsFinal
=============================================================================
