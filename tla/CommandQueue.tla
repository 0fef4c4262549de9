---------------------------- MODULE CommandQueue ----------------------------
(***************************************************************************)
(* The command queue of one probe: the rows of table `commands`            *)
(* (internal/server/store/ops.go), the two goroutines that drain it into   *)
(* the probe's socket (HandleAgentWS and PumpCommands of                   *)
(* internal/server/hub/hub.go), the agent that executes                    *)
(* (internal/agent/commands.go) and the answers that settle a row.         *)
(*                                                                         *)
(* A cmd envelope is a record that carries the command, the number of its  *)
(* dispatch (so that two envelopes of one command are different), the      *)
(* socket it is meant for and where it is: still held by the goroutine     *)
(* that claimed the row ("handler", "pump"), in the buffered channel       *)
(* c.send ("send"), on the wire ("wire"), or read by the agent and waiting *)
(* for execMu in a goroutine of its own ("waiting").  The order inside a   *)
(* channel is left out: the agent starts one goroutine per envelope, so    *)
(* the order is lost there anyway.  FinishCommand's node_id condition is   *)
(* not modelled because the module has one probe.                          *)
(***************************************************************************)
EXTENDS Integers, FiniteSets

CONSTANTS Cmds,       \* command ids
          Sockets,    \* websocket connections of the probe, each used once
          NoSocket,   \* value of `registered` while the hub has no connection
          SendCap,    \* capacity of c.send (64 in the code)
          TTL,        \* ttl_seconds, in ticks
          MaxClock    \* bound on the clock

ASSUME NoSocketAssumption == NoSocket \notin Sockets
ASSUME BoundsAssumption == SendCap \in Nat /\ TTL \in Nat /\ MaxClock \in Nat

VARIABLES
  clock,       \* server time in ticks
  status,      \* commands.status, "none" before the row exists
  createdAt,   \* commands.created_at
  registered,  \* h.conns[node]: the socket the hub knows, or NoSocket
  handler,     \* per socket, where HandleAgentWS is
  closed,      \* per socket, Conn.close() has run
  pump,        \* the socket PumpCommands is draining, or NoSocket
  frames,      \* cmd envelopes between the row and the execution
  answers,     \* cmd_result envelopes on their way to the hub
  session,     \* per socket, the agent's session: "none", "live" or "done"
  execMu,      \* per session, the command that holds the mutex, if any
  running,     \* worker goroutines: the command each executes, its session
  outcome,     \* what the worker put in its CmdResult, "none" before it ended
  dispatched,  \* history: dispatches of each command
  started      \* history: executions of each command

rows  == <<clock, status, createdAt>>
hub   == <<registered, handler, closed, pump>>
agent == <<session, execMu, running, outcome>>
vars  == <<rows, hub, frames, answers, agent, dispatched, started>>

Verdicts == {"ok", "failed"}
Open     == {"pending", "sent"}
Free     == [holds |-> FALSE]
Held(c)  == [holds |-> TRUE, cmd |-> c]
Worker(c, s) == [cmd |-> c, sock |-> s]
Places   == {"handler", "pump", "send", "wire", "waiting"}
Frames   == [cmd : Cmds, copy : Nat \ {0}, sock : Sockets, at : Places]
At(place, s) == {f \in frames : f.at = place /\ f.sock = s}
Move(f, place) ==
  (frames \ {f}) \cup {[cmd |-> f.cmd, copy |-> f.copy, sock |-> f.sock, at |-> place]}

Init ==
  /\ clock = 0
  /\ status = [c \in Cmds |-> "none"]
  /\ createdAt = [c \in Cmds |-> 0]
  /\ registered = NoSocket
  /\ handler = [s \in Sockets |-> "none"]
  /\ closed = [s \in Sockets |-> FALSE]
  /\ pump = NoSocket
  /\ frames = {}
  /\ answers = {}
  /\ session = [s \in Sockets |-> "none"]
  /\ execMu = [s \in Sockets |-> Free]
  /\ running = {}
  /\ outcome = [c \in Cmds |-> "none"]
  /\ dispatched = [c \in Cmds |-> 0]
  /\ started = [c \in Cmds |-> 0]

(***************************************************************************)
(* The table.                                                              *)
(***************************************************************************)
Tick ==
  /\ clock < MaxClock
  /\ clock' = clock + 1
  /\ UNCHANGED <<status, createdAt, hub, frames, answers, agent, dispatched, started>>

Expired(c) == createdAt[c] + TTL < clock

\* Rows are created only while their TTL still fits under MaxClock.
CreateCommand(c) ==
  /\ status[c] = "none"
  /\ clock + TTL < MaxClock
  /\ status' = [status EXCEPT ![c] = "pending"]
  /\ createdAt' = [createdAt EXCEPT ![c] = clock]
  /\ UNCHANGED <<clock, hub, frames, answers, agent, dispatched, started>>

\* Mutant: only rows never dispatched expire.
TimeoutPendingOnly ==
  /\ \E c \in Cmds : status[c] = "pending" /\ Expired(c)
  /\ status' = [c \in Cmds |-> IF status[c] = "pending" /\ Expired(c)
                               THEN "timeout" ELSE status[c]]
  /\ UNCHANGED <<clock, createdAt, hub, frames, answers, agent, dispatched, started>>

\* Mutant: the sweep writes a status no reader of the table knows.
TimeoutAsExpired ==
  /\ \E c \in Cmds : status[c] \in Open /\ Expired(c)
  /\ status' = [c \in Cmds |-> IF status[c] \in Open /\ Expired(c)
                               THEN "expired" ELSE status[c]]
  /\ UNCHANGED <<clock, createdAt, hub, frames, answers, agent, dispatched, started>>

TimeoutStaleCommands ==
  /\ \E c \in Cmds : status[c] \in Open /\ Expired(c)
  /\ status' = [c \in Cmds |-> IF status[c] \in Open /\ Expired(c)
                               THEN "timeout" ELSE status[c]]
  /\ UNCHANGED <<clock, createdAt, hub, frames, answers, agent, dispatched, started>>

\* The row NextPendingCommand claims; rows of the same second are unordered.
Oldest(c) ==
  /\ status[c] = "pending"
  /\ \A d \in Cmds : status[d] = "pending" => createdAt[c] <= createdAt[d]

\* Mutant: the row is handed out without the UPDATE that marks it sent.
NextPendingCommandUnmarked(c, s, by) ==
  /\ Oldest(c)
  /\ dispatched' = [dispatched EXCEPT ![c] = @ + 1]
  /\ frames' = frames \cup
       {[cmd |-> c, copy |-> dispatched[c] + 1, sock |-> s, at |-> by]}
  /\ UNCHANGED <<clock, createdAt, status>>

NextPendingCommand(c, s, by) ==
  /\ Oldest(c)
  /\ status' = [status EXCEPT ![c] = "sent"]
  /\ dispatched' = [dispatched EXCEPT ![c] = @ + 1]
  /\ frames' = frames \cup
       {[cmd |-> c, copy |-> dispatched[c] + 1, sock |-> s, at |-> by]}
  /\ UNCHANGED <<clock, createdAt>>

(***************************************************************************)
(* The hub.                                                                *)
(***************************************************************************)
Close(s) == [closed EXCEPT ![s] = TRUE]

\* The agent has one connection at a time; the hub may still hold the
\* previous one, and closes it when it registers the new one.
HandleAgentWS(s) ==
  /\ handler[s] = "none" /\ session[s] = "none"
  /\ \A t \in Sockets : session[t] # "live"
  /\ registered' = s
  /\ closed' = [t \in Sockets |-> closed[t] \/ t = registered]
  /\ handler' = [handler EXCEPT ![s] = "drain"]
  /\ session' = [session EXCEPT ![s] = "live"]
  /\ UNCHANGED <<rows, pump, frames, answers, execMu, running, outcome, dispatched, started>>

\* hello_ack is the first envelope of c.send, so it takes one slot until the
\* write pump runs.
Backlog(s) == Cardinality(At("send", s)) + (IF handler[s] = "drain" THEN 1 ELSE 0)

HandlerClaims(c, s) ==
  /\ handler[s] = "drain" /\ At("handler", s) = {}
  /\ NextPendingCommand(c, s, "handler")
  /\ UNCHANGED <<hub, answers, agent, started>>

\* The queue is empty: the write pump starts and the read pump takes over.
HandlerDrained(s) ==
  /\ handler[s] = "drain" /\ At("handler", s) = {}
  /\ \A c \in Cmds : status[c] # "pending"
  /\ handler' = [handler EXCEPT ![s] = "serve"]
  /\ UNCHANGED <<rows, registered, closed, pump, frames, answers, agent, dispatched, started>>

PumpSnapshots ==
  /\ pump = NoSocket
  /\ registered # NoSocket /\ ~closed[registered]
  /\ pump' = registered
  /\ UNCHANGED <<rows, registered, handler, closed, frames, answers, agent, dispatched, started>>

PumpClaims(c) ==
  /\ pump # NoSocket /\ At("pump", pump) = {}
  /\ NextPendingCommand(c, pump, "pump")
  /\ UNCHANGED <<hub, answers, agent, started>>

PumpDrained ==
  /\ pump # NoSocket /\ At("pump", pump) = {}
  /\ \A c \in Cmds : status[c] # "pending"
  /\ pump' = NoSocket
  /\ UNCHANGED <<rows, registered, handler, closed, frames, answers, agent, dispatched, started>>

\* sendEnvelope: the envelope enters c.send, or is dropped because the queue
\* is full or the connection closed.  Its result is ignored by the drain.
SendEnvelope(f) ==
  /\ f.at \in {"handler", "pump"}
  /\ frames' = IF ~closed[f.sock] /\ Backlog(f.sock) < SendCap
               THEN Move(f, "send") ELSE frames \ {f}
  /\ UNCHANGED <<rows, hub, answers, agent, dispatched, started>>

\* After close() the select of writePump may still pick a buffered envelope.
WritePump(f) ==
  /\ f.at = "send" /\ handler[f.sock] = "serve"
  /\ session[f.sock] = "live"
  /\ frames' = Move(f, "wire")
  /\ UNCHANGED <<rows, hub, answers, agent, dispatched, started>>

\* A failed write closes the connection without taking it out of h.conns.
WriteFails(f) ==
  /\ f.at = "send" /\ handler[f.sock] = "serve"
  /\ session[f.sock] # "live"
  /\ frames' = frames \ {f}
  /\ closed' = Close(f.sock)
  /\ UNCHANGED <<rows, registered, handler, pump, answers, agent, dispatched, started>>

\* Mutant: FinishCommand without its status condition.
FinishCommandUnguarded(c, verdict) == status' = [status EXCEPT ![c] = verdict]

FinishCommand(c, verdict) ==
  status' = IF status[c] \in Open THEN [status EXCEPT ![c] = verdict] ELSE status

OnCmdResult(a) ==
  /\ handler[a.sock] = "serve"
  /\ FinishCommand(a.cmd, a.verdict)
  /\ answers' = answers \ {a}
  /\ UNCHANGED <<clock, createdAt, hub, frames, agent, dispatched, started>>

\* The read pump fails once the peer is gone; unread answers are lost.
ReadPumpEnds(s) ==
  /\ handler[s] = "serve" /\ session[s] = "done"
  /\ handler' = [handler EXCEPT ![s] = "gone"]
  /\ registered' = IF registered = s THEN NoSocket ELSE registered
  /\ closed' = Close(s)
  /\ answers' = {a \in answers : a.sock # s}
  /\ frames' = frames \ At("send", s)
  /\ UNCHANGED <<rows, pump, agent, dispatched, started>>

ServerRestart ==
  /\ \E s \in Sockets : handler[s] \in {"drain", "serve"}
  /\ registered' = NoSocket
  /\ handler' = [s \in Sockets |-> IF handler[s] = "none" THEN "none" ELSE "gone"]
  /\ closed' = [s \in Sockets |-> handler[s] # "none"]
  /\ pump' = NoSocket
  /\ frames' = {f \in frames : f.at \in {"wire", "waiting"}}
  /\ answers' = {}
  /\ UNCHANGED <<rows, agent, dispatched, started>>

(***************************************************************************)
(* The agent.                                                              *)
(***************************************************************************)
\* handleServerFrame: go s.executeCommand(env).
ReadFrame(f) ==
  /\ f.at = "wire" /\ session[f.sock] = "live"
  /\ frames' = Move(f, "waiting")
  /\ UNCHANGED <<rows, hub, answers, agent, dispatched, started>>

\* Mutant: the goroutine does not wait for execMu.
ExecuteWithoutMutex(f) ==
  /\ f.at = "waiting"
  /\ frames' = frames \ {f}
  /\ execMu' = [execMu EXCEPT ![f.sock] = Held(f.cmd)]
  /\ running' = running \cup {Worker(f.cmd, f.sock)}
  /\ started' = [started EXCEPT ![f.cmd] = @ + 1]
  /\ UNCHANGED <<rows, hub, answers, session, outcome, dispatched>>

\* Once the session is done the select picks either ready case, so a command
\* may still take the mutex of a dead session and start.
ExecuteCommand(f) ==
  /\ f.at = "waiting" /\ execMu[f.sock] = Free
  /\ frames' = frames \ {f}
  /\ execMu' = [execMu EXCEPT ![f.sock] = Held(f.cmd)]
  /\ running' = running \cup {Worker(f.cmd, f.sock)}
  /\ started' = [started EXCEPT ![f.cmd] = @ + 1]
  /\ UNCHANGED <<rows, hub, answers, session, outcome, dispatched>>

ExecuteGivesUp(f) ==
  /\ f.at = "waiting" /\ session[f.sock] = "done"
  /\ frames' = frames \ {f}
  /\ UNCHANGED <<rows, hub, answers, agent, dispatched, started>>

WorkerEnds(w, verdict) ==
  /\ running' = running \ {w}
  /\ outcome' = [outcome EXCEPT ![w.cmd] = verdict]
  /\ UNCHANGED <<rows, hub, frames, answers, session, execMu, dispatched, started>>

\* runCommand also returns when the session is done: the worker goes on, and
\* the zero CmdResult it returns would read as "ok".
Answer(s, c) ==
  [cmd |-> c, sock |-> s,
   verdict |-> IF Worker(c, s) \in running THEN "ok" ELSE outcome[c]]

\* Mutant: sendEnvelope does not look at s.done.
ReplyAfterDone(s, c) == {answers, answers \cup {Answer(s, c)}}

\* sendEnvelope of the agent: nothing leaves a session that is done, and a
\* full queue drops the answer.
ReplyWith(s, c) ==
  IF session[s] = "live" THEN {answers, answers \cup {Answer(s, c)}} ELSE {answers}

RunCommandReturns(s, c) ==
  /\ execMu[s] = Held(c)
  /\ Worker(c, s) \notin running \/ session[s] = "done"
  /\ execMu' = [execMu EXCEPT ![s] = Free]
  /\ answers' \in ReplyWith(s, c)
  /\ UNCHANGED <<rows, hub, frames, session, running, outcome, dispatched, started>>

\* shutdown(): the read loop failed.  The envelopes on the wire are lost.
Shutdown(s) ==
  /\ session[s] = "live"
  /\ session' = [session EXCEPT ![s] = "done"]
  /\ frames' = frames \ At("wire", s)
  /\ UNCHANGED <<rows, hub, answers, execMu, running, outcome, dispatched, started>>

\* The agent process dies (or re-executes itself) with all its goroutines.
AgentRestart ==
  /\ \E s \in Sockets : session[s] = "live" \/ execMu[s] # Free
  /\ session' = [s \in Sockets |-> IF session[s] = "none" THEN "none" ELSE "done"]
  /\ execMu' = [s \in Sockets |-> Free]
  /\ running' = {}
  /\ frames' = {f \in frames : f.at \notin {"wire", "waiting"}}
  /\ UNCHANGED <<rows, hub, answers, outcome, dispatched, started>>

(***************************************************************************)
Server ==
  \/ Tick
  \/ TimeoutStaleCommands
  \/ PumpSnapshots
  \/ PumpDrained
  \/ ServerRestart
  \/ \E c \in Cmds : CreateCommand(c) \/ PumpClaims(c)
  \/ \E s \in Sockets : HandleAgentWS(s) \/ HandlerDrained(s) \/ ReadPumpEnds(s)
  \/ \E c \in Cmds, s \in Sockets : HandlerClaims(c, s)
  \/ \E f \in frames : SendEnvelope(f) \/ WritePump(f) \/ WriteFails(f)
  \/ \E a \in answers : OnCmdResult(a)

Agent ==
  \/ \E f \in frames : ReadFrame(f) \/ ExecuteCommand(f) \/ ExecuteGivesUp(f)
  \/ \E w \in running, v \in Verdicts : WorkerEnds(w, v)
  \/ \E s \in Sockets, c \in Cmds : RunCommandReturns(s, c)
  \/ \E s \in Sockets : Shutdown(s)
  \/ AgentRestart

Next == Server \/ Agent

Spec == Init /\ [][Next]_vars

\* The scheduler's ticker and the clock never stop; nothing is assumed of the
\* network, of the hub's goroutines or of the agent.
FairSpec == Spec /\ WF_vars(Tick) /\ WF_vars(TimeoutStaleCommands)

(***************************************************************************)
(* Properties.                                                             *)
(***************************************************************************)
TypeOK ==
  /\ clock \in 0..MaxClock
  /\ status \in [Cmds -> {"none", "timeout"} \cup Open \cup Verdicts]
  /\ createdAt \in [Cmds -> 0..MaxClock]
  /\ registered \in Sockets \cup {NoSocket}
  /\ handler \in [Sockets -> {"none", "drain", "serve", "gone"}]
  /\ closed \in [Sockets -> BOOLEAN]
  /\ pump \in Sockets \cup {NoSocket}
  /\ frames \subseteq Frames
  /\ answers \subseteq [cmd : Cmds, sock : Sockets, verdict : Verdicts]
  /\ session \in [Sockets -> {"none", "live", "done"}]
  /\ execMu \in [Sockets -> {Free} \cup {Held(c) : c \in Cmds}]
  /\ running \subseteq [cmd : Cmds, sock : Sockets]
  /\ outcome \in [Cmds -> {"none"} \cup Verdicts]
  /\ dispatched \in [Cmds -> Nat]
  /\ started \in [Cmds -> Nat]

\* A command is executed at most once, whatever reconnects, restarts and the
\* two concurrent drains do: the row is claimed in one transaction and a
\* "sent" row is never dispatched again (docs/design.md, command idempotency).
AtMostOnce == \A c \in Cmds : started[c] <= 1

\* The panel shows ok or failed only for a command whose execution ended with
\* that outcome: neither an abandoned execution (whose zero CmdResult reads as
\* success) nor a lost answer ever settles a row.
VerdictIsReal == \A c \in Cmds : status[c] \in Verdicts => outcome[c] = status[c]

\* A settled row is never rewritten: a late or duplicate answer of a command
\* that timed out changes nothing (FinishCommand's status guard).
SettledIsFinal ==
  [][\A c \in Cmds : status[c] \in Verdicts \cup {"timeout"} => status'[c] = status[c]]_vars

\* While a session lives its commands execute one at a time: execMu is held
\* until the worker has ended (executeCommand and runCommand).
LiveSessionIsSerial ==
  \A s \in Sockets : session[s] = "live" =>
    Cardinality({w \in running : w.sock = s}) <= 1

\* Every row that is created is settled: a command lost in a full queue, on a
\* dead socket or in a crashed process ends as "timeout" (design 7, TTL).
EverythingSettles ==
  \A c \in Cmds : (status[c] \in Open) ~> (status[c] \in Verdicts \cup {"timeout"})

(***************************************************************************)
(* The queue implements the promise made to the panel (CommandPromise).    *)
(***************************************************************************)
PromisedRow == [c \in Cmds |-> IF status[c] \in Open THEN "open" ELSE status[c]]
PromisedRun == {c \in Cmds : started[c] > 0}
PromisedOutcome == outcome

Promise == INSTANCE CommandPromise WITH
  row <- PromisedRow, ran <- PromisedRun, result <- PromisedOutcome

\* Seen through its rows and executions the queue is CommandPromise: however
\* the drains, sockets and restarts interleave, a command is run at most once
\* and its row goes from open to one final state.
ImplementsPromise == Promise!Spec
=============================================================================
