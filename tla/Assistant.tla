------------------------------ MODULE Assistant ------------------------------
(***************************************************************************)
(* One conversation of the assistant: its transcript (ai_messages), the    *)
(* tool loop that extends it (runAITurn of internal/server/httpapi/        *)
(* ai_loop.go), the budget of a turn (ai_turn.go), the confirmations of    *)
(* the operator (ai_pending_actions, handleAIChatContinue) and the brakes  *)
(* on what the tools type into the terminal (aiTerminalGate).              *)
(*                                                                         *)
(* A worker is a goroutine that serves one HTTP request, a new message or  *)
(* an answer to a confirmation, and then runs the loop.  Nothing keeps two *)
(* of them apart: the operator stops a turn and types at once, or has two  *)
(* tabs.  A call is a number; its tool and arguments are what the model    *)
(* asked for.  Of a row the module keeps its role, the calls an assistant  *)
(* row requests and the calls a tool row answers.  The terminal is only    *)
(* what it tells the tools: keys were typed, or not, and a command ended,  *)
(* or its screen could not be read.                                        *)
(***************************************************************************)
EXTENDS Integers, Sequences, FiniteSets

CONSTANTS Workers,     \* goroutines that serve requests
          Args,        \* fingerprints of arguments (normalizeToolArgs)
          ChangeBudget,\* aiTurnChangeBudget
          ReadLimit,   \* aiTurnReadLimit
          RateLimit,   \* aiCommandLimit
          RateWindow,  \* aiTerminalCommandWindow, in ticks
          History,     \* aiLoopHistoryLimit
          Strict,      \* the provider speaks anthropic-messages
          MaxRequests, \* bound on requests and restarts
          MaxMessages, \* bound on those of the requests that carry a message
          MaxCalls,    \* bound on calls of the model
          MaxClock     \* bound on the clock

ASSUME BudgetAssumption == {ChangeBudget, ReadLimit, RateLimit, RateWindow, History} \subseteq Nat
ASSUME WorkersAssumption == IsFiniteSet(Workers) /\ Workers # {}
ASSUME StrictAssumption == Strict \in BOOLEAN
ASSUME BoundsAssumption == {MaxRequests, MaxMessages, MaxCalls, MaxClock} \subseteq Nat

VARIABLES
  rows,     \* ai_messages of the session, oldest first
  calls,    \* what each call asks for, and the request whose turn it is of
  actions,  \* ai_pending_actions.status by call, "none" without a row
  at,       \* where each worker is
  turn,     \* the turn of each worker: its request and its aiTurnBudget
  todo,     \* the calls of its round it has not handled yet
  results,  \* the calls it has results of that are not stored yet
  clock,    \* seconds of audit_logs, in ticks
  audits,   \* audit rows of typed keys: the call and the time of each
  typed,    \* history: how often each call was typed into the terminal
  requests  \* requests served and restarts

talk == <<rows, calls, actions>>
limits == <<clock, audits>>
round == <<todo, results>>
vars == <<talk, at, turn, round, limits, typed, requests>>

\* An unknown tool counts as a change and is answered at once: like run_shell with
\* arguments that cannot be used.
Tools == {"run_shell", "send_keys", "read_terminal"}

\* An aiMessageEnvelope: the calls, those of them a request replays, the answers.
Row(role, asked, replayed, answered) ==
  [role |-> role, calls |-> asked, replays |-> replayed, answers |-> answered]
User         == Row("user", {}, {}, {})
TurnEnd      == Row("turn_end", {}, {}, {})
Says(cs)     == Row("assistant", cs, cs, {})
Results(cs)  == Row("tool", {}, {}, cs)

\* newAITurnBudget; resumes: the round begins with a confirmed call.
NewTurn(n, resumes) ==
  [request |-> n, changes |-> 0, reads |-> 0, seen |-> {}, resumes |-> resumes]
NoTurn == NewTurn(0, FALSE)

Init ==
  /\ rows = <<>> /\ calls = <<>>
  /\ actions = [c \in 1..MaxCalls |-> "none"]
  /\ at = [w \in Workers |-> "off"]
  /\ turn = [w \in Workers |-> NoTurn]
  /\ todo = [w \in Workers |-> <<>>]
  /\ results = [w \in Workers |-> {}]
  /\ clock = 0 /\ audits = {}
  /\ typed = [c \in 1..MaxCalls |-> 0]
  /\ requests = 0

\* Only audit rows are compared with the clock.
Tick ==
  /\ clock < MaxClock /\ audits # {}
  /\ clock' = clock + 1
  /\ UNCHANGED <<talk, at, turn, round, audits, typed, requests>>

(***************************************************************************)
(* The transcript.                                                         *)
(***************************************************************************)
\* ListAIMessages(session, aiLoopHistoryLimit).
Recent == SubSeq(rows, IF Len(rows) > History THEN Len(rows) - History + 1 ELSE 1, Len(rows))

Answered(rs) == UNION {rs[i].answers : i \in DOMAIN rs}

\* The calls closeDanglingToolCalls finds open: those of the newest row that has
\* blocks and is not a tool row.  A turn_end row has blocks, and no call.
Carries(r) == r.role \in {"assistant", "turn_end"}
Open(rs) ==
  LET carriers == {i \in DOMAIN rs : Carries(rs[i])}
  IN UNION {rs[i].calls : i \in {j \in carriers : \A k \in carriers : k <= j}}
Dangling == Open(Recent) \ Answered(Recent)

\* The worker is free again.
Leaves(w) ==
  /\ at' = [at EXCEPT ![w] = "off"]
  /\ turn' = [turn EXCEPT ![w] = NoTurn]
  /\ todo' = [todo EXCEPT ![w] = <<>>]
  /\ results' = [results EXCEPT ![w] = {}]

\* finishAITurn: the reason of the end is a row of its own.
Ends(w, before) ==
  /\ rows' = Append(rows \o before, TurnEnd)
  /\ Leaves(w)

(***************************************************************************)
(* Requests.                                                               *)
(***************************************************************************)
Starts(w) ==
  /\ at[w] = "off" /\ requests < MaxRequests
  /\ requests' = requests + 1

\* The messages stored and those about to be.
Messages == Cardinality({i \in DOMAIN rows : rows[i].role = "user"})
              + Cardinality({w \in Workers : at[w] = "chat"})
\* handleAIChat: look for calls without a result, then close them and store the
\* message, which a session that exists may leave out.
Chat(w) ==
  /\ Starts(w) /\ Messages < MaxMessages
  /\ at' = [at EXCEPT ![w] = "chat"]
  /\ turn' = [turn EXCEPT ![w] = NewTurn(requests', FALSE)]
  /\ results' = [results EXCEPT ![w] = Dangling]
  /\ UNCHANGED <<talk, todo, limits, typed>>

CloseDanglingToolCalls(w) ==
  /\ at[w] = "chat"
  /\ rows' = Append(IF results[w] = {} THEN rows ELSE Append(rows, Results(results[w])), User)
  /\ at' = [at EXCEPT ![w] = "ask"]
  /\ results' = [results EXCEPT ![w] = {}]
  /\ UNCHANGED <<calls, actions, turn, todo, limits, typed, requests>>

\* handleAIChatContinue: the action is pending when it is looked at.
Continue(w, c, approved) ==
  /\ actions[c] = "pending"
  /\ Starts(w)
  /\ at' = [at EXCEPT ![w] = IF ~approved THEN "reject"
                             ELSE IF calls[c].tool = "run_shell" THEN "gate" ELSE "type"]
  /\ turn' = [turn EXCEPT ![w] = NewTurn(requests', TRUE)]
  /\ todo' = [todo EXCEPT ![w] = <<c>>]
  /\ UNCHANGED <<talk, results, limits, typed>>

(***************************************************************************)
(* The loop.                                                               *)
(***************************************************************************)
\* anthropicMessages: a result needs its call in an earlier row of the request.
Encodable(rs) ==
  \A i \in DOMAIN rs : rs[i].answers \subseteq UNION {rs[j].replays : j \in 1..(i - 1)}

\* The transcript is read, encoded and sent upstream.
Request(w) ==
  /\ at[w] = "ask" /\ (Strict => Encodable(Recent))
  /\ at' = [at EXCEPT ![w] = "stream"]
  /\ UNCHANGED <<talk, turn, round, limits, typed, requests>>

NotEncodable(w) ==
  /\ at[w] = "ask" /\ Strict /\ ~Encodable(Recent)
  /\ Ends(w, <<>>)
  /\ UNCHANGED <<calls, actions, limits, typed, requests>>

TurnTimesOut(w) ==
  /\ at[w] = "ask"
  /\ Ends(w, <<>>)
  /\ UNCHANGED <<calls, actions, limits, typed, requests>>

\* Mutant: a turn without text is taken for an empty one.
PersistText(cs) == <<>>
\* An assistant row needs a text, a call or a native block.
PersistAssistantTurn(cs) == <<Says(cs)>>

\* The model asks for one or two calls.
Asks(w, asked) ==
  /\ at[w] = "stream" /\ Len(calls) + Len(asked) <= MaxCalls
  /\ calls' = calls \o [i \in DOMAIN asked |->
       [tool |-> asked[i][1], args |-> asked[i][2], request |-> turn[w].request]]
New == {c \in DOMAIN calls' : c > Len(calls)}

Calls(w, asked) ==
  /\ asked # <<>> /\ Asks(w, asked)
  /\ rows' = rows \o PersistAssistantTurn(New)
  /\ at' = [at EXCEPT ![w] = "calls"]
  /\ todo' = [todo EXCEPT ![w] = [i \in DOMAIN asked |-> Len(calls) + i]]
  /\ UNCHANGED <<actions, turn, results, limits, typed, requests>>

\* The call is found in the text (parseAIContentTool): the row is stored again with
\* it.  The native blocks of a strict provider, which are what is replayed, lack it.
Recovered(cs) == Row("assistant", cs, IF Strict THEN {} ELSE cs, {})
CallsInText(w, asked) ==
  /\ Len(asked) = 1 /\ Asks(w, asked)
  /\ rows' = Append(Append(rows, Says({})), Recovered(New))
  /\ at' = [at EXCEPT ![w] = "calls"]
  /\ todo' = [todo EXCEPT ![w] = <<Len(calls) + 1>>]
  /\ UNCHANGED <<actions, turn, results, limits, typed, requests>>

\* A final answer; or the stream breaks, and what arrived is stored.
Answers(w, asked) ==
  /\ Asks(w, asked)
  /\ \/ Ends(w, PersistAssistantTurn(New))
     \/ asked = <<>> /\ Ends(w, <<>>)
  /\ UNCHANGED <<actions, limits, typed, requests>>

(***************************************************************************)
(* A round: the calls of one assistant row, in order.                      *)
(***************************************************************************)
Now(w) == Head(todo[w])
AtCall(w) == at[w] = "calls" /\ todo[w] # <<>>

\* Mutant: no repeat is found.
NoRepeats(w) == FALSE
Repeats(w) == \E c \in turn[w].seen :
  calls[c].tool = calls[Now(w)].tool /\ calls[c].args = calls[Now(w)].args

\* NoteRead, NoteCall, NoteChange.
Allowed(w) ==
  IF calls[Now(w)].tool = "read_terminal" THEN turn[w].reads < ReadLimit
  ELSE ~Repeats(w) /\ turn[w].changes < ChangeBudget
Noted(w) ==
  IF calls[Now(w)].tool = "read_terminal" THEN [turn[w] EXCEPT !.reads = @ + 1]
  ELSE [turn[w] EXCEPT !.reads = 0, !.changes = @ + 1, !.seen = @ \cup {Now(w)}]

Refused(w) ==
  /\ AtCall(w) /\ ~Allowed(w)
  /\ Ends(w, <<Results(results[w] \cup {Now(w)})>>)
  /\ UNCHANGED <<calls, actions, limits, typed, requests>>

\* The call has a result: on to the next one.
Result(w) ==
  /\ at' = [at EXCEPT ![w] = "calls"]
  /\ todo' = [todo EXCEPT ![w] = Tail(todo[w])]
  /\ results' = [results EXCEPT ![w] = results[w] \cup {Now(w)}]

\* The screen is read, or cannot be; the arguments of a change are unusable.
Inline(w) ==
  /\ AtCall(w) /\ Allowed(w)
  /\ Result(w)
  /\ turn' = [turn EXCEPT ![w] = Noted(w)]
  /\ UNCHANGED <<talk, limits, typed, requests>>

\* The model calls it risky, or the policy asks for every change: the results of
\* the round so far are not stored.  Without a listener the end is not either.
NeedsConfirmation(w) ==
  /\ AtCall(w) /\ Allowed(w)
  /\ calls[Now(w)].tool \in {"run_shell", "send_keys"}
  /\ actions' = [actions EXCEPT ![Now(w)] = "pending"]
  /\ \/ Ends(w, <<>>)
     \/ Leaves(w) /\ UNCHANGED rows
  /\ UNCHANGED <<calls, limits, typed, requests>>

ToTerminal(w) ==
  /\ AtCall(w) /\ Allowed(w)
  /\ calls[Now(w)].tool \in {"run_shell", "send_keys"}
  /\ at' = [at EXCEPT ![w] = "gate"]
  /\ turn' = [turn EXCEPT ![w] = Noted(w)]
  /\ UNCHANGED <<talk, round, limits, typed, requests>>

PersistToolResults(w) ==
  /\ at[w] = "calls" /\ todo[w] = <<>>
  /\ rows' = Append(rows, Results(results[w]))
  /\ at' = [at EXCEPT ![w] = "ask"]
  /\ results' = [results EXCEPT ![w] = {}]
  /\ turn' = [turn EXCEPT ![w].resumes = FALSE]
  /\ UNCHANGED <<calls, actions, todo, limits, typed, requests>>

(***************************************************************************)
(* The terminal tools.                                                     *)
(***************************************************************************)
\* CountAITerminalActions.
Counted == {a \in audits : a.time + RateWindow >= clock}

\* Mutant: the gate lets one action more through.
GateLate == Cardinality(Counted) <= RateLimit
GateOpen == Cardinality(Counted) < RateLimit

AiTerminalGate(w) ==
  /\ at[w] = "gate"
  /\ IF GateOpen THEN at' = [at EXCEPT ![w] = "type"] /\ UNCHANGED round
     ELSE Result(w)
  /\ UNCHANGED <<talk, turn, limits, typed, requests>>

\* No browser holds the terminal: nothing is typed.
Unavailable(w) ==
  /\ at[w] = "type"
  /\ Result(w)
  /\ UNCHANGED <<talk, turn, limits, typed, requests>>

Types(w) ==
  /\ at[w] = "type"
  /\ typed' = [typed EXCEPT ![Now(w)] = @ + 1]
  /\ at' = [at EXCEPT ![w] = "typed"]
  /\ UNCHANGED <<talk, turn, round, limits, requests>>

\* Mutant: an answer to a confirmation overwrites the one before.
DecideAnyway(c, decision) == [actions EXCEPT ![c] = decision]
\* ConfirmAIPendingAction and RejectAIPendingAction.
Decide(c, decision) ==
  IF actions[c] = "pending" THEN [actions EXCEPT ![c] = decision] ELSE actions

\* The keys are out, or the command has ended or outlived the wait.
Finished(w) ==
  /\ at[w] = "typed"
  /\ audits' = audits \cup {[call |-> Now(w), time |-> clock, nth |-> Cardinality(audits),
                             gated |-> ~turn[w].resumes \/ calls[Now(w)].tool = "run_shell"]}
  /\ actions' = IF turn[w].resumes THEN Decide(Now(w), "confirmed") ELSE actions
  /\ Result(w)
  /\ UNCHANGED <<rows, calls, turn, clock, typed, requests>>

\* The screen cannot be read any more: an error without an audit row, and an
\* approved action stays pending.
ScreenLost(w) ==
  /\ at[w] = "typed" /\ calls[Now(w)].tool = "run_shell"
  /\ Result(w)
  /\ UNCHANGED <<talk, turn, limits, typed, requests>>

Reject(w) ==
  /\ at[w] = "reject"
  /\ actions' = Decide(Now(w), "rejected")
  /\ Result(w)
  /\ UNCHANGED <<rows, calls, turn, limits, typed, requests>>

\* The panel stops: goroutines are gone, the tables stay.
Restart ==
  /\ requests < MaxRequests /\ \E w \in Workers : at[w] # "off"
  /\ requests' = requests + 1
  /\ at' = [w \in Workers |-> "off"]
  /\ turn' = [w \in Workers |-> NoTurn]
  /\ todo' = [w \in Workers |-> <<>>]
  /\ results' = [w \in Workers |-> {}]
  /\ UNCHANGED <<talk, limits, typed>>

(***************************************************************************)
Rounds == UNION {[1..n -> Tools \X Args] : n \in 0..2}

Turn(w) ==
  \/ Request(w) \/ NotEncodable(w) \/ TurnTimesOut(w)
  \/ \E asked \in Rounds : Calls(w, asked) \/ CallsInText(w, asked) \/ Answers(w, asked)
  \/ Refused(w) \/ Inline(w) \/ NeedsConfirmation(w) \/ ToTerminal(w)
  \/ PersistToolResults(w)
  \/ AiTerminalGate(w) \/ Unavailable(w) \/ Types(w) \/ Finished(w) \/ ScreenLost(w)
  \/ CloseDanglingToolCalls(w) \/ Reject(w)

Next ==
  \/ Tick \/ Restart
  \/ \E w \in Workers :
       \/ Chat(w) \/ Turn(w)
       \/ \E c \in DOMAIN calls, approved \in BOOLEAN : Continue(w, c, approved)

Spec == Init /\ [][Next]_vars

(***************************************************************************)
(* Properties.                                                             *)
(***************************************************************************)
\* The type of the state.
Places == {"off", "chat", "ask", "stream", "calls", "gate", "type", "typed", "reject"}
RowsOf(cs) == [role : {"user", "assistant", "tool", "turn_end"},
               calls : SUBSET cs, replays : SUBSET cs, answers : SUBSET cs]
CallType == [tool : Tools, args : Args, request : 1..MaxRequests]
TurnsOf(cs) == [request : 0..MaxRequests, changes : 0..ChangeBudget, reads : 0..ReadLimit,
                seen : SUBSET cs, resumes : BOOLEAN]
TypeOK ==
  /\ rows \in Seq(RowsOf(DOMAIN calls))
  /\ calls \in Seq(CallType)
  /\ Len(calls) <= MaxCalls
  /\ actions \in [1..MaxCalls -> {"none", "pending", "confirmed", "rejected"}]
  /\ at \in [Workers -> Places]
  /\ turn \in [Workers -> TurnsOf(DOMAIN calls)]
  /\ todo \in [Workers -> Seq(DOMAIN calls)]
  /\ results \in [Workers -> SUBSET DOMAIN calls]
  /\ clock \in 0..MaxClock /\ requests \in 0..MaxRequests
  /\ typed \in [1..MaxCalls -> Nat]

\* Whatever the loop and the requests write over each other, an answer never
\* stands in the transcript before, or without, the row that asks for it: the
\* upstream would refuse it (persistAssistantTurn is called before any call runs).
AnswersFollowCalls ==
  \A i \in DOMAIN rows : \A c \in rows[i].answers : \E j \in 1..(i - 1) : c \in rows[j].calls

\* The calls one turn asked for are typed by it, or after a confirmation, never
\* past the change budget and never the same command twice: the loop has no
\* other brake on what one message of the operator sets off (ai_turn.go).
Typed(n) == {c \in DOMAIN calls : calls[c].request = n /\ typed[c] > 0}
TurnWithinLimits ==
  \A n \in 1..MaxRequests :
    /\ Cardinality(Typed(n)) <= ChangeBudget
    /\ \A c, d \in Typed(n) : calls[c].tool = calls[d].tool /\ calls[c].args = calls[d].args
                               => c = d

\* The gate counts before it types and writes the audit row after the command, so
\* turns that run at once can all pass on the same count: of the actions that go
\* through the gate a window holds at most one per worker above the limit.
RateBound ==
  \A t \in 0..MaxClock :
    Cardinality({a \in audits : a.gated /\ a.time \in t..(t + RateWindow)})
      <= RateLimit + Cardinality(Workers) - 1

\* The answer to a confirmation is final: of two answers that both saw it pending
\* the one stored first stays (AND status = 'pending' in store/ai.go).
DecisionsAreFinal ==
  [][\A c \in DOMAIN actions : actions[c] \in {"confirmed", "rejected"}
                               => actions'[c] = actions[c]]_vars

\* What is sent upstream pairs every call with an answer, as closeDanglingToolCalls
\* promises ("the dangling call must be closed with an explicit not executed result
\* before the next turn is sent").
Paired(rs) == UNION {rs[i].calls : i \in DOMAIN rs} \subseteq Answered(rs)
RequestsArePaired == [][\A w \in Workers : Request(w) => Paired(Recent)]_vars
=============================================================================
