---------------------------- MODULE AgentUpdate ----------------------------
(***************************************************************************)
(* The self-update of one probe: the manager of the panel                  *)
(* (internal/server/agentupdate/agentupdate.go with its columns of nodes)  *)
(* and the updater of the probe (internal/agent/selfupdate.go).  The panel *)
(* declares the build it wants in hello_ack and in desired frames; the     *)
(* probe decides alone, keeps its ledger on disk, and narrates.            *)
(*                                                                         *)
(* A plan is the anchor the panel hands out with a target: the updater     *)
(* only compares anchors, so a plan is a name.  A name that nothing refers *)
(* to any more may be used again.  Time passes in ticks: `age` is how long *)
(* ago a plan was anchored, the probe may start when it is Stagger.        *)
(***************************************************************************)
EXTENDS Integers, Sequences, FiniteSets

CONSTANTS Versions,     \* builds a panel may ask for
          NoVersion,    \* no target is offered ("")
          Plans,        \* names of plans, naturals from 1 (a bound)
          Stagger,      \* offset of the probe inside the stagger window
          ConvergeAfter,\* a plan this old counts as stale
          BackoffMax,   \* transientBackoffMax
          Limit,        \* updateTerminalLimit, transientAlertAfter
          Frames,       \* frames in flight one way (a bound)
          CanWrite,     \* what supported() may answer
          Events,       \* which of "redeploy", "retry", "switch", "push" may happen
          MaxEvents     \* how many of them (a bound)

ASSUME VersionsAssumption == NoVersion \notin Versions
ASSUME PlansAssumption == Plans \subseteq Nat \ {0}
ASSUME TimesAssumption == Stagger \in Nat /\ ConvergeAfter \in Nat /\ BackoffMax \in Nat \ {0}
ASSUME LimitAssumption == Limit \in Nat \ {0}
ASSUME MaxEventsAssumption == MaxEvents \in Nat
ASSUME FramesAssumption == Frames \in Nat \ {0}
ASSUME CanWriteAssumption == CanWrite \subseteq BOOLEAN

VARIABLES
  serving,  \* main.version of the panel
  offering, \* status(): the switch is on and the artifact is there
  row,      \* the agent_* columns of the node
  age,      \* ticks since each plan was anchored
  alerts,   \* kinds with an open alert: "failed", "transient", "stale"
  link,     \* TRUE while a connection is registered
  down,     \* frames to the probe: <<target, plan>>
  up,       \* frames to the panel
  build,    \* Version of the running process
  image,    \* the build of the file at exePath
  st,       \* updateState in memory
  disk,     \* updateState in update-state.json
  running,  \* the guard of the updater
  works,    \* attempts under way
  timers,   \* the timer of the pending wait, if any
  asked,    \* history: the target and plan Consider was last called with
  spent,    \* history: terminal failures of that target since then
  used      \* how many of the bounded events happened

panel == <<serving, offering>>
wire == <<link, down, up>>
agent == <<build, image, st, disk, running, works, timers>>
history == <<asked, spent>>
vars == <<panel, row, age, alerts, wire, agent, history, used>>

Fresh(target) ==
  [target |-> target, terminal |-> 0, streak |-> 0, retry |-> 0,
   anchor |-> 0, committed |-> NoVersion]

Init ==
  /\ serving \in Versions /\ build \in Versions
  /\ image = build
  /\ offering = TRUE
  /\ row = [version |-> build, target |-> NoVersion, state |-> "none",
            attempts |-> 0, planned |-> 0]
  /\ age = [p \in Plans |-> 0]
  /\ alerts = {}
  /\ link = FALSE /\ down = <<>> /\ up = <<>>
  /\ st = Fresh(NoVersion) /\ disk = Fresh(NoVersion)
  /\ running = FALSE /\ works = {} /\ timers = {}
  /\ asked = <<NoVersion, 0>> /\ spent = 0
  /\ used = 0

(***************************************************************************)
(* The panel: Manager.Target, called for every hello_ack, desired frame,   *)
(* hello and self-check.                                                   *)
(***************************************************************************)
Named == {row.planned, st.anchor, disk.anchor, asked[2]}
           \cup {t.plan : t \in timers} \cup {down[i][2] : i \in DOMAIN down}
FreePlans == Plans \ Named
NewPlan == CHOOSE p \in FreePlans : TRUE

\* Mutant: every call anchors the plan again.
AnchorsAlways(r) == r.version # serving
Anchors(r) == r.target # serving \/ r.planned = 0

Target(r) ==
  IF ~offering THEN r
  ELSE IF r.version = serving
         THEN IF r.state # "committed" \/ r.planned # 0
                THEN [r EXCEPT !.target = serving, !.state = "committed", !.planned = 0]
                ELSE r
         ELSE IF Anchors(r) THEN [r EXCEPT !.target = serving, !.planned = NewPlan] ELSE r

\* The row after Target was asked, with the clock of a new plan.
Asked(r) ==
  /\ FreePlans # {}
  /\ row' = Target(r)
  /\ age' = [p \in Plans |-> IF p = row'.planned /\ p # r.planned THEN 0 ELSE age[p]]

\* What that call hands out, read after it.
Offer == IF offering /\ row'.version # serving THEN <<serving, row'.planned>> ELSE <<NoVersion, 0>>

\* One of the bounded events.
Happens(event) == event \in Events /\ used < MaxEvents /\ used' = used + 1

(***************************************************************************)
(* The connection.                                                         *)
(***************************************************************************)
Hello(v) == [type |-> "hello", version |-> v]
Said(target, state, attempts) ==
  [type |-> "report", target |-> target, state |-> state, attempts |-> attempts]

\* Reports are best effort: without a session or behind a full queue they drop.
Report(said) == up' = IF link /\ Len(up) + Len(said) <= Frames THEN up \o said ELSE up

\* hello_ack is built before hello is read: on the version known from before.
Connect ==
  /\ ~link /\ link' = TRUE
  /\ Asked(row)
  /\ down' = <<Offer>>
  /\ up' = <<Hello(build)>>
  /\ UNCHANGED <<panel, alerts, agent, history, used>>

Cut == link' = FALSE /\ down' = <<>> /\ up' = <<>>
Disconnect ==
  /\ link /\ Cut
  /\ UNCHANGED <<panel, row, age, alerts, agent, history, used>>

\* Any change of the desired state is pushed with the update fields in it.
PushDesired ==
  /\ link /\ Len(down) < Frames
  /\ Asked(row)
  /\ down' = Append(down, Offer)
  /\ UNCHANGED <<panel, alerts, link, up, agent, history, used>>

\* An install or a config edit of sing-box pushes a frame with the sing-box half
\* only: the probe reads the absent agent target as "no target".
SingboxHalf == <<NoVersion, 0>>
PushSingbox ==
  /\ Happens("push")
  /\ link /\ Len(down) < Frames
  /\ down' = Append(down, SingboxHalf)
  /\ UNCHANGED <<panel, row, age, alerts, link, up, agent, history>>

(***************************************************************************)
(* The panel reads hello and reports.                                      *)
(***************************************************************************)
OnHello ==
  /\ up # <<>> /\ Head(up).type = "hello"
  /\ Asked([row EXCEPT !.version = Head(up).version])
  /\ up' = Tail(up)
  /\ UNCHANGED <<panel, alerts, link, down, agent, history, used>>

RecordAgentUpdate(r) ==
  [row EXCEPT !.target = r.target, !.state = r.state, !.attempts = r.attempts]

OnReport ==
  /\ up # <<>> /\ Head(up).type = "report"
  /\ LET r == Head(up)
         changed == r.state # row.state \/ r.attempts # row.attempts
     IN /\ row' = RecordAgentUpdate(r)
        /\ alerts' =
             CASE r.state = "unsupported" -> alerts \ {"failed", "transient"}
               [] r.state = "committed" /\ changed -> alerts \ {"failed", "transient"}
               [] r.state \in {"failed", "suppressed"} /\ changed -> alerts \cup {"failed"}
               [] r.state = "transient" /\ changed /\ r.attempts >= Limit ->
                    alerts \cup {"transient"}
               [] OTHER -> alerts
  /\ up' = Tail(up)
  /\ UNCHANGED <<panel, age, link, down, agent, history, used>>

(***************************************************************************)
(* The operator and the clock of the panel.                                *)
(***************************************************************************)
\* Manager.Retry; the push that follows is PushDesired, or the next hello_ack.
Retry ==
  /\ Happens("retry")
  /\ row' = [row EXCEPT !.attempts = 0, !.state = "none", !.planned = 0]
  /\ UNCHANGED <<panel, age, alerts, wire, agent, history>>

SetAutoUpdate ==
  /\ Happens("switch")
  /\ offering' = ~offering
  /\ UNCHANGED <<serving, row, age, alerts, wire, agent, history>>

\* Another build of the panel is started on the same database.
Redeploy ==
  /\ Happens("redeploy")
  /\ serving' \in Versions \ {serving}
  /\ Cut
  /\ UNCHANGED <<offering, row, age, alerts, agent, history>>

StaleAgentUpdate ==
  /\ row.target \notin {NoVersion, row.version}
  /\ row.planned # 0 /\ age[row.planned] >= ConvergeAfter
  /\ row.state \notin {"failed", "suppressed", "unsupported"}

Sweep ==
  /\ offering
  /\ alerts' = IF StaleAgentUpdate THEN alerts \cup {"stale"} ELSE alerts \ {"stale"}
  /\ alerts' # alerts
  /\ UNCHANGED <<panel, row, age, wire, agent, history, used>>

(***************************************************************************)
(* The updater: selfUpdater.Consider.                                      *)
(***************************************************************************)
Committed(v) == [Fresh(v) EXCEPT !.committed = v]
AtMost(n, bound) == IF n > bound THEN bound ELSE n

\* A new target, or a new anchor of the same one, starts a fresh budget.
Unlocks(s, t, p) == s.target # t \/ (s.anchor # 0 /\ p # s.anchor)
Reanchor(s, t, p) ==
  LET base == IF Unlocks(s, t, p) THEN Fresh(t) ELSE s
  IN IF p = 0 THEN base ELSE [base EXCEPT !.anchor = p]

Persist(s) == st' = s /\ disk' = s

\* The declared build is the running one.
Converged(t) ==
  /\ t = build
  /\ IF st.target = t /\ st.committed # build
       THEN Persist(Committed(t)) /\ Report(<<Said(t, "committed", 0)>>)
       ELSE /\ UNCHANGED up
            /\ IF st.target \in {NoVersion, t} THEN UNCHANGED <<st, disk>> ELSE Persist(Committed(t))
  /\ UNCHANGED <<running, works>>

\* The wait of decide: the backoff first, then the stagger.
Wait(s, p) == IF s.retry > 0 THEN s.retry ELSE Stagger - age[p]

\* Mutant: the guard is not looked at.
NeverBusy == FALSE
Busy == running

StartAttempt(t) ==
  /\ running' = TRUE
  /\ works' = works \cup {[target |-> t, stage |-> "fetch", got |-> t]}
  /\ Report(<<Said(t, "downloading", st'.terminal)>>)

Suppressed(s) == s.terminal >= Limit

\* decide on another build: suppressed, wait or update.
Decide(t, p, pending) ==
  IF Suppressed(st')
    THEN /\ Report(<<Said(t, "suppressed", st'.terminal)>>)
         /\ timers' = pending /\ UNCHANGED <<running, works>>
  ELSE IF Busy
    THEN timers' = pending /\ UNCHANGED <<running, works, up>>
  ELSE IF Wait(st', p) > 0
    THEN /\ timers' = {[target |-> t, plan |-> p, left |-> Wait(st', p)]}
         /\ UNCHANGED <<running, works, up>>
  ELSE StartAttempt(t) /\ timers' = pending

Behind(t, p, pending) ==
  /\ t # build
  /\ st' = Reanchor(st, t, p) /\ UNCHANGED disk
  /\ \/ /\ t = NoVersion
        /\ timers' = pending /\ UNCHANGED <<running, works, up>>
     \/ /\ t # NoVersion /\ FALSE \in CanWrite
        /\ Report(<<Said(t, "unsupported", 0)>>)
        /\ timers' = pending /\ UNCHANGED <<running, works>>
     \/ /\ t # NoVersion /\ TRUE \in CanWrite
        /\ Decide(t, p, pending)

\* `pending` are the timers that are left when this call begins.
Consider(t, p, pending) ==
  /\ \/ Converged(t) /\ timers' = pending
     \/ Behind(t, p, pending)
  /\ UNCHANGED <<build, image>>

\* The count starts again when the updater is asked about something else.
Ask(plan) ==
  /\ asked' = plan
  /\ spent' = IF plan = asked THEN spent ELSE 0

ReadDesired ==
  /\ down # <<>>
  /\ down' = Tail(down)
  /\ Ask(Head(down))
  /\ Consider(Head(down)[1], Head(down)[2], timers)
  /\ UNCHANGED <<panel, row, age, alerts, link, used>>

\* A timer calls Consider with what was declared when it was set: nothing stops
\* the timer of an abandoned plan when an attempt of the next one starts at once.
TimerFires(x) ==
  /\ x.left = 0
  /\ Ask(<<x.target, x.plan>>)
  /\ Consider(x.target, x.plan, timers \ {x})
  /\ UNCHANGED <<panel, row, age, alerts, link, down, used>>

(***************************************************************************)
(* The updater: perform.                                                   *)
(***************************************************************************)
Backoff(streak) ==
  IF 2 ^ (streak - 1) \in 1..BackoffMax THEN 2 ^ (streak - 1) ELSE BackoffMax

\* Mutant: the ledger stays in memory.
LedgerInMemory(s) == st' = s /\ disk' = disk
Ledger(s) == Persist(s)

Base(t) == IF st.target = t THEN st ELSE Fresh(t)
Ends(w) == works' = works \ {w} /\ running' = FALSE

FailTerminal(w) ==
  LET n == Base(w.target).terminal + 1 IN
  /\ Ledger([Base(w.target) EXCEPT !.terminal = n, !.retry = 0])
  /\ Report(IF n >= Limit THEN <<Said(w.target, "failed", n), Said(w.target, "suppressed", n)>>
            ELSE <<Said(w.target, "failed", n)>>)
  /\ spent' = IF w.target = asked[1] THEN AtMost(spent + 1, Limit + 1) ELSE spent
  /\ Ends(w)

FailTransient(w) ==
  LET n == AtMost(Base(w.target).streak + 1, Limit) IN
  /\ Ledger([Base(w.target) EXCEPT !.streak = n, !.retry = Backoff(n)])
  /\ Report(<<Said(w.target, "transient", n)>>)
  /\ UNCHANGED spent
  /\ Ends(w)

Goes(w, stage, got) ==
  /\ works' = (works \ {w}) \cup {[target |-> w.target, stage |-> stage, got |-> got]}
  /\ UNCHANGED <<st, disk, running, spent>>

\* Download and checksum; `got` is the build the file really contains.
FetchFails(w) ==
  /\ w.stage = "fetch"
  /\ FailTransient(w) \/ FailTerminal(w)
  /\ UNCHANGED <<row, age, image>>
Fetched(w, got) ==
  /\ w.stage = "fetch"
  /\ Goes(w, "check", got)
  /\ Report(<<Said(w.target, "verifying", st.terminal)>>)
  /\ UNCHANGED <<row, age, image>>

\* The candidate asks the panel, which answers with Target.
SelfCheck(w) ==
  /\ w.stage = "check"
  /\ Asked(row)
  /\ IF Offer[1] \in {NoVersion, w.got}
       THEN Goes(w, "replace", w.got) /\ UNCHANGED up
       ELSE FailTerminal(w)
  /\ UNCHANGED image

\* The panel does not answer: the candidate exits with an error.
SelfCheckUnanswered(w) ==
  /\ w.stage = "check"
  /\ FailTerminal(w)
  /\ UNCHANGED <<row, age, image>>

Replace(w) ==
  /\ w.stage = "replace"
  /\ image' = w.got
  /\ Goes(w, "commit", w.got)
  /\ UNCHANGED <<row, age, up>>
ReplaceFails(w) ==
  /\ w.stage = "replace"
  /\ FailTerminal(w)
  /\ UNCHANGED <<row, age, image>>

Commit(w) ==
  /\ w.stage = "commit"
  /\ Persist(Committed(w.target))
  /\ Report(<<Said(w.target, "committed", 0)>>)
  /\ works' = (works \ {w}) \cup {[w EXCEPT !.stage = "exec"]}
  /\ spent' = 0
  /\ UNCHANGED <<row, age, image, running>>

Alone == UNCHANGED <<panel, alerts, link, down, build, timers, asked, used>>
Perform(w) ==
  /\ \/ FetchFails(w)
     \/ \E got \in Versions : Fetched(w, got)
     \/ SelfCheck(w)
     \/ SelfCheckUnanswered(w)
     \/ Replace(w)
     \/ ReplaceFails(w)
     \/ Commit(w)
  /\ Alone

\* A new process: by exec after a commit, or after a crash at any time.
Restarted ==
  /\ build' = image
  /\ st' = disk
  /\ running' = FALSE /\ works' = {} /\ timers' = {}
  /\ Cut
  /\ UNCHANGED <<panel, row, age, alerts, image, disk, history, used>>

Reexec(w) == w.stage = "exec" /\ Restarted
Crash == (link \/ works # {} \/ timers # {}) /\ Restarted

Tick ==
  /\ age' = [p \in Plans |-> AtMost(age[p] + 1, ConvergeAfter)]
  /\ st' = [st EXCEPT !.retry = IF @ > 0 THEN @ - 1 ELSE 0]
  /\ disk' = [disk EXCEPT !.retry = IF @ > 0 THEN @ - 1 ELSE 0]
  /\ timers' = {[x EXCEPT !.left = IF @ > 0 THEN @ - 1 ELSE 0] : x \in timers}
  /\ UNCHANGED <<panel, row, alerts, wire, build, image, running, works, history, used>>

Next ==
  \/ Connect \/ Disconnect \/ PushDesired \/ PushSingbox
  \/ OnHello \/ OnReport
  \/ Retry \/ SetAutoUpdate \/ Redeploy \/ Sweep
  \/ ReadDesired
  \/ \E x \in timers : TimerFires(x)
  \/ \E w \in works : Perform(w)
  \/ \E w \in works : Reexec(w)
  \/ Crash
  \/ Tick

Spec == Init /\ [][Next]_vars

\* The clock and both ends go on; a download, a self-check or a rename that is
\* tried again and again works at some time, and sessions that are opened again
\* and again live long enough for their first frame.  Nothing ends a session.
FairSpec ==
  /\ Spec
  /\ WF_vars(Tick)
  /\ WF_vars(Connect)
  /\ SF_vars(OnHello) /\ WF_vars(OnReport)
  /\ SF_vars(ReadDesired)
  /\ WF_vars(\E x \in timers : TimerFires(x))
  /\ WF_vars(\E w \in works : Perform(w))
  /\ SF_vars(\E w \in works : Alone /\ \E got \in Versions : Fetched(w, got))
  /\ SF_vars(\E w \in works : Alone /\ SelfCheck(w))
  /\ SF_vars(\E w \in works : Alone /\ Replace(w))
  /\ SF_vars(\E w \in works : Alone /\ Commit(w))
  /\ SF_vars(\E w \in works : Reexec(w))

(***************************************************************************)
(* Properties.                                                             *)
(***************************************************************************)
Targets == Versions \cup {NoVersion}
States == {"none", "downloading", "verifying", "committed", "failed", "transient",
           "suppressed", "unsupported"}
Rows == [version : Versions, target : Targets, state : States,
         attempts : 0..Limit, planned : Plans \cup {0}]
Offers == (Versions \X Plans) \cup {<<NoVersion, 0>>}
Messages == [type : {"hello"}, version : Versions]
  \cup [type : {"report"}, target : Versions, state : States, attempts : 0..Limit]
Ledgers == [target : Targets, terminal : 0..Limit, streak : 0..Limit,
            retry : 0..BackoffMax, anchor : Plans \cup {0}, committed : Targets]
Stages == {"fetch", "check", "replace", "commit", "exec"}

PanelOK ==
  /\ serving \in Versions /\ offering \in BOOLEAN
  /\ row \in Rows
  /\ age \in [Plans -> 0..ConvergeAfter]
  /\ alerts \subseteq {"failed", "transient", "stale"}
WireOK ==
  /\ link \in BOOLEAN
  /\ down \in Seq(Offers) /\ Len(down) <= Frames
  /\ up \in Seq(Messages) /\ Len(up) <= Frames
AgentOK ==
  /\ build \in Versions /\ image \in Versions
  /\ st \in Ledgers /\ disk \in Ledgers
  /\ running \in BOOLEAN
  /\ works \subseteq [target : Versions, stage : Stages, got : Versions]
  /\ timers \subseteq [target : Versions, plan : Plans, left : 0..(BackoffMax + Stagger)]
HistoryOK == asked \in Offers /\ spent \in 0..(Limit + 1) /\ used \in 0..MaxEvents

TypeOK == PanelOK /\ WireOK /\ AgentOK /\ HistoryOK

\* One attempt at a time, whatever declarations and timers arrive meanwhile: two
\* would write the same temporary file and replace the same binary.
OneAttempt == Cardinality(works) <= 1 /\ (works # {} => running)

\* The circuit breaker (design 5.5: three terminal failures of a target and the
\* probe stops): no more than Limit of them until a commit or until the updater is
\* asked about another plan, across restarts of the probe.
BreakerHolds == spent <= Limit

\* A plan keeps its anchor until the target changes, the operator retries or the
\* probe converges: reconnecting does not move the start of the update.
PlanStays ==
  [][row'.target = row.target /\ row.planned # 0 /\ row'.planned # 0
       => row'.planned = row.planned]_vars

\* A probe that keeps reconnecting ends up on the build of the panel, unless its
\* circuit breaker is open.
FollowsServer ==
  []<>~link => <>[](build = serving \/ st.terminal >= Limit)
=============================================================================
