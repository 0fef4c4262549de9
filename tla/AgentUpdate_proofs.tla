------------------------- MODULE AgentUpdate_proofs -------------------------
(***************************************************************************)
(* Safety of the self-update for every number of builds, plans, failures   *)
(* and events.  BreakerHolds is not inductive: what bounds the failures of *)
(* a plan is the ledger, in memory and on disk, so BudgetInv relates the   *)
(* two ledgers to the history, and AttemptsInv says what an attempt under  *)
(* way may rely on.                                                        *)
(***************************************************************************)
EXTENDS AgentUpdate, FiniteSetTheorems, SequenceTheorems, TLAPS

\* There is one attempt at most, `running` guards it, it never replaces the build
\* by itself, and the ledger of its target has budget left.
AttemptsInv ==
  /\ \A v, w \in works : v = w
  /\ works # {} => running
  /\ \A w \in works : w.target # build
  /\ \A w \in works : st.target = w.target => st.terminal < Limit

\* The attempt at the build the updater was last asked about is within the budget
\* of that plan, and the ledger is anchored to no other plan of it.
AskedInv ==
  \A w \in works : w.target = asked[1] =>
    /\ spent < Limit
    /\ st.target = asked[1] => st.anchor \in {0, asked[2]}

\* Failures of a plan are in both ledgers, so a restart does not forget them,
\* unless the probe meanwhile runs the build it was asked for.
Booked(s) == s.target = asked[1] /\ spent <= s.terminal /\ s.anchor \in {0, asked[2]}
BudgetInv ==
  spent > 0 =>
    /\ spent <= Limit
    /\ IF build = asked[1] THEN image = build /\ works = {}
       ELSE Booked(st) /\ Booked(disk) /\ \A w \in works : w.target = asked[1]

IInv == TypeOK /\ AttemptsInv /\ AskedInv /\ BudgetInv

LEMMA InitIInv == Init => IInv
<1> SUFFICES ASSUME Init PROVE IInv
  OBVIOUS
<1> USE DEF Init
<1>1. PanelOK
  BY LimitAssumption, TimesAssumption DEF PanelOK, Rows, Targets, States
<1>2. WireOK
  <2>1. <<>> \in Seq(Offers) /\ <<>> \in Seq(Messages)
    OBVIOUS
  <2>2. Len(down) <= Frames /\ Len(up) <= Frames
    BY FramesAssumption
  <2> QED BY <2>1, <2>2 DEF WireOK
<1>3. AgentOK
  <2>1. Fresh(NoVersion) \in Ledgers
    BY LimitAssumption, TimesAssumption DEF Fresh, Ledgers, Targets
  <2> QED BY <2>1 DEF AgentOK
<1>4. HistoryOK
  BY LimitAssumption, MaxEventsAssumption DEF HistoryOK, Offers
<1>5. AttemptsInv /\ AskedInv /\ BudgetInv
  BY DEF AttemptsInv, AskedInv, BudgetInv
<1> QED BY <1>1, <1>2, <1>3, <1>4, <1>5 DEF IInv, TypeOK

(***************************************************************************)
(* Types.                                                                  *)
(***************************************************************************)
\* Target keeps the row well formed, and what is then offered is either no build
\* or the served build with its plan.
LEMMA AskedType ==
  ASSUME PanelOK, NEW r \in Rows, Asked(r), UNCHANGED panel
  PROVE  row' \in Rows /\ age' \in [Plans -> 0..ConvergeAfter] /\ Offer \in Offers
<1> USE PlansAssumption, TimesAssumption DEF PanelOK, panel
<1>1. NewPlan \in Plans
  BY DEF Asked, NewPlan, FreePlans
<1>2. row' = Target(r) /\ age' = [p \in Plans |-> IF p = row'.planned /\ p # r.planned THEN 0 ELSE age[p]]
  BY DEF Asked
<1>3. row' \in Rows
  BY <1>1, <1>2 DEF Target, Anchors, Rows, Targets, States
<1>4. age' \in [Plans -> 0..ConvergeAfter]
  BY <1>2
<1>5. offering /\ row'.version # serving => row'.planned \in Plans
  BY <1>1, <1>2 DEF Target, Anchors, Rows
<1> QED BY <1>3, <1>4, <1>5 DEF Offer, Offers

LEMMA ReportType ==
  ASSUME WireOK, NEW said \in Seq(Messages), Report(said)
  PROVE  up' \in Seq(Messages) /\ Len(up') <= Frames
<1>1. up \o said \in Seq(Messages) /\ Len(up \o said) = Len(up) + Len(said)
  BY ConcatProperties DEF WireOK
<1> QED BY <1>1 DEF WireOK, Report

\* One report, or the two of a failure that opens the breaker.
LEMMA SaidType ==
  ASSUME NEW t \in Versions, NEW s1 \in States, NEW s2 \in States, NEW n \in 0..Limit
  PROVE  <<Said(t, s1, n)>> \in Seq(Messages) /\ <<Said(t, s1, n), Said(t, s2, n)>> \in Seq(Messages)
<1>1. Said(t, s1, n) \in Messages /\ Said(t, s2, n) \in Messages
  BY DEF Said, Messages
<1> QED BY <1>1

\* The three ways the updater rewrites its ledger.
LEMMA LedgerType ==
  ASSUME AgentOK, NEW t \in Targets
  PROVE  /\ Fresh(t) \in Ledgers /\ Committed(t) \in Ledgers /\ Base(t) \in Ledgers
         /\ Base(t).target = t
         /\ \A p \in Plans \cup {0} : Reanchor(st, t, p) \in Ledgers
BY TimesAssumption, LimitAssumption
   DEF AgentOK, Fresh, Committed, Base, Reanchor, Unlocks, Ledgers, Targets

LEMMA BackoffType == \A n : Backoff(n) \in 0..BackoffMax
BY TimesAssumption DEF Backoff

(***************************************************************************)
(* Consider, called by a frame or by a timer.                              *)
(***************************************************************************)
\* Reanchor keeps the count of the plan it is asked for, and forgets any other.
LEMMA ReanchorKeeps ==
  ASSUME AgentOK, NEW t \in Targets, NEW p \in Plans \cup {0}
  PROVE  LET s == Reanchor(st, t, p) IN
         /\ s.target = t /\ s.anchor \in {0, p}
         /\ s.terminal \in {0, st.terminal}
         /\ st.target # t => s.terminal = 0
         /\ st.target = t /\ st.anchor \in {0, p} => s.terminal = st.terminal
BY PlansAssumption DEF AgentOK, Ledgers, Reanchor, Unlocks, Fresh

\* What Consider does on another build: nothing, or one attempt at a target whose
\* ledger has budget left, and only when no other is under way.
LEMMA BehindStarts ==
  ASSUME AgentOK, WireOK, NEW t \in Targets, NEW p \in Plans \cup {0}, NEW pending,
         t # NoVersion => p \in Plans, age \in [Plans -> 0..ConvergeAfter],
         pending \subseteq timers, Behind(t, p, pending)
  PROVE  /\ \/ UNCHANGED <<running, works>>
            \/ /\ t \in Versions /\ ~running /\ running' = TRUE
               /\ works' = works \cup {[target |-> t, stage |-> "fetch", got |-> t]}
               /\ st'.terminal < Limit
         /\ timers' \subseteq [target : Versions, plan : Plans, left : 0..(BackoffMax + Stagger)]
         /\ up' \in Seq(Messages) /\ Len(up') <= Frames
<1> USE LimitAssumption
<1>1. st' = Reanchor(st, t, p) /\ st' \in Ledgers /\ t # build
  BY LedgerType DEF Behind
<1>2. st'.terminal \in 0..Limit /\ st'.retry \in 0..BackoffMax
  BY <1>1 DEF Ledgers
<1>3. CASE t = NoVersion /\ timers' = pending /\ UNCHANGED <<running, works, up>>
  BY <1>3 DEF AgentOK, WireOK
<1>4. CASE /\ t # NoVersion /\ Report(<<Said(t, "unsupported", 0)>>)
           /\ timers' = pending /\ UNCHANGED <<running, works>>
  <2>1. <<Said(t, "unsupported", 0)>> \in Seq(Messages)
    BY <1>4, SaidType DEF States, Targets
  <2> QED BY <1>4, <2>1, ReportType DEF AgentOK
<1>5. CASE t # NoVersion /\ Decide(t, p, pending)
  <2>1. t \in Versions /\ p \in Plans
    BY <1>5 DEF Targets
  <2>2. CASE Suppressed(st')
    <3>1. <<Said(t, "suppressed", st'.terminal)>> \in Seq(Messages)
      BY <1>2, <2>1, SaidType DEF States
    <3>2. Report(<<Said(t, "suppressed", st'.terminal)>>) /\ timers' = pending /\ UNCHANGED <<running, works>>
      BY <1>5, <2>2 DEF Decide
    <3> QED BY <3>1, <3>2, ReportType DEF AgentOK
  <2>3. CASE ~Suppressed(st') /\ Busy
    BY <1>5, <2>3 DEF Decide, AgentOK, WireOK
  <2>4. CASE ~Suppressed(st') /\ ~Busy /\ Wait(st', p) > 0
    <3>1. timers' = {[target |-> t, plan |-> p, left |-> Wait(st', p)]} /\ UNCHANGED <<running, works, up>>
      BY <1>5, <2>4 DEF Decide
    <3>2. Wait(st', p) \in 0..(BackoffMax + Stagger)
      BY <1>2, <2>1, <2>4, TimesAssumption DEF Wait
    <3> QED BY <2>1, <3>1, <3>2 DEF WireOK
  <2>5. CASE ~Suppressed(st') /\ ~Busy /\ ~(Wait(st', p) > 0)
    <3>1. StartAttempt(t) /\ timers' = pending
      BY <1>5, <2>5 DEF Decide
    <3>2. <<Said(t, "downloading", st'.terminal)>> \in Seq(Messages)
      BY <1>2, <2>1, SaidType DEF States
    <3>3. up' \in Seq(Messages) /\ Len(up') <= Frames
      BY <3>1, <3>2, ReportType DEF StartAttempt
    <3>4. st'.terminal < Limit
      BY <1>2, <2>5 DEF Suppressed
    <3> QED BY <2>1, <2>5, <3>1, <3>3, <3>4 DEF StartAttempt, AgentOK, Busy
  <2> QED BY <2>2, <2>3, <2>4, <2>5
<1> QED BY <1>3, <1>4, <1>5 DEF Behind

LEMMA ConsiderStep ==
  ASSUME IInv, NEW t, NEW p, <<t, p>> \in Offers, NEW pending, pending \subseteq timers,
         Ask(<<t, p>>), Consider(t, p, pending), UNCHANGED used
  PROVE  /\ AgentOK' /\ HistoryOK' /\ AttemptsInv' /\ AskedInv' /\ BudgetInv'
         /\ up' \in Seq(Messages) /\ Len(up') <= Frames
<1> USE LimitAssumption
<1>1. t \in Targets /\ p \in Plans \cup {0} /\ (t # NoVersion => p \in Plans)
  BY DEF Offers, Targets
<1>2. asked' = <<t, p>> /\ spent' = IF asked = <<t, p>> THEN spent ELSE 0
  BY DEF Ask
<1>3. HistoryOK'
  BY <1>2 DEF IInv, TypeOK, HistoryOK
<1>4. build' = build /\ image' = image
  BY DEF Consider
<1>5. CASE Converged(t) /\ timers' = pending
  <2>1. t = build /\ UNCHANGED <<running, works>>
    BY <1>5 DEF Converged
  <2>2. /\ \/ UNCHANGED <<st, disk>>
           \/ st' = Committed(t) /\ disk' = Committed(t)
        /\ up' \in Seq(Messages) /\ Len(up') <= Frames
    <3>1. <<Said(t, "committed", 0)>> \in Seq(Messages)
      BY <2>1, SaidType DEF IInv, TypeOK, AgentOK, States
    <3>2. Report(<<Said(t, "committed", 0)>>) => up' \in Seq(Messages) /\ Len(up') <= Frames
      BY <3>1, ReportType DEF IInv, TypeOK
    <3> QED BY <1>5, <3>2 DEF Converged, Persist, IInv, TypeOK, WireOK
  <2>3. Committed(t) \in Ledgers /\ Committed(t).target = t
    BY <1>1, LedgerType DEF IInv, TypeOK, Committed, Fresh
  <2>4. AgentOK'
    BY <1>4, <1>5, <2>1, <2>2, <2>3 DEF IInv, TypeOK, AgentOK
  <2>5. AttemptsInv'
    BY <1>4, <2>1, <2>2, <2>3 DEF IInv, AttemptsInv
  <2>6. AskedInv' /\ BudgetInv'
    BY <1>2, <1>4, <2>1 DEF IInv, AttemptsInv, AskedInv, BudgetInv
  <2> QED BY <1>3, <2>2, <2>4, <2>5, <2>6
<1>6. CASE Behind(t, p, pending)
  <2>1. st' = Reanchor(st, t, p) /\ disk' = disk /\ t # build /\ st' \in Ledgers
    BY <1>1, <1>6, LedgerType DEF Behind, IInv, TypeOK
  <2>2. /\ st'.target = t /\ st'.anchor \in {0, p}
        /\ st'.terminal \in {0, st.terminal}
        /\ st.target # t => st'.terminal = 0
        /\ st.target = t /\ st.anchor \in {0, p} => st'.terminal = st.terminal
    BY <1>1, <2>1, ReanchorKeeps DEF IInv, TypeOK
  <2> DEFINE new == [target |-> t, stage |-> "fetch", got |-> t]
  <2>3. \/ UNCHANGED <<running, works>>
        \/ /\ t \in Versions /\ ~running /\ running' = TRUE
           /\ works' = works \cup {new} /\ st'.terminal < Limit
    BY <1>1, <1>6, BehindStarts DEF IInv, TypeOK, PanelOK
  <2>4. /\ timers' \subseteq [target : Versions, plan : Plans, left : 0..(BackoffMax + Stagger)]
        /\ up' \in Seq(Messages) /\ Len(up') <= Frames
    BY <1>1, <1>6, BehindStarts DEF IInv, TypeOK, PanelOK
  <2>5. AgentOK'
    <3>1. new \in [target : Versions, stage : Stages, got : Versions] \/ t \notin Versions
      BY DEF Stages
    <3>2. disk' \in Ledgers
      BY <2>1 DEF IInv, TypeOK, AgentOK
    <3> QED BY <1>4, <2>1, <2>3, <2>4, <3>1, <3>2 DEF IInv, TypeOK, AgentOK
  <2>6. works' = works \/ (works = {} /\ works' = {new} /\ running' /\ st'.terminal < Limit)
    BY <2>3 DEF IInv, AttemptsInv
  <2>7. \A w \in works : st.target = w.target => st.terminal < Limit
    BY DEF IInv, AttemptsInv
  <2>8. AttemptsInv'
    BY <1>4, <2>1, <2>2, <2>3, <2>6, <2>7 DEF IInv, AttemptsInv, TypeOK, AgentOK, Ledgers
  <2>9. spent' > 0 => asked = <<t, p>> /\ spent' = spent /\ Booked(st) /\ st'.terminal = st.terminal
    BY <1>2, <2>1, <2>2 DEF IInv, BudgetInv, Booked
  <2>10. AskedInv'
    BY <1>2, <2>2, <2>6, <2>9 DEF IInv, TypeOK, AgentOK, HistoryOK, Ledgers, AskedInv, Booked
  <2>11. BudgetInv'
    BY <1>2, <1>4, <2>1, <2>2, <2>6, <2>9 DEF IInv, BudgetInv, Booked
  <2> QED BY <1>3, <2>4, <2>5, <2>8, <2>10, <2>11
<1> QED BY <1>5, <1>6 DEF Consider

(***************************************************************************)
(* perform.                                                                *)
(***************************************************************************)
\* What every step of an attempt owes: types and invariants of the probe.
ProbeKept ==
  /\ AgentOK' /\ HistoryOK' /\ AttemptsInv' /\ AskedInv' /\ BudgetInv'
  /\ up' \in Seq(Messages) /\ Len(up') <= Frames

LEMMA FailTerminalStep ==
  ASSUME IInv, NEW w \in works, FailTerminal(w),
         UNCHANGED <<build, image, timers, asked, used>>
  PROVE  ProbeKept
<1> USE LimitAssumption
<1> DEFINE b == Base(w.target)
           n == b.terminal + 1
           s == [b EXCEPT !.terminal = n, !.retry = 0]
<1>1. w.target \in Versions /\ b \in Ledgers /\ b.target = w.target /\ works = {w}
  BY LedgerType DEF IInv, TypeOK, AgentOK, AttemptsInv, Targets
<1>2. b = st \/ (st.target # w.target /\ b = Fresh(w.target))
  BY DEF Base
<1>3. n \in 1..Limit
  BY <1>1, <1>2 DEF IInv, AttemptsInv, Ledgers, Fresh
<1>4. /\ s \in Ledgers /\ s.target = w.target /\ s.terminal = n /\ s.anchor = b.anchor
      /\ st' = s /\ disk' = s
  <2>1. st' = s /\ disk' = s
    BY DEF FailTerminal, Ledger, Persist
  <2>2. n \in 0..Limit /\ 0 \in 0..BackoffMax
    BY <1>3, TimesAssumption
  <2> HIDE DEF b, n
  <2> QED BY <1>1, <2>1, <2>2 DEF Ledgers
<1>5. works' = {} /\ running' = FALSE
  BY <1>1 DEF FailTerminal, Ends
<1>6. up' \in Seq(Messages) /\ Len(up') <= Frames
  <2>1. /\ <<Said(w.target, "failed", n)>> \in Seq(Messages)
        /\ <<Said(w.target, "failed", n), Said(w.target, "suppressed", n)>> \in Seq(Messages)
    <3> HIDE DEF n
    <3> QED BY <1>1, <1>3, SaidType DEF States
  <2>2. Report(IF n >= Limit THEN <<Said(w.target, "failed", n), Said(w.target, "suppressed", n)>>
               ELSE <<Said(w.target, "failed", n)>>)
    BY DEF FailTerminal
  <2> QED BY <2>1, <2>2, ReportType DEF IInv, TypeOK
<1>7. spent' = IF w.target = asked[1] THEN AtMost(spent + 1, Limit + 1) ELSE spent
  BY DEF FailTerminal
<1>8. spent \in 0..(Limit + 1)
  BY DEF IInv, TypeOK, HistoryOK
<1>9. w.target = asked[1] => spent < Limit /\ (st.target = asked[1] => st.anchor \in {0, asked[2]})
  BY DEF IInv, AskedInv
<1>10. AgentOK' /\ HistoryOK'
  <2> HIDE DEF b, n, s
  <2>1. spent' \in 0..(Limit + 1)
    BY <1>7, <1>8 DEF AtMost
  <2> QED BY <1>4, <1>5, <2>1 DEF IInv, TypeOK, AgentOK, HistoryOK
<1>11. AttemptsInv' /\ AskedInv'
  BY <1>5 DEF AttemptsInv, AskedInv
<1>12. BudgetInv'
  <2>1. CASE w.target = asked[1]
    <3>1. build # asked[1]
      BY <2>1 DEF IInv, AttemptsInv
    <3>2. spent' = spent + 1 /\ spent' <= Limit
      BY <1>7, <1>8, <1>9, <2>1 DEF AtMost
    <3>3. spent <= b.terminal /\ b.anchor \in {0, asked[2]}
      <4>1. CASE spent = 0
        BY <1>1, <1>2, <1>9, <2>1, <4>1 DEF Ledgers, Fresh
      <4>2. CASE spent > 0
        BY <1>2, <2>1, <3>1, <4>2 DEF IInv, BudgetInv, Booked
      <4> QED BY <1>8, <4>1, <4>2
    <3> HIDE DEF s, b
    <3>4. b.terminal \in Nat
      BY <1>1 DEF Ledgers
    <3>5. spent' <= n
      BY <1>8, <3>2, <3>3, <3>4
    <3> HIDE DEF n
    <3> QED BY <1>4, <1>5, <2>1, <3>1, <3>2, <3>3, <3>5 DEF BudgetInv, Booked
  <2>2. CASE w.target # asked[1]
    <3>1. spent = 0
      BY <1>1, <1>8, <2>2 DEF IInv, BudgetInv
    <3> QED BY <1>7, <2>2, <3>1 DEF BudgetInv
  <2> QED BY <2>1, <2>2
<1> QED BY <1>6, <1>10, <1>11, <1>12 DEF ProbeKept

LEMMA FailTransientStep ==
  ASSUME IInv, NEW w \in works, FailTransient(w),
         UNCHANGED <<build, image, timers, asked, used>>
  PROVE  ProbeKept
<1> USE LimitAssumption
<1> DEFINE b == Base(w.target)
           n == AtMost(b.streak + 1, Limit)
           s == [b EXCEPT !.streak = n, !.retry = Backoff(n)]
<1>1. w.target \in Versions /\ b \in Ledgers /\ b.target = w.target /\ works = {w}
  BY LedgerType DEF IInv, TypeOK, AgentOK, AttemptsInv, Targets
<1>2. b = st \/ (st.target # w.target /\ b = Fresh(w.target))
  BY DEF Base
<1>3. n \in 0..Limit
  <2> HIDE DEF b
  <2> QED BY <1>1 DEF Ledgers, AtMost
<1>4. /\ s \in Ledgers /\ s.target = w.target /\ s.terminal = b.terminal /\ s.anchor = b.anchor
      /\ st' = s /\ disk' = s
  <2>1. st' = s /\ disk' = s
    BY DEF FailTransient, Ledger, Persist
  <2> HIDE DEF b, n
  <2> QED BY <1>1, <1>3, <2>1, BackoffType DEF Ledgers
<1>5. works' = {} /\ running' = FALSE /\ spent' = spent
  BY <1>1 DEF FailTransient, Ends
<1>6. up' \in Seq(Messages) /\ Len(up') <= Frames
  <2>1. <<Said(w.target, "transient", n)>> \in Seq(Messages)
    <3> HIDE DEF n
    <3> QED BY <1>1, <1>3, SaidType DEF States
  <2>2. Report(<<Said(w.target, "transient", n)>>)
    BY DEF FailTransient
  <2> QED BY <2>1, <2>2, ReportType DEF IInv, TypeOK
<1>7. AgentOK' /\ HistoryOK'
  BY <1>4, <1>5 DEF IInv, TypeOK, AgentOK, HistoryOK
<1>8. AttemptsInv' /\ AskedInv'
  BY <1>5 DEF AttemptsInv, AskedInv
<1>9. BudgetInv'
  <2> SUFFICES ASSUME spent > 0 PROVE BudgetInv'
    BY <1>5 DEF BudgetInv
  <2>1. build # asked[1] /\ spent <= Limit /\ Booked(st) /\ w.target = asked[1]
    BY <1>1 DEF IInv, BudgetInv
  <2>2. b = st
    BY <1>2, <2>1 DEF Booked
  <2> HIDE DEF b, n, s
  <2> QED BY <1>4, <1>5, <2>1, <2>2 DEF BudgetInv, Booked
<1> QED BY <1>6, <1>7, <1>8, <1>9 DEF ProbeKept

\* An attempt that goes on replaces nothing but its own record (and, in Replace,
\* the image on disk).
LEMMA GoesStep ==
  ASSUME IInv, NEW w \in works, NEW stage \in Stages, NEW got \in Versions,
         Goes(w, stage, got), image' \in Versions,
         UNCHANGED <<build, timers, asked, used>>
  PROVE  AgentOK' /\ HistoryOK' /\ AttemptsInv' /\ AskedInv' /\ BudgetInv'
<1> DEFINE x == [target |-> w.target, stage |-> stage, got |-> got]
<1>1. works = {w} /\ w.target \in Versions /\ running
  BY DEF IInv, TypeOK, AgentOK, AttemptsInv
<1>2. works' = {x} /\ x.target = w.target /\ UNCHANGED <<st, disk, running, spent>>
  BY <1>1 DEF Goes
<1>3. x \in [target : Versions, stage : Stages, got : Versions]
  BY <1>1
<1> HIDE DEF x
<1>4. AgentOK' /\ HistoryOK'
  BY <1>2, <1>3 DEF IInv, TypeOK, AgentOK, HistoryOK
<1>5. AttemptsInv' /\ AskedInv'
  BY <1>1, <1>2 DEF IInv, AttemptsInv, AskedInv
<1>6. BudgetInv'
  BY <1>1, <1>2 DEF IInv, BudgetInv, Booked
<1> QED BY <1>4, <1>5, <1>6

LEMMA CommitStep ==
  ASSUME IInv, NEW w \in works, Commit(w), Alone
  PROVE  ProbeKept
<1> DEFINE x == [w EXCEPT !.stage = "exec"]
           c == Committed(w.target)
<1>1. works = {w} /\ w.target \in Versions /\ running
  BY DEF IInv, TypeOK, AgentOK, AttemptsInv
<1>2. works' = {x} /\ st' = c /\ disk' = c /\ spent' = 0 /\ running' = running
  BY <1>1 DEF Commit, Persist
<1>3. x \in [target : Versions, stage : Stages, got : Versions] /\ x.target = w.target
  BY DEF IInv, TypeOK, AgentOK, Stages
<1>4. c \in Ledgers /\ c.terminal = 0 /\ c.anchor = 0
  BY <1>1, LedgerType DEF IInv, TypeOK, Targets, Committed, Fresh
<1>5. up' \in Seq(Messages) /\ Len(up') <= Frames
  <2>1. <<Said(w.target, "committed", 0)>> \in Seq(Messages)
    BY <1>1, LimitAssumption, SaidType DEF States
  <2> QED BY <2>1, ReportType DEF Commit, IInv, TypeOK
<1> HIDE DEF x, c
<1>6. AgentOK' /\ HistoryOK'
  BY <1>2, <1>3, <1>4, LimitAssumption DEF IInv, TypeOK, AgentOK, HistoryOK, Alone, Commit
<1>7. AttemptsInv'
  BY <1>1, <1>2, <1>3, <1>4, LimitAssumption DEF IInv, AttemptsInv, Alone
<1>8. AskedInv' /\ BudgetInv'
  BY <1>2, <1>4, LimitAssumption DEF AskedInv, BudgetInv
<1> QED BY <1>5, <1>6, <1>7, <1>8 DEF ProbeKept

LEMMA PerformStep ==
  ASSUME IInv, NEW w \in works, Perform(w)
  PROVE  PanelOK' /\ WireOK' /\ ProbeKept
<1>1. w.target \in Versions /\ w.got \in Versions /\ st.terminal \in 0..Limit
  BY DEF IInv, TypeOK, AgentOK, Ledgers
<1>2. Alone
  BY DEF Perform
<1>3. UNCHANGED <<build, timers, asked, used>> /\ UNCHANGED <<serving, offering, alerts, link, down>>
  BY <1>2 DEF Alone, panel
<1>4. up \in Seq(Messages) /\ Len(up) <= Frames
  BY DEF IInv, TypeOK, WireOK
<1>5. CASE UNCHANGED <<row, age, image>> /\ (FailTerminal(w) \/ FailTransient(w))
  BY <1>3, <1>5, FailTerminalStep, FailTransientStep
     DEF ProbeKept, IInv, TypeOK, PanelOK, WireOK
<1>6. ASSUME NEW got \in Versions, Fetched(w, got)
      PROVE PanelOK' /\ WireOK' /\ ProbeKept
  <2>1. up' \in Seq(Messages) /\ Len(up') <= Frames
    BY <1>1, <1>6, SaidType, ReportType DEF Fetched, States, IInv, TypeOK
  <2>2. AgentOK' /\ HistoryOK' /\ AttemptsInv' /\ AskedInv' /\ BudgetInv'
    <3>1. image' \in Versions /\ Goes(w, "check", got) /\ "check" \in Stages
      BY <1>6 DEF Fetched, Stages, IInv, TypeOK, AgentOK
    <3> QED BY <1>3, <3>1, GoesStep
  <2> QED BY <1>3, <1>6, <2>1, <2>2 DEF Fetched, ProbeKept, IInv, TypeOK, PanelOK, WireOK
<1>7. CASE SelfCheck(w)
  <2>1. PanelOK'
    BY <1>3, <1>7, AskedType DEF SelfCheck, IInv, TypeOK, PanelOK, panel
  <2>2. image' = image
    BY <1>7 DEF SelfCheck
  <2>3. CASE Goes(w, "replace", w.got) /\ UNCHANGED up
    <3>1. image' \in Versions /\ "replace" \in Stages
      BY <2>2 DEF Stages, IInv, TypeOK, AgentOK
    <3>2. AgentOK' /\ HistoryOK' /\ AttemptsInv' /\ AskedInv' /\ BudgetInv'
      BY <1>1, <1>3, <2>3, <3>1, GoesStep
    <3> QED BY <1>3, <1>4, <2>1, <2>3, <3>2 DEF ProbeKept, IInv, TypeOK, WireOK
  <2>4. CASE FailTerminal(w)
    BY <1>3, <2>1, <2>2, <2>4, FailTerminalStep DEF ProbeKept, IInv, TypeOK, WireOK
  <2> QED BY <1>7, <2>3, <2>4 DEF SelfCheck
<1>8. CASE Replace(w)
  <2>1. image' \in Versions /\ "commit" \in Stages /\ Goes(w, "commit", w.got)
    BY <1>1, <1>8 DEF Replace, Stages
  <2>2. AgentOK' /\ HistoryOK' /\ AttemptsInv' /\ AskedInv' /\ BudgetInv'
    BY <1>1, <1>3, <2>1, GoesStep
  <2> QED BY <1>3, <1>4, <1>8, <2>2 DEF Replace, ProbeKept, IInv, TypeOK, PanelOK, WireOK
<1>9. CASE Commit(w)
  BY <1>2, <1>3, <1>9, CommitStep DEF Commit, ProbeKept, IInv, TypeOK, PanelOK, WireOK
<1> QED BY <1>5, <1>6, <1>7, <1>8, <1>9
        DEF Perform, FetchFails, SelfCheckUnanswered, ReplaceFails

(***************************************************************************)
(* The other steps.                                                        *)
(***************************************************************************)
\* A new process goes on from the ledger on disk, which BudgetInv keeps as full
\* as the one in memory.
LEMMA RestartedStep == ASSUME IInv, Restarted PROVE IInv'
<1> USE DEF Restarted, IInv, TypeOK, panel, history
<1>1. PanelOK' /\ HistoryOK'
  BY DEF PanelOK, HistoryOK
<1>2. AgentOK' /\ AttemptsInv' /\ AskedInv'
  BY DEF AgentOK, AttemptsInv, AskedInv
<1>3. WireOK'
  <2>1. link' = FALSE /\ down' = <<>> /\ up' = <<>>
    BY DEF Cut
  <2>2. <<>> \in Seq(Offers) /\ <<>> \in Seq(Messages)
    OBVIOUS
  <2>3. Len(down') <= Frames /\ Len(up') <= Frames
    BY <2>1, FramesAssumption
  <2> QED BY <2>1, <2>2, <2>3 DEF WireOK
<1>4. BudgetInv'
  BY DEF BudgetInv, Booked
<1> QED BY <1>1, <1>2, <1>3, <1>4

LEMMA TickStep == ASSUME IInv, Tick PROVE IInv'
<1> USE DEF IInv, TypeOK
<1>1. /\ st' \in Ledgers /\ disk' \in Ledgers
      /\ st'.target = st.target /\ st'.terminal = st.terminal /\ st'.anchor = st.anchor
      /\ disk'.target = disk.target /\ disk'.terminal = disk.terminal /\ disk'.anchor = disk.anchor
  BY TimesAssumption DEF Tick, AgentOK, Ledgers
<1>2. age' \in [Plans -> 0..ConvergeAfter]
  BY TimesAssumption DEF Tick, PanelOK, AtMost
<1>3. timers' \subseteq [target : Versions, plan : Plans, left : 0..(BackoffMax + Stagger)]
  BY TimesAssumption DEF Tick, AgentOK
<1>4. UNCHANGED <<panel, row, alerts, wire, build, image, running, works, history, used>>
  BY DEF Tick
<1> USE DEF panel, wire, history
<1>5. PanelOK' /\ WireOK' /\ AgentOK' /\ HistoryOK'
  BY <1>1, <1>2, <1>3, <1>4 DEF PanelOK, WireOK, AgentOK, HistoryOK
<1>6. AttemptsInv' /\ AskedInv' /\ BudgetInv'
  BY <1>1, <1>4 DEF AttemptsInv, AskedInv, BudgetInv, Booked
<1> QED BY <1>5, <1>6

\* Reading the first frame of a queue that fits leaves a queue that fits.
LEMMA HeadTail ==
  ASSUME NEW S, NEW q \in Seq(S), q # <<>>, Len(q) <= Frames
  PROVE  Head(q) \in S /\ Tail(q) \in Seq(S) /\ Len(Tail(q)) <= Frames
<1>1. Head(q) \in S /\ Tail(q) \in Seq(S) /\ Len(Tail(q)) = Len(q) - 1 /\ Len(q) \in Nat
  BY HeadTailProperties, LenProperties
<1> QED BY <1>1, FramesAssumption

\* What the panel, the operator and the wire do leaves the probe alone.
LEMMA PanelStep ==
  ASSUME IInv, UNCHANGED <<agent, history>>, used' \in 0..MaxEvents, PanelOK', WireOK'
  PROVE  IInv'
<1> USE DEF agent, history
<1>1. AgentOK' /\ HistoryOK'
  BY DEF IInv, TypeOK, AgentOK, HistoryOK
<1>2. AttemptsInv' /\ AskedInv' /\ BudgetInv'
  BY DEF IInv, AttemptsInv, AskedInv, BudgetInv, Booked
<1> QED BY <1>1, <1>2 DEF IInv, TypeOK

LEMMA StepIInv == IInv /\ [Next]_vars => IInv'
<1> SUFFICES ASSUME IInv, [Next]_vars PROVE IInv'
  OBVIOUS
<1>1. PanelOK /\ WireOK /\ used \in 0..MaxEvents
  BY DEF IInv, TypeOK, HistoryOK
<1>2. ASSUME NEW e, Happens(e) PROVE used' \in 0..MaxEvents
  BY <1>1, <1>2, MaxEventsAssumption DEF Happens
<1>3. down # <<>> => Head(down) \in Offers /\ Tail(down) \in Seq(Offers) /\ Len(Tail(down)) <= Frames
  BY <1>1, HeadTail DEF WireOK
<1>4. up # <<>> => Head(up) \in Messages /\ Tail(up) \in Seq(Messages) /\ Len(Tail(up)) <= Frames
  BY <1>1, HeadTail DEF WireOK
<1>5. ASSUME NEW o \in Offers
      PROVE  /\ <<o>> \in Seq(Offers) /\ Len(<<o>>) <= Frames
             /\ Append(down, o) \in Seq(Offers) /\ Len(Append(down, o)) = Len(down) + 1
  BY <1>1, FramesAssumption, AppendProperties DEF WireOK
<1>6. CASE Connect
  <2>1. PanelOK' /\ Offer \in Offers
    BY <1>1, <1>6, AskedType DEF Connect, PanelOK, panel
  <2>2. <<Hello(build)>> \in Seq(Messages) /\ Len(<<Hello(build)>>) <= Frames
    <3>1. Hello(build) \in Messages
      BY DEF Hello, Messages, IInv, TypeOK, AgentOK
    <3> QED BY <3>1, FramesAssumption
  <2>3. link' = TRUE /\ down' = <<Offer>> /\ up' = <<Hello(build)>>
    BY <1>6 DEF Connect
  <2>4. WireOK'
    BY <1>5, <2>1, <2>2, <2>3 DEF WireOK
  <2> QED BY <1>1, <1>6, <2>1, <2>4, PanelStep DEF Connect
<1>7. ASSUME Cut PROVE WireOK'
  <2>1. <<>> \in Seq(Offers) /\ <<>> \in Seq(Messages)
    OBVIOUS
  <2>2. Len(down') <= Frames /\ Len(up') <= Frames
    BY <1>7, FramesAssumption DEF Cut
  <2> QED BY <1>7, <2>1, <2>2 DEF Cut, WireOK
<1>8. CASE Disconnect
  <2>1. PanelOK'
    BY <1>1, <1>8 DEF Disconnect, PanelOK, panel
  <2> QED BY <1>1, <1>7, <1>8, <2>1, PanelStep DEF Disconnect
<1>9. CASE PushDesired
  <2>1. PanelOK' /\ Offer \in Offers
    BY <1>1, <1>9, AskedType DEF PushDesired, PanelOK, panel
  <2>2. link' = link /\ up' = up /\ down' = Append(down, Offer) /\ Len(down) < Frames
    BY <1>9 DEF PushDesired
  <2>3. Append(down, Offer) \in Seq(Offers) /\ Len(Append(down, Offer)) <= Frames
    BY <1>1, <1>5, <2>1, <2>2, FramesAssumption DEF WireOK
  <2>4. WireOK'
    BY <1>1, <2>2, <2>3 DEF WireOK
  <2> QED BY <1>1, <1>9, <2>1, <2>4, PanelStep DEF PushDesired
<1>10. CASE PushSingbox
  <2>1. link' = link /\ up' = up /\ down' = Append(down, SingboxHalf) /\ Len(down) < Frames
    BY <1>10 DEF PushSingbox
  <2>2. Append(down, SingboxHalf) \in Seq(Offers) /\ Len(Append(down, SingboxHalf)) <= Frames
    <3>1. SingboxHalf \in Offers
      BY DEF SingboxHalf, Offers
    <3> QED BY <1>1, <1>5, <2>1, <3>1, FramesAssumption DEF WireOK
  <2>3. WireOK' /\ PanelOK'
    BY <1>1, <1>10, <2>1, <2>2 DEF PushSingbox, WireOK, PanelOK, panel
  <2> QED BY <1>2, <1>10, <2>3, PanelStep DEF PushSingbox
<1>11. CASE OnHello
  <2> DEFINE r == [row EXCEPT !.version = Head(up).version]
  <2>1. Head(up).version \in Versions
    BY <1>4, <1>11 DEF OnHello, Messages
  <2>2. r \in Rows
    BY <1>1, <2>1 DEF PanelOK, Rows
  <2>3. Asked(r) /\ UNCHANGED panel
    BY <1>11 DEF OnHello
  <2> HIDE DEF r
  <2>4. row' \in Rows /\ age' \in [Plans -> 0..ConvergeAfter]
    BY <1>1, <2>2, <2>3, AskedType
  <2>5. PanelOK' /\ WireOK'
    BY <1>1, <1>4, <1>11, <2>4 DEF OnHello, PanelOK, WireOK, panel
  <2> QED BY <1>1, <1>11, <2>5, PanelStep DEF OnHello
<1>12. CASE OnReport
  <2>1. Head(up).target \in Versions /\ Head(up).state \in States /\ Head(up).attempts \in 0..Limit
    BY <1>4, <1>12 DEF OnReport, Messages
  <2>2. row' = RecordAgentUpdate(Head(up)) /\ UNCHANGED <<panel, age, link, down, agent, history, used>>
    BY <1>12 DEF OnReport
  <2>3. row' \in Rows
    BY <1>1, <2>1, <2>2 DEF RecordAgentUpdate, PanelOK, Rows, Targets
  <2>4. alerts' \subseteq {"failed", "transient", "stale"}
    BY <1>1, <1>12 DEF OnReport, PanelOK
  <2>5. PanelOK' /\ WireOK'
    BY <1>1, <1>4, <1>12, <2>2, <2>3, <2>4 DEF OnReport, PanelOK, WireOK, panel
  <2> QED BY <1>1, <2>2, <2>5, PanelStep
<1>13. CASE Retry
  <2>1. row' \in Rows
    <3>1. 0 \in 0..Limit /\ "none" \in States
      BY LimitAssumption DEF States
    <3> QED BY <1>1, <1>13, <3>1 DEF Retry, PanelOK, Rows
  <2>2. PanelOK' /\ WireOK'
    BY <1>1, <1>13, <2>1 DEF Retry, PanelOK, WireOK, panel, wire
  <2> QED BY <1>2, <1>13, <2>2, PanelStep DEF Retry
<1>14. CASE SetAutoUpdate
  <2>1. PanelOK' /\ WireOK'
    BY <1>1, <1>14 DEF SetAutoUpdate, PanelOK, WireOK, wire
  <2> QED BY <1>2, <1>14, <2>1, PanelStep DEF SetAutoUpdate
<1>15. CASE Redeploy
  <2>1. PanelOK' /\ WireOK'
    BY <1>1, <1>7, <1>15 DEF Redeploy, PanelOK
  <2> QED BY <1>2, <1>15, <2>1, PanelStep DEF Redeploy
<1>16. CASE Sweep
  <2>1. PanelOK' /\ WireOK'
    BY <1>1, <1>16 DEF Sweep, PanelOK, WireOK, panel, wire
  <2> QED BY <1>1, <1>16, <2>1, PanelStep DEF Sweep
<1>17. CASE ReadDesired
  <2> DEFINE t == Head(down)[1]
             p == Head(down)[2]
  <2>1. down # <<>> /\ Head(down) = <<t, p>>
    BY <1>3, <1>17 DEF ReadDesired, Offers
  <2>2. <<t, p>> \in Offers /\ Ask(<<t, p>>) /\ Consider(t, p, timers) /\ UNCHANGED used
    BY <1>3, <1>17, <2>1 DEF ReadDesired
  <2> HIDE DEF t, p
  <2>3. /\ AgentOK' /\ HistoryOK' /\ AttemptsInv' /\ AskedInv' /\ BudgetInv'
        /\ up' \in Seq(Messages) /\ Len(up') <= Frames
    BY <2>2, ConsiderStep
  <2>4. PanelOK' /\ WireOK'
    BY <1>1, <1>3, <1>17, <2>1, <2>3 DEF ReadDesired, PanelOK, WireOK, panel
  <2> QED BY <2>3, <2>4 DEF IInv, TypeOK
<1>18. ASSUME NEW x \in timers, TimerFires(x) PROVE IInv'
  <2>1. <<x.target, x.plan>> \in Offers
    BY DEF IInv, TypeOK, AgentOK, Offers
  <2>2. Ask(<<x.target, x.plan>>) /\ Consider(x.target, x.plan, timers \ {x}) /\ UNCHANGED used
    BY <1>18 DEF TimerFires
  <2>3. /\ AgentOK' /\ HistoryOK' /\ AttemptsInv' /\ AskedInv' /\ BudgetInv'
        /\ up' \in Seq(Messages) /\ Len(up') <= Frames
    BY <2>1, <2>2, ConsiderStep
  <2>4. PanelOK' /\ WireOK'
    BY <1>1, <1>18, <2>3 DEF TimerFires, PanelOK, WireOK, panel
  <2> QED BY <2>3, <2>4 DEF IInv, TypeOK
<1>19. ASSUME NEW w \in works, Perform(w) PROVE IInv'
  BY <1>19, PerformStep DEF ProbeKept, IInv, TypeOK
<1>20. ASSUME Restarted PROVE IInv'
  BY <1>20, RestartedStep
<1>21. CASE Tick
  BY <1>21, TickStep
<1>22. CASE UNCHANGED vars
  BY <1>22 DEF vars, panel, wire, agent, history, IInv, TypeOK, PanelOK, WireOK, AgentOK,
               HistoryOK, AttemptsInv, AskedInv, BudgetInv, Booked
<1> HIDE DEF IInv
<1> QED
  BY <1>6, <1>8, <1>9, <1>10, <1>11, <1>12, <1>13, <1>14, <1>15, <1>16, <1>17, <1>18,
     <1>19, <1>20, <1>21, <1>22 DEF Next, Reexec, Crash

LEMMA Invariance == Spec => []IInv
<1>1. Init => IInv
  BY InitIInv
<1>2. IInv /\ [Next]_vars => IInv'
  BY StepIInv
<1> QED BY <1>1, <1>2, PTL DEF Spec

(***************************************************************************)
(* Theorems.                                                               *)
(***************************************************************************)
\* Rows, frames, ledgers, attempts and timers stay well formed; in particular an
\* armed timer always names a build and a plan (Target hands them out together).
THEOREM TypeCorrect == Spec => []TypeOK
BY Invariance, PTL DEF IInv

\* Two attempts never run at once, whatever declarations, timers, retries and
\* restarts arrive: Consider looks at `running` under the lock of the updater and
\* perform clears it only when it returns.
THEOREM AttemptsAreSerial == Spec => []OneAttempt
<1>1. IInv => OneAttempt
  <2> SUFFICES ASSUME IInv PROVE OneAttempt
    OBVIOUS
  <2>1. CASE works = {}
    BY <2>1, FS_EmptySet DEF OneAttempt
  <2>2. CASE works # {}
    <3>1. PICK w \in works : works = {w}
      BY <2>2 DEF IInv, AttemptsInv
    <3>2. Cardinality(works) = 1
      BY <3>1, FS_Singleton
    <3> QED BY <3>2 DEF OneAttempt, IInv, AttemptsInv
  <2> QED BY <2>1, <2>2
<1> QED BY <1>1, Invariance, PTL

\* The circuit breaker holds for every limit and every number of crashes: what
\* recordResult counted is on disk before the next attempt, and decide reads it.
THEOREM BreakerNeverOverrun == Spec => []BreakerHolds
<1>1. IInv => BreakerHolds
  BY LimitAssumption DEF IInv, TypeOK, HistoryOK, BudgetInv, BreakerHolds
<1> QED BY <1>1, Invariance, PTL

\* Asking for the target again, at a handshake, a push or a self-check, never moves
\* the anchor of a plan that is under way (Manager.Target, agentupdate.go).
THEOREM AnchorsStay == Spec => PlanStays
<1>1. ASSUME [Next]_vars, row'.target = row.target, row.planned # 0, row'.planned # 0
      PROVE row'.planned = row.planned
  <2> SUFFICES ASSUME row' # row PROVE row'.planned = row.planned
    OBVIOUS
  <2>1. CASE Asked(row)
    BY <1>1, <2>1 DEF Asked, Target, Anchors
  <2>2. CASE Asked([row EXCEPT !.version = Head(up).version])
    BY <1>1, <2>2 DEF Asked, Target, Anchors
  <2>3. CASE OnReport
    BY <2>3 DEF OnReport, RecordAgentUpdate
  <2>4. CASE Retry
    BY <1>1, <2>4 DEF Retry
  <2> QED
    BY <1>1, <2>1, <2>2, <2>3, <2>4
       DEF Next, vars, Connect, Disconnect, PushDesired, PushSingbox, OnHello, SetAutoUpdate,
           Redeploy, Sweep, ReadDesired, TimerFires, Perform, FetchFails, Fetched, SelfCheck,
           SelfCheckUnanswered, Replace, ReplaceFails, Commit, Reexec, Crash, Restarted, Tick
<1>2. [Next]_vars => [row'.target = row.target /\ row.planned # 0 /\ row'.planned # 0
                       => row'.planned = row.planned]_vars
  BY <1>1
<1> QED BY <1>2, PTL DEF Spec, PlanStays
=============================================================================
