----------------------------- MODULE Reminders -----------------------------
(***************************************************************************)
(* The reminders of a bill: a pass of the scheduler every six hours over   *)
(* the date the operator entered (internal/server/scheduler/scheduler.go,  *)
(* internal/server/httpapi/node_handlers.go, internal/server/store/        *)
(* traffic.go).  A day is a number, and so is the date; the alert of the   *)
(* stage before is closed and the new one raised in two statements between *)
(* which the panel may stop.                                               *)
(***************************************************************************)
EXTENDS Integers, FiniteSetsExt

CONSTANTS LastDay,   \* bound on the clock
          Stages,    \* days ahead that are reminded of
          MaxDates   \* bound on the dates the operator enters

ASSUME StagesAssumption == LastDay \in Nat /\ Stages \subseteq Nat \ {0}

Dates == 0..LastDay
NoStage == LastDay + 1
Nothing == [stage |-> NoStage, due |-> NoStage]

VARIABLES
  today,
  due,       \* node_billing.next_due_at
  reminder,  \* the stage of the open alert
  raising,   \* the stage a pass is about to raise, and the date it is of
  reminded,  \* history: reminders for this date, per stage
  dates

reminderVars == <<today, due, reminder, raising, reminded, dates>>

ReminderInit ==
  /\ today = 0 /\ due = NoStage /\ reminder = NoStage /\ raising = Nothing
  /\ reminded = [s \in Dates |-> 0] /\ dates = 0

UpsertNodeBilling(day) ==
  /\ due # day /\ dates < MaxDates /\ dates' = dates + 1
  /\ due' = day /\ reminded' = [s \in Dates |-> 0]
  /\ UNCHANGED <<today, reminder, raising>>
NextDay ==
  /\ today < LastDay /\ today' = today + 1
  /\ UNCHANGED <<due, reminder, raising, reminded, dates>>

Left == due - today
\* Every overdue day is one stage.
Stage == IF Left <= 0 THEN 0 ELSE Left
billingKind == Left <= 0 \/ Left \in Stages

\* Mutant of billingStageOpen: every pass reminds.
billingStageNever == FALSE
billingStageOpen == reminder = Stage

Pass == due # NoStage /\ raising = Nothing
closeBillingAlerts ==
  /\ Pass /\ reminder' = NoStage
  /\ \/ billingKind /\ ~billingStageOpen /\ raising' = [stage |-> Stage, due |-> due]
     \/ ~billingKind /\ Left > Max(Stages) /\ UNCHANGED raising
  /\ UNCHANGED <<today, due, reminded, dates>>
\* The date may be another one by now.
CreateReminder ==
  /\ raising # Nothing /\ raising' = Nothing /\ reminder' = raising.stage
  /\ reminded' = IF raising.due = due THEN [reminded EXCEPT ![raising.stage] = @ + 1] ELSE reminded
  /\ UNCHANGED <<today, due, dates>>
PanelStops ==
  /\ raising # Nothing /\ raising' = Nothing
  /\ UNCHANGED <<today, due, reminder, reminded, dates>>

ReminderNext ==
  \/ \E day \in Dates : UpsertNodeBilling(day)
  \/ NextDay \/ closeBillingAlerts \/ CreateReminder \/ PanelStops
ReminderSpec == ReminderInit /\ [][ReminderNext]_reminderVars

(***************************************************************************)
(* Properties.                                                             *)
(***************************************************************************)
\* The operator is reminded at most once of each stage of a date, however often
\* the pass runs, wherever the panel was stopped, and whatever the date was
\* before (scheduler.go:446-538).
RemindedOnce == \A s \in Dates : reminded[s] <= 1
=============================================================================
