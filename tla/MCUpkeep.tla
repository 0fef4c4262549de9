------------------------------ MODULE MCUpkeep ------------------------------
(***************************************************************************)
(* Six components that do not share a step here: a behaviour exercises one *)
(* `part`, the others stay in one of their initial states.                 *)
(***************************************************************************)
EXTENDS Terminals, Sessions, Enrolment, Metering, Reminders, DataFiles

TwoMirrors == <<"first", "second">>

VARIABLE part

SessionsRest == mustChange
DataRest == auto /\ db = [origin |-> Missing, old |-> FALSE] /\ cache = [doc |-> NoDoc, old |-> FALSE]

Init ==
  /\ part \in {"terminals", "sessions", "enrolment", "metering", "reminders", "data"}
  /\ TerminalInit
  /\ SessionInit /\ (part # "sessions" => SessionsRest)
  /\ EnrolInit
  /\ MeterInit
  /\ ReminderInit
  /\ DataInit /\ (part # "data" => DataRest)

\* Once a total is spoilt it stays so, and nothing is said of it any more.
Next ==
  /\ UNCHANGED part
  /\ \/ /\ part = "terminals" /\ TerminalNext
        /\ UNCHANGED <<sessionVars, enrolVars, meterVars, reminderVars, dataVars>>
     \/ /\ part = "sessions" /\ SessionNext
        /\ UNCHANGED <<termVars, enrolVars, meterVars, reminderVars, dataVars>>
     \/ /\ part = "enrolment" /\ EnrolNext
        /\ UNCHANGED <<termVars, sessionVars, meterVars, reminderVars, dataVars>>
     \/ /\ part = "metering" /\ ~spoilt /\ MeterNext
        /\ UNCHANGED <<termVars, sessionVars, enrolVars, reminderVars, dataVars>>
     \/ /\ part = "reminders" /\ ReminderNext
        /\ UNCHANGED <<termVars, sessionVars, enrolVars, meterVars, dataVars>>
     \/ /\ part = "data" /\ DataNext
        /\ UNCHANGED <<termVars, sessionVars, enrolVars, meterVars, reminderVars>>

Spec == Init /\ [][Next]_<<part, termVars, sessionVars, enrolVars, meterVars, reminderVars, dataVars>>
=============================================================================
