-------------------------- MODULE Releases_proofs --------------------------
(***************************************************************************)
(* Safety of the release cache and of the distribution jobs, for any number*)
(* of clicks, versions, nodes and jobs: the goroutines, the job record, the*)
(* timers that check it and the restarts between them.                     *)
(***************************************************************************)
EXTENDS Releases, TLAPS

\* Where a goroutine can be, and what is stored of a job.
Places == {"idle", "asked", "looking", "arriving", "behind", "queued", "locked", "fetching",
           "published", "removing", "starting", "listing", "pushing"}
Jobs == [id : Nat, state : {"none", "pending", "downloading", "pushing", "done", "failed"},
         target : Versions \cup {NoVersion}, moved : SUBSET Targets, due : BOOLEAN, checked : BOOLEAN,
         stale : SUBSET Targets, alerted : BOOLEAN]
\* A record as it is stored: a check is due only of a job that is done.
Stored(r) == r \in Jobs /\ (r.due => r.state = "done")

TasksInv == task \in [Workers -> [pc : Places, ver : Versions \cup {NoVersion}]]
\* The nodes a job pushes to are nodes.
Known == (push.node # Nobody => push.node \in Targets) /\ \A t \in push.todo : t.node \in Targets
\* The record is of the goroutine that runs, and is over when none does.
JobInv ==
  /\ Stored(job)
  /\ push = [id |-> push.id, todo |-> push.todo, node |-> push.node, row |-> push.row]
  /\ Known
  /\ IF At("job", "idle") THEN job.id = 0 \/ IsTerminal(job.state)
     ELSE job.id = push.id /\ job.id # 0 /\ ~IsTerminal(job.state)
\* A check is of a job that is over, and the copy it fills in is of that job.
ChecksInv ==
  /\ check = [j \in 1..MaxJobs |-> check[j]]
  /\ \A j \in 1..MaxJobs :
       /\ check[j].pc # "unarmed" => j <= job.id /\ (j = job.id => IsTerminal(job.state))
       /\ check[j].pc = "reading" => /\ Stored(check[j].copy) /\ check[j].copy.id = j
                                     /\ IsTerminal(check[j].copy.state) /\ check[j].stale \subseteq Targets
ReleaseInv == TasksInv /\ JobInv /\ ChecksInv

\* The record before the first job.
LEMMA NoJobStored == Stored(NoJob)
BY DEF NoJob, Stored, Jobs, NoVersion

\* Nothing runs.
LEMMA ReleaseInvInit == ReleaseInit => ReleaseInv
<1> SUFFICES ASSUME ReleaseInit PROVE ReleaseInv
  OBVIOUS
<1>1. TasksInv
  BY DEF ReleaseInit, TasksInv, IdleTask, Places
<1>2. JobInv
  BY NoJobStored DEF ReleaseInit, JobInv, NoPush, NoJob, At, IdleTask, Workers, Known
<1>3. ChecksInv
  BY DEF ReleaseInit, ChecksInv, NoCheck
<1> QED
  BY <1>1, <1>2, <1>3 DEF ReleaseInv

\* Goroutines only go where Goes, Begins and Ends say.
LEMMA TasksStep == TasksInv /\ [ReleaseNext]_releaseVars => TasksInv'
<1> SUFFICES ASSUME TasksInv, [ReleaseNext]_releaseVars PROVE TasksInv'
  OBVIOUS
<1> USE DEF TasksInv, Workers
<1>1. ASSUME NEW w \in Workers, NEW pc \in Places, Goes(w, pc) PROVE TasksInv'
  BY <1>1 DEF Goes
<1>2. ASSUME NEW w \in Workers, NEW pc \in Places, NEW v \in Versions, Begins(w, pc, v) PROVE TasksInv'
  BY <1>2 DEF Begins
<1>3. ASSUME NEW w \in Workers, Ends(w) PROVE TasksInv'
  BY <1>3 DEF Ends, IdleTask, Places
<1>4. CASE UNCHANGED task
  BY <1>4
<1>p. /\ {"asked", "looking", "arriving", "behind", "queued", "locked", "fetching"} \subseteq Places
      /\ {"published", "removing", "starting", "listing", "pushing"} \subseteq Places
  BY DEF Places
<1> HIDE DEF TasksInv
<1>5. ASSUME NEW w \in Workers, NEW ok, Settle(w, ok) PROVE TasksInv'
  BY <1>1, <1>3, <1>5, <1>p DEF Settle, FailJob
<1>6. ASSUME NEW w \in Workers \ {"delete"}, Installing(w) PROVE TasksInv'
  BY <1>1, <1>4, <1>5, <1>6, <1>p DEF Installing, LookUpRelease, TryLock, ReportWaiting, TakeLock, AlreadyThere,
     StartFetch, FetchFails, Publish, ReportDone
<1>7. ASSUME NEW c \in Clicks, ClickAccepted(c) \/ \E v \in Versions : ClickDownload(c, v) PROVE TasksInv'
  BY <1>1, <1>2, <1>7, <1>p DEF ClickAccepted, ClickDownload
<1>8. CASE Ensure
  BY <1>2, <1>4, <1>8, <1>p DEF Ensure
<1>9. CASE (\E v \in Versions : AskDelete(v)) \/ RemoveFiles \/ RemoveDirectory
  BY <1>2, <1>3, <1>4, <1>9, <1>p DEF AskDelete, RemoveFiles, RemoveDirectory
<1>10. CASE (\E v \in Versions : StartUpdate(v)) \/ JobSteps
  BY <1>1, <1>2, <1>3, <1>4, <1>10, <1>p DEF StartUpdate, JobSteps, RunJob, PushAll, PushOne, PushWrite, FinishJob
<1>11. CASE (\E j \in 1..MaxJobs : Check(j)) \/ (\E n \in Targets : NodeTurn(n))
  BY <1>4, <1>11 DEF Check, CheckStarts, CheckEnds, RaiseStaleAlert, NodeTurn
<1>12. CASE PanelRestarts
  BY <1>12 DEF PanelRestarts, TasksInv, IdleTask, Places
<1> QED
  BY <1>4, <1>6, <1>7, <1>8, <1>9, <1>10, <1>11, <1>12 DEF ReleaseNext, releaseVars

\* Steps that leave the job alone.
LEMMA OthersStep ==
  ASSUME JobInv, ChecksInv, UNCHANGED <<job, push, check>>, At("job", "idle")' <=> At("job", "idle")
  PROVE  JobInv' /\ ChecksInv'
BY DEF JobInv, ChecksInv, At, Known

\* The record gets another state while the job runs.
LEMMA RunningStep ==
  ASSUME JobInv, ChecksInv, ~At("job", "idle"), ~At("job", "idle")', NEW r,
         Stored(r), r.id = job.id, ~IsTerminal(r.state), job' = r, push'.id = push.id,
         push' = [id |-> push'.id, todo |-> push'.todo, node |-> push'.node, row |-> push'.row],
         UNCHANGED check, Known'
  PROVE  JobInv' /\ ChecksInv'
BY DEF JobInv, ChecksInv, At, Known

\* The job is over.
LEMMA EndingStep ==
  ASSUME JobInv, ChecksInv, At("job", "idle")', Stored(job'), job'.id = job.id, IsTerminal(job'.state),
         push' = NoPush, UNCHANGED check
  PROVE  JobInv' /\ ChecksInv'
BY DEF JobInv, ChecksInv, At, NoPush, Known

\* Where the goroutine of the job goes; the others never move it.
LEMMA Moves ==
  ASSUME TasksInv, NEW w \in Workers, NEW pc \in Places, NEW v \in Versions
  PROVE  /\ Goes(w, pc) /\ w = "job" => (At("job", "idle")' <=> pc = "idle")
         /\ Begins(w, pc, v) /\ w = "job" => (At("job", "idle")' <=> pc = "idle")
         /\ Ends(w) /\ w = "job" => At("job", "idle")'
         /\ (Goes(w, pc) \/ Begins(w, pc, v) \/ Ends(w)) /\ w # "job" => (At("job", "idle")' <=> At("job", "idle"))
BY DEF TasksInv, Goes, Begins, Ends, At, Workers, IdleTask

\* The job gives up...
LEMMA FailingStep ==
  ASSUME ReleaseInv, ~At("job", "idle"), FailJob
  PROVE  JobInv' /\ ChecksInv'
<1>1. job' = [job EXCEPT !.state = "failed"]
  BY DEF ReleaseInv, JobInv, FailJob, SetState, Mine
<1>2. Stored(job') /\ job'.id = job.id /\ IsTerminal(job'.state)
  BY <1>1 DEF ReleaseInv, JobInv, Stored, Jobs, IsTerminal
<1>3. At("job", "idle")'
  BY Moves DEF ReleaseInv, TasksInv, FailJob, Ends, At, IdleTask, Workers
<1> QED
  BY <1>2, <1>3, EndingStep DEF ReleaseInv, FailJob

\* ...as it may when its download has been settled.
LEMMA SettlingStep ==
  ASSUME ReleaseInv, NEW w \in Workers, NEW ok, Settle(w, ok), w = "job" => ~At("job", "idle")
  PROVE  JobInv' /\ ChecksInv'
<1>1. CASE w = "job"
  <2>1. ok \/ FailJob
    BY <1>1, ClicksAssumption DEF Settle
  <2>2. CASE FailJob
    BY <1>1, <2>2, FailingStep
  <2>3. CASE ok /\ ~FailJob
    <3>1. Goes("job", "listing") /\ UNCHANGED rowVars
      BY <1>1, <2>3, ClicksAssumption DEF Settle
    <3>2. ~At("job", "idle")'
      BY <3>1 DEF ReleaseInv, TasksInv, Goes, At, Workers
    <3> QED
      BY <1>1, <3>1, <3>2, OthersStep DEF ReleaseInv, rowVars
  <2> QED
    BY <2>1, <2>2, <2>3
<1>2. CASE w # "job"
  <2>1. Ends(w) /\ UNCHANGED rowVars
    BY <1>2 DEF Settle
  <2>2. At("job", "idle")' <=> At("job", "idle")
    BY <1>2, <2>1 DEF ReleaseInv, TasksInv, Ends, At, Workers
  <2> QED
    BY <2>1, <2>2, OthersStep DEF ReleaseInv, rowVars
<1> QED
  BY <1>1, <1>2

\* A download, on whoever's behalf.
LEMMA InstallingStep ==
  ASSUME ReleaseInv, NEW w \in Workers \ {"delete"}, Installing(w)
  PROVE  JobInv' /\ ChecksInv'
<1>1. ASSUME NEW pc \in Places, Goes(w, pc), pc # "idle", ~At(w, "idle"), UNCHANGED rowVars
      PROVE  JobInv' /\ ChecksInv'
  <2>1. At("job", "idle")' <=> At("job", "idle")
    BY <1>1 DEF ReleaseInv, TasksInv, Goes, At, Workers
  <2> QED
    BY <1>1, <2>1, OthersStep DEF ReleaseInv, rowVars
<1>2. ASSUME NEW ok, Settle(w, ok), ~At(w, "idle") PROVE JobInv' /\ ChecksInv'
  BY <1>2, SettlingStep
<1>3. LookUpRelease(w) => JobInv' /\ ChecksInv'
  BY <1>1, <1>2 DEF LookUpRelease, Places, At
<1>4. TryLock(w) \/ ReportWaiting(w) \/ TakeLock(w) => JobInv' /\ ChecksInv'
  BY <1>1 DEF TryLock, ReportWaiting, TakeLock, Places, At
<1>5. StartFetch(w) \/ Publish(w) => JobInv' /\ ChecksInv'
  BY <1>1 DEF StartFetch, Publish, Places, At
<1>6. AlreadyThere(w) \/ FetchFails(w) \/ ReportDone(w) => JobInv' /\ ChecksInv'
  BY <1>2 DEF AlreadyThere, FetchFails, ReportDone, At
<1> QED
  BY <1>3, <1>4, <1>5, <1>6 DEF Installing

\* A job starts when none runs: its number is new.
LEMMA StartingStep ==
  ASSUME ReleaseInv, NEW v \in Versions, StartUpdate(v)
  PROVE  JobInv' /\ ChecksInv'
<1> DEFINE r == [NoJob EXCEPT !.id = job.id + 1, !.state = "pending", !.target = v]
<1>1. /\ job' = r /\ push' = [NoPush EXCEPT !.id = job.id + 1] /\ UNCHANGED check
      /\ ~At("job", "idle")'
  BY DEF StartUpdate, Begins, At, ReleaseInv, TasksInv, Workers
<1>2. job.id \in Nat /\ Stored(job)
  BY DEF ReleaseInv, JobInv, Stored, Jobs
<1>3. Stored(r) /\ r.id = job.id + 1 /\ r.state = "pending"
  <2>1. ASSUME NEW n \in Nat
        PROVE  LET k == [NoJob EXCEPT !.id = n, !.state = "pending", !.target = v]
               IN  Stored(k) /\ k.id = n /\ k.state = "pending"
    BY DEF Stored, Jobs, NoJob
  <2>2. job.id + 1 \in Nat
    BY <1>2
  <2> QED
    BY <2>1, <2>2
<1> HIDE DEF r
<1>4. JobInv'
  BY <1>1, <1>2, <1>3 DEF JobInv, At, NoPush, IsTerminal, Known
<1>5. ChecksInv'
  BY <1>1, <1>2, <1>3 DEF ReleaseInv, ChecksInv, IsTerminal
<1> QED
  BY <1>4, <1>5

\* The job goes on while its record is its own.
LEMMA JobStepsStep ==
  ASSUME ReleaseInv, JobSteps
  PROVE  JobInv' /\ ChecksInv'
<1>0. /\ ~At("job", "idle") /\ Stored(job) /\ job.id = push.id /\ job.due = FALSE
      /\ push = [id |-> push.id, todo |-> push.todo, node |-> push.node, row |-> push.row]
  <2>1. ~At("job", "idle")
    BY DEF JobSteps, RunJob, PushAll, PushOne, PushWrite, FinishJob, At
  <2>2. Stored(job) /\ job.id = push.id /\ ~IsTerminal(job.state)
    BY <2>1 DEF ReleaseInv, JobInv
  <2> QED
    BY <2>1, <2>2 DEF Stored, Jobs, IsTerminal, ReleaseInv, JobInv
<1>a. ~IsTerminal(job.state)
  BY <1>0 DEF ReleaseInv, JobInv
<1>1. CASE RunJob
  <2>1. job' = [job EXCEPT !.state = "downloading"] /\ UNCHANGED <<push, check>> /\ Known'
    BY <1>0, <1>1 DEF RunJob, SetState, Mine, ReleaseInv, JobInv, Known
  <2>2. ~At("job", "idle")'
    BY <1>1 DEF RunJob, Goes, At, ReleaseInv, TasksInv, Workers
  <2>3. Stored(job') /\ job'.id = job.id /\ ~IsTerminal(job'.state)
    BY <1>0, <2>1 DEF Stored, Jobs, IsTerminal
  <2> QED
    BY <1>0, <2>1, <2>2, <2>3, RunningStep DEF ReleaseInv
<1>2. CASE PushAll
  <2>1. job' = [job EXCEPT !.state = "pushing"] /\ UNCHANGED check
    BY <1>0, <1>2 DEF PushAll, SetState, Mine
  <2>2. ~At("job", "idle")'
    BY <1>2 DEF PushAll, Goes, At, ReleaseInv, TasksInv, Workers
  <2>3. Stored(job') /\ job'.id = job.id /\ ~IsTerminal(job'.state)
    BY <1>0, <2>1 DEF Stored, Jobs, IsTerminal
  <2>4. push'.id = push.id /\ push' = [id |-> push'.id, todo |-> push'.todo, node |-> push'.node, row |-> push'.row]
    BY <1>0, <1>2 DEF PushAll
  <2>5. Known'
    BY <1>0, <1>2 DEF PushAll, ListTargets, Known, ReleaseInv, JobInv
  <2> QED
    BY <1>0, <2>1, <2>2, <2>3, <2>4, <2>5, RunningStep DEF ReleaseInv
<1>3. CASE PushOne
  <2>1. UNCHANGED <<job, check, task>>
    BY <1>3 DEF PushOne
  <2>2. PICK t \in push.todo :
          LET rest == [push EXCEPT !.todo = @ \ {t}]
          IN  push' = IF t.listed.version = task["job"].ver /\ t.listed.desired = task["job"].ver
                      THEN rest ELSE [rest EXCEPT !.node = t.node, !.row = box[t.node]]
    BY <1>3 DEF PushOne
  <2>3. push'.id = push.id /\ push' = [id |-> push'.id, todo |-> push'.todo, node |-> push'.node, row |-> push'.row]
    BY <1>0, <2>2
  <2>4. Known'
    BY <1>0, <2>2 DEF Known, ReleaseInv, JobInv
  <2> QED
    BY <1>0, <1>a, <2>1, <2>3, <2>4, RunningStep DEF ReleaseInv, At
<1>4. CASE PushWrite
  <2>1. UNCHANGED <<check, task>>
    BY <1>4 DEF PushWrite
  <2>2. push'.id = push.id /\ push' = [id |-> push'.id, todo |-> push'.todo, node |-> push'.node, row |-> push'.row]
    BY <1>0, <1>4 DEF PushWrite
  <2>3. job' = job \/ (push.node \in Targets /\ job' = [job EXCEPT !.moved = @ \cup {push.node}])
    BY <1>4 DEF PushWrite, Recorded, ReleaseInv, JobInv, Known
  <2>4. Stored(job') /\ job'.id = job.id /\ job'.state = job.state
    BY <1>0, <2>3 DEF Stored, Jobs
  <2>5. Known'
    BY <1>0, <1>4 DEF PushWrite, Known, ReleaseInv, JobInv
  <2> QED
    BY <1>0, <1>a, <2>1, <2>2, <2>4, <2>5, RunningStep DEF ReleaseInv, At
<1>5. CASE FinishJob
  <2>1. /\ job' = [[job EXCEPT !.state = "done"] EXCEPT !.due = TRUE] /\ ArmTimer(push.id)
        /\ push' = NoPush
    BY <1>0, <1>5 DEF FinishJob, Mine
  <2>2. At("job", "idle")'
    BY <1>5 DEF FinishJob, Ends, IdleTask, At, ReleaseInv, TasksInv, Workers
  <2>3. Stored(job') /\ job'.id = job.id /\ job'.state = "done"
    BY <1>0, <2>1 DEF Stored, Jobs
  <2>4. JobInv'
    BY <2>1, <2>2, <2>3 DEF JobInv, At, NoPush, IsTerminal, Known
  <2>5. \A j \in 1..MaxJobs : check'[j] = check[j] \/ (j = job.id /\ check'[j].pc = "armed")
    BY <1>0, <2>1 DEF ArmTimer, NoCheck, ReleaseInv, ChecksInv
  <2>6. check' = [j \in 1..MaxJobs |-> check'[j]]
    BY <2>1 DEF ArmTimer, ReleaseInv, ChecksInv
  <2>7. ChecksInv'
    BY <1>0, <2>3, <2>5, <2>6 DEF ReleaseInv, ChecksInv, Stored, Jobs, IsTerminal
  <2> QED
    BY <2>4, <2>7
<1> QED
  BY <1>1, <1>2, <1>3, <1>4, <1>5 DEF JobSteps

\* A check writes its copy back only over the record of the same job.
LEMMA CheckStep ==
  ASSUME ReleaseInv, NEW j \in 1..MaxJobs, Check(j)
  PROVE  JobInv' /\ ChecksInv'
<1>0. UNCHANGED <<task, push>> /\ check[j].pc # "unarmed"
  BY DEF Check, CheckStarts, CheckEnds, RaiseStaleAlert, Checks
<1>1. \A i \in 1..MaxJobs : i # j => check'[i] = check[i]
  BY DEF Check, CheckStarts, CheckEnds, RaiseStaleAlert, ReleaseInv, ChecksInv
<1>2. check' = [i \in 1..MaxJobs |-> check'[i]]
  BY DEF Check, CheckStarts, CheckEnds, RaiseStaleAlert, ReleaseInv, ChecksInv
<1>3. j <= job.id /\ (j = job.id => IsTerminal(job.state)) /\ Stored(job) /\ job.id \in Nat
  BY <1>0 DEF ReleaseInv, ChecksInv, JobInv, Stored, Jobs
<1>4. /\ Stored(job') /\ job'.id = job.id
      /\ job' = job \/ (job.id = j /\ IsTerminal(job.state) /\ IsTerminal(job'.state))
  <2>1. CASE CheckStarts(j)
    BY <1>3, <2>1 DEF CheckStarts
  <2>2. CASE CheckEnds(j)
    <3>1. check[j].pc = "reading"
      BY <2>2 DEF CheckEnds, Checks
    <3>2. /\ Stored(check[j].copy) /\ check[j].copy.id = j /\ IsTerminal(check[j].copy.state)
          /\ check[j].stale \subseteq Targets
      BY <3>1 DEF ReleaseInv, ChecksInv
    <3>3. job' = job \/ (job.id = j /\ job' = [[check[j].copy EXCEPT !.checked = TRUE] EXCEPT !.stale = check[j].stale])
      BY <2>2 DEF CheckEnds, Replaces
    <3> QED
      BY <1>3, <3>2, <3>3 DEF Stored, Jobs
  <2>3. CASE RaiseStaleAlert(j)
    <3>1. job' = job \/ (job.id = j /\ job' = [job EXCEPT !.alerted = TRUE])
      BY <2>3 DEF RaiseStaleAlert
    <3> QED
      BY <1>3, <3>1 DEF Stored, Jobs
  <2> QED
    BY <2>1, <2>2, <2>3 DEF Check
<1>5. check'[j].pc = "reading" => /\ Stored(check'[j].copy) /\ check'[j].copy.id = j
                                 /\ IsTerminal(check'[j].copy.state) /\ check'[j].stale \subseteq Targets
  <2>1. CASE CheckStarts(j)
    <3>1. check'[j] = IF job.id # j \/ job.checked THEN NoCheck
                      ELSE [pc |-> "reading", stale |-> {n \in job.moved : box[n].version # job.target}, copy |-> job]
      BY <2>1 DEF CheckStarts, ReleaseInv, ChecksInv
    <3>2. job.moved \subseteq Targets
      BY <1>3 DEF Stored, Jobs
    <3> QED
      BY <1>3, <3>1, <3>2 DEF NoCheck
  <2>2. CASE CheckEnds(j) \/ RaiseStaleAlert(j)
    <3>1. NoCheck.pc = "unarmed" /\ \A S : [pc |-> "alerting", stale |-> S].pc = "alerting"
      BY DEF NoCheck
    <3>2. check'[j].pc # "reading"
      <4>1. CASE CheckEnds(j)
        <5>1. check'[j] = IF check[j].stale = {} THEN NoCheck ELSE [pc |-> "alerting", stale |-> check[j].stale]
          BY <4>1 DEF CheckEnds, ReleaseInv, ChecksInv
        <5> QED
          BY <3>1, <5>1
      <4>2. CASE RaiseStaleAlert(j)
        <5>1. check'[j] = NoCheck
          BY <4>2 DEF RaiseStaleAlert, ReleaseInv, ChecksInv
        <5> QED
          BY <3>1, <5>1
      <4> QED
        BY <2>2, <4>1, <4>2
    <3> QED
      BY <3>2
  <2> QED
    BY <2>1, <2>2 DEF Check
<1>6. JobInv'
  BY <1>0, <1>3, <1>4 DEF ReleaseInv, JobInv, Known, At
<1>7. ChecksInv'
  BY <1>1, <1>2, <1>3, <1>4, <1>5 DEF ReleaseInv, ChecksInv
<1> QED
  BY <1>6, <1>7

\* A restart fails the job it interrupts and arms the timer of one that is due.
LEMMA RestartStep ==
  ASSUME ReleaseInv, PanelRestarts
  PROVE  JobInv' /\ ChecksInv'
<1>1. At("job", "idle")'
  BY DEF PanelRestarts, At, IdleTask, Workers
<1>2. job' = job \/ (~IsTerminal(job.state) /\ job' = [job EXCEPT !.state = "failed"])
  BY DEF PanelRestarts, Interrupted, InProgress
<1>3. Stored(job) /\ job.id \in Nat
  BY DEF ReleaseInv, JobInv, Stored, Jobs
<1>4. Stored(job') /\ job'.id = job.id /\ (job.id = 0 \/ IsTerminal(job'.state))
  BY <1>2, <1>3 DEF PanelRestarts, Interrupted, InProgress, Stored, Jobs, IsTerminal
<1>5. JobInv'
  BY <1>1, <1>4 DEF PanelRestarts, JobInv, At, NoPush, Known
<1>6. /\ check' = [j \in 1..MaxJobs |-> check'[j]]
      /\ \A j \in 1..MaxJobs : check'[j].pc = "unarmed" \/ (check'[j].pc = "armed" /\ j = job.id /\ job.due)
  BY DEF PanelRestarts, Rearms, NoCheck
<1>7. job.due => job' = job /\ IsTerminal(job.state)
  BY <1>3 DEF PanelRestarts, Interrupted, InProgress, Stored, IsTerminal
<1>8. ChecksInv'
  BY <1>3, <1>4, <1>6, <1>7 DEF ChecksInv
<1> QED
  BY <1>5, <1>8

\* All steps together.
LEMMA ReleaseInvStep == ReleaseInv /\ [ReleaseNext]_releaseVars => ReleaseInv'
<1> SUFFICES ASSUME ReleaseInv, [ReleaseNext]_releaseVars PROVE JobInv' /\ ChecksInv'
  BY TasksStep DEF ReleaseInv
<1>1. ASSUME UNCHANGED rowVars, At("job", "idle")' <=> At("job", "idle") PROVE JobInv' /\ ChecksInv'
  BY <1>1, OthersStep DEF ReleaseInv, rowVars
<1>2. ASSUME NEW c \in Clicks, ClickAccepted(c) \/ \E v \in Versions : ClickDownload(c, v)
      PROVE  JobInv' /\ ChecksInv'
  <2>1. At("job", "idle")' <=> At("job", "idle")
    BY <1>2, ClicksAssumption DEF ClickAccepted, ClickDownload, Goes, Begins, At, ReleaseInv, TasksInv, Workers
  <2> QED
    BY <1>1, <1>2, <2>1 DEF ClickAccepted, ClickDownload
<1>3. CASE Ensure
  <2>1. At("job", "idle")' <=> At("job", "idle")
    BY <1>3 DEF Ensure, Begins, At, ReleaseInv, TasksInv, Workers
  <2> QED
    BY <1>1, <1>3, <2>1 DEF Ensure
<1>4. CASE (\E v \in Versions : AskDelete(v)) \/ RemoveFiles \/ RemoveDirectory
  <2>1. At("job", "idle")' <=> At("job", "idle")
    BY <1>4 DEF AskDelete, RemoveFiles, RemoveDirectory, Begins, Ends, At, ReleaseInv, TasksInv, Workers
  <2> QED
    BY <1>1, <1>4, <2>1 DEF AskDelete, RemoveFiles, RemoveDirectory
<1>5. ASSUME NEW n \in Targets, NodeTurn(n) PROVE JobInv' /\ ChecksInv'
  BY <1>5, OthersStep DEF NodeTurn, ReleaseInv, At
<1>6. CASE UNCHANGED releaseVars
  BY <1>1, <1>6 DEF releaseVars, rowVars, At
<1> QED
  BY <1>2, <1>3, <1>4, <1>5, <1>6, InstallingStep, StartingStep, JobStepsStep, CheckStep, RestartStep
     DEF ReleaseNext

\* The record says that a distribution runs exactly while its goroutine does, for
\* any number of jobs, checks that come late and restarts
\* (singboxupdate.go:309-333, 512-574).
THEOREM DistributionIsOne == ReleaseSpec => []OneDistribution
<1>1. ReleaseInv => OneDistribution
  BY DEF ReleaseInv, JobInv, OneDistribution, InProgress
<1> QED
  BY <1>1, ReleaseInvInit, ReleaseInvStep, PTL DEF ReleaseSpec
=============================================================================
