------------------------------ MODULE Releases ------------------------------
(***************************************************************************)
(* The sing-box releases the panel keeps for its probes: the downloader and*)
(* its cache (internal/server/singboxdl), the download of the first start  *)
(* (internal/server/singboxcache), the progress row of the settings page   *)
(* (httpapi/singbox_progress.go, singbox_releases.go) and the job that     *)
(* moves every managed node onto one version                               *)
(* (internal/server/singboxupdate, httpapi/singbox_update_handlers.go).    *)
(*                                                                         *)
(* `task` holds one goroutine per click on "download", the one that fills  *)
(* an empty cache, the one of the job and the request that deletes a       *)
(* version.  Installs share one lock; nothing else does.  The job is stored*)
(* with every change, so a restart keeps it, and the directories.          *)
(***************************************************************************)
EXTENDS Integers, FiniteSets

CONSTANTS Versions,     \* releases upstream lists
          Targets,      \* nodes with a row of node_singbox
          Clicks,       \* goroutines of requests to download
          MaxJobs,      \* bound on distributions
          MaxEvents     \* bound on requests, restarts of the panel, and what nodes
                        \* and operators do to a row

NoVersion == "0"
Nobody == "nobody"
Workers == Clicks \cup {"ensure", "job", "delete"}
ASSUME ClicksAssumption == Clicks \cap {"ensure", "job", "delete"} = {}

VARIABLES
  dir,       \* per version: nothing, the whole release, a directory without the binary
  lock,      \* who holds installMu
  task,      \* per goroutine: where it is, for which version
  progress,  \* the one snapshot the panel renders
  filled,    \* status of the download of the first start
  job,       \* the job, as stored
  push,      \* runJob: its job id, the nodes to come, the row it has read
  check,     \* per job id: the convergence check under way
  box,       \* per node: the row, and whether the probe is connected
  alerts,    \* jobs an alert was raised for
  relSpent   \* events so far

releaseVars == <<dir, lock, task, progress, filled, job, push, check, box, alerts, relSpent>>
rowVars == <<job, push, check, box, alerts>>  \* what only the job touches

IdleTask == [pc |-> "idle", ver |-> NoVersion]
NoRow == [desired |-> NoVersion, version |-> NoVersion, removed |-> FALSE, online |-> FALSE]
NoPush == [id |-> 0, todo |-> {}, node |-> Nobody, row |-> NoRow]
NoCheck == [pc |-> "unarmed", stale |-> {}]
NoJob == [id |-> 0, state |-> "none", target |-> NoVersion, moved |-> {}, due |-> FALSE,
          checked |-> FALSE, stale |-> {}, alerted |-> FALSE]
IsTerminal(state) == state \in {"done", "failed"}
InProgress == job.id # 0 /\ ~IsTerminal(job.state)
Cached(v) == dir[v] = "whole"
Spends == relSpent < MaxEvents /\ relSpent' = relSpent + 1

ReleaseInit ==
  /\ dir \in [Versions -> {"none", "whole"}]
  /\ lock = Nobody
  /\ task = [w \in Workers |-> IdleTask]
  /\ progress = [ver |-> NoVersion, phase |-> "none"]
  /\ filled = [state |-> "none", ver |-> NoVersion]
  /\ job = NoJob /\ push = NoPush
  /\ check = [j \in 1..MaxJobs |-> NoCheck]
  /\ box \in [Targets -> [desired : Versions, version : {NoVersion} \cup Versions,
                          removed : {FALSE}, online : BOOLEAN]]
  /\ alerts = {}
  /\ relSpent = 0

(***************************************************************************)
(* Goroutines and the progress row.                                        *)
(***************************************************************************)
At(w, pc) == task[w].pc = pc
Goes(w, pc) == task' = [task EXCEPT ![w].pc = pc]
Begins(w, pc, v) == task' = [task EXCEPT ![w] = [pc |-> pc, ver |-> v]]
Ends(w) == task' = [task EXCEPT ![w] = IdleTask]

Active == progress.phase \in {"waiting", "working"}
\* A caller queued behind the download of its own version leaves the row alone.
Observe(v, phase) ==
  progress' = IF phase = "waiting" /\ Active /\ progress.ver = v THEN progress
              ELSE [ver |-> v, phase |-> phase]

\* The job's own steps carry its id: they do nothing to another job's record.
Mine == job.id = push.id
SetState(state) == job' = IF Mine THEN [job EXCEPT !.state = state] ELSE job
FailJob ==
  /\ SetState("failed") /\ Ends("job") /\ push' = NoPush
  /\ UNCHANGED <<check, box, alerts>>

\* A download that is over: what its caller does next.
Settle(w, ok) ==
  \/ w \in Clicks /\ Ends(w) /\ UNCHANGED <<filled, rowVars>>
  \/ /\ w = "ensure" /\ Ends(w)
     /\ filled' = [state |-> IF ok THEN "ok" ELSE "failed",
                   ver |-> IF ok THEN task[w].ver ELSE NoVersion]
     /\ UNCHANGED rowVars
  \/ /\ w = "job" /\ UNCHANGED filled
     /\ IF ok THEN Goes(w, "listing") /\ UNCHANGED rowVars ELSE FailJob

(***************************************************************************)
(* Requests to download, and the cache that is empty.                      *)
(***************************************************************************)
\* The request looks at the binary and at the row, then writes the row.
ClickDownload(c, v) ==
  /\ At(c, "idle") /\ ~Cached(v) /\ ~(Active /\ progress.ver # v)
  /\ Spends
  /\ Begins(c, "asked", v)
  /\ UNCHANGED <<dir, lock, progress, filled, rowVars>>
ClickAccepted(c) ==
  /\ At(c, "asked")
  /\ Observe(task[c].ver, "working") /\ Goes(c, "looking")
  /\ UNCHANGED <<dir, lock, filled, rowVars, relSpent>>

\* The stable release, when nothing is there.  One such attempt at a time.
Ensure ==
  /\ At("ensure", "idle") /\ Spends
  /\ IF \E v \in Versions : Cached(v)
     THEN /\ \E v \in Versions : Cached(v) /\ filled' = [state |-> "ok", ver |-> v]
          /\ UNCHANGED task
     ELSE /\ filled' = [state |-> "pending", ver |-> NoVersion]
          /\ \E v \in Versions : Begins("ensure", "looking", v)
  /\ UNCHANGED <<dir, lock, progress, rowVars>>

\* The release is looked up in the upstream listing.  A click that fails here
\* has no installer that would close its row.
FailDownload(w) ==
  IF w \in Clicks THEN Observe(task[w].ver, "failed") ELSE UNCHANGED progress
LookUpRelease(w) ==
  /\ At(w, "looking")
  /\ \/ Goes(w, "arriving") /\ UNCHANGED <<progress, filled, rowVars>>
     \/ Settle(w, FALSE) /\ FailDownload(w)
  /\ UNCHANGED <<dir, lock, relSpent>>

(***************************************************************************)
(* Install: one at a time, published by a rename.                          *)
(***************************************************************************)
TryLock(w) ==
  /\ At(w, "arriving")
  /\ IF lock = Nobody THEN lock' = w /\ Goes(w, "locked") ELSE Goes(w, "behind") /\ UNCHANGED lock
  /\ UNCHANGED <<dir, progress, filled, rowVars, relSpent>>
ReportWaiting(w) ==
  /\ At(w, "behind")
  /\ Observe(task[w].ver, "waiting") /\ Goes(w, "queued")
  /\ UNCHANGED <<dir, lock, filled, rowVars, relSpent>>
TakeLock(w) ==
  /\ At(w, "queued") /\ lock = Nobody
  /\ lock' = w /\ Goes(w, "locked")
  /\ UNCHANGED <<dir, progress, filled, rowVars, relSpent>>
\* A directory of that name is somebody's success, whatever is in it, and no
\* phase is reported.
AlreadyThere(w) ==
  /\ At(w, "locked") /\ dir[task[w].ver] # "none"
  /\ lock' = Nobody /\ Settle(w, TRUE)
  /\ UNCHANGED <<dir, progress, relSpent>>
StartFetch(w) ==
  /\ At(w, "locked") /\ dir[task[w].ver] = "none"
  /\ Observe(task[w].ver, "working") /\ Goes(w, "fetching")
  /\ UNCHANGED <<dir, lock, filled, rowVars, relSpent>>
\* No asset, no checksum, a bad one, a broken archive, a full disk: the
\* temporary directory is gone, the row is closed.
FetchFails(w) ==
  /\ At(w, "fetching")
  /\ Observe(task[w].ver, "failed") /\ lock' = Nobody /\ Settle(w, FALSE)
  /\ UNCHANGED <<dir, relSpent>>
Publish(w) ==
  /\ At(w, "fetching") /\ dir[task[w].ver] = "none"
  /\ dir' = [dir EXCEPT ![task[w].ver] = "whole"]
  /\ Goes(w, "published")
  /\ UNCHANGED <<lock, progress, filled, rowVars, relSpent>>
ReportDone(w) ==
  /\ At(w, "published")
  /\ Observe(task[w].ver, "done") /\ lock' = Nobody /\ Settle(w, TRUE)
  /\ UNCHANGED <<dir, relSpent>>

\* Install, the release looked up before it included.
Installing(w) ==
  \/ LookUpRelease(w) \/ TryLock(w) \/ ReportWaiting(w) \/ TakeLock(w)
  \/ AlreadyThere(w) \/ StartFetch(w) \/ FetchFails(w) \/ Publish(w) \/ ReportDone(w)

(***************************************************************************)
(* Removing a version: what it is refused for is looked at first, and the  *)
(* lock of the installs is not taken.                                      *)
(***************************************************************************)
AskDelete(v) ==
  /\ At("delete", "idle") /\ Spends
  /\ ~InProgress  \* a version nodes want is refused only without `force`
  /\ Begins("delete", "removing", v)
  /\ UNCHANGED <<dir, lock, progress, filled, rowVars>>
\* The files go one by one.
RemoveFiles ==
  /\ At("delete", "removing") /\ Cached(task["delete"].ver)
  /\ dir' = [dir EXCEPT ![task["delete"].ver] = "torn"]
  /\ UNCHANGED <<lock, task, progress, filled, rowVars, relSpent>>
RemoveDirectory ==
  /\ At("delete", "removing") /\ ~Cached(task["delete"].ver)
  /\ dir' = [dir EXCEPT ![task["delete"].ver] = "none"]
  /\ Ends("delete")
  /\ UNCHANGED <<lock, progress, filled, rowVars, relSpent>>

(***************************************************************************)
(* The job.                                                                *)
(***************************************************************************)
\* Nodes with a version and no removal wanted.
ListTargets == {n \in Targets : box[n].desired # NoVersion /\ ~box[n].removed}
StartUpdate(v) ==
  /\ ~InProgress /\ ListTargets # {} /\ job.id < MaxJobs /\ Spends
  /\ job' = [NoJob EXCEPT !.id = job.id + 1, !.state = "pending", !.target = v]
  /\ push' = [NoPush EXCEPT !.id = job.id + 1]
  /\ Begins("job", "starting", v)
  /\ UNCHANGED <<dir, lock, progress, filled, check, box, alerts>>
\* "latest" has brought the release along.
RunJob ==
  /\ At("job", "starting") /\ SetState("downloading")
  /\ IF Cached(task["job"].ver) THEN Goes("job", "listing")
     ELSE Goes("job", "looking") \/ Goes("job", "arriving")
  /\ UNCHANGED <<dir, lock, progress, filled, push, check, box, alerts, relSpent>>
PushAll ==
  /\ At("job", "listing") /\ SetState("pushing")
  /\ push' = [push EXCEPT !.todo = {[node |-> n, listed |-> box[n]] : n \in ListTargets}]
  /\ Goes("job", "pushing")
  /\ UNCHANGED <<dir, lock, progress, filled, check, box, alerts, relSpent>>
Recorded(n, outcome) ==
  job' = IF Mine /\ outcome \in {"pushed", "offline_pending"} THEN [job EXCEPT !.moved = @ \cup {n}]
         ELSE job
\* A node that was on the target when the nodes were listed is left alone; for
\* another one the row is read, and written back as a whole.
PushOne ==
  /\ At("job", "pushing") /\ push.node = Nobody
  /\ \E t \in push.todo :
       LET rest == [push EXCEPT !.todo = @ \ {t}]
       IN  push' = IF t.listed.version = task["job"].ver /\ t.listed.desired = task["job"].ver
                   THEN rest ELSE [rest EXCEPT !.node = t.node, !.row = box[t.node]]
  /\ UNCHANGED <<dir, lock, task, progress, filled, job, check, box, alerts, relSpent>>
PushWrite ==
  /\ At("job", "pushing") /\ push.node # Nobody
  /\ LET n == push.node
     IN  /\ box' = [box EXCEPT ![n] = [push.row EXCEPT !.desired = task["job"].ver,
                                                       !.online = box[n].online]]
         /\ IF box[n].online THEN \E o \in {"pushed", "failed"} : Recorded(n, o)
            ELSE Recorded(n, "offline_pending")
  /\ push' = [push EXCEPT !.node = Nobody, !.row = NoRow]
  /\ UNCHANGED <<dir, lock, task, progress, filled, check, alerts, relSpent>>
ArmTimer(j) == check' = [check EXCEPT ![j] = IF @ = NoCheck THEN [@ EXCEPT !.pc = "armed"] ELSE @]
FinishJob ==
  /\ At("job", "pushing") /\ push.node = Nobody /\ push.todo = {}
  /\ job' = IF Mine THEN [job EXCEPT !.state = "done", !.due = TRUE] ELSE job
  /\ IF Mine THEN ArmTimer(push.id) ELSE UNCHANGED check
  /\ push' = NoPush /\ Ends("job")
  /\ UNCHANGED <<dir, lock, progress, filled, box, alerts, relSpent>>
JobSteps == RunJob \/ PushAll \/ PushOne \/ PushWrite \/ FinishJob

(***************************************************************************)
(* CheckConvergence, at the deadline: a copy of the job is filled in while *)
(* the rows are read, then takes its place.                                *)
(***************************************************************************)
Checks(j, pc) == check[j].pc = pc
CheckStarts(j) ==
  /\ Checks(j, "armed")
  /\ check' = [check EXCEPT ![j] =
       IF job.id # j \/ job.checked THEN NoCheck
       ELSE [pc |-> "reading", stale |-> {n \in job.moved : box[n].version # job.target},
             copy |-> job]]
  /\ UNCHANGED <<dir, lock, task, progress, filled, job, push, box, alerts, relSpent>>
\* Mutant: whatever job is stored.
ReplacesAny(j) == TRUE
Replaces(j) == job.id = j
CheckEnds(j) ==
  /\ Checks(j, "reading")
  /\ job' = IF Replaces(j)
            THEN [check[j].copy EXCEPT !.checked = TRUE, !.stale = check[j].stale] ELSE job
  /\ check' = [check EXCEPT ![j] = IF check[j].stale = {} THEN NoCheck
                                   ELSE [pc |-> "alerting", stale |-> check[j].stale]]
  /\ UNCHANGED <<dir, lock, task, progress, filled, push, box, alerts, relSpent>>
\* An alert of an earlier job that is still fresh stands for this one too.
RaiseStaleAlert(j) ==
  /\ Checks(j, "alerting")
  /\ \/ alerts' = alerts \cup {j}
     \/ alerts # {} /\ UNCHANGED alerts
  /\ job' = IF job.id = j THEN [job EXCEPT !.alerted = TRUE] ELSE job
  /\ check' = [check EXCEPT ![j] = NoCheck]
  /\ UNCHANGED <<dir, lock, task, progress, filled, push, box, relSpent>>
Check(j) == CheckStarts(j) \/ CheckEnds(j) \/ RaiseStaleAlert(j)

(***************************************************************************)
(* Meanwhile: probes converge, come and go, operators redirect a node.     *)
(***************************************************************************)
Turns(row) ==
  {[row EXCEPT !.online = ~@], [row EXCEPT !.desired = NoVersion, !.removed = TRUE]}
    \cup {[row EXCEPT !.desired = v, !.removed = FALSE] : v \in Versions}
    \cup (IF row.online THEN {[row EXCEPT !.version = row.desired]} ELSE {})
NodeTurn(n) ==
  /\ Spends
  /\ \E row \in Turns(box[n]) \ {box[n]} : box' = [box EXCEPT ![n] = row]
  /\ UNCHANGED <<dir, lock, task, progress, filled, job, push, check, alerts>>

(***************************************************************************)
(* A restart drops every goroutine.  A job that was running is failed, one *)
(* that awaits its check is armed again, an empty cache is filled.         *)
(***************************************************************************)
\* Mutant: the timer of the earlier process is relied upon.
RearmsNever(j) == FALSE
Rearms(j) == j = job.id /\ job.due /\ ~job.checked
Interrupted == IF InProgress THEN [job EXCEPT !.state = "failed"] ELSE job
PanelRestarts ==
  /\ Spends
  /\ lock' = Nobody /\ push' = NoPush
  /\ progress' = [ver |-> NoVersion, phase |-> "none"]
  /\ job' = Interrupted
  /\ check' = [j \in 1..MaxJobs |-> IF Rearms(j) THEN [NoCheck EXCEPT !.pc = "armed"] ELSE NoCheck]
  /\ LET warm == {v \in Versions : Cached(v)}
         fresh == [w \in Workers |-> IdleTask]
     IN  IF warm # {}
         THEN /\ \E v \in warm : filled' = [state |-> "ok", ver |-> v]
              /\ task' = fresh
         ELSE /\ filled' = [state |-> "pending", ver |-> NoVersion]
              /\ \E v \in Versions :
                   task' = [fresh EXCEPT !["ensure"] = [pc |-> "looking", ver |-> v]]
  /\ UNCHANGED <<dir, box, alerts>>

ReleaseNext ==
  \/ \E c \in Clicks : ClickAccepted(c) \/ \E v \in Versions : ClickDownload(c, v)
  \/ Ensure
  \/ \E w \in Workers \ {"delete"} : Installing(w)
  \/ (\E v \in Versions : AskDelete(v)) \/ RemoveFiles \/ RemoveDirectory
  \/ (\E v \in Versions : StartUpdate(v)) \/ JobSteps
  \/ \E j \in 1..MaxJobs : Check(j)
  \/ \E n \in Targets : NodeTurn(n)
  \/ PanelRestarts
ReleaseSpec == ReleaseInit /\ [][ReleaseNext]_releaseVars

\* Goroutines run, requests of the downloader time out, timers fire.  A lock
\* that is released again and again is got in the end.
ReleaseFairness ==
  /\ \A w \in Workers \ {"delete"} :
       WF_releaseVars(Installing(w)) /\ SF_releaseVars(TakeLock(w))
  /\ \A c \in Clicks : WF_releaseVars(ClickAccepted(c))
  /\ WF_releaseVars(JobSteps)
  /\ \A j \in 1..MaxJobs : WF_releaseVars(Check(j))

(***************************************************************************)
(* Properties.                                                             *)
(***************************************************************************)
\* The record says that a distribution runs exactly while its goroutine runs:
\* an earlier job's check does not put its own record over the running job's,
\* and a restart leaves none that nobody carries on (singboxupdate.go:309-333,
\* 512-574).
OneDistribution == InProgress <=> ~At("job", "idle")

\* Every distribution ends, and one that ended well is checked against what the
\* nodes report unless another takes its place, restarts in between or not
\* (singboxupdate.go:380-455, 512-574, 624-660).
DistributionSettles ==
  \A j \in 1..MaxJobs :
    (job.id = j) ~> (job.id # j \/ job.state = "failed" \/ (job.state = "done" /\ job.checked))
=============================================================================
