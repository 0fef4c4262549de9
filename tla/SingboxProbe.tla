--------------------------- MODULE SingboxProbe ----------------------------
(***************************************************************************)
(* The sing-box manager of one probe (internal/agent/singbox*.go), on a    *)
(* host with a service manager.  The read loop of a session stores what    *)
(* the panel declares; one goroutine converges: download, write, the three *)
(* gates, and a rollback when one of them fails.  The session, commands    *)
(* and the service itself interleave with every step of a round.           *)
(*                                                                         *)
(* A binary is its version, a config its content.  Ports, the firewall,    *)
(* the certificate files and the discovery of foreign installations are    *)
(* left out; a gate or a download may fail for reasons of its own.         *)
(***************************************************************************)
EXTENDS Integers, FiniteSets

CONSTANTS Versions, \* sing-box versions
          Configs,  \* contents of config.json
          None,     \* no version, no config, no such file, no process
          Loads,    \* <<version, config>>: what the version accepts
          Faults,   \* which of the kinds named below may happen
          MaxFaults \* how many of them (a bound)

ASSUME NoneAssumption == None \notin Versions /\ None \notin Configs
ASSUME LoadsAssumption == Loads \subseteq Versions \X Configs
ASSUME MaxFaultsAssumption == MaxFaults \in Nat

VARIABLES
  desired,  \* the declaration to converge to; Unmanaged is nil
  removing, \* desiredUninstall
  lastErr,  \* the sticky error of the reports
  snapshot, \* the state the next frame carries; NoState is nil
  kick,     \* the channel that wakes the loop
  bin, binPrev, cfg, cfgPrev, \* the files, with their .prev
  served,   \* <<version, config>> the running process has loaded
  step,     \* where the round is
  job,      \* its declaration and what it has to change
  found,    \* history: the files when the round began
  replaced, \* history: which of them the round has replaced
  faults

memory == <<desired, removing, lastErr, snapshot, kick>>
disk == <<bin, binPrev, cfg, cfgPrev>>
round == <<step, job, found, replaced>>
probe == <<memory, disk, served, round, faults>>

Declaration(version, config) == [version |-> version, config |-> config]
Unmanaged == Declaration(None, None)
Declarations == {Declaration(v, c) : v \in Versions \cup {None}, c \in Configs \cup {None}}

State(version, running, failed, cert) ==
  [known |-> TRUE, installed |-> version # None, running |-> running,
   failed |-> failed, cert |-> cert]
NoState == [known |-> FALSE, installed |-> FALSE, running |-> FALSE, failed |-> FALSE, cert |-> FALSE]

Job(want, install, rewrite) == [want |-> want, install |-> install, rewrite |-> rewrite]
NoJob == Job(Unmanaged, FALSE, FALSE)
Changes(j) == j.install \/ j.rewrite

Files == [bin |-> bin, cfg |-> cfg]
NoFiles == [bin |-> None, cfg |-> None]

ProbeInit ==
  /\ desired = Unmanaged /\ removing = FALSE /\ lastErr = FALSE
  /\ snapshot = NoState /\ kick = FALSE
  /\ bin = None /\ binPrev = None /\ cfg = None /\ cfgPrev = None
  /\ served = None
  /\ step = "idle" /\ job = NoJob /\ found = NoFiles /\ replaced = {}
  /\ faults = 0

\* Something fails, or an operator or the host interferes.
Fault(kind) == kind \in Faults /\ faults < MaxFaults /\ faults' = faults + 1

\* What a process started now would serve.
Loaded(b, c) == IF <<b, c>> \in Loads THEN <<b, c>> ELSE None

(***************************************************************************)
(* What reaches the manager from outside its loop.                         *)
(***************************************************************************)
\* SetDesired: a removal leaves the declaration alone; another version
\* invalidates the stored error.
SetDesired(remove, d) ==
  /\ removing' = remove
  /\ desired' = IF remove THEN desired ELSE d
  /\ lastErr' = IF ~remove /\ d # Unmanaged
                   /\ (desired = Unmanaged \/ desired.version # d.version)
                  THEN FALSE ELSE lastErr
  /\ kick' = TRUE
  /\ UNCHANGED <<snapshot, disk, served, round, faults>>

\* restart_singbox, start_singbox and stop_singbox end with a nudge.
ServiceCommand ==
  /\ Fault("command")
  /\ served' \in {None, Loaded(bin, cfg)}
  /\ kick' = TRUE
  /\ UNCHANGED <<desired, removing, lastErr, snapshot, disk, round>>

\* The process dies; the service manager may have started it again.
Dies ==
  /\ Fault("death")
  /\ served # None /\ served' \in {None, Loaded(bin, cfg)}
  /\ UNCHANGED <<memory, disk, round>>

\* The agent restarts or replaces itself: the files and the service stay.
AgentRestarts ==
  /\ Fault("restart")
  /\ desired' = Unmanaged /\ removing' = FALSE /\ lastErr' = FALSE
  /\ snapshot' = NoState /\ kick' = FALSE
  /\ step' = "idle" /\ job' = NoJob /\ found' = NoFiles /\ replaced' = {}
  /\ UNCHANGED <<disk, served>>

(***************************************************************************)
(* Run and converge.                                                       *)
(***************************************************************************)
Report(version, running, failed, cert) ==
  /\ lastErr' = failed
  /\ snapshot' = State(version, running, failed, cert)

Ends == step' = "idle" /\ job' = NoJob /\ found' = NoFiles /\ replaced' = {}
Goes(to) == step' = to /\ UNCHANGED <<job, found>>

\* A nudge, or a tick on which needWatch answers yes.
NeedWatch == removing \/ (desired # Unmanaged /\ (served = None \/ bin # desired.version))
Woken ==
  /\ step = "idle"
  /\ \/ kick /\ kick' = FALSE
     \/ NeedWatch /\ UNCHANGED kick

NeedInstall == desired.version # None /\ bin # desired.version
NeedConfig == desired.config # None /\ cfg # desired.config

ConvergeNothing ==
  /\ Woken /\ ~removing /\ desired = Unmanaged
  /\ UNCHANGED <<desired, removing, lastErr, snapshot, disk, served, round, faults>>

ConvergeRemoval ==
  /\ Woken /\ removing
  /\ Goes("remove")
  /\ UNCHANGED <<desired, removing, lastErr, snapshot, disk, served, replaced, faults>>

\* The certificate cannot be made, or the disk is too full for an install.
ConvergeRefused ==
  /\ Woken /\ ~removing /\ desired # Unmanaged
  /\ Fault("refusal")
  /\ \E cert \in BOOLEAN : Report(bin, served # None, TRUE, cert)
  /\ UNCHANGED <<desired, removing, disk, served, round>>

ConvergeChanges ==
  /\ Woken /\ ~removing /\ desired # Unmanaged
  /\ NeedInstall \/ NeedConfig
  /\ step' = IF NeedInstall THEN "download" ELSE "write"
  /\ job' = Job(desired, NeedInstall, NeedConfig)
  /\ found' = Files /\ replaced' = {}
  /\ UNCHANGED <<desired, removing, lastErr, snapshot, disk, served, faults>>

\* Version and config are in place: report, or bring the service up.
InPlace == Woken /\ ~removing /\ desired # Unmanaged /\ ~NeedInstall /\ ~NeedConfig
ConvergeInPlace ==
  /\ InPlace
  /\ served # None \/ <<bin, cfg>> \notin Loads
  /\ Report(bin, served # None, served = None, TRUE)
  /\ UNCHANGED <<desired, removing, disk, served, round, faults>>
ConvergeStart ==
  /\ InPlace
  /\ served = None /\ <<bin, cfg>> \in Loads
  /\ step' = "start" /\ job' = Job(desired, FALSE, FALSE)
  /\ found' = Files /\ replaced' = {}
  /\ UNCHANGED <<desired, removing, lastErr, snapshot, disk, served, faults>>

Converge ==
  \/ ConvergeNothing \/ ConvergeRemoval \/ ConvergeRefused
  \/ ConvergeChanges \/ ConvergeInPlace \/ ConvergeStart

\* A tick without work, or within the backoff.
ReportOnly ==
  /\ step = "idle" /\ desired # Unmanaged
  /\ Report(bin, served # None, lastErr /\ ~(served # None /\ bin = desired.version), TRUE)
  /\ UNCHANGED <<desired, removing, kick, disk, served, round, faults>>

(***************************************************************************)
(* apply and rollback.                                                     *)
(***************************************************************************)
\* installArtifact: the verified download is there, the old binary moves aside.
Fetch ==
  /\ step = "download"
  /\ binPrev' = IF bin # None THEN bin ELSE binPrev
  /\ bin' = None
  /\ replaced' = replaced \cup {"bin"}
  /\ Goes("place")
  /\ UNCHANGED <<memory, cfg, cfgPrev, served, faults>>
Place ==
  /\ step = "place"
  /\ bin' = job.want.version
  /\ Goes("write")
  /\ UNCHANGED <<memory, binPrev, cfg, cfgPrev, served, replaced, faults>>

\* Mutant: the first backup is kept.
BackupOnce == cfgPrev = None
BacksUp == cfg \notin {None, job.want.config}
Write ==
  /\ step = "write"
  /\ IF job.want.config = None
       THEN UNCHANGED <<cfg, cfgPrev, replaced>>
       ELSE /\ cfgPrev' = IF BacksUp THEN cfg ELSE cfgPrev
            /\ cfg' = job.want.config
            /\ replaced' = replaced \cup {"cfg"}
  /\ Goes("check")
  /\ UNCHANGED <<memory, bin, binPrev, served, faults>>

Check ==
  /\ step = "check"
  /\ Goes(IF <<bin, cfg>> \in Loads THEN "start" ELSE "rollback")
  /\ UNCHANGED <<memory, disk, served, replaced, faults>>

Restarted == Loaded(bin, cfg)
Start ==
  /\ step = "start"
  /\ served' = Restarted
  /\ Goes("verify")
  /\ UNCHANGED <<memory, disk, replaced, faults>>

\* Without a change a failed start is only reported.
StartFails ==
  /\ step = "start" /\ ~Changes(job) /\ Fault("failure")
  /\ Report(bin, FALSE, TRUE, TRUE)
  /\ Ends
  /\ UNCHANGED <<desired, removing, kick, disk, served>>

Verify ==
  /\ step = "verify" /\ served # None
  /\ Report(IF Changes(job) THEN job.want.version ELSE bin, TRUE, FALSE, TRUE)
  /\ Ends
  /\ UNCHANGED <<desired, removing, kick, disk, served, faults>>
VerifyDead ==
  /\ step = "verify" /\ served = None
  /\ Goes("rollback")
  /\ UNCHANGED <<memory, disk, served, replaced, faults>>

\* A download, a write, a start or the observation of the ports fails.
RoundFails ==
  /\ step \in {"download", "place", "write", "verify"} \/ (step = "start" /\ Changes(job))
  /\ Fault("failure")
  /\ Goes("rollback")
  /\ UNCHANGED <<memory, disk, served, replaced>>

\* restoreFile of what the round meant to change, and a start of the result.
Rollback ==
  /\ step = "rollback"
  /\ LET backBin == job.install /\ binPrev # None
         backCfg == job.rewrite /\ cfgPrev # None
     IN /\ bin' = IF backBin THEN binPrev ELSE bin
        /\ binPrev' = IF backBin THEN None ELSE binPrev
        /\ cfg' = IF backCfg THEN cfgPrev ELSE cfg
        /\ cfgPrev' = IF backCfg THEN None ELSE cfgPrev
  /\ served' = Loaded(bin', cfg')
  /\ Report(bin', served' # None, TRUE, TRUE)
  /\ Ends
  /\ UNCHANGED <<desired, removing, kick, faults>>

(***************************************************************************)
(* uninstall.                                                              *)
(***************************************************************************)
Remove ==
  /\ step = "remove"
  /\ bin' = None /\ binPrev' = None /\ cfg' = None /\ cfgPrev' = None
  /\ served' = None
  /\ Goes("removed")
  /\ UNCHANGED <<memory, replaced, faults>>

\* Some file or the service is left: the wish stays, the next tick tries again.
RemoveFails ==
  /\ step = "remove" /\ Fault("failure")
  /\ bin' \in {bin, None} /\ binPrev' \in {binPrev, None}
  /\ cfg' \in {cfg, None} /\ cfgPrev' \in {cfgPrev, None}
  /\ served' \in {served, None}
  /\ Report(bin', served' # None, TRUE, FALSE)
  /\ Ends
  /\ UNCHANGED <<desired, removing, kick>>

\* The wish is dropped with whatever was declared meanwhile.
Removed ==
  /\ step = "removed"
  /\ desired' = Unmanaged /\ removing' = FALSE
  /\ Report(None, FALSE, FALSE, FALSE)
  /\ Ends
  /\ UNCHANGED <<kick, disk, served, faults>>

Round ==
  \/ Fetch \/ Place \/ Write \/ Check \/ Start \/ StartFails
  \/ Verify \/ VerifyDead \/ RoundFails \/ Rollback
  \/ Remove \/ RemoveFails \/ Removed

ProbeNext ==
  \/ \E remove \in BOOLEAN, d \in Declarations : SetDesired(remove, d)
  \/ ServiceCommand \/ Dies \/ AgentRestarts
  \/ Converge \/ ReportOnly
  \/ Round

ProbeSpec == ProbeInit /\ [][ProbeNext]_probe

(***************************************************************************)
(* Properties.                                                             *)
(***************************************************************************)
Steps == {"idle", "download", "place", "write", "check", "start", "verify", "rollback",
          "remove", "removed"}

States == [known : BOOLEAN, installed : BOOLEAN, running : BOOLEAN,
           failed : BOOLEAN, cert : BOOLEAN]

ProbeTypeOK ==
  /\ desired \in Declarations
  /\ removing \in BOOLEAN /\ lastErr \in BOOLEAN /\ kick \in BOOLEAN
  /\ snapshot \in States
  /\ {bin, binPrev} \subseteq Versions \cup {None}
  /\ {cfg, cfgPrev} \subseteq Configs \cup {None}
  /\ served \in Loads \cup {None}
  /\ step \in Steps
  /\ job \in [want : Declarations, install : BOOLEAN, rewrite : BOOLEAN]
  /\ found \in [bin : Versions \cup {None}, cfg : Configs \cup {None}]
  /\ replaced \subseteq {"bin", "cfg"}
  /\ faults \in 0..MaxFaults

\* A rollback (design 9.2) gives back every file the round has replaced, also
\* when the round follows one that an agent restart cut short.
GivesBack(file) ==
  file \in replaced /\ found[file] # None => Files[file]' = found[file]
RollbackRestores ==
  [][step = "rollback" /\ step' = "idle" /\ snapshot'.known
       => GivesBack("bin") /\ GivesBack("cfg")]_probe
=============================================================================
