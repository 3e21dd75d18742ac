---------------------------- MODULE SparkGuard ----------------------------
(***************************************************************************)
(* The host-memory guard of a Spark node and the two launchers that arm    *)
(* it: watch_spark_memory.py, start_spark_node.sh and release/run.py       *)
(* (start, restart, stop, remove).                                         *)
(*                                                                         *)
(* One container name is in use; slot is the container that holds it.      *)
(* Docker answers, times out or fails on its own; memory pressure comes    *)
(* and goes; the launcher may be killed; the host may reboot, after which  *)
(* process ids are handed out again from the start.                        *)
(***************************************************************************)
EXTENDS Naturals

CONSTANTS
  MaxContainers,  \* bound on containers ever created
  MaxPids,        \* bound on guards started between two boots
  MaxReboots,     \* bound on host reboots
  InspectErrors   \* docker inspect may fail while the container runs

ASSUME GuardAssumption ==
  /\ MaxContainers \in Nat /\ MaxPids \in Nat /\ MaxReboots \in Nat
  /\ InspectErrors \in BOOLEAN

VARIABLES
  slot,     \* container holding the name, 0 for none
  up,       \* running containers
  made,     \* containers created so far
  mem,      \* MemAvailable against the threshold
  gpc,      \* guard process: "none" when the pid is not one
  gid,      \* the container id it is bound to
  low,      \* its low_samples, up to the 3 that trigger a kill
  ready,    \* the guards with ready_written set
  markers,  \* pids with a memory-watch-ready-<pid> file
  left,     \* history: those of markers that an earlier boot has left
  pidfile,  \* memory-watch.pid
  lpc,      \* the launcher
  lguard,   \* the guard it has started
  pids,     \* last pid handed out
  outcome,  \* how the last launch ended
  reboots

docker == <<slot, up, made>>
guards == <<gpc, gid, low, ready>>
launcher == <<lpc, lguard, outcome>>
guardVars == <<docker, mem, guards, markers, left, pidfile, launcher, pids, reboots>>

Pids == 1..MaxPids
Live == {p \in Pids : gpc[p] # "none"}

GuardInit ==
  /\ slot = 0 /\ up = {} /\ made = 0
  /\ mem = "ok"
  /\ gpc = [p \in Pids |-> "none"]
  /\ gid = [p \in Pids |-> 0]
  /\ low = [p \in Pids |-> 0]
  /\ ready = {}
  /\ markers = {} /\ left = {} /\ pidfile = 0
  /\ lpc = "idle" /\ lguard = 0 /\ outcome = "none"
  /\ pids = 0 /\ reboots = 0

-----------------------------------------------------------------------------
(* The guard, watch_spark_memory.py.                                       *)

\* Mutant: the readiness marker is written before the first sample.
BindMarksReady(p) ==
  /\ gpc[p] = "bind"
  /\ slot # 0
  /\ gid' = [gid EXCEPT ![p] = slot]
  /\ gpc' = [gpc EXCEPT ![p] = "inspect"]
  /\ markers' = markers \cup {p}
  /\ UNCHANGED <<docker, mem, low, ready, left, pidfile, launcher, pids, reboots>>

\* The container's id is looked up once, by name; failing or late, the guard ends.
Bind(p) ==
  /\ gpc[p] = "bind"
  /\ \/ /\ slot # 0
        /\ gid' = [gid EXCEPT ![p] = slot]
        /\ gpc' = [gpc EXCEPT ![p] = "inspect"]
     \/ /\ gpc' = [gpc EXCEPT ![p] = "none"]
        /\ UNCHANGED gid
  /\ UNCHANGED <<docker, mem, low, ready, markers, left, pidfile, launcher, pids, reboots>>

\* Mutant: a timeout ends the guard like a stopped container.
InspectTimeoutExits(p) ==
  /\ gpc[p] = "inspect"
  /\ \/ gid[p] \in up /\ gpc' = [gpc EXCEPT ![p] = "sample"]
     \/ gpc' = [gpc EXCEPT ![p] = "none"]
  /\ UNCHANGED <<docker, mem, gid, low, ready, markers, left, pidfile, launcher, pids, reboots>>

\* docker inspect: a timeout leaves the state unknown, any other failure counts
\* as a stopped container.
Inspect(p) ==
  /\ gpc[p] = "inspect"
  /\ \/ gid[p] \in up /\ gpc' = [gpc EXCEPT ![p] = "sample"]
     \/ gpc' = [gpc EXCEPT ![p] = "blind"]
     \/ (gid[p] \notin up \/ InspectErrors) /\ gpc' = [gpc EXCEPT ![p] = "none"]
  /\ UNCHANGED <<docker, mem, gid, low, ready, markers, left, pidfile, launcher, pids, reboots>>

\* Mutant: the count of low samples starts again whenever docker did not answer.
LowSamplesReset(p) == IF mem = "ok" \/ gpc[p] = "blind" THEN 0 ELSE IF low[p] < 3 THEN low[p] + 1 ELSE 3

\* low_samples after one more sample
LowSamples(p) == IF mem = "ok" THEN 0 ELSE IF low[p] < 3 THEN low[p] + 1 ELSE 3

Arming(p) == p \notin ready /\ gpc[p] = "sample"

\* The first sample taken of a running container arms the guard, or ends it.
Sample(p) ==
  /\ gpc[p] \in {"sample", "blind"}
  /\ \/ /\ Arming(p) /\ mem = "low"
        /\ gpc' = [gpc EXCEPT ![p] = "abort"]
        /\ UNCHANGED <<low, ready, markers>>
     \/ /\ Arming(p) => mem = "ok"
        /\ low' = [low EXCEPT ![p] = LowSamples(p)]
        /\ gpc' = [gpc EXCEPT ![p] = IF LowSamples(p) = 3 THEN "kill" ELSE "inspect"]
        /\ IF Arming(p)
             THEN ready' = ready \cup {p} /\ markers' = markers \cup {p}
             ELSE UNCHANGED <<ready, markers>>
  /\ UNCHANGED <<docker, mem, gid, left, pidfile, launcher, pids, reboots>>

\* docker kill by id: the guard ends with a success and samples on otherwise.
Kill(p) ==
  /\ gpc[p] = "kill"
  /\ \/ /\ gid[p] \in up
        /\ up' = up \ {gid[p]}
        /\ gpc' = [gpc EXCEPT ![p] = "none"]
     \/ /\ gpc' = [gpc EXCEPT ![p] = "inspect"]
        /\ UNCHANGED up
  /\ UNCHANGED <<slot, made, mem, gid, low, ready, markers, left, pidfile, launcher, pids, reboots>>

\* "Insufficient initial headroom": the guard ends whatever the kill did.
Abort(p) ==
  /\ gpc[p] = "abort"
  /\ up' \in {up, up \ {gid[p]}}
  /\ gpc' = [gpc EXCEPT ![p] = "none"]
  /\ UNCHANGED <<slot, made, mem, gid, low, ready, markers, left, pidfile, launcher, pids, reboots>>

GuardStep(p) == Bind(p) \/ Inspect(p) \/ Sample(p) \/ Kill(p) \/ Abort(p)

-----------------------------------------------------------------------------
(* The launchers: run.py start hands over to start_spark_node.sh, restart   *)
(* is run.py's own.  Both check the headroom before they touch anything.    *)

StartContainer ==
  /\ lpc = "idle" /\ slot = 0
  /\ made < MaxContainers
  /\ mem = "ok"
  /\ lpc' = "run" /\ outcome' = "pending"
  /\ UNCHANGED <<docker, mem, guards, markers, left, pidfile, lguard, pids, reboots>>

\* docker run; a failure may leave the container created but not started
RunContainer ==
  /\ lpc = "run"
  /\ slot' = made + 1 /\ made' = made + 1
  /\ \/ up' = up \cup {slot'} /\ lpc' = "spawn" /\ UNCHANGED outcome
     \/ lpc' = "idle" /\ outcome' = "failed" /\ UNCHANGED up
  /\ UNCHANGED <<mem, guards, markers, left, pidfile, lguard, pids, reboots>>

\* docker restart stops the container first
Restart ==
  /\ lpc = "idle" /\ slot # 0
  /\ mem = "ok"
  /\ up' = up \ {slot}
  /\ lpc' = "restarting" /\ outcome' = "pending"
  /\ UNCHANGED <<slot, made, mem, guards, markers, left, pidfile, lguard, pids, reboots>>

\* ... and starts it again; a failure or timeout tells nothing of its state
Restarted ==
  /\ lpc = "restarting"
  /\ \/ up' = up \cup {slot} /\ lpc' = "spawn"
     \/ up' \in {up, up \cup {slot}} /\ lpc' = "kill"
  /\ UNCHANGED <<slot, made, mem, guards, markers, left, pidfile, lguard, outcome, pids, reboots>>

Spawn ==
  /\ lpc = "spawn"
  /\ pids < MaxPids
  /\ pids' = pids + 1 /\ lguard' = pids'
  /\ gpc' = [gpc EXCEPT ![pids'] = "bind"]
  /\ lpc' = "record"
  /\ UNCHANGED <<docker, mem, gid, low, ready, markers, left, pidfile, outcome, reboots>>

Record ==
  /\ lpc = "record"
  /\ pidfile' = lguard
  /\ lpc' = "poll"
  /\ UNCHANGED <<docker, mem, guards, markers, left, lguard, outcome, pids, reboots>>

\* Readiness is polled: is the guard alive, ...
Poll ==
  /\ lpc = "poll"
  /\ lpc' = IF lguard \in Live THEN "look" ELSE "kill"
  /\ UNCHANGED <<docker, mem, guards, markers, left, pidfile, lguard, outcome, pids, reboots>>

\* Mutant: running out of time reports a failure but leaves the container.
LookGivesUp ==
  /\ lpc = "look"
  /\ IF lguard \in markers
       THEN markers' = markers \ {lguard} /\ lpc' = "idle" /\ outcome' = "started"
       ELSE \/ lpc' = "poll" /\ UNCHANGED <<markers, outcome>>
            \/ lpc' = "idle" /\ outcome' = "failed" /\ UNCHANGED markers
  /\ left' = left \cap markers'
  /\ UNCHANGED <<docker, mem, guards, pidfile, lguard, pids, reboots>>

\* ... is its marker there, or has the time run out
Look ==
  /\ lpc = "look"
  /\ IF lguard \in markers
       THEN markers' = markers \ {lguard} /\ lpc' = "idle" /\ outcome' = "started"
       ELSE lpc' \in {"poll", "kill"} /\ UNCHANGED <<markers, outcome>>
  /\ left' = left \cap markers'
  /\ UNCHANGED <<docker, mem, guards, pidfile, lguard, pids, reboots>>

\* docker kill by name; its failure is not looked at
StopUnready ==
  /\ lpc = "kill"
  /\ lpc' = "idle"
  /\ \/ up' = up \ {slot} /\ outcome' = "failed"
     \/ UNCHANGED up /\ outcome' = "unknown"
  /\ UNCHANGED <<slot, made, mem, guards, markers, left, pidfile, lguard, pids, reboots>>

Stop ==
  /\ lpc = "idle" /\ slot \in up
  /\ up' = up \ {slot}
  /\ UNCHANGED <<slot, made, mem, guards, markers, left, pidfile, launcher, pids, reboots>>

RemoveContainer ==
  /\ lpc = "idle" /\ slot # 0 /\ slot \notin up
  /\ slot' = 0
  /\ UNCHANGED <<up, made, mem, guards, markers, left, pidfile, launcher, pids, reboots>>

LauncherStep ==
  \/ StartContainer \/ RunContainer \/ Restart \/ Restarted \/ Spawn \/ Record
  \/ Poll \/ Look \/ StopUnready \/ Stop \/ RemoveContainer

-----------------------------------------------------------------------------
(* The world around them.                                                  *)

MemoryChanges ==
  /\ mem' = IF mem = "ok" THEN "low" ELSE "ok"
  /\ UNCHANGED <<docker, guards, markers, left, pidfile, launcher, pids, reboots>>

ContainerExits ==
  /\ slot \in up
  /\ up' = up \ {slot}
  /\ UNCHANGED <<slot, made, mem, guards, markers, left, pidfile, launcher, pids, reboots>>

\* The launcher is killed; the container and the guard run on.
LauncherDies ==
  /\ lpc # "idle"
  /\ lpc' = "idle" /\ outcome' = "unknown"
  /\ UNCHANGED <<docker, mem, guards, markers, left, pidfile, lguard, pids, reboots>>

Reboot ==
  /\ reboots < MaxReboots
  /\ reboots' = reboots + 1
  /\ up' = {} /\ pids' = 0
  /\ gpc' = [p \in Pids |-> "none"]
  /\ gid' = [p \in Pids |-> 0]
  /\ low' = [p \in Pids |-> 0]
  /\ ready' = {}
  /\ lpc' = "idle" /\ lguard' = 0 /\ outcome' = "unknown"
  /\ left' = markers
  /\ UNCHANGED <<slot, made, mem, markers, pidfile>>

Environment == MemoryChanges \/ ContainerExits \/ LauncherDies

BootNext == LauncherStep \/ (\E p \in Pids : GuardStep(p)) \/ Environment

GuardNext == BootNext \/ Reboot

\* Guards keep running, and docker kill does not fail for ever.
Fairness ==
  \A p \in Pids :
    /\ WF_guardVars(GuardStep(p))
    /\ SF_guardVars(Kill(p) /\ gpc'[p] = "none")

GuardSpec == GuardInit /\ [][GuardNext]_guardVars /\ Fairness

\* From one boot of the host to the next.
BootSpec == GuardInit /\ [][BootNext]_guardVars /\ Fairness

-----------------------------------------------------------------------------

TypeOK ==
  /\ slot \in 0..MaxContainers
  /\ up \subseteq 1..MaxContainers
  /\ made \in 0..MaxContainers
  /\ mem \in {"ok", "low"}
  /\ gpc \in [Pids -> {"none", "bind", "inspect", "sample", "blind", "kill", "abort"}]
  /\ gid \in [Pids -> 0..MaxContainers]
  /\ low \in [Pids -> 0..3]
  /\ ready \subseteq Pids
  /\ markers \subseteq Pids /\ left \subseteq markers
  /\ pidfile \in 0..MaxPids /\ lguard \in 0..MaxPids /\ pids \in 0..MaxPids
  /\ lpc \in {"idle", "run", "restarting", "spawn", "record", "poll", "look", "kill"}
  /\ lpc = "run" => made < MaxContainers
  /\ lpc = "restarting" => slot # 0
  /\ outcome \in {"none", "pending", "started", "failed", "unknown"}
  /\ reboots \in 0..MaxReboots

\* A container whose launch was reported successful is watched, for as long as
\* it runs, by the guard that memory-watch.pid names: through timeouts of docker
\* inspect, failed kills and guards left over from before a restart.
Guarded ==
  outcome = "started" /\ slot \in up => pidfile \in Live /\ gid[pidfile] = slot

\* Success is reported when the launcher's own guard has sampled the container it
\* reports, and otherwise only on a marker with the guard's process id that an earlier
\* boot has left: no other guard's marker, no earlier launch of this boot and no
\* container of the same name can stand in for the sample.
ReadyUnlessLeftOver ==
  [][outcome # "started" /\ outcome' = "started" =>
       lguard \in left \/ (lguard \in ready /\ gid[lguard] = slot)]_guardVars

\* "requires a successful initial memory sample before reporting success"
\* (serving/release/README.md:12-13; run.py:330 "Require a successful initial memory
\* sample, not just a process PID"): success is never taken from a marker that the
\* launcher's own guard has not written, whatever was left in the directory.
ReadyMeansSampled ==
  [][outcome # "started" /\ outcome' = "started" => lguard \in ready]_guardVars

\* "If readiness cannot be established within ten seconds, the container is
\* killed" (serving/release/README.md:17): a launch that failed and whose kill
\* got through leaves nothing running.
FailedLaunchStopped == outcome = "failed" => slot \notin up

\* "The monitor stops its container after three one-second samples below the
\* threshold" (serving/release/README.md:13): under lasting memory pressure no
\* container that was reported started goes on running, docker's timeouts and
\* failed kills notwithstanding.
PressureRelieved ==
  <>[](mem = "low") => <>[](outcome = "started" => slot \notin up)

-----------------------------------------------------------------------------
(* The inductive invariants: ReportInv is behind ReadyUnlessLeftOver and    *)
(* holds across reboots, GuardInv is behind Guarded, for one boot.          *)

\* A pid not handed out yet has no history.
FreshPids == \A p \in Pids : p > pids => gpc[p] = "none" /\ p \notin ready

Polling == lpc \in {"record", "poll", "look"}

\* A marker is a guard's of this boot or was left by an earlier one; a guard that has
\* sampled while it is waited for has sampled the container in use.
ReportInv ==
  /\ TypeOK /\ FreshPids
  /\ markers \subseteq ready \cup left
  /\ \A p \in ready : gpc[p] # "bind"
  /\ Polling => lguard \in 1..pids
  /\ Polling /\ (lguard \in ready \/ gpc[lguard] \notin {"none", "bind"}) => gid[lguard] = slot

\* Every marker was written by its own guard, after it was bound and armed.
MarkersEarned ==
  /\ markers \subseteq ready
  /\ \A p \in ready : gpc[p] \notin {"bind", "abort"}

\* What the launcher knows of the guard it has started.
LauncherInv ==
  /\ Polling => lguard \in 1..pids
  /\ lpc \in {"poll", "look"} => pidfile = lguard
  /\ lpc # "idle" => outcome = "pending"
  /\ outcome = "started" => lguard \in 1..pids /\ pidfile = lguard /\ lguard \in ready

\* Bound guards are bound to the container in use; an armed one outlives it.
WatchInv ==
  /\ Polling /\ gpc[lguard] \notin {"none", "bind"} => gid[lguard] = slot
  /\ (Polling \/ outcome = "started") /\ slot \in up /\ lguard \in ready =>
       gpc[lguard] # "none" /\ gid[lguard] = slot

GuardInv == TypeOK /\ FreshPids /\ MarkersEarned /\ LauncherInv /\ WatchInv

=============================================================================
