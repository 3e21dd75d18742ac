-------------------------- MODULE SparkGuardProofs --------------------------
(***************************************************************************)
(* Proofs about SparkGuard for any number of containers, guards and        *)
(* reboots.  What a reported success rests on is ReportInv, which holds    *)
(* across reboots and says when the marker was another boot's; that a      *)
(* started container stays watched rests on GuardInv and holds for one     *)
(* boot of the host: a reboot hands out the same process ids again, and a  *)
(* marker left by an earlier guard then counts for a later one.            *)
(***************************************************************************)
EXTENDS SparkGuard, TLAPS

\* The conjuncts of GuardNext, one name each, as the step lemmas split them.
LEMMA Steps ==
  ASSUME [GuardNext]_guardVars
  PROVE  \/ LauncherStep
         \/ \E p \in Pids : GuardStep(p)
         \/ Environment
         \/ Reboot
         \/ UNCHANGED guardVars
BY DEF GuardNext, BootNext

-----------------------------------------------------------------------------

\* low_samples stays within what is told apart.
LEMMA CountType ==
  ASSUME TypeOK, NEW p \in Pids
  PROVE  LowSamples(p) \in 0..3
<1>1. low[p] \in 0..3
  BY DEF TypeOK
<1>2. CASE low[p] < 3
  BY <1>1, <1>2 DEF LowSamples
<1>3. CASE ~(low[p] < 3)
  BY <1>1, <1>3 DEF LowSamples
<1>4. QED
  BY <1>2, <1>3

\* A guard's own step keeps every variable in its type.
LEMMA GuardStepType ==
  ASSUME TypeOK, NEW p \in Pids, GuardStep(p)
  PROVE  TypeOK'
<1> USE GuardAssumption DEF TypeOK, Pids, docker, guards, launcher
<1>1. CASE Bind(p)
  BY <1>1 DEF Bind
<1>2. CASE Inspect(p)
  BY <1>2 DEF Inspect
<1>3. CASE Sample(p)
  <2>0. UNCHANGED <<docker, mem, gid, left, pidfile, launcher, pids, reboots>>
    BY <1>3 DEF Sample
  <2>1. LowSamples(p) \in 0..3
    BY CountType
  <2>2. CASE gpc' = [gpc EXCEPT ![p] = "abort"] /\ UNCHANGED <<low, ready, markers>>
    BY <1>3, <2>2 DEF Sample
  <2>3. CASE /\ low' = [low EXCEPT ![p] = LowSamples(p)]
             /\ gpc' = [gpc EXCEPT ![p] = IF LowSamples(p) = 3 THEN "kill" ELSE "inspect"]
             /\ IF Arming(p)
                  THEN ready' = ready \cup {p} /\ markers' = markers \cup {p}
                  ELSE UNCHANGED <<ready, markers>>
    <3>1. low' \in [Pids -> 0..3]
      BY <2>1, <2>3
    <3>2. gpc' \in [Pids -> {"none", "bind", "inspect", "sample", "blind", "kill", "abort"}]
      BY <2>3
    <3>3. ready' \subseteq Pids /\ markers' \subseteq Pids /\ left' \subseteq markers'
      BY <2>0, <2>3
    <3>4. QED
      BY <2>0, <3>1, <3>2, <3>3
  <2>4. QED
    BY <1>3, <2>2, <2>3 DEF Sample
<1>4. CASE Kill(p)
  BY <1>4 DEF Kill
<1>5. CASE Abort(p)
  BY <1>5 DEF Abort
<1>6. QED
  BY <1>1, <1>2, <1>3, <1>4, <1>5 DEF GuardStep

\* So does every step of the launchers.
LEMMA LauncherStepType ==
  ASSUME TypeOK, LauncherStep
  PROVE  TypeOK'
<1> USE GuardAssumption DEF TypeOK, Pids, docker, guards, launcher
<1>1. CASE StartContainer
  BY <1>1 DEF StartContainer
<1>2. CASE RunContainer
  <2>1. slot' \in 1..MaxContainers /\ made' \in 0..MaxContainers
    BY <1>2 DEF RunContainer
  <2>2. up' \subseteq 1..MaxContainers
    BY <1>2, <2>1 DEF RunContainer
  <2>3. QED
    BY <1>2, <2>1, <2>2 DEF RunContainer
<1>3. CASE Restart
  BY <1>3 DEF Restart
<1>4. CASE Restarted
  <2>1. slot \in 1..MaxContainers
    BY <1>4 DEF Restarted
  <2>2. up' \subseteq 1..MaxContainers
    BY <1>4, <2>1 DEF Restarted
  <2>3. lpc' \in {"spawn", "kill"}
    BY <1>4 DEF Restarted
  <2>4. UNCHANGED <<slot, made, mem, guards, markers, left, pidfile, lguard, outcome, pids, reboots>>
    BY <1>4 DEF Restarted
  <2>5. QED
    BY <2>2, <2>3, <2>4
<1>5. CASE Spawn
  BY <1>5 DEF Spawn
<1>6. CASE Record
  BY <1>6 DEF Record
<1>7. CASE Poll
  BY <1>7 DEF Poll
<1>8. CASE Look
  BY <1>8 DEF Look
<1>9. CASE StopUnready
  BY <1>9 DEF StopUnready
<1>10. CASE Stop
  BY <1>10 DEF Stop
<1>11. CASE RemoveContainer
  BY <1>11 DEF RemoveContainer
<1>12. QED
  BY <1>1, <1>2, <1>3, <1>4, <1>5, <1>6, <1>7, <1>8, <1>9, <1>10, <1>11
     DEF LauncherStep

\* And what happens around them.
LEMMA EnvironmentType ==
  ASSUME TypeOK, Environment
  PROVE  TypeOK'
<1> USE GuardAssumption DEF TypeOK, Pids, docker, guards, launcher
<1>1. CASE MemoryChanges
  BY <1>1 DEF MemoryChanges
<1>2. CASE ContainerExits
  BY <1>2 DEF ContainerExits
<1>3. CASE LauncherDies
  BY <1>3 DEF LauncherDies
<1>4. QED
  BY <1>1, <1>2, <1>3 DEF Environment

\* And a reboot, which forgets every process.
LEMMA RebootType ==
  ASSUME TypeOK, Reboot
  PROVE  TypeOK'
BY GuardAssumption DEF TypeOK, Pids, Reboot

\* Type correctness, whatever is bounded how.
LEMMA TypeStep ==
  ASSUME TypeOK, [GuardNext]_guardVars
  PROVE  TypeOK'
<1>1. CASE UNCHANGED guardVars
  BY <1>1 DEF TypeOK, Pids, guardVars, docker, guards, launcher
<1>2. QED
  BY <1>1, Steps, GuardStepType, LauncherStepType, EnvironmentType, RebootType

\* The initial state is well typed.
LEMMA TypeInit == GuardInit => TypeOK
BY GuardAssumption DEF GuardInit, TypeOK, Pids

\* Every reachable state is in its type.
THEOREM GuardTypeCorrect == GuardSpec => []TypeOK
<1>1. GuardInit => TypeOK
  BY TypeInit
<1>2. TypeOK /\ [GuardNext]_guardVars => TypeOK'
  BY TypeStep
<1>3. QED
  BY <1>1, <1>2, PTL DEF GuardSpec

-----------------------------------------------------------------------------
(* The launcher's report, within one boot and with a docker inspect that    *)
(* fails only for a container that does not run.                           *)

\* A guard's own step keeps what the launcher relies on: it ends without
\* having stopped its container only before it is armed.
LEMMA GuardStepInv ==
  ASSUME InspectErrors = FALSE, GuardInv, NEW p \in Pids, GuardStep(p)
  PROVE  GuardInv'
<1> USE GuardAssumption
<1>0. TypeOK'
  BY GuardStepType DEF GuardInv
<1> USE DEF GuardInv, TypeOK, Pids, docker, guards, launcher
<1>1. UNCHANGED <<slot, made, pidfile, lpc, lguard, outcome, pids>> /\ up' \subseteq up
  BY DEF GuardStep, Bind, Inspect, Sample, Kill, Abort
<1>2. \A q \in Pids : q # p => gpc'[q] = gpc[q] /\ gid'[q] = gid[q] /\ (q \in ready' <=> q \in ready)
  <2>1. CASE Bind(p)
    BY <2>1 DEF Bind
  <2>2. CASE Inspect(p)
    BY <2>2 DEF Inspect
  <2>3. CASE Sample(p)
    BY <2>3 DEF Sample
  <2>4. CASE Kill(p)
    BY <2>4 DEF Kill
  <2>5. CASE Abort(p)
    BY <2>5 DEF Abort
  <2>6. QED
    BY <2>1, <2>2, <2>3, <2>4, <2>5 DEF GuardStep
<1>3. gpc[p] # "none" /\ p <= pids
  BY DEF GuardStep, Bind, Inspect, Sample, Kill, Abort, FreshPids
<1>4. FreshPids'
  BY <1>1, <1>2, <1>3 DEF FreshPids
<1>5. markers' \subseteq ready' /\ (p \in ready' => gpc'[p] \notin {"bind", "abort"})
  BY DEF GuardStep, Bind, Inspect, Sample, Kill, Abort, MarkersEarned, Arming
<1>6. MarkersEarned'
  BY <1>0, <1>2, <1>5 DEF MarkersEarned
<1>7. ready \subseteq ready'
  BY DEF GuardStep, Bind, Inspect, Sample, Kill, Abort
<1>8. LauncherInv'
  BY <1>1, <1>7 DEF LauncherInv, Polling
<1>9. /\ gpc'[p] \notin {"none", "bind"} => IF gpc[p] = "bind" THEN gid'[p] = slot ELSE gid'[p] = gid[p]
      /\ p \in ready' => gpc[p] # "bind" /\ gid'[p] = gid[p]
      /\ p \in ready' /\ gpc'[p] = "none" => gid[p] \notin up'
  BY DEF GuardStep, Bind, Inspect, Sample, Kill, Abort, MarkersEarned, Arming
<1>10. WatchInv'
  BY <1>1, <1>2, <1>3, <1>9 DEF WatchInv, LauncherInv, Polling
<1>11. QED
  BY <1>0, <1>4, <1>6, <1>8, <1>10

\* So does every step of the launchers: the one that starts a guard gives it a
\* pid without history, the one that reports success has seen its marker.
LEMMA LauncherStepInv ==
  ASSUME GuardInv, LauncherStep
  PROVE  GuardInv'
<1> USE GuardAssumption
<1>0. TypeOK'
  BY LauncherStepType DEF GuardInv
<1> USE <1>0 DEF GuardInv, TypeOK, Pids, docker, guards, launcher,
                 FreshPids, MarkersEarned, LauncherInv, WatchInv, Polling
<1>1. CASE StartContainer
  BY <1>1 DEF StartContainer
<1>2. CASE RunContainer
  BY <1>2 DEF RunContainer
<1>3. CASE Restart
  BY <1>3 DEF Restart
<1>4. CASE Restarted
  BY <1>4 DEF Restarted
<1>5. CASE Spawn
  BY <1>5 DEF Spawn
<1>6. CASE Record
  BY <1>6 DEF Record
<1>7. CASE Poll
  BY <1>7 DEF Poll
<1>8. CASE Look
  BY <1>8 DEF Look
<1>9. CASE StopUnready
  BY <1>9 DEF StopUnready
<1>10. CASE Stop
  BY <1>10 DEF Stop
<1>11. CASE RemoveContainer
  BY <1>11 DEF RemoveContainer
<1>12. QED
  BY <1>1, <1>2, <1>3, <1>4, <1>5, <1>6, <1>7, <1>8, <1>9, <1>10, <1>11
     DEF LauncherStep

\* Nothing around them disturbs it.
LEMMA EnvironmentInv ==
  ASSUME GuardInv, Environment
  PROVE  GuardInv'
<1> USE GuardAssumption
<1>0. TypeOK'
  BY EnvironmentType DEF GuardInv
<1> USE <1>0 DEF GuardInv, TypeOK, Pids, docker, guards, launcher,
                 FreshPids, MarkersEarned, LauncherInv, WatchInv, Polling
<1>1. CASE MemoryChanges
  BY <1>1 DEF MemoryChanges
<1>2. CASE ContainerExits
  BY <1>2 DEF ContainerExits
<1>3. CASE LauncherDies
  BY <1>3 DEF LauncherDies
<1>4. QED
  BY <1>1, <1>2, <1>3 DEF Environment

\* The inductive step of GuardInv.
LEMMA GuardInvStep ==
  ASSUME InspectErrors = FALSE, GuardInv, [BootNext]_guardVars
  PROVE  GuardInv'
<1>1. CASE UNCHANGED guardVars
  BY <1>1 DEF GuardInv, TypeOK, Pids, guardVars, docker, guards, launcher,
              FreshPids, MarkersEarned, LauncherInv, WatchInv, Polling
<1>2. QED
  BY <1>1, GuardStepInv, LauncherStepInv, EnvironmentInv DEF BootNext

\* The invariant holds before the first launch.
LEMMA GuardInvInit == GuardInit => GuardInv
BY TypeInit, GuardAssumption
   DEF GuardInit, GuardInv, Pids, FreshPids, MarkersEarned, LauncherInv, WatchInv, Polling

\* What the launcher knows of its guard, and the guard of its container.
THEOREM GuardSafety ==
  ASSUME InspectErrors = FALSE
  PROVE  BootSpec => []GuardInv
<1>1. GuardInit => GuardInv
  BY GuardInvInit
<1>2. GuardInv /\ [BootNext]_guardVars => GuardInv'
  BY GuardInvStep
<1>3. QED
  BY <1>1, <1>2, PTL DEF BootSpec

\* A container reported started is watched for as long as it runs.
THEOREM StartedIsGuarded ==
  ASSUME InspectErrors = FALSE
  PROVE  BootSpec => []Guarded
<1>1. GuardInv => Guarded
  BY DEF GuardInv, LauncherInv, WatchInv, Guarded, Live, TypeOK, Pids
<1>2. QED
  BY <1>1, GuardSafety, PTL

-----------------------------------------------------------------------------
(* What a reported success rests on, across reboots and however docker      *)
(* inspect fails.                                                          *)

\* A guard's own step keeps ReportInv: it writes its marker as it gets ready.
LEMMA GuardStepReport ==
  ASSUME ReportInv, NEW p \in Pids, GuardStep(p)
  PROVE  ReportInv'
<1>0. TypeOK' /\ TypeOK
  BY GuardStepType DEF ReportInv
<1> USE GuardAssumption DEF ReportInv, TypeOK, Pids, docker, guards, launcher, Polling
<1>1. UNCHANGED <<slot, lpc, lguard, pids, left>>
  BY DEF GuardStep, Bind, Inspect, Sample, Kill, Abort
<1>2. \A q \in Pids : q # p => gpc'[q] = gpc[q] /\ gid'[q] = gid[q] /\ (q \in ready' <=> q \in ready)
  <2>1. CASE Bind(p)
    BY <2>1 DEF Bind
  <2>2. CASE Inspect(p)
    BY <2>2 DEF Inspect
  <2>3. CASE Sample(p)
    BY <2>3 DEF Sample
  <2>4. CASE Kill(p)
    BY <2>4 DEF Kill
  <2>5. CASE Abort(p)
    BY <2>5 DEF Abort
  <2>6. QED
    BY <2>1, <2>2, <2>3, <2>4, <2>5 DEF GuardStep
<1>3. gpc[p] # "none" /\ p <= pids
  BY DEF GuardStep, Bind, Inspect, Sample, Kill, Abort, FreshPids
<1>4. FreshPids'
  BY <1>1, <1>2, <1>3 DEF FreshPids
<1>5. markers' \subseteq ready' \cup left' /\ (p \in ready' => gpc'[p] # "bind")
  BY ZenonT(40) DEF GuardStep, Bind, Inspect, Sample, Kill, Abort, Arming
<1>6. p \in ready' \/ gpc'[p] \notin {"none", "bind"} =>
        IF gpc[p] = "bind" THEN gid'[p] = slot
        ELSE gid'[p] = gid[p] /\ (p \in ready \/ gpc[p] \notin {"none", "bind"})
  BY DEF GuardStep, Bind, Inspect, Sample, Kill, Abort, Arming
<1>7. Polling' /\ (lguard' \in ready' \/ gpc'[lguard'] \notin {"none", "bind"}) => gid'[lguard'] = slot'
  BY SMTT(40), <1>0, <1>1, <1>2, <1>6 DEF Polling
<1>8. QED
  BY <1>0, <1>1, <1>2, <1>4, <1>5, <1>7 DEF Polling

\* So does every step of the launchers: the guard one starts has a fresh pid.
LEMMA LauncherStepReport ==
  ASSUME ReportInv, LauncherStep
  PROVE  ReportInv'
<1> USE GuardAssumption
<1>0. TypeOK'
  BY LauncherStepType DEF ReportInv
<1> USE <1>0 DEF ReportInv, TypeOK, Pids, docker, guards, launcher, FreshPids, Polling
<1>1. CASE StartContainer \/ RunContainer \/ Restart \/ Restarted
  BY <1>1 DEF StartContainer, RunContainer, Restart, Restarted
<1>2. CASE Spawn
  BY <1>2 DEF Spawn
<1>3. CASE Record \/ Poll
  BY <1>3 DEF Record, Poll
<1>4. CASE Look
  BY <1>4 DEF Look
<1>5. CASE StopUnready \/ Stop \/ RemoveContainer
  BY <1>5 DEF StopUnready, Stop, RemoveContainer
<1>6. QED
  BY <1>1, <1>2, <1>3, <1>4, <1>5 DEF LauncherStep

\* And so does the world around them.
LEMMA EnvironmentReport ==
  ASSUME ReportInv, Environment
  PROVE  ReportInv'
<1> USE GuardAssumption
<1>0. TypeOK'
  BY EnvironmentType DEF ReportInv
<1> USE <1>0 DEF ReportInv, TypeOK, Pids, docker, guards, launcher, FreshPids, Polling
<1>1. CASE MemoryChanges \/ ContainerExits \/ LauncherDies
  BY <1>1 DEF MemoryChanges, ContainerExits, LauncherDies
<1>2. QED
  BY <1>1 DEF Environment

\* Across a reboot every marker becomes a left one.
LEMMA RebootReport ==
  ASSUME ReportInv, Reboot
  PROVE  ReportInv'
<1>1. TypeOK'
  BY RebootType DEF ReportInv
<1>2. QED
  BY <1>1, GuardAssumption DEF ReportInv, TypeOK, Pids, FreshPids, Polling, Reboot

\* Success is reported after a sample that the launcher's own guard has taken of the
\* container reported, or on a marker an earlier boot has left (ReadyUnlessLeftOver).
THEOREM ReadyIsSampled == GuardSpec => ReadyUnlessLeftOver
<1>1. GuardInit => ReportInv
  BY TypeInit, GuardAssumption DEF GuardInit, ReportInv, FreshPids, Polling, Pids
<1>2. ReportInv /\ [GuardNext]_guardVars => ReportInv'
  <2>1. ReportInv /\ UNCHANGED guardVars => ReportInv'
    BY DEF ReportInv, TypeOK, Pids, guardVars, docker, guards, launcher, FreshPids, Polling
  <2>2. QED
    BY <2>1, Steps, GuardStepReport, LauncherStepReport, EnvironmentReport, RebootReport
<1>3. ReportInv /\ [GuardNext]_guardVars =>
        [outcome # "started" /\ outcome' = "started" =>
           lguard \in left \/ (lguard \in ready /\ gid[lguard] = slot)]_guardVars
  <2> SUFFICES ASSUME ReportInv, [GuardNext]_guardVars, outcome # "started", outcome' = "started"
               PROVE  lguard \in left \/ (lguard \in ready /\ gid[lguard] = slot)
    OBVIOUS
  <2>1. CASE LauncherStep
    <3>1. Look
      BY <2>1 DEF LauncherStep, StartContainer, RunContainer, Restart, Restarted, Spawn, Record, Poll, StopUnready, Stop, RemoveContainer,
                  launcher
    <3>2. lpc = "look" /\ lguard \in markers
      BY <3>1 DEF Look
    <3>3. QED
      BY <3>2 DEF ReportInv, Polling
  <2>2. ASSUME NEW p \in Pids, GuardStep(p)
        PROVE  FALSE
    BY <2>2 DEF GuardStep, Bind, Inspect, Sample, Kill, Abort, launcher
  <2>3. CASE Environment \/ Reboot
    BY <2>3 DEF Environment, MemoryChanges, ContainerExits, LauncherDies, Reboot, launcher
  <2>4. CASE UNCHANGED guardVars
    BY <2>4 DEF guardVars, launcher
  <2>5. QED
    BY <2>1, <2>2, <2>3, <2>4, Steps
<1>4. QED
  BY <1>1, <1>2, <1>3, PTL DEF GuardSpec, ReadyUnlessLeftOver

-----------------------------------------------------------------------------
(* A failed launch, whatever is rebooted and however docker inspect fails.  *)

FailedInv ==
  /\ TypeOK /\ FailedLaunchStopped
  /\ lpc # "idle" => outcome = "pending"
  /\ up \subseteq 1..made /\ slot \in 0..made

\* "failed" is reported only by the step that stopped the container, and
\* containers are started only while an outcome is pending.
THEOREM FailedLaunchLeavesNothing == GuardSpec => []FailedLaunchStopped
<1> USE GuardAssumption DEF FailedInv, FailedLaunchStopped, docker, guards, launcher
<1>1. GuardInit => FailedInv
  BY TypeInit DEF GuardInit
<1>2. FailedInv /\ [GuardNext]_guardVars => FailedInv'
  <2> SUFFICES ASSUME FailedInv, [GuardNext]_guardVars
               PROVE  FailedInv'
    OBVIOUS
  <2>1. TypeOK'
    BY TypeStep
  <2>2. CASE LauncherStep
    <3>1. CASE RunContainer
      BY <2>1, <3>1 DEF RunContainer, TypeOK
    <3>2. CASE Restarted
      BY <2>1, <3>2 DEF Restarted, TypeOK
    <3>3. CASE Restart \/ Stop \/ RemoveContainer \/ StopUnready
      BY <2>1, <3>3 DEF Restart, Stop, RemoveContainer, StopUnready, TypeOK
    <3>4. CASE StartContainer \/ Spawn \/ Record \/ Poll \/ Look
      BY <2>1, <3>4 DEF StartContainer, Spawn, Record, Poll, Look
    <3>5. QED
      BY <2>2, <3>1, <3>2, <3>3, <3>4 DEF LauncherStep
  <2>3. ASSUME NEW p \in Pids, GuardStep(p)
        PROVE  FailedInv'
    BY <2>1, <2>3 DEF GuardStep, Bind, Inspect, Sample, Kill, Abort
  <2>4. CASE Environment \/ Reboot
    BY <2>1, <2>4 DEF Environment, MemoryChanges, ContainerExits, LauncherDies, Reboot
  <2>5. CASE UNCHANGED guardVars
    BY <2>1, <2>5 DEF guardVars
  <2>6. QED
    BY <2>2, <2>3, <2>4, <2>5, Steps
<1>3. FailedInv => FailedLaunchStopped
  OBVIOUS
<1>4. QED
  BY <1>1, <1>2, <1>3, PTL DEF GuardSpec

=============================================================================
