------------------------ MODULE ZigbeeLifecycleProofs ------------------------
(***************************************************************************)
(* The safety invariants of ZigbeeLifecycle hold for any number of upload  *)
(* events, resets, losses and restarts.  WatchdogCovers and                *)
(* JoiningHasDeadline are inductive as they stand; OnePublishTick needs    *)
(* the range of ticks (TickInv), since a start signal leaves a running     *)
(* tick alone.                                                             *)
(*                                                                         *)
(* The later theorems are the safety half of the liveness runs and the     *)
(* border of the finding: a pending reset always has a reboot coming, the  *)
(* workqueue can be blocked for good only if a thread may be suspended     *)
(* with a mutex, and ZBOSS is left suspended only if the watchdog runs     *)
(* between the two lines of DFU_STARTED.                                   *)
(***************************************************************************)
EXTENDS ZigbeeLifecycle, TLAPS

TickInv == ticks \in {0, 1} /\ (stack \in {"steering", "joined", "apart"} => ticks = 1)

---------------------------------------------------------------------------
\* Steps outside the upload callback and the workqueue leave the watchdog alone.
LEMMA OthersKeepCover ==
    ASSUME WatchdogCovers, UNCHANGED dfuVars
    PROVE  WatchdogCovers'
BY DEF WatchdogCovers, dfuVars, watch

LEMMA RebootCovers == Reboot => WatchdogCovers' /\ JoiningHasDeadline' /\ TickInv'
BY DEF Reboot, WatchdogCovers, JoiningHasDeadline, TickInv

\* No step leaves the flag raised without a watchdog or a callback to lower it.
LEMMA CoverStep ==
    ASSUME WatchdogCovers, [Next]_vars
    PROVE  WatchdogCovers'
<1>1. CASE Signals
  BY <1>1, OthersKeepCover
     DEF Signals, FirstStart, Steer, DeviceReboot, Rejoin, SteeringDone, LinksLost, Removed, OnZboss
<1>2. CASE ZbossRuns \/ Critical
  BY <1>2, OthersKeepCover
     DEF ZbossRuns, ZigbeeEnable, JoinWindowExpire, Left, ResetViaLocalAction, OnZboss,
         Critical, EnterCritical, LeaveCritical
<1>3. CASE BleRuns \/ RequestReset
  BY <1>3, OthersKeepCover
     DEF BleRuns, ScheduleReset, ScheduleFails, ArmFallback, BleStep, RequestReset
<1>4. CASE SmpRuns
  <2>1. CASE SuspendZboss
    BY <2>1 DEF SuspendZboss, Suspend, SmpStep, WatchdogCovers
  <2>2. CASE ArmWatchdog
    BY <2>2 DEF ArmWatchdog, WatchdogCovers
  <2>3. CASE StopLowersFlag
    BY <2>3 DEF StopLowersFlag, WatchdogCovers
  <2>4. CASE StopResumes
    BY <2>4 DEF StopResumes, SmpStep, WatchdogCovers
  <2> QED
    BY <1>4, <2>1, <2>2, <2>3, <2>4 DEF SmpRuns
<1>5. CASE WorkqueueRuns \/ Waits
  <2>1. CASE WatchdogExpires
    BY <2>1 DEF WatchdogExpires, WatchdogCovers
  <2>2. CASE WorkerLowersFlag
    BY <2>2 DEF WorkerLowersFlag, WatchdogCovers
  <2>3. CASE WorkerResumes
    BY <2>3 DEF WorkerResumes, OnWorkqueue, WatchdogCovers
  <2>4. CASE Waits
    BY <2>4 DEF Waits, WorkerBlocks, WorkerUnblocks, BlockedOn, OnWorkqueue, WatchdogCovers
  <2> QED
    BY <1>5, <2>1, <2>2, <2>3, <2>4 DEF WorkqueueRuns
<1>6. CASE RebootWork \/ Restart
  BY <1>6, RebootCovers DEF RebootWork, Restart
<1>7. CASE DfuStarted
  BY <1>7 DEF DfuStarted, WatchdogCovers
<1>8. CASE DfuProgress
  BY <1>8 DEF DfuProgress, WatchdogCovers
<1>9. CASE DfuStopped
  BY <1>9 DEF DfuStopped, WatchdogCovers
<1>10. CASE UNCHANGED vars
  BY <1>10, OthersKeepCover DEF vars
<1> QED
  BY <1>1, <1>2, <1>3, <1>4, <1>5, <1>6, <1>7, <1>8, <1>9, <1>10 DEF Next

\* Only the ZBOSS thread and a reboot change what the network state, the window
\* and the tick are.
LEMMA OthersKeepNets ==
    ASSUME JoiningHasDeadline, TickInv, UNCHANGED nets
    PROVE  JoiningHasDeadline' /\ TickInv'
BY DEF JoiningHasDeadline, TickInv, nets

LEMMA NetStep ==
    ASSUME JoiningHasDeadline, TickInv, [Next]_vars
    PROVE  JoiningHasDeadline' /\ TickInv'
<1>1. CASE \E ok \in BOOLEAN : FirstStart(ok)
  <2>1. PICK ok \in BOOLEAN : FirstStart(ok)
    BY <1>1
  <2>2. JoiningHasDeadline'
    BY <2>1 DEF FirstStart, Steer, JoiningHasDeadline
  <2>3. TickInv'
    BY <2>1 DEF FirstStart, Steer, StartPublishing, TickInv
  <2> QED
    BY <2>2, <2>3
<1>2. CASE \E ok \in BOOLEAN : DeviceReboot(ok)
  <2>1. PICK ok \in BOOLEAN : DeviceReboot(ok)
    BY <1>2
  <2>2. JoiningHasDeadline'
    BY <2>1 DEF DeviceReboot, Rejoin, JoiningHasDeadline
  <2>3. TickInv'
    BY <2>1 DEF DeviceReboot, Rejoin, StartPublishing, TickInv
  <2> QED
    BY <2>2, <2>3
<1>3. CASE SteeringDone
  BY <1>3 DEF SteeringDone, JoiningHasDeadline, TickInv
<1>4. CASE LinksLost \/ Removed
  BY <1>4 DEF LinksLost, Removed, Lost, JoiningHasDeadline, TickInv
<1>5. CASE JoinWindowExpire
  BY <1>5 DEF JoinWindowExpire, JoiningHasDeadline, TickInv
<1>6. CASE Left
  BY <1>6 DEF Left, JoiningHasDeadline, TickInv
<1>7. CASE ResetViaLocalAction
  BY <1>7 DEF ResetViaLocalAction, JoiningHasDeadline, TickInv
<1>8. CASE ZigbeeEnable \/ Critical
  BY <1>8, OthersKeepNets DEF ZigbeeEnable, Critical, EnterCritical, LeaveCritical
<1>9. CASE BleRuns \/ RequestReset
  BY <1>9, OthersKeepNets
     DEF BleRuns, ScheduleReset, ScheduleFails, ArmFallback, BleStep, RequestReset
<1>10. CASE SmpRuns \/ DfuStarted \/ DfuProgress \/ DfuStopped
  BY <1>10, OthersKeepNets
     DEF SmpRuns, SuspendZboss, Suspend, ArmWatchdog, StopLowersFlag, StopResumes, SmpStep,
         DfuStarted, DfuProgress, DfuStopped, OnSmp
<1>11. CASE WorkqueueRuns \/ Waits
  BY <1>11, OthersKeepNets
     DEF WorkqueueRuns, WatchdogExpires, WorkerLowersFlag, WorkerResumes, OnWorkqueue,
         Waits, WorkerBlocks, WorkerUnblocks, BlockedOn
<1>12. CASE RebootWork \/ Restart
  BY <1>12, RebootCovers DEF RebootWork, Restart
<1>13. CASE UNCHANGED vars
  BY <1>13, OthersKeepNets DEF vars
<1> QED
  BY <1>1, <1>2, <1>3, <1>4, <1>5, <1>6, <1>7, <1>8, <1>9, <1>10, <1>11, <1>12, <1>13
     DEF Next, Signals, ZbossRuns

---------------------------------------------------------------------------
\* Every operation keeps the types, whatever the bounds.
LEMMA PlacesStep == Places /\ [Next]_vars => Places'
<1> SUFFICES ASSUME Places, [Next]_vars PROVE Places'
  OBVIOUS
<1> USE DEF Places
<1>1. CASE Signals \/ ZbossRuns \/ Critical
  BY <1>1 DEF Signals, FirstStart, Steer, DeviceReboot, Rejoin, SteeringDone, LinksLost, Removed,
              Lost, ZbossRuns, ZigbeeEnable, JoinWindowExpire, Left, ResetViaLocalAction,
              HastenReboot, NoReset, OnZboss, Critical, EnterCritical, LeaveCritical,
              nets, resetVars, dfuVars, watch
<1>2. CASE BleRuns \/ RequestReset
  BY <1>2 DEF BleRuns, ScheduleReset, ScheduleFails, ArmFallback, BleStep, RequestReset,
              nets, dfuVars, watch
<1>3. CASE SmpRuns \/ DfuStarted \/ DfuProgress \/ DfuStopped
  BY <1>3 DEF SmpRuns, SuspendZboss, Suspend, ArmWatchdog, StopLowersFlag, StopResumes, SmpStep,
              Resumed, OnSmp, DfuStarted, DfuProgress, DfuStopped, Event, nets, resetVars
<1>4. CASE WorkqueueRuns \/ Waits
  BY <1>4 DEF WorkqueueRuns, WatchdogExpires, WorkerLowersFlag, WorkerResumes, Waits, WorkerBlocks,
              WorkerUnblocks, BlockedOn, Resumed, OnWorkqueue, nets, resetVars
<1>5. CASE RebootWork \/ Restart
  BY <1>5 DEF RebootWork, Restart, Reboot
<1>6. CASE UNCHANGED vars
  BY <1>6 DEF vars, nets, resetVars, dfuVars, watch
<1> QED
  BY <1>1, <1>2, <1>3, <1>4, <1>5, <1>6 DEF Next

LEMMA FlagsStep == Flags /\ [Next]_vars => Flags'
<1> SUFFICES ASSUME Flags, [Next]_vars PROVE Flags'
  OBVIOUS
<1> USE DEF Flags
<1>1. CASE Signals \/ ZbossRuns \/ Critical
  BY <1>1 DEF Signals, FirstStart, Steer, DeviceReboot, Rejoin, SteeringDone, LinksLost, Removed,
              Lost, ZbossRuns, ZigbeeEnable, JoinWindowExpire, Left, ResetViaLocalAction,
              HastenReboot, NoReset, OnZboss, Critical, EnterCritical, LeaveCritical,
              nets, resetVars, dfuVars, watch
<1>2. CASE BleRuns \/ RequestReset
  BY <1>2 DEF BleRuns, ScheduleReset, ScheduleFails, ArmFallback, BleStep, RequestReset,
              nets, dfuVars, watch
<1>3. CASE SmpRuns \/ DfuStarted \/ DfuProgress \/ DfuStopped
  BY <1>3 DEF SmpRuns, SuspendZboss, Suspend, ArmWatchdog, StopLowersFlag, StopResumes, SmpStep,
              OnSmp, DfuStarted, DfuProgress, DfuStopped, Event, nets, resetVars
<1>4. CASE WorkqueueRuns \/ Waits
  BY <1>4 DEF WorkqueueRuns, WatchdogExpires, WorkerLowersFlag, WorkerResumes, Waits, WorkerBlocks,
              WorkerUnblocks, BlockedOn, OnWorkqueue, nets, resetVars
<1>5. CASE RebootWork \/ Restart
  BY <1>5 DEF RebootWork, Restart, Reboot
<1>6. CASE UNCHANGED vars
  BY <1>6 DEF vars, nets, resetVars, dfuVars, watch
<1> QED
  BY <1>1, <1>2, <1>3, <1>4, <1>5, <1>6 DEF Next

LEMMA CountsStep == Counts /\ [Next]_vars => Counts'
<1> SUFFICES ASSUME Counts, [Next]_vars PROVE Counts'
  OBVIOUS
<1> USE BoundsAssumption DEF Counts
<1>1. CASE Signals
  BY <1>1 DEF Signals, FirstStart, Steer, DeviceReboot, Rejoin, StartPublishing, SteeringDone,
              LinksLost, Removed, Lost, NoLoss, OnZboss
<1>2. CASE ZbossRuns \/ Critical
  BY <1>2 DEF ZbossRuns, ZigbeeEnable, JoinWindowExpire, Left, ResetViaLocalAction, NoLoss, OnZboss,
              Critical, EnterCritical, LeaveCritical, nets, history
<1>3. CASE BleRuns \/ RequestReset
  BY <1>3 DEF BleRuns, ScheduleReset, ScheduleFails, ArmFallback, BleStep, RequestReset, nets, history
<1>4. CASE SmpRuns \/ DfuStarted \/ DfuProgress \/ DfuStopped
  BY <1>4 DEF SmpRuns, SuspendZboss, Suspend, ArmWatchdog, StopLowersFlag, StopResumes, SmpStep,
              OnSmp, DfuStarted, DfuProgress, DfuStopped, Event, nets
<1>5. CASE WorkqueueRuns \/ Waits
  BY <1>5 DEF WorkqueueRuns, WatchdogExpires, WorkerLowersFlag, WorkerResumes, Waits, WorkerBlocks,
              WorkerUnblocks, BlockedOn, OnWorkqueue, nets, history
<1>6. CASE RebootWork \/ Restart
  BY <1>6 DEF RebootWork, Restart, Reboot, history
<1>7. CASE UNCHANGED vars
  BY <1>7 DEF vars, nets, history
<1> QED
  BY <1>1, <1>2, <1>3, <1>4, <1>5, <1>6, <1>7 DEF Next

---------------------------------------------------------------------------
\* Every variable keeps its type: no counter passes its bound, and each thread
\* is always at a step its code has.
THEOREM TypeCorrect == Spec => []TypeOK
<1>1. Init => Places /\ Flags
  BY DEF Init, Places, Flags
<1>2. Init => Counts
  BY BoundsAssumption DEF Init, Counts
<1> QED
  BY <1>1, <1>2, PlacesStep, FlagsStep, CountsStep, PTL DEF Spec, TypeOK

\* However upload events, watchdog expiries and restarts interleave, the flag
\* "suspended for an upload" is never raised with nobody left to lower it.
THEOREM WatchdogCoversHolds == Spec => []WatchdogCovers
<1>1. Init => WatchdogCovers
  BY DEF Init, WatchdogCovers
<1> QED
  BY <1>1, CoverStep, PTL DEF Spec

LEMMA NetInvariance == Spec => [](JoiningHasDeadline /\ TickInv)
<1>1. Init => JoiningHasDeadline /\ TickInv
  BY DEF Init, JoiningHasDeadline, TickInv
<1>2. (JoiningHasDeadline /\ TickInv) /\ [Next]_vars => (JoiningHasDeadline /\ TickInv)'
  BY NetStep
<1> QED
  BY <1>1, <1>2, PTL DEF Spec

\* The pairing blink always has an alarm that will end it.
THEOREM JoiningHasDeadlineHolds == Spec => []JoiningHasDeadline
BY NetInvariance, PTL

\* Publishing is started exactly once per boot.
THEOREM OnePublishTickHolds == Spec => []OnePublishTick
<1>1. TickInv => OnePublishTick
  BY DEF TickInv, OnePublishTick
<1> QED
  BY <1>1, NetInvariance, PTL

---------------------------------------------------------------------------
(* Factory reset.                                                          *)

\* A reset that is pending is in the hands of the command that asked for it, or
\* its reboot timer runs: it never waits for the LEAVE signal alone.
ResetCovered == factory_reset_pending => ble \in {"schedule", "fallback"} \/ reboot_timer

\* Once the wipe of the network is queued or done, its reboot is assured.
WipeEndsInReboot == reset_cb \/ stack = "left" => ble = "fallback" \/ reboot_timer

\* Nothing is wiped but for the pending reset, and a reset that can still be
\* refused has wiped nothing.
WipeIsAskedFor ==
    /\ reset_cb \/ stack = "left" => factory_reset_pending
    /\ ble = "schedule" => factory_reset_pending /\ ~reset_cb /\ stack # "left"

ResetInv == ResetCovered /\ WipeIsAskedFor

LEMMA OthersKeepReset ==
    ASSUME ResetInv, UNCHANGED resetVars, stack' = "left" => stack = "left"
    PROVE  ResetInv'
BY DEF ResetInv, ResetCovered, WipeIsAskedFor, resetVars

LEMMA ResetStep == ResetInv /\ [Next]_vars => ResetInv'
<1> SUFFICES ASSUME ResetInv, [Next]_vars PROVE ResetInv'
  OBVIOUS
<1>1. CASE \E ok \in BOOLEAN : FirstStart(ok) \/ DeviceReboot(ok)
  BY <1>1, OthersKeepReset DEF FirstStart, Steer, DeviceReboot, Rejoin, NoReset
<1>2. CASE SteeringDone \/ LinksLost \/ JoinWindowExpire
  BY <1>2, OthersKeepReset DEF SteeringDone, LinksLost, Lost, JoinWindowExpire, NoReset
<1>3. CASE Removed \/ Left
  <2>1. ResetCovered'
    BY <1>3 DEF Removed, Left, HastenReboot, ResetInv, ResetCovered
  <2>2. UNCHANGED <<ble, factory_reset_pending, reset_cb>> /\ (stack' = "left" => stack = "left")
    BY <1>3 DEF Removed, Left, Lost, HastenReboot
  <2> QED
    BY <2>1, <2>2 DEF ResetInv, WipeIsAskedFor
<1>4. CASE ResetViaLocalAction
  BY <1>4 DEF ResetViaLocalAction, ResetInv, ResetCovered, WipeIsAskedFor
<1>5. CASE ZigbeeEnable \/ Critical
  BY <1>5, OthersKeepReset DEF ZigbeeEnable, Critical, EnterCritical, LeaveCritical, nets
<1>6. CASE RequestReset
  BY <1>6 DEF RequestReset, ResetInv, ResetCovered, WipeIsAskedFor, nets
<1>7. CASE BleRuns
  BY <1>7
     DEF BleRuns, ScheduleReset, ScheduleFails, ArmFallback, BleStep, ResetInv, ResetCovered,
         WipeIsAskedFor, nets
<1>8. CASE SmpRuns \/ DfuStarted \/ DfuProgress \/ DfuStopped
  BY <1>8, OthersKeepReset
     DEF SmpRuns, SuspendZboss, Suspend, ArmWatchdog, StopLowersFlag, StopResumes, SmpStep,
         DfuStarted, DfuProgress, DfuStopped, OnSmp, nets
<1>9. CASE WorkqueueRuns \/ Waits
  BY <1>9, OthersKeepReset
     DEF WorkqueueRuns, WatchdogExpires, WorkerLowersFlag, WorkerResumes, OnWorkqueue,
         Waits, WorkerBlocks, WorkerUnblocks, BlockedOn, nets
<1>10. CASE RebootWork \/ Restart
  BY <1>10 DEF RebootWork, Restart, Reboot, ResetInv, ResetCovered, WipeIsAskedFor
<1>11. CASE UNCHANGED vars
  BY <1>11, OthersKeepReset DEF vars, nets
<1> QED
  BY <1>1, <1>2, <1>3, <1>4, <1>5, <1>6, <1>7, <1>8, <1>9, <1>10, <1>11
     DEF Next, Signals, ZbossRuns

LEMMA ResetInvariance == Spec => []ResetInv
<1>1. Init => ResetInv
  BY DEF Init, ResetInv, ResetCovered, WipeIsAskedFor
<1> QED
  BY <1>1, ResetStep, PTL DEF Spec

\* A pending factory reset never waits for ZBOSS or a LEAVE signal alone: the
\* command is still arming the fallback, or the reboot timer is armed.
THEOREM ResetCoveredHolds == Spec => []ResetCovered
BY ResetInvariance, PTL DEF ResetInv

\* zigbee_ep_factory_reset never leaves a device off its wiped network: from the
\* moment the wipe is queued, a reboot is armed or about to be.
THEOREM WipeEndsInRebootHolds == Spec => []WipeEndsInReboot
<1>1. ResetInv => WipeEndsInReboot
  BY DEF ResetInv, ResetCovered, WipeIsAskedFor, WipeEndsInReboot
<1> QED
  BY <1>1, ResetInvariance, PTL

---------------------------------------------------------------------------
(* The suspension of ZBOSS.                                                *)

LEMMA OthersKeepFree ==
    ASSUME ~Stuck, UNCHANGED <<zboss, holding>>
    PROVE  ~Stuck'
BY DEF Stuck

LEMMA FreeStep ==
    ASSUME ~Preempted, ~Stuck, [Next]_vars
    PROVE  ~Stuck'
<1>1. CASE Signals \/ JoinWindowExpire \/ Left \/ ResetViaLocalAction
  BY <1>1, OthersKeepFree
     DEF Signals, FirstStart, Steer, DeviceReboot, Rejoin, SteeringDone, LinksLost, Removed,
         JoinWindowExpire, Left, ResetViaLocalAction, OnZboss
<1>2. CASE ZigbeeEnable \/ Critical
  BY <1>2 DEF ZigbeeEnable, Critical, EnterCritical, LeaveCritical, Stuck
<1>3. CASE BleRuns \/ RequestReset
  BY <1>3, OthersKeepFree
     DEF BleRuns, ScheduleReset, ScheduleFails, ArmFallback, BleStep, RequestReset
<1>4. CASE SuspendZboss
  BY <1>4 DEF SuspendZboss, Suspend, SmpStep, OnSmp, Stuck
<1>5. CASE ArmWatchdog \/ StopLowersFlag \/ DfuStarted \/ DfuProgress \/ DfuStopped
  BY <1>5, OthersKeepFree
     DEF ArmWatchdog, StopLowersFlag, SmpStep, DfuStarted, DfuProgress, DfuStopped, Event, OnSmp
<1>6. CASE StopResumes \/ WorkerResumes
  BY <1>6 DEF StopResumes, WorkerResumes, Resumed, SmpStep, OnSmp, OnWorkqueue, Stuck
<1>7. CASE WatchdogExpires \/ WorkerLowersFlag \/ Waits
  BY <1>7, OthersKeepFree
     DEF WatchdogExpires, WorkerLowersFlag, OnWorkqueue, Waits, WorkerBlocks, WorkerUnblocks,
         BlockedOn
<1>8. CASE RebootWork \/ Restart
  BY <1>8 DEF RebootWork, Restart, Reboot, Stuck
<1>9. CASE UNCHANGED vars
  BY <1>9, OthersKeepFree DEF vars
<1> QED
  BY <1>1, <1>2, <1>3, <1>4, <1>5, <1>6, <1>7, <1>8, <1>9
     DEF Next, ZbossRuns, SmpRuns, WorkqueueRuns

\* Where the MCUmgr thread never preempts a ZBOSS thread that holds a mutex, the
\* upload callback never suspends ZBOSS inside such a section, so the exception
\* in ResetEnds and WorkqueueFreed is due to preemption alone.
THEOREM NeverStuckUnlessPreempted == ~Preempted => (Spec => []~Stuck)
<1> SUFFICES ASSUME ~Preempted PROVE Spec => []~Stuck
  OBVIOUS
<1>1. Init => ~Stuck
  BY DEF Init, Stuck
<1>2. ~Stuck /\ [Next]_vars => ~Stuck'
  BY FreeStep
<1> QED
  BY <1>1, <1>2, PTL DEF Spec

\* A suspended ZBOSS has somebody to resume it: the flag is up, for which
\* WatchdogCovers vouches, or one of the two resumers has just lowered it.
SuspendedCovered ==
    zboss = "suspended" => zboss_dfu_suspended \/ smp = "resume" \/ worker = "resume"

\* The upload callback goes on to suspend ZBOSS only under its own flag.
FlagFirst == smp = "suspend" => zboss_dfu_suspended

\* The watchdog work runs between the flag and k_thread_suspend of DFU_STARTED.
Overtakes == WorkerLowersFlag /\ smp = "suspend"

LEMMA OthersKeepSuspended ==
    ASSUME SuspendedCovered, FlagFirst, UNCHANGED dfuVars, zboss' = zboss
    PROVE  SuspendedCovered' /\ FlagFirst'
BY DEF SuspendedCovered, FlagFirst, dfuVars, watch

LEMMA SuspendedStep ==
    ASSUME SuspendedCovered, FlagFirst, [Next]_vars, ~Overtakes
    PROVE  SuspendedCovered' /\ FlagFirst'
<1>1. CASE Signals \/ JoinWindowExpire \/ Left \/ ResetViaLocalAction
  BY <1>1, OthersKeepSuspended
     DEF Signals, FirstStart, Steer, DeviceReboot, Rejoin, SteeringDone, LinksLost, Removed,
         JoinWindowExpire, Left, ResetViaLocalAction, OnZboss
<1>2. CASE ZigbeeEnable
  BY <1>2 DEF ZigbeeEnable, SuspendedCovered, FlagFirst, dfuVars
<1>3. CASE Critical \/ BleRuns \/ RequestReset
  BY <1>3, OthersKeepSuspended
     DEF Critical, EnterCritical, LeaveCritical, BleRuns, ScheduleReset, ScheduleFails, ArmFallback,
         BleStep, RequestReset
<1>4. CASE SmpRuns
  <2>1. CASE SuspendZboss
    BY <2>1 DEF SuspendZboss, Suspend, SmpStep, SuspendedCovered, FlagFirst
  <2>2. CASE ArmWatchdog
    BY <2>2 DEF ArmWatchdog, SmpStep, OnSmp, SuspendedCovered, FlagFirst
  <2>3. CASE StopLowersFlag
    BY <2>3 DEF StopLowersFlag, SmpStep, OnSmp, SuspendedCovered, FlagFirst
  <2>4. CASE StopResumes
    BY <2>4 DEF StopResumes, SmpStep, Resumed, SuspendedCovered, FlagFirst
  <2> QED
    BY <1>4, <2>1, <2>2, <2>3, <2>4 DEF SmpRuns
<1>5. CASE WorkerLowersFlag
  BY <1>5 DEF WorkerLowersFlag, OnWorkqueue, Overtakes, SuspendedCovered, FlagFirst
<1>6. CASE WorkerResumes
  BY <1>6 DEF WorkerResumes, OnWorkqueue, Resumed, SuspendedCovered, FlagFirst
<1>7. CASE WatchdogExpires
  BY <1>7 DEF WatchdogExpires, OnWorkqueue, SuspendedCovered, FlagFirst
<1>8. CASE Waits
  BY <1>8 DEF Waits, WorkerBlocks, WorkerUnblocks, BlockedOn, OnWorkqueue, SuspendedCovered, FlagFirst
<1>9. CASE RebootWork \/ Restart
  BY <1>9 DEF RebootWork, Restart, Reboot, SuspendedCovered, FlagFirst
<1>10. CASE DfuStarted
  BY <1>10 DEF DfuStarted, Event, OnSmp, SuspendedCovered, FlagFirst
<1>11. CASE DfuProgress \/ DfuStopped
  BY <1>11 DEF DfuProgress, DfuStopped, Event, OnSmp, SuspendedCovered, FlagFirst
<1>12. CASE UNCHANGED vars
  BY <1>12, OthersKeepSuspended DEF vars
<1> QED
  BY <1>1, <1>2, <1>3, <1>4, <1>5, <1>6, <1>7, <1>8, <1>9, <1>10, <1>11, <1>12
     DEF Next, ZbossRuns, WorkqueueRuns

\* As long as the watchdog work never runs between the two lines of DFU_STARTED
\* that raise the flag and suspend the thread, a suspended ZBOSS always has an
\* actor that will resume it: that one overtaking is the only way to the
\* violation of ZbossResumes.
THEOREM ResumedUnlessOvertaken ==
    Spec /\ [][~Overtakes]_vars
        => [](zboss = "suspended" => smp # "idle" \/ worker = "resume" \/ watchdog \/ watchdog_due)
<1>1. Init => SuspendedCovered /\ FlagFirst
  BY DEF Init, SuspendedCovered, FlagFirst
<1>2. (SuspendedCovered /\ FlagFirst) /\ [Next]_vars /\ [~Overtakes]_vars
          => (SuspendedCovered /\ FlagFirst)'
  <2>1. CASE UNCHANGED vars
    BY <2>1, OthersKeepSuspended DEF vars
  <2> QED
    BY <2>1, SuspendedStep
<1>3. SuspendedCovered /\ WatchdogCovers
          => (zboss = "suspended" => smp # "idle" \/ worker = "resume" \/ watchdog \/ watchdog_due)
  BY DEF SuspendedCovered, WatchdogCovers
<1> QED
  BY <1>1, <1>2, <1>3, WatchdogCoversHolds, PTL DEF Spec
=============================================================================
