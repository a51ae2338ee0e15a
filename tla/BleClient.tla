----------------------------- MODULE BleClient -----------------------------
(***************************************************************************)
(* The maintenance client of tools/ble-client (stream, unpair, flash,      *)
(* confirm, reboot) talking to the device of BleTransport.                 *)
(*                                                                         *)
(* A client command is one process: it connects, runs its steps in order,  *)
(* and exits at the first error, timeout or signal, which ends the link;   *)
(* so no answer to an abandoned request can meet a later one, and smp.go's *)
(* call is one step: the request and its effect, then the answer.  An      *)
(* answer that is lost ends the client after the effect.                   *)
(*                                                                         *)
(* External: MCUmgr's image group (an upload resumed from the offset it    *)
(* remembers, slot 1 refused while it is pending or needed to roll back,   *)
(* confirmation by hash, as main.go:223-232 describes it) and MCUboot,     *)
(* which swaps a pending image in at a restart and back at the next one    *)
(* unless it was confirmed.  An image stands for its hash.  The bond of the *)
(* host is kept by BlueZ; a connection for which only one side has keys    *)
(* never reaches L3, as main.go:562-564 describes it.                      *)
(***************************************************************************)
EXTENDS BleTransport

CONSTANTS
    Files,       \* images a user may flash
    Old,         \* the image the device was delivered with
    Bad,         \* images on which nobody can connect
    Chunks,      \* upload requests one image takes
    MaxCommands, \* bound: client commands
    MaxRestarts  \* bound: power losses, faults and watchdog resets

ASSUME ImageAssumption == Bad \subseteq Files /\ Old \notin Files
ASSUME ClientBounds == Chunks \in Nat \ {0} /\ {MaxCommands, MaxRestarts} \subseteq Nat

Images == Files \cup {Old}
NoImage == "none"

VARIABLES
    \* the client process
    command, pc,    \* its first step once connected, and the next one: "scan" before
                    \* it is connected, "exit" when no client runs
    image,          \* the file it flashes, or the image its user asks to confirm
    off,            \* imageUpload's offset, in chunks
    \* the device's slots (external)
    slot,           \* images in slots 0 and 1; NoImage also for an incomplete one
    confirmed,      \* slot 0 needs no confirmation
    pending,        \* what the next boot does with slot 1: "none", "test", "permanent"
    partial, got,   \* the upload MCUmgr remembers, and its next offset
    host_bond,      \* external: BlueZ knows the device and its keys
    commands, restarts, \* history
    oneSided        \* history: something cut an unpairing short that may leave one side bonded

slots == <<slot, confirmed, pending>>
upload == <<partial, got>>
clientVars == <<command, pc, image, off>>
counts == <<commands, restarts>>
hostBond == <<host_bond, oneSided>>
vars == <<deviceVars, clientVars, slots, upload, counts, hostBond>>

Init ==
    /\ DeviceInit
    /\ command = "stream" /\ pc = "exit" /\ image = Old /\ off = 0
    /\ slot = <<Old, NoImage>> /\ confirmed = TRUE /\ pending = "none"
    /\ partial = NoImage /\ got = 0
    /\ host_bond = bond /\ oneSided = FALSE
    /\ commands = 0 /\ restarts = 0

Slot0 == slot[1]
Slot1 == slot[2]

---------------------------------------------------------------------------
(* The client's connection.                                                *)

FirstSteps == {"stream", "unpair", "flash", "slots", "reboot"}

\* A command line; the two that name an image come with one.
Start(first, i) ==
    /\ pc = "exit" /\ commands < MaxCommands /\ commands' = commands + 1
    /\ first \in {"flash", "slots"} \/ i = image
    /\ first = "flash" => i \in Files
    /\ command' = first /\ pc' = "scan" /\ image' = i /\ off' = 0
    /\ UNCHANGED <<deviceVars, slots, upload, restarts, hostBond>>

\* connectBLE scans until the device is found.
ConnectBLE ==
    /\ pc = "scan" /\ Slot0 \notin Bad
    /\ LinkOpens
    /\ pc' = command
    /\ UNCHANGED <<command, image, off, slots, upload, counts, hostBond>>

\* Before cmdUnpair reached the host's bond, too: no answer came, or a signal.
Quits ==
    /\ pc' = "exit"
    /\ oneSided' = (oneSided \/ pc = "unbond")
    /\ UNCHANGED <<command, image, off, host_bond>>

\* The command is done, was interrupted, met an error or ran into a timeout.
Exit ==
    /\ IF pc = "scan" THEN UNCHANGED deviceVars ELSE pc # "exit" /\ LinkLost
    /\ Quits
    /\ UNCHANGED <<slots, upload, counts>>

\* It notices that the device is gone.
LinkGone ==
    /\ pc \notin {"scan", "exit"} /\ link \in {"none", "closed"} /\ Quits
    /\ UNCHANGED <<deviceVars, slots, upload, counts>>

Ask(from, to) ==
    pc = from /\ Received /\ pc' = to /\ UNCHANGED <<command, image, counts, hostBond>>

---------------------------------------------------------------------------
(* cmdStream and cmdUnpair.                                                *)

SendStream ==
    Ask("stream", "streaming") /\ Stream(TRUE) /\ UNCHANGED <<off, slots, upload>>
SendStop ==
    Ask("streaming", "done") /\ Stream(FALSE) /\ UNCHANGED <<off, slots, upload>>
SendClearbond ==
    Ask("unpair", "unbond") /\ Clearbond /\ UNCHANGED <<off, slots, upload>>

\* removeBond.
Unbonds == host_bond' = FALSE /\ UNCHANGED <<command, image, off, slots, upload, restarts>>

\* The rest of cmdUnpair, also when the device is gone by now.
RemoveBond ==
    /\ pc = "unbond" /\ pc' = "exit"
    /\ IF link = "up" THEN LinkLost ELSE UNCHANGED deviceVars
    /\ Unbonds
    /\ UNCHANGED <<commands, oneSided>>

\* unpair --host-only repairs every unpairing cut short, unless the device keeps
\* its own bond.
UnpairHostOnly ==
    /\ pc = "exit" /\ commands < MaxCommands /\ commands' = commands + 1
    /\ Unbonds
    /\ oneSided' = (bond /\ ~clear_timer)
    /\ UNCHANGED <<deviceVars, pc>>

---------------------------------------------------------------------------
(* cmdFlash.                                                               *)

FlashStep(from, to) == Ask(from, to) /\ UNCHANGED deviceVars

StartUpload ==
    FlashStep("flash", "upload") /\ off' = 0 /\ UNCHANGED <<slots, upload>>

\* The offset the device answers: a first chunk of the file it has a part of
\* resumes there, another one starts over, and a chunk out of place is not
\* written.  Variant: a chunk is counted twice.
ResumeAt(step) ==
    IF off = 0
    THEN IF partial = image THEN got ELSE 1
    ELSE IF partial = image /\ off = got THEN off + step ELSE got
NextOffsetSkips == ResumeAt(2)
NextOffset == ResumeAt(1)

UploadChunk ==
    /\ pending = "none" /\ confirmed
    /\ NextOffset > off  \* otherwise "upload stalled"
    /\ off' = NextOffset
    /\ LET whole == NextOffset = Chunks
       IN /\ FlashStep("upload", IF whole THEN "hash" ELSE "upload")
          /\ slot' = <<Slot0, IF whole THEN image ELSE NoImage>>
          /\ partial' = IF whole THEN NoImage ELSE image
          /\ got' = IF whole THEN 0 ELSE NextOffset
    /\ UNCHANGED <<confirmed, pending>>

\* imageSlot1Hash, and the hash it read goes into the next request.
ReadHash ==
    /\ Slot1 # NoImage
    /\ FlashStep("hash", "test") /\ UNCHANGED <<off, slots, upload>>

ImageTest ==
    /\ FlashStep("test", "reboot")
    /\ pending' = "test"
    /\ UNCHANGED <<off, slot, confirmed, upload>>

---------------------------------------------------------------------------
(* cmdConfirm.                                                             *)

\* Variant: any slot may hold the image, as MCUmgr would accept.
CheckAnySlot ==
    /\ image \in {Slot0, Slot1} /\ (image = Slot0 => ~confirmed)
    /\ FlashStep("slots", "confirm") /\ UNCHANGED <<off, slots, upload>>

\* Only the image that runs from slot 0 and is not confirmed yet.
CheckSlots ==
    /\ image = Slot0 /\ ~confirmed
    /\ FlashStep("slots", "confirm") /\ UNCHANGED <<off, slots, upload>>

\* MCUmgr confirms the running image, or makes the one in slot 1 permanent.
ImageConfirm ==
    /\ FlashStep("confirm", "done")
    /\ image \in {Slot0, Slot1}
    /\ IF image = Slot0
       THEN confirmed' = TRUE /\ UNCHANGED pending
       ELSE pending' = "permanent" /\ UNCHANGED confirmed
    /\ UNCHANGED <<off, slot, upload>>

---------------------------------------------------------------------------
(* Restarts.                                                               *)

\* MCUboot (external).
Boot ==
    LET swaps == pending # "none" \/ ~confirmed
    IN /\ slot' = IF swaps THEN <<Slot1, Slot0>> ELSE slot
       /\ confirmed' = (pending # "test")
       /\ pending' = "none"
       /\ partial' = NoImage /\ got' = 0
       /\ DeviceRestart
       /\ oneSided' = (oneSided \/ clear_timer)
       /\ UNCHANGED host_bond

\* cmdReboot, and the end of cmdFlash.
OsReset ==
    /\ Received /\ pc = "reboot" /\ pc' = "exit"
    /\ Boot
    /\ UNCHANGED <<command, image, off, counts>>

\* A client that was connected finds the link gone and exits, unless nothing but
\* the host's bond is left to remove.
Restart ==
    /\ restarts < MaxRestarts /\ restarts' = restarts + 1
    /\ Boot
    /\ pc' = IF pc \in {"scan", "unbond"} THEN pc ELSE "exit"
    /\ UNCHANGED <<command, image, off, commands>>

---------------------------------------------------------------------------
ClientRuns ==
    \/ ConnectBLE \/ Exit \/ LinkGone
    \/ SendStream \/ SendStop \/ SendClearbond \/ RemoveBond \/ UnpairHostOnly
    \/ StartUpload \/ UploadChunk \/ ReadHash \/ ImageTest
    \/ CheckSlots \/ ImageConfirm \/ OsReset

Others == UNCHANGED <<clientVars, slots, upload, counts, oneSided>>

\* L3 needs the keys of both sides or of neither, and pairing anew takes longer
\* than the 300 ms of clearbond_work.
Security ==
    /\ Others
    /\ \/ SecurityEnds("weak") /\ UNCHANGED host_bond
       \/ /\ host_bond = bond /\ (bond \/ ~clear_timer)
          /\ SecurityEnds("L3") /\ host_bond' = TRUE

Host == HostRuns /\ Others /\ UNCHANGED host_bond
Workqueue == WorkqueueRuns /\ Others /\ UNCHANGED host_bond
MainLoop == MainRuns /\ Others /\ UNCHANGED host_bond

Next ==
    \/ ClientRuns \/ Restart
    \/ \E first \in FirstSteps, i \in Images : Start(first, i)
    \/ Security \/ Host \/ Workqueue \/ MainLoop

Spec == Init /\ [][Next]_vars

\* The device's threads run.  Nothing is assumed of clients, of the peer's
\* security procedure or of the radio link.
FairSpec == Spec /\ WF_vars(Host) /\ WF_vars(Workqueue) /\ WF_vars(MainLoop)

---------------------------------------------------------------------------
TypeOK ==
    /\ DeviceTypeOK
    /\ command \in FirstSteps
    /\ pc \in FirstSteps \cup {"scan", "exit", "streaming", "unbond", "done", "upload", "hash", "test", "confirm"}
    /\ image \in Images /\ off \in 0 .. Chunks
    /\ slot \in Images \X (Images \cup {NoImage})
    /\ confirmed \in BOOLEAN /\ pending \in {"none", "test", "permanent"}
    /\ partial \in Files \cup {NoImage} /\ got \in 0 .. Chunks - 1
    /\ host_bond \in BOOLEAN /\ oneSided \in BOOLEAN
    /\ commands \in 0 .. MaxCommands /\ restarts \in 0 .. MaxRestarts

\* Unpairing the device first and the host after it never leaves one side with
\* keys the other lost, which would lock the host out (main.go:562-564): neither
\* when the host is done within the 300 ms before the device acts, nor when the
\* device is gone by the time the host goes on.  What an interruption left is
\* repaired by unpair --host-only once the device has no bond.
BondsAgree == ~oneSided => (host_bond # bond => clear_timer \/ pc = "unbond")

\* The device never keeps an image for good on which nobody can connect: a
\* failed update rolls back, and confirming it afterwards, or in the middle of
\* a restart, does not undo that (main.go:223-232).
BadImageRollsBack ==
    (Slot0 \in Bad => ~confirmed) /\ (Slot1 \in Bad => pending # "permanent")
=============================================================================
