-------------------------- MODULE BleClientProofs --------------------------
(***************************************************************************)
(* What holds of BleClient for any images, upload length and bounds: the   *)
(* types, the stream goes only to a peer that asked for it, no image that  *)
(* nobody can connect to becomes permanent, unpairing never leaves one     *)
(* side bonded alone, and the device forgets no link that it has to end    *)
(* and no advertising that it has to start.                                *)
(***************************************************************************)
EXTENDS BleClient, TLAPS

\* A connection without a peer that may write carries no stream.
StreamInv ==
    /\ stream_active => asked
    /\ link \in {"none", "opened"} => ~stream_active

\* Where the client holds no connection, or needs none.
Connecting == {"scan", "exit", "unbond"}

\* Why a failed update rolls back.  A client that is connected proves that the
\* running image is a good one; so the image kept for the rollback is good, from
\* the test request until the update is confirmed, and only the image a client
\* is talking to is ever confirmed.
SlotInv ==
    /\ slot \in Images \X (Images \cup {NoImage})
    /\ image \in Images /\ command \in FirstSteps
    /\ confirmed \in BOOLEAN /\ pending \in {"none", "test"}
    /\ pc \notin Connecting => Slot0 \notin Bad
    /\ pc = "confirm" => image = Slot0
    /\ pc = "test" => Slot1 \in Images
    /\ pending = "test" => Slot0 \notin Bad /\ Slot1 \in Images
    /\ ~confirmed => Slot1 \in Images \ Bad
    /\ confirmed => Slot0 \notin Bad

---------------------------------------------------------------------------
(* The stream.                                                             *)

\* Only the Bluetooth host clears the flag and only the peer's own request
\* raises it, on a link that is up.
THEOREM StreamedToAskerHolds == Spec => []StreamedToAsker
<1>1. Init => StreamInv
  BY DEF Init, DeviceInit, StreamInv
<1>2. StreamInv /\ [Next]_vars => StreamInv'
  <2> SUFFICES ASSUME StreamInv, [Next]_vars PROVE StreamInv'
    OBVIOUS
  <2> USE DEF StreamInv
  <2>1. CASE UNCHANGED deviceVars
    BY <2>1 DEF deviceVars, radio
  <2>2. CASE LinkOpens
    BY <2>2 DEF LinkOpens
  <2>3. CASE LinkLost
    BY <2>3 DEF LinkLost
  <2>4. CASE Stream(TRUE) \/ Stream(FALSE)
    BY <2>4 DEF Stream, Received, radio
  <2>5. CASE Clearbond
    BY <2>5 DEF Clearbond, radio
  <2>6. CASE DeviceRestart
    BY <2>6 DEF DeviceRestart
  <2>7. CASE HostRuns
    BY <2>7 DEF HostRuns, ConnectFailed, Connected, SecurityChanged, SecurityReported,
                Disconnected, Hangup
  <2>8. CASE WorkqueueRuns
    BY <2>8 DEF WorkqueueRuns, AdvRestartWork, ClearbondUnpairs, ClearbondRuns,
                ClearbondDisconnects, ClearbondEnds
  <2>9. CASE MainRuns
    BY <2>9 DEF MainRuns, MainTest, MainStart, MainTries, radio
  <2>10. CASE \E l \in {"weak", "L3"} : SecurityEnds(l)
    BY <2>10 DEF SecurityEnds
  <2>11. CASE ClientRuns
    BY <2>1, <2>2, <2>3, <2>4, <2>5, <2>6, <2>11
    DEF ClientRuns, ConnectBLE, Exit, LinkGone, SendStream, SendStop, SendClearbond,
        RemoveBond, UnpairHostOnly, StartUpload, UploadChunk, ReadHash, ImageTest,
        CheckSlots, ImageConfirm, OsReset, FlashStep, Boot
  <2>12. CASE UNCHANGED vars
    BY <2>1, <2>12 DEF vars
  <2> QED
    BY <2>1, <2>6, <2>7, <2>8, <2>9, <2>10, <2>11, <2>12
    DEF Next, Restart, Boot, Start, Security, Host, Workqueue, MainLoop
<1>3. StreamInv => StreamedToAsker
  BY DEF StreamInv, StreamedToAsker, Forwards
<1> QED
  BY <1>1, <1>2, <1>3, PTL DEF Spec

---------------------------------------------------------------------------
(* The update.                                                             *)

\* A restart runs the image under test once and then goes back.
LEMMA BootKeepsSlots ==
    ASSUME SlotInv, Boot, UNCHANGED <<command, image>>, pc' \in {pc, "exit"}, pc' = pc => pc \in {"scan", "unbond", "exit"}
    PROVE  SlotInv'
<1> USE DEF SlotInv, Connecting, Slot0, Slot1
<1>1. CASE pending = "test"
  BY <1>1 DEF Boot
<1>2. CASE pending = "none" /\ ~confirmed
  BY <1>2 DEF Boot
<1>3. CASE pending = "none" /\ confirmed
  BY <1>3 DEF Boot
<1> QED
  BY <1>1, <1>2, <1>3

LEMMA SlotsStaySound == Spec => []SlotInv
<1>1. Init => SlotInv
  BY ImageAssumption DEF Init, SlotInv, Connecting, Slot0, Slot1, Images, FirstSteps
<1>2. SlotInv /\ [Next]_vars => SlotInv'
  <2> SUFFICES ASSUME SlotInv, [Next]_vars PROVE SlotInv'
    OBVIOUS
  <2> USE DEF SlotInv, Connecting, Slot0, Slot1
  <2>1. CASE \E first \in FirstSteps, i \in Images : Start(first, i)
    BY <2>1 DEF Start, slots
  <2>2. CASE ConnectBLE
    <3>1. pc' = command /\ Slot0 \notin Bad /\ UNCHANGED <<command, image, slots>>
      BY <2>2 DEF ConnectBLE
    <3> QED
      BY <3>1 DEF slots, FirstSteps
  <2>3. CASE Exit \/ LinkGone \/ RemoveBond \/ UnpairHostOnly
    BY <2>3 DEF Exit, LinkGone, RemoveBond, UnpairHostOnly, Unbonds, Quits, slots
  <2>4. CASE SendStream \/ SendStop \/ SendClearbond \/ StartUpload
    BY <2>4 DEF SendStream, SendStop, SendClearbond, StartUpload, FlashStep, Ask, slots
  <2>5. CASE UploadChunk
    BY <2>5 DEF UploadChunk, FlashStep, Ask
  <2>6. CASE ReadHash
    BY <2>6 DEF ReadHash, FlashStep, Ask, slots
  <2>7. CASE ImageTest
    BY <2>7 DEF ImageTest, FlashStep, Ask
  <2>8. CASE CheckSlots
    BY <2>8 DEF CheckSlots, FlashStep, Ask, slots
  <2>9. CASE ImageConfirm
    BY <2>9 DEF ImageConfirm, FlashStep, Ask
  <2>10. CASE OsReset
    BY <2>10, BootKeepsSlots DEF OsReset
  <2>11. CASE Restart
    BY <2>11, BootKeepsSlots DEF Restart
  <2>12. CASE Security \/ Host \/ Workqueue \/ MainLoop
    BY <2>12 DEF Security, Host, Workqueue, MainLoop, Others, clientVars, slots
  <2>13. CASE UNCHANGED vars
    BY <2>13 DEF vars, clientVars, slots
  <2> QED
    BY <2>1, <2>2, <2>3, <2>4, <2>5, <2>6, <2>7, <2>8, <2>9, <2>10, <2>11, <2>12, <2>13
    DEF Next, ClientRuns
<1> QED
  BY <1>1, <1>2, PTL DEF Spec

\* No image on which nobody can connect becomes permanent, with any images and
\* whatever commands, failures and restarts come between.
THEOREM BadImageRollsBackHolds == Spec => []BadImageRollsBack
<1>1. SlotInv => BadImageRollsBack
  BY DEF SlotInv, BadImageRollsBack
<1> QED
  BY <1>1, SlotsStaySound, PTL
---------------------------------------------------------------------------
(* The types.                                                              *)

\* The device's own variables, one group of actions at a time.
LEMMA DeviceStep ==
    ASSUME DeviceTypeOK, [Next]_vars
    PROVE  DeviceTypeOK'
<1> USE FailuresAssumption DEF DeviceTypeOK
<1>1. CASE UNCHANGED deviceVars
  BY <1>1 DEF deviceVars, radio, works
<1>2. CASE LinkOpens \/ LinkLost \/ \E l \in {"weak", "L3"} : SecurityEnds(l)
  BY <1>2 DEF LinkOpens, LinkLost, SecurityEnds, works
<1>3. CASE HostRuns
  BY <1>3 DEF HostRuns, ConnectFailed, Connected, SecurityChanged, SecurityReported,
              Disconnected, Hangup, works
<1>4. CASE Stream(TRUE) \/ Stream(FALSE) \/ Clearbond
  BY <1>4 DEF Stream, Clearbond, radio, works
<1>5. CASE DeviceRestart
  BY <1>5 DEF DeviceRestart
<1>6. CASE ClearbondUnpairs \/ ClearbondDisconnects
  BY <1>6 DEF ClearbondUnpairs, ClearbondRuns, ClearbondDisconnects, ClearbondEnds
<1>7. ASSUME NEW ok \in BOOLEAN, Advertise(ok)
      PROVE  advertising' \in BOOLEAN /\ failures' \in 0 .. MaxFailures
  BY <1>7 DEF Advertise
<1>8. CASE \E ok \in BOOLEAN : AdvRestartWork(ok)
  BY <1>7, <1>8 DEF AdvRestartWork
<1>9. CASE MainRuns
  BY <1>7, <1>9 DEF MainRuns, MainTest, MainStart, MainTries, radio, works
<1>10. CASE ClientRuns
  BY <1>1, <1>2, <1>4, <1>5, <1>10
  DEF ClientRuns, ConnectBLE, Exit, LinkGone, SendStream, SendStop, SendClearbond, RemoveBond,
      UnpairHostOnly, StartUpload, UploadChunk, ReadHash, ImageTest, CheckSlots, ImageConfirm,
      OsReset, FlashStep, Boot
<1>11. CASE UNCHANGED vars
  BY <1>1, <1>11 DEF vars
<1> QED
  BY <1>1, <1>2, <1>3, <1>5, <1>6, <1>8, <1>9, <1>10, <1>11
  DEF Next, Restart, Boot, Start, Security, Host, Workqueue, WorkqueueRuns, MainLoop

ClientTypeOK ==
    /\ command \in FirstSteps
    /\ pc \in FirstSteps \cup {"scan", "exit", "streaming", "unbond", "done", "upload", "hash", "test", "confirm"}
    /\ image \in Images /\ off \in 0 .. Chunks

\* The upload's offset never runs past the image.
LEMMA OffsetStaysInImage ==
    ASSUME off \in 0 .. Chunks, got \in 0 .. Chunks - 1
    PROVE  /\ NextOffset \in 0 .. Chunks
           /\ NextOffset # Chunks => NextOffset \in 0 .. Chunks - 1
BY ClientBounds DEF NextOffset, ResumeAt

LEMMA ClientStep ==
    ASSUME TypeOK, [Next]_vars
    PROVE  ClientTypeOK'
<1> USE ClientBounds DEF TypeOK, ClientTypeOK, FirstSteps
<1>1. CASE UNCHANGED clientVars
  BY <1>1 DEF clientVars
<1>2. CASE \E first \in FirstSteps, i \in Images : Start(first, i)
  BY <1>2 DEF Start
<1>3. CASE ConnectBLE \/ Exit \/ LinkGone \/ RemoveBond \/ UnpairHostOnly
  BY <1>3 DEF ConnectBLE, Exit, LinkGone, RemoveBond, UnpairHostOnly, Unbonds, Quits
<1>4. CASE SendStream \/ SendStop \/ SendClearbond
  BY <1>4 DEF SendStream, SendStop, SendClearbond, Ask
<1>5. CASE StartUpload \/ ReadHash \/ ImageTest \/ CheckSlots \/ ImageConfirm
  BY <1>5 DEF StartUpload, ReadHash, ImageTest, CheckSlots, ImageConfirm, FlashStep, Ask
<1>6. CASE UploadChunk
  BY <1>6, OffsetStaysInImage DEF UploadChunk, FlashStep, Ask
<1>7. CASE OsReset \/ Restart
  BY <1>7 DEF OsReset, Restart
<1> QED
  BY <1>1, <1>2, <1>3, <1>4, <1>5, <1>6, <1>7
  DEF Next, ClientRuns, Security, Host, Workqueue, MainLoop, Others, vars

SlotsTypeOK ==
    /\ slot \in Images \X (Images \cup {NoImage})
    /\ confirmed \in BOOLEAN /\ pending \in {"none", "test", "permanent"}
    /\ partial \in Files \cup {NoImage} /\ got \in 0 .. Chunks - 1

\* What is uploaded is a file.
FlashesFile ==
    pc \in {"flash", "upload"} \/ (pc = "scan" /\ command = "flash") => image \in Files

LEMMA FileStep ==
    ASSUME command \in FirstSteps, FlashesFile, [Next]_vars
    PROVE  FlashesFile'
<1> USE DEF FlashesFile, FirstSteps
<1>1. CASE UNCHANGED clientVars
  BY <1>1 DEF clientVars
<1>2. CASE \E first \in FirstSteps, i \in Images : Start(first, i)
  BY <1>2 DEF Start
<1>3. CASE ConnectBLE \/ Exit \/ LinkGone \/ RemoveBond \/ UnpairHostOnly
  BY <1>3 DEF ConnectBLE, Exit, LinkGone, RemoveBond, UnpairHostOnly, Unbonds, Quits
<1>4. CASE SendStream \/ SendStop \/ SendClearbond
  BY <1>4 DEF SendStream, SendStop, SendClearbond, Ask
<1>5. CASE StartUpload \/ ReadHash \/ ImageTest \/ CheckSlots \/ ImageConfirm \/ UploadChunk
  BY <1>5
  DEF StartUpload, ReadHash, ImageTest, CheckSlots, ImageConfirm, UploadChunk, FlashStep, Ask
<1>6. CASE OsReset \/ Restart
  BY <1>6 DEF OsReset, Restart
<1> QED
  BY <1>1, <1>2, <1>3, <1>4, <1>5, <1>6
  DEF Next, ClientRuns, Security, Host, Workqueue, MainLoop, Others, vars

LEMMA SlotsStep ==
    ASSUME TypeOK, SlotInv, FlashesFile, SlotInv', [Next]_vars
    PROVE  SlotsTypeOK'
<1> USE ClientBounds DEF TypeOK, SlotsTypeOK, SlotInv
<1>1. CASE UNCHANGED <<slots, upload>>
  BY <1>1 DEF slots, upload
<1>2. CASE UploadChunk
  <2>1. image \in Files /\ image \in Images /\ Slot0 \in Images
    BY <1>2 DEF UploadChunk, FlashesFile, FlashStep, Ask, Images, Slot0
  <2>2. partial' \in {NoImage, image} /\ slot' \in {<<Slot0, image>>, <<Slot0, NoImage>>}
    BY <1>2 DEF UploadChunk
  <2>3. got' \in 0 .. Chunks - 1
    <3>1. got' = IF NextOffset = Chunks THEN 0 ELSE NextOffset
      BY <1>2 DEF UploadChunk
    <3>2. NextOffset # Chunks => NextOffset \in 0 .. Chunks - 1
      BY OffsetStaysInImage
    <3>3. 0 \in 0 .. Chunks - 1
      BY ClientBounds
    <3> QED
      BY <3>1, <3>2, <3>3, Zenon
  <2>4. slot' \in Images \X (Images \cup {NoImage})
    BY <2>1, <2>2
  <2>5. UNCHANGED <<confirmed, pending>>
    BY <1>2 DEF UploadChunk
  <2> QED
    BY <2>1, <2>2, <2>3, <2>4, <2>5
<1>3. CASE ImageTest \/ ImageConfirm
  BY <1>3 DEF ImageTest, ImageConfirm, upload
<1>4. CASE Boot
  BY <1>4 DEF Boot
<1> QED
  BY <1>1, <1>2, <1>3, <1>4
  DEF Next, ClientRuns, Start, ConnectBLE, Exit, LinkGone, RemoveBond, UnpairHostOnly, Unbonds,
      SendStream, SendStop, SendClearbond, StartUpload, ReadHash, CheckSlots, OsReset, Restart,
      Security, Host, Workqueue, MainLoop, Others, vars

LEMMA BondsAndCountsStep ==
    ASSUME TypeOK, [Next]_vars
    PROVE  /\ host_bond' \in BOOLEAN /\ oneSided' \in BOOLEAN
           /\ commands' \in 0 .. MaxCommands /\ restarts' \in 0 .. MaxRestarts
<1> USE ClientBounds DEF TypeOK, DeviceTypeOK
<1>1. CASE UNCHANGED <<host_bond, oneSided, counts>>
  BY <1>1 DEF counts
<1>2. CASE \E first \in FirstSteps, i \in Images : Start(first, i)
  BY <1>2 DEF Start, hostBond
<1>3. CASE Exit \/ LinkGone \/ RemoveBond
  BY <1>3 DEF Exit, LinkGone, Quits, RemoveBond, Unbonds, counts
<1>4. CASE UnpairHostOnly
  <2>1. host_bond' = FALSE /\ oneSided' = (bond /\ ~clear_timer)
    BY <1>4 DEF UnpairHostOnly, Unbonds
  <2>2. oneSided' \in BOOLEAN
    BY <2>1
  <2>3. commands' = commands + 1 /\ commands < MaxCommands /\ restarts' = restarts
    BY <1>4 DEF UnpairHostOnly, Unbonds
  <2>4. commands' \in 0 .. MaxCommands /\ restarts' \in 0 .. MaxRestarts
    BY <2>3
  <2> QED
    BY <2>1, <2>2, <2>4
<1>5. CASE OsReset \/ Restart
  BY <1>5 DEF OsReset, Restart, Boot, counts
<1>6. CASE Security
  BY <1>6 DEF Security, Others, counts
<1> QED
  BY <1>1, <1>2, <1>3, <1>4, <1>5, <1>6
  DEF Next, ClientRuns, ConnectBLE, SendStream, SendStop, SendClearbond, StartUpload, UploadChunk,
      ReadHash, ImageTest, CheckSlots, ImageConfirm, FlashStep, Ask, Host, Workqueue, MainLoop,
      Others, vars, hostBond

\* The device, the client and the slots keep their types; the slots only
\* because a boot that swaps has something to swap in.
THEOREM TypeCorrect == Spec => []TypeOK
<1>1. Init => TypeOK /\ FlashesFile
  <2> SUFFICES ASSUME Init PROVE TypeOK /\ FlashesFile
    OBVIOUS
  <2>1. DeviceTypeOK
    <3>1. failures \in 0 .. MaxFailures
      BY FailuresAssumption DEF Init, DeviceInit
    <3>2. advertising \in BOOLEAN /\ bond \in BOOLEAN
      BY DEF Init, DeviceInit
    <3> QED
      BY <3>1, <3>2 DEF Init, DeviceInit, DeviceTypeOK
  <2>3. host_bond \in BOOLEAN /\ oneSided \in BOOLEAN
    BY DEF Init, DeviceInit
  <2>2. slot \in Images \X (Images \cup {NoImage})
    BY DEF Init, Images
  <2> QED
    BY <2>1, <2>2, <2>3, ClientBounds DEF Init, TypeOK, FlashesFile, FirstSteps, Images
<1>2. TypeOK /\ FlashesFile /\ SlotInv /\ SlotInv' /\ [Next]_vars => TypeOK' /\ FlashesFile'
  <2> SUFFICES ASSUME TypeOK, FlashesFile, SlotInv, SlotInv', [Next]_vars
               PROVE  TypeOK' /\ FlashesFile'
    OBVIOUS
  <2>1. DeviceTypeOK'
    BY DeviceStep DEF TypeOK
  <2>2. ClientTypeOK' /\ FlashesFile'
    BY ClientStep, FileStep DEF TypeOK
  <2>3. SlotsTypeOK'
    BY SlotsStep
  <2> QED
    BY <2>1, <2>2, <2>3, BondsAndCountsStep DEF TypeOK, ClientTypeOK, SlotsTypeOK
<1> QED
  BY <1>1, <1>2, SlotsStaySound, PTL DEF Spec

---------------------------------------------------------------------------
(* The bonds.                                                              *)

\* Whichever side is first, the other one is on its way: a device that is about
\* to forget its keys was asked by a client that still has the host's to remove,
\* or did so already; and the link of such a client was secured long ago, so
\* that it does not store the keys of a new pairing.
BondInv ==
    /\ pc = "unbond" => link # "opened" /\ (link = "up" => level # "none")
    /\ ~oneSided =>
         /\ host_bond # bond => clear_timer \/ pc = "unbond"
         /\ clear_timer => ~host_bond \/ pc = "unbond"
         /\ pc = "unbond" /\ bond => clear_timer

LEMMA BondStep ==
    ASSUME TypeOK, BondInv, [Next]_vars
    PROVE  BondInv'
<1> USE DEF BondInv, TypeOK, DeviceTypeOK
<1>1. CASE UNCHANGED <<radio, clear_timer, hostBond>> /\ (pc' = "unbond" => pc = "unbond") /\ pc # "unbond"
  BY <1>1 DEF radio, hostBond
<1>2. CASE ConnectBLE
  BY <1>2 DEF ConnectBLE, LinkOpens, hostBond, works, FirstSteps
<1>3. CASE Exit
  BY <1>3 DEF Exit, Quits, LinkLost, deviceVars, radio, works
<1>4. CASE LinkGone
  BY <1>4 DEF LinkGone, Quits, deviceVars, radio, works
<1>5. CASE SendClearbond
  BY <1>5 DEF SendClearbond, Ask, Clearbond, Received, radio, hostBond
<1>6. CASE RemoveBond
  BY <1>6 DEF RemoveBond, Unbonds, LinkLost, deviceVars, radio, works
<1>7. CASE UnpairHostOnly
  BY <1>7 DEF UnpairHostOnly, Unbonds, deviceVars, radio, works
<1>8. CASE OsReset
  BY <1>8 DEF OsReset, Boot, DeviceRestart
<1>9. CASE Restart
  BY <1>9 DEF Restart, Boot, DeviceRestart
<1>10. CASE Security
  <2>1. CASE SecurityEnds("weak") /\ UNCHANGED host_bond
    BY <1>10, <2>1 DEF Security, SecurityEnds, Others, clientVars, works
  <2>2. CASE SecurityEnds("L3") /\ host_bond' = TRUE /\ (bond \/ ~clear_timer)
    <3>1. bond' = TRUE /\ pc # "unbond" /\ UNCHANGED <<pc, oneSided, clear_timer>>
      BY <1>10, <2>2 DEF Security, SecurityEnds, Others, clientVars, works
    <3> QED
      BY <1>10, <2>2, <3>1 DEF Security
  <2> QED
    BY <1>10, <2>1, <2>2 DEF Security
<1>11. CASE HostRuns /\ UNCHANGED <<pc, hostBond>>
  BY <1>11 DEF HostRuns, ConnectFailed, Connected, SecurityChanged, SecurityReported,
               Disconnected, Hangup, hostBond, works
<1>12. CASE WorkqueueRuns /\ UNCHANGED <<pc, hostBond>>
  BY <1>12 DEF WorkqueueRuns, AdvRestartWork, ClearbondUnpairs, ClearbondRuns,
               ClearbondDisconnects, ClearbondEnds, hostBond
<1>13. CASE MainRuns /\ UNCHANGED <<pc, hostBond>>
  BY <1>13 DEF MainRuns, MainTest, MainStart, MainTries, hostBond, radio, works
<1>14. CASE UNCHANGED vars
  BY <1>14 DEF vars, deviceVars, clientVars, radio, works, hostBond
<1>15. CASE SendStream \/ SendStop
  BY <1>15 DEF SendStream, SendStop, Ask, Stream, radio, works, hostBond
<1> QED
  BY <1>1, <1>2, <1>3, <1>4, <1>5, <1>6, <1>7, <1>8, <1>9, <1>10, <1>11, <1>12, <1>13, <1>14, <1>15
  DEF Next, ClientRuns, Start, StartUpload, UploadChunk, ReadHash, ImageTest, CheckSlots,
      ImageConfirm, FlashStep, Ask, Host, Workqueue, MainLoop, Others, clientVars, deviceVars, works,
      hostBond

\* After a device-first unpairing both sides have keys, or neither, whatever
\* the order of the client's removal and the device's, and of link losses.
THEOREM BondsAgreeHolds == Spec => []BondsAgree
<1>1. Init => BondInv
  BY DEF Init, DeviceInit, BondInv
<1>2. BondInv => BondsAgree
  BY DEF BondInv, BondsAgree
<1> QED
  BY <1>1, <1>2, TypeCorrect, BondStep, PTL DEF Spec

---------------------------------------------------------------------------
(* What the device still has to do for a link.                             *)

\* current_conn is the link that connected reported, and only a peer on it can
\* have ended the security procedure.
LinkInv ==
    /\ current_conn <=> link \in {"up", "closed"}
    /\ advertising => link = "none"
    /\ level # "none" => link \in {"up", "closed"}

\* Without a link the main loop finds no connection and starts advertising again:
\* no disconnection leaves current_conn behind.
AdvertisingIsTried == link = "none" => ~current_conn

\* A session whose keys clearbond removed is being closed, or clearbond_work has
\* still to disconnect it, and will find its connection.
StaleSessionIsEnding ==
    level = "L3" /\ ~bond => link = "closed" \/ (link = "up" /\ clearing /\ current_conn)

\* A link that stayed below L3 is being closed, or security_changed has still to
\* see it.
WeakLinkIsEnding == level = "weak" => link \in {"up", "closed"}

SessionInv == LinkInv /\ StaleSessionIsEnding

LEMMA SessionStep ==
    ASSUME DeviceTypeOK, SessionInv, [Next]_vars
    PROVE  SessionInv'
<1> USE DEF DeviceTypeOK, SessionInv, LinkInv, StaleSessionIsEnding
<1>1. CASE UNCHANGED <<radio, current_conn, clearing>>
  BY <1>1 DEF radio
<1>2. CASE LinkOpens \/ LinkLost
  BY <1>2 DEF LinkOpens, LinkLost, works
<1>3. CASE SecurityEnds("weak") \/ SecurityEnds("L3")
  BY <1>3 DEF SecurityEnds, works
<1>4. CASE HostRuns
  BY <1>4 DEF HostRuns, ConnectFailed, Connected, SecurityChanged, SecurityReported,
              Disconnected, Hangup, works
<1>5. CASE Stream(TRUE) \/ Stream(FALSE) \/ Clearbond
  BY <1>1, <1>5 DEF Stream, Clearbond, works
<1>6. CASE DeviceRestart
  BY <1>6 DEF DeviceRestart
<1>7. CASE ClearbondUnpairs
  BY <1>7 DEF ClearbondUnpairs, ClearbondRuns
<1>8. CASE ClearbondDisconnects
  BY <1>8 DEF ClearbondDisconnects, ClearbondEnds
<1>9. CASE MainRuns \/ \E ok \in BOOLEAN : AdvRestartWork(ok)
  <2>1. UNCHANGED <<link, level, bond, current_conn, clearing>>
        /\ (advertising' => advertising \/ link = "none")
    BY <1>9 DEF MainRuns, MainTest, MainStart, MainTries, AdvRestartWork, Advertise, radio, works
  <2> QED
    BY <2>1
<1>10. CASE ClientRuns
  BY <1>1, <1>2, <1>5, <1>6, <1>10
  DEF ClientRuns, ConnectBLE, Exit, LinkGone, SendStream, SendStop, SendClearbond, RemoveBond,
      UnpairHostOnly, StartUpload, UploadChunk, ReadHash, ImageTest, CheckSlots, ImageConfirm,
      OsReset, FlashStep, Boot, deviceVars, works
<1>11. CASE UNCHANGED vars
  BY <1>1, <1>11 DEF vars, deviceVars, works
<1> QED
  BY <1>1, <1>3, <1>4, <1>6, <1>7, <1>8, <1>9, <1>10, <1>11
  DEF Next, Restart, Boot, Start, Security, Host, Workqueue, WorkqueueRuns, MainLoop, deviceVars, works

\* The device never owes a link something that nothing is left to do: whatever
\* was lost, refused, unpaired or reconnected, the main loop sees that it has to
\* advertise, a session without keys and a weak link are still to be closed.
\* AdvertisingReturns, StaleSessionEnds and WeakLinkEnds rest on this.
THEOREM NoLinkIsForgotten ==
    Spec => [](AdvertisingIsTried /\ StaleSessionIsEnding /\ WeakLinkIsEnding)
<1>1. Init => SessionInv
  BY DEF Init, DeviceInit, SessionInv, LinkInv, StaleSessionIsEnding
<1>2. TypeOK /\ SessionInv /\ [Next]_vars => SessionInv'
  BY SessionStep DEF TypeOK
<1>3. SessionInv => AdvertisingIsTried /\ StaleSessionIsEnding /\ WeakLinkIsEnding
  BY DEF SessionInv, LinkInv, AdvertisingIsTried, WeakLinkIsEnding
<1> QED
  BY <1>1, <1>2, <1>3, TypeCorrect, PTL DEF Spec
=============================================================================
