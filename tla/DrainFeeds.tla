----------------------------- MODULE DrainFeeds -----------------------------
(***************************************************************************)
(* drain_work_handler of src/rs485_uart.c hands each chunk to two          *)
(* consumers with accumulators of different sizes: the panel mirror, which *)
(* decodes the FC10 and FC06 broadcasts, and the slave, which decodes      *)
(* requests.  Each sees the other's frames as noise.  The bus (external)   *)
(* sends frames back to back, without the silence Modbus prescribes, some  *)
(* of them damaged or cut short; chunks end anywhere.  A decoded FC06       *)
(* updates the counters of PanelMirror; the serial number of its frame     *)
(* stands for the value it carries.                                        *)
(***************************************************************************)
EXTENDS PanelMirror, Sequences

CONSTANTS
    Frames,        \* the frames the bus may send: [kind, fault, lost, decoy, addr];
                   \* a cut frame has lost so many bytes at its end
    CHUNK,         \* sizeof(tmp) in drain_work_handler
    MIRROR_ACCUM,  \* ACCUM_SIZE of panel_mirror.c
    SLAVE_ACCUM,   \* ACCUM_SIZE of flexit_slave.c
    MaxBytes,      \* bound: bytes sent
    MaxFailures    \* bound: crc_failures is counted up to this

Length == [fc10 |-> 7, fc06 |-> 3, request |-> 3]
Header == [fc10 |-> 3, fc06 |-> 2, request |-> 2]

ASSUME FramesAssumption ==
    /\ Frames \subseteq [kind : {"fc10", "fc06", "request"}, fault : {"none", "crc", "cut"},
                         lost : Nat, decoy : {"none", "fc06", "request"}, addr : Addresses]
    /\ \A f \in Frames : f.lost < Length[f.kind] /\ (f.lost > 0 <=> f.fault = "cut")
ASSUME BoundsAssumption == CHUNK \in Nat \ {0} /\ MaxBytes \in Nat

VARIABLES
    sent, line,     \* the frames on the bus so far; their bytes not drained yet
    spent,          \* the number of bytes sent
    worker, chunk,  \* whom the drain worker is feeding, and what
    m_accum, m_scanning, m_crc_failures, m_decoded, m_overrun,
    s_accum, s_scanning, s_crc_failures, s_decoded, s_overrun

mirrorVars == <<m_accum, m_scanning, m_crc_failures, m_decoded, m_overrun>>
slaveVars == <<s_accum, s_scanning, s_crc_failures, s_decoded, s_overrun>>
vars == <<sent, line, spent, worker, chunk, mirrorVars, table, slaveVars>>

mirror == INSTANCE FrameScanner
    WITH Kinds <- {"fc10", "fc06"}, ACCUM <- MIRROR_ACCUM,
         accum <- m_accum, scanning <- m_scanning, crc_failures <- m_crc_failures,
         decoded <- m_decoded, overrun <- m_overrun
slave == INSTANCE FrameScanner
    WITH Kinds <- {"request"}, ACCUM <- SLAVE_ACCUM,
         accum <- s_accum, scanning <- s_scanning, crc_failures <- s_crc_failures,
         decoded <- s_decoded, overrun <- s_overrun

ASSUME SizesAssumption == mirror!SizesFit /\ slave!SizesFit

Init ==
    /\ sent = <<>> /\ line = <<>> /\ spent = 0 /\ worker = "idle" /\ chunk = <<>>
    /\ mirror!ScanInit /\ MirrorInit /\ slave!ScanInit

Size(f) == Length[f.kind] - f.lost
Bytes(id, f) == [i \in 1 .. Size(f) |-> <<id, i>>]

\* What lies beyond the next chunk makes no difference: it is sent when needed.
Transmit(f) ==
    /\ worker = "idle"
    /\ spent + Size(f) <= MaxBytes /\ Len(line) < CHUNK
    /\ sent' = Append(sent, f) /\ spent' = spent + Size(f)
    /\ line' = line \o Bytes(Len(sent) + 1, f)
    /\ UNCHANGED <<worker, chunk, mirrorVars, table, slaveVars>>

\* ring_buf_get.
GetChunk(n) ==
    /\ worker = "idle" /\ worker' = "mirror"
    /\ n <= Len(line)
    /\ chunk' = SubSeq(line, 1, n)
    /\ line' = SubSeq(line, n + 1, Len(line))
    /\ UNCHANGED <<sent, spent, mirrorVars, table, slaveVars>>

Feeding(consumer) == worker = consumer /\ UNCHANGED <<sent, line, spent>>

MirrorFeed ==
    /\ Feeding("mirror") /\ mirror!Feed(chunk)
    /\ UNCHANGED <<worker, chunk, table, slaveVars>>
MirrorScan ==
    /\ Feeding("mirror")
    /\ mirror!Reject("fc10") \/ mirror!Reject("fc06") \/ mirror!Slip
    /\ UNCHANGED <<worker, chunk, table, slaveVars>>
MirrorFc10 ==
    /\ Feeding("mirror") /\ mirror!Decode("fc10")
    /\ UNCHANGED <<worker, chunk, table, slaveVars>>

\* Frames of one chunk may be decoded within a millisecond.
MirrorFc06 ==
    /\ Feeding("mirror") /\ mirror!Decode("fc06")
    /\ \E at \in {now, now + 1} :
           HandleFc06(sent[m_accum[1][1]].addr, m_accum[1][1], at)
    /\ UNCHANGED <<worker, chunk, slaveVars>>
MirrorReturn ==
    /\ Feeding("mirror") /\ mirror!Return /\ worker' = "slave"
    /\ UNCHANGED <<chunk, table, slaveVars>>

SlaveFeed ==
    /\ Feeding("slave") /\ slave!Feed(chunk) /\ chunk' = <<>>
    /\ UNCHANGED <<worker, mirrorVars, table>>
SlaveScan ==
    /\ Feeding("slave") /\ slave!ScanStep
    /\ UNCHANGED <<worker, chunk, mirrorVars, table>>
SlaveReturn ==
    /\ Feeding("slave") /\ slave!Return /\ worker' = "idle"
    /\ UNCHANGED <<chunk, mirrorVars, table>>

MirrorStep == MirrorFeed \/ MirrorScan \/ MirrorFc10 \/ MirrorFc06 \/ MirrorReturn
SlaveStep == SlaveFeed \/ SlaveScan \/ SlaveReturn

Next ==
    \/ \E f \in Frames : Transmit(f)
    \/ \E n \in 1 .. CHUNK : GetChunk(n)
    \/ MirrorStep \/ SlaveStep

Spec == Init /\ [][Next]_vars

\* The workqueue thread runs.
FairSpec == Spec /\ WF_vars(MirrorStep) /\ WF_vars(SlaveStep)

---------------------------------------------------------------------------
TypeOK ==
    /\ sent \in Seq(Frames) /\ spent <= MaxBytes
    /\ worker \in {"idle", "mirror", "slave"}
    /\ Len(chunk) <= CHUNK
    /\ mirror!ScanTypeOK /\ slave!ScanTypeOK

\* Resynchronisation costs no good frame: whatever damaged, foreign or look-alike
\* bytes precede it, a frame that reached a consumer whole was decoded, or is
\* still collected, unless the accumulator overflowed over it.
NothingMissed ==
    worker = "idle" =>
        /\ mirror!NothingMissed(mirror!Serials(line))
        /\ slave!NothingMissed(slave!Serials(line))

\* Each handler sees a frame at most once and in bus order, across overflows and
\* rescans, and never a damaged one.
OnceInOrder == mirror!OnceInOrder /\ slave!OnceInOrder

\* A frame is decoded by the chunk that completes it, with one exception: behind
\* the opening of a longer frame that was cut short it waits until the length of
\* that frame has come in.  So FC10 broadcasts and requests never wait, and an
\* FC06 may, behind what is left of an FC10, for up to 179 bytes in all
\* (panel_mirror.c:183-193).
DecodedWhenComplete ==
    worker = "idle" =>
        /\ mirror!DecodedOrHeldUp(mirror!Serials(line))
        /\ slave!DecodedOrHeldUp(slave!Serials(line))

\* The feed functions return, so the drain worker gets to the next chunk.
FeedsReturn == worker # "idle" ~> worker = "idle"
=============================================================================
