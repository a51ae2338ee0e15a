---------------------------- MODULE FrameScanner ----------------------------
(***************************************************************************)
(* The byte accumulator that panel_mirror_feed and flexit_slave_feed have  *)
(* in common: append a chunk, then decode at the front until more bytes    *)
(* are needed.  A byte is <<serial number of its frame, position>>; what   *)
(* the matcher takes it for, and whether a frame passes its CRC, follows   *)
(* from the frame that was sent.  Frames are scaled down: FC10 to 7 bytes  *)
(* with a header of 3, the short ones to 3.                                *)
(***************************************************************************)
EXTENDS Integers, Sequences

CONSTANTS
    Kinds,       \* the kinds of frame this scanner decodes
    Length,      \* by kind, its length
    Header,      \* by kind, how many front bytes are compared, 2 at least
    ACCUM,       \* ACCUM_SIZE
    MaxFailures  \* bound: crc_failures is counted up to this

\* What the sizes must satisfy, assumed by the module that fixes them.
SizesFit ==
    /\ \A k \in Kinds : Header[k] \in 2 .. Length[k] /\ Length[k] <= ACCUM
    /\ ACCUM \in Nat /\ MaxFailures \in Nat

VARIABLES
    sent,          \* the frames on the bus so far (external)
    accum,         \* the accumulator, accum_len long
    scanning,      \* inside the loop of the feed function
    crc_failures,
    decoded,       \* history: serial numbers handed to a frame handler
    overrun        \* history: serial numbers of frames that lost bytes to overflow

Lesser(m, n) == IF m < n THEN m ELSE n
Drop(s, n) == SubSeq(s, n + 1, Len(s))
Serials(s) == {s[i][1] : i \in 1 .. Len(s)}

ScanInit ==
    /\ accum = <<>> /\ scanning = FALSE /\ crc_failures = 0
    /\ decoded = <<>> /\ overrun = {}

\* A decoy is an FC10 whose payload holds the opening of a short frame.
Looks(byte) ==
    LET f == sent[byte[1]]
    IN IF f.decoy # "none" /\ byte[2] \in {4, 5}
       THEN <<f.decoy, byte[2] - 3>>
       ELSE <<f.kind, byte[2]>>

\* The chunk is appended; what exceeds ACCUM is dropped from the front.
FeedDropping(chunk, excess) ==
    LET all == accum \o chunk
    IN /\ ~scanning /\ scanning' = TRUE
       /\ accum' = Drop(all, excess)
       /\ overrun' = overrun \cup Serials(SubSeq(all, 1, excess))
       /\ UNCHANGED <<crc_failures, decoded>>

Excess(chunk, size) == IF Len(accum) + Len(chunk) > size THEN Len(accum) + Len(chunk) - size ELSE 0

\* Variant: the accumulator is taken for one byte longer.
FeedOverfills(chunk) == FeedDropping(chunk, Excess(chunk, ACCUM + 1))

Feed(chunk) == FeedDropping(chunk, Excess(chunk, ACCUM))

\* try_decode_at_front: the first pair selects a kind, the header confirms it.
Matches(k, n) == Len(accum) >= n /\ \A i \in 1 .. n : Looks(accum[i]) = <<k, i>>
Candidate(k) == Len(accum) >= Length[k] /\ Matches(k, Header[k])
Incomplete(k) ==
    /\ Matches(k, 2) /\ Len(accum) < Length[k]
    /\ Matches(k, Header[k]) \/ Len(accum) < Header[k]

\* Variant: the CRC is not compared.
CrcOkUnchecked(k) == Matches(k, Header[k])

\* The CRC at the expected offset matches.
CrcOk(k) ==
    LET id == accum[1][1]
    IN /\ sent[id].kind = k /\ sent[id].fault = "none"
       /\ \A i \in 1 .. Length[k] : accum[i] = <<id, i>>

Consume(n) == scanning /\ accum' = Drop(accum, n) /\ UNCHANGED <<scanning, overrun>>

Decode(k) ==
    /\ Candidate(k) /\ CrcOk(k)
    /\ Consume(Length[k])
    /\ decoded' = Append(decoded, accum[1][1])
    /\ UNCHANGED crc_failures

RejectBy(k, n) ==
    /\ Candidate(k) /\ ~CrcOk(k)
    /\ Consume(n)
    /\ crc_failures' = Lesser(crc_failures + 1, MaxFailures)
    /\ UNCHANGED decoded

\* Variants: a candidate that fails its CRC is skipped as a whole, or not at all.
RejectWhole(k) == RejectBy(k, Length[k])
RejectNothing(k) == RejectBy(k, 0)

Reject(k) == RejectBy(k, 1)

Undecided == Len(accum) < 2 \/ \E k \in Kinds : Incomplete(k)

Slip ==
    /\ ~Undecided /\ \A k \in Kinds : ~Candidate(k)
    /\ Consume(1)
    /\ UNCHANGED <<crc_failures, decoded>>

\* Variant: a candidate waits for one byte more than it needs.
ReturnLate ==
    /\ scanning /\ scanning' = FALSE
    /\ Undecided \/ \E k \in Kinds : Candidate(k) /\ Len(accum) = Length[k]
    /\ UNCHANGED <<accum, crc_failures, decoded, overrun>>

\* More bytes are needed, or none are left: the feed function returns.
Return ==
    /\ scanning /\ scanning' = FALSE
    /\ Undecided
    /\ UNCHANGED <<accum, crc_failures, decoded, overrun>>

ScanStep == (\E k \in Kinds : Decode(k) \/ Reject(k)) \/ Slip

---------------------------------------------------------------------------
ScanTypeOK ==
    /\ Len(accum) <= ACCUM /\ \A i \in 1 .. Len(accum) : accum[i][1] \in 1 .. Len(sent)
    /\ scanning \in BOOLEAN
    /\ crc_failures \in 0 .. MaxFailures
    /\ Len(decoded) <= Len(sent)
    /\ overrun \subseteq 1 .. Len(sent)

\* Whatever came before it, an undamaged frame that has been fed and has lost
\* no byte to overflow was decoded or is still collected behind a candidate.
NothingMissed(unfed) ==
    \A id \in 1 .. Len(sent) :
        sent[id].kind \in Kinds /\ sent[id].fault = "none" /\ id \notin unfed \cup overrun
        => id \in Serials(accum) \/ \E i \in 1 .. Len(decoded) : decoded[i] = id

\* Handlers see each frame once and in the order of the bus, never a damaged one.
OnceInOrder ==
    /\ \A i, j \in 1 .. Len(decoded) : i < j => decoded[i] < decoded[j]
    /\ \A i \in 1 .. Len(decoded) : sent[decoded[i]].fault = "none"

\* The front of the accumulator opens a frame longer than one of kind, and less
\* than that frame has come in.
HeldUp(kind) == \E k \in Kinds : Incomplete(k) /\ Length[k] > Length[kind]

\* A sound frame that has been fed and has lost no byte to overflow was decoded,
\* or is held up behind a longer opening.
DecodedOrHeldUp(unfed) ==
    \A id \in 1 .. Len(sent) :
        sent[id].kind \in Kinds /\ sent[id].fault = "none" /\ id \notin unfed \cup overrun
        => HeldUp(sent[id].kind) \/ \E i \in 1 .. Len(decoded) : decoded[i] = id
=============================================================================
