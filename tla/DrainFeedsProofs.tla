-------------------------- MODULE DrainFeedsProofs --------------------------
(***************************************************************************)
(* Both feeds hand on every frame at most once and in the order of the     *)
(* bus, and leave none undecoded but behind the opening of a longer one,   *)
(* for any frames, chunk and accumulator sizes.  DrainInv says where the bytes are: collected by a consumer, in  *)
(* the chunk that still goes to it, or in line, always in the order in     *)
(* which the bus sent them.  The lemmas of FrameScannerProofs are          *)
(* instantiated for each consumer and step; MirrorKeeps and SlaveKeeps add *)
(* that no byte of a sound frame is dropped but by an overflow, and        *)
(* StepsLeft that a chunk is fed in a bounded number of steps.             *)
(***************************************************************************)
EXTENDS DrainFeeds, PanelMirrorProofs

mirrorL == INSTANCE FrameScannerProofs
    WITH Kinds <- {"fc10", "fc06"}, ACCUM <- MIRROR_ACCUM,
         accum <- m_accum, scanning <- m_scanning, crc_failures <- m_crc_failures,
         decoded <- m_decoded, overrun <- m_overrun
slaveL == INSTANCE FrameScannerProofs
    WITH Kinds <- {"request"}, ACCUM <- SLAVE_ACCUM,
         accum <- s_accum, scanning <- s_scanning, crc_failures <- s_crc_failures,
         decoded <- s_decoded, overrun <- s_overrun

Runs ==
    /\ mirrorL!IsRun(chunk, sent) /\ mirrorL!IsRun(line, sent)
    /\ \A i \in 1 .. Len(chunk), j \in 1 .. Len(line) : mirrorL!Before(chunk[i], line[j])

\* One consumer at a time; the slave's turn uses the chunk up.
Turns ==
    /\ m_scanning => worker = "mirror"
    /\ s_scanning => worker = "slave" /\ chunk = <<>>
    /\ worker = "idle" => chunk = <<>>

MirrorBytes ==
    /\ mirrorL!Collected
    /\ \A j \in 1 .. Len(line) : mirrorL!Follows(line[j])
    /\ worker = "mirror" /\ ~m_scanning => \A i \in 1 .. Len(chunk) : mirrorL!Follows(chunk[i])

SlaveBytes ==
    /\ slaveL!Collected
    /\ \A j \in 1 .. Len(line) : slaveL!Follows(line[j])
    /\ \A i \in 1 .. Len(chunk) : slaveL!Follows(chunk[i])

DrainInv == TypeOK /\ Runs /\ Turns /\ MirrorBytes /\ SlaveBytes /\ mirrorL!Settled /\ slaveL!Settled

---------------------------------------------------------------------------
(* The scanners of DrainFeeds are those the lemmas speak of.               *)

LEMMA MirrorIsScanner ==
    /\ mirror!ScanTypeOK <=> mirrorL!ScanTypeOK
    /\ mirrorL!ScanTypeOK' => mirror!ScanTypeOK'
    /\ mirrorL!Collected => mirror!OnceInOrder
BY DEF mirror!ScanTypeOK, mirrorL!ScanTypeOK, mirrorL!Collected, mirror!OnceInOrder, mirrorL!OnceInOrder

LEMMA SlaveIsScanner ==
    /\ slave!ScanTypeOK <=> slaveL!ScanTypeOK
    /\ slaveL!ScanTypeOK' => slave!ScanTypeOK'
    /\ slaveL!Collected => slave!OnceInOrder
BY DEF slave!ScanTypeOK, slaveL!ScanTypeOK, slaveL!Collected, slave!OnceInOrder, slaveL!OnceInOrder

LEMMA MirrorStepsAre ==
    /\ \A c : mirror!Feed(c) => mirrorL!Feed(c)
    /\ MirrorScan \/ MirrorFc10 \/ MirrorFc06 => mirrorL!ScanStep
    /\ mirror!Return => mirrorL!Return
<1>1. ASSUME NEW c, mirror!Feed(c) PROVE mirrorL!Feed(c)
    BY <1>1 DEF mirror!Feed, mirrorL!Feed, mirror!FeedDropping, mirrorL!FeedDropping,
                mirror!Excess, mirrorL!Excess, mirror!Drop, mirrorL!Drop,
                mirror!Serials, mirrorL!Serials
<1>2. \A x : mirror!Looks(x) = mirrorL!Looks(x)
    BY DEF mirror!Looks, mirrorL!Looks
<1>3. \A k, n : mirror!Matches(k, n) <=> mirrorL!Matches(k, n)
    BY <1>2 DEF mirror!Matches, mirrorL!Matches
<1>4. \A k : mirror!Candidate(k) <=> mirrorL!Candidate(k)
    BY <1>3 DEF mirror!Candidate, mirrorL!Candidate
<1>5. \A k : mirror!CrcOk(k) <=> mirrorL!CrcOk(k)
    BY DEF mirror!CrcOk, mirrorL!CrcOk
<1>6. \A n : mirror!Consume(n) <=> mirrorL!Consume(n)
    BY DEF mirror!Consume, mirrorL!Consume, mirror!Drop, mirrorL!Drop
<1>7. \A k : mirror!Reject(k) <=> mirrorL!Reject(k)
    BY <1>4, <1>5, <1>6
    DEF mirror!Reject, mirrorL!Reject, mirror!RejectBy, mirrorL!RejectBy, mirror!Lesser, mirrorL!Lesser
<1>8. \A k : mirror!Decode(k) <=> mirrorL!Decode(k)
    BY <1>4, <1>5, <1>6 DEF mirror!Decode, mirrorL!Decode
<1>9. mirror!Undecided <=> mirrorL!Undecided
    BY <1>3 DEF mirror!Undecided, mirrorL!Undecided, mirror!Incomplete, mirrorL!Incomplete
<1>10. mirror!Slip <=> mirrorL!Slip
    BY <1>4, <1>6, <1>9 DEF mirror!Slip, mirrorL!Slip
<1>11. mirror!Return => mirrorL!Return
    BY <1>9 DEF mirror!Return, mirrorL!Return
<1>. QED
    BY <1>1, <1>7, <1>8, <1>10, <1>11 DEF MirrorScan, MirrorFc10, MirrorFc06, mirrorL!ScanStep

LEMMA SlaveStepsAre ==
    /\ \A c : slave!Feed(c) => slaveL!Feed(c)
    /\ SlaveScan => slaveL!ScanStep
    /\ slave!Return => slaveL!Return
<1>1. ASSUME NEW c, slave!Feed(c) PROVE slaveL!Feed(c)
    BY <1>1 DEF slave!Feed, slaveL!Feed, slave!FeedDropping, slaveL!FeedDropping,
                slave!Excess, slaveL!Excess, slave!Drop, slaveL!Drop,
                slave!Serials, slaveL!Serials
<1>2. \A x : slave!Looks(x) = slaveL!Looks(x)
    BY DEF slave!Looks, slaveL!Looks
<1>3. \A k, n : slave!Matches(k, n) <=> slaveL!Matches(k, n)
    BY <1>2 DEF slave!Matches, slaveL!Matches
<1>4. \A k : slave!Candidate(k) <=> slaveL!Candidate(k)
    BY <1>3 DEF slave!Candidate, slaveL!Candidate
<1>5. \A k : slave!CrcOk(k) <=> slaveL!CrcOk(k)
    BY DEF slave!CrcOk, slaveL!CrcOk
<1>6. \A n : slave!Consume(n) <=> slaveL!Consume(n)
    BY DEF slave!Consume, slaveL!Consume, slave!Drop, slaveL!Drop
<1>7. \A k : slave!Reject(k) <=> slaveL!Reject(k)
    BY <1>4, <1>5, <1>6
    DEF slave!Reject, slaveL!Reject, slave!RejectBy, slaveL!RejectBy, slave!Lesser, slaveL!Lesser
<1>8. \A k : slave!Decode(k) <=> slaveL!Decode(k)
    BY <1>4, <1>5, <1>6 DEF slave!Decode, slaveL!Decode
<1>9. slave!Undecided <=> slaveL!Undecided
    BY <1>3 DEF slave!Undecided, slaveL!Undecided, slave!Incomplete, slaveL!Incomplete
<1>10. slave!Slip <=> slaveL!Slip
    BY <1>4, <1>6, <1>9 DEF slave!Slip, slaveL!Slip
<1>11. slave!Return => slaveL!Return
    BY <1>9 DEF slave!Return, slaveL!Return
<1>. QED
    BY <1>1, <1>7, <1>8, <1>10, <1>11 DEF SlaveScan, slave!ScanStep, slaveL!ScanStep

\* Only a cut frame is shorter than its kind.
LEMMA FrameSizes ==
    ASSUME NEW f \in Frames
    PROVE  /\ Size(f) \in Nat /\ Length[f.kind] \in Nat /\ Size(f) <= Length[f.kind]
           /\ f.fault = "none" => Size(f) = Length[f.kind]
<1>1. /\ f.kind \in {"fc10", "fc06", "request"} /\ f.lost \in Nat
      /\ f.lost < Length[f.kind] /\ (f.fault = "none" => f.lost = 0)
    BY FramesAssumption
<1>2. Length[f.kind] \in Nat
    BY <1>1 DEF Length
<1>. QED BY <1>1, <1>2 DEF Size

LEMMA SizesHold ==
    sent \in Seq(Frames) => mirrorL!Sizes /\ slaveL!Sizes
<1>1. \A k \in {"fc10", "fc06", "request"} : Length[k] \in Nat \ {0}
    BY DEF Length
<1>2. mirrorL!SizesFit /\ slaveL!SizesFit
    BY SizesAssumption DEF mirror!SizesFit, mirrorL!SizesFit, slave!SizesFit, slaveL!SizesFit
<1>. QED BY <1>1, <1>2 DEF mirrorL!Sizes, slaveL!Sizes

LEMMA SameOrder ==
    /\ \A s, log : mirrorL!IsRun(s, log) <=> slaveL!IsRun(s, log)
    /\ \A x, y : mirrorL!Before(x, y) <=> slaveL!Before(x, y)
    /\ \A log : mirrorL!Byte(log) = slaveL!Byte(log)
BY DEF mirrorL!IsRun, slaveL!IsRun, mirrorL!InOrder, slaveL!InOrder, mirrorL!Before, slaveL!Before,
       mirrorL!Byte, slaveL!Byte

---------------------------------------------------------------------------
(* What a step of one part leaves true of the others.                      *)

Grows == Len(sent') \in Nat /\ Len(sent) <= Len(sent') /\ \A i \in 1 .. Len(sent) : sent'[i] = sent[i]

LEMMA MirrorRests ==
    ASSUME DrainInv, UNCHANGED mirrorVars, Grows
    PROVE  /\ mirrorL!Collected' /\ mirror!ScanTypeOK' /\ mirrorL!Settled'
           /\ \A x : mirrorL!Follows(x) => mirrorL!Follows(x)'
<1>1. mirrorL!Collected /\ mirrorL!ScanTypeOK /\ mirrorL!Sizes
    BY MirrorIsScanner, SizesHold DEF DrainInv, MirrorBytes, TypeOK
<1>2. UNCHANGED <<m_accum, m_scanning, m_crc_failures, m_decoded, m_overrun>>
    BY DEF mirrorVars
<1>3. /\ mirrorL!Collected' /\ mirrorL!ScanTypeOK'
      /\ \A x : mirrorL!Follows(x) => mirrorL!Follows(x)'
    BY <1>1, <1>2, mirrorL!IdleKeeps DEF Grows
<1>4. mirrorL!Settled'
    <2>1. Len(m_accum) \in Nat
        BY <1>1 DEF mirrorL!Collected, mirrorL!IsRun
    <2>. QED BY <1>1, <1>2, <2>1, mirrorL!StaysSettled DEF DrainInv, Grows
<1>. QED BY <1>3, <1>4, MirrorIsScanner

LEMMA SlaveRests ==
    ASSUME DrainInv, UNCHANGED slaveVars, Grows
    PROVE  /\ slaveL!Collected' /\ slave!ScanTypeOK' /\ slaveL!Settled'
           /\ \A x : slaveL!Follows(x) => slaveL!Follows(x)'
<1>1. slaveL!Collected /\ slaveL!ScanTypeOK /\ slaveL!Sizes
    BY SlaveIsScanner, SizesHold DEF DrainInv, SlaveBytes, TypeOK
<1>2. UNCHANGED <<s_accum, s_scanning, s_crc_failures, s_decoded, s_overrun>>
    BY DEF slaveVars
<1>3. /\ slaveL!Collected' /\ slaveL!ScanTypeOK'
      /\ \A x : slaveL!Follows(x) => slaveL!Follows(x)'
    BY <1>1, <1>2, slaveL!IdleKeeps DEF Grows
<1>4. slaveL!Settled'
    <2>1. Len(s_accum) \in Nat
        BY <1>1 DEF slaveL!Collected, slaveL!IsRun
    <2>. QED BY <1>1, <1>2, <2>1, slaveL!StaysSettled DEF DrainInv, Grows
<1>. QED BY <1>3, <1>4, SlaveIsScanner

LEMMA StaysSent == DrainInv /\ UNCHANGED sent => Grows
BY DEF DrainInv, TypeOK, Grows

\* The mirror is given the chunk: the rest of the line still follows.
LEMMA MirrorFeedStep == DrainInv /\ MirrorFeed => DrainInv'
<1>. SUFFICES ASSUME DrainInv, MirrorFeed PROVE DrainInv'
    OBVIOUS
<1>1. /\ worker = "mirror" /\ UNCHANGED <<sent, line, spent, worker, chunk, slaveVars>>
      /\ mirrorL!Feed(chunk) /\ Grows
    BY MirrorStepsAre, StaysSent DEF MirrorFeed, Feeding
<1>2. ~m_scanning /\ m_scanning' = TRUE
    BY <1>1 DEF mirrorL!Feed, mirrorL!FeedDropping
<1>3. /\ mirrorL!Collected /\ mirrorL!ScanTypeOK /\ mirrorL!Sizes /\ mirrorL!IsRun(chunk, sent)
      /\ \A i \in 1 .. Len(chunk) : mirrorL!Follows(chunk[i])
    BY <1>1, <1>2, MirrorIsScanner, SizesHold DEF DrainInv, MirrorBytes, TypeOK, Runs
<1>4. MIRROR_ACCUM \in Nat
    BY <1>3 DEF mirrorL!Sizes, mirrorL!SizesFit
<1>5. /\ mirrorL!Collected'
      /\ \A x : mirrorL!Follows(x) /\ (\A i \in 1 .. Len(chunk) : mirrorL!Before(chunk[i], x))
                    => mirrorL!Follows(x)'
    BY <1>1, <1>3, <1>4, mirrorL!FeedKeeps
<1>6. mirror!ScanTypeOK'
    BY <1>1, <1>3, mirrorL!FeedTypes, MirrorIsScanner
<1>7. TypeOK'
    BY <1>1, <1>6, SlaveRests DEF DrainInv, TypeOK
<1>8. Runs'
    BY <1>1 DEF DrainInv, Runs, mirrorL!IsRun, mirrorL!InOrder, mirrorL!Before, mirrorL!Byte
<1>9. MirrorBytes'
    BY <1>1, <1>2, <1>5 DEF DrainInv, MirrorBytes, Runs
<1>10. SlaveBytes'
    BY <1>1, SlaveRests DEF DrainInv, SlaveBytes
<1>11. mirrorL!Settled' /\ slaveL!Settled'
    BY <1>1, <1>2, SlaveRests DEF mirrorL!Settled
<1>12. Turns'
    BY <1>1, <1>2 DEF DrainInv, Turns, slaveVars
<1>. QED BY <1>7, <1>8, <1>9, <1>10, <1>11, <1>12 DEF DrainInv

LEMMA RunsStay == DrainInv /\ UNCHANGED <<sent, line, chunk>> => Runs'
<1>. SUFFICES ASSUME Runs, sent' = sent, line' = line, chunk' = chunk PROVE Runs'
    BY DEF DrainInv
<1>. QED BY DEF Runs, mirrorL!IsRun, mirrorL!InOrder, mirrorL!Before, mirrorL!Byte

LEMMA LineBytes ==
    DrainInv => /\ \A j \in 1 .. Len(line) : line[j] \in mirrorL!Byte(sent)
                /\ \A i \in 1 .. Len(chunk) : chunk[i] \in mirrorL!Byte(sent)
BY DEF DrainInv, Runs, mirrorL!IsRun

LEMMA MirrorScanStep ==
    DrainInv /\ (MirrorScan \/ MirrorFc10 \/ MirrorFc06 \/ MirrorReturn) => DrainInv'
<1>. SUFFICES ASSUME DrainInv, MirrorScan \/ MirrorFc10 \/ MirrorFc06 \/ MirrorReturn PROVE DrainInv'
    OBVIOUS
<1>1. /\ worker = "mirror" /\ UNCHANGED <<sent, line, spent, chunk, slaveVars>> /\ Grows
      /\ \/ mirrorL!ScanStep /\ worker' = "mirror"
         \/ mirrorL!Return /\ worker' = "slave"
    BY MirrorStepsAre, StaysSent DEF MirrorScan, MirrorFc10, MirrorFc06, MirrorReturn, Feeding
<1>2. /\ mirrorL!ScanStep => m_scanning' = TRUE
      /\ mirrorL!Return => m_scanning' = FALSE
    BY DEF mirrorL!ScanStep, mirrorL!Decode, mirrorL!Reject, mirrorL!RejectBy, mirrorL!Slip,
           mirrorL!Consume, mirrorL!Return, DrainInv, TypeOK, mirror!ScanTypeOK
<1>3. mirrorL!Collected /\ mirrorL!ScanTypeOK /\ mirrorL!Sizes
    BY MirrorIsScanner, SizesHold DEF DrainInv, MirrorBytes, TypeOK
<1>4. /\ mirrorL!Collected' /\ mirrorL!ScanTypeOK'
      /\ \A x \in mirrorL!Byte(sent) : mirrorL!Follows(x) => mirrorL!Follows(x)'
    BY <1>1, <1>3, mirrorL!ScanKeeps
<1>5. mirrorL!Settled'
    BY <1>1, mirrorL!ScanSettles DEF DrainInv
<1>6. TypeOK'
    BY <1>1, <1>4, SlaveRests, MirrorIsScanner DEF DrainInv, TypeOK
<1>7. MirrorBytes'
    BY <1>1, <1>2, <1>4, LineBytes DEF DrainInv, MirrorBytes
<1>8. SlaveBytes'
    BY <1>1, SlaveRests DEF DrainInv, SlaveBytes
<1>9. mirrorL!Settled' /\ slaveL!Settled'
    BY <1>1, <1>5, SlaveRests
<1>10. Turns'
    BY <1>1, <1>2 DEF DrainInv, Turns, slaveVars
<1>. QED BY <1>1, <1>6, <1>7, <1>8, <1>9, <1>10, RunsStay DEF DrainInv

\* The slave's turn comes after the mirror's; then the chunk is used up.
LEMMA SlaveFeedStep == DrainInv /\ SlaveFeed => DrainInv'
<1>. SUFFICES ASSUME DrainInv, SlaveFeed PROVE DrainInv'
    OBVIOUS
<1>1. /\ worker = "slave" /\ UNCHANGED <<sent, line, spent, worker, mirrorVars>>
      /\ slaveL!Feed(chunk) /\ chunk' = <<>> /\ Grows
    BY SlaveStepsAre, StaysSent DEF SlaveFeed, Feeding
<1>2. ~s_scanning /\ s_scanning' = TRUE
    BY <1>1 DEF slaveL!Feed, slaveL!FeedDropping
<1>3. /\ slaveL!Collected /\ slaveL!ScanTypeOK /\ slaveL!Sizes /\ slaveL!IsRun(chunk, sent)
      /\ \A i \in 1 .. Len(chunk) : slaveL!Follows(chunk[i])
    BY <1>1, <1>2, SlaveIsScanner, SizesHold, SameOrder
    DEF DrainInv, SlaveBytes, TypeOK, Runs
<1>4. SLAVE_ACCUM \in Nat
    BY <1>3 DEF slaveL!Sizes, slaveL!SizesFit
<1>5. /\ slaveL!Collected'
      /\ \A x : slaveL!Follows(x) /\ (\A i \in 1 .. Len(chunk) : slaveL!Before(chunk[i], x))
                    => slaveL!Follows(x)'
    BY <1>1, <1>3, <1>4, slaveL!FeedKeeps
<1>6. slave!ScanTypeOK'
    BY <1>1, <1>3, slaveL!FeedTypes, SlaveIsScanner
<1>7. CHUNK \in Nat
    BY BoundsAssumption
<1>8. TypeOK'
    BY <1>1, <1>6, <1>7, MirrorRests DEF DrainInv, TypeOK
<1>9. Runs'
    BY <1>1 DEF DrainInv, Runs, mirrorL!IsRun, mirrorL!InOrder, mirrorL!Before, mirrorL!Byte
<1>10. SlaveBytes'
    BY <1>1, <1>5, SameOrder DEF DrainInv, SlaveBytes, Runs
<1>11. MirrorBytes'
    BY <1>1, MirrorRests DEF DrainInv, MirrorBytes
<1>12. mirrorL!Settled' /\ slaveL!Settled'
    BY <1>1, <1>2, MirrorRests DEF slaveL!Settled
<1>13. Turns'
    BY <1>1, <1>2 DEF DrainInv, Turns, mirrorVars
<1>. QED BY <1>8, <1>9, <1>10, <1>11, <1>12, <1>13 DEF DrainInv

LEMMA SlaveScanStep == DrainInv /\ (SlaveScan \/ SlaveReturn) => DrainInv'
<1>. SUFFICES ASSUME DrainInv, SlaveScan \/ SlaveReturn PROVE DrainInv'
    OBVIOUS
<1>1. /\ worker = "slave" /\ UNCHANGED <<sent, line, spent, chunk, mirrorVars>> /\ Grows
      /\ \/ slaveL!ScanStep /\ worker' = "slave"
         \/ slaveL!Return /\ worker' = "idle"
    BY SlaveStepsAre, StaysSent DEF SlaveScan, SlaveReturn, Feeding
<1>2. /\ slaveL!ScanStep => s_scanning' = TRUE
      /\ slaveL!Return => s_scanning' = FALSE
    BY DEF slaveL!ScanStep, slaveL!Decode, slaveL!Reject, slaveL!RejectBy, slaveL!Slip,
           slaveL!Consume, slaveL!Return, DrainInv, TypeOK, slave!ScanTypeOK
<1>3. slaveL!Collected /\ slaveL!ScanTypeOK /\ slaveL!Sizes
    BY SlaveIsScanner, SizesHold DEF DrainInv, SlaveBytes, TypeOK
<1>4. /\ slaveL!Collected' /\ slaveL!ScanTypeOK'
      /\ \A x \in slaveL!Byte(sent) : slaveL!Follows(x) => slaveL!Follows(x)'
    BY <1>1, <1>3, slaveL!ScanKeeps
<1>5. slaveL!Settled'
    BY <1>1, slaveL!ScanSettles DEF DrainInv
<1>6. TypeOK'
    BY <1>1, <1>4, MirrorRests, SlaveIsScanner DEF DrainInv, TypeOK
<1>7. SlaveBytes'
    BY <1>1, <1>4, LineBytes, SameOrder DEF DrainInv, SlaveBytes
<1>8. MirrorBytes'
    BY <1>1, MirrorRests DEF DrainInv, MirrorBytes
<1>9. mirrorL!Settled' /\ slaveL!Settled'
    BY <1>1, <1>5, MirrorRests
<1>10. s_scanning
    BY <1>1 DEF slaveL!ScanStep, slaveL!Decode, slaveL!Reject, slaveL!RejectBy, slaveL!Slip,
                slaveL!Consume, slaveL!Return
<1>11. Turns'
    BY <1>1, <1>2, <1>10 DEF DrainInv, Turns, mirrorVars
<1>. QED BY <1>1, <1>6, <1>7, <1>8, <1>9, <1>11, RunsStay DEF DrainInv

\* The drain worker takes the next chunk off the line.
LEMMA GetChunkStep == ASSUME DrainInv, NEW n \in 1 .. CHUNK, GetChunk(n) PROVE DrainInv'
<1>1. /\ worker = "idle" /\ worker' = "mirror" /\ n \in 0 .. Len(line)
      /\ UNCHANGED <<sent, spent, mirrorVars, slaveVars>> /\ Grows
      /\ chunk' = SubSeq(line, 1, n) /\ line' = SubSeq(line, n + 1, Len(line))
    BY StaysSent DEF GetChunk
<1>2. mirrorL!IsRun(line, sent) /\ Len(line) \in Nat /\ n \in Nat
    BY <1>1 DEF DrainInv, Runs, mirrorL!IsRun
<1>3. /\ mirrorL!IsRun(chunk', sent) /\ Len(chunk') = n
      /\ \A i \in 1 .. n : chunk'[i] = line[i]
    BY <1>1, <1>2, mirrorL!TakeRun
<1>4. /\ mirrorL!IsRun(line', sent) /\ Len(line') = Len(line) - n
      /\ \A i \in 1 .. Len(line) - n : line'[i] = line[n + i]
    <2>1. line' = mirrorL!Drop(line, n)
        BY <1>1 DEF mirrorL!Drop
    <2>2. n \in 0 .. Len(line)
        BY <1>1
    <2>. DEFINE rest == mirrorL!Drop(line, n)
    <2>3. /\ mirrorL!IsRun(rest, sent) /\ Len(rest) = Len(line) - n
          /\ \A i \in 1 .. Len(line) - n : rest[i] = line[n + i]
        BY <1>2, <2>2, mirrorL!DropRun
    <2>. HIDE DEF rest
    <2>4. line' = rest
        BY <2>1 DEF rest
    <2>. QED BY <2>3, <2>4
<1>5. /\ \A i \in 1 .. Len(chunk') : chunk'[i] = line[i] /\ i \in 1 .. Len(line)
      /\ \A j \in 1 .. Len(line') : line'[j] = line[n + j] /\ n + j \in 1 .. Len(line)
    BY <1>1, <1>2, <1>3, <1>4
<1>6. \A i \in 1 .. Len(chunk'), j \in 1 .. Len(line') : mirrorL!Before(chunk'[i], line'[j])
    <2>. TAKE i \in 1 .. Len(chunk'), j \in 1 .. Len(line')
    <2>1. i < n + j
        BY <1>2, <1>3, <1>4
    <2>. QED BY <1>2, <1>5, <2>1 DEF mirrorL!IsRun, mirrorL!InOrder
<1>7. Runs'
    <2>1. sent' = sent
        BY <1>1
    <2>2. mirrorL!IsRun(chunk', sent') /\ mirrorL!IsRun(line', sent')
        BY <1>3, <1>4, <2>1
    <2>. QED BY <1>6, <2>2 DEF Runs, mirrorL!IsRun, mirrorL!InOrder, mirrorL!Before, mirrorL!Byte
<1>8. TypeOK'
    BY <1>1, <1>3, MirrorRests, SlaveRests, BoundsAssumption DEF DrainInv, TypeOK
<1>9. MirrorBytes'
    BY <1>1, <1>5, MirrorRests DEF DrainInv, MirrorBytes
<1>10. SlaveBytes'
    BY <1>1, <1>5, SlaveRests DEF DrainInv, SlaveBytes
<1>11. mirrorL!Settled' /\ slaveL!Settled'
    BY <1>1, MirrorRests, SlaveRests
<1>12. Turns'
    BY <1>1 DEF DrainInv, Turns, mirrorVars, slaveVars
<1>. QED BY <1>7, <1>8, <1>9, <1>10, <1>11, <1>12 DEF DrainInv

\* The bus sends a frame, whose bytes come after all that went before.
LEMMA TransmitStep == ASSUME DrainInv, NEW f \in Frames, Transmit(f) PROVE DrainInv'
<1>. DEFINE id == Len(sent) + 1
            new == Bytes(id, f)
<1>1. /\ worker = "idle" /\ spent' <= MaxBytes /\ sent' = Append(sent, f) /\ line' = line \o new
      /\ UNCHANGED <<worker, chunk, mirrorVars, slaveVars>>
    BY DEF Transmit
<1>2. sent \in Seq(Frames) /\ Len(sent) \in Nat
    BY DEF DrainInv, TypeOK
<1>3. /\ sent' \in Seq(Frames) /\ Len(sent') = id /\ sent'[id] = f
      /\ \A i \in 1 .. Len(sent) : sent'[i] = sent[i]
    BY <1>1, <1>2
<1>4. Grows
    BY <1>2, <1>3 DEF Grows
<1>5. mirrorL!Byte(sent) \subseteq mirrorL!Byte(sent')
    BY <1>2, <1>3 DEF mirrorL!Byte
<1>6. Len(new) \in Nat /\ \A i \in 1 .. Len(new) : new[i] = <<id, i>> /\ i \in Nat \ {0}
    <2>1. Size(f) \in Nat
        BY FrameSizes
    <2>. QED BY <2>1 DEF Bytes
<1>7. mirrorL!IsRun(new, sent')
    <2>2. Size(f) \in Nat /\ Size(f) <= Length[f.kind] /\ Length[f.kind] \in Nat
        BY FrameSizes
    <2>3. id \in 1 .. Len(sent')
        BY <1>2, <1>3
    <2>4. \A i \in 1 .. Size(f) : <<id, i>> \in mirrorL!Byte(sent')
        BY <1>3, <2>2, <2>3 DEF mirrorL!Byte
    <2>. HIDE DEF id
    <2>5. new \in Seq(mirrorL!Byte(sent'))
        BY <2>2, <2>4 DEF Bytes
    <2>6. \A i, j \in 1 .. Len(new) : i < j => mirrorL!Before(new[i], new[j])
        BY <1>6 DEF mirrorL!Before
    <2>. QED BY <2>5, <2>6 DEF mirrorL!IsRun, mirrorL!InOrder
<1>. HIDE DEF new
<1>8. mirrorL!IsRun(line, sent') /\ mirrorL!IsRun(chunk', sent') /\ Len(line) \in Nat
    BY <1>1, <1>5 DEF DrainInv, Runs, mirrorL!IsRun
<1>9. \A x \in mirrorL!Byte(sent), j \in 1 .. Len(new) : mirrorL!Before(x, new[j])
    BY <1>2, <1>6 DEF mirrorL!Byte, mirrorL!Before
<1>10. /\ mirrorL!IsRun(line \o new, sent') /\ Len(line \o new) = Len(line) + Len(new)
       /\ \A i \in 1 .. Len(line) + Len(new) :
              (line \o new)[i] = IF i <= Len(line) THEN line[i] ELSE new[i - Len(line)]
    <2>1. \A i \in 1 .. Len(line), j \in 1 .. Len(new) : mirrorL!Before(line[i], new[j])
        BY <1>9, LineBytes
    <2>. QED BY <1>7, <1>8, <2>1, mirrorL!JoinRuns
<1>11. \A i \in 1 .. Len(line') :
           \/ \E j \in 1 .. Len(line) : line'[i] = line[j]
           \/ \E j \in 1 .. Len(new) : line'[i] = new[j]
    <2>. TAKE i \in 1 .. Len(line')
    <2>1. CASE i <= Len(line)
        BY <1>1, <1>6, <1>8, <1>10, <2>1
    <2>2. CASE i > Len(line)
        <3>1. i - Len(line) \in 1 .. Len(new) /\ line'[i] = new[i - Len(line)]
            BY <1>1, <1>6, <1>8, <1>10, <2>2
        <3>. QED BY <3>1
    <2>. QED BY <1>1, <1>6, <1>8, <1>10, <2>1, <2>2
<1>12. Runs'
    <2>1. chunk = <<>> /\ chunk' = <<>>
        BY <1>1 DEF DrainInv, Turns
    <2>2. mirrorL!IsRun(line', sent')
        BY <1>1, <1>10
    <2>. QED BY <1>8, <2>1, <2>2
         DEF Runs, mirrorL!IsRun, mirrorL!InOrder, mirrorL!Before, mirrorL!Byte
<1>13. \A j \in 1 .. Len(new) : mirrorL!Follows(new[j]) /\ slaveL!Follows(new[j])
    <2>1. /\ \A i \in 1 .. Len(m_accum) : m_accum[i] \in mirrorL!Byte(sent)
          /\ \A i \in 1 .. Len(m_decoded) : m_decoded[i] \in 1 .. Len(sent)
        BY DEF DrainInv, MirrorBytes, mirrorL!Collected, mirrorL!IsRun
    <2>2. /\ \A i \in 1 .. Len(s_accum) : s_accum[i] \in mirrorL!Byte(sent)
          /\ \A i \in 1 .. Len(s_decoded) : s_decoded[i] \in 1 .. Len(sent)
        BY SameOrder DEF DrainInv, SlaveBytes, slaveL!Collected, slaveL!IsRun
    <2>3. \A d \in 1 .. Len(sent), j \in 1 .. Len(new) : d < new[j][1]
        BY <1>2, <1>6
    <2>4. ASSUME NEW j \in 1 .. Len(new) PROVE mirrorL!Follows(new[j])
        BY <1>9, <2>1, <2>3 DEF mirrorL!Follows
    <2>5. ASSUME NEW j \in 1 .. Len(new) PROVE slaveL!Follows(new[j])
        BY <1>9, <2>2, <2>3, SameOrder DEF slaveL!Follows
    <2>. QED BY <2>4, <2>5
<1>14. TypeOK'
    BY <1>1, <1>3, <1>4, MirrorRests, SlaveRests DEF DrainInv, TypeOK
<1>15. MirrorBytes'
    <2>1. \A j \in 1 .. Len(line') : mirrorL!Follows(line'[j])
        BY <1>11, <1>13 DEF DrainInv, MirrorBytes
    <2>. QED BY <1>1, <1>4, <2>1, MirrorRests DEF MirrorBytes
<1>16. SlaveBytes'
    <2>1. \A j \in 1 .. Len(line') : slaveL!Follows(line'[j])
        BY <1>11, <1>13 DEF DrainInv, SlaveBytes
    <2>2. chunk' = chunk
        BY <1>1
    <2>. QED BY <1>1, <1>4, <2>1, <2>2, SlaveRests DEF DrainInv, SlaveBytes
<1>17. mirrorL!Settled' /\ slaveL!Settled'
    BY <1>1, <1>4, MirrorRests, SlaveRests
<1>18. Turns'
    BY <1>1 DEF DrainInv, Turns, mirrorVars, slaveVars
<1>. QED BY <1>12, <1>14, <1>15, <1>16, <1>17, <1>18 DEF DrainInv

---------------------------------------------------------------------------
LEMMA InitDrainInv == Init => DrainInv
<1>. SUFFICES ASSUME Init PROVE DrainInv
    OBVIOUS
<1>1. /\ sent = <<>> /\ line = <<>> /\ chunk = <<>> /\ spent = 0 /\ worker = "idle"
      /\ m_accum = <<>> /\ ~m_scanning /\ m_crc_failures = 0 /\ m_decoded = <<>> /\ m_overrun = {}
      /\ s_accum = <<>> /\ ~s_scanning /\ s_crc_failures = 0 /\ s_decoded = <<>> /\ s_overrun = {}
    BY DEF Init, mirror!ScanInit, slave!ScanInit
<1>2. sent \in Seq(Frames)
    BY <1>1
<1>3. mirrorL!Sizes /\ slaveL!Sizes
    BY <1>2, SizesHold
<1>4. m_scanning \in BOOLEAN /\ s_scanning \in BOOLEAN
    BY DEF Init, mirror!ScanInit, slave!ScanInit
<1>5. mirror!ScanTypeOK /\ slave!ScanTypeOK
    BY <1>1, <1>3, <1>4
    DEF mirror!ScanTypeOK, slave!ScanTypeOK, mirrorL!Sizes, slaveL!Sizes,
        mirrorL!SizesFit, slaveL!SizesFit
<1>6. TypeOK
    BY <1>1, <1>2, <1>5, BoundsAssumption DEF TypeOK
<1>7. Runs /\ Turns
    BY <1>1 DEF Runs, Turns, mirrorL!IsRun, mirrorL!InOrder
<1>8. MirrorBytes
    BY <1>1 DEF MirrorBytes, mirrorL!Collected, mirrorL!IsRun, mirrorL!InOrder, mirrorL!OnceInOrder
<1>9. SlaveBytes
    BY <1>1 DEF SlaveBytes, slaveL!Collected, slaveL!IsRun, slaveL!InOrder, slaveL!OnceInOrder
<1>10. mirrorL!Settled /\ slaveL!Settled
    BY <1>1 DEF mirrorL!Settled, slaveL!Settled, mirrorL!Undecided, slaveL!Undecided
<1>. QED BY <1>6, <1>7, <1>8, <1>9, <1>10 DEF DrainInv

LEMMA DrainInvStep == DrainInv /\ [Next]_vars => DrainInv'
<1>. SUFFICES ASSUME DrainInv, [Next]_vars PROVE DrainInv'
    OBVIOUS
<1>1. CASE UNCHANGED vars
    <2>1. UNCHANGED <<sent, line, spent, worker, chunk, mirrorVars, slaveVars>> /\ Grows
        BY <1>1, StaysSent DEF vars
    <2>2. TypeOK'
        BY <2>1, MirrorRests, SlaveRests DEF DrainInv, TypeOK
    <2>3. MirrorBytes'
        BY <2>1, MirrorRests DEF DrainInv, MirrorBytes, mirrorVars
    <2>4. SlaveBytes'
        BY <2>1, SlaveRests DEF DrainInv, SlaveBytes
    <2>5. mirrorL!Settled' /\ slaveL!Settled' /\ Turns'
        BY <2>1, MirrorRests, SlaveRests
        DEF DrainInv, Turns, mirrorVars, slaveVars
    <2>. QED BY <2>1, <2>2, <2>3, <2>4, <2>5, RunsStay DEF DrainInv
<1>. QED
    BY <1>1, TransmitStep, GetChunkStep, MirrorFeedStep, MirrorScanStep, SlaveFeedStep, SlaveScanStep
    DEF Next, MirrorStep, SlaveStep

LEMMA DrainInvHolds == Spec => []DrainInv
BY InitDrainInv, DrainInvStep, PTL DEF Spec

\* Accumulators, chunk and decoded frames keep their types and sizes.
THEOREM TypeCorrect == Spec => []TypeOK
BY DrainInvHolds, PTL DEF DrainInv

\* Both consumers handle every frame at most once, in bus order, and only sound
\* ones, wherever chunks end and however much an overflow drops.
THEOREM OnceInOrderHolds == Spec => []OnceInOrder
<1>1. DrainInv => OnceInOrder
    BY MirrorIsScanner, SlaveIsScanner DEF DrainInv, MirrorBytes, SlaveBytes, OnceInOrder
<1>. QED BY <1>1, DrainInvHolds, PTL

---------------------------------------------------------------------------
(* Every sound frame is decoded, overrun, or still there as a whole:       *)
(* collected or ahead of the consumer.                                     *)

MirrorAhead ==
    mirrorL!Elements(line) \cup (IF worker = "mirror" /\ ~m_scanning THEN mirrorL!Elements(chunk) ELSE {})
SlaveAhead == slaveL!Elements(line) \cup slaveL!Elements(chunk)

MirrorKeeps == \A id \in 1 .. Len(sent) : mirrorL!Sound(id) => mirrorL!Kept(id, MirrorAhead)
SlaveKeeps == \A id \in 1 .. Len(sent) : slaveL!Sound(id) => slaveL!Kept(id, SlaveAhead)

LEMMA MirrorUnmoved ==
    ASSUME MirrorKeeps, Grows, UNCHANGED mirrorVars, MirrorAhead \subseteq MirrorAhead'
    PROVE  \A id \in 1 .. Len(sent) : mirrorL!Sound(id)' => mirrorL!Kept(id, MirrorAhead)'
<1>. TAKE id \in 1 .. Len(sent)
<1>. HAVE mirrorL!Sound(id)'
<1>1. sent'[id] = sent[id] /\ mirrorL!Sound(id)
    BY DEF Grows, mirrorL!Sound
<1>2. mirrorL!Kept(id, MirrorAhead)
    BY <1>1 DEF MirrorKeeps
<1>. HIDE DEF MirrorAhead
<1>. QED BY <1>1, <1>2 DEF mirrorL!Kept, mirrorL!Elements, mirrorVars

LEMMA SlaveUnmoved ==
    ASSUME SlaveKeeps, Grows, UNCHANGED slaveVars, SlaveAhead \subseteq SlaveAhead'
    PROVE  \A id \in 1 .. Len(sent) : slaveL!Sound(id)' => slaveL!Kept(id, SlaveAhead)'
<1>. TAKE id \in 1 .. Len(sent)
<1>. HAVE slaveL!Sound(id)'
<1>1. sent'[id] = sent[id] /\ slaveL!Sound(id)
    BY DEF Grows, slaveL!Sound
<1>2. slaveL!Kept(id, SlaveAhead)
    BY <1>1 DEF SlaveKeeps
<1>. HIDE DEF SlaveAhead
<1>. QED BY <1>1, <1>2 DEF slaveL!Kept, slaveL!Elements, slaveVars

LEMMA HeadersAreShort == mirrorL!HeadersShort /\ slaveL!HeadersShort
BY DEF mirrorL!HeadersShort, slaveL!HeadersShort, Header

\* The mirror is fed or scans: what it drops is no sound frame, or overrun.
LEMMA MirrorMissesNone ==
    ASSUME DrainInv, MirrorKeeps, MirrorStep PROVE MirrorKeeps'
<1>1. /\ worker = "mirror" /\ UNCHANGED <<sent, line, chunk>>
      /\ mirrorL!Collected /\ mirrorL!Sizes /\ chunk \in Seq(mirrorL!Byte(sent))
    BY MirrorIsScanner, SizesHold
    DEF MirrorStep, MirrorFeed, MirrorScan, MirrorFc10, MirrorFc06, MirrorReturn, Feeding,
        DrainInv, MirrorBytes, Runs, TypeOK, mirrorL!IsRun
<1>. DEFINE rest == mirrorL!Elements(line)
<1>2. \A x \in rest : mirrorL!Follows(x)
    BY DEF mirrorL!Elements, DrainInv, MirrorBytes
<1>3. PICK r : r = rest
    OBVIOUS
<1>4. SUFFICES ASSUME NEW id \in 1 .. Len(sent), mirrorL!Sound(id) PROVE mirrorL!Kept(id, r)'
    <2>1. r \subseteq MirrorAhead'
        BY <1>1, <1>3 DEF MirrorAhead, mirrorL!Elements
    <2>2. ASSUME NEW id, mirrorL!Kept(id, r)' PROVE mirrorL!Kept(id, MirrorAhead)'
        <3>. HIDE DEF MirrorAhead
        <3>. QED BY <2>1, <2>2 DEF mirrorL!Kept
    <2>. HIDE DEF MirrorAhead
    <2>3. \A id \in 1 .. Len(sent) : mirrorL!Sound(id)' => mirrorL!Sound(id)
        BY <1>1 DEF mirrorL!Sound
    <2>. QED BY <1>1, <2>2, <2>3 DEF MirrorKeeps
<1>5. mirrorL!Kept(id, MirrorAhead)
    BY <1>4 DEF MirrorKeeps
<1>6. CASE MirrorFeed
    <2>1. mirrorL!Feed(chunk) /\ ~m_scanning
        BY <1>6, MirrorStepsAre DEF MirrorFeed, mirrorL!Feed, mirrorL!FeedDropping
    <2>2. MirrorAhead = r \cup mirrorL!Elements(chunk)
        BY <1>1, <1>3, <2>1 DEF MirrorAhead
    <2>. QED BY <1>1, <1>5, <2>1, <2>2, mirrorL!FeedMissesNone
<1>7. CASE MirrorScan \/ MirrorFc10 \/ MirrorFc06 \/ MirrorReturn
    <2>1. mirrorL!ScanStep \/ mirrorL!Return
        BY <1>7, MirrorStepsAre DEF MirrorReturn
    <2>2. m_scanning
        BY <2>1 DEF mirrorL!ScanStep, mirrorL!Decode, mirrorL!Reject, mirrorL!RejectBy,
                    mirrorL!Slip, mirrorL!Consume, mirrorL!Return
    <2>3. MirrorAhead = r
        BY <1>1, <1>3, <2>2 DEF MirrorAhead
    <2>4. \A x \in r : mirrorL!Follows(x)
        BY <1>2, <1>3
    <2>. QED BY <1>1, <1>4, <1>5, <2>1, <2>3, <2>4, HeadersAreShort, mirrorL!ScanMissesNone
<1>. QED BY <1>6, <1>7 DEF MirrorStep

LEMMA SlaveMissesNone ==
    ASSUME DrainInv, SlaveKeeps, SlaveStep PROVE SlaveKeeps'
<1>1. /\ worker = "slave" /\ UNCHANGED <<sent, line>>
      /\ slaveL!Collected /\ slaveL!Sizes /\ chunk \in Seq(slaveL!Byte(sent))
    BY SlaveIsScanner, SizesHold, SameOrder
    DEF SlaveStep, SlaveFeed, SlaveScan, SlaveReturn, Feeding, DrainInv, SlaveBytes, Runs, TypeOK,
        slaveL!IsRun
<1>. DEFINE rest == slaveL!Elements(line)
<1>2. \A x \in rest : slaveL!Follows(x)
    BY DEF slaveL!Elements, DrainInv, SlaveBytes
<1>3. PICK r : r = rest
    OBVIOUS
<1>4. SUFFICES ASSUME NEW id \in 1 .. Len(sent), slaveL!Sound(id) PROVE slaveL!Kept(id, r)'
    <2>1. r \subseteq SlaveAhead'
        BY <1>1, <1>3 DEF SlaveAhead, slaveL!Elements
    <2>2. ASSUME NEW id, slaveL!Kept(id, r)' PROVE slaveL!Kept(id, SlaveAhead)'
        <3>. HIDE DEF SlaveAhead
        <3>. QED BY <2>1, <2>2 DEF slaveL!Kept
    <2>. HIDE DEF SlaveAhead
    <2>3. \A id \in 1 .. Len(sent) : slaveL!Sound(id)' => slaveL!Sound(id)
        BY <1>1 DEF slaveL!Sound
    <2>. QED BY <1>1, <2>2, <2>3 DEF SlaveKeeps
<1>5. slaveL!Kept(id, SlaveAhead)
    BY <1>4 DEF SlaveKeeps
<1>6. CASE SlaveFeed
    <2>1. slaveL!Feed(chunk)
        BY <1>6, SlaveStepsAre DEF SlaveFeed
    <2>2. SlaveAhead = r \cup slaveL!Elements(chunk)
        BY <1>3 DEF SlaveAhead
    <2>. QED BY <1>1, <1>5, <2>1, <2>2, slaveL!FeedMissesNone
<1>7. CASE SlaveScan \/ SlaveReturn
    <2>1. slaveL!ScanStep \/ slaveL!Return
        BY <1>7, SlaveStepsAre DEF SlaveReturn
    <2>2. s_scanning
        BY <2>1 DEF slaveL!ScanStep, slaveL!Decode, slaveL!Reject, slaveL!RejectBy,
                    slaveL!Slip, slaveL!Consume, slaveL!Return
    <2>3. slaveL!Elements(chunk) = {}
        BY <2>2 DEF DrainInv, Turns, slaveL!Elements
    <2>4. SlaveAhead = r /\ \A x \in r : slaveL!Follows(x)
        BY <1>2, <1>3, <2>3 DEF SlaveAhead
    <2>. QED BY <1>1, <1>4, <1>5, <2>1, <2>4, HeadersAreShort, slaveL!ScanMissesNone
<1>. QED BY <1>6, <1>7 DEF SlaveStep

LEMMA GetChunkMissesNone ==
    ASSUME DrainInv, MirrorKeeps, SlaveKeeps, NEW n \in 1 .. CHUNK, GetChunk(n)
    PROVE  MirrorKeeps' /\ SlaveKeeps'
<1>1. /\ worker = "idle" /\ worker' = "mirror" /\ n \in 0 .. Len(line)
      /\ UNCHANGED <<sent, mirrorVars, slaveVars>> /\ Grows
      /\ chunk' = SubSeq(line, 1, n) /\ line' = SubSeq(line, n + 1, Len(line))
    BY StaysSent DEF GetChunk
<1>2. line \in Seq(mirrorL!Byte(sent)) /\ Len(line) \in Nat /\ n \in Nat /\ chunk = <<>> /\ ~m_scanning
    BY <1>1 DEF DrainInv, Runs, Turns, mirrorL!IsRun
<1>3. /\ Len(chunk') = n /\ Len(line') = Len(line) - n
      /\ \A i \in 1 .. n : chunk'[i] = line[i]
      /\ \A i \in 1 .. Len(line) - n : line'[i] = line[n + i]
    BY <1>1, <1>2
<1>4. mirrorL!Elements(line) \subseteq mirrorL!Elements(line)' \cup mirrorL!Elements(chunk)'
    <2>. SUFFICES ASSUME NEW i \in 1 .. Len(line)
                  PROVE  \/ \E j \in 1 .. Len(chunk') : chunk'[j] = line[i]
                         \/ \E j \in 1 .. Len(line') : line'[j] = line[i]
        BY DEF mirrorL!Elements
    <2>1. CASE i <= n
        BY <1>3, <2>1
    <2>2. CASE i > n
        <3>1. i - n \in 1 .. Len(line') /\ line'[i - n] = line[i]
            BY <1>2, <1>3, <2>2
        <3>. QED BY <3>1
    <2>. QED BY <1>2, <2>1, <2>2
<1>5. ~m_scanning' /\ chunk = <<>>
    BY <1>1, <1>2 DEF mirrorVars
<1>6. MirrorAhead \subseteq MirrorAhead'
    BY <1>1, <1>4, <1>5 DEF MirrorAhead
<1>7. SlaveAhead \subseteq SlaveAhead'
    <2>1. slaveL!Elements(chunk) = {}
        BY <1>5 DEF slaveL!Elements
    <2>2. slaveL!Elements(line) \subseteq slaveL!Elements(line)' \cup slaveL!Elements(chunk)'
        BY <1>4 DEF mirrorL!Elements, slaveL!Elements
    <2>. QED BY <2>1, <2>2 DEF SlaveAhead
<1>. HIDE DEF MirrorAhead, SlaveAhead
<1>8. MirrorKeeps'
    BY <1>1, <1>6, MirrorUnmoved DEF MirrorKeeps
<1>9. SlaveKeeps'
    BY <1>1, <1>7, SlaveUnmoved DEF SlaveKeeps
<1>. QED BY <1>8, <1>9

LEMMA TransmitMissesNone ==
    ASSUME DrainInv, MirrorKeeps, SlaveKeeps, NEW f \in Frames, Transmit(f)
    PROVE  MirrorKeeps' /\ SlaveKeeps'
<1>0. PICK new : new = Len(sent) + 1
    OBVIOUS
<1>. DEFINE tail == Bytes(new, f)
<1>1. /\ worker = "idle" /\ sent' = Append(sent, f) /\ line' = line \o tail
      /\ UNCHANGED <<worker, chunk, mirrorVars, slaveVars>>
    BY <1>0 DEF Transmit
<1>2. sent \in Seq(Frames) /\ Len(sent) \in Nat /\ line \in Seq(mirrorL!Byte(sent)) /\ Len(line) \in Nat
    BY DEF DrainInv, TypeOK, Runs, mirrorL!IsRun
<1>3. /\ Len(sent') = new /\ sent'[new] = f
      /\ \A i \in 1 .. Len(sent) : sent'[i] = sent[i]
      /\ \A i \in 1 .. new : i \in 1 .. Len(sent) \/ i = new
    BY <1>0, <1>1, <1>2
<1>4. Grows
    BY <1>0, <1>2, <1>3 DEF Grows
<1>5. Size(f) \in Nat /\ Length[f.kind] \in Nat
    BY FrameSizes
<1>6. Len(tail) = Size(f) /\ \A i \in 1 .. Size(f) : tail[i] = <<new, i>>
    BY <1>5 DEF Bytes
<1>7. tail \in Seq(Nat \X Nat)
    <2>1. new \in Nat /\ \A i \in 1 .. Size(f) : <<new, i>> \in Nat \X Nat
        BY <1>0, <1>2, <1>5
    <2>. QED BY <1>5, <2>1 DEF Bytes
<1>. HIDE DEF tail
<1>8. /\ Len(line') = Len(line) + Size(f)
      /\ \A i \in 1 .. Len(line) : line'[i] = line[i]
      /\ \A i \in 1 .. Size(f) : line'[Len(line) + i] = <<new, i>>
    <2>1. mirrorL!Byte(sent) \subseteq Nat \X Nat
        BY DEF mirrorL!Byte
    <2>2. line \in Seq(Nat \X Nat)
        BY <1>2, <2>1
    <2>3. /\ Len(line \o tail) = Len(line) + Len(tail)
          /\ \A i \in 1 .. Len(line) : (line \o tail)[i] = line[i]
          /\ \A i \in 1 .. Len(tail) : (line \o tail)[Len(line) + i] = tail[i]
        BY <1>7, <2>2
    <2>. QED BY <1>1, <1>6, <2>3
<1>9. /\ mirrorL!Elements(line) \subseteq mirrorL!Elements(line)'
      /\ \A i \in 1 .. Size(f) : <<new, i>> \in mirrorL!Elements(line)'
    <2>1. \A i \in 1 .. Len(line) : i \in 1 .. Len(line')
        BY <1>2, <1>5, <1>8
    <2>2. \A i \in 1 .. Size(f) : Len(line) + i \in 1 .. Len(line')
        BY <1>2, <1>5, <1>8
    <2>. QED BY <1>8, <2>1, <2>2 DEF mirrorL!Elements
<1>10. f.fault = "none" => Size(f) = Length[f.kind]
    BY FrameSizes
<1>11. MirrorAhead \subseteq MirrorAhead' /\ mirrorL!Elements(line)' \subseteq MirrorAhead'
    BY <1>1, <1>9 DEF MirrorAhead
<1>12. SlaveAhead \subseteq SlaveAhead' /\ mirrorL!Elements(line)' \subseteq SlaveAhead'
    BY <1>1, <1>9 DEF SlaveAhead, mirrorL!Elements, slaveL!Elements
<1>. HIDE DEF MirrorAhead, SlaveAhead
<1>13. mirrorL!Sound(new)' => mirrorL!Kept(new, MirrorAhead)'
    BY <1>3, <1>9, <1>10, <1>11 DEF mirrorL!Sound, mirrorL!Kept
<1>14. slaveL!Sound(new)' => slaveL!Kept(new, SlaveAhead)'
    BY <1>3, <1>9, <1>10, <1>12 DEF slaveL!Sound, slaveL!Kept
<1>15. MirrorKeeps'
    <2>1. \A id \in 1 .. Len(sent) : mirrorL!Sound(id)' => mirrorL!Kept(id, MirrorAhead)'
        BY <1>1, <1>4, <1>11, MirrorUnmoved
    <2>2. \A id \in 1 .. Len(sent') : id \in 1 .. Len(sent) \/ id = new
        BY <1>3
    <2>. QED BY <1>13, <2>1, <2>2 DEF MirrorKeeps
<1>16. SlaveKeeps'
    <2>1. \A id \in 1 .. Len(sent) : slaveL!Sound(id)' => slaveL!Kept(id, SlaveAhead)'
        BY <1>1, <1>4, <1>12, SlaveUnmoved
    <2>2. \A id \in 1 .. Len(sent') : id \in 1 .. Len(sent) \/ id = new
        BY <1>3
    <2>. QED BY <1>14, <2>1, <2>2 DEF SlaveKeeps
<1>. QED BY <1>15, <1>16

LEMMA KeepsStep ==
    DrainInv /\ MirrorKeeps /\ SlaveKeeps /\ [Next]_vars => MirrorKeeps' /\ SlaveKeeps'
<1>. SUFFICES ASSUME DrainInv, MirrorKeeps, SlaveKeeps, [Next]_vars PROVE MirrorKeeps' /\ SlaveKeeps'
    OBVIOUS
<1>1. ASSUME UNCHANGED <<sent, mirrorVars>>, MirrorAhead \subseteq MirrorAhead' PROVE MirrorKeeps'
    <2>. HIDE DEF MirrorAhead
    <2>. QED BY <1>1, StaysSent, MirrorUnmoved DEF MirrorKeeps
<1>2. ASSUME UNCHANGED <<sent, slaveVars>>, SlaveAhead \subseteq SlaveAhead' PROVE SlaveKeeps'
    <2>. HIDE DEF SlaveAhead
    <2>. QED BY <1>2, StaysSent, SlaveUnmoved DEF SlaveKeeps
<1>3. CASE UNCHANGED vars
    <2>1. UNCHANGED <<sent, mirrorVars, slaveVars>>
        BY <1>3 DEF vars
    <2>2. MirrorAhead' = MirrorAhead /\ SlaveAhead' = SlaveAhead
        BY <1>3 DEF vars, mirrorVars, MirrorAhead, SlaveAhead, mirrorL!Elements, slaveL!Elements
    <2>. QED BY <1>1, <1>2, <2>1, <2>2
<1>4. CASE MirrorStep
    <2>1. UNCHANGED <<sent, line, chunk, slaveVars>>
        BY <1>4 DEF MirrorStep, MirrorFeed, MirrorScan, MirrorFc10, MirrorFc06, MirrorReturn, Feeding
    <2>2. SlaveAhead' = SlaveAhead
        BY <2>1 DEF SlaveAhead, slaveL!Elements
    <2>. QED BY <1>2, <1>4, <2>1, <2>2, MirrorMissesNone
<1>5. CASE SlaveStep
    <2>1. UNCHANGED <<sent, line, mirrorVars>> /\ worker = "slave"
        BY <1>5 DEF SlaveStep, SlaveFeed, SlaveScan, SlaveReturn, Feeding
    <2>2. MirrorAhead \subseteq MirrorAhead'
        BY <2>1 DEF MirrorAhead, mirrorL!Elements
    <2>. QED BY <1>1, <1>5, <2>1, <2>2, SlaveMissesNone
<1>. QED
    BY <1>3, <1>4, <1>5, GetChunkMissesNone, TransmitMissesNone DEF Next

LEMMA InitKeeps == Init => MirrorKeeps /\ SlaveKeeps
BY DEF Init, MirrorKeeps, SlaveKeeps

\* When nothing is left to be fed, a frame that is there as a whole is collected.
LEMMA KeepsImplies == DrainInv /\ MirrorKeeps /\ SlaveKeeps => NothingMissed
<1>. SUFFICES ASSUME DrainInv, MirrorKeeps, SlaveKeeps, worker = "idle"
              PROVE  mirror!NothingMissed(mirror!Serials(line)) /\ slave!NothingMissed(slave!Serials(line))
    BY DEF NothingMissed
<1>1. chunk = <<>> /\ ~m_scanning
    BY DEF DrainInv, Turns
<1>2. MirrorAhead = mirrorL!Elements(line) /\ SlaveAhead = slaveL!Elements(line)
    BY <1>1 DEF MirrorAhead, SlaveAhead, slaveL!Elements
<1>3. \A k \in {"fc10", "fc06", "request"} : 1 \in 1 .. Length[k]
    BY DEF Length
<1>4. mirror!NothingMissed(mirror!Serials(line))
    <2>. SUFFICES ASSUME NEW id \in 1 .. Len(sent), mirrorL!Sound(id), id \notin m_overrun,
                         id \notin mirror!Serials(line), id \notin mirrorL!Elements(m_decoded)
                  PROVE  id \in mirror!Serials(m_accum)
        BY DEF mirror!NothingMissed, mirrorL!Sound, mirrorL!Elements
    <2>1. <<id, 1>> \in mirrorL!Elements(m_accum) \cup mirrorL!Elements(line)
        BY <1>2, <1>3 DEF MirrorKeeps, mirrorL!Kept, mirrorL!Sound
    <2>. QED BY <2>1 DEF mirrorL!Elements, mirror!Serials
<1>5. slave!NothingMissed(slave!Serials(line))
    <2>. SUFFICES ASSUME NEW id \in 1 .. Len(sent), slaveL!Sound(id), id \notin s_overrun,
                         id \notin slave!Serials(line), id \notin slaveL!Elements(s_decoded)
                  PROVE  id \in slave!Serials(s_accum)
        BY DEF slave!NothingMissed, slaveL!Sound, slaveL!Elements
    <2>1. <<id, 1>> \in slaveL!Elements(s_accum) \cup slaveL!Elements(line)
        BY <1>2, <1>3 DEF SlaveKeeps, slaveL!Kept, slaveL!Sound
    <2>. QED BY <2>1 DEF slaveL!Elements, slave!Serials
<1>. QED BY <1>4, <1>5

\* A frame that is there as a whole, and not decoded, is held up by a longer one.
LEMMA KeepsDecodes == DrainInv /\ MirrorKeeps /\ SlaveKeeps => DecodedWhenComplete
<1>. SUFFICES ASSUME DrainInv, MirrorKeeps, SlaveKeeps, worker = "idle"
              PROVE  /\ mirror!DecodedOrHeldUp(mirror!Serials(line))
                     /\ slave!DecodedOrHeldUp(slave!Serials(line))
    BY DEF DecodedWhenComplete
<1>1. chunk = <<>> /\ ~m_scanning /\ ~s_scanning
    BY DEF DrainInv, Turns
<1>2. MirrorAhead = mirrorL!Elements(line) /\ SlaveAhead = slaveL!Elements(line)
    BY <1>1 DEF MirrorAhead, SlaveAhead, slaveL!Elements
<1>3. mirror!DecodedOrHeldUp(mirror!Serials(line))
    <2>. SUFFICES ASSUME NEW id \in 1 .. Len(sent), mirrorL!Sound(id), id \notin m_overrun,
                         id \notin mirror!Serials(line)
                  PROVE  mirror!HeldUp(sent[id].kind) \/ id \in mirrorL!Elements(m_decoded)
        BY DEF mirror!DecodedOrHeldUp, mirrorL!Sound, mirrorL!Elements
    <2>1. \A p : <<id, p>> \notin MirrorAhead
        BY <1>2 DEF mirrorL!Elements, mirror!Serials
    <2>2. mirrorL!Kept(id, MirrorAhead)
        BY DEF MirrorKeeps
    <2>3. mirrorL!Collected /\ mirrorL!Sizes /\ mirrorL!Settled
        BY SizesHold DEF DrainInv, MirrorBytes, TypeOK
    <2>4. mirrorL!HeldUp(sent[id].kind) \/ id \in mirrorL!Elements(m_decoded)
        <3>. HIDE DEF MirrorAhead
        <3>. QED BY <1>1, <2>1, <2>2, <2>3, mirrorL!WaitsHeldUp
    <2>. QED
        BY <2>4 DEF mirror!HeldUp, mirrorL!HeldUp, mirror!Incomplete, mirrorL!Incomplete,
                    mirror!Matches, mirrorL!Matches, mirror!Looks, mirrorL!Looks
<1>4. slave!DecodedOrHeldUp(slave!Serials(line))
    <2>. SUFFICES ASSUME NEW id \in 1 .. Len(sent), slaveL!Sound(id), id \notin s_overrun,
                         id \notin slave!Serials(line)
                  PROVE  slave!HeldUp(sent[id].kind) \/ id \in slaveL!Elements(s_decoded)
        BY DEF slave!DecodedOrHeldUp, slaveL!Sound, slaveL!Elements
    <2>1. \A p : <<id, p>> \notin SlaveAhead
        BY <1>2 DEF slaveL!Elements, slave!Serials
    <2>2. slaveL!Kept(id, SlaveAhead)
        BY DEF SlaveKeeps
    <2>3. slaveL!Collected /\ slaveL!Sizes /\ slaveL!Settled
        BY SizesHold DEF DrainInv, SlaveBytes, TypeOK
    <2>4. slaveL!HeldUp(sent[id].kind) \/ id \in slaveL!Elements(s_decoded)
        <3>. HIDE DEF SlaveAhead
        <3>. QED BY <1>1, <2>1, <2>2, <2>3, slaveL!WaitsHeldUp
    <2>. QED
        BY <2>4 DEF slave!HeldUp, slaveL!HeldUp, slave!Incomplete, slaveL!Incomplete,
                    slave!Matches, slaveL!Matches, slave!Looks, slaveL!Looks
<1>. QED BY <1>3, <1>4

\* Neither consumer loses a good frame to damaged, foreign or look-alike bytes
\* before it: once fed it was decoded or is still collected, unless an overflow
\* took bytes of it.
THEOREM NothingMissedHolds == Spec => []NothingMissed
BY InitDrainInv, DrainInvStep, InitKeeps, KeepsStep, KeepsImplies, PTL DEF Spec

\* A sound frame whose last byte has been fed was decoded by that chunk, unless an
\* overflow took bytes of it or the opening of a longer frame stands before it; so
\* an FC10 broadcast and a request never wait, whatever the sizes and the chunks.
THEOREM DecodedWhenCompleteHolds == Spec => []DecodedWhenComplete
BY InitDrainInv, DrainInvStep, InitKeeps, KeepsStep, KeepsDecodes, PTL DEF Spec

\* The counters fed by decoded frames are the table PanelMirror specifies.
THEOREM FeedsTable == Spec => MirrorSpec
<1>1. Init => MirrorInit
    BY DEF Init
<1>2. TableTypeOK /\ DrainInv /\ [Next]_vars => [MirrorNext]_table
    <2>. SUFFICES ASSUME TableTypeOK, DrainInv, [Next]_vars, ~UNCHANGED table PROVE MirrorNext
        OBVIOUS
    <2>1. MirrorFc06
        BY DEF Next, vars, Transmit, GetChunk, MirrorStep, MirrorFeed, MirrorScan, MirrorFc10,
               MirrorReturn, SlaveStep, SlaveFeed, SlaveScan, SlaveReturn
    <2>2. PICK at \in {now, now + 1} : HandleFc06(sent[m_accum[1][1]].addr, m_accum[1][1], at)
        BY <2>1 DEF MirrorFc06
    <2>3. Len(m_accum) >= 3 /\ m_accum \in Seq(mirrorL!Byte(sent))
        BY <2>1 DEF MirrorFc06, mirror!Decode, mirror!Candidate, Length, DrainInv, MirrorBytes,
                    mirrorL!Collected, mirrorL!IsRun
    <2>4. m_accum[1] \in mirrorL!Byte(sent)
        BY <2>3
    <2>5. m_accum[1][1] \in 1 .. Len(sent)
        BY <2>4 DEF mirrorL!Byte
    <2>6. sent[m_accum[1][1]] \in Frames
        BY <2>5 DEF DrainInv, TypeOK
    <2>7. sent[m_accum[1][1]].addr \in Addresses
        BY <2>6, FramesAssumption
    <2>8. at \in Nat /\ m_accum[1][1] \in Nat
        BY <2>5 DEF TableTypeOK
    <2>. QED BY <2>2, <2>7, <2>8 DEF MirrorNext
<1>3. MirrorInv => TableTypeOK
    BY DEF MirrorInv
<1>. QED BY <1>1, <1>2, <1>3, TableInit, TableInvariance, DrainInvHolds, PTL DEF Spec, MirrorSpec

---------------------------------------------------------------------------
(* Progress.                                                               *)

\* At most so many steps are left of the drain worker's turn on a chunk.
StepsLeft ==
    CASE worker = "mirror" /\ ~m_scanning -> SLAVE_ACCUM + MIRROR_ACCUM + 4
      [] worker = "mirror" /\ m_scanning  -> SLAVE_ACCUM + Len(m_accum) + 3
      [] worker = "slave" /\ ~s_scanning  -> SLAVE_ACCUM + 2
      [] worker = "slave" /\ s_scanning   -> Len(s_accum) + 1
      [] worker = "idle"                  -> 0

\* While a chunk is being fed, every step of the worker brings its end nearer.
FeedShortens == worker # "idle" => StepsLeft' < StepsLeft

\* What is left is a number, and bounded by the two accumulators.
StepsBounded ==
    /\ StepsLeft \in 0 .. SLAVE_ACCUM + MIRROR_ACCUM + 4
    /\ Len(m_accum) \in 0 .. MIRROR_ACCUM /\ Len(s_accum) \in 0 .. SLAVE_ACCUM
    /\ MIRROR_ACCUM \in Nat /\ SLAVE_ACCUM \in Nat

LEMMA StepsAreFew == DrainInv => StepsBounded
<1>. SUFFICES ASSUME DrainInv PROVE StepsBounded
    OBVIOUS
<1>1. MIRROR_ACCUM \in Nat /\ SLAVE_ACCUM \in Nat
    BY SizesAssumption DEF mirror!SizesFit, slave!SizesFit
<1>2. m_accum \in Seq(mirrorL!Byte(sent)) /\ s_accum \in Seq(slaveL!Byte(sent))
    BY DEF DrainInv, MirrorBytes, SlaveBytes, mirrorL!Collected, slaveL!Collected,
           mirrorL!IsRun, slaveL!IsRun
<1>3. Len(m_accum) \in Nat /\ Len(s_accum) \in Nat
    BY <1>2
<1>4. Len(m_accum) <= MIRROR_ACCUM /\ Len(s_accum) <= SLAVE_ACCUM
    BY DEF DrainInv, TypeOK, mirror!ScanTypeOK, slave!ScanTypeOK
<1>5. /\ worker \in {"idle", "mirror", "slave"}
      /\ m_scanning \in BOOLEAN /\ s_scanning \in BOOLEAN
    BY DEF DrainInv, TypeOK, mirror!ScanTypeOK, slave!ScanTypeOK
<1>. QED BY <1>1, <1>3, <1>4, <1>5 DEF StepsLeft, StepsBounded

LEMMA MirrorShortens ==
    ASSUME DrainInv, StepsBounded, StepsBounded', MirrorStep
    PROVE  StepsLeft' < StepsLeft
<1>1. worker = "mirror" /\ ~s_scanning /\ UNCHANGED slaveVars
    BY DEF MirrorStep, MirrorFeed, MirrorScan, MirrorFc10, MirrorFc06, MirrorReturn, Feeding,
           DrainInv, Turns
<1>2. CASE MirrorFeed
    <2>1. ~m_scanning /\ m_scanning' /\ worker' = "mirror"
        BY <1>1, <1>2 DEF MirrorFeed, mirror!Feed, mirror!FeedDropping
    <2>. QED BY <1>1, <2>1 DEF StepsLeft, StepsBounded
<1>3. CASE MirrorScan \/ MirrorFc10 \/ MirrorFc06
    <2>1. mirror!ScanStep /\ worker' = "mirror"
        BY <1>1, <1>3 DEF MirrorScan, MirrorFc10, MirrorFc06, mirror!ScanStep
    <2>2. mirrorL!ScanStep
        BY <1>3, MirrorStepsAre
    <2>3. m_accum \in Seq(mirrorL!Byte(sent))
        BY DEF DrainInv, MirrorBytes, mirrorL!Collected, mirrorL!IsRun
    <2>4. mirrorL!Sizes
        BY SizesHold DEF DrainInv, TypeOK
    <2>5. Len(m_accum') < Len(m_accum) /\ m_scanning /\ m_scanning'
        BY <2>2, <2>3, <2>4, mirrorL!ScanShortens
    <2>. QED BY <1>1, <2>1, <2>5 DEF StepsLeft, StepsBounded
<1>4. CASE MirrorReturn
    <2>1. m_scanning /\ worker' = "slave" /\ ~s_scanning'
        BY <1>1, <1>4 DEF MirrorReturn, mirror!Return, slaveVars
    <2>. QED BY <1>1, <2>1 DEF StepsLeft, StepsBounded
<1>. QED BY <1>2, <1>3, <1>4 DEF MirrorStep

LEMMA SlaveShortens ==
    ASSUME DrainInv, StepsBounded, StepsBounded', SlaveStep
    PROVE  StepsLeft' < StepsLeft
<1>1. worker = "slave"
    BY DEF SlaveStep, SlaveFeed, SlaveScan, SlaveReturn, Feeding
<1>2. CASE SlaveFeed
    <2>1. ~s_scanning /\ s_scanning' /\ worker' = "slave"
        BY <1>1, <1>2 DEF SlaveFeed, slave!Feed, slave!FeedDropping
    <2>. QED BY <1>1, <2>1 DEF StepsLeft, StepsBounded
<1>3. CASE SlaveScan
    <2>1. slave!ScanStep /\ worker' = "slave"
        BY <1>1, <1>3 DEF SlaveScan
    <2>2. slaveL!ScanStep
        BY <1>3, SlaveStepsAre
    <2>3. s_accum \in Seq(slaveL!Byte(sent))
        BY DEF DrainInv, SlaveBytes, slaveL!Collected, slaveL!IsRun
    <2>4. slaveL!Sizes
        BY SizesHold DEF DrainInv, TypeOK
    <2>5. Len(s_accum') < Len(s_accum) /\ s_scanning /\ s_scanning'
        BY <2>2, <2>3, <2>4, slaveL!ScanShortens
    <2>. QED BY <1>1, <2>1, <2>5 DEF StepsLeft, StepsBounded
<1>4. CASE SlaveReturn
    <2>1. s_scanning /\ worker' = "idle"
        BY <1>1, <1>4 DEF SlaveReturn, slave!Return
    <2>. QED BY <1>1, <2>1 DEF StepsLeft, StepsBounded
<1>. QED BY <1>2, <1>3, <1>4 DEF SlaveStep

\* Feeding a chunk takes at most SLAVE_ACCUM + MIRROR_ACCUM + 4 steps, whatever
\* the bytes: no candidate, look-alike or damaged frame makes a feed function
\* scan the same front again.  FeedsReturn rests on this.
THEOREM FeedsShorten == Spec => []StepsBounded /\ [][FeedShortens]_vars
<1>1. DrainInv /\ StepsBounded /\ StepsBounded' /\ [Next]_vars => [FeedShortens]_vars
    <2>. SUFFICES ASSUME DrainInv, StepsBounded, StepsBounded', Next, worker # "idle"
                  PROVE  StepsLeft' < StepsLeft
        BY DEF FeedShortens
    <2>. QED BY MirrorShortens, SlaveShortens DEF Next, Transmit, GetChunk
<1>. QED BY <1>1, StepsAreFew, DrainInvHolds, PTL DEF Spec
=============================================================================
