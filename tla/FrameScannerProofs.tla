------------------------- MODULE FrameScannerProofs -------------------------
(***************************************************************************)
(* Lemmas about the steps of one scanner, for any frames and sizes.        *)
(* DrainFeedsProofs uses them for the panel mirror and for the slave.      *)
(*                                                                         *)
(* A frame is handed on once and in order because its bytes come in order: *)
(* what was decoded lies before what is collected, and both lie before     *)
(* every byte that is yet to be fed (Collected, Follows).  Every turn of   *)
(* the scan takes a byte or more, and the front leaves it one choice.      *)
(***************************************************************************)
EXTENDS FrameScanner, FiniteSetTheorems, TLAPS

Before(x, y) == x[1] < y[1] \/ (x[1] = y[1] /\ x[2] < y[2])
Byte(log) == {b \in (1 .. Len(log)) \X (Nat \ {0}) : b[2] <= Length[log[b[1]].kind]}
InOrder(s) == \A i, j \in 1 .. Len(s) : i < j => Before(s[i], s[j])

\* A stretch of what the bus sent, if it sent the frames in log.
IsRun(s, log) == s \in Seq(Byte(log)) /\ InOrder(s)

Collected ==
    /\ IsRun(accum, sent)
    /\ decoded \in Seq(1 .. Len(sent)) /\ OnceInOrder
    /\ \A i \in 1 .. Len(decoded), j \in 1 .. Len(accum) : decoded[i] < accum[j][1]

\* The byte x is yet to come.
Follows(x) ==
    /\ \A j \in 1 .. Len(accum) : Before(accum[j], x)
    /\ \A i \in 1 .. Len(decoded) : decoded[i] < x[1]

LEMMA DropRun ==
    ASSUME NEW log, NEW s, IsRun(s, log), NEW n \in 0 .. Len(s)
    PROVE  /\ IsRun(Drop(s, n), log) /\ Len(Drop(s, n)) = Len(s) - n
           /\ \A i \in 1 .. Len(s) - n : Drop(s, n)[i] = s[n + i]
<1>1. s \in Seq(Byte(log)) /\ Len(s) \in Nat
    BY DEF IsRun
<1>2. /\ Drop(s, n) \in Seq(Byte(log)) /\ Len(Drop(s, n)) = Len(s) - n
      /\ \A i \in 1 .. Len(s) - n : Drop(s, n)[i] = s[n + i]
    BY <1>1 DEF Drop
<1>3. InOrder(Drop(s, n))
    <2>. SUFFICES ASSUME NEW i \in 1 .. Len(s) - n, NEW j \in 1 .. Len(s) - n, i < j
                  PROVE  Before(Drop(s, n)[i], Drop(s, n)[j])
        BY <1>2 DEF InOrder
    <2>1. n + i \in 1 .. Len(s) /\ n + j \in 1 .. Len(s) /\ n + i < n + j
        BY <1>1
    <2>. QED BY <1>2, <2>1 DEF IsRun, InOrder
<1>. QED BY <1>2, <1>3 DEF IsRun

LEMMA JoinRuns ==
    ASSUME NEW log, NEW s, NEW t, IsRun(s, log), IsRun(t, log),
           \A i \in 1 .. Len(s), j \in 1 .. Len(t) : Before(s[i], t[j])
    PROVE  /\ IsRun(s \o t, log) /\ Len(s \o t) = Len(s) + Len(t)
           /\ \A i \in 1 .. Len(s) + Len(t) :
                  (s \o t)[i] = IF i <= Len(s) THEN s[i] ELSE t[i - Len(s)]
<1>1. s \in Seq(Byte(log)) /\ t \in Seq(Byte(log)) /\ Len(s) \in Nat /\ Len(t) \in Nat
    BY DEF IsRun
<1>2. /\ s \o t \in Seq(Byte(log)) /\ Len(s \o t) = Len(s) + Len(t)
      /\ \A i \in 1 .. Len(s) + Len(t) :
             (s \o t)[i] = IF i <= Len(s) THEN s[i] ELSE t[i - Len(s)]
    BY <1>1
<1>3. InOrder(s \o t)
    <2>. SUFFICES ASSUME NEW i \in 1 .. Len(s) + Len(t), NEW j \in 1 .. Len(s) + Len(t), i < j
                  PROVE  Before((s \o t)[i], (s \o t)[j])
        BY <1>2 DEF InOrder
    <2>1. CASE j <= Len(s)
        BY <1>1, <1>2, <2>1 DEF IsRun, InOrder
    <2>2. CASE i > Len(s)
        <3>1. i - Len(s) \in 1 .. Len(t) /\ j - Len(s) \in 1 .. Len(t) /\ i - Len(s) < j - Len(s)
            BY <1>1, <2>2
        <3>2. Before(t[i - Len(s)], t[j - Len(s)])
            BY <3>1 DEF IsRun, InOrder
        <3>. QED BY <1>1, <1>2, <2>2, <3>2
    <2>3. CASE i <= Len(s) /\ j > Len(s)
        <3>1. i \in 1 .. Len(s) /\ j - Len(s) \in 1 .. Len(t)
            BY <1>1, <2>3
        <3>2. Before(s[i], t[j - Len(s)])
            BY <3>1
        <3>. QED BY <1>1, <1>2, <2>3, <3>2
    <2>. QED BY <1>1, <2>1, <2>2, <2>3
<1>. QED BY <1>2, <1>3 DEF IsRun

LEMMA TakeRun ==
    ASSUME NEW log, NEW s, IsRun(s, log), NEW n \in 0 .. Len(s)
    PROVE  /\ IsRun(SubSeq(s, 1, n), log) /\ Len(SubSeq(s, 1, n)) = n
           /\ \A i \in 1 .. n : SubSeq(s, 1, n)[i] = s[i]
<1>1. s \in Seq(Byte(log)) /\ Len(s) \in Nat
    BY DEF IsRun
<1>2. /\ SubSeq(s, 1, n) \in Seq(Byte(log)) /\ Len(SubSeq(s, 1, n)) = n
      /\ \A i \in 1 .. n : SubSeq(s, 1, n)[i] = s[i]
    BY <1>1
<1>. QED BY <1>1, <1>2 DEF IsRun, InOrder

\* Dropping bytes from the front, by Reject, Slip or an overflow.
LEMMA DropKeeps ==
    ASSUME Collected, NEW n \in 0 .. Len(accum),
           accum' = Drop(accum, n), UNCHANGED <<sent, decoded>>
    PROVE  Collected' /\ \A x : Follows(x) => Follows(x)'
<1>1. /\ IsRun(Drop(accum, n), sent) /\ Len(Drop(accum, n)) = Len(accum) - n
      /\ \A i \in 1 .. Len(accum) - n : Drop(accum, n)[i] = accum[n + i]
    <2>1. IsRun(accum, sent) /\ n \in 0 .. Len(accum)
        BY DEF Collected
    <2>2. \A m \in 0 .. Len(accum) :
              /\ IsRun(Drop(accum, m), sent) /\ Len(Drop(accum, m)) = Len(accum) - m
              /\ \A i \in 1 .. Len(accum) - m : Drop(accum, m)[i] = accum[m + i]
        BY <2>1, DropRun
    <2>. QED BY <2>1, <2>2
<1>2. IsRun(accum', sent')
    <2>1. accum' = Drop(accum, n) /\ sent' = sent
        OBVIOUS
    <2>. QED BY <1>1, <2>1 DEF IsRun, InOrder, Byte
<1>3. Len(accum) \in Nat
    BY DEF Collected, IsRun
<1>4. \A i \in 1 .. Len(accum') : accum'[i] = accum[n + i] /\ n + i \in 1 .. Len(accum)
    BY <1>1, <1>3
<1>. QED BY <1>2, <1>4 DEF Collected, Follows, OnceInOrder

LEMMA FeedKeeps ==
    ASSUME Collected, NEW chunk, IsRun(chunk, sent), \A i \in 1 .. Len(chunk) : Follows(chunk[i]),
           Feed(chunk), UNCHANGED sent, ACCUM \in Nat
    PROVE  /\ Collected' /\ Len(accum') <= ACCUM
           /\ \A x : Follows(x) /\ (\A i \in 1 .. Len(chunk) : Before(chunk[i], x)) => Follows(x)'
<1>. DEFINE all == accum \o chunk
            n == Excess(chunk, ACCUM)
<1>1. IsRun(accum, sent) /\ \A i \in 1 .. Len(accum), j \in 1 .. Len(chunk) : Before(accum[i], chunk[j])
    BY DEF Collected, Follows
<1>2. /\ IsRun(all, sent) /\ Len(all) = Len(accum) + Len(chunk)
      /\ \A i \in 1 .. Len(accum) + Len(chunk) :
             all[i] = IF i <= Len(accum) THEN accum[i] ELSE chunk[i - Len(accum)]
    BY <1>1, JoinRuns
<1>3. Len(accum) \in Nat /\ Len(chunk) \in Nat
    BY <1>1 DEF IsRun
<1>4. n \in 0 .. Len(all) /\ Len(all) - n <= ACCUM
    BY <1>2, <1>3 DEF Excess
<1>5. accum' = Drop(all, n) /\ decoded' = decoded
    BY DEF Feed, FeedDropping
<1>. HIDE DEF all, n
<1>6. /\ IsRun(Drop(all, n), sent) /\ Len(Drop(all, n)) = Len(all) - n
      /\ \A i \in 1 .. Len(all) - n : Drop(all, n)[i] = all[n + i]
    <2>1. IsRun(all, sent) /\ n \in 0 .. Len(all)
        BY <1>2, <1>4
    <2>. QED BY <2>1, DropRun
<1>7. \A i \in 1 .. Len(accum') :
          \/ \E j \in 1 .. Len(accum) : accum'[i] = accum[j]
          \/ \E j \in 1 .. Len(chunk) : accum'[i] = chunk[j]
    <2>. TAKE i \in 1 .. Len(accum')
    <2>1. n + i \in 1 .. Len(accum) + Len(chunk) /\ accum'[i] = all[n + i]
        BY <1>2, <1>3, <1>4, <1>5, <1>6
    <2>2. CASE n + i <= Len(accum)
        BY <1>2, <1>3, <2>1, <2>2
    <2>3. CASE n + i > Len(accum)
        <3>1. n \in Nat /\ i \in Nat
            BY <1>2, <1>3, <1>4
        <3>2. n + i - Len(accum) \in 1 .. Len(chunk)
            BY <1>3, <2>1, <2>3, <3>1
        <3>3. accum'[i] = chunk[n + i - Len(accum)]
            BY <1>2, <1>3, <2>1, <2>3, <3>1
        <3>. QED BY <3>2, <3>3
    <2>. QED BY <1>2, <1>3, <1>4, <2>2, <2>3
<1>8. IsRun(accum', sent')
    BY <1>5, <1>6 DEF IsRun, InOrder, Byte
<1>9. \A i \in 1 .. Len(decoded), j \in 1 .. Len(accum') : decoded[i] < accum'[j][1]
    BY <1>7 DEF Collected, Follows
<1>10. Collected'
    BY <1>5, <1>8, <1>9 DEF Collected, OnceInOrder
<1>. QED BY <1>4, <1>5, <1>6, <1>7, <1>10 DEF Follows

\* The bytes of a good frame are its last: the next one is of a later frame.
LEMMA DecodeKeeps ==
    ASSUME Collected, NEW k \in Kinds, Decode(k), UNCHANGED sent,
           Length[k] \in Nat \ {0}
    PROVE  Collected' /\ \A x \in Byte(sent) : Follows(x) => Follows(x)'
<1>. DEFINE id == accum[1][1]
            n == Length[k]
<1>1. /\ Len(accum) >= n /\ sent[id].kind = k /\ sent[id].fault = "none"
      /\ \A i \in 1 .. n : accum[i] = <<id, i>>
      /\ accum' = Drop(accum, n) /\ decoded' = Append(decoded, id)
    BY DEF Decode, Candidate, CrcOk, Consume
<1>2. accum \in Seq(Byte(sent)) /\ Len(accum) \in Nat /\ IsRun(accum, sent) /\ n \in 0 .. Len(accum)
    BY <1>1 DEF Collected, IsRun
<1>3. id \in 1 .. Len(sent) /\ 1 \in 1 .. Len(accum) /\ n \in 1 .. Len(accum) /\ accum[n] = <<id, n>>
    <2>1. 1 \in 1 .. Len(accum) /\ n \in 1 .. Len(accum) /\ n \in 1 .. n
        BY <1>1, <1>2
    <2>2. accum[1] \in Byte(sent)
        BY <1>2, <2>1
    <2>. QED BY <1>1, <2>1, <2>2 DEF Byte
<1>. HIDE DEF id, n
<1>4. \A x \in Byte(sent) : Before(accum[n], x) => id < x[1]
    <2>. SUFFICES ASSUME NEW x \in Byte(sent), Before(accum[n], x) PROVE id < x[1]
        OBVIOUS
    <2>1. id < x[1] \/ (id = x[1] /\ n < x[2])
        BY <1>3 DEF Before
    <2>2. id # x[1] \/ x[2] <= n
        BY <1>1 DEF Byte, n
    <2>3. x[2] \in Nat /\ n \in Nat
        BY DEF Byte, n
    <2>. QED BY <2>1, <2>2, <2>3
<1>5. /\ IsRun(Drop(accum, n), sent) /\ Len(Drop(accum, n)) = Len(accum) - n
      /\ \A i \in 1 .. Len(accum) - n : Drop(accum, n)[i] = accum[n + i]
    BY <1>2, DropRun
<1>6. \A j \in 1 .. Len(accum') : /\ accum'[j] = accum[n + j] /\ n + j \in 1 .. Len(accum)
                                  /\ accum[n + j] \in Byte(sent) /\ id < accum'[j][1]
    <2>. TAKE j \in 1 .. Len(accum')
    <2>1. accum'[j] = accum[n + j] /\ n + j \in 1 .. Len(accum) /\ n < n + j
        BY <1>1, <1>2, <1>3, <1>5
    <2>2. Before(accum[n], accum[n + j])
        BY <1>2, <1>3, <2>1 DEF IsRun, InOrder
    <2>3. accum[n + j] \in Byte(sent)
        BY <1>2, <2>1
    <2>. QED BY <1>4, <2>1, <2>2, <2>3
<1>7. decoded \in Seq(1 .. Len(sent)) /\ Len(decoded) \in Nat
    BY DEF Collected
<1>8. /\ decoded' \in Seq(1 .. Len(sent)) /\ Len(decoded') = Len(decoded) + 1
      /\ \A i \in 1 .. Len(decoded) : decoded'[i] = decoded[i]
      /\ decoded'[Len(decoded) + 1] = id
    BY <1>1, <1>3, <1>7
<1>9. \A i \in 1 .. Len(decoded) : decoded[i] < id
    BY <1>3 DEF Collected, id
<1>10. OnceInOrder'
    <2>1. \A i \in 1 .. Len(decoded') : i \in 1 .. Len(decoded) \/ i = Len(decoded) + 1
        BY <1>7, <1>8
    <2>2. \A i, j \in 1 .. Len(decoded') : i < j => i \in 1 .. Len(decoded)
        BY <1>7, <1>8
    <2>3. \A i, j \in 1 .. Len(decoded') : i < j => decoded'[i] < decoded'[j]
        BY <1>8, <1>9, <2>1, <2>2 DEF Collected, OnceInOrder
    <2>4. \A i \in 1 .. Len(decoded') : sent[decoded'[i]].fault = "none"
        BY <1>1, <1>8, <2>1 DEF Collected, OnceInOrder
    <2>. QED BY <2>3, <2>4 DEF OnceInOrder
<1>11. IsRun(accum', sent')
    BY <1>1, <1>5 DEF IsRun, InOrder, Byte
<1>12. \A i \in 1 .. Len(decoded') : decoded'[i] < id + 1 /\ decoded'[i] \in Nat
    <2>. TAKE i \in 1 .. Len(decoded')
    <2>1. CASE i = Len(decoded) + 1
        BY <1>3, <1>8, <2>1
    <2>2. CASE i \in 1 .. Len(decoded)
        <3>1. decoded[i] \in 1 .. Len(sent)
            BY <1>7, <2>2
        <3>2. decoded'[i] = decoded[i] /\ decoded[i] < id
            BY <1>8, <1>9, <2>2
        <3>3. id \in Nat
            BY <1>3
        <3>. QED BY <3>1, <3>2, <3>3
    <2>. QED BY <1>7, <1>8, <2>1, <2>2
<1>13. Collected'
    <2>1. \A i \in 1 .. Len(decoded'), j \in 1 .. Len(accum') : decoded'[i] < accum'[j][1]
        <3>. TAKE i \in 1 .. Len(decoded'), j \in 1 .. Len(accum')
        <3>1. accum'[j] \in Byte(sent) /\ id \in Nat
            BY <1>3, <1>6
        <3>2. accum'[j][1] \in Nat
            BY <3>1 DEF Byte
        <3>. QED BY <1>6, <1>12, <3>1, <3>2
    <2>. QED BY <1>8, <1>10, <1>11, <2>1 DEF Collected
<1>14. ASSUME NEW x \in Byte(sent), Follows(x) PROVE Follows(x)'
    <2>1. id < x[1] /\ x[1] \in Nat /\ id \in Nat
        BY <1>3, <1>4, <1>14 DEF Follows, Byte
    <2>2. \A i \in 1 .. Len(decoded') : decoded'[i] < x[1]
        BY <1>12, <2>1
    <2>3. \A j \in 1 .. Len(accum') : Before(accum'[j], x)
        BY <1>6, <1>14 DEF Follows
    <2>. QED BY <2>2, <2>3 DEF Follows
<1>. QED BY <1>13, <1>14

\* No more frames are decoded than were sent.
LEMMA IncreasingIsShort ==
    ASSUME NEW n \in Nat, NEW d \in Seq(1 .. n),
           \A i, j \in 1 .. Len(d) : i < j => d[i] < d[j]
    PROVE  Len(d) <= n
<1>1. Len(d) \in Nat /\ d \in [1 .. Len(d) -> 1 .. n]
    OBVIOUS
<1>2. \A m \in Nat : IsFiniteSet(1 .. m) /\ Cardinality(1 .. m) = m
    <2>. TAKE m \in Nat
    <2>1. 1 \in Int /\ m \in Int
        OBVIOUS
    <2>2. IsFiniteSet(1 .. m)
        BY <2>1, FS_Interval, Zenon
    <2>3. Cardinality(1 .. m) = IF 1 > m THEN 0 ELSE m - 1 + 1
        BY <2>1, FS_Interval, Zenon
    <2>. QED BY <2>2, <2>3
<1>3. SUFFICES ASSUME n < Len(d) PROVE FALSE
    BY <1>1
<1>4. PICK i \in 1 .. Len(d), j \in 1 .. Len(d) : i # j /\ d[i] = d[j]
    BY <1>1, <1>2, <1>3, FS_PigeonHole
<1>5. d[i] \in Int /\ d[j] \in Int /\ (i < j \/ j < i)
    BY <1>1, <1>4
<1>. QED BY <1>4, <1>5

\* The sizes as numbers.
Sizes == SizesFit /\ (\A k \in Kinds : Length[k] \in Nat \ {0}) /\ Len(sent) \in Nat

LEMMA FeedTypes ==
    ASSUME Collected, ScanTypeOK, Sizes, NEW chunk, IsRun(chunk, sent),
           \A i \in 1 .. Len(chunk) : Follows(chunk[i]), Feed(chunk), UNCHANGED sent
    PROVE  ScanTypeOK'
<1>. DEFINE all == accum \o chunk
            n == Excess(chunk, ACCUM)
<1>1. Collected' /\ Len(accum') <= ACCUM
    BY FeedKeeps DEF Sizes, SizesFit
<1>2. \A i \in 1 .. Len(accum') : accum'[i][1] \in 1 .. Len(sent)
    <2>1. accum' \in Seq(Byte(sent))
        BY <1>1 DEF Collected, IsRun, Byte
    <2>2. \A i \in 1 .. Len(accum') : accum'[i] \in Byte(sent)
        BY <2>1
    <2>. QED BY <2>2 DEF Byte
<1>3. all \in Seq(Byte(sent)) /\ n \in Nat /\ n <= Len(all)
    BY DEF Collected, IsRun, Excess, Sizes, SizesFit
<1>. HIDE DEF all, n
<1>4. Serials(SubSeq(all, 1, n)) \subseteq 1 .. Len(sent)
    <2>1. \A i \in 1 .. Len(SubSeq(all, 1, n)) : SubSeq(all, 1, n)[i] \in Byte(sent)
        BY <1>3
    <2>. QED BY <2>1 DEF Serials, Byte
<1>5. overrun' \subseteq 1 .. Len(sent)
    BY <1>4 DEF Feed, FeedDropping, ScanTypeOK, all, n
<1>. QED BY <1>1, <1>2, <1>5 DEF Feed, FeedDropping, ScanTypeOK

LEMMA ScanKeeps ==
    ASSUME Collected, ScanTypeOK, Sizes, ScanStep \/ Return, UNCHANGED sent
    PROVE  Collected' /\ ScanTypeOK' /\ \A x \in Byte(sent) : Follows(x) => Follows(x)'
<1>0. accum \in Seq(Byte(sent)) /\ Len(accum) \in Nat /\ ACCUM \in Nat /\ MaxFailures \in Nat
    BY DEF Collected, IsRun, Sizes, SizesFit
<1>6. ASSUME NEW n \in 0 .. Len(accum), Consume(n)
      PROVE  /\ Len(accum') = Len(accum) - n
             /\ \A i \in 1 .. Len(accum') : accum'[i] = accum[n + i] /\ n + i \in 1 .. Len(accum)
    BY <1>0, <1>6 DEF Consume, Drop
<1>1. ASSUME NEW n \in 0 .. Len(accum), Consume(n), crc_failures' \in 0 .. MaxFailures,
             UNCHANGED decoded
      PROVE  Collected' /\ ScanTypeOK' /\ \A x \in Byte(sent) : Follows(x) => Follows(x)'
    <2>1. Collected' /\ \A x \in Byte(sent) : Follows(x) => Follows(x)'
        BY <1>1, DropKeeps DEF Consume
    <2>2. /\ Len(accum') = Len(accum) - n
          /\ \A i \in 1 .. Len(accum') : accum'[i] = accum[n + i] /\ n + i \in 1 .. Len(accum)
        BY <1>1, <1>6
    <2>3. ScanTypeOK'
        BY <1>0, <1>1, <2>2 DEF ScanTypeOK, Consume
    <2>. QED BY <2>1, <2>3
<1>2. ASSUME NEW k \in Kinds, Reject(k)
      PROVE  Collected' /\ ScanTypeOK' /\ \A x \in Byte(sent) : Follows(x) => Follows(x)'
    <2>1. 1 \in 0 .. Len(accum)
        BY <1>0, <1>2 DEF Reject, RejectBy, Candidate, Sizes
    <2>2. crc_failures' \in 0 .. MaxFailures
        BY <1>0, <1>2 DEF Reject, RejectBy, Lesser, ScanTypeOK
    <2>. QED BY <1>1, <1>2, <2>1, <2>2 DEF Reject, RejectBy
<1>3. CASE Slip
    <2>1. 1 \in 0 .. Len(accum)
        BY <1>0, <1>3 DEF Slip, Undecided
    <2>. QED BY <1>1, <1>3, <2>1 DEF Slip, ScanTypeOK
<1>4. ASSUME NEW k \in Kinds, Decode(k)
      PROVE  Collected' /\ ScanTypeOK' /\ \A x \in Byte(sent) : Follows(x) => Follows(x)'
    <2>1. Collected' /\ \A x \in Byte(sent) : Follows(x) => Follows(x)'
        BY <1>4, DecodeKeeps DEF Sizes
    <2>2. Len(decoded') <= Len(sent)
        <3>1. /\ decoded' \in Seq(1 .. Len(sent))
              /\ \A i, j \in 1 .. Len(decoded') : i < j => decoded'[i] < decoded'[j]
            BY <2>1 DEF Collected, OnceInOrder
        <3>. QED BY <3>1, IncreasingIsShort DEF Sizes
    <2>3. PICK n \in 0 .. Len(accum) : n = Length[k]
        <3>1. Length[k] \in 0 .. Len(accum)
            BY <1>0, <1>4 DEF Decode, Candidate, Sizes
        <3>. QED BY <3>1
    <2>4. /\ Len(accum') = Len(accum) - n
          /\ \A i \in 1 .. Len(accum') : accum'[i] = accum[n + i] /\ n + i \in 1 .. Len(accum)
        BY <1>4, <1>6, <2>3 DEF Decode
    <2>5. Len(accum') <= ACCUM /\ \A i \in 1 .. Len(accum') : accum'[i][1] \in 1 .. Len(sent)
        <3>1. Len(accum) <= ACCUM /\ \A i \in 1 .. Len(accum) : accum[i][1] \in 1 .. Len(sent)
            BY DEF ScanTypeOK
        <3>2. Len(accum') <= ACCUM
            BY <1>0, <2>4, <3>1
        <3>. QED BY <2>4, <3>1, <3>2
    <2>6. ScanTypeOK'
        BY <1>4, <2>2, <2>5 DEF ScanTypeOK, Decode, Consume
    <2>. QED BY <2>1, <2>6
<1>5. CASE Return
    <2>1. UNCHANGED <<accum, crc_failures, decoded, overrun>> /\ scanning' \in BOOLEAN
        BY <1>5 DEF Return
    <2>. QED BY <2>1 DEF Collected, IsRun, InOrder, Byte, OnceInOrder, ScanTypeOK, Follows
<1>. QED BY <1>2, <1>3, <1>4, <1>5 DEF ScanStep

\* The bus sends another frame, or other parts move.
LEMMA IdleKeeps ==
    ASSUME Collected, ScanTypeOK, Sizes, UNCHANGED <<accum, scanning, crc_failures, decoded, overrun>>,
           Len(sent') \in Nat, Len(sent) <= Len(sent'),
           \A i \in 1 .. Len(sent) : sent'[i] = sent[i]
    PROVE  /\ Collected' /\ ScanTypeOK' /\ Byte(sent) \subseteq Byte(sent')
           /\ \A x : Follows(x) => Follows(x)'
<1>1. 1 .. Len(sent) \subseteq 1 .. Len(sent')
    BY DEF Sizes
<1>2. Byte(sent) \subseteq Byte(sent')
    BY <1>1 DEF Byte
<1>3. IsRun(accum', sent')
    BY <1>2 DEF Collected, IsRun, InOrder
<1>4. decoded \in Seq(1 .. Len(sent)) /\ \A i \in 1 .. Len(decoded) : decoded[i] \in 1 .. Len(sent)
    BY DEF Collected
<1>5. OnceInOrder'
    BY <1>4 DEF Collected, OnceInOrder
<1>6. decoded' \in Seq(1 .. Len(sent'))
    BY <1>1, <1>4
<1>7. Len(decoded) <= Len(sent')
    BY <1>4 DEF ScanTypeOK, Sizes
<1>8. Collected'
    BY <1>3, <1>5, <1>6 DEF Collected
<1>. QED BY <1>1, <1>2, <1>7, <1>8 DEF ScanTypeOK, Follows

\* Between feeds the front of the accumulator is short of a decision.
Settled == ~scanning => Undecided

LEMMA ScanSettles ==
    ASSUME Settled, ScanStep \/ Return, UNCHANGED sent PROVE Settled'
<1>1. CASE ScanStep
    BY <1>1 DEF ScanStep, Decode, Reject, RejectBy, Slip, Consume, Settled
<1>2. CASE Return
    BY <1>2 DEF Return, Settled, Undecided, Incomplete, Matches, Looks
<1>. QED BY <1>1, <1>2

\* The frames sent later do not change what the collected bytes are taken for.
LEMMA StaysSettled ==
    ASSUME Settled, ScanTypeOK, Sizes, Len(accum) \in Nat, UNCHANGED <<accum, scanning>>,
           \A i \in 1 .. Len(sent) : sent'[i] = sent[i]
    PROVE  Settled'
<1>1. \A i \in 1 .. Len(accum) : Looks(accum[i])' = Looks(accum[i])
    <2>. TAKE i \in 1 .. Len(accum)
    <2>1. sent'[accum[i][1]] = sent[accum[i][1]]
        BY DEF ScanTypeOK
    <2>. QED BY <2>1 DEF Looks
<1>2. ASSUME NEW k, NEW n \in Int, Matches(k, n) PROVE Matches(k, n)'
    BY <1>1, <1>2 DEF Matches
<1>3. ASSUME NEW k \in Kinds, Incomplete(k) PROVE Incomplete(k)'
    <2>1. Header[k] \in Int
        BY DEF Sizes, SizesFit
    <2>. QED BY <1>2, <1>3, <2>1 DEF Incomplete
<1>. QED BY <1>3 DEF Settled, Undecided

---------------------------------------------------------------------------
(* No sound frame is missed: its bytes stay together until it is decoded.  *)

Elements(s) == {s[i] : i \in 1 .. Len(s)}
Sound(id) == id \in 1 .. Len(sent) /\ sent[id].kind \in Kinds /\ sent[id].fault = "none"

\* With the bytes in rest still to be fed, the frame id has been decoded, has lost
\* bytes to an overflow, or is there as a whole.
Kept(id, rest) ==
    \/ id \in overrun \/ id \in Elements(decoded)
    \/ \A p \in 1 .. Length[sent[id].kind] : <<id, p>> \in Elements(accum) \cup rest

\* The headers end before the bytes that a decoy disguises.
HeadersShort == \A k \in Kinds : Header[k] <= 3

LEMMA FunctionIsSeq ==
    ASSUME NEW n \in Nat, NEW S, NEW g \in [1 .. n -> S] PROVE g \in Seq(S) /\ Len(g) = n
OBVIOUS

\* The first q bytes of a frame are among the first n collected, so q is at most n.
LEMMA BytesFit ==
    ASSUME NEW s, InOrder(s), Len(s) \in Nat, NEW id \in Nat, NEW q \in Nat, NEW n \in 0 .. Len(s),
           \A p \in 1 .. q : \E i \in 1 .. n : s[i] = <<id, p>>
    PROVE  q <= n
<1>. DEFINE place == [p \in 1 .. q |-> CHOOSE i \in 1 .. n : s[i] = <<id, p>>]
<1>1. \A p \in 1 .. q : place[p] \in 1 .. n /\ s[place[p]] = <<id, p>>
    OBVIOUS
<1>2. place \in [1 .. q -> 1 .. n]
    BY <1>1
<1>. HIDE DEF place
<1>3. place \in Seq(1 .. n) /\ Len(place) = q /\ n \in Nat
    BY <1>2, FunctionIsSeq
<1>4. ASSUME NEW p \in 1 .. q, NEW r \in 1 .. q, p < r PROVE place[p] < place[r]
    <2>1. place[p] \in 1 .. Len(s) /\ place[r] \in 1 .. Len(s)
        BY <1>1
    <2>2. ~Before(<<id, r>>, <<id, p>>) /\ <<id, r>> # <<id, p>>
        BY <1>4 DEF Before
    <2>3. place[p] # place[r] /\ ~(place[r] < place[p])
        BY <1>1, <2>1, <2>2 DEF InOrder
    <2>. QED BY <2>1, <2>3
<1>5. \A i, j \in 1 .. Len(place) : i < j => place[i] < place[j]
    BY <1>4, <1>3
<1>6. Len(place) <= n
    BY <1>5, <1>3, IncreasingIsShort
<1>. QED BY <1>3, <1>6

\* A whole frame at the front is collected byte by byte.
LEMMA WholeAtFront ==
    ASSUME Collected, NEW rest, \A x \in rest : Follows(x), NEW id \in 1 .. Len(sent),
           NEW L \in Nat, L = Length[sent[id].kind],
           \A p \in 1 .. L : <<id, p>> \in Elements(accum) \cup rest,
           Len(accum) > 0, accum[1][1] = id
    PROVE  \A i \in 1 .. Len(accum) : i <= L => accum[i] = <<id, i>>
<1>1. /\ accum \in Seq(Byte(sent)) /\ InOrder(accum) /\ Len(accum) \in Nat
      /\ \A i \in 1 .. Len(accum) : accum[i] \in Byte(sent)
    BY DEF Collected, IsRun
<1>2. \A i \in 1 .. Len(accum) :
          /\ accum[i] = <<accum[i][1], accum[i][2]>> /\ accum[i][1] \in Nat
          /\ accum[i][2] \in Nat \ {0}
          /\ accum[i][1] = id => accum[i][2] <= L
    <2>1. \A b \in Byte(sent) : /\ b = <<b[1], b[2]>> /\ b[1] \in Nat /\ b[2] \in Nat \ {0}
                                /\ b[1] = id => b[2] <= L
        BY DEF Byte
    <2>. QED BY <1>1, <2>1
\* What lies before a collected byte is collected before it.
<1>3. ASSUME NEW i \in 1 .. Len(accum), NEW p \in 1 .. L, Before(<<id, p>>, accum[i])
      PROVE  \E j \in 1 .. i - 1 : accum[j] = <<id, p>>
    <2>1. ~Before(accum[i], <<id, p>>) /\ accum[i] # <<id, p>>
        BY <1>2, <1>3 DEF Before
    <2>2. <<id, p>> \notin rest
        BY <2>1 DEF Follows
    <2>3. PICK j \in 1 .. Len(accum) : accum[j] = <<id, p>>
        BY <2>2 DEF Elements
    <2>4. j # i /\ ~(i < j)
        BY <1>1, <2>1, <2>3 DEF InOrder
    <2>. QED BY <2>3, <2>4
<1>. SUFFICES ASSUME NEW i \in 1 .. Len(accum), i <= L PROVE accum[i] = <<id, i>>
    OBVIOUS
<1>4. 1 \in 1 .. Len(accum) /\ (i = 1 \/ Before(accum[1], accum[i]))
    BY <1>1 DEF InOrder
<1>5. accum[i][1] = id
    <2>1. accum[i][1] >= id
        BY <1>2, <1>4 DEF Before
    <2>2. CASE accum[i][1] > id
        <3>1. \A p \in 1 .. L : Before(<<id, p>>, accum[i])
            BY <2>2 DEF Before
        <3>2. \A p \in 1 .. L : \E j \in 1 .. i - 1 : accum[j] = <<id, p>>
            BY <1>3, <3>1
        <3>3. i - 1 \in 0 .. Len(accum) /\ id \in Nat
            BY <1>1
        <3>4. L <= i - 1
            BY <1>1, <3>2, <3>3, BytesFit
        <3>. QED BY <1>1, <3>4
    <2>. QED BY <1>2, <2>1, <2>2
<1>. DEFINE q == accum[i][2]
<1>6. q \in Nat \ {0} /\ q <= L /\ accum[i] = <<id, q>>
    BY <1>2, <1>5
<1>. HIDE DEF q
<1>7. q <= i
    <2>1. \A p \in 1 .. q : p < q => Before(<<id, p>>, accum[i])
        BY <1>6 DEF Before
    <2>2. \A p \in 1 .. q : \E j \in 1 .. i : accum[j] = <<id, p>>
        <3>. TAKE p \in 1 .. q
        <3>1. CASE p = q
            BY <1>6, <3>1
        <3>2. CASE p # q
            <4>1. p \in 1 .. L /\ p < q
                BY <1>6, <3>2
            <4>2. \E j \in 1 .. i - 1 : accum[j] = <<id, p>>
                BY <1>3, <2>1, <4>1
            <4>. QED BY <4>2
        <3>. QED BY <3>1, <3>2
    <2>3. i \in 0 .. Len(accum) /\ q \in Nat /\ id \in Nat
        BY <1>1, <1>6
    <2>. QED BY <1>1, <2>2, <2>3, BytesFit
<1>8. i <= q
    <2>. DEFINE at == [j \in 1 .. i |-> accum[j][2]]
    <2>1. ASSUME NEW j \in 1 .. i PROVE accum[j][1] = id /\ accum[j][2] \in 1 .. q
        <3>1. j \in 1 .. Len(accum)
            BY <1>1
        <3>2. (j = 1 \/ Before(accum[1], accum[j])) /\ (j = i \/ Before(accum[j], accum[i]))
            BY <1>1, <1>4, <3>1 DEF InOrder
        <3>3. accum[j][1] = id
            BY <1>2, <1>4, <1>5, <3>1, <3>2 DEF Before
        <3>. QED BY <1>2, <1>5, <1>6, <3>1, <3>2, <3>3 DEF Before, q
    <2>2. at \in Seq(1 .. q) /\ Len(at) = i
        BY <2>1
    <2>3. ASSUME NEW j \in 1 .. i, NEW m \in 1 .. i, j < m PROVE at[j] < at[m]
        <3>1. Before(accum[j], accum[m])
            BY <1>1, <2>3 DEF InOrder
        <3>. QED BY <2>1, <3>1 DEF Before
    <2>. HIDE DEF at
    <2>4. \A j, m \in 1 .. Len(at) : j < m => at[j] < at[m]
        BY <2>2, <2>3
    <2>. QED BY <1>6, <2>2, <2>4, IncreasingIsShort
<1>. QED BY <1>6, <1>7, <1>8

\* The first byte of a whole frame is neither slipped nor rejected.
LEMMA FrontIsDecoded ==
    ASSUME Collected, Sizes, HeadersShort, NEW id, Sound(id),
           Len(accum) > 0, accum[1] = <<id, 1>>,
           \A i \in 1 .. Len(accum) : i <= Length[sent[id].kind] => accum[i] = <<id, i>>
    PROVE  ~Slip /\ \A k \in Kinds : ~Reject(k)
<1>. DEFINE kind == sent[id].kind
<1>1. /\ kind \in Kinds /\ Length[kind] \in Nat /\ Len(accum) \in Nat
      /\ Header[kind] \in 2 .. Length[kind] /\ Header[kind] <= 3
    BY DEF Sound, Sizes, SizesFit, HeadersShort, Collected, IsRun
<1>2. PICK h \in 2 .. 3 : h = Header[kind] /\ h <= Length[kind]
    BY <1>1
<1>3. \A i \in 1 .. 3 : Looks(<<id, i>>) = <<kind, i>>
    BY DEF Looks
<1>. HIDE DEF kind
<1>4. \A i \in 1 .. 3 : i <= Len(accum) /\ i <= Length[kind] => Looks(accum[i]) = <<kind, i>>
    BY <1>1, <1>3 DEF kind
<1>5. \A n \in 1 .. 3 : n <= Len(accum) /\ n <= Length[kind] => Matches(kind, n)
    BY <1>1, <1>4 DEF Matches
<1>6. CASE Len(accum) >= Length[kind]
    <2>1. Candidate(kind)
        BY <1>1, <1>2, <1>5, <1>6 DEF Candidate
    <2>2. CrcOk(kind)
        BY <1>1, <1>6 DEF CrcOk, Sound, kind
    <2>3. \A k \in Kinds : Candidate(k) => k = kind
        <3>. SUFFICES ASSUME NEW k \in Kinds, Candidate(k) PROVE k = kind
            OBVIOUS
        <3>1. Header[k] \in 2 .. Length[k] /\ Length[k] \in Nat
            BY DEF Sizes, SizesFit
        <3>2. 1 \in 1 .. Header[k]
            BY <3>1
        <3>3. Looks(accum[1]) = <<k, 1>>
            BY <3>2 DEF Candidate, Matches
        <3>4. Looks(accum[1]) = <<kind, 1>>
            BY <1>3
        <3>. QED BY <3>3, <3>4
    <2>. QED BY <1>1, <2>1, <2>2, <2>3 DEF Slip, Reject, RejectBy
<1>7. CASE Len(accum) < Length[kind]
    <2>1. Len(accum) >= 2 => Incomplete(kind)
        <3>. SUFFICES ASSUME Len(accum) >= 2 PROVE Incomplete(kind)
            OBVIOUS
        <3>1. Matches(kind, 2)
            BY <1>1, <1>2, <1>5
        <3>2. Matches(kind, h) \/ Len(accum) < h
            BY <1>1, <1>2, <1>5
        <3>. QED BY <1>2, <1>7, <3>1, <3>2 DEF Incomplete
    <2>2. ~Slip
        BY <1>1, <2>1 DEF Slip, Undecided
    <2>3. \A k \in Kinds : ~Candidate(k)
        <3>. SUFFICES ASSUME NEW k \in Kinds, Candidate(k) PROVE FALSE
            OBVIOUS
        <3>1. Header[k] \in 2 .. Length[k] /\ Length[k] \in Nat
            BY DEF Sizes, SizesFit
        <3>2. 1 \in 1 .. Header[k]
            BY <3>1
        <3>3. Looks(accum[1]) = <<k, 1>> /\ Len(accum) >= Length[k]
            BY <3>2 DEF Candidate, Matches
        <3>4. Looks(accum[1]) = <<kind, 1>>
            BY <1>3
        <3>5. k = kind
            BY <3>3, <3>4
        <3>. QED BY <1>1, <1>7, <3>3, <3>5
    <2>. QED BY <2>2, <2>3 DEF Reject, RejectBy
<1>. QED BY <1>1, <1>6, <1>7

LEMMA ScanMissesNone ==
    ASSUME Collected, Sizes, HeadersShort, ScanStep \/ Return, UNCHANGED sent,
           NEW rest, \A x \in rest : Follows(x), NEW id, Sound(id), Kept(id, rest)
    PROVE  Kept(id, rest)'
<1>. DEFINE L == Length[sent[id].kind]
<1>1. /\ accum \in Seq(Byte(sent)) /\ InOrder(accum) /\ Len(accum) \in Nat /\ L \in Nat \ {0}
      /\ decoded \in Seq(1 .. Len(sent))
    BY DEF Collected, IsRun, Sound, Sizes
<1>2. CASE Return
    BY <1>2 DEF Return, Kept, Elements
<1>. SUFFICES ASSUME ScanStep, id \notin overrun, id \notin Elements(decoded) PROVE Kept(id, rest)'
    <2>1. overrun \subseteq overrun' /\ Elements(decoded) \subseteq Elements(decoded')
        <3>1. ScanStep => overrun' = overrun
            BY DEF ScanStep, Decode, Reject, RejectBy, Slip, Consume
        <3>2. ScanStep => decoded' = decoded \/ decoded' = Append(decoded, accum[1][1])
            BY DEF ScanStep, Decode, Reject, RejectBy, Slip
        <3>3. Elements(decoded) \subseteq Elements(Append(decoded, accum[1][1]))
            BY <1>1 DEF Elements
        <3>. QED BY <3>1, <3>2, <3>3 DEF Return
    <2>. QED BY <1>2, <2>1 DEF Kept
<1>3. \A p \in 1 .. L : <<id, p>> \in Elements(accum) \cup rest
    BY DEF Kept
\* The bytes of other frames may go.
<1>4. ASSUME NEW n \in 0 .. Len(accum), accum' = Drop(accum, n),
             \A i \in 1 .. n : accum[i][1] # id
      PROVE  Kept(id, rest)'
    <2>1. Elements(accum) \subseteq Elements(accum') \cup {accum[i] : i \in 1 .. n}
        <3>. SUFFICES ASSUME NEW i \in 1 .. Len(accum), i > n PROVE accum[i] \in Elements(accum')
            BY <1>1 DEF Elements
        <3>1. i - n \in 1 .. Len(accum') /\ accum'[i - n] = accum[i]
            BY <1>1, <1>4 DEF Drop
        <3>. QED BY <3>1 DEF Elements
    <2>2. \A p \in 1 .. L : <<id, p>> \in Elements(accum') \cup rest
        BY <1>3, <1>4, <2>1
    <2>. QED BY <2>2 DEF Kept
<1>5. ASSUME Len(accum) > 0, accum[1][1] = id
      PROVE  accum[1] = <<id, 1>> /\ \A i \in 1 .. Len(accum) : i <= L => accum[i] = <<id, i>>
    <2>1. \A i \in 1 .. Len(accum) : i <= L => accum[i] = <<id, i>>
        BY <1>1, <1>3, <1>5, WholeAtFront DEF Sound
    <2>. QED BY <1>1, <1>5, <2>1
<1>6. ASSUME Len(accum) > 0, accum' = Drop(accum, 1), Slip \/ \E k \in Kinds : Reject(k)
      PROVE  Kept(id, rest)'
    <2>1. accum[1][1] # id
        BY <1>5, <1>6, FrontIsDecoded
    <2>. QED BY <1>1, <1>4, <1>6, <2>1
<1>7. CASE Slip
    BY <1>1, <1>6, <1>7 DEF Slip, Consume, Undecided
<1>8. ASSUME NEW k \in Kinds, Reject(k) PROVE Kept(id, rest)'
    <2>1. Len(accum) > 0 /\ accum' = Drop(accum, 1)
        BY <1>1, <1>8 DEF Reject, RejectBy, Candidate, Consume, Sizes
    <2>. QED BY <1>6, <1>8, <2>1
<1>9. ASSUME NEW k \in Kinds, Decode(k) PROVE Kept(id, rest)'
    <2>1. /\ Len(accum) >= Length[k] /\ accum' = Drop(accum, Length[k]) /\ Length[k] \in Nat \ {0}
          /\ \A i \in 1 .. Length[k] : accum[i][1] = accum[1][1]
          /\ decoded' = Append(decoded, accum[1][1])
        BY <1>9 DEF Decode, Candidate, CrcOk, Consume, Sizes
    <2>2. CASE accum[1][1] = id
        <3>1. id \in Elements(decoded')
            BY <1>1, <2>1, <2>2 DEF Elements, Sound
        <3>. QED BY <3>1 DEF Kept
    <2>3. CASE accum[1][1] # id
        <3>1. Length[k] \in 0 .. Len(accum)
            BY <1>1, <2>1
        <3>2. \A i \in 1 .. Length[k] : accum[i][1] # id
            BY <2>1, <2>3
        <3>. QED BY <1>4, <2>1, <3>1, <3>2
    <2>. QED BY <2>2, <2>3
<1>. QED BY <1>7, <1>8, <1>9 DEF ScanStep

\* What a feed drops it counts as overrun; the rest of the chunk is collected.
LEMMA FeedMissesNone ==
    ASSUME Collected, Sizes, NEW chunk, chunk \in Seq(Byte(sent)), Feed(chunk), UNCHANGED sent,
           NEW rest, NEW id, Kept(id, rest \cup Elements(chunk))
    PROVE  Kept(id, rest)'
<1>. DEFINE all == accum \o chunk
            n == Excess(chunk, ACCUM)
<1>1. accum \in Seq(Byte(sent)) /\ Len(accum) \in Nat /\ Len(chunk) \in Nat
    BY DEF Collected, IsRun
<1>2. /\ Len(all) = Len(accum) + Len(chunk)
      /\ \A i \in 1 .. Len(accum) : all[i] = accum[i]
      /\ \A i \in 1 .. Len(chunk) : all[Len(accum) + i] = chunk[i]
      /\ all \in Seq(Byte(sent))
    BY <1>1
<1>3. n \in 0 .. Len(all)
    BY <1>1, <1>2 DEF Excess, Sizes, SizesFit
<1>4. accum' = Drop(all, n) /\ overrun' = overrun \cup Serials(SubSeq(all, 1, n)) /\ decoded' = decoded
    BY DEF Feed, FeedDropping
<1>. HIDE DEF all, n
<1>5. \A i \in 1 .. Len(all) : all[i] \in Elements(accum') \/ all[i][1] \in overrun'
    <2>. TAKE i \in 1 .. Len(all)
    <2>1. CASE i <= n
        <3>1. i \in 1 .. Len(SubSeq(all, 1, n)) /\ SubSeq(all, 1, n)[i] = all[i]
            BY <1>2, <1>3, <2>1
        <3>. QED BY <1>4, <3>1 DEF Serials
    <2>2. CASE i > n
        <3>1. i - n \in 1 .. Len(accum') /\ accum'[i - n] = all[i]
            BY <1>2, <1>3, <1>4, <2>2 DEF Drop
        <3>. QED BY <3>1 DEF Elements
    <2>. QED BY <1>3, <2>1, <2>2
<1>6. \A x \in Elements(accum) \cup Elements(chunk) : \E i \in 1 .. Len(all) : all[i] = x
    <2>1. \A i \in 1 .. Len(accum) : i \in 1 .. Len(all)
        BY <1>1, <1>2
    <2>2. \A i \in 1 .. Len(chunk) : Len(accum) + i \in 1 .. Len(all)
        BY <1>1, <1>2
    <2>. QED BY <1>2, <2>1, <2>2 DEF Elements
<1>7. CASE \A p \in 1 .. Length[sent[id].kind] :
               <<id, p>> \in Elements(accum) \cup (rest \cup Elements(chunk))
    <2>1. CASE id \in overrun'
        BY <2>1 DEF Kept
    <2>2. CASE id \notin overrun'
        <3>1. \A p \in 1 .. Length[sent[id].kind] : <<id, p>> \in Elements(accum') \cup rest
            BY <1>5, <1>6, <1>7, <2>2
        <3>. QED BY <3>1 DEF Kept
    <2>. QED BY <2>1, <2>2
<1>8. CASE id \in overrun \/ id \in Elements(decoded)
    BY <1>4, <1>8 DEF Kept
<1>. QED BY <1>7, <1>8 DEF Kept

\* A sound frame collected as a whole waits only behind a longer opening.
LEMMA WaitsHeldUp ==
    ASSUME Collected, Sizes, Settled, ~scanning, NEW id, Sound(id), id \notin overrun,
           NEW rest, Kept(id, rest), \A p : <<id, p>> \notin rest
    PROVE  HeldUp(sent[id].kind) \/ id \in Elements(decoded)
<1>. DEFINE kind == sent[id].kind
<1>. SUFFICES ASSUME id \notin Elements(decoded) PROVE HeldUp(kind)
    OBVIOUS
<1>1. /\ InOrder(accum) /\ Len(accum) \in Nat /\ id \in Nat /\ kind \in Kinds
      /\ Length[kind] \in Nat /\ Header[kind] \in 2 .. Length[kind]
    BY DEF Collected, IsRun, Sound, Sizes, SizesFit
<1>2. \A p \in 1 .. Length[kind] : \E i \in 1 .. Len(accum) : accum[i] = <<id, p>>
    BY DEF Kept, Elements
<1>3. Length[kind] <= Len(accum)
    <2>. HIDE DEF kind
    <2>1. Len(accum) \in 0 .. Len(accum)
        BY <1>1
    <2>. QED BY <1>1, <1>2, <2>1, BytesFit
<1>4. PICK k \in Kinds : Incomplete(k)
    <2>1. PICK h \in 2 .. Length[kind] : h = Header[kind]
        BY <1>1
    <2>. QED BY <1>1, <1>3, <2>1 DEF Settled, Undecided
<1>5. Length[k] \in Nat /\ Len(accum) < Length[k]
    BY <1>4 DEF Sizes, Incomplete
<1>. QED BY <1>1, <1>3, <1>4, <1>5 DEF HeldUp

---------------------------------------------------------------------------
(* Progress.                                                               *)

\* The front of the accumulator leaves the scanner one choice: it is a candidate
\* of one kind, or undecided, and never both.
THEOREM OneChoice ==
    ASSUME Sizes, NEW k \in Kinds, NEW j \in Kinds, Candidate(k), Len(accum) \in Nat
    PROVE  ~Undecided /\ (Candidate(j) => j = k)
<1>1. Header[k] >= 2 /\ Header[j] >= 2 /\ Header[k] \in Int /\ Header[j] \in Int
    BY DEF Sizes, SizesFit
<1>2. Len(accum) >= 2 /\ Looks(accum[1]) = <<k, 1>>
    BY <1>1 DEF Candidate, Matches
<1>3. ASSUME NEW i \in Kinds, NEW n \in Int, n >= 2, Matches(i, n) PROVE i = k
    <2>1. Looks(accum[1]) = <<i, 1>>
        BY <1>3 DEF Matches
    <2>. QED BY <1>2, <2>1
<1>4. Candidate(j) => j = k
    BY <1>1, <1>3 DEF Candidate
<1>5. ASSUME NEW i \in Kinds, Incomplete(i) PROVE FALSE
    <2>1. i = k /\ Len(accum) < Length[i]
        BY <1>3, <1>5 DEF Incomplete
    <2>2. Len(accum) >= Length[k] /\ Length[k] \in Int
        BY DEF Sizes, Candidate, SizesFit
    <2>. QED BY <2>1, <2>2
<1>. QED BY <1>2, <1>4, <1>5 DEF Undecided

\* Every turn of the loop takes a byte or more from the front.
LEMMA ScanShortens ==
    ASSUME Sizes, accum \in Seq(Byte(sent)), ScanStep
    PROVE  Len(accum') \in Nat /\ Len(accum') < Len(accum) /\ scanning /\ scanning' = scanning
<1>1. ASSUME NEW n \in Int, 1 <= n, n <= Len(accum), Consume(n)
      PROVE  Len(accum') \in Nat /\ Len(accum') < Len(accum) /\ scanning /\ scanning' = scanning
    BY <1>1 DEF Consume, Drop
<1>2. ASSUME NEW k \in Kinds, Decode(k) \/ Reject(k)
      PROVE  Len(accum') \in Nat /\ Len(accum') < Len(accum) /\ scanning /\ scanning' = scanning
    <2>1. Length[k] \in Int /\ 2 <= Length[k] /\ Length[k] <= Len(accum)
        BY <1>2 DEF Sizes, SizesFit, Decode, Reject, RejectBy, Candidate
    <2>. QED BY <1>1, <1>2, <2>1 DEF Decode, Reject, RejectBy
<1>3. CASE Slip
    BY <1>1, <1>3 DEF Slip, Undecided
<1>. QED BY <1>2, <1>3 DEF ScanStep
=============================================================================
