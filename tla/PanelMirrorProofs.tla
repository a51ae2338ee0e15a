-------------------------- MODULE PanelMirrorProofs --------------------------
(***************************************************************************)
(* The table of FC06 counters is a least-recently-written cache for every  *)
(* number of slots and registers.  The three parts of CountersAreLru need  *)
(* each other: what was evicted is compared through the slot it left, whose *)
(* time ValuesAreLast ties to the register's last broadcast.               *)
(***************************************************************************)
EXTENDS PanelMirror, TLAPS

TableTypeOK ==
    /\ counters \in [Slots -> [used : BOOLEAN, addr : Nat, value : Nat, at_ms : Nat]]
    /\ \A i \in Slots : counters[i].used => counters[i].addr \in Addresses
    /\ now \in Nat
    /\ written \in [Addresses -> [value : Int, at_ms : Int]]

NothingFromLater == \A i \in Slots : counters[i].at_ms <= now

MirrorInv == TableTypeOK /\ NothingFromLater /\ CountersAreLru

---------------------------------------------------------------------------
\* A register without a slot gets a free one, or, when there is none, one that
\* was written no later than any other.
LEMMA CandidateKinds ==
    ASSUME NEW addr, NEW slot \in Lowest(Candidates(addr))
    PROVE  /\ slot \in Slots
           /\ \/ slot \in Holding(addr)
              \/ Holding(addr) = {} /\ ~counters[slot].used
              \/ Holding(addr) = {} /\ Free = {} /\ slot \in Oldest
BY DEF Lowest, Candidates, Holding, Free, Oldest

\* One FC06 broadcast, of any register and at any later time, keeps the invariant.
LEMMA TableStep ==
    ASSUME MirrorInv, NEW addr \in Addresses, NEW value \in Nat, NEW at \in Nat,
           HandleFc06(addr, value, at)
    PROVE  MirrorInv'
<1>1. PICK slot \in Lowest(Candidates(addr)) :
          counters' = [counters EXCEPT ![slot] =
              [used |-> TRUE, addr |-> addr, value |-> value, at_ms |-> at]]
  BY DEF HandleFc06
<1>2. slot \in Slots
  BY CandidateKinds
<1>3. addr \in Nat
  BY AddressesAssumption
<1>4. /\ counters'[slot] = [used |-> TRUE, addr |-> addr, value |-> value, at_ms |-> at]
      /\ \A i \in Slots \ {slot} : counters'[i] = counters[i]
  BY <1>1, <1>2 DEF MirrorInv, TableTypeOK
<1>5. at >= now /\ now' = at
  BY DEF HandleFc06
<1>6. /\ written'[addr] = [value |-> value, at_ms |-> at]
      /\ \A a \in Addresses \ {addr} : written'[a] = written[a]
  BY DEF HandleFc06, MirrorInv, TableTypeOK
<1>7. TableTypeOK'
  <2>1. counters' \in [Slots -> [used : BOOLEAN, addr : Nat, value : Nat, at_ms : Nat]]
    BY <1>1, <1>2, <1>3 DEF MirrorInv, TableTypeOK
  <2>2. written' \in [Addresses -> [value : Int, at_ms : Int]]
    BY DEF HandleFc06, MirrorInv, TableTypeOK
  <2>3. \A i \in Slots : counters'[i].used => counters'[i].addr \in Addresses
    BY <1>4 DEF MirrorInv, TableTypeOK
  <2> QED
    BY <2>1, <2>2, <2>3, <1>5 DEF TableTypeOK
<1>8. NothingFromLater'
  BY <1>4, <1>5 DEF MirrorInv, TableTypeOK, NothingFromLater
<1>9. \A i \in Slots \ {slot} : counters[i].used => counters[i].addr # addr
  BY CandidateKinds, <1>2 DEF Holding, MirrorInv, CountersAreLru, OneSlotEach
<1>10. OneSlotEach'
  BY <1>4, <1>9 DEF OneSlotEach, MirrorInv, CountersAreLru
<1>11. ValuesAreLast'
  BY <1>4, <1>6, <1>9 DEF ValuesAreLast, MirrorInv, CountersAreLru, TableTypeOK
<1>12. MissingAreOlder'
  <2> SUFFICES ASSUME NEW a \in Addresses, written'[a] # NEVER, Holding(a)' = {}, NEW i \in Slots
               PROVE  counters'[i].used /\ written'[a].at_ms <= counters'[i].at_ms
    BY DEF MissingAreOlder
  <2>1. a # addr /\ written'[a] = written[a]
    BY <1>2, <1>4, <1>6 DEF Holding
  <2>2. \A j \in Slots \ {slot} : ~(counters[j].used /\ counters[j].addr = a)
    BY <1>4 DEF Holding
  <2>3. \A j \in Slots : counters[j].used /\ written[a].at_ms <= counters[j].at_ms
    <3>1. CASE Holding(a) = {}
      BY <3>1, <2>1 DEF MirrorInv, CountersAreLru, MissingAreOlder
    <3>2. CASE Holding(a) # {}
      <4>1. counters[slot].used /\ counters[slot].addr = a
        BY <3>2, <2>2 DEF Holding
      <4>2. slot \in Oldest /\ Free = {}
        BY <4>1, <2>1, CandidateKinds DEF Holding
      <4>3. written[a].at_ms = counters[slot].at_ms
        <5>1. written[counters[slot].addr]
                  = [value |-> counters[slot].value, at_ms |-> counters[slot].at_ms]
          BY <4>1, <1>2 DEF MirrorInv, CountersAreLru, ValuesAreLast
        <5> QED
          BY <5>1, <4>1
      <4> QED
        BY <4>2, <4>3 DEF Oldest, Free
    <3> QED
      BY <3>1, <3>2
  <2>4. CASE i = slot
    BY <2>1, <2>3, <2>4, <1>2, <1>4, <1>5 DEF MirrorInv, TableTypeOK, NothingFromLater
  <2>5. CASE i # slot
    BY <2>1, <2>3, <2>5, <1>4
  <2> QED
    BY <2>4, <2>5
<1> QED
  BY <1>7, <1>8, <1>10, <1>11, <1>12 DEF MirrorInv, CountersAreLru

LEMMA TableInit == MirrorInit => MirrorInv
BY DEF MirrorInit, MirrorInv, TableTypeOK, NothingFromLater, CountersAreLru, OneSlotEach,
       ValuesAreLast, MissingAreOlder, NEVER

LEMMA TableInvariance == MirrorInv /\ [MirrorNext]_table => MirrorInv'
<1> SUFFICES ASSUME MirrorInv, [MirrorNext]_table PROVE MirrorInv'
  OBVIOUS
<1>1. CASE MirrorNext
  BY <1>1, TableStep DEF MirrorNext
<1>2. CASE UNCHANGED table
  BY <1>2 DEF table, MirrorInv, TableTypeOK, NothingFromLater, CountersAreLru, OneSlotEach,
              ValuesAreLast, MissingAreOlder, Holding
<1> QED
  BY <1>1, <1>2

\* Whatever registers are broadcast, in whatever order and however close together,
\* the slots hold the most recently written ones, once each, with their last values.
THEOREM CountersAreLruHolds == MirrorSpec => []CountersAreLru
<1>1. MirrorInv => CountersAreLru
  BY DEF MirrorInv
<1> QED
  BY <1>1, TableInit, TableInvariance, PTL DEF MirrorSpec
=============================================================================
