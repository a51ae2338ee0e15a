----------------------------- MODULE PanelMirror -----------------------------
(***************************************************************************)
(* The table of FC06 counters in src/panel_mirror.c: a few slots that hold *)
(* the last value broadcast for each register, reused least recently       *)
(* written first.  The FC10 block is one record that every broadcast       *)
(* overwrites; ZigbeeBridge follows it to the attributes.                  *)
(***************************************************************************)
EXTENDS Integers

CONSTANTS
    SLOTS,     \* PANEL_MIRROR_COUNTER_SLOTS
    Addresses  \* the registers that FC06 broadcasts name; 0 is a legal one

ASSUME SlotsAssumption == SLOTS \in Nat \ {0}
ASSUME AddressesAssumption == Addresses \subseteq Nat

Slots == 1 .. SLOTS

VARIABLES
    counters,  \* [used, addr, value, at_ms] by slot
    now,       \* k_uptime_get() at the last update
    written    \* history, by register: the value and time of its last broadcast

table == <<counters, now, written>>

NEVER == [value |-> -1, at_ms |-> -1]

MirrorInit ==
    /\ counters = [i \in Slots |-> [used |-> FALSE, addr |-> 0, value |-> 0, at_ms |-> 0]]
    /\ now = 0
    /\ written = [a \in Addresses |-> NEVER]

Holding(addr) == {i \in Slots : counters[i].used /\ counters[i].addr = addr}
Free == {i \in Slots : ~counters[i].used}
Oldest == {i \in Slots : \A j \in Slots : counters[i].at_ms <= counters[j].at_ms}

\* Variants: a free slot is preferred to the register's own; the newest is reused.
CandidatesFreeFirst(addr) ==
    IF Free # {} THEN Free ELSE IF Holding(addr) # {} THEN Holding(addr) ELSE Oldest
CandidatesNewest(addr) ==
    IF Holding(addr) # {} THEN Holding(addr)
    ELSE IF Free # {} THEN Free
    ELSE {i \in Slots : \A j \in Slots : counters[j].at_ms <= counters[i].at_ms}

\* The register's own slot, else a free one, else the least recently written.
Candidates(addr) ==
    IF Holding(addr) # {} THEN Holding(addr) ELSE IF Free # {} THEN Free ELSE Oldest

\* The first of several candidates is taken.
Lowest(S) == {i \in S : \A j \in S : i <= j}

\* try_decode_fc06 on a frame whose CRC matches, at time at.
HandleFc06(addr, value, at) ==
    /\ at >= now /\ now' = at
    /\ \E slot \in Lowest(Candidates(addr)) :
           counters' = [counters EXCEPT ![slot] =
               [used |-> TRUE, addr |-> addr, value |-> value, at_ms |-> at]]
    /\ written' = [written EXCEPT ![addr] = [value |-> value, at_ms |-> at]]

MirrorNext == \E addr \in Addresses, value \in Nat, at \in Nat : HandleFc06(addr, value, at)

MirrorSpec == MirrorInit /\ [][MirrorNext]_table

---------------------------------------------------------------------------
OneSlotEach ==
    \A i, j \in Slots :
        counters[i].used /\ counters[j].used /\ counters[i].addr = counters[j].addr => i = j

ValuesAreLast ==
    \A i \in Slots : counters[i].used =>
        written[counters[i].addr] = [value |-> counters[i].value, at_ms |-> counters[i].at_ms]

MissingAreOlder ==
    \A a \in Addresses : written[a] # NEVER /\ Holding(a) = {} =>
        \A i \in Slots : counters[i].used /\ written[a].at_ms <= counters[i].at_ms

\* The table is a cache of everything that was broadcast: no register has two
\* slots, each slot shows the last value of its register, and a register that was
\* evicted is no newer than any that stayed (panel_mirror.c:130-159), however
\* many registers take turns and however many frames share a millisecond.
CountersAreLru == OneSlotEach /\ ValuesAreLast /\ MissingAreOlder
=============================================================================
