---------------------------- MODULE MCDrainFeeds ----------------------------
(* Small instances of DrainFeeds for TLC. *)
EXTENDS DrainFeeds

Frame(k, f, d, a) == [kind |-> k, fault |-> f, lost |-> 0, decoy |-> d, addr |-> a]
Cut(k, n) == [kind |-> k, fault |-> "cut", lost |-> n, decoy |-> "none", addr |-> 0]

MCAddresses == 0 .. 2

\* Sound, damaged and truncated frames, and payloads that look like short ones.
\* Cut by four, an FC10 is a bare header: with an FC06 after it, it is still
\* shorter than a whole one.
MCFrames ==
    {Frame("fc10", "crc", "fc06", 0), Cut("fc10", 1), Cut("fc10", 4),
     Frame("fc10", "none", "request", 0),
     Cut("fc06", 1),
     Frame("request", "none", "none", 0)}
    \cup {Frame("fc06", "none", "none", a) : a \in MCAddresses}
=============================================================================
