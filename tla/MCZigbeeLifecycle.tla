------------------------- MODULE MCZigbeeLifecycle -------------------------
(* Small instances of ZigbeeLifecycle for TLC. *)
EXTENDS ZigbeeLifecycle
=============================================================================
