---------------------------- MODULE MCBleClient ----------------------------
(* A small instance of BleClient for TLC. *)
EXTENDS BleClient

\* A good update and one that does not come up.
MCFiles == {"good", "bad"}
MCBad == {"bad"}
=============================================================================
