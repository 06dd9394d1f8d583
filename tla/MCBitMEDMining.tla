---------------------------- MODULE MCBitMEDMining ----------------------------
(* Two concurrent admin callers and two addresses, a1 in the local wallet. *)
EXTENDS BitMEDMining

CONSTANTS c1, c2, a1, a2

====
