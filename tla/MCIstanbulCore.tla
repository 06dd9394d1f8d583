--------------------------- MODULE MCIstanbulCore ---------------------------
(* Four validators (N = 4, F = 1, quorum 3) with a round-robin proposer.   *)
EXTENDS IstanbulCore

CONSTANTS v1, v2, v3, v4, p1, p2, p3

MCValList == <<v1, v2, v3, v4>>

(* The same validators ordered so that v4 proposes round 0 (with no last    *)
(* proposer, round r is proposed by validator r mod N) and v1 round 1.     *)
MCValListByz == <<v4, v1, v2, v3>>

(* Two validators: F = 0 and the quorum is 1.                              *)
MCValList2 == <<v1, v2>>

(* The valid proposals p1 and p2 are interchangeable: only equality       *)
(* between them matters (p3 is the one Verify rejects, where it is used).  *)
MCSymmetry == Permutations({p1, p2})
=============================================================================
