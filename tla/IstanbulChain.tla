---------------------------- MODULE IstanbulChain ----------------------------
(***************************************************************************)
(* What the Istanbul engine promises its backend, abstractly: every        *)
(* correct node's list of committed blocks grows one block at a time, each *)
(* block is one the backend's Verify accepts, and a block committed at a   *)
(* height is the block every other correct node commits at that height.   *)
(* Rounds, locks, quorums and messages are gone: a node simply learns the  *)
(* next block of one common chain.                                         *)
(***************************************************************************)
EXTENDS Naturals, Sequences

CONSTANTS
    Nodes,        \* the correct validators
    Blocks,       \* the proposals Verify accepts
    MaxHeight     \* the last height explored

VARIABLE chain    \* chain[n]: the blocks node n has committed, in order

Init == chain = [n \in Nodes |-> <<>>]

(* The block at height h, if some node has committed that far.             *)
Known(h) == {chain[n][h] : n \in {m \in Nodes : Len(chain[m]) >= h}}

(***************************************************************************)
(* Node n commits block b at its next height: b is the block already known *)
(* at that height, or any valid block if it is the first to get there.     *)
(***************************************************************************)
CommitBlock(n, b) ==
    /\ Len(chain[n]) < MaxHeight
    /\ Known(Len(chain[n]) + 1) \subseteq {b}
    /\ chain' = [chain EXCEPT ![n] = Append(@, b)]

Next == \E n \in Nodes, b \in Blocks : CommitBlock(n, b)

Spec == Init /\ [][Next]_chain
=============================================================================
