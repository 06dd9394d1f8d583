---------------------------- MODULE ValidatorSet ----------------------------
(***************************************************************************)
(* The Istanbul validator set: an ordered roster of validator addresses    *)
(* with a proposer-selection policy (consensus/istanbul/validator and      *)
(* consensus/istanbul/config.go), the fault bound and quorum size derived  *)
(* from its size, and the packing of addresses into a header's extra-data  *)
(* field.  The module is pure: it has no variables, only operators that    *)
(* the consensus modules instantiate.                                      *)
(***************************************************************************)
EXTENDS Integers, Sequences, SequencesExt

CONSTANTS
    AddressLength   \* bytes in one address (common.AddressLength, 20 in the code)

ASSUME AddressLength \in Nat \ {0}

(* istanbul.ProposerPolicy: the iota constants of config.go.               *)
RoundRobin == 0
Sticky     == 1

(***************************************************************************)
(* validator.NewSet: a set built from an address list and a policy; an     *)
(* unknown policy value falls back to round-robin.                         *)
(***************************************************************************)
NewSet(addrs, policy) ==
    [list   |-> addrs,
     policy |-> IF policy \in {RoundRobin, Sticky} THEN policy ELSE RoundRobin]

Size(vs) == Len(vs.list)

(* The number of faulty validators tolerated, F = floor((N-1)/3).          *)
FaultBound(vs) == (Size(vs) - 1) \div 3

(* Prepare and Commit quorum, 2F+1.                                        *)
QuorumSize(vs) == 2 * FaultBound(vs) + 1

GetByIndex(vs, i) == vs.list[i + 1]      \* 0-based, as in the Go interface

(* The proposer seed when the last proposal has no known proposer (the     *)
(* zero address).                                                          *)
NoLastProposer == -1

(***************************************************************************)
(* proposer(view), seeded by the index `last` of the last committed        *)
(* proposal's proposer: round-robin takes the validator after it, shifted  *)
(* by the round, so that a round change at a fixed sequence rotates the    *)
(* proposer (with no last proposer the round alone picks it); sticky keeps *)
(* the last proposer, whatever the round.                                  *)
(***************************************************************************)
ProposerIndex(vs, last, round) ==
    IF vs.policy = RoundRobin
       THEN IF last = NoLastProposer THEN round % Size(vs)
                                    ELSE (last + 1 + round) % Size(vs)
       ELSE IF last = NoLastProposer THEN 0 ELSE last

Proposer(vs, last, round) == GetByIndex(vs, ProposerIndex(vs, last, round))

IsProposer(vs, last, round, addr) == Proposer(vs, last, round) = addr

(* A slip in the slot arithmetic: slot i is copied from extraData[i:]      *)
(* instead of extraData[i*AddressLength:].                                 *)
ExtractValidatorsShifted(extraData) ==
    [i \in 1..(Len(extraData) \div AddressLength) |->
        SubSeq(extraData, i, i + AddressLength - 1)]

(***************************************************************************)
(* validator.ExtractValidators: one address per full AddressLength slot of *)
(* the extra data; trailing bytes that do not fill a slot are ignored.     *)
(***************************************************************************)
ExtractValidators(extraData) ==
    [i \in 1..(Len(extraData) \div AddressLength) |->
        SubSeq(extraData, (i - 1) * AddressLength + 1, i * AddressLength)]

(* validator.ValidExtraData: the length is a whole number of slots.        *)
ValidExtraData(extraData) == Len(extraData) % AddressLength = 0

(* The canonical encoding: addresses concatenated in roster order.         *)
EncodeValidators(addrs) == FlattenSeq(addrs)
=============================================================================
