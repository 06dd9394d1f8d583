---------------------------- MODULE MCValidatorSet ----------------------------
(***************************************************************************)
(* Checks the validator-set operators over every roster of up to          *)
(* MaxValidators validators, every policy value (including an unknown     *)
(* one) and every extra-data string of up to MaxExtraLen bytes over a      *)
(* two-symbol alphabet, with AddressLength 2.  The state is the roster and *)
(* policy in use and the extra data of the last header read; each step     *)
(* reads another header or installs another roster.                        *)
(***************************************************************************)
EXTENDS Integers, Sequences, FiniteSets

CONSTANTS MaxValidators, MaxExtraLen

VS == INSTANCE ValidatorSet WITH AddressLength <- 2

Bytes == {0, 1}
ExtraStrings == UNION {[1..k -> Bytes] : k \in 0..MaxExtraLen}
Policies == {VS!RoundRobin, VS!Sticky, 2}

VARIABLES n, policy, extra

vars == <<n, policy, extra>>

Roster == [i \in 1..n |-> i]          \* validator i has address i
Set == VS!NewSet(Roster, policy)

Init == n \in 1..MaxValidators /\ policy \in Policies /\ extra \in ExtraStrings

ReadHeader == \E b \in ExtraStrings : extra' = b /\ UNCHANGED <<n, policy>>

InstallRoster ==
    \E k \in 1..MaxValidators, p \in Policies :
        n' = k /\ policy' = p /\ UNCHANGED extra

Next == ReadHeader \/ InstallRoster

Spec == Init /\ [][Next]_vars

-----------------------------------------------------------------------------
(* Reference: the addresses of the extra data, taken one slot at a time.   *)
RECURSIVE Slots(_)
Slots(b) ==
    IF Len(b) < 2 THEN <<>> ELSE <<SubSeq(b, 1, 2)>> \o Slots(SubSeq(b, 3, Len(b)))

(***************************************************************************)
(* ExtractValidators reads exactly the full address slots of the extra     *)
(* data, in order, and on well-formed data (ValidExtraData) gives back the *)
(* addresses whose concatenation it is.                                    *)
(***************************************************************************)
ExtractMatchesReference ==
    /\ VS!ExtractValidators(extra) = Slots(extra)
    /\ VS!ValidExtraData(extra) => VS!EncodeValidators(VS!ExtractValidators(extra)) = extra
====
