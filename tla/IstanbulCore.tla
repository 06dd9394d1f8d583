---------------------------- MODULE IstanbulCore ----------------------------
(***************************************************************************)
(* The Istanbul BFT consensus engine: one core per validator, driven       *)
(* through AcceptRequest -> Preprepared -> Prepared -> Committed and back  *)
(* to AcceptRequest for the next sequence, with round changes on timeout.  *)
(*                                                                         *)
(* The engine's own files (core.go, roundstate.go, handlers) are not part  *)
(* of this source tree; its steps are taken from the repository's design   *)
(* (spec.md, sections 3-5).  The environment every core runs in is the     *)
(* one of core/testbackend_test.go: Broadcast queues a message that        *)
(* listen() posts to every backend, the sender included, each from its own *)
(* goroutine, so a message reaches each core independently, in any order,  *)
(* possibly never.  Commit appends the proposal to the backend's committed *)
(* list and posts the FinalCommittedEvent asynchronously.                  *)
(*                                                                         *)
(* Network: msgs holds every message ever sent; a core may receive one any *)
(* number of times or never (loss, duplication, reordering).  A faulty     *)
(* validator keeps no state and may send any message, up to MaxFaultyMsgs. *)
(*                                                                         *)
(* Message sets: a core's Prepare, Commit and RoundChange sets hold the    *)
(* senders it has received for one view (MessageSet: keyed by sender, so   *)
(* re-delivery is idempotent).  Receiving one below a threshold changes    *)
(* nothing but the set, and the set is dropped with the round, so the      *)
(* model takes the handler call at which the set a core holds reaches F+1 *)
(* or 2F+1; the set it holds is then any set of senders of matching        *)
(* messages in msgs.                                                       *)
(***************************************************************************)
EXTENDS Naturals, FiniteSets, Sequences, SequencesExt

CONSTANTS
    ValList,        \* the ordered validator roster (a sequence of addresses)
    Policy,         \* the proposer policy, RoundRobin (0) or Sticky (1)
    Faulty,         \* validators that may behave arbitrarily
    Values,         \* the proposals (blocks) that can be offered
    Invalid,        \* proposals the backend's Verify rejects
    MaxSeq,         \* the last sequence explored
    MaxRound,       \* the last round explored in any sequence
    MaxFaultyMsgs,  \* how many messages the faulty validators may inject
    None            \* no proposal: empty preprepare, empty lock

VSet == INSTANCE ValidatorSet WITH AddressLength <- 20

Validators == ToSet(ValList)
Honest     == Validators \ Faulty
VS         == VSet!NewSet(ValList, Policy)
F          == VSet!FaultBound(VS)
Q          == VSet!QuorumSize(VS)

ASSUME /\ Len(ValList) = Cardinality(Validators)       \* no duplicate identity
       /\ Faulty \subseteq Validators /\ Cardinality(Faulty) <= F
       /\ Invalid \subseteq Values /\ None \notin Values
       /\ MaxSeq \in Nat \ {0} /\ MaxRound \in Nat /\ MaxFaultyMsgs \in Nat

(***************************************************************************)
(* The proposer seed: Backend.LastProposal of the test backend returns the *)
(* zero address as the last proposer, at every sequence, so every          *)
(* sequence starts its rotation from the round alone.                      *)
(***************************************************************************)
LastProposer == VSet!NoLastProposer

Seqs   == 1..MaxSeq
Rounds == 0..MaxRound
States == {"AcceptRequest", "Preprepared", "Prepared", "Committed"}
Codes  == {"Preprepare", "Prepare", "Commit", "RoundChange"}

Message == [code : Codes, seq : Seqs, round : Rounds,
            from : Validators, value : Values \cup {None}]

VARIABLES
    sequence,      \* sequence[v]: the height the core is deciding
    round,         \* round[v]: the current round of that sequence
    state,         \* state[v]: the core's phase
    preprepare,    \* preprepare[v]: the proposal of the accepted Preprepare
    lockedHash,    \* lockedHash[v]: the locked proposal, kept across rounds
    committed,     \* committed[v]: the backend's committedMsgs, in order
    msgs,          \* every message broadcast so far
    faultySent     \* messages injected by faulty validators

coreVars == <<sequence, round, state, preprepare, lockedHash>>
vars == <<coreVars, committed, msgs, faultySent>>

-----------------------------------------------------------------------------
Msg(code, v, r, value) ==
    [code |-> code, seq |-> sequence[v], round |-> r, from |-> v, value |-> value]

(* Backend.Broadcast: the message is queued and later posted to all cores.  *)
Broadcast(m) == msgs' = msgs \cup {m}

(* The senders of the messages with this code, view and proposal: the      *)
(* largest MessageSet a core can hold for them.                            *)
Senders(code, seq, r, value) ==
    {m.from : m \in {x \in msgs : x.code = code /\ x.seq = seq /\ x.round = r
                                   /\ x.value = value}}

(* The Prepare and Commit sets of v's current view and proposal.            *)
PrepareSet(v) == Senders("Prepare", sequence[v], round[v], preprepare[v])
CommitSet(v)  == Senders("Commit", sequence[v], round[v], preprepare[v])

(* NewTestSystemWithBackend: every core starts in AcceptRequest at view    *)
(* (sequence 1, round 0) with an empty lock and no messages.                *)
Init ==
    /\ sequence   = [v \in Honest |-> 1]
    /\ round      = [v \in Honest |-> 0]
    /\ state      = [v \in Honest |-> "AcceptRequest"]
    /\ preprepare = [v \in Honest |-> None]
    /\ lockedHash = [v \in Honest |-> None]
    /\ committed  = [v \in Honest |-> <<>>]
    /\ msgs       = {}
    /\ faultySent = 0

-----------------------------------------------------------------------------
(***************************************************************************)
(* Faulty variants of the handlers below, each a plausible slip in the     *)
(* engine's code; the properties must tell them apart from the handlers.   *)
(***************************************************************************)

(* The receiver accepts a proposal that conflicts with its lock.           *)
HandlePreprepareIgnoringLock(v, m) ==
    /\ m.code = "Preprepare"
    /\ m.seq = sequence[v] /\ m.round = round[v]
    /\ m.from = VSet!Proposer(VS, LastProposer, m.round)
    /\ state[v] = "AcceptRequest" \/ (state[v] = "Preprepared" /\ m.from = v)
    /\ m.value \notin Invalid
    /\ preprepare' = [preprepare EXCEPT ![v] = m.value]
    /\ state' = [state EXCEPT ![v] = "Preprepared"]
    /\ Broadcast(Msg("Prepare", v, round[v], m.value))
    /\ UNCHANGED <<sequence, round, lockedHash, committed, faultySent>>

(* The error returned by the backend's Verify is dropped.                  *)
HandlePreprepareSkippingVerify(v, m) ==
    /\ m.code = "Preprepare"
    /\ m.seq = sequence[v] /\ m.round = round[v]
    /\ m.from = VSet!Proposer(VS, LastProposer, m.round)
    /\ state[v] = "AcceptRequest" \/ (state[v] = "Preprepared" /\ m.from = v)
    /\ lockedHash[v] \in {None, m.value}
    /\ preprepare' = [preprepare EXCEPT ![v] = m.value]
    /\ state' = [state EXCEPT ![v] = "Preprepared"]
    /\ Broadcast(Msg("Prepare", v, round[v], m.value))
    /\ UNCHANGED <<sequence, round, lockedHash, committed, faultySent>>

(* The message dispatch does not check the code: any message of the view  *)
(* from its proposer is taken for a Preprepare.                            *)
HandlePreprepareAnyCode(v, m) ==
    /\ m.seq = sequence[v] /\ m.round = round[v]
    /\ m.from = VSet!Proposer(VS, LastProposer, m.round)
    /\ state[v] = "AcceptRequest" \/ (state[v] = "Preprepared" /\ m.from = v)
    /\ m.value \notin Invalid
    /\ lockedHash[v] \in {None, m.value}
    /\ preprepare' = [preprepare EXCEPT ![v] = m.value]
    /\ state' = [state EXCEPT ![v] = "Preprepared"]
    /\ Broadcast(Msg("Prepare", v, round[v], m.value))
    /\ UNCHANGED <<sequence, round, lockedHash, committed, faultySent>>

(* The commit handler does not check the state, so a late Commit of the    *)
(* finished round commits the proposal again.                              *)
HandleCommitAnyState(v) ==
    /\ Cardinality(CommitSet(v)) >= Q
    /\ committed' = [committed EXCEPT ![v] = Append(@, preprepare[v])]
    /\ lockedHash' = [lockedHash EXCEPT ![v] = None]
    /\ state' = [state EXCEPT ![v] = "Committed"]
    /\ UNCHANGED <<sequence, round, preprepare, msgs, faultySent>>

-----------------------------------------------------------------------------
(***************************************************************************)
(* A request reaches the proposer of the current view: it broadcasts a     *)
(* Preprepare and moves to Preprepared.  A locked proposer re-proposes its *)
(* locked proposal instead of the one offered.                             *)
(***************************************************************************)
NewRequest(v, p) ==
    /\ state[v] = "AcceptRequest"
    /\ VSet!IsProposer(VS, LastProposer, round[v], v)
    /\ LET prop == IF lockedHash[v] # None THEN lockedHash[v] ELSE p
       IN /\ preprepare' = [preprepare EXCEPT ![v] = prop]
          /\ state' = [state EXCEPT ![v] = "Preprepared"]
          /\ Broadcast(Msg("Preprepare", v, round[v], prop))
    /\ UNCHANGED <<sequence, round, lockedHash, committed, faultySent>>

(***************************************************************************)
(* A Preprepare for the current view from its proposer, whose proposal     *)
(* passes Verify and does not conflict with the lock, is stored and        *)
(* answered with a Prepare.  The proposer accepts its own Preprepare when  *)
(* the broadcast comes back to it.                                         *)
(***************************************************************************)
HandlePreprepare(v, m) ==
    /\ m.code = "Preprepare"
    /\ m.seq = sequence[v] /\ m.round = round[v]
    /\ m.from = VSet!Proposer(VS, LastProposer, m.round)
    /\ \/ state[v] = "AcceptRequest"
       \/ state[v] = "Preprepared" /\ m.from = v
    /\ m.value \notin Invalid
    /\ lockedHash[v] \in {None, m.value}
    /\ preprepare' = [preprepare EXCEPT ![v] = m.value]
    /\ state' = [state EXCEPT ![v] = "Preprepared"]
    /\ Broadcast(Msg("Prepare", v, round[v], m.value))
    /\ UNCHANGED <<sequence, round, lockedHash, committed, faultySent>>

(***************************************************************************)
(* The Prepare set of the current view and proposal reaches 2F+1: the      *)
(* Preprepared core locks the proposal, broadcasts a Commit and moves to   *)
(* Prepared.                                                               *)
(***************************************************************************)
HandlePrepare(v) ==
    /\ state[v] = "Preprepared"
    /\ Cardinality(PrepareSet(v)) >= Q
    /\ lockedHash' = [lockedHash EXCEPT ![v] = preprepare[v]]
    /\ state' = [state EXCEPT ![v] = "Prepared"]
    /\ Broadcast(Msg("Commit", v, round[v], preprepare[v]))
    /\ UNCHANGED <<sequence, round, preprepare, committed, faultySent>>

(***************************************************************************)
(* The Commit set of the current view and proposal reaches 2F+1: the       *)
(* proposal and its committed seals go to Backend.Commit, which appends it *)
(* to the committed list; the core unlocks and moves to Committed.         *)
(***************************************************************************)
HandleCommit(v) ==
    /\ state[v] \in {"Preprepared", "Prepared"}
    /\ Cardinality(CommitSet(v)) >= Q
    /\ committed' = [committed EXCEPT ![v] = Append(@, preprepare[v])]
    /\ lockedHash' = [lockedHash EXCEPT ![v] = None]
    /\ state' = [state EXCEPT ![v] = "Committed"]
    /\ UNCHANGED <<sequence, round, preprepare, msgs, faultySent>>

(***************************************************************************)
(* The round-change timer fires before a commit quorum: the core           *)
(* broadcasts a RoundChange for the next round.  The timer re-arms and     *)
(* fires again with the same message, which changes nothing.               *)
(***************************************************************************)
Timeout(v) ==
    /\ state[v] # "Committed"
    /\ round[v] < MaxRound
    /\ Msg("RoundChange", v, round[v] + 1, None) \notin msgs
    /\ Broadcast(Msg("RoundChange", v, round[v] + 1, None))
    /\ UNCHANGED <<coreVars, committed, faultySent>>

(***************************************************************************)
(* RoundChanges for a later round r of the current sequence: F+1 of them   *)
(* make the core join the round change with its own RoundChange(r)...      *)
(***************************************************************************)
JoinRoundChange(v, r) ==
    /\ state[v] # "Committed"
    /\ r > round[v]
    /\ Cardinality(Senders("RoundChange", sequence[v], r, None)) >= F + 1
    /\ Msg("RoundChange", v, r, None) \notin msgs
    /\ Broadcast(Msg("RoundChange", v, r, None))
    /\ UNCHANGED <<coreVars, committed, faultySent>>

(***************************************************************************)
(* ... and 2F+1 make it start round r: round data is discarded, the lock   *)
(* is kept.                                                                *)
(***************************************************************************)
StartNewRound(v, r) ==
    /\ state[v] # "Committed"
    /\ r > round[v]
    /\ Cardinality(Senders("RoundChange", sequence[v], r, None)) >= Q
    /\ round' = [round EXCEPT ![v] = r]
    /\ state' = [state EXCEPT ![v] = "AcceptRequest"]
    /\ preprepare' = [preprepare EXCEPT ![v] = None]
    /\ UNCHANGED <<sequence, lockedHash, committed, msgs, faultySent>>

(***************************************************************************)
(* The backend signals the new chain head (FinalCommittedEvent): the core  *)
(* starts round 0 of the next sequence with fresh round state and no lock. *)
(***************************************************************************)
FinalCommitted(v) ==
    /\ state[v] = "Committed"
    /\ sequence[v] < MaxSeq
    /\ sequence' = [sequence EXCEPT ![v] = @ + 1]
    /\ round' = [round EXCEPT ![v] = 0]
    /\ state' = [state EXCEPT ![v] = "AcceptRequest"]
    /\ preprepare' = [preprepare EXCEPT ![v] = None]
    /\ lockedHash' = [lockedHash EXCEPT ![v] = None]
    /\ UNCHANGED <<committed, msgs, faultySent>>

(* A faulty validator sends any message of its own, for any view.          *)
FaultySend(m) ==
    /\ faultySent < MaxFaultyMsgs
    /\ m.from \in Faulty
    /\ m \notin msgs
    /\ (m.code = "RoundChange") = (m.value = None)
    /\ msgs' = msgs \cup {m}
    /\ faultySent' = faultySent + 1
    /\ UNCHANGED <<coreVars, committed>>

Next ==
    \/ \E v \in Honest, p \in Values \ Invalid : NewRequest(v, p)
    \/ \E v \in Honest, m \in msgs : HandlePreprepare(v, m)
    \/ \E v \in Honest : HandlePrepare(v) \/ HandleCommit(v)
    \/ \E v \in Honest : Timeout(v) \/ FinalCommitted(v)
    \/ \E v \in Honest, r \in Rounds : JoinRoundChange(v, r) \/ StartNewRound(v, r)
    \/ \E m \in Message : FaultySend(m)

Spec == Init /\ [][Next]_vars

(***************************************************************************)
(* Each core runs its own event loop and handles every event posted to it: *)
(* testSystem.listen posts every queued message to every backend, and the  *)
(* request and FinalCommittedEvent are posted by goroutines that do not    *)
(* fail.  So every step of an honest core that stays enabled is taken.     *)
(* Timeouts are not fair: the timer is what the fault model may fire.      *)
-----------------------------------------------------------------------------
TypeOK ==
    /\ sequence \in [Honest -> Seqs]
    /\ round \in [Honest -> Rounds]
    /\ state \in [Honest -> States]
    /\ preprepare \in [Honest -> Values \cup {None}]
    /\ lockedHash \in [Honest -> Values \cup {None}]
    /\ committed \in [Honest -> Seq(Values)]
    /\ msgs \subseteq Message
    /\ faultySent \in 0..MaxFaultyMsgs

(***************************************************************************)
(* The engine implements the chain of IstanbulChain: seen through the      *)
(* backends' committed lists, every step of the cores either leaves them   *)
(* alone or appends, at one correct node, a block that Verify accepts and  *)
(* that every correct node that reached that height committed too.  This   *)
(* is Agreement (spec section 8, Safety) together with validity and        *)
(* one-block-at-a-time growth, whatever the round changes, the message     *)
(* order and the faulty validators do.  It rests on the 2F+1 quorums of    *)
(* HandlePrepare and HandleCommit and on the lock surviving StartNewRound. *)
(***************************************************************************)
Chain == INSTANCE IstanbulChain
            WITH Nodes <- Honest, Blocks <- Values \ Invalid,
                 MaxHeight <- MaxSeq, chain <- committed

ChainRefinement == Chain!Spec
=============================================================================
