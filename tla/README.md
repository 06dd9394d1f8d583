# TLA+ models of bxmp

This directory holds TLA+ models of the parts of the bxmp node that have
interesting concurrent or algorithmic behaviour, the TLC configurations that
check them, and `PROJECT.json`, which maps every modelled definition to the
source lines it translates.

## The system and its parts

bxmp is a go-ethereum derivative. Its consensus is Istanbul BFT (IBFT). The
tree holds the following parts; their status is recorded in `PROJECT.json`.

* **Istanbul validator set** (`consensus/istanbul/validator/validator.go`,
  `consensus/istanbul/config.go`): an ordered roster, a proposer policy
  (round-robin or sticky), and validator addresses packed into a header's
  extra data.
* **Istanbul core engine**: the three-phase protocol (Preprepare, Prepare,
  Commit) with locks and round changes. The engine itself is not in this
  tree. Its test harness is (`core/testbackend_test.go`, `core_test.go`,
  `roundstate_test.go`): N in-process backends whose `Broadcast` queues a
  message, and a `listen` goroutine that posts each queued message to every
  backend on a goroutine of its own. The engine's handlers are therefore
  modelled from `spec.md`, and the environment from the harness.
* **Full-node service** (`bxm/backend.go`):
  * construction chooses the consensus engine and the initial bxmbase;
  * the admin calls `Bxmbase`, `SetBxmbase`, `StartMining` and `StopMining`
    run concurrently on RPC goroutines and share `BitMED.lock`, an RWMutex;
  * `Start`/`Stop` cover peer limits and shutdown.
* **ABI type parser** (`accounts/abi/type.go`): `NewType` turns a type name
  such as `uint`, `bytes32[]` or `address[2]` into a `Type`. `Type.pack`
  encodes a value by recursing through that structure.
* **Swarm local chunk store** (`swarm/storage/localstore.go`): a memory store
  over a persistent `DbStore`. `Put` writes memory synchronously and the
  `DbStore` from a goroutine. `Get` falls back from memory to the `DbStore`.
* **Not modelled yet:** the light client (`les`), Raft (`raft`, with
  `cmd/geth/config.go`), metrics, the API backends, and configuration.

## Modules

| Module | Models | State | Actions |
|---|---|---|---|
| `ValidatorSet` | validator set, proposer policy, quorum, extra-data codec | none (operators) | — |
| `IstanbulChain` | what consensus promises: one block per height, on every correct node | `chain` | `CommitBlock` |
| `IstanbulCore` | N IBFT cores over the test backend | `sequence, round, state, preprepare, lockedHash, committed`, the network `msgs`, `faultySent` | `NewRequest`, `HandlePreprepare`, `HandlePrepare`, `HandleCommit`, `Timeout`, `JoinRoundChange`, `StartNewRound`, `FinalCommitted`, `FaultySend` |
| `BitMEDMining` | the mining admin calls with the RWMutex and the miner goroutine, and the service's `Start`/`Stop` | `pc` per caller, lock `writer`/`readers`, `bxmbase`, miner and engine flags, service phase `svc`, `pmMaxPeers` | one action per lock access or shared-state step of each call (`SetBxmbaseLock`, `SetBxmbaseSet`, …), plus `MinerStart`, `ServiceStart`, `ServiceStop` |
| `AbiType` | `NewType`, `String`, the recursion of `pack` | none (operators) | — |
| `LocalStore` | `LocalStore.Put`/`Get` by concurrent callers | key sets `mem`, `db`, open `dbStored` channels `unstored`, pending writes `writing`, `wg`, `pc` per caller | `PutMem`, `PutSpawn`, `DbPut` (the goroutine), `GetMem`, `GetDb`, `GetFill`, `Evict` |
| `MC*` | model values and bounds for TLC | | |

### IstanbulCore

* **Network.** `msgs` is the set of every message sent. `Broadcast`
  (testbackend 81-88) adds a message, and a handler may take any message of
  `msgs` at any time. This covers delay, reordering and duplication by
  `listen`'s goroutines. A message nobody takes is lost. The set never
  shrinks, so a handler can take a message long after `listen` posted it
  once: a superset of the code's behaviours, sound for the safety checks but
  not a basis for liveness (see Fairness).
* **Quorums.** `HandlePrepare` and `HandleCommit` fire once the senders of
  matching messages reach the quorum 2F+1. `JoinRoundChange` fires on F+1
  RoundChanges, and `StartNewRound` on 2F+1.
* **Locks.** A lock taken at the Prepare quorum survives round changes.
  `NewRequest` then proposes the locked value, `HandlePreprepare` rejects a
  conflicting proposal, and `HandleCommit` releases the lock.
* **Proposer.** The harness's `LastProposal` returns the zero address, so the
  proposer of round r is validator r mod N, as `TestNewRequest` shows.
* **Final commit.** `Commit` (testbackend 95-107) appends to `committed`. The
  `FinalCommittedEvent` it posts asynchronously is the separate action
  `FinalCommitted`.
* **Faults.** `Faulty` validators are either silent (crash) or send up to
  `MaxFaultyMsgs` arbitrary messages. Values in `Invalid` fail `Verify`.
* **Refinement.** `committed`, restricted to correct nodes, is shown to refine
  `IstanbulChain`: `ChainRefinement` is `IstanbulChain!Spec` under the mapping
  `chain <- committed`. This is the agreement and validity property.

### BitMEDMining

Every caller runs one admin call at a time, as a sequence of steps. Each step
is one access to the lock or to shared state, in the order of the Go code.

* `Bxmbase`'s RLock and RUnlock are the `sm_rlock` and `sm_runlock` steps of
  `StartMining`.
* `SetBxmbase` under Istanbul returns from `sb_set` still holding the write
  lock, as the code does at line 338.
* `go s.miner.Start(eb)` records `eb` in `pending`. The independent action
  `MinerStart` runs it later.
* The RWMutex blocks new readers while a writer waits, as Go's
  `sync.RWMutex` does.
* `ServiceStart` is `BitMED.Start`. It computes the protocol manager's peer
  limit with `MaxPeersFor` (lines 412-418): the LES peers are taken off the
  server's limit, and the result is clamped up to half of it.
* `ServiceStop` is `BitMED.Stop`, taken as one step. Only its effect on the
  miner is visible here: `miner.Stop()`. It neither stops an Istanbul engine
  nor waits for a pending `miner.Start`.
* Admin calls begin only while the service runs. The node, which is not in
  this tree, opens RPC after starting its services and closes RPC before
  stopping them. A call already being served continues across the `Stop`.

### AbiType

A type name is abstracted from characters to three pieces: the letters of
the base name, its size suffix (none, `n`, or `NxM`), and its bracket
suffixes. These are the pieces the two regular expressions of `type.go`
pick apart.

* `TypeMatch` is `typeRegex`. It includes the nil match, whose `[0]`
  panics.
* `NewType` follows the code branch for branch. It takes only the first
  match of `fullTypeRegex`: the base and the first bracket.
* `Shape` lists the dimensions `pack` recurses through (line 186), down to
  the element it packs.
* `requiresLengthPrefix` (lines 208-210) decides whether a type is encoded
  behind an offset. It reads only the outer type's kind and `IsSlice`.
* The reference in `MCAbiType` reads a well-formed name the way Solidity
  does: in `T[a][b]` the last suffix is the outermost dimension.

### LocalStore

The memory store and the `DbStore` are not in this tree, so each is a set of
keys.

* `Evict` is the memory store's capacity eviction. It is environment
  behaviour and is not mapped to code. It may remove a chunk only when the
  chunk's `dbStored` channel is closed. That channel is created by `Put`
  (line 45) for exactly this purpose, and the `DbStore` closes it after the
  write.
* A `Get` records the chunks whose `Put` had returned when the `Get` began,
  so a miss can be judged.

## Runs

| Run | Expect | What it shows |
|---|---|---|
| `core_crash` | pass | N=4, one validator crashed, 2 sequences, rounds 0–1. It checks `TypeOK` and `ChainRefinement`: one commit per sequence at every correct core, across the asynchronous `FinalCommitted`, round changes and late Commits. 79k states with symmetry. |
| `core_byzantine` | pass | v4 is the round-0 proposer and Byzantine. It equivocates and sends 3 arbitrary messages, one of them an invalid value. `ChainRefinement` holds (agreement and validity). 375k states. |
| `core_two_validators` | violation | N=2, no faults. The quorum 2F+1 = 1 lets the validators commit different blocks at height 1 across a round change (a spec gap). |
| `validator_set` | pass | `ExtractValidators` matches a recursive reference decoder on all extra data up to 5 bytes. A well-formed extra data decodes and re-encodes to itself. |
| `abi_types` | pass | `ShapeMatchesReference`: every well-formed name with at most one bracket suffix parses without error. `pack` walks the dimensions and element the name denotes, and `String()` is the canonical spelling (`int` → `int256`). There are 180 names, including unsupported, `NxM` and nameless ones. |
| `abi_nested_arrays` | violation | With two suffixes, `int[][]` parses as a one-dimensional slice while `String()` says `int256[][]`. |
| `abi_dynamic_arrays` | violation | `PrefixMatchesReference`: `bytes[2]` is dynamic in the ABI, yet its parsed type does not require length prefixing. `string[2]` does require it. Every other well-formed name of the `abi_types` inputs agrees with the reference. |
| `local_store` | pass | Two callers and two chunks (with or without a WaitGroup), plus two Gets, checked for: `GetFindsStored` (a Get begun after `Put` returned never misses); and `WaitMeansStored` (the WaitGroup at zero means every chunk carrying it is in the `DbStore`). 26k states. |
| `mining_clique` | pass | Under Clique, every admin call returns (`CallsReturn`). Two callers make 4 calls in all, with the service started and possibly stopped in between. |
| `mining_istanbul_lock_leak` | violation | Under Istanbul, `SetBxmbase` leaks the write lock, and every later call blocks. |
| `mining_stop_race` | violation | `StopMining` or the service `Stop` returns, and the miner goroutine spawned by an earlier `StartMining` then starts mining. |
| `mining_coinbase_race` | violation | Two `SetBxmbase` calls hand their addresses to the miner after unlocking, in reverse order. Once both return, the miner's coinbase is not the `bxmbase` that `Bxmbase()` reports (`CoinbaseIsBxmbase`). |

Every property of a passing run has a mutant in `PROJECT.json`: a plausible
bug in the mapped code (a dropped lock check, a skipped `Verify`, a missing
`RUnlock`, …) that TLC finds violating it.

## Bounds

* **Core runs.** Two sequences and two rounds are enough for the interesting
  cases: a lock carried into the next round, a round change racing a commit
  quorum, and a node that moves to the next sequence while others lag.
* **Byzantine run.** One sequence with three faulty messages covers
  equivocation plus a conflicting vote in each phase.
* **Symmetry.** Symmetry over the proposal values is sound because no
  property names a value. No symmetry is used over validators, since the
  proposer order distinguishes them.
* **Validator set.** Rosters of 1–7 validators cover F = 0, 1 and 2.
  Addresses are 2 bytes in that model, so truncation and slot arithmetic
  show up on short inputs.
* **Mining.** Two callers and four calls allow each pair of overlapping calls,
  and the service `Stop` can fall anywhere among them. The coinbase race
  needs two `SetBxmbase` calls. The stop race needs a `StartMining` and then
  a stop.
* **ABI.** The inputs cover each branch of `NewType`:
  * each supported base name, an unsupported one, and none;
  * sizes none, 8, 32, 256 and `128x18`;
  * suffixes `[]`, `[2]` and `[3]`.

  One suffix is enough for the passing run and for `abi_dynamic_arrays`.
  The nested-array violation needs two.
* **Local store.** Two keys and two callers allow a Put to overlap another
  Put, a Get, an eviction and the write goroutine. Each key is put at most
  once, since chunks are content-addressed.

## Fairness

* **IstanbulCore.** No liveness property is checked, so the runs use no
  fairness. A termination check would need weak fairness of each correct
  core's handlers over a network that keeps every message. The code gives
  less: `listen` (testbackend 212-214) posts each message once per backend,
  and spec section 4.3 drops future-view messages other than RoundChange.
  A core still waiting for its asynchronous `FinalCommittedEvent` then loses
  the next sequence's Preprepare, and with one validator silent every
  correct vote is needed. Termination in this model would hold only by the
  network's assumption, so it is not claimed.
* **BitMEDMining.** Lock acquisition gets strong fairness, because Go's
  RWMutex hands the lock to waiting writers and then to readers that queued
  behind them. Every other step, and the spawned goroutine, get weak
  fairness. The service's `Start` and `Stop` are not fair, because the node
  may never stop.
* **LocalStore.** Only safety is checked, so the specification has no
  fairness.

## Findings

* **SetBxmbase leaks the write lock** (`bxm/backend.go:338`). Under Istanbul,
  `SetBxmbase` returns with `self.lock` held, so `Bxmbase`, `StartMining` and
  `SetBxmbase` hang for good.
* **StartMining's miner goroutine can outlive a later StopMining**
  (`bxm/backend.go:369`). After `StopMining` returns, or after the service
  `Stop` has closed the database, the miner can still start.
* **SetBxmbase updates the miner outside the lock** (`bxm/backend.go:343`).
  Two concurrent calls can leave the miner mining for the older address.
* **The quorum rule is unsafe outside N = 3F+1.** The spec states the 2F+1
  quorum for any N. Nothing enforces N = 3F+1, and with N=2 agreement fails.
* **`bytes[k]` is not treated as dynamic** (`accounts/abi/type.go:209`).
  `requiresLengthPrefix` says yes for `string[2]` but no for `bytes[2]`.
  `NewType` returns early for a `bytes` element and leaves the array's kind
  at its zero value, so a dynamic argument is treated as a static one.
* **NewType drops all but the first array dimension**
  (`accounts/abi/type.go:75`). The packed encoding then disagrees with the
  signature hashed from `String()`.
* **ExtractValidators truncates instead of rejecting**
  (`validator.go:42-50`). The spec says malformed extra data is rejected.
  This divergence was noted while modelling. It has no run of its own: it is
  a pure function, the code makes `ValidExtraData` the check, and the run is
  spent on the coinbase race. `validator_set` checks the decoder against a
  reference that truncates the same way.

## Not modelled, and why

* **Raft id assignment** (`cmd/geth/config.go:218-266`). `uint16(joinExistingId)`
  and `uint16(peerIdx) + 1` wrap. That needs either a `--raftjoinexisting`
  value above 65535, which `raft.addPeer` never issues, or 65535 static
  peers. The one violation it would show needs a run of its own. That run
  went to the `bytes[2]` encoding bug, which is reachable from an ordinary
  contract.
* **Malformed ABI type names.** `NewType` models the panic on a name with no
  base name (`Fail("panic")`). No run states what such names should give:
  nothing in the tree says whether they should panic or return an error.
* **Message metering** (`bxm/metrics.go`, `les/metrics.go`). The meters are
  chosen by a switch over message codes defined in files that are not in
  this tree. A model would restate that switch. The one ordering question,
  a message read before `Init` sets the version, depends on the handshake
  code, which is also not here.
* **Light client and Raft services** (`les/backend.go`, `raft/backend.go`).
  Their `Start` and `Stop` delegate to protocol managers, an ODR, a server
  pool and a minter that are not in this tree. The race of
  `LightBitmed.Stop` is its 200 ms sleep before closing the database, while
  the server pool's goroutine may still write. The code of that goroutine
  is not here.
* **What the service `Stop` owes an Istanbul engine.** `Stop` never calls the
  engine's `Stop` (`backend.go:429-447`). The engine's contract is in the
  Istanbul backend, which is not in this tree.
* **Termination of the cores.** The network of `IstanbulCore` never loses a
  message, whereas `listen` posts each message once and spec section 4.3
  drops future-view ones; and a core that commits moves on while the
  harness has no block sync. A liveness property of this model would rest on
  an assumption the code does not meet, so none is checked. Modelling
  per-core delivery with the drop is the way to make one meaningful.
* **Properties that restate a definition.** Lock respect, proposer
  coverage, quorum intersection and the peer-limit clamp were dropped: each
  held by the shape of a single (often spec-modelled) definition. The locks
  and quorums are exercised through `ChainRefinement`.
* **Left out:**
  * the API backends (`bxm/api_backend.go`, `les/api_backend.go`,
    `internal/bxmapi/backend.go`), which forward each request to the chain,
    pool or downloader and have no state or protocol of their own;
  * configuration and defaults (`bxm/config.go`, `params`), and flag and
    file loading (`cmd/geth/config.go`), which enter the models as
    constants;
  * the mobile client (`mobile/bxmclient.go`), which wraps RPC calls one by
    one;
  * the Istanbul backend's seal checks, which are cryptography that is not
    in this tree.
