---------------------------- MODULE BitMEDMining ----------------------------
(***************************************************************************)
(* The mining controls of the full-node service (bxm/backend.go): the      *)
(* admin calls Bxmbase, SetBxmbase, StartMining and StopMining, run by     *)
(* concurrent callers (every RPC request is served on its own goroutine),  *)
(* the BitMED.lock RWMutex that guards the bxmbase field, and the          *)
(* goroutine StartMining spawns to start the miner.                        *)
(*                                                                         *)
(* Each call is a sequence of atomic steps, one per access to shared state *)
(* or to the lock; pc[c] names the step caller c takes next.  The miner    *)
(* (not in this tree) is abstracted to its two fields, mining and          *)
(* coinbase: Start sets both, Stop clears mining, SetBxmbase sets coinbase. *)
(* The consensus engine follows from the chain config; for Istanbul its    *)
(* Start/Stop are the started flag.                                        *)
(***************************************************************************)
EXTENDS Naturals, FiniteSets

CONSTANTS
    Callers,        \* goroutines issuing admin calls
    Addrs,          \* non-zero addresses
    Zero,           \* common.Address{}: the unset bxmbase
    FirstAccount,   \* wallets[0].accounts[0], or Zero if there is none
    WalletAccounts, \* the accounts accountManager.Find can locate
    HasClique,      \* the chain config has a Clique section
    HasIstanbul,    \* the chain config has an Istanbul section
    ConfigBxmbase,  \* config.Bxmbase, possibly Zero
    NodeKeyAddr,    \* the address of the node key
    MaxCalls,       \* the number of admin calls explored
    NoCaller,
    SrvMaxPeers,    \* srvr.MaxPeers of the p2p server
    LightServ,      \* config.LightServ: percentage of time for LES requests
    LightPeers      \* config.LightPeers: the LES client peer limit

ASSUME /\ Zero \notin Addrs /\ FirstAccount \in Addrs \cup {Zero}
       /\ WalletAccounts \subseteq Addrs /\ FirstAccount \in WalletAccounts \cup {Zero}
       /\ HasClique \in BOOLEAN /\ HasIstanbul \in BOOLEAN
       /\ ConfigBxmbase \in Addrs \cup {Zero} /\ NodeKeyAddr \in Addrs
       /\ MaxCalls \in Nat /\ NoCaller \notin Callers
       /\ {SrvMaxPeers, LightServ, LightPeers} \subseteq Nat

Addr == Addrs \cup {Zero}

(* CreateConsensusEngine: a Clique section wins over an Istanbul one, and  *)
(* without either the engine is ethash.                                    *)
Engine == IF HasClique THEN "clique" ELSE IF HasIstanbul THEN "istanbul" ELSE "ethash"
PCs  == {"idle", "sb_lock", "sb_set", "sb_miner", "sm_rlock", "sm_runlock",
         "sm_engine", "st_miner", "st_engine"}

VARIABLES
    pc,             \* pc[c]: the next step of caller c
    arg,            \* arg[c]: the address SetBxmbase was given / StartMining's eb
    local,          \* local[c]: StartMining's local argument
    writer,         \* the caller holding lock for writing, or NoCaller
    readers,        \* the callers holding lock for reading
    bxmbase,        \* BitMED.bxmbase
    signer,         \* the address clique.Authorize was last given
    started,        \* the Istanbul engine is started
    acceptTxs,      \* protocolManager.acceptTxs
    pending,        \* eb of each `go s.miner.Start(eb)` not yet run
    mining,         \* miner.mining
    coinbase,       \* miner.coinbase
    calls,          \* admin calls begun so far
    cleanStops,     \* StopMining calls begun with no StartMining running, and
                    \* no StartMining begun since
    stopped,        \* such a StopMining (or the service Stop) returned and no
                    \* StartMining began since
    svc,            \* the node.Service life cycle: "new", "running", "stopped"
    pmMaxPeers      \* the peer limit protocolManager.Start was given

vars == <<pc, arg, local, writer, readers, bxmbase, signer, started,
          acceptTxs, pending, mining, coinbase, calls, cleanStops, stopped,
          svc, pmMaxPeers>>
svcVars == <<svc, pmMaxPeers>>

(* New: bxmbase comes from the config, but is forced to the node key's     *)
(* address whenever the chain config has an Istanbul section.              *)
Init ==
    /\ pc = [c \in Callers |-> "idle"]
    /\ arg = [c \in Callers |-> Zero]
    /\ local = [c \in Callers |-> FALSE]
    /\ writer = NoCaller /\ readers = {}
    /\ bxmbase = IF HasIstanbul THEN NodeKeyAddr ELSE ConfigBxmbase
    /\ signer = Zero /\ started = FALSE
    /\ acceptTxs = 0 /\ pending = {}
    /\ mining = FALSE /\ coinbase = Zero
    /\ calls = 0 /\ cleanStops = {} /\ stopped = FALSE
    /\ svc = "new" /\ pmMaxPeers = 0

Goto(c, l) == pc' = [pc EXCEPT ![c] = l]

(* A StartMining call is under way.                                        *)
StartRunning == \E c \in Callers : pc[c] \in {"sm_rlock", "sm_runlock", "sm_engine"}

(* A writer has called Lock and is waiting: RWMutex then blocks new readers. *)
WriterWaiting == \E c \in Callers : pc[c] = "sb_lock"

-----------------------------------------------------------------------------
(* An idle caller begins an admin call.  RPC is served only between the   *)
(* service's Start and Stop: the node (not in this tree) starts its RPC    *)
(* endpoints after the services and closes them before stopping them; a   *)
(* call already being served runs on.                                      *)
Begin(c, l) ==
    /\ pc[c] = "idle" /\ calls < MaxCalls /\ svc = "running"
    /\ Goto(c, l)
    /\ calls' = calls + 1

CallSetBxmbase(c, a) ==
    /\ Begin(c, "sb_lock")
    /\ arg' = [arg EXCEPT ![c] = a]
    /\ UNCHANGED <<local, writer, readers, bxmbase, signer, started, acceptTxs,
                   pending, mining, coinbase, cleanStops, stopped>>
    /\ UNCHANGED svcVars

CallStartMining(c, l) ==
    /\ Begin(c, "sm_rlock")
    /\ local' = [local EXCEPT ![c] = l]
    /\ cleanStops' = {} /\ stopped' = FALSE
    /\ UNCHANGED <<arg, writer, readers, bxmbase, signer, started, acceptTxs,
                   pending, mining, coinbase>>
    /\ UNCHANGED svcVars

CallStopMining(c) ==
    /\ Begin(c, "st_miner")
    /\ cleanStops' = IF StartRunning THEN cleanStops ELSE cleanStops \cup {c}
    /\ UNCHANGED <<arg, local, writer, readers, bxmbase, signer, started,
                   acceptTxs, pending, mining, coinbase, stopped>>
    /\ UNCHANGED svcVars

(***************************************************************************)
(* SetBxmbase: self.lock.Lock(); under Istanbul it logs and returns, the   *)
(* lock still held; otherwise it stores the address, unlocks, and passes   *)
(* the address on to the miner.                                            *)
(***************************************************************************)
SetBxmbaseLock(c) ==
    /\ pc[c] = "sb_lock" /\ writer = NoCaller /\ readers = {}
    /\ writer' = c
    /\ Goto(c, "sb_set")
    /\ UNCHANGED <<arg, local, readers, bxmbase, signer, started, acceptTxs,
                   pending, mining, coinbase, calls, cleanStops, stopped>>
    /\ UNCHANGED svcVars

SetBxmbaseSet(c) ==
    /\ pc[c] = "sb_set"
    /\ IF Engine = "istanbul"
          THEN Goto(c, "idle") /\ UNCHANGED <<bxmbase, writer>>
          ELSE /\ bxmbase' = arg[c]
               /\ writer' = NoCaller
               /\ Goto(c, "sb_miner")
    /\ UNCHANGED <<arg, local, readers, signer, started, acceptTxs, pending,
                   mining, coinbase, calls, cleanStops, stopped>>
    /\ UNCHANGED svcVars

SetBxmbaseMiner(c) ==
    /\ pc[c] = "sb_miner"
    /\ coinbase' = arg[c]
    /\ Goto(c, "idle")
    /\ UNCHANGED <<arg, local, writer, readers, bxmbase, signer, started,
                   acceptTxs, pending, mining, calls, cleanStops, stopped>>
    /\ UNCHANGED svcVars

(***************************************************************************)
(* StartMining: Bxmbase() reads the field under the read lock and falls    *)
(* back, after unlocking, to the first wallet account; without either the *)
(* call fails.                                                             *)
(***************************************************************************)
StartMiningRLock(c) ==
    /\ pc[c] = "sm_rlock" /\ writer = NoCaller /\ ~WriterWaiting
    /\ readers' = readers \cup {c}
    /\ arg' = [arg EXCEPT ![c] = bxmbase]
    /\ Goto(c, "sm_runlock")
    /\ UNCHANGED <<local, writer, bxmbase, signer, started, acceptTxs,
                   pending, mining, coinbase, calls, cleanStops, stopped>>
    /\ UNCHANGED svcVars

(* Faulty variant: the read lock is never released.                        *)
StartMiningNoRUnlock(c) ==
    /\ pc[c] = "sm_runlock"
    /\ LET eb == IF arg[c] # Zero THEN arg[c] ELSE FirstAccount
       IN /\ arg' = [arg EXCEPT ![c] = eb]
          /\ Goto(c, IF eb = Zero THEN "idle" ELSE "sm_engine")
    /\ UNCHANGED <<local, writer, readers, bxmbase, signer, started, acceptTxs,
                   pending, mining, coinbase, calls, cleanStops, stopped>>
    /\ UNCHANGED svcVars

StartMiningRUnlock(c) ==
    /\ pc[c] = "sm_runlock"
    /\ readers' = readers \ {c}
    /\ LET eb == IF arg[c] # Zero THEN arg[c] ELSE FirstAccount
       IN /\ arg' = [arg EXCEPT ![c] = eb]
          /\ Goto(c, IF eb = Zero THEN "idle" ELSE "sm_engine")
    /\ UNCHANGED <<local, writer, bxmbase, signer, started, acceptTxs,
                   pending, mining, coinbase, calls, cleanStops, stopped>>
    /\ UNCHANGED svcVars

(***************************************************************************)
(* Faulty variant: the acceptTxs flag is incremented instead of stored.    *)
StartMiningEngineAddTxs(c) ==
    /\ pc[c] = "sm_engine"
    /\ Goto(c, "idle")
    /\ \/ /\ Engine = "clique" /\ arg[c] \notin WalletAccounts
          /\ UNCHANGED <<signer, started, acceptTxs, pending>>
       \/ /\ Engine = "clique" => arg[c] \in WalletAccounts
          /\ signer' = IF Engine = "clique" THEN arg[c] ELSE signer
          /\ started' = (started \/ Engine = "istanbul")
          /\ acceptTxs' = IF local[c] THEN acceptTxs + 1 ELSE acceptTxs
          /\ pending' = pending \cup {arg[c]}
    /\ UNCHANGED <<arg, local, writer, readers, bxmbase, mining, coinbase,
                   calls, cleanStops, stopped>>
    /\ UNCHANGED svcVars

(* Clique needs the bxmbase account in a local wallet and authorizes it as *)
(* signer; Istanbul is started.  A local start opens transaction           *)
(* acceptance; then the miner is started from a new goroutine and the call *)
(* returns.                                                                *)
(***************************************************************************)
StartMiningEngine(c) ==
    /\ pc[c] = "sm_engine"
    /\ Goto(c, "idle")
    /\ \/ /\ Engine = "clique" /\ arg[c] \notin WalletAccounts
          /\ UNCHANGED <<signer, started, acceptTxs, pending>>
       \/ /\ Engine = "clique" => arg[c] \in WalletAccounts
          /\ signer' = IF Engine = "clique" THEN arg[c] ELSE signer
          /\ started' = (started \/ Engine = "istanbul")
          /\ acceptTxs' = IF local[c] THEN 1 ELSE acceptTxs
          /\ pending' = pending \cup {arg[c]}
    /\ UNCHANGED <<arg, local, writer, readers, bxmbase, mining, coinbase,
                   calls, cleanStops, stopped>>
    /\ UNCHANGED svcVars

(* The spawned goroutine runs miner.Start(eb).                             *)
MinerStart(eb) ==
    /\ eb \in pending
    /\ pending' = pending \ {eb}
    /\ mining' = TRUE /\ coinbase' = eb
    /\ UNCHANGED <<pc, arg, local, writer, readers, bxmbase, signer, started,
                   acceptTxs, calls, cleanStops, stopped>>
    /\ UNCHANGED svcVars

(* StopMining: miner.Stop(), then Stop of an Istanbul engine.              *)
StopMiningMiner(c) ==
    /\ pc[c] = "st_miner"
    /\ mining' = FALSE
    /\ Goto(c, "st_engine")
    /\ UNCHANGED <<arg, local, writer, readers, bxmbase, signer, started,
                   acceptTxs, pending, coinbase, calls, cleanStops, stopped>>
    /\ UNCHANGED svcVars

StopMiningEngine(c) ==
    /\ pc[c] = "st_engine"
    /\ started' = (started /\ Engine # "istanbul")
    /\ stopped' = (stopped \/ c \in cleanStops)
    /\ cleanStops' = cleanStops \ {c}
    /\ Goto(c, "idle")
    /\ UNCHANGED <<arg, local, writer, readers, bxmbase, signer, acceptTxs,
                   pending, mining, coinbase, calls>>
    /\ UNCHANGED svcVars

(***************************************************************************)
(* The service life cycle (node.Service).  Start figures out the full-node *)
(* peer limit from the server's: with a light server, the LES peers are    *)
(* taken from it, but the full-node protocol keeps at least half.          *)
(***************************************************************************)
MaxPeersFor(maxPeers, lightServ, lightPeers) ==
    LET reduced == maxPeers - lightPeers IN
    CASE lightServ = 0            -> maxPeers
      [] reduced < maxPeers \div 2 -> maxPeers \div 2
      [] OTHER                    -> reduced

(* Start: bloom handlers and the net RPC service (no state here), then     *)
(* protocolManager.Start(maxPeers) and the light server.                   *)
ServiceStart ==
    /\ svc = "new"
    /\ svc' = "running"
    /\ pmMaxPeers' = MaxPeersFor(SrvMaxPeers, LightServ, LightPeers)
    /\ UNCHANGED <<pc, arg, local, writer, readers, bxmbase, signer, started,
                   acceptTxs, pending, mining, coinbase, calls, cleanStops, stopped>>

(* Stop: the indexer, chain, protocol manager, light server and pool stop, *)
(* then miner.Stop(), the event mux, and the database is closed.  The      *)
(* Istanbul engine is not stopped, nor is a spawned miner.Start waited     *)
(* for.  Only the miner's state is visible here: the rest is one step.     *)
ServiceStop ==
    /\ svc = "running"
    /\ svc' = "stopped"
    /\ mining' = FALSE
    /\ stopped' = (stopped \/ ~StartRunning)
    /\ UNCHANGED <<pc, arg, local, writer, readers, bxmbase, signer, started,
                   acceptTxs, pending, coinbase, calls, cleanStops, pmMaxPeers>>

Next ==
    \/ ServiceStart \/ ServiceStop
    \/ \E c \in Callers, a \in Addrs : CallSetBxmbase(c, a)
    \/ \E c \in Callers, l \in BOOLEAN : CallStartMining(c, l)
    \/ \E c \in Callers : CallStopMining(c)
    \/ \E c \in Callers :
          \/ SetBxmbaseLock(c) \/ SetBxmbaseSet(c) \/ SetBxmbaseMiner(c)
          \/ StartMiningRLock(c) \/ StartMiningRUnlock(c) \/ StartMiningEngine(c)
          \/ StopMiningMiner(c) \/ StopMiningEngine(c)
    \/ \E eb \in Addrs : MinerStart(eb)

(***************************************************************************)
(* Every step of a call, and the spawned goroutine, runs once it can.  The *)
(* lock is acquired strongly fairly: sync.RWMutex hands the lock to a      *)
(* blocked writer before new readers, and a blocked reader gets it when    *)
(* the writer unlocks, so a waiter is not starved by others coming and     *)
(* going.  Starting new calls is not fair: callers may stop calling.       *)
(***************************************************************************)
Fairness ==
    /\ \A c \in Callers :
          /\ SF_vars(SetBxmbaseLock(c)) /\ SF_vars(StartMiningRLock(c))
          /\ WF_vars(SetBxmbaseSet(c)) /\ WF_vars(SetBxmbaseMiner(c))
          /\ WF_vars(StartMiningRUnlock(c)) /\ WF_vars(StartMiningEngine(c))
          /\ WF_vars(StopMiningMiner(c)) /\ WF_vars(StopMiningEngine(c))
    /\ \A eb \in Addrs : WF_vars(MinerStart(eb))

Spec == Init /\ [][Next]_vars /\ Fairness

-----------------------------------------------------------------------------
TypeOK ==
    /\ pc \in [Callers -> PCs]
    /\ arg \in [Callers -> Addr] /\ local \in [Callers -> BOOLEAN]
    /\ writer \in Callers \cup {NoCaller} /\ readers \subseteq Callers
    /\ bxmbase \in Addr /\ signer \in Addr /\ coinbase \in Addr
    /\ started \in BOOLEAN /\ mining \in BOOLEAN
    /\ cleanStops \subseteq Callers /\ stopped \in BOOLEAN
    /\ acceptTxs \in {0, 1} /\ pending \subseteq Addrs
    /\ calls \in 0..MaxCalls
    /\ svc \in {"new", "running", "stopped"} /\ pmMaxPeers \in Nat

(***************************************************************************)
(* Every admin call returns: SetBxmbase, StartMining and StopMining each   *)
(* get the lock they wait for and finish, however the callers interleave.  *)
(* A call that returns holding BitMED.lock blocks every later Bxmbase()    *)
(* and SetBxmbase for good.                                                *)
(***************************************************************************)
CallsReturn ==
    \A c \in Callers : pc[c] # "idle" ~> pc[c] = "idle"

(***************************************************************************)
(* Once a StopMining that began after every StartMining had returned (or  *)
(* the service Stop, run with no StartMining under way) has itself        *)
(* returned, and until the next StartMining begins, the miner is    *)
(* not mining: the stop is not undone by the miner start that an earlier,  *)
(* finished StartMining left in flight (spec: stopping the engine cancels  *)
(* in-flight work before returning).                                       *)
(***************************************************************************)
StopIsFinal ==
    stopped => ~mining

(***************************************************************************)
(* When no admin call and no spawned miner.Start is under way, a miner     *)
(* that has been given an address mines for the address Bxmbase() returns *)
(* (bxmbase, or the first wallet account when it is unset): SetBxmbase    *)
(* passes the address to the miner after unlocking, and StartMining        *)
(* starts the miner with the address it read before.                       *)
(***************************************************************************)
Quiescent == (\A c \in Callers : pc[c] = "idle") /\ pending = {}

CoinbaseIsBxmbase ==
    Quiescent /\ coinbase # Zero =>
        coinbase = IF bxmbase # Zero THEN bxmbase ELSE FirstAccount
====
