----------------------------- MODULE LocalStore -----------------------------
(***************************************************************************)
(* swarm/storage/localstore.go: a chunk store made of an in-memory store   *)
(* over a persistent DbStore.  Put stores the chunk in memory and writes   *)
(* it to the DbStore from a goroutine of its own; Get looks in memory,     *)
(* then in the DbStore, and caches what it found there in memory.          *)
(*                                                                         *)
(* The two stores are not in this tree; they are abstracted to the sets   *)
(* of keys they hold.  The memory store may evict a chunk at any time      *)
(* (it has a capacity), except a chunk whose dbStored channel is still     *)
(* open: Put creates that channel so that eviction waits for the chunk to  *)
(* be persisted, and the DbStore closes it once the chunk is written.     *)
(* Chunks are content-addressed, so each key is Put at most once.          *)
(***************************************************************************)
EXTENDS Naturals, FiniteSets

CONSTANTS
    Procs,      \* goroutines calling Put and Get
    Keys,       \* chunk keys
    MaxGets,    \* Get calls explored
    NoKey       \* no key yet

ASSUME NoKey \notin Keys

VARIABLES
    mem,        \* keys held by memStore
    db,         \* keys held by DbStore
    unstored,   \* keys whose dbStored channel is still open
    writing,    \* keys whose `go DbStore.Put` goroutine has not run
    wg,         \* the WaitGroup counter shared by the chunks that carry one
    wgKeys,     \* keys whose chunk carries the WaitGroup (chunk.wg != nil)
    putBegun,   \* keys whose Put has begun
    putDone,    \* keys whose Put has returned
    pc,         \* pc[p]: the next step of caller p
    key,        \* key[p]: the key of p's current or last call
    seen,       \* seen[p]: the keys whose Put had returned when p's Get began
    misses,     \* the Gets that returned an error: [key, seen]
    gets        \* Get calls begun

vars == <<mem, db, unstored, writing, wg, wgKeys, putBegun, putDone,
          pc, key, seen, misses, gets>>

Init ==
    /\ mem = {} /\ db = {} /\ unstored = {} /\ writing = {}
    /\ wg = 0 /\ wgKeys = {} /\ putBegun = {} /\ putDone = {}
    /\ pc = [p \in Procs |-> "idle"]
    /\ key = [p \in Procs |-> NoKey]
    /\ seen = [p \in Procs |-> {}]
    /\ misses = {}
    /\ gets = 0

(* A Put that forgets to create chunk.dbStored.                            *)
PutMemNoDbStored(p, k, w) ==
    /\ pc[p] = "idle" /\ k \notin putBegun
    /\ mem' = mem \cup {k}
    /\ putBegun' = putBegun \cup {k}
    /\ wgKeys' = IF w THEN wgKeys \cup {k} ELSE wgKeys
    /\ key' = [key EXCEPT ![p] = k]
    /\ pc' = [pc EXCEPT ![p] = "put_spawn"]
    /\ UNCHANGED <<db, unstored, writing, wg, putDone, seen, misses, gets>>

(* Put, lines 45-46: open chunk.dbStored, then memStore.Put.  `w` says     *)
(* whether the caller attached a WaitGroup to the chunk.                   *)
PutMem(p, k, w) ==
    /\ pc[p] = "idle" /\ k \notin putBegun
    /\ unstored' = unstored \cup {k}
    /\ mem' = mem \cup {k}
    /\ putBegun' = putBegun \cup {k}
    /\ wgKeys' = IF w THEN wgKeys \cup {k} ELSE wgKeys
    /\ key' = [key EXCEPT ![p] = k]
    /\ pc' = [pc EXCEPT ![p] = "put_spawn"]
    /\ UNCHANGED <<db, writing, wg, putDone, seen, misses, gets>>

(* A Put that leaves the WaitGroup alone.                                  *)
PutSpawnNoAdd(p) ==
    /\ pc[p] = "put_spawn"
    /\ writing' = writing \cup {key[p]}
    /\ putDone' = putDone \cup {key[p]}
    /\ pc' = [pc EXCEPT ![p] = "idle"]
    /\ UNCHANGED <<mem, db, unstored, wg, wgKeys, putBegun, key, seen, misses, gets>>

(* Put, lines 47-55: wg.Add(1) if the chunk has a WaitGroup, start the     *)
(* DbStore write in a goroutine, and return.                               *)
PutSpawn(p) ==
    /\ pc[p] = "put_spawn"
    /\ wg' = IF key[p] \in wgKeys THEN wg + 1 ELSE wg
    /\ writing' = writing \cup {key[p]}
    /\ putDone' = putDone \cup {key[p]}
    /\ pc' = [pc EXCEPT ![p] = "idle"]
    /\ UNCHANGED <<mem, db, unstored, wgKeys, putBegun, key, seen, misses, gets>>

(* A goroutine that calls wg.Done() whether or not the chunk has one.      *)
DbPutAlwaysDone(k) ==
    /\ k \in writing
    /\ db' = db \cup {k}
    /\ unstored' = unstored \ {k}
    /\ writing' = writing \ {k}
    /\ wg' = wg - 1
    /\ UNCHANGED <<mem, wgKeys, putBegun, putDone, pc, key, seen, misses, gets>>

(* The goroutine of Put, lines 51-54: DbStore.Put writes the chunk and     *)
(* closes its dbStored channel, then wg.Done() if the chunk has a group.   *)
DbPut(k) ==
    /\ k \in writing
    /\ db' = db \cup {k}
    /\ unstored' = unstored \ {k}
    /\ writing' = writing \ {k}
    /\ wg' = IF k \in wgKeys THEN wg - 1 ELSE wg
    /\ UNCHANGED <<mem, wgKeys, putBegun, putDone, pc, key, seen, misses, gets>>

(* memStore evicts a chunk, which it does only once dbStored is closed.    *)
Evict(k) ==
    /\ k \in mem \ unstored
    /\ mem' = mem \ {k}
    /\ UNCHANGED <<db, unstored, writing, wg, wgKeys, putBegun, putDone,
                   pc, key, seen, misses, gets>>

(* Get, lines 63-66: memStore.Get, returning on a hit.                     *)
GetMem(p, k) ==
    /\ pc[p] = "idle" /\ gets < MaxGets
    /\ gets' = gets + 1
    /\ key' = [key EXCEPT ![p] = k]
    /\ seen' = [seen EXCEPT ![p] = putDone]
    /\ pc' = [pc EXCEPT ![p] = IF k \in mem THEN "idle" ELSE "get_db"]
    /\ UNCHANGED <<misses, mem, db, unstored, writing, wg, wgKeys, putBegun, putDone>>

(* Get, lines 67-70: DbStore.Get, returning its error on a miss.           *)
GetDb(p) ==
    /\ pc[p] = "get_db"
    /\ IF key[p] \in db
          THEN pc' = [pc EXCEPT ![p] = "get_fill"] /\ UNCHANGED misses
          ELSE /\ pc' = [pc EXCEPT ![p] = "idle"]
               /\ misses' = misses \cup {[key |-> key[p], seen |-> seen[p]]}
    /\ UNCHANGED <<mem, db, unstored, writing, wg, wgKeys, putBegun, putDone,
                   key, seen, gets>>

(* Get, lines 71-73: decode the size, cache the chunk in memStore (with no *)
(* dbStored channel), and return it.                                       *)
GetFill(p) ==
    /\ pc[p] = "get_fill"
    /\ mem' = mem \cup {key[p]}
    /\ pc' = [pc EXCEPT ![p] = "idle"]
    /\ UNCHANGED <<misses, db, unstored, writing, wg, wgKeys, putBegun, putDone,
                   key, seen, gets>>

Next ==
    \/ \E p \in Procs, k \in Keys, w \in BOOLEAN : PutMem(p, k, w)
    \/ \E p \in Procs : PutSpawn(p) \/ GetDb(p) \/ GetFill(p)
    \/ \E p \in Procs, k \in Keys : GetMem(p, k)
    \/ \E k \in Keys : DbPut(k) \/ Evict(k)

Spec == Init /\ [][Next]_vars

TypeOK ==
    /\ mem \subseteq Keys /\ db \subseteq Keys /\ unstored \subseteq Keys
    /\ writing \subseteq Keys /\ wgKeys \subseteq Keys
    /\ putDone \subseteq putBegun /\ putBegun \subseteq Keys
    /\ wg \in 0..Cardinality(Keys)
    /\ pc \in [Procs -> {"idle", "put_spawn", "get_db", "get_fill"}]
    /\ misses \subseteq [key : Keys, seen : SUBSET Keys]
    /\ gets \in 0..MaxGets

(* A Get that begins after Put(k) has returned finds k: in memory, or else *)
(* in the DbStore, since memStore keeps a chunk until its background      *)
(* DbStore write has finished.                                             *)
GetFindsStored ==
    \A m \in misses : m.key \notin m.seen

(* When the chunks' WaitGroup counter is zero (wg.Wait returns), every     *)
(* chunk carrying it whose Put has returned is in the DbStore.             *)
WaitMeansStored ==
    wg = 0 => (putDone \cap wgKeys) \subseteq db

====
