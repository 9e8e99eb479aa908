-------------------------- MODULE InferenceManager --------------------------
(***************************************************************************)
(* The inference manager of one node (inference/manager.py): which backend *)
(* object serves a model name, the lock or semaphore that admits requests  *)
(* to it, the queue depth it advertises, and loads, unloads and evictions  *)
(* (memory_watch.py) that change all of these while requests wait and run. *)
(*                                                                         *)
(* Everything is a coroutine of one event loop, except a forward pass: a   *)
(* llama.cpp or mlx generation runs in a thread of its own and an mlx      *)
(* batch in the backend's worker thread, so a pass goes on when the        *)
(* coroutine that asked for it is cancelled.                               *)
(*                                                                         *)
(* Every load creates a backend object and its lock; both are known by the *)
(* number of the load, 0 standing for none.  Request groups and            *)
(* speculative priority are left out: nothing in the program sets them.    *)
(***************************************************************************)
EXTENDS Integers, FiniteSets

CONSTANTS
    Models,     \* model names
    Serial,     \* those served by llama.cpp, behind a Lock
    Batched,    \* those served by mlx-batched, behind a Semaphore; the others are remote
    Slots,      \* permits of a Semaphore, 32 in the code
    Requests,   \* concurrent requests; bound: in flight at once
    Loaders,    \* coroutines that load models, one at a time each; bound: their number
    Unloaders,  \* coroutines that unload models when asked to; bound: their number
    Lists,      \* those that go through a list of models: the restore, relays that are added
    Poller,     \* the one that polls the relays
    Watcher,    \* the coroutine of the memory-pressure watcher
    MaxLoads,   \* bound: how many loads are ever started
    MaxCancels  \* bound: how often a request's coroutine is cancelled

Local == Serial \cup Batched
Gens  == 1 .. MaxLoads
Silent == Lists \cup {Poller}
Closers == Unloaders \cup {Watcher}

ASSUME KindsAssumption == Models # {} /\ Local \subseteq Models /\ Serial \cap Batched = {}
ASSUME SlotsAssumption == Slots \in Nat \ {0}
ASSUME BoundsAssumption == MaxLoads \in Nat /\ MaxCancels \in Nat
ASSUME CoroutinesAssumption == IsFiniteSet(Requests) /\ Watcher \notin Unloaders
ASSUME ListsAssumption == Lists \subseteq Loaders /\ Poller \in Loaders \ Lists

VARIABLES
    backends,   \* _backends: the registered backend of a name
    locks,      \* _model_locks: the registered lock of a name
    info,       \* the names in _model_info
    depth,      \* _queue_depth
    offered,    \* the names in the node's capabilities, which its peers are told
    unsaid,     \* what a list or the poll has loaded and not put there
    tracked,    \* the names in _load_status
    saved,      \* the persistent config of a name: "none", "enabled", "disabled"
    owner,      \* the name a backend object was created for
    permits,    \* free permits of a backend's lock
    worker,     \* a backend object: "new", "up", "stopping" or "gone"
    req,        \* where the coroutine of a request is
    passes,     \* the backend that computes for a request, in a thread or remotely
    loader,     \* the backend object a load is filling, 0 when idle
    closing,    \* what an unload is closing, and what an eviction does next
    loads,      \* how many loads were started
    cancels     \* how many coroutines were cancelled

registry == <<backends, locks, info, depth, saved, offered, unsaid>>
objects  == <<owner, permits, worker>>
vars     == <<registry, objects, req, passes, loader, closing, tracked, loads, cancels>>

NoRequest == [pc |-> "idle", model |-> CHOOSE m \in Models : TRUE, gen |-> 0, lock |-> 0]
NoClose   == [gen |-> 0, todo |-> {}]

TypeOK ==
    /\ backends \in [Models -> {0} \cup Gens]
    /\ locks    \in [Models -> {0} \cup Gens]
    /\ info \subseteq Models
    /\ offered \subseteq Models
    /\ unsaid   \in [Loaders -> SUBSET Gens]
    /\ tracked \subseteq Models
    /\ depth    \in [Models -> Nat]
    /\ saved    \in [Models -> {"none", "enabled", "disabled"}]
    /\ owner    \in [Gens -> Models]
    /\ permits  \in [Gens -> Nat]
    /\ worker   \in [Gens -> {"new", "up", "stopping", "gone"}]
    /\ req      \in [Requests -> [pc : {"idle", "wait", "run"}, model : Models,
                                  gen : {0} \cup Gens, lock : {0} \cup Gens]]
    /\ passes   \in [Requests -> {0} \cup Gens]
    /\ loader   \in [Loaders -> {0} \cup Gens]
    /\ closing  \in [Closers -> [gen : {0} \cup Gens, todo : SUBSET Models]]
    /\ loads    \in 0 .. MaxLoads
    /\ cancels  \in 0 .. MaxCancels

Init ==
    /\ backends = [m \in Models |-> 0]
    /\ locks    = [m \in Models |-> 0]
    /\ info     = {}
    /\ offered  = {}
    /\ unsaid   = [l \in Loaders |-> {}]
    /\ tracked  = {}
    /\ depth    = [m \in Models |-> 0]
    /\ saved    = [m \in Models |-> "none"]
    /\ owner    = [g \in Gens |-> NoRequest.model]
    /\ permits  = [g \in Gens |-> 0]
    /\ worker   = [g \in Gens |-> "new"]
    /\ req      = [r \in Requests |-> NoRequest]
    /\ passes   = [r \in Requests |-> 0]
    /\ loader   = [l \in Loaders |-> 0]
    /\ closing  = [u \in Closers |-> NoClose]
    /\ loads    = 0
    /\ cancels  = 0

\* save_model_configs marks every model of _model_info as enabled.
Saved(names, configs) ==
    [m \in Models |-> IF m \in names THEN "enabled" ELSE configs[m]]

-----------------------------------------------------------------------------
(* load_model.                                                             *)

\* What is loaded becomes the node's capabilities, and is announced.
Offer(names) == offered' = names

\* Not loaded: its progress is tracked, a backend object is created, and awaited
\* while it loads.  A coroutine that is unloading does not load; the poll loads
\* what relays serve.
LoadBegin(l, m) ==
    /\ loader[l] = 0
    /\ l \in Unloaders => closing[l].gen = 0
    /\ l = Poller => m \notin Local
    /\ loads < MaxLoads
    /\ backends[m] = 0
    /\ loads'  = loads + 1
    /\ loader' = [loader EXCEPT ![l] = loads + 1]
    /\ owner'  = [owner EXCEPT ![loads + 1] = m]
    /\ tracked' = tracked \cup {m}
    /\ UNCHANGED <<registry, permits, worker, req, passes, closing, cancels>>

\* Mutant: every backend gets a Semaphore.
CapacityAlike(m) == Slots

\* asyncio.Lock for a serial backend, asyncio.Semaphore for the others.
Capacity(m) == IF m \in Serial THEN 1 ELSE Slots

\* The backend and its lock replace whatever is registered under the name.  A
\* request to load goes on to offer it, a list and the poll to their next model.
LoadDone(l) ==
    LET g == loader[l]
        m == owner[g]
    IN  /\ g # 0
        /\ m \in tracked
        /\ backends' = [backends EXCEPT ![m] = g]
        /\ locks'    = [locks EXCEPT ![m] = g]
        /\ depth'    = [depth EXCEPT ![m] = 0]
        /\ info'     = info \cup {m}
        /\ saved'    = Saved(info', saved)
        /\ IF l \in Silent THEN unsaid' = [unsaid EXCEPT ![l] = @ \cup {g}] /\ UNCHANGED offered
                           ELSE Offer(info') /\ UNCHANGED unsaid
        /\ permits'  = [permits EXCEPT ![g] = Capacity(m)]
        /\ worker'   = [worker EXCEPT ![g] = "up"]
        /\ loader'   = [loader EXCEPT ![l] = 0]
        /\ UNCHANGED <<owner, req, passes, closing, tracked, loads, cancels>>

\* A list has come to its end, and its coroutine offers what is loaded; the poll
\* never does.
ListEnd(l) ==
    /\ loader[l] = 0
    /\ l \in Unloaders => closing[l].gen = 0
    /\ unsaid[l] # {} \/ offered # info
    /\ Offer(info)
    /\ unsaid' = [unsaid EXCEPT ![l] = {}]
    /\ UNCHANGED <<backends, locks, info, depth, saved, objects, req, passes, loader, closing, tracked, loads, cancels>>

\* The file is missing, memory is short or the remote does not answer.
LoadFail(l) ==
    /\ loader[l] # 0
    /\ loader' = [loader EXCEPT ![l] = 0]
    /\ UNCHANGED <<registry, objects, req, passes, closing, tracked, loads, cancels>>

\* Its progress is no longer tracked: the load raises when it notes that it is
\* done, and the backend it has filled is registered nowhere.
LoadLost(l) ==
    LET g == loader[l]
    IN  /\ g # 0
        /\ owner[g] \notin tracked
        /\ worker' = [worker EXCEPT ![g] = "up"]
        /\ loader' = [loader EXCEPT ![l] = 0]
        /\ UNCHANGED <<registry, owner, permits, req, passes, closing, tracked, loads, cancels>>

\* A request dismisses what is known of a name's load.  It may do so in any state
\* of it; that of a load that has ended is read by nothing, and left out.
ClearStatus(m) ==
    /\ m \in tracked
    /\ \E l \in Loaders : loader[l] # 0 /\ owner[loader[l]] = m
    /\ tracked' = tracked \ {m}
    /\ UNCHANGED <<registry, objects, req, passes, loader, closing, loads, cancels>>

-----------------------------------------------------------------------------
(* unload_model, by a request or by the memory-pressure watcher.           *)

\* Mutant: the advertised entry is not popped.
ForgetLock(names, disable) ==
    /\ UNCHANGED <<info, saved>>
    /\ locks' = [m \in Models |-> IF m \in names THEN 0 ELSE locks[m]]
    /\ depth' = [m \in Models |-> IF m \in names THEN 0 ELSE depth[m]]

\* What follows the await of backend.unload_model: the names disappear from
\* the registry.  Only an unload on request disables the saved config.
Forget(names, disable) ==
    /\ info'  = info \ names
    /\ locks' = [m \in Models |-> IF m \in names THEN 0 ELSE locks[m]]
    /\ depth' = [m \in Models |-> IF m \in names THEN 0 ELSE depth[m]]
    /\ saved' = Saved(info', [m \in Models |->
                    IF m \in names /\ disable /\ saved[m] # "none" THEN "disabled"
                                                                   ELSE saved[m]])

\* The unload of a serial backend does not suspend.  An mlx batch waits for its
\* worker thread and a remote for its connections, but a remote refuses new
\* requests at once.
Closed(names) == {backends[m] : m \in names \ Batched} \ {0}
Stopped(names) == {backends[m] : m \in names \cap Batched} \ {0}

\* u has closed the backends of `closed`, goes on to unload those of `now`
\* without suspending, and suspends in the unload of the last, if any.
UnloadStep(u, closed, now, last, todo, disable) ==
    LET done == {owner[g] : g \in closed} \cup {m \in now : backends[m] # 0}
        dead == closed \cup Closed(now \cup last)
    IN  /\ Forget(done, disable)
        /\ backends' = [m \in Models |-> IF m \in now \cup last THEN 0 ELSE backends[m]]
        /\ worker'   = [g \in Gens |-> IF g \in dead THEN "gone"
                                       ELSE IF g \in Stopped(last) THEN "stopping"
                                       ELSE worker[g]]
        /\ passes'   = [r \in Requests |->
                           IF passes[r] \in closed /\ owner[passes[r]] \in Batched
                           THEN 0 ELSE passes[r]]
        /\ closing'  = [closing EXCEPT ![u] =
                           [gen |-> IF last = {} THEN 0
                                    ELSE backends[CHOOSE m \in last : TRUE],
                            todo |-> todo]]
        /\ UNCHANGED <<unsaid, owner, permits, req, loader, tracked, loads, cancels>>

\* A request to unload offers what is left; the refresh or the poll of a relay
\* that does not answer withdraws its models one by one, and does not.
Unloaded(u) == IF u \in Silent THEN UNCHANGED offered ELSE Offer(info')

UnloadBegin(u, m) ==
    /\ closing[u].gen = 0
    /\ backends[m] # 0
    /\ u \in Loaders => loader[u] = 0
    /\ u \in Silent => m \notin Local
    /\ IF m \in Serial THEN UnloadStep(u, {}, {m}, {}, {}, TRUE) /\ Unloaded(u)
                       ELSE UnloadStep(u, {}, {}, {m}, {}, TRUE) /\ UNCHANGED offered

\* Nothing to unload: the request only offers what is loaded.
UnloadNone(m) ==
    /\ backends[m] = 0
    /\ offered # info
    /\ Offer(info)
    /\ UNCHANGED <<backends, locks, info, depth, saved, unsaid, objects, req, passes, loader, closing, tracked, loads, cancels>>

UnloadEnd(u) ==
    /\ closing[u].gen # 0
    /\ UnloadStep(u, {closing[u].gen}, {}, {}, {}, TRUE)
    /\ Unloaded(u)

\* The models an eviction may choose: local, no queued request, lock free.  How
\* long ago they were used is not modelled: any of them may be idle enough.
Idle == {m \in info \cap Local :
            /\ depth[m] = 0
            /\ m \in Serial /\ locks[m] # 0 => permits[locks[m]] > 0}

\* The candidates are unloaded one after the other, up to the first that
\* suspends.  The watcher leaves the capabilities as they are.
EvictSome(closed, todo) ==
    /\ UNCHANGED offered
    /\ \E now \in SUBSET (todo \cap Serial),
          last \in {{}} \cup {{m} : m \in {x \in todo \cap Batched : backends[x] # 0}} :
        /\ last = {} => \A m \in todo \ now : backends[m] = 0
        /\ UnloadStep(Watcher, closed, now, last, IF last = {} THEN {} ELSE todo \ (now \cup last), FALSE)

\* MemoryPressureWatcher.check_once at critical pressure: the candidates are
\* chosen once.
Evict ==
    /\ closing[Watcher].gen = 0
    /\ \E todo \in SUBSET Idle \ {{}} : EvictSome({}, todo)

EvictNext ==
    /\ closing[Watcher].gen # 0
    /\ EvictSome({closing[Watcher].gen}, closing[Watcher].todo)

-----------------------------------------------------------------------------
(* generate, generate_stream and embed.                                    *)

\* The backend is looked up before the lock is awaited.  Without a lock the
\* request goes on ("shouldn't happen").
RequestBegin(r, m) ==
    /\ req[r].pc = "idle"
    /\ passes[r] = 0
    /\ backends[m] # 0
    /\ req' = [req EXCEPT ![r] = [pc |-> IF locks[m] = 0 THEN "run" ELSE "wait",
                                  model |-> m, gen |-> backends[m], lock |-> locks[m]]]
    /\ depth' = IF locks[m] = 0 THEN depth ELSE [depth EXCEPT ![m] = @ + 1]
    /\ passes' = IF locks[m] = 0 THEN [passes EXCEPT ![r] = backends[m]] ELSE passes
    /\ UNCHANGED <<backends, locks, info, saved, offered, unsaid, objects, loader, closing, tracked, loads, cancels>>

\* _release_model looks the lock up by name.  Lock.release raises when it is
\* not held, which leaves the depth as it was; Semaphore.release always adds.
Raises(m, free) == m \in Serial /\ locks[m] # 0 /\ free[locks[m]] = 1

\* Mutant: the depth is only counted up.
DecNever(m) == depth

Dec(m) == IF depth[m] > 0 THEN [depth EXCEPT ![m] = @ - 1] ELSE depth

Release(m, free) ==
    /\ permits' = IF locks[m] = 0 \/ Raises(m, free) THEN free
                  ELSE [free EXCEPT ![locks[m]] = @ + 1]
    /\ depth' = IF Raises(m, free) THEN depth ELSE Dec(m)

RequestUnchanged ==
    UNCHANGED <<backends, locks, info, saved, offered, unsaid, owner, worker, loader, closing, tracked, loads>>

\* The lock is acquired.  A backend that is gone raises at once, and the
\* request releases; otherwise its forward pass starts.
RequestAcquire(r) ==
    LET q == req[r]
        free == [permits EXCEPT ![q.lock] = @ - 1]
    IN  /\ q.pc = "wait"
        /\ permits[q.lock] > 0
        /\ IF worker[q.gen] = "gone"
           THEN /\ Release(q.model, free)
                /\ req' = [req EXCEPT ![r] = NoRequest]
                /\ UNCHANGED passes
           ELSE /\ permits' = free
                /\ req' = [req EXCEPT ![r].pc = "run"]
                /\ passes' = [passes EXCEPT ![r] = q.gen]
                /\ UNCHANGED depth
        /\ UNCHANGED cancels
        /\ RequestUnchanged

\* The queue timeout.
RequestTimeout(r) ==
    /\ req[r].pc = "wait"
    /\ req' = [req EXCEPT ![r] = NoRequest]
    /\ depth' = Dec(req[r].model)
    /\ UNCHANGED <<permits, passes, cancels>>
    /\ RequestUnchanged

\* The answer, or the backend's exception.
RequestEnd(r) ==
    /\ req[r].pc = "run"
    /\ passes[r] # 0
    /\ passes' = [passes EXCEPT ![r] = 0]
    /\ req' = [req EXCEPT ![r] = NoRequest]
    /\ Release(req[r].model, permits)
    /\ UNCHANGED cancels
    /\ RequestUnchanged

\* The client goes away, or its task is cancelled.  While it waits, only a
\* timeout is caught.  While it runs, the lock is released, and the thread of a
\* local backend computes on.
RequestCancel(r) ==
    /\ cancels < MaxCancels
    /\ req[r].pc # "idle"
    /\ cancels' = cancels + 1
    /\ req' = [req EXCEPT ![r] = NoRequest]
    /\ \/ req[r].pc = "wait" /\ UNCHANGED <<permits, depth>>
       \/ req[r].pc = "run" /\ Release(req[r].model, permits)
    /\ passes' = IF req[r].model \in Local THEN passes ELSE [passes EXCEPT ![r] = 0]
    /\ RequestUnchanged

\* A pass nobody waits for any more comes to its end.
PassEnd(r) ==
    /\ req[r].pc = "idle"
    /\ passes[r] # 0
    /\ passes' = [passes EXCEPT ![r] = 0]
    /\ UNCHANGED <<req, permits, depth, cancels>>
    /\ RequestUnchanged

-----------------------------------------------------------------------------

Next ==
    \/ \E l \in Loaders : (\E m \in Models : LoadBegin(l, m)) \/ LoadDone(l) \/ LoadFail(l) \/ LoadLost(l)
    \/ \E l \in Lists : ListEnd(l)
    \/ \E m \in Models : ClearStatus(m) \/ UnloadNone(m)
    \/ \E u \in Unloaders : (\E m \in Models : UnloadBegin(u, m)) \/ UnloadEnd(u)
    \/ Evict \/ EvictNext
    \/ \E r \in Requests :
          \/ \E m \in Models : RequestBegin(r, m)
          \/ RequestAcquire(r) \/ RequestTimeout(r) \/ RequestEnd(r)
          \/ RequestCancel(r) \/ PassEnd(r)

Spec == Init /\ [][Next]_vars

-----------------------------------------------------------------------------
(* Properties.                                                             *)

\* The name was loaded more than once, or is being loaded again.
Reloaded(m) == Cardinality({g \in 1 .. loads : owner[g] = m}) > 1

\* The passes in flight on one backend object.
Passes(g) == {r \in Requests : passes[r] = g}

\* InferenceManager: "Per-model locks serialize access to llama.cpp backends":
\* however requests queue, time out and end, and even while the model is
\* unloaded under them, a serial backend computes one thing at a time, as long
\* as no coroutine is cancelled and the name is loaded once.
OnePass ==
    cancels = 0 =>
        \A g \in Gens : owner[g] \in Serial /\ ~Reloaded(owner[g])
                          => Cardinality(Passes(g)) <= 1

\* The permits of a registered lock are free or held by a running request:
\* timeouts, failures and cancellations neither lose one nor return one twice.
PermitsConserved ==
    \A m \in Models : locks[m] # 0 /\ ~Reloaded(m) =>
        permits[locks[m]] + Cardinality({r \in Requests : req[r].pc = "run" /\ req[r].model = m})
            = Capacity(m)

\* The queue depth the node advertises, and evicts by, is the number of
\* requests that wait or run, unless a coroutine was cancelled while it waited.
DepthCounts ==
    cancels = 0 =>
        \A m \in Models : locks[m] # 0 /\ ~Reloaded(m) =>
            depth[m] = Cardinality({r \in Requests : req[r].pc # "idle" /\ req[r].model = m})

\* What a lock and a queue depth count is what requests hold and wait for.
CountsHold == PermitsConserved /\ DepthCounts

\* A name that requests are resolved to has its lock, is advertised, and comes
\* back at the next start.  It is offered to peers, unless the poll of the relays
\* has loaded it, or a list of models that has not come to its end.  A name that is
\* advertised is served, or closing.
Registered ==
    \A m \in Models : ~Reloaded(m) =>
        /\ backends[m] # 0 => /\ locks[m] = backends[m] /\ m \in info /\ saved[m] = "enabled"
                              /\ m \in offered \/ \E l \in Silent : backends[m] \in unsaid[l]
        /\ m \in info => \/ backends[m] # 0
                         \/ \E u \in Closers : closing[u].gen # 0 /\ owner[closing[u].gen] = m

-----------------------------------------------------------------------------
(* What the repository says of the program and the code does not keep.     *)

\* manager.py, InferenceManager: "Per-model locks serialize access to
\* llama.cpp backends (NOT thread-safe)".
OneForwardPass ==
    \A g \in Gens : owner[g] \in Serial => Cardinality(Passes(g)) <= 1

\* manager.py, evict_idle_models: "Evicts local [...] models with no queued
\* requests": what an eviction takes out of the registry is not in use.
EvictsIdle ==
    [][closing[Watcher] # closing'[Watcher] =>
          \A m \in Models : backends[m] # 0 /\ backends'[m] = 0 => depth[m] = 0]_vars

\* api/node.py puts what is loaded into the capabilities whenever that changes:
\* what peers are offered is loaded.  An eviction does not, nor does the poll.
OfferedIsLoaded == \A m \in offered : ~Reloaded(m) => m \in info

\* api/node.py, add_relay: "Announce new models to the network": what is loaded is
\* offered, once the coroutine that loaded it does nothing any more.  What the poll
\* has loaded is not.
LoadedIsOffered ==
    (\A l \in Lists : unsaid[l] = {}) =>
        \A m \in Models : backends[m] # 0 /\ ~Reloaded(m) => m \in offered

\* clear_load_status: "dismiss failed/stale entries": a backend that has loaded
\* is registered, or closed.
LoadedIsKept ==
    \A g \in Gens : worker[g] = "up" /\ ~Reloaded(owner[g]) => backends[owner[g]] = g

\* mlx_batched.py unblocks the consumer of a solo job on shutdown: a request
\* that runs has something computing for it.
NoneStranded == \A r \in Requests : req[r].pc = "run" => passes[r] # 0
=============================================================================
