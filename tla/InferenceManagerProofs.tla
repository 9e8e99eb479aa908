------------------------ MODULE InferenceManagerProofs ------------------------
(***************************************************************************)
(* Proofs about InferenceManager, for any models, any number of requests,  *)
(* loaders and unloaders, and any bounds on loads and cancellations, and   *)
(* about Sources, where its models come from.                              *)
(***************************************************************************)
EXTENDS InferenceManager, Sources, FiniteSetTheorems, TLAPS

-----------------------------------------------------------------------------
(* The inductive invariant.                                                *)

\* The loads begun so far, each with a backend object of its own.
Begun == 1 .. loads
Once(m) == ~Reloaded(m)

\* A number that stands for a backend object or a lock is that of a load of the name.
RefersTo(g, m) == g \in Begun /\ owner[g] = m
Refs ==
    /\ \A m \in Models : /\ backends[m] # 0 => RefersTo(backends[m], m)
                         /\ locks[m] # 0 => RefersTo(locks[m], m)
                         /\ m \in info => \E g \in Begun : owner[g] = m
    /\ \A l \in Loaders : loader[l] # 0 => loader[l] \in Begun
    /\ \A u \in Closers : closing[u].gen # 0 => closing[u].gen \in Begun
    /\ \A r \in Requests : req[r].pc # "idle" =>
          /\ RefersTo(req[r].gen, req[r].model)
          /\ req[r].lock # 0 => RefersTo(req[r].lock, req[r].model)
          /\ req[r].pc = "wait" => req[r].lock # 0

\* What a load is filling, nobody else knows.
Filling ==
    \A l \in Loaders : loader[l] # 0 =>
        /\ \A k \in Loaders : loader[k] = loader[l] => k = l
        /\ \A m \in Models : backends[m] # loader[l] /\ locks[m] # loader[l]
        /\ \A u \in Closers : closing[u].gen # loader[l]
        /\ \A r \in Requests : req[r].pc # "idle" => req[r].gen # loader[l] /\ req[r].lock # loader[l]

\* What is being closed serves no name any more.
Closing == \A u \in Closers : closing[u].gen # 0 => \A m \in Models : backends[m] # closing[u].gen

\* Requests of a name that compute, and those that also wait.
Running(m) == {r \in Requests : req[r].pc = "run" /\ req[r].model = m}
Busy(m)    == {r \in Requests : req[r].pc # "idle" /\ req[r].model = m}

\* Permits of a name that was loaded once are never more than its lock was made with, and
\* while the lock is registered none is missing.
Accounted ==
    /\ \A g \in Gens \ Begun : permits[g] = 0
    /\ \A g \in Begun : Once(owner[g]) =>
          /\ permits[g] + Cardinality(Running(owner[g])) <= Capacity(owner[g])
          /\ locks[owner[g]] = g => permits[g] + Cardinality(Running(owner[g])) = Capacity(owner[g])

\* Without cancellations a backend computes only for a request that runs on it.
Computing == cancels = 0 => \A r \in Requests : passes[r] # 0 => req[r].pc = "run" /\ req[r].gen = passes[r]

IInv == TypeOK /\ Refs /\ Filling /\ Closing /\ Registered /\ Accounted /\ DepthCounts /\ Computing

-----------------------------------------------------------------------------
(* Counting.                                                               *)

LEMMA DifferInOne ==
  ASSUME NEW A, NEW B, NEW x, IsFiniteSet(A), IsFiniteSet(B), A \ {x} = B \ {x}
  PROVE  /\ Cardinality(A) \in Nat /\ Cardinality(B) \in Nat
         /\ Cardinality(B) = Cardinality(A) + (IF x \in B THEN 1 ELSE 0)
                                            - (IF x \in A THEN 1 ELSE 0)
<1>1. Cardinality(A) \in Nat /\ Cardinality(B) \in Nat
  BY FS_CardinalityType
<1>2. Cardinality(A \ {x}) = IF x \in A THEN Cardinality(A) - 1 ELSE Cardinality(A)
  BY FS_RemoveElement
<1>3. Cardinality(B \ {x}) = IF x \in B THEN Cardinality(B) - 1 ELSE Cardinality(B)
  BY FS_RemoveElement
<1>4. QED
  BY <1>1, <1>2, <1>3

\* Two loads of one name make it loaded more than once.
LEMMA TwoAreMore ==
  ASSUME NEW n \in Nat, NEW f, NEW m, NEW g \in 1 .. n, NEW h \in 1 .. n,
         f[g] = m, f[h] = m, g # h
  PROVE  Cardinality({k \in 1 .. n : f[k] = m}) > 1
<1> DEFINE S == {k \in 1 .. n : f[k] = m}
<1>1. IsFiniteSet(S)
  <2>1. IsFiniteSet(1 .. n)
    BY FS_Interval
  <2>2. S \subseteq 1 .. n
    OBVIOUS
  <2>3. QED
    BY <2>1, <2>2, FS_Subset
<1>2. IsFiniteSet({g}) /\ Cardinality({g}) = 1
  BY FS_Singleton
<1>3. IsFiniteSet({g} \cup {h}) /\ Cardinality({g} \cup {h}) = 2
  BY <1>2, FS_AddElement
<1>4. {g} \cup {h} \subseteq S
  OBVIOUS
<1>5. Cardinality({g} \cup {h}) <= Cardinality(S) /\ Cardinality(S) \in Nat
  BY <1>1, <1>4, FS_Subset, FS_CardinalityType
<1>6. QED
  BY <1>3, <1>5

\* A name loaded once has one backend object.
LEMMA OnceIsOne ==
  ASSUME TypeOK, NEW m, Once(m), NEW g, NEW h, RefersTo(g, m), RefersTo(h, m)
  PROVE  g = h
<1>1. loads \in Nat /\ g \in 1 .. loads /\ h \in 1 .. loads /\ owner[g] = m /\ owner[h] = m
  BY BoundsAssumption DEF TypeOK, RefersTo, Begun
<1>2. g # h => Cardinality({k \in 1 .. loads : owner[k] = m}) > 1
  BY <1>1, TwoAreMore
<1>3. QED
  BY <1>2 DEF Once, Reloaded

LEMMA Counts ==
  ASSUME NEW m
  PROVE  /\ IsFiniteSet(Running(m)) /\ Cardinality(Running(m)) \in Nat
         /\ IsFiniteSet(Busy(m)) /\ Cardinality(Busy(m)) \in Nat
<1>1. Running(m) \subseteq Requests /\ Busy(m) \subseteq Requests
  BY DEF Running, Busy
<1>2. QED
  BY <1>1, CoroutinesAssumption, FS_Subset, FS_CardinalityType

\* A step of one request changes the counts of a name by what that request does.
LEMMA CountChange ==
  ASSUME NEW m, NEW r \in Requests, \A q \in Requests \ {r} : req'[q] = req[q]
  PROVE  /\ Cardinality(Running(m)') = Cardinality(Running(m))
                + (IF r \in Running(m)' THEN 1 ELSE 0) - (IF r \in Running(m) THEN 1 ELSE 0)
         /\ Cardinality(Busy(m)') = Cardinality(Busy(m))
                + (IF r \in Busy(m)' THEN 1 ELSE 0) - (IF r \in Busy(m) THEN 1 ELSE 0)
         /\ Cardinality(Running(m)') \in Nat /\ Cardinality(Busy(m)') \in Nat
<1>1. Running(m)' \subseteq Requests /\ Busy(m)' \subseteq Requests
  BY DEF Running, Busy
<1>2. IsFiniteSet(Running(m)') /\ IsFiniteSet(Busy(m)')
  BY <1>1, CoroutinesAssumption, FS_Subset
<1>3. Running(m) \ {r} = Running(m)' \ {r}
  BY DEF Running
<1>4. Busy(m) \ {r} = Busy(m)' \ {r}
  BY DEF Busy
<1>5. QED
  BY <1>2, <1>3, <1>4, Counts, DifferInOne

-----------------------------------------------------------------------------
(* What the steps do: an unload or an eviction, and a request's release.   *)

Done(closed, now) == {owner[g] : g \in closed} \cup {m \in now : backends[m] # 0}

\* What UnloadBegin, UnloadEnd, Evict and EvictNext have in common.
Unloads(u, closed, now, last) ==
    /\ u \in Closers /\ closed = {closing[u].gen} \ {0} /\ now \subseteq Models
    /\ last \in {{}} \cup {{m} : m \in {x \in Models : backends[x] # 0}}
    /\ \E left \in SUBSET Models, disable \in BOOLEAN : UnloadStep(u, closed, now, last, left, disable)
    /\ offered' = offered \/ offered' = info'
    /\ unsaid' = unsaid

Unloading == \E u \in Closers, closed \in SUBSET Gens, now, last \in SUBSET Models :
                 Unloads(u, closed, now, last)

LEMMA RequestedUnloads ==
  ASSUME TypeOK, NEW u \in Unloaders, (\E m \in Models : UnloadBegin(u, m)) \/ UnloadEnd(u)
  PROVE  Unloading
<1>0. u \in Closers /\ closing[u].gen \in {0} \cup Gens
  BY DEF Closers, TypeOK
<1>1. ASSUME NEW m \in Models, UnloadBegin(u, m), m \in Serial PROVE Unloading
  <2>1. Unloads(u, {}, {m}, {})
    BY <1>0, <1>1 DEF UnloadBegin, UnloadStep, Unloads, Unloaded, Offer
  <2>2. QED
    BY <1>0, <2>1 DEF Unloading
<1>2. ASSUME NEW m \in Models, UnloadBegin(u, m), m \notin Serial PROVE Unloading
  <2>1. Unloads(u, {}, {}, {m})
    BY <1>0, <1>2 DEF UnloadBegin, UnloadStep, Unloads
  <2>2. QED
    BY <1>0, <2>1 DEF Unloading
<1>3. ASSUME UnloadEnd(u) PROVE Unloading
  <2>1. Unloads(u, {closing[u].gen}, {}, {})
    BY <1>0, <1>3 DEF UnloadEnd, UnloadStep, Unloads, Unloaded, Offer
  <2>2. QED
    BY <1>0, <1>3, <2>1 DEF Unloading, UnloadEnd
<1>4. QED
  BY <1>1, <1>2, <1>3

LEMMA WatcherUnloads ==
  ASSUME TypeOK, Evict \/ EvictNext
  PROVE  Unloading
<1>0. Watcher \in Closers /\ closing[Watcher].gen \in {0} \cup Gens /\ closing[Watcher].todo \subseteq Models
  BY DEF Closers, TypeOK
<1>1. ASSUME NEW closed \in SUBSET Gens, closed = {closing[Watcher].gen} \ {0},
             NEW left \in SUBSET Models, EvictSome(closed, left)
      PROVE  Unloading
  <2>1. PICK now \in SUBSET (left \cap Serial),
             last \in {{}} \cup {{m} : m \in {x \in left \cap Batched : backends[x] # 0}} :
          UnloadStep(Watcher, closed, now, last, IF last = {} THEN {} ELSE left \ (now \cup last), FALSE)
    BY <1>1 DEF EvictSome
  <2>2. /\ now \subseteq Models /\ last \subseteq Models
        /\ last \in {{}} \cup {{m} : m \in {x \in Models : backends[x] # 0}}
        /\ (IF last = {} THEN {} ELSE left \ (now \cup last)) \subseteq Models
    OBVIOUS
  <2>3. offered' = offered
    BY <1>1 DEF EvictSome
  <2>4. Unloads(Watcher, closed, now, last)
    BY <1>0, <1>1, <2>1, <2>2, <2>3 DEF Unloads, UnloadStep
  <2>5. QED
    BY <1>0, <2>2, <2>4 DEF Unloading
<1>2. Idle \subseteq Models
  BY DEF Idle, TypeOK
<1>3. CASE Evict
  BY <1>1, <1>2, <1>3 DEF Evict
<1>4. CASE EvictNext
  <2>1. EvictSome({closing[Watcher].gen}, closing[Watcher].todo) /\ closing[Watcher].gen # 0
    BY <1>4 DEF EvictNext
  <2>2. QED
    BY <1>0, <1>1, <2>1
<1>5. QED
  BY <1>3, <1>4

\* What becomes of each variable.
UnloadEffect(u, closed, now, last) ==
    /\ UNCHANGED <<owner, permits, req, loader, tracked, loads, cancels>>
    /\ info' = info \ Done(closed, now)
    /\ locks' = [m \in Models |-> IF m \in Done(closed, now) THEN 0 ELSE locks[m]]
    /\ depth' = [m \in Models |-> IF m \in Done(closed, now) THEN 0 ELSE depth[m]]
    /\ saved' \in [Models -> {"none", "enabled", "disabled"}]
    /\ \A m \in info' : saved'[m] = "enabled"
    /\ backends' = [m \in Models |-> IF m \in now \cup last THEN 0 ELSE backends[m]]
    /\ worker' \in [Gens -> {"new", "up", "stopping", "gone"}]
    /\ passes' \in [Requests -> {0} \cup Gens]
    /\ \A r \in Requests : passes'[r] \in {0, passes[r]}
    /\ closing' \in [Closers -> [gen : {0} \cup Gens, todo : SUBSET Models]]
    /\ \A v \in Closers \ {u} : closing'[v] = closing[v]
    /\ last = {} => closing'[u].gen = 0
    /\ \A m \in Models : last = {m} => closing'[u].gen = backends[m]

LEMMA UnloadFacts ==
  ASSUME TypeOK, NEW u, NEW closed \in SUBSET Gens, NEW now, NEW last, Unloads(u, closed, now, last)
  PROVE  UnloadEffect(u, closed, now, last)
<1>1. PICK left \in SUBSET Models, disable \in BOOLEAN : UnloadStep(u, closed, now, last, left, disable)
  BY DEF Unloads
<1>2. /\ UNCHANGED <<owner, permits, req, loader, tracked, loads, cancels>>
      /\ info' = info \ Done(closed, now)
      /\ locks' = [m \in Models |-> IF m \in Done(closed, now) THEN 0 ELSE locks[m]]
      /\ depth' = [m \in Models |-> IF m \in Done(closed, now) THEN 0 ELSE depth[m]]
      /\ backends' = [m \in Models |-> IF m \in now \cup last THEN 0 ELSE backends[m]]
  BY <1>1 DEF UnloadStep, Forget, Done
<1>3. PICK configs \in [Models -> {"none", "enabled", "disabled"}] : saved' = Saved(info', configs)
  <2> DEFINE c == [m \in Models |-> IF m \in Done(closed, now) /\ disable /\ saved[m] # "none"
                                    THEN "disabled" ELSE saved[m]]
  <2>1. saved' = Saved(info', c)
    BY <1>1 DEF UnloadStep, Forget, Done
  <2>2. c \in [Models -> {"none", "enabled", "disabled"}]
    BY DEF TypeOK
  <2>3. QED
    BY <2>1, <2>2
<1>4. saved' \in [Models -> {"none", "enabled", "disabled"}] /\ \A m \in info' : saved'[m] = "enabled"
  <2>1. info' \subseteq Models
    BY <1>2 DEF TypeOK
  <2>2. QED
    BY <1>3, <2>1 DEF Saved
<1>5. worker' \in [Gens -> {"new", "up", "stopping", "gone"}]
  BY <1>1 DEF UnloadStep, TypeOK
<1>6. passes' \in [Requests -> {0} \cup Gens] /\ \A r \in Requests : passes'[r] \in {0, passes[r]}
  BY <1>1 DEF UnloadStep, TypeOK
<1>7. closing' = [closing EXCEPT ![u] =
                     [gen |-> IF last = {} THEN 0 ELSE backends[CHOOSE m \in last : TRUE], todo |-> left]]
  BY <1>1 DEF UnloadStep
<1>8. /\ u \in Closers /\ last \in {{}} \cup {{m} : m \in {x \in Models : backends[x] # 0}}
      /\ closing \in [Closers -> [gen : {0} \cup Gens, todo : SUBSET Models]]
      /\ backends \in [Models -> {0} \cup Gens]
  BY DEF Unloads, TypeOK
<1>9. \A v \in Closers \ {u} : closing'[v] = closing[v]
  BY <1>7, <1>8
<1>10. CASE last = {}
  BY <1>2, <1>4, <1>5, <1>6, <1>7, <1>8, <1>9, <1>10 DEF UnloadEffect
<1>11. CASE last # {}
  <2>1. PICK m \in Models : last = {m}
    BY <1>8, <1>11
  <2>2. (CHOOSE x \in last : TRUE) = m
    BY <2>1
  <2>3. closing'[u] = [gen |-> backends[m], todo |-> left]
    BY <1>7, <1>8, <1>11, <2>2
  <2>4. closing' \in [Closers -> [gen : {0} \cup Gens, todo : SUBSET Models]]
    BY <1>7, <1>8, <1>11, <2>2
  <2>5. \A x \in Models : last = {x} => closing'[u].gen = backends[x]
    BY <2>1, <2>3
  <2>6. QED
    BY <1>2, <1>4, <1>5, <1>6, <1>9, <1>11, <2>4, <2>5 DEF UnloadEffect
<1>12. QED
  BY <1>10, <1>11

LEMMA ReleaseFacts ==
  ASSUME TypeOK, NEW m \in Models, NEW free \in [Gens -> Nat], Release(m, free)
  PROVE  /\ permits' \in [Gens -> Nat] /\ depth' \in [Models -> Nat]
         /\ \A x \in Models \ {m} : depth'[x] = depth[x]
         /\ \A g \in Gens : g # locks[m] => permits'[g] = free[g]
         /\ locks[m] # 0 => permits'[locks[m]] = IF Raises(m, free) THEN free[locks[m]] ELSE free[locks[m]] + 1
         /\ depth'[m] = IF Raises(m, free) \/ depth[m] = 0 THEN depth[m] ELSE depth[m] - 1
<1>1. locks[m] \in {0} \cup Gens /\ depth \in [Models -> Nat] /\ 0 \notin Gens
  BY DEF TypeOK, Gens
<1>2. permits' = IF locks[m] = 0 \/ Raises(m, free) THEN free ELSE [free EXCEPT ![locks[m]] = @ + 1]
  BY DEF Release
<1>3. depth' = IF Raises(m, free) \/ depth[m] = 0 THEN depth ELSE [depth EXCEPT ![m] = @ - 1]
  BY <1>1 DEF Release, Dec
<1>4. depth' \in [Models -> Nat] /\ \A x \in Models \ {m} : depth'[x] = depth[x]
  BY <1>1, <1>3
<1>5. depth'[m] = IF Raises(m, free) \/ depth[m] = 0 THEN depth[m] ELSE depth[m] - 1
  BY <1>1, <1>3
<1>6. permits' \in [Gens -> Nat] /\ \A g \in Gens : g # locks[m] => permits'[g] = free[g]
  BY <1>1, <1>2
<1>7. locks[m] # 0 => permits'[locks[m]] = IF Raises(m, free) THEN free[locks[m]] ELSE free[locks[m]] + 1
  BY <1>1, <1>2
<1>8. QED
  BY <1>4, <1>5, <1>6, <1>7

RequestStep(r) ==
    \/ \E m \in Models : RequestBegin(r, m)
    \/ RequestAcquire(r) \/ RequestTimeout(r) \/ RequestEnd(r) \/ RequestCancel(r) \/ PassEnd(r)

LEMMA IdleRequest == NoRequest.pc = "idle" /\ NoRequest \in [pc : {"idle", "wait", "run"}, model : Models,
                                                             gen : {0} \cup Gens, lock : {0} \cup Gens]
BY KindsAssumption DEF NoRequest

\* A step of a request concerns the one name it is of.
LEMMA RequestFacts ==
  ASSUME TypeOK, Refs, NEW r \in Requests, RequestStep(r)
  PROVE  /\ UNCHANGED <<backends, locks, info, saved, offered, unsaid, owner, worker, loader, closing, tracked, loads>>
         /\ \A q \in Requests \ {r} : req'[q] = req[q] /\ passes'[q] = passes[q]
         /\ req' \in [Requests -> [pc : {"idle", "wait", "run"}, model : Models,
                                   gen : {0} \cup Gens, lock : {0} \cup Gens]]
         /\ passes' \in [Requests -> {0} \cup Gens]
         /\ permits' \in [Gens -> Nat] /\ depth' \in [Models -> Nat]
         /\ cancels' \in 0 .. MaxCancels /\ cancels <= cancels'
         /\ \E m \in Models : /\ req[r].pc # "idle" => req[r].model = m
                              /\ req'[r].pc # "idle" => req'[r].model = m
                              /\ \A x \in Models \ {m} : depth'[x] = depth[x]
                              /\ \A g \in Gens : ~RefersTo(g, m) => permits'[g] = permits[g]
<1> USE IdleRequest, BoundsAssumption
<1> DEFINE Q == [pc : {"idle", "wait", "run"}, model : Models, gen : {0} \cup Gens, lock : {0} \cup Gens]
<1>1. /\ req \in [Requests -> Q] /\ passes \in [Requests -> {0} \cup Gens]
      /\ permits \in [Gens -> Nat] /\ depth \in [Models -> Nat] /\ cancels \in 0 .. MaxCancels
      /\ backends \in [Models -> {0} \cup Gens] /\ locks \in [Models -> {0} \cup Gens]
      /\ Begun \subseteq Gens /\ 0 \notin Gens /\ req[r].model \in Models
  BY DEF TypeOK, Begun, Gens
<1>2. \A m \in Models : locks[m] # 0 => RefersTo(locks[m], m)
  BY DEF Refs
<1>3. \A m \in Models : DOMAIN Dec(m) = Models /\ Dec(m) \in [Models -> Nat] /\ \A x \in Models \ {m} : Dec(m)[x] = depth[x]
  BY <1>1 DEF Dec
<1>5. CASE \E m \in Models : RequestBegin(r, m)
  <2>0. PICK m \in Models : RequestBegin(r, m)
    BY <1>5
  <2> DEFINE new == [pc |-> IF locks[m] = 0 THEN "run" ELSE "wait", model |-> m, gen |-> backends[m], lock |-> locks[m]]
  <2>1. /\ req' = [req EXCEPT ![r] = new]
        /\ depth' = IF locks[m] = 0 THEN depth ELSE [depth EXCEPT ![m] = @ + 1]
        /\ passes' = IF locks[m] = 0 THEN [passes EXCEPT ![r] = backends[m]] ELSE passes
        /\ req[r].pc = "idle"
        /\ UNCHANGED <<backends, locks, info, saved, offered, unsaid, objects, loader, closing, tracked, loads, cancels>>
    BY <2>0 DEF RequestBegin
  <2>2. new \in Q /\ new.model = m
    BY <1>1
  <2> HIDE DEF new
  <2>3. req' \in [Requests -> Q] /\ req'[r] = new /\ \A q \in Requests \ {r} : req'[q] = req[q]
    BY <1>1, <2>1, <2>2
  <2>4. passes' \in [Requests -> {0} \cup Gens] /\ \A q \in Requests \ {r} : passes'[q] = passes[q]
    BY <1>1, <2>1
  <2>5. depth' \in [Models -> Nat] /\ \A x \in Models \ {m} : depth'[x] = depth[x]
    BY <1>1, <2>1
  <2>6. permits' = permits /\ UNCHANGED <<owner, worker>>
    BY <2>1 DEF objects
  <2>7. QED
    BY <1>1, <2>1, <2>2, <2>3, <2>4, <2>5, <2>6
<1>6. CASE RequestAcquire(r)
  <2> DEFINE q == req[r]
             free == [permits EXCEPT ![q.lock] = @ - 1]
  <2>1. q.pc = "wait" /\ q.lock \in Gens /\ RefersTo(q.lock, q.model) /\ permits[q.lock] > 0
    BY <1>1, <1>6 DEF RequestAcquire, Refs, RefersTo
  <2>2. free \in [Gens -> Nat] /\ \A g \in Gens : g # q.lock => free[g] = permits[g]
    BY <1>1, <2>1
  <2>3. CASE worker[q.gen] = "gone"
    <3>1. Release(q.model, free) /\ req' = [req EXCEPT ![r] = NoRequest] /\ passes' = passes
      BY <1>6, <2>3 DEF RequestAcquire
    <3>2. UNCHANGED <<backends, locks, info, saved, offered, unsaid, owner, worker, loader, closing, tracked, loads, cancels>>
      BY <1>6 DEF RequestAcquire, RequestUnchanged
    <3> HIDE DEF free
    <3>3. /\ permits' \in [Gens -> Nat] /\ depth' \in [Models -> Nat]
          /\ \A x \in Models \ {q.model} : depth'[x] = depth[x]
          /\ \A g \in Gens : g # locks[q.model] => permits'[g] = free[g]
      BY <1>1, <2>2, <3>1, ReleaseFacts
    <3>4. \A g \in Gens : ~RefersTo(g, q.model) => permits'[g] = permits[g]
      BY <1>1, <1>2, <2>1, <2>2, <3>3
    <3>5. req' \in [Requests -> Q] /\ req'[r] = NoRequest /\ \A x \in Requests \ {r} : req'[x] = req[x]
      BY <1>1, <3>1
    <3>6. QED
      BY <1>1, <3>1, <3>2, <3>3, <3>4, <3>5
  <2>4. CASE worker[q.gen] # "gone"
    <3>1. /\ permits' = free /\ req' = [req EXCEPT ![r].pc = "run"]
          /\ passes' = [passes EXCEPT ![r] = q.gen] /\ depth' = depth
      BY <1>6, <2>4 DEF RequestAcquire
    <3>2. UNCHANGED <<backends, locks, info, saved, offered, unsaid, owner, worker, loader, closing, tracked, loads, cancels>>
      BY <1>6 DEF RequestAcquire, RequestUnchanged
    <3>3. /\ req' \in [Requests -> Q] /\ req'[r].model = q.model /\ \A x \in Requests \ {r} : req'[x] = req[x]
          /\ passes' \in [Requests -> {0} \cup Gens] /\ \A x \in Requests \ {r} : passes'[x] = passes[x]
      BY <1>1, <3>1
    <3>4. \A g \in Gens : ~RefersTo(g, q.model) => permits'[g] = permits[g]
      BY <1>1, <2>1, <2>2, <3>1
    <3>5. QED
      BY <1>1, <2>2, <3>1, <3>2, <3>3, <3>4
  <2>5. QED
    BY <2>3, <2>4
<1>7. CASE RequestTimeout(r)
  <2>1. /\ req' = [req EXCEPT ![r] = NoRequest] /\ depth' = Dec(req[r].model)
        /\ UNCHANGED <<permits, passes, cancels>>
        /\ UNCHANGED <<backends, locks, info, saved, offered, unsaid, owner, worker, loader, closing, tracked, loads>>
    BY <1>7 DEF RequestTimeout, RequestUnchanged
  <2>2. req' \in [Requests -> Q] /\ req'[r] = NoRequest /\ \A q \in Requests \ {r} : req'[q] = req[q]
    BY <1>1, <2>1
  <2>3. QED
    BY <1>1, <1>3, <2>1, <2>2
<1>8. CASE RequestEnd(r)
  <2>1. /\ req' = [req EXCEPT ![r] = NoRequest] /\ passes' = [passes EXCEPT ![r] = 0]
        /\ Release(req[r].model, permits) /\ UNCHANGED cancels
        /\ UNCHANGED <<backends, locks, info, saved, offered, unsaid, owner, worker, loader, closing, tracked, loads>>
    BY <1>8 DEF RequestEnd, RequestUnchanged
  <2>2. req' \in [Requests -> Q] /\ req'[r] = NoRequest /\ \A q \in Requests \ {r} : req'[q] = req[q]
    BY <1>1, <2>1
  <2>3. /\ permits' \in [Gens -> Nat] /\ depth' \in [Models -> Nat]
        /\ \A x \in Models \ {req[r].model} : depth'[x] = depth[x]
        /\ \A g \in Gens : g # locks[req[r].model] => permits'[g] = permits[g]
    BY <1>1, <2>1, ReleaseFacts
  <2>4. \A g \in Gens : ~RefersTo(g, req[r].model) => permits'[g] = permits[g]
    BY <1>1, <1>2, <2>3
  <2>5. QED
    BY <1>1, <2>1, <2>2, <2>3, <2>4
<1>9. CASE RequestCancel(r)
  <2>1. /\ req' = [req EXCEPT ![r] = NoRequest] /\ cancels < MaxCancels /\ cancels' = cancels + 1
        /\ (permits' = permits /\ depth' = depth) \/ Release(req[r].model, permits)
        /\ passes' = IF req[r].model \in Local THEN passes ELSE [passes EXCEPT ![r] = 0]
        /\ UNCHANGED <<backends, locks, info, saved, offered, unsaid, owner, worker, loader, closing, tracked, loads>>
    BY <1>9 DEF RequestCancel, RequestUnchanged
  <2>2. /\ req' \in [Requests -> Q] /\ req'[r] = NoRequest /\ \A q \in Requests \ {r} : req'[q] = req[q]
        /\ passes' \in [Requests -> {0} \cup Gens] /\ \A q \in Requests \ {r} : passes'[q] = passes[q]
        /\ cancels' \in 0 .. MaxCancels /\ cancels <= cancels'
    BY <1>1, <2>1
  <2>3. /\ permits' \in [Gens -> Nat] /\ depth' \in [Models -> Nat]
        /\ \A x \in Models \ {req[r].model} : depth'[x] = depth[x]
        /\ \A g \in Gens : g # locks[req[r].model] => permits'[g] = permits[g]
    BY <1>1, <2>1, ReleaseFacts
  <2>4. \A g \in Gens : ~RefersTo(g, req[r].model) => permits'[g] = permits[g]
    BY <1>1, <1>2, <2>3
  <2>5. QED
    BY <1>1, <2>1, <2>2, <2>3, <2>4
<1>10. CASE PassEnd(r)
  <2>1. /\ passes' = [passes EXCEPT ![r] = 0] /\ UNCHANGED <<req, permits, depth, cancels>>
        /\ UNCHANGED <<backends, locks, info, saved, offered, unsaid, owner, worker, loader, closing, tracked, loads>>
    BY <1>10 DEF PassEnd, RequestUnchanged
  <2>2. QED
    BY <1>1, <2>1
<1>11. QED
  BY <1>5, <1>6, <1>7, <1>8, <1>9, <1>10 DEF RequestStep

\* The end of a load, and the steps that touch nothing but what is offered or tracked.
LoadStep(l) == LoadDone(l) \/ LoadFail(l) \/ LoadLost(l)
Aside == (\E m \in Models : ClearStatus(m) \/ UnloadNone(m)) \/ \E l \in Lists : ListEnd(l)

LEMMA NextSteps ==
  ASSUME TypeOK, [Next]_vars
  PROVE  \/ \E l \in Loaders, m \in Models : LoadBegin(l, m)
         \/ \E l \in Loaders : LoadStep(l)
         \/ Aside
         \/ Unloading
         \/ \E r \in Requests : RequestStep(r)
         \/ UNCHANGED vars
BY RequestedUnloads, WatcherUnloads DEF Next, LoadStep, Aside, RequestStep

-----------------------------------------------------------------------------
(* Types, references, and who knows a backend object.                      *)

Known == TypeOK /\ Refs /\ Filling /\ Closing

LEMMA InitKnown == Init => Known
<1> SUFFICES ASSUME Init PROVE Known
  OBVIOUS
<1>1. TypeOK
  BY IdleRequest, BoundsAssumption DEF Init, TypeOK, NoClose, NoRequest, Gens
<1>2. Refs
  BY DEF Init, Refs, NoRequest, NoClose
<1>3. QED
  BY <1>1, <1>2 DEF Init, Known, Filling, Closing, NoClose

LEMMA LoadBeginKnown ==
  ASSUME Known, NEW l \in Loaders, NEW m \in Models, LoadBegin(l, m)
  PROVE  Known'
<1> USE DEF Known
<1>1. /\ loads \in 0 .. MaxLoads /\ loads < MaxLoads /\ MaxLoads \in Nat /\ loads' = loads + 1
      /\ loads + 1 \in Gens /\ loads + 1 # 0
  BY BoundsAssumption DEF TypeOK, LoadBegin, Gens
<1>2. /\ loader' = [loader EXCEPT ![l] = loads + 1] /\ owner' = [owner EXCEPT ![loads + 1] = m]
      /\ tracked' = tracked \cup {m} /\ backends[m] = 0 /\ loader[l] = 0
      /\ UNCHANGED <<backends, locks, info, depth, saved, offered, unsaid, permits, worker, req, passes, closing, cancels>>
  BY DEF LoadBegin, registry
<1>3. TypeOK'
  BY <1>1, <1>2 DEF TypeOK
<1>4. \A g, x : RefersTo(g, x) => RefersTo(g, x)' /\ g # loads + 1
  BY <1>1, <1>2 DEF RefersTo, Begun, TypeOK, Gens
<1>5. Begun \subseteq Begun' /\ loads + 1 \in Begun' /\ loads + 1 \notin Begun
  BY <1>1 DEF Begun
<1>6. Refs'
  <2>1. \A x \in Models : x \in info => \E g \in Begun' : owner'[g] = x
    <3>1. \A g \in Begun : owner'[g] = owner[g]
      BY <1>2, <1>5 DEF TypeOK
    <3>2. QED
      BY <1>5, <3>1 DEF Refs
  <2>2. \A k \in Loaders : loader'[k] # 0 => loader'[k] \in Begun'
    BY <1>2, <1>5 DEF Refs, TypeOK
  <2>3. QED
    BY <1>2, <1>4, <1>5, <2>1, <2>2 DEF Refs
<1>7. Filling'
  <2>1. loader'[l] = loads + 1 /\ \A k \in Loaders \ {l} : loader'[k] = loader[k]
    BY <1>2 DEF TypeOK
  <2>2. \A k \in Loaders : loader[k] # loads + 1
    BY <1>1, <1>5 DEF Refs
  <2>3. /\ \A x \in Models : backends[x] # loads + 1 /\ locks[x] # loads + 1
        /\ \A u \in Closers : closing[u].gen # loads + 1
        /\ \A r \in Requests : req[r].pc # "idle" => req[r].gen # loads + 1 /\ req[r].lock # loads + 1
    BY <1>1, <1>4, <1>5 DEF Refs
  <2>4. QED
    BY <1>2, <2>1, <2>2, <2>3 DEF Filling
<1>8. Closing'
  BY <1>2 DEF Closing
<1>9. QED
  BY <1>3, <1>6, <1>7, <1>8

LEMMA LoadStepKnown ==
  ASSUME Known, NEW l \in Loaders, LoadStep(l)
  PROVE  Known'
<1> USE DEF Known
<1> DEFINE g == loader[l]
           m == owner[g]
<1>1. /\ g \in Begun /\ g # 0 /\ g \in Gens /\ m \in Models /\ loads' = loads /\ owner' = owner
      /\ loader' = [loader EXCEPT ![l] = 0] /\ UNCHANGED <<req, passes, closing, cancels, tracked>>
  BY DEF LoadStep, LoadDone, LoadFail, LoadLost, Refs, TypeOK, Begun, Gens, registry, objects
<1>2. CASE ~LoadDone(l)
  <2>1. UNCHANGED <<backends, locks, info, depth, saved, offered, unsaid, permits>> /\ (worker' = worker \/ worker' = [worker EXCEPT ![g] = "up"])
    BY <1>2 DEF LoadStep, LoadFail, LoadLost, registry, objects
  <2>2. TypeOK'
    BY <1>1, <2>1 DEF TypeOK
  <2>3. Refs'
    BY <1>1, <2>1 DEF Refs, RefersTo, Begun, TypeOK
  <2>4. Filling' /\ Closing'
    BY <1>1, <2>1 DEF Filling, Closing, TypeOK
  <2>5. QED
    BY <2>2, <2>3, <2>4
<1>3. CASE LoadDone(l)
  <2>1. /\ backends' = [backends EXCEPT ![m] = g] /\ locks' = [locks EXCEPT ![m] = g]
        /\ depth' = [depth EXCEPT ![m] = 0] /\ info' = info \cup {m} /\ saved' = Saved(info', saved)
        /\ offered' = offered \/ offered' = info'
        /\ unsaid' = unsaid \/ unsaid' = [unsaid EXCEPT ![l] = @ \cup {g}]
        /\ permits' = [permits EXCEPT ![g] = Capacity(m)] /\ worker' = [worker EXCEPT ![g] = "up"]
    BY <1>3 DEF LoadDone, Offer
  <2>2. TypeOK'
    <3>1. Capacity(m) \in Nat
      BY SlotsAssumption DEF Capacity
    <3>2. saved' \in [Models -> {"none", "enabled", "disabled"}]
      BY <2>1 DEF TypeOK, Saved
    <3> HIDE DEF g, m
    <3>3. backends' \in [Models -> {0} \cup Gens] /\ locks' \in [Models -> {0} \cup Gens]
      BY <1>1, <2>1 DEF TypeOK
    <3>4. permits' \in [Gens -> Nat] /\ depth' \in [Models -> Nat]
      BY <1>1, <2>1, <3>1 DEF TypeOK
    <3>5. worker' \in [Gens -> {"new", "up", "stopping", "gone"}] /\ loader' \in [Loaders -> {0} \cup Gens]
      BY <1>1, <2>1 DEF TypeOK
    <3>6. info' \subseteq Models /\ offered' \subseteq Models /\ unsaid' \in [Loaders -> SUBSET Gens]
      BY <1>1, <2>1 DEF TypeOK
    <3>7. QED
      BY <1>1, <2>1, <3>2, <3>3, <3>4, <3>5, <3>6, ZenonT(60) DEF TypeOK
  <2>3. Refs'
    <3>1. \A h, x : RefersTo(h, x)' <=> RefersTo(h, x)
      BY <1>1 DEF RefersTo, Begun
    <3>2. \A x \in Models : /\ backends'[x] # 0 => RefersTo(backends'[x], x)
                            /\ locks'[x] # 0 => RefersTo(locks'[x], x)
      BY <1>1, <2>1 DEF Refs, RefersTo, TypeOK
    <3>3. \A x \in Models : x \in info' => \E h \in Begun : owner[h] = x
      BY <1>1, <2>1 DEF Refs
    <3>4. \A k \in Loaders : loader'[k] # 0 => loader'[k] \in Begun
      BY <1>1 DEF Refs, TypeOK
    <3>5. Begun' = Begun
      BY <1>1 DEF Begun
    <3>6. QED
      BY <1>1, <3>1, <3>2, <3>3, <3>4, <3>5 DEF Refs
  <2>4. Filling'
    <3>1. \A k \in Loaders : loader'[k] # 0 => k # l /\ loader'[k] = loader[k] /\ loader[k] # g
      BY <1>1 DEF Filling, TypeOK
    <3>2. \A x \in Models : backends'[x] \in {g, backends[x]} /\ locks'[x] \in {g, locks[x]}
      BY <2>1 DEF TypeOK
    <3> HIDE DEF g
    <3>3. QED
      BY <1>1, <3>1, <3>2 DEF Filling
  <2>5. Closing'
    <3>1. \A x \in Models : backends'[x] \in {g, backends[x]}
      BY <2>1 DEF TypeOK
    <3>2. \A u \in Closers : closing[u].gen # g
      BY <1>1 DEF Filling
    <3>3. QED
      BY <1>1, <3>1, <3>2 DEF Closing
  <2>6. QED
    BY <2>2, <2>3, <2>4, <2>5
<1>4. QED
  BY <1>2, <1>3

LEMMA AsideKnown ==
  ASSUME Known, Aside
  PROVE  Known'
<1>1. /\ UNCHANGED <<backends, locks, info, depth, saved, owner, permits, worker, req, passes, loader, closing, loads, cancels>>
      /\ tracked' \subseteq Models /\ offered' \subseteq Models /\ unsaid' \in [Loaders -> SUBSET Gens]
  BY DEF Aside, ClearStatus, UnloadNone, ListEnd, Offer, registry, objects, Known, TypeOK
<1>2. QED
  BY <1>1 DEF Known, TypeOK, Refs, RefersTo, Begun, Filling, Closing

LEMMA UnloadKnown ==
  ASSUME Known, Unloading
  PROVE  Known'
<1>0. PICK u \in Closers, closed \in SUBSET Gens, now \in SUBSET Models, last \in SUBSET Models :
         Unloads(u, closed, now, last)
  BY DEF Unloading
<1>e. UnloadEffect(u, closed, now, last)
  BY <1>0, UnloadFacts DEF Known
<1> DEFINE D == Done(closed, now)
<1>1. /\ UNCHANGED <<owner, permits, req, loader, tracked, loads, cancels>>
      /\ info' = info \ D
      /\ locks' = [m \in Models |-> IF m \in D THEN 0 ELSE locks[m]]
      /\ depth' = [m \in Models |-> IF m \in D THEN 0 ELSE depth[m]]
      /\ saved' \in [Models -> {"none", "enabled", "disabled"}]
      /\ backends' = [m \in Models |-> IF m \in now \cup last THEN 0 ELSE backends[m]]
      /\ worker' \in [Gens -> {"new", "up", "stopping", "gone"}]
      /\ passes' \in [Requests -> {0} \cup Gens]
      /\ closing' \in [Closers -> [gen : {0} \cup Gens, todo : SUBSET Models]]
      /\ \A v \in Closers \ {u} : closing'[v] = closing[v]
  BY <1>e DEF UnloadEffect
<1>2. /\ last = {} => closing'[u].gen = 0
      /\ \A m \in Models : last = {m} => closing'[u].gen = backends[m]
  BY <1>e DEF UnloadEffect
<1>3. last = {} \/ \E m \in Models : last = {m} /\ backends[m] # 0
  BY <1>0 DEF Unloads
<1>4. (offered' = offered \/ offered' = info') /\ unsaid' = unsaid
  BY <1>0 DEF Unloads
<1> HIDE DEF D
<1>5. TypeOK'
  <2>1. depth' \in [Models -> Nat] /\ locks' \in [Models -> {0} \cup Gens] /\ backends' \in [Models -> {0} \cup Gens]
    BY <1>1 DEF Known, TypeOK
  <2>2. info' \subseteq Models /\ offered' \subseteq Models
    BY <1>1, <1>4 DEF Known, TypeOK
  <2>3. QED
    BY <1>1, <1>4, <2>1, <2>2 DEF Known, TypeOK
<1>6. \A m \in Models : /\ backends'[m] \in {0, backends[m]} /\ locks'[m] \in {0, locks[m]}
                        /\ m \in info' => m \in info
  BY <1>1 DEF Known, TypeOK
<1>7. \A v \in Closers : closing'[v].gen # 0 =>
         \/ v # u /\ closing'[v] = closing[v]
         \/ v = u /\ \E m \in Models : closing'[u].gen = backends[m] /\ backends[m] # 0 /\ backends'[m] = 0
  BY <1>1, <1>2, <1>3
<1>8. Begun' = Begun /\ owner' = owner
  BY <1>1 DEF Begun
<1>9. Refs'
  <2>1. \A v \in Closers : closing'[v].gen # 0 => closing'[v].gen \in Begun
    BY <1>7 DEF Known, Refs, RefersTo
  <2>2. \A g, m : RefersTo(g, m)' <=> RefersTo(g, m)
    BY <1>8 DEF RefersTo
  <2>3. QED
    BY <1>1, <1>6, <1>8, <2>1, <2>2 DEF Known, Refs
<1>10. Filling'
  <2>1. \A l \in Loaders : loader[l] # 0 => \A v \in Closers : closing'[v].gen # loader[l]
    BY <1>7 DEF Known, Filling
  <2>2. QED
    BY <1>1, <1>6, <2>1 DEF Known, Filling
<1>11. Closing'
  <2> SUFFICES ASSUME NEW v \in Closers, closing'[v].gen # 0, NEW m \in Models
               PROVE  backends'[m] # closing'[v].gen
    BY DEF Closing
  <2>1. CASE v # u
    BY <1>6, <1>7, <2>1 DEF Known, Closing
  <2>2. CASE v = u
    <3>1. PICK x \in Models : closing'[v].gen = backends[x] /\ backends[x] # 0 /\ backends'[x] = 0
      BY <1>7, <2>2
    <3>2. backends[m] = backends[x] => m = x
      BY <3>1 DEF Known, Refs, RefersTo
    <3>3. QED
      BY <1>6, <3>1, <3>2
  <2>3. QED
    BY <2>1, <2>2
<1>12. QED
  BY <1>5, <1>9, <1>10, <1>11 DEF Known

\* What a request refers to, it has from the registry when it began.
LEMMA RequestRefers ==
  ASSUME Known, NEW r \in Requests, RequestStep(r), req'[r].pc # "idle"
  PROVE  /\ req'[r].pc = "wait" => req'[r].lock # 0
         /\ \/ req[r].pc # "idle" /\ req'[r].model = req[r].model /\ req'[r].gen = req[r].gen /\ req'[r].lock = req[r].lock
            \/ /\ req'[r].model \in Models /\ req'[r].gen = backends[req'[r].model] /\ req'[r].gen # 0
               /\ req'[r].lock = locks[req'[r].model]
<1> DEFINE Q == [pc : {"idle", "wait", "run"}, model : Models, gen : {0} \cup Gens, lock : {0} \cup Gens]
<1>1. req \in [Requests -> Q] /\ NoRequest.pc = "idle" /\ NoRequest \in Q
  BY IdleRequest DEF Known, TypeOK
<1>2. CASE \E m \in Models : RequestBegin(r, m)
  <2>1. PICK m \in Models : RequestBegin(r, m)
    BY <1>2
  <2>2. /\ req'[r] = [pc |-> IF locks[m] = 0 THEN "run" ELSE "wait", model |-> m, gen |-> backends[m], lock |-> locks[m]]
        /\ backends[m] # 0
    BY <1>1, <2>1 DEF RequestBegin
  <2>3. QED
    BY <2>2
<1>3. CASE RequestAcquire(r)
  <2>1. req' = [req EXCEPT ![r] = NoRequest] \/ req' = [req EXCEPT ![r].pc = "run"]
    BY <1>3 DEF RequestAcquire
  <2>2. req' = [req EXCEPT ![r].pc = "run"] /\ req[r].pc = "wait"
    BY <1>1, <1>3, <2>1 DEF RequestAcquire
  <2>3. req'[r].pc = "run" /\ req'[r].model = req[r].model /\ req'[r].gen = req[r].gen /\ req'[r].lock = req[r].lock
    BY <1>1, <2>2
  <2>4. QED
    BY <2>2, <2>3
<1>4. CASE RequestTimeout(r) \/ RequestEnd(r) \/ RequestCancel(r)
  <2>1. req' = [req EXCEPT ![r] = NoRequest]
    BY <1>4 DEF RequestTimeout, RequestEnd, RequestCancel
  <2>2. QED
    BY <1>1, <2>1
<1>5. CASE PassEnd(r)
  BY <1>5 DEF PassEnd
<1>6. QED
  BY <1>2, <1>3, <1>4, <1>5 DEF RequestStep

LEMMA RequestKnown ==
  ASSUME Known, NEW r \in Requests, RequestStep(r)
  PROVE  Known'
<1>1. /\ UNCHANGED <<backends, locks, info, saved, offered, unsaid, owner, worker, loader, closing, tracked, loads>>
      /\ \A q \in Requests \ {r} : req'[q] = req[q] /\ passes'[q] = passes[q]
      /\ req' \in [Requests -> [pc : {"idle", "wait", "run"}, model : Models,
                                gen : {0} \cup Gens, lock : {0} \cup Gens]]
      /\ passes' \in [Requests -> {0} \cup Gens]
      /\ permits' \in [Gens -> Nat] /\ depth' \in [Models -> Nat]
      /\ cancels' \in 0 .. MaxCancels
  BY RequestFacts DEF Known
<1>2. TypeOK'
  BY <1>1 DEF Known, TypeOK
<1>3. \A g, m : RefersTo(g, m)' <=> RefersTo(g, m)
  BY <1>1 DEF RefersTo, Begun
<1>4. Begun' = Begun
  BY <1>1 DEF Begun
<1>5. Refs'
  <2>1. \A q \in Requests : req'[q].pc # "idle" =>
          /\ RefersTo(req'[q].gen, req'[q].model)
          /\ req'[q].lock # 0 => RefersTo(req'[q].lock, req'[q].model)
          /\ req'[q].pc = "wait" => req'[q].lock # 0
    <3>1. req'[r].pc # "idle" =>
          /\ RefersTo(req'[r].gen, req'[r].model)
          /\ req'[r].lock # 0 => RefersTo(req'[r].lock, req'[r].model)
          /\ req'[r].pc = "wait" => req'[r].lock # 0
      BY RequestRefers DEF Known, Refs
    <3>2. QED
      BY <1>1, <3>1 DEF Known, Refs
  <2>2. QED
    BY <1>1, <1>3, <1>4, <2>1 DEF Known, Refs
<1>6. Filling'
  <2>1. req'[r].pc # "idle" => \A l \in Loaders : loader[l] # 0 => req'[r].gen # loader[l] /\ req'[r].lock # loader[l]
    BY RequestRefers DEF Known, Filling
  <2>2. QED
    BY <1>1, <2>1 DEF Known, Filling
<1>7. Closing'
  BY <1>1 DEF Known, Closing
<1>8. QED
  BY <1>2, <1>5, <1>6, <1>7 DEF Known

LEMMA NextKnown ==
  ASSUME Known, [Next]_vars
  PROVE  Known'
<1>1. CASE UNCHANGED vars
  BY <1>1 DEF vars, registry, objects, Known, TypeOK, Refs, RefersTo, Begun, Filling, Closing
<1>2. QED
  BY <1>1, NextSteps, LoadBeginKnown, LoadStepKnown, AsideKnown, UnloadKnown, RequestKnown DEF Known

\* Every variable has its type, throughout.
THEOREM TypeCorrect == Spec => []TypeOK
<1>1. Spec => []Known
  BY InitKnown, NextKnown, PTL DEF Spec
<1>2. Known => TypeOK
  BY DEF Known
<1>3. QED
  BY <1>1, <1>2, PTL

-----------------------------------------------------------------------------
(* The names in the registry.                                              *)

\* A name that has been loaded once was loaded at most once before.
LEMMA OnceBefore ==
  ASSUME TypeOK, [Next]_vars, NEW m, Once(m)'
  PROVE  Once(m)
<1>1. CASE loads' = loads /\ owner' = owner
  BY <1>1 DEF Once, Reloaded
<1>2. CASE \E l \in Loaders, x \in Models : LoadBegin(l, x)
  <2>1. /\ loads \in Nat /\ loads' = loads + 1
        /\ \A g \in 1 .. loads : owner'[g] = owner[g]
    BY <1>2, BoundsAssumption DEF LoadBegin, TypeOK, Gens
  <2>2. Reloaded(m) => Cardinality({g \in 1 .. loads' : owner'[g] = m}) > 1
    <3> DEFINE S == {g \in 1 .. loads : owner[g] = m}
               T == {g \in 1 .. loads' : owner'[g] = m}
    <3>1. IsFiniteSet(1 .. loads') /\ T \subseteq 1 .. loads' /\ S \subseteq T
      BY <2>1, FS_Interval
    <3>2. IsFiniteSet(T)
      BY <3>1, FS_Subset
    <3>3. Cardinality(S) <= Cardinality(T) /\ Cardinality(T) \in Nat /\ Cardinality(S) \in Nat
      BY <3>1, <3>2, FS_Subset, FS_CardinalityType
    <3>4. QED
      BY <3>3 DEF Reloaded
  <2>3. QED
    BY <2>2 DEF Once, Reloaded
<1>3. (\E l \in Loaders, x \in Models : LoadBegin(l, x)) \/ (loads' = loads /\ owner' = owner)
  <2>1. Unloading => loads' = loads /\ owner' = owner
    <3>1. \A u, closed, now, last, left, disable :
             UnloadStep(u, closed, now, last, left, disable) => loads' = loads /\ owner' = owner
      BY Zenon DEF UnloadStep
    <3>2. QED
      BY <3>1, Zenon DEF Unloading, Unloads
  <2>2. \A r \in Requests : RequestStep(r) => loads' = loads /\ owner' = owner
    <3>1. RequestUnchanged => loads' = loads /\ owner' = owner
      BY DEF RequestUnchanged
    <3>2. \A r, x : RequestBegin(r, x) => loads' = loads /\ owner' = owner
      BY Zenon DEF RequestBegin, objects
    <3>3. QED
      BY <3>1, <3>2, Zenon DEF RequestStep, RequestAcquire, RequestTimeout, RequestEnd, RequestCancel, PassEnd
  <2>3. \A l \in Loaders : LoadStep(l) => loads' = loads /\ owner' = owner
    BY DEF LoadStep, LoadDone, LoadFail, LoadLost, objects
  <2>4. Aside => loads' = loads /\ owner' = owner
    BY DEF Aside, ClearStatus, UnloadNone, ListEnd, objects
  <2>5. UNCHANGED vars => loads' = loads /\ owner' = owner
    BY DEF vars, objects
  <2>6. \/ \E l \in Loaders, x \in Models : LoadBegin(l, x)
        \/ \E l \in Loaders : LoadStep(l)
        \/ Aside
        \/ Unloading
        \/ \E r \in Requests : RequestStep(r)
        \/ UNCHANGED vars
    BY NextSteps
  <2>7. QED
    BY <2>1, <2>2, <2>3, <2>4, <2>5, <2>6, Zenon
<1>4. QED
  BY <1>1, <1>2, <1>3

\* The name is offered, or what loaded it has not offered it yet.
Heard(m) == m \in offered \/ \E l \in Silent : backends[m] \in unsaid[l]

LEMMA SilentLoad == Silent \subseteq Loaders
BY ListsAssumption DEF Silent

LEMMA NextRegistered ==
  ASSUME Known, Registered, [Next]_vars
  PROVE  Registered'
<1>1. \A m : Once(m)' => Once(m)
  BY OnceBefore DEF Known
<1>2. ASSUME NEW l \in Loaders, NEW x \in Models, LoadBegin(l, x)
      PROVE  Registered'
  <2>1. \A g \in Begun : owner'[g] = owner[g]
    BY <1>2, BoundsAssumption DEF LoadBegin, Begun, Known, TypeOK, Gens
  <2>2. \A u \in Closers : closing[u].gen # 0 => closing[u].gen \in Begun
    BY DEF Known, Refs
  <2>3. UNCHANGED <<backends, locks, info, offered, unsaid, saved, closing>>
    BY <1>2 DEF LoadBegin, registry
  <2>4. QED
    BY <1>1, <2>1, <2>2, <2>3 DEF Registered, Once
<1>3. ASSUME NEW l \in Loaders, LoadDone(l)
      PROVE  Registered'
  <2> DEFINE g == loader[l]
             x == owner[g]
  <2>1. /\ backends' = [backends EXCEPT ![x] = g] /\ locks' = [locks EXCEPT ![x] = g]
        /\ info' = info \cup {x} /\ saved' = Saved(info', saved)
        /\ UNCHANGED <<owner, closing, loads>>
    BY <1>3 DEF LoadDone
  <2>o. /\ \A k \in Loaders : unsaid[k] \subseteq unsaid'[k]
        /\ \/ offered' = info'
           \/ offered' = offered /\ l \in Silent /\ g \in unsaid'[l]
    BY <1>3 DEF LoadDone, Offer, Known, TypeOK
  <2>2. x \in Models /\ backends \in [Models -> {0} \cup Gens] /\ locks \in [Models -> {0} \cup Gens] /\ info \subseteq Models
    BY <1>3 DEF LoadDone, Known, TypeOK
  <2> HIDE DEF x, g
  <2>3. \A m \in info' : saved'[m] = "enabled"
    BY <2>1, <2>2 DEF Saved
  <2>4. ASSUME NEW m \in Models, Once(m)
        PROVE  /\ backends'[m] # 0 => locks'[m] = backends'[m] /\ m \in info' /\ Heard(m)'
               /\ m \in info' => \/ backends'[m] # 0
                                \/ \E u \in Closers : closing[u].gen # 0 /\ owner[closing[u].gen] = m
    <3>1. CASE m = x
      <4>1. backends'[m] = g /\ locks'[m] = g /\ m \in info' /\ g # 0 /\ Heard(m)'
        BY <1>3, <2>1, <2>o, <2>2, <3>1 DEF LoadDone, g, Heard
      <4>2. QED
        BY <4>1
    <3>2. CASE m # x
      <4>1. backends'[m] = backends[m] /\ locks'[m] = locks[m] /\ (m \in info' <=> m \in info)
        BY <2>1, <2>2, <3>2
      <4>2. backends[m] # 0 => Heard(m)'
        BY <2>1, <2>o, <2>4, <4>1, SilentLoad DEF Registered, Once, Heard
      <4>3. QED
        BY <2>4, <4>1, <4>2 DEF Registered, Once
    <3>3. QED
      BY <3>1, <3>2
  <2>5. QED
    BY <1>1, <2>1, <2>3, <2>4 DEF Registered, Once, Heard
<1>4. ASSUME NEW l \in Loaders, LoadFail(l) \/ LoadLost(l)
      PROVE  Registered'
  BY <1>1, <1>4 DEF LoadFail, LoadLost, registry, objects, Registered, Once
<1>5. ASSUME Aside
      PROVE  Registered'
  <2>1. /\ UNCHANGED <<backends, locks, info, saved, owner, closing>>
        /\ (offered' = offered /\ unsaid' = unsaid) \/ offered' = info
    BY <1>5 DEF Aside, ClearStatus, UnloadNone, ListEnd, Offer, registry, objects
  <2>2. QED
    BY <1>1, <2>1 DEF Registered, Once
<1>6. ASSUME Unloading
      PROVE  Registered'
  <2>0. PICK u \in Closers, closed \in SUBSET Gens, now \in SUBSET Models, last \in SUBSET Models :
           Unloads(u, closed, now, last)
    BY <1>6 DEF Unloading
  <2>1. UnloadEffect(u, closed, now, last)
    BY <2>0, UnloadFacts DEF Known
  <2> DEFINE D == Done(closed, now)
  <2>2. /\ owner' = owner /\ info' = info \ D
        /\ locks' = [m \in Models |-> IF m \in D THEN 0 ELSE locks[m]]
        /\ \A m \in info' : saved'[m] = "enabled"
        /\ backends' = [m \in Models |-> IF m \in now \cup last THEN 0 ELSE backends[m]]
        /\ \A v \in Closers \ {u} : closing'[v] = closing[v]
        /\ \A m \in Models : last = {m} => closing'[u].gen = backends[m]
        /\ closed = {closing[u].gen} \ {0}
        /\ last = {} \/ \E m \in Models : last = {m}
        /\ offered' = offered \/ offered' = info'
        /\ unsaid' = unsaid
    BY <2>0, <2>1 DEF Unloads, UnloadEffect
  <2> SUFFICES ASSUME NEW m \in Models, Once(m)
      PROVE  /\ backends'[m] # 0 => locks'[m] = backends'[m] /\ m \in info' /\ Heard(m)' /\ saved'[m] = "enabled"
             /\ m \in info' => \/ backends'[m] # 0
                              \/ \E v \in Closers : closing'[v].gen # 0 /\ owner'[closing'[v].gen] = m
    BY <1>1 DEF Registered, Once, Heard
  <2>3. /\ backends[m] # 0 => locks[m] = backends[m] /\ m \in info /\ Heard(m) /\ saved[m] = "enabled"
        /\ m \in info => \/ backends[m] # 0
                         \/ \E v \in Closers : closing[v].gen # 0 /\ owner[closing[v].gen] = m
    BY DEF Registered, Once, Heard
  <2>4. backends[m] # 0 => m \notin {owner[g] : g \in closed}
    <3> SUFFICES ASSUME backends[m] # 0, closing[u].gen # 0, owner[closing[u].gen] = m
                 PROVE  FALSE
      BY <2>2
    <3>1. RefersTo(backends[m], m) /\ RefersTo(closing[u].gen, m)
      BY DEF Known, Refs, RefersTo
    <3>2. backends[m] = closing[u].gen
      BY <3>1, OnceIsOne DEF Known
    <3>3. QED
      BY <3>2 DEF Known, Closing
  <2>5. backends[m] # 0 => (m \in D <=> m \in now)
    BY <2>4 DEF Done
  <2>6. \A v \in Closers : closing[v].gen # 0 /\ owner[closing[v].gen] = m => v # u \/ m \in D
    BY <2>2 DEF Done
  <2>7. backends[m] # 0 => RefersTo(backends[m], m)
    BY DEF Known, Refs
  <2> HIDE DEF D
  <2>8. ASSUME backends'[m] # 0
        PROVE  locks'[m] = backends'[m] /\ m \in info' /\ Heard(m)' /\ saved'[m] = "enabled"
    <3>1. backends[m] # 0 /\ backends'[m] = backends[m] /\ m \notin now
      BY <2>2, <2>8
    <3>2. QED
      BY <2>2, <2>3, <2>5, <3>1 DEF Heard
  <2>9. ASSUME m \in info', backends'[m] = 0
        PROVE  \E v \in Closers : closing'[v].gen # 0 /\ owner'[closing'[v].gen] = m
    <3>1. m \in info /\ m \notin D
      BY <2>2, <2>9
    <3>2. CASE backends[m] # 0
      <4>1. m \in last
        BY <2>2, <2>5, <2>9, <3>1, <3>2
      <4>2. last = {m}
        BY <2>2, <4>1
      <4>3. QED
        BY <2>2, <2>7, <3>2, <4>2 DEF RefersTo
    <3>3. CASE backends[m] = 0
      BY <2>2, <2>3, <2>6, <3>1, <3>3
    <3>4. QED
      BY <3>2, <3>3
  <2>10. QED
    BY <2>8, <2>9
<1>7. ASSUME NEW r \in Requests, RequestStep(r)
      PROVE  Registered'
  <2>1. UNCHANGED <<backends, locks, info, saved, offered, unsaid, owner, closing>>
    BY <1>7, RequestFacts DEF Known
  <2>2. QED
    BY <1>1, <2>1 DEF Registered, Once
<1>8. CASE UNCHANGED vars
  BY <1>1, <1>8 DEF vars, registry, objects, Registered, Once
<1>9. QED
  BY <1>2, <1>3, <1>4, <1>5, <1>6, <1>7, <1>8, NextSteps DEF LoadStep, Known

\* A name that requests are resolved to has the lock of its backend, is advertised and
\* offered or has yet to be by the list or the poll that loaded it, and is saved as enabled; what is advertised is served, or being closed.
THEOREM NamesRegistered == Spec => []Registered
<1>1. Init => Registered
  BY DEF Init, Registered
<1>2. Spec => [](Known /\ Registered)
  BY <1>1, InitKnown, NextKnown, NextRegistered, PTL DEF Spec
<1>3. QED
  BY <1>2, PTL

-----------------------------------------------------------------------------
(* What locks and queue depths count.                                      *)

\* A release finds the lock held: it does not raise, and returns one permit to the
\* registered lock.
LEMMA ReleaseOnce ==
  ASSUME Known, NEW g \in Begun, Once(owner[g]), NEW free \in [Gens -> Nat],
         Release(owner[g], free), free[g] < Capacity(owner[g])
  PROVE  /\ permits'[g] = free[g] + (IF locks[owner[g]] = g THEN 1 ELSE 0)
         /\ depth'[owner[g]] = IF depth[owner[g]] = 0 THEN 0 ELSE depth[owner[g]] - 1
<1> DEFINE m == owner[g]
<1>1. m \in Models /\ g \in Gens /\ free[g] \in Nat /\ g # 0
  BY BoundsAssumption DEF Known, TypeOK, Begun, Gens
<1>2. locks[m] \in {0, g}
  <2> SUFFICES ASSUME locks[m] # 0 PROVE locks[m] = g
    OBVIOUS
  <2>1. RefersTo(locks[m], m) /\ RefersTo(g, m)
    BY <1>1 DEF Known, Refs, RefersTo
  <2>2. QED
    BY <2>1, OnceIsOne DEF Known
<1>3. m \in Serial => free[g] = 0
  BY <1>1 DEF Capacity
<1>4. ~Raises(m, free)
  BY <1>2, <1>3 DEF Raises
<1>5. /\ \A h \in Gens : h # locks[m] => permits'[h] = free[h]
      /\ locks[m] # 0 => permits'[locks[m]] = IF Raises(m, free) THEN free[locks[m]] ELSE free[locks[m]] + 1
      /\ depth'[m] = IF Raises(m, free) \/ depth[m] = 0 THEN depth[m] ELSE depth[m] - 1
  BY <1>1, ReleaseFacts DEF Known
<1>6. QED
  BY <1>1, <1>2, <1>4, <1>5

\* What a step of r does to the counts of m, whose backend object is g.
Queues(r, m, g) ==
    /\ r \notin Busy(m) /\ r \in Busy(m)' /\ r \notin Running(m)'
    /\ permits'[g] = permits[g] /\ depth'[m] = depth[m] + 1
Runs(r, m, g) ==
    /\ r \in Busy(m) /\ r \notin Running(m) /\ r \in Running(m)' /\ r \in Busy(m)'
    /\ permits'[g] = permits[g] - 1 /\ depth'[m] = depth[m]
Leaves(r, m, g) ==
    /\ r \in Busy(m) /\ r \notin Busy(m)' /\ r \notin Running(m)'
    /\ \/ permits'[g] = permits[g] + (IF r \in Running(m) /\ locks[m] = g THEN 1 ELSE 0)
       \/ r \notin Running(m) /\ locks[m] # g /\ permits'[g] = permits[g] - 1
    /\ cancels' = 0 => depth'[m] = IF depth[m] = 0 THEN 0 ELSE depth[m] - 1
Elsewhere(r, m, g) ==
    /\ r \notin Busy(m) /\ r \notin Busy(m)' /\ r \notin Running(m) /\ r \notin Running(m)'
    /\ permits'[g] = permits[g] /\ depth'[m] = depth[m]

LEMMA RequestOutcome ==
  ASSUME Known, Registered, Accounted, NEW r \in Requests, RequestStep(r),
         NEW g \in Begun, NEW m, owner[g] = m, Once(m)
  PROVE  Queues(r, m, g) \/ Runs(r, m, g) \/ Leaves(r, m, g) \/ Elsewhere(r, m, g)
<1> DEFINE Q == [pc : {"idle", "wait", "run"}, model : Models, gen : {0} \cup Gens, lock : {0} \cup Gens]
<1>1. /\ req \in [Requests -> Q] /\ permits \in [Gens -> Nat] /\ depth \in [Models -> Nat]
      /\ NoRequest.pc = "idle" /\ NoRequest \in Q /\ g \in Gens /\ m \in Models /\ g # 0
      /\ cancels \in 0 .. MaxCancels /\ cancels \in Nat
  BY IdleRequest, BoundsAssumption DEF Known, TypeOK, Begun, Gens
<1>2. /\ r \in Busy(m) <=> req[r].pc # "idle" /\ req[r].model = m
      /\ r \in Running(m) <=> req[r].pc = "run" /\ req[r].model = m
      /\ r \in Busy(m)' <=> req'[r].pc # "idle" /\ req'[r].model = m
      /\ r \in Running(m)' <=> req'[r].pc = "run" /\ req'[r].model = m
  BY DEF Busy, Running
<1>3. /\ permits[g] + Cardinality(Running(m)) <= Capacity(m)
      /\ Cardinality(Running(m)) \in Nat
      /\ r \in Running(m) => Cardinality(Running(m)) >= 1
  <2>1. IsFiniteSet(Running(m)) /\ Cardinality(Running(m)) \in Nat
    BY Counts
  <2>2. r \in Running(m) => Cardinality(Running(m)) # 0
    BY <2>1, FS_EmptySet
  <2>3. QED
    BY <2>1, <2>2 DEF Accounted
<1>c. Capacity(m) \in Nat
  BY SlotsAssumption DEF Capacity
<1>4. CASE PassEnd(r)
  BY <1>2, <1>4 DEF PassEnd, Elsewhere
<1>5. ASSUME ~PassEnd(r), r \notin Busy(m), r \notin Busy(m)'
      PROVE  Elsewhere(r, m, g)
  <2>1. req[r].pc # "idle" \/ req'[r].pc # "idle"
    BY <1>1, <1>5 DEF RequestStep, RequestBegin, RequestAcquire, RequestTimeout, RequestEnd, RequestCancel
  <2>2. PICK x \in Models :
           /\ req[r].pc # "idle" => req[r].model = x
           /\ req'[r].pc # "idle" => req'[r].model = x
           /\ \A y \in Models \ {x} : depth'[y] = depth[y]
           /\ \A h \in Gens : ~RefersTo(h, x) => permits'[h] = permits[h]
    BY RequestFacts DEF Known
  <2>3. ~(req[r].pc # "idle" /\ req[r].model = m) /\ ~(req'[r].pc # "idle" /\ req'[r].model = m)
    BY <1>2, <1>5
  <2>4. x # m
    BY <2>1, <2>2, <2>3
  <2>5. permits'[g] = permits[g] /\ depth'[m] = depth[m]
    BY <1>1, <2>2, <2>4 DEF RefersTo
  <2>6. r \notin Running(m) /\ r \notin Running(m)'
    BY <1>2, <2>3
  <2>7. QED
    BY <1>5, <2>5, <2>6 DEF Elsewhere
<1>6. ASSUME NEW x \in Models, RequestBegin(r, x), r \in Busy(m) \/ r \in Busy(m)'
      PROVE  Queues(r, m, g)
  <2>1. /\ req'[r] = [pc |-> IF locks[x] = 0 THEN "run" ELSE "wait", model |-> x, gen |-> backends[x], lock |-> locks[x]]
        /\ depth' = IF locks[x] = 0 THEN depth ELSE [depth EXCEPT ![x] = @ + 1]
        /\ permits' = permits /\ backends[x] # 0 /\ req[r].pc = "idle"
    BY <1>1, <1>6 DEF RequestBegin, objects
  <2>2. x = m
    BY <1>2, <1>6, <2>1
  <2>3. locks[m] # 0
    BY <1>1, <2>1, <2>2 DEF Registered, Once
  <2>4. req'[r].pc = "wait" /\ req'[r].model = m
    BY <2>1, <2>2, <2>3
  <2>5. QED
    BY <1>1, <1>2, <2>1, <2>2, <2>3, <2>4 DEF Queues
<1>7. ASSUME RequestAcquire(r), r \in Busy(m) \/ r \in Busy(m)'
      PROVE  Runs(r, m, g) \/ Leaves(r, m, g)
  <2> DEFINE q == req[r]
             free == [permits EXCEPT ![q.lock] = @ - 1]
  <2>1. req' = [req EXCEPT ![r] = NoRequest] \/ req' = [req EXCEPT ![r].pc = "run"]
    BY <1>7 DEF RequestAcquire
  <2>2. q.pc = "wait" /\ q.model = m /\ permits[q.lock] > 0
    BY <1>1, <1>2, <1>7, <2>1 DEF RequestAcquire
  <2>3. q.lock = g
    <3>1. RefersTo(q.lock, m) /\ RefersTo(g, m)
      BY <1>1, <2>2 DEF Known, Refs, RefersTo
    <3>2. QED
      BY <3>1, OnceIsOne DEF Known
  <2>4. free \in [Gens -> Nat] /\ free[g] = permits[g] - 1
    BY <1>1, <2>2, <2>3
  <2>5. CASE worker[q.gen] = "gone"
    <3>1. Release(m, free) /\ req' = [req EXCEPT ![r] = NoRequest]
      BY <1>7, <2>2, <2>5 DEF RequestAcquire
    <3> HIDE DEF free
    <3>2. permits[g] \in Nat /\ free[g] < Capacity(m)
      BY <1>1, <1>3, <1>c, <2>4
    <3>3. /\ permits'[g] = free[g] + (IF locks[m] = g THEN 1 ELSE 0)
          /\ depth'[m] = IF depth[m] = 0 THEN 0 ELSE depth[m] - 1
      BY <2>4, <3>1, <3>2, ReleaseOnce
    <3>4. req'[r].pc = "idle"
      BY <1>1, <3>1
    <3>5. \/ permits'[g] = permits[g] + (IF r \in Running(m) /\ locks[m] = g THEN 1 ELSE 0)
          \/ r \notin Running(m) /\ locks[m] # g /\ permits'[g] = permits[g] - 1
      BY <1>2, <2>2, <2>4, <3>2, <3>3
    <3>6. QED
      BY <1>2, <2>2, <3>3, <3>4, <3>5 DEF Leaves
  <2>6. CASE worker[q.gen] # "gone"
    <3>1. permits' = free /\ req' = [req EXCEPT ![r].pc = "run"] /\ depth' = depth
      BY <1>7, <2>6 DEF RequestAcquire
    <3>2. req'[r].pc = "run" /\ req'[r].model = m
      BY <1>1, <2>2, <3>1
    <3>3. QED
      BY <1>2, <2>2, <2>4, <3>1, <3>2 DEF Runs
  <2>7. QED
    BY <2>5, <2>6
<1>8. ASSUME RequestTimeout(r) \/ RequestEnd(r) \/ RequestCancel(r), r \in Busy(m) \/ r \in Busy(m)'
      PROVE  Leaves(r, m, g)
  <2>1. req' = [req EXCEPT ![r] = NoRequest]
    BY <1>8 DEF RequestTimeout, RequestEnd, RequestCancel
  <2>2. req'[r].pc = "idle" /\ r \in Busy(m) /\ r \notin Busy(m)' /\ r \notin Running(m)' /\ req[r].model = m
    BY <1>1, <1>2, <1>8, <2>1
  <2>3. ASSUME Release(m, permits), r \in Running(m)
        PROVE  /\ permits'[g] = permits[g] + (IF r \in Running(m) /\ locks[m] = g THEN 1 ELSE 0)
               /\ depth'[m] = IF depth[m] = 0 THEN 0 ELSE depth[m] - 1
    <3>1. permits[g] \in Nat /\ permits[g] < Capacity(m)
      BY <1>1, <1>3, <1>c, <2>3
    <3>2. /\ permits'[g] = permits[g] + (IF locks[m] = g THEN 1 ELSE 0)
          /\ depth'[m] = IF depth[m] = 0 THEN 0 ELSE depth[m] - 1
      BY <1>1, <2>3, <3>1, ReleaseOnce
    <3>3. QED
      BY <2>3, <3>2
  <2>4. CASE RequestTimeout(r)
    <3>1. r \notin Running(m) /\ permits' = permits /\ depth' = Dec(m)
      BY <1>2, <2>2, <2>4 DEF RequestTimeout
    <3>2. depth'[m] = IF depth[m] = 0 THEN 0 ELSE depth[m] - 1
      BY <1>1, <3>1 DEF Dec
    <3>3. QED
      BY <1>1, <2>2, <3>1, <3>2 DEF Leaves
  <2>5. CASE RequestEnd(r)
    <3>1. Release(m, permits) /\ r \in Running(m)
      BY <1>2, <2>2, <2>5 DEF RequestEnd
    <3>2. QED
      BY <2>2, <2>3, <3>1 DEF Leaves
  <2>6. CASE RequestCancel(r)
    <3>1. cancels' # 0
      BY <1>1, <2>6 DEF RequestCancel
    <3>2. CASE req[r].pc = "wait" /\ permits' = permits
      <4>1. r \notin Running(m)
        BY <1>2, <3>2
      <4>2. QED
        BY <1>1, <2>2, <3>1, <3>2, <4>1 DEF Leaves
    <3>3. CASE req[r].pc = "run" /\ Release(m, permits)
      <4>1. r \in Running(m)
        BY <1>2, <2>2, <3>3
      <4>2. QED
        BY <2>2, <2>3, <3>1, <3>3, <4>1 DEF Leaves
    <3>4. QED
      BY <2>2, <2>6, <3>2, <3>3 DEF RequestCancel
  <2>7. QED
    BY <1>8, <2>4, <2>5, <2>6
<1>9. QED
  BY <1>4, <1>5, <1>6, <1>7, <1>8 DEF RequestStep

\* A name whose backend object is still being filled has no requests.
LEMMA NoneBusy ==
  ASSUME Known, NEW l \in Loaders, loader[l] # 0, Once(owner[loader[l]])
  PROVE  Busy(owner[loader[l]]) = {} /\ Running(owner[loader[l]]) = {}
<1> DEFINE g == loader[l]
<1>1. RefersTo(g, owner[g])
  BY DEF Known, Refs, RefersTo
<1>2. ASSUME NEW r \in Requests, req[r].pc # "idle", req[r].model = owner[g] PROVE FALSE
  <2>1. RefersTo(req[r].gen, owner[g])
    BY <1>2 DEF Known, Refs
  <2>2. req[r].gen = g
    BY <1>1, <2>1, OnceIsOne DEF Known
  <2>3. QED
    BY <1>2, <2>2 DEF Known, Filling
<1>3. QED
  BY <1>2 DEF Busy, Running

LEMMA LoadBeginAccounted ==
  ASSUME Known, Accounted, [Next]_vars, NEW l \in Loaders, NEW x \in Models, LoadBegin(l, x)
  PROVE  Accounted'
<1>1. \A m : Once(m)' => Once(m)
  BY OnceBefore DEF Known
<1>2. /\ loads \in Nat /\ 0 \notin Gens /\ Begun \subseteq Gens /\ owner \in [Gens -> Models]
      /\ permits \in [Gens -> Nat] /\ locks \in [Models -> {0} \cup Gens]
  BY BoundsAssumption DEF Known, TypeOK, Begun, Gens
<1>3. /\ loads < MaxLoads /\ loads' = loads + 1 /\ owner' = [owner EXCEPT ![loads + 1] = x]
      /\ UNCHANGED <<locks, permits, req>>
  BY DEF LoadBegin, registry
<1>4. loads + 1 \in Gens \ Begun /\ Begun' = Begun \cup {loads + 1}
  BY <1>2, <1>3, BoundsAssumption DEF Begun, Gens
<1>5. \A m : Running(m)' = Running(m)
  BY <1>3 DEF Running
<1>6. permits[loads + 1] = 0 /\ owner'[loads + 1] = x
  BY <1>2, <1>3, <1>4 DEF Accounted
<1>7. ASSUME Once(x)'
      PROVE  Running(x) = {} /\ locks[x] # loads + 1
  <2>1. ASSUME NEW h \in Begun, owner[h] = x PROVE FALSE
    <3>1. /\ owner'[h] = x /\ h # loads + 1 /\ loads' \in Nat
          /\ h \in 1 .. loads' /\ loads + 1 \in 1 .. loads'
      BY <1>2, <1>3, <1>4, <2>1 DEF Begun
    <3>2. Cardinality({k \in 1 .. loads' : owner'[k] = x}) > 1
      BY <1>6, <3>1, TwoAreMore
    <3>3. QED
      BY <1>7, <3>2 DEF Once, Reloaded
  <2>2. QED
    BY <1>2, <1>4, <2>1 DEF Running, Known, Refs, RefersTo
<1>8. ASSUME NEW g \in Begun', NEW m, owner'[g] = m, Once(m)'
      PROVE  /\ permits[g] + Cardinality(Running(m)) <= Capacity(m)
             /\ locks[m] = g => permits[g] + Cardinality(Running(m)) = Capacity(m)
  <2>1. CASE g = loads + 1
    <3>1. permits[g] = 0 /\ m = x /\ Cardinality(Running(m)) = 0 /\ locks[m] # g
      BY <1>6, <1>7, <1>8, <2>1, FS_EmptySet
    <3>2. Capacity(m) \in Nat
      BY SlotsAssumption DEF Capacity
    <3>3. QED
      BY <3>1, <3>2
  <2>2. CASE g # loads + 1
    <3>1. g \in Begun /\ owner[g] = m /\ Once(m)
      BY <1>1, <1>2, <1>3, <1>4, <1>8, <2>2
    <3>2. QED
      BY <3>1 DEF Accounted
  <2>3. QED
    BY <2>1, <2>2
<1>9. \A g \in Gens \ Begun' : permits[g] = 0
  BY <1>4 DEF Accounted
<1>10. QED
  BY <1>3, <1>5, <1>8, <1>9 DEF Accounted

LEMMA LoadDoneAccounted ==
  ASSUME Known, Accounted, [Next]_vars, NEW l \in Loaders, LoadDone(l)
  PROVE  Accounted'
<1> DEFINE n == loader[l]
           x == owner[n]
<1>1. \A m : Once(m)' => Once(m)
  BY OnceBefore DEF Known
<1>2. /\ 0 \notin Gens /\ Begun \subseteq Gens /\ owner \in [Gens -> Models]
      /\ permits \in [Gens -> Nat] /\ locks \in [Models -> {0} \cup Gens]
  BY BoundsAssumption DEF Known, TypeOK, Begun, Gens
<1>3. /\ n # 0 /\ locks' = [locks EXCEPT ![x] = n] /\ permits' = [permits EXCEPT ![n] = Capacity(x)]
      /\ UNCHANGED <<owner, req, loads>>
  BY DEF LoadDone
<1>4. n \in Begun /\ x \in Models
  BY <1>2, <1>3 DEF Known, Refs
<1>5. Once(x) => Running(x) = {}
  BY <1>3, NoneBusy
<1>6. (\A m : Running(m)' = Running(m)) /\ Begun' = Begun
  BY <1>3 DEF Running, Begun
<1> HIDE DEF n
<1>7. ASSUME NEW g \in Begun, NEW m, owner[g] = m, Once(m)
      PROVE  /\ permits'[g] + Cardinality(Running(m)) <= Capacity(m)
             /\ locks'[m] = g => permits'[g] + Cardinality(Running(m)) = Capacity(m)
  <2>1. CASE g = n
    <3>1. permits'[g] = Capacity(m) /\ Cardinality(Running(m)) = 0
      BY <1>2, <1>3, <1>4, <1>5, <1>7, <2>1, FS_EmptySet
    <3>2. Capacity(m) \in Nat
      BY SlotsAssumption DEF Capacity
    <3>3. QED
      BY <3>1, <3>2
  <2>2. CASE g # n
    <3>1. permits'[g] = permits[g] /\ (locks'[m] = g => locks[m] = g)
      BY <1>2, <1>3, <1>4, <1>7, <2>2
    <3>2. QED
      BY <1>7, <3>1 DEF Accounted
  <2>3. QED
    BY <2>1, <2>2
<1>8. \A g \in Gens \ Begun : permits'[g] = 0
  BY <1>2, <1>3, <1>4 DEF Accounted
<1>9. QED
  BY <1>1, <1>3, <1>6, <1>7, <1>8 DEF Accounted

LEMMA RequestAccounted ==
  ASSUME Known, Registered, Accounted, [Next]_vars, NEW r \in Requests, RequestStep(r)
  PROVE  Accounted'
<1>1. /\ UNCHANGED <<locks, owner, loads>>
      /\ \A q \in Requests \ {r} : req'[q] = req[q]
  BY RequestFacts DEF Known
<1>2. Begun' = Begun /\ Begun \subseteq Gens /\ permits \in [Gens -> Nat] /\ permits' \in [Gens -> Nat]
  <2>1. permits' \in [Gens -> Nat]
    BY RequestFacts DEF Known
  <2>2. QED
    BY <1>1, <2>1, BoundsAssumption DEF Begun, Known, TypeOK, Gens
<1>3. ASSUME NEW g \in Begun, NEW m, owner[g] = m, Once(m)
      PROVE  /\ permits'[g] + Cardinality(Running(m)') <= Capacity(m)
             /\ locks[m] = g => permits'[g] + Cardinality(Running(m)') = Capacity(m)
  <2>1. /\ Cardinality(Running(m)') = Cardinality(Running(m))
              + (IF r \in Running(m)' THEN 1 ELSE 0) - (IF r \in Running(m) THEN 1 ELSE 0)
        /\ Cardinality(Running(m)) \in Nat
    BY <1>1, Counts, CountChange
  <2>2. /\ permits[g] + Cardinality(Running(m)) <= Capacity(m)
        /\ locks[m] = g => permits[g] + Cardinality(Running(m)) = Capacity(m)
        /\ permits[g] \in Nat /\ Capacity(m) \in Nat
    BY <1>2, <1>3, SlotsAssumption DEF Accounted, Capacity
  <2>3. Running(m) \subseteq Busy(m)
    BY DEF Running, Busy
  <2>4. Queues(r, m, g) \/ Runs(r, m, g) \/ Leaves(r, m, g) \/ Elsewhere(r, m, g)
    BY <1>3, RequestOutcome
  <2> DEFINE c == Cardinality(Running(m))
             d == Cardinality(Running(m)')
  <2>5. /\ Queues(r, m, g) \/ Elsewhere(r, m, g) => permits'[g] = permits[g] /\ d = c
        /\ Runs(r, m, g) => permits'[g] = permits[g] - 1 /\ d = c + 1
    BY <2>1, <2>3 DEF Queues, Runs, Elsewhere
  <2>6. Leaves(r, m, g) => permits'[g] + d <= permits[g] + c /\ (locks[m] = g => permits'[g] + d = permits[g] + c)
    BY <2>1, <2>2 DEF Leaves
  <2> HIDE DEF c, d
  <2>7. permits'[g] + d <= Capacity(m) /\ (locks[m] = g => permits'[g] + d = Capacity(m))
    <3>1. c \in Nat /\ d \in Int /\ permits'[g] \in Nat
      BY <1>2, <2>1 DEF c, d
    <3>2. permits[g] + c <= Capacity(m) /\ (locks[m] = g => permits[g] + c = Capacity(m))
      BY <2>2 DEF c
    <3>3. QED
      BY <2>2, <2>4, <2>5, <2>6, <3>1, <3>2
  <2>8. QED
    BY <2>7 DEF d
<1>4. \A g \in Gens \ Begun : permits'[g] = permits[g]
  <2>1. PICK m \in Models : \A g \in Gens : ~RefersTo(g, m) => permits'[g] = permits[g]
    BY RequestFacts DEF Known
  <2>2. QED
    BY <2>1 DEF RefersTo
<1>5. /\ \A g \in Gens \ Begun' : permits'[g] = 0
      /\ \A m : Once(m)' <=> Once(m)
  BY <1>1, <1>2, <1>4 DEF Accounted, Once, Reloaded
<1>6. QED
  BY <1>1, <1>2, <1>3, <1>5 DEF Accounted

LEMMA NextAccounted ==
  ASSUME Known, Registered, Accounted, [Next]_vars
  PROVE  Accounted'
<1>1. \A m : Once(m)' => Once(m)
  BY OnceBefore DEF Known
<1>2. Begun \subseteq Gens /\ owner \in [Gens -> Models]
  BY BoundsAssumption DEF Known, TypeOK, Begun, Gens
<1>3. ASSUME permits' = permits, req' = req, owner' = owner, loads' = loads,
             \A m \in Models : locks'[m] \in {0, locks[m]}
      PROVE  Accounted'
  <2>1. (\A m : Running(m)' = Running(m)) /\ Begun' = Begun /\ 0 \notin Begun
    BY <1>3 DEF Running, Begun
  <2>2. QED
    BY <1>1, <1>2, <1>3, <2>1 DEF Accounted
<1>4. ASSUME NEW l \in Loaders, LoadFail(l) \/ LoadLost(l)
      PROVE  Accounted'
  <2>1. permits' = permits /\ req' = req /\ owner' = owner /\ loads' = loads /\ locks' = locks
    BY <1>4 DEF LoadFail, LoadLost, registry, objects
  <2>2. QED
    BY <1>3, <2>1
<1>5. ASSUME Aside
      PROVE  Accounted'
  <2>1. permits' = permits /\ req' = req /\ owner' = owner /\ loads' = loads /\ locks' = locks
    BY <1>5 DEF Aside, ClearStatus, UnloadNone, ListEnd, registry, objects
  <2>2. QED
    BY <1>3, <2>1
<1>6. ASSUME Unloading
       PROVE  Accounted'
  <2>1. PICK u \in Closers, closed \in SUBSET Gens, now \in SUBSET Models, last \in SUBSET Models :
           Unloads(u, closed, now, last)
    BY <1>6 DEF Unloading
  <2>2. UnloadEffect(u, closed, now, last)
    BY <2>1, UnloadFacts DEF Known
  <2>3. permits' = permits /\ req' = req /\ owner' = owner /\ loads' = loads
    BY <2>2 DEF UnloadEffect
  <2>4. \A m \in Models : locks'[m] \in {0, locks[m]}
    BY <2>2 DEF UnloadEffect
  <2>5. QED
    BY <1>3, <2>3, <2>4
<1>7. CASE UNCHANGED vars
  BY <1>3, <1>7 DEF vars, registry, objects
<1>8. QED
  BY <1>4, <1>5, <1>6, <1>7, NextSteps, LoadBeginAccounted, LoadDoneAccounted, RequestAccounted DEF LoadStep, Known

LEMMA CancelsGrow ==
  ASSUME Known, [Next]_vars, cancels' = 0
  PROVE  cancels = 0
<1>1. cancels \in Nat
  BY BoundsAssumption DEF Known, TypeOK
<1>2. (\E r \in Requests : RequestStep(r)) => cancels' \in Nat /\ cancels <= cancels'
  BY RequestFacts, BoundsAssumption DEF Known
<1>3. (\E u \in Closers, closed \in SUBSET Gens, now, last \in SUBSET Models :
          UnloadEffect(u, closed, now, last)) => cancels' = cancels
  BY DEF UnloadEffect
<1>4. Unloading => cancels' = cancels
  BY <1>3, UnloadFacts DEF Unloading, Known
<1>5. (\E l \in Loaders, m \in Models : LoadBegin(l, m)) \/ (\E l \in Loaders : LoadStep(l)) => cancels' = cancels
  BY DEF LoadBegin, LoadStep, LoadDone, LoadFail, LoadLost
<1>6. Aside \/ UNCHANGED vars => cancels' = cancels
  BY DEF Aside, ClearStatus, UnloadNone, ListEnd, vars
<1>7. QED
  BY <1>1, <1>2, <1>4, <1>5, <1>6, NextSteps DEF Known

LEMMA RequestDepth ==
  ASSUME Known, Registered, Accounted, DepthCounts, cancels = 0, cancels' = 0,
         NEW r \in Requests, RequestStep(r), NEW m \in Models, locks[m] # 0, Once(m)
  PROVE  depth'[m] = Cardinality(Busy(m)')
<1> DEFINE g == locks[m]
           b == Cardinality(Busy(m))
           d == Cardinality(Busy(m)')
<1>1. g \in Begun /\ owner[g] = m
  BY DEF Known, Refs, RefersTo
<1>2. \A q \in Requests \ {r} : req'[q] = req[q]
  BY RequestFacts DEF Known
<1>3. /\ d = b + (IF r \in Busy(m)' THEN 1 ELSE 0) - (IF r \in Busy(m) THEN 1 ELSE 0)
      /\ b \in Nat /\ d \in Nat
  BY <1>2, Counts, CountChange
<1>4. depth[m] = b
  BY DEF DepthCounts, Busy, Once
<1>5. Queues(r, m, g) \/ Runs(r, m, g) \/ Leaves(r, m, g) \/ Elsewhere(r, m, g)
  BY <1>1, RequestOutcome
<1>6. r \in Busy(m) => b # 0
  <2>1. IsFiniteSet(Busy(m))
    BY Counts
  <2>2. QED
    BY <2>1, FS_EmptySet
<1>7. /\ Queues(r, m, g) => depth'[m] = depth[m] + 1 /\ d = b + 1
      /\ Runs(r, m, g) \/ Elsewhere(r, m, g) => depth'[m] = depth[m] /\ d = b
  BY <1>3 DEF Queues, Runs, Elsewhere
<1>8. Leaves(r, m, g) => b # 0 /\ d = b - 1 /\ depth'[m] = IF depth[m] = 0 THEN 0 ELSE depth[m] - 1
  BY <1>3, <1>6 DEF Leaves
<1> HIDE DEF b, d
<1>9. depth'[m] = d
  BY <1>3, <1>4, <1>5, <1>7, <1>8
<1>10. QED
  BY <1>9 DEF d

LEMMA NextDepthCounts ==
  ASSUME Known, Registered, Accounted, DepthCounts, [Next]_vars
  PROVE  DepthCounts'
<1> SUFFICES ASSUME cancels' = 0, NEW m \in Models, locks'[m] # 0, Once(m)'
             PROVE  depth'[m] = Cardinality(Busy(m)')
  BY DEF DepthCounts, Busy, Once
<1>1. Once(m) /\ cancels = 0
  BY OnceBefore, CancelsGrow DEF Known
<1>2. locks[m] # 0 => depth[m] = Cardinality(Busy(m))
  BY <1>1 DEF DepthCounts, Busy, Once
<1>3. CASE locks'[m] = locks[m] /\ depth'[m] = depth[m] /\ req' = req
  <2>1. Busy(m)' = Busy(m)
    BY <1>3 DEF Busy
  <2>2. QED
    BY <1>2, <1>3, <2>1
<1>4. ASSUME NEW l \in Loaders, LoadDone(l)
      PROVE  depth'[m] = Cardinality(Busy(m)')
  <2> DEFINE x == owner[loader[l]]
  <2>1. /\ locks' = [locks EXCEPT ![x] = loader[l]] /\ depth' = [depth EXCEPT ![x] = 0] /\ req' = req /\ loader[l] # 0
    BY <1>4 DEF LoadDone
  <2>2. locks \in [Models -> {0} \cup Gens] /\ depth \in [Models -> Nat]
    BY DEF Known, TypeOK
  <2>3. CASE m = x
    <3>1. Busy(m) = {}
      BY <1>1, <2>1, <2>3, NoneBusy
    <3>2. Busy(m)' = {}
      BY <2>1, <3>1 DEF Busy
    <3>3. QED
      BY <2>1, <2>2, <2>3, <3>2, FS_EmptySet
  <2>4. CASE m # x
    BY <1>3, <2>1, <2>2, <2>4
  <2>5. QED
    BY <2>3, <2>4
<1>5. ASSUME Unloading
      PROVE  depth'[m] = Cardinality(Busy(m)')
  <2>1. PICK u \in Closers, closed \in SUBSET Gens, now \in SUBSET Models, last \in SUBSET Models :
           Unloads(u, closed, now, last)
    BY <1>5 DEF Unloading
  <2>2. UnloadEffect(u, closed, now, last)
    BY <2>1, UnloadFacts DEF Known
  <2>3. /\ locks' = [x \in Models |-> IF x \in Done(closed, now) THEN 0 ELSE locks[x]]
        /\ depth' = [x \in Models |-> IF x \in Done(closed, now) THEN 0 ELSE depth[x]]
        /\ req' = req
    BY <2>2 DEF UnloadEffect
  <2>4. QED
    BY <1>3, <2>3
<1>6. ASSUME NEW r \in Requests, RequestStep(r)
      PROVE  depth'[m] = Cardinality(Busy(m)')
  <2>1. locks' = locks
    BY <1>6, RequestFacts DEF Known
  <2>2. QED
    BY <1>1, <1>6, <2>1, RequestDepth
<1>7. (\E l \in Loaders, x \in Models : LoadBegin(l, x)) => locks' = locks /\ depth' = depth /\ req' = req
  BY DEF LoadBegin, registry
<1>8. (\E l \in Loaders : LoadFail(l) \/ LoadLost(l)) => locks' = locks /\ depth' = depth /\ req' = req
  BY DEF LoadFail, LoadLost, registry
<1>9. Aside \/ UNCHANGED vars => locks' = locks /\ depth' = depth /\ req' = req
  BY DEF Aside, ClearStatus, UnloadNone, ListEnd, vars, registry
<1>10. QED
  BY <1>3, <1>4, <1>5, <1>6, <1>7, <1>8, <1>9, NextSteps DEF LoadStep, Known

-----------------------------------------------------------------------------
(* One pass at a time.                                                     *)

LEMMA RequestComputing ==
  ASSUME Known, Computing, cancels = 0, cancels' = 0, NEW r \in Requests, RequestStep(r), passes'[r] # 0
  PROVE  req'[r].pc = "run" /\ req'[r].gen = passes'[r]
<1> DEFINE Q == [pc : {"idle", "wait", "run"}, model : Models, gen : {0} \cup Gens, lock : {0} \cup Gens]
<1>1. req \in [Requests -> Q] /\ passes \in [Requests -> {0} \cup Gens] /\ cancels \in Nat
  BY BoundsAssumption DEF Known, TypeOK
<1>2. passes[r] # 0 => req[r].pc = "run" /\ req[r].gen = passes[r]
  BY DEF Computing
<1>3. CASE \E m \in Models : RequestBegin(r, m)
  <2>1. PICK m \in Models : RequestBegin(r, m)
    BY <1>3
  <2>2. /\ req'[r] = [pc |-> IF locks[m] = 0 THEN "run" ELSE "wait", model |-> m, gen |-> backends[m], lock |-> locks[m]]
        /\ passes[r] = 0 /\ passes' = IF locks[m] = 0 THEN [passes EXCEPT ![r] = backends[m]] ELSE passes
    BY <1>1, <2>1 DEF RequestBegin
  <2>3. locks[m] = 0 /\ passes'[r] = backends[m]
    BY <1>1, <2>2
  <2>4. QED
    BY <2>2, <2>3
<1>4. CASE RequestAcquire(r)
  <2>1. req[r].pc = "wait" /\ passes[r] = 0
    BY <1>2, <1>4 DEF RequestAcquire
  <2>2. req' = [req EXCEPT ![r].pc = "run"] /\ passes' = [passes EXCEPT ![r] = req[r].gen]
    BY <1>4, <2>1 DEF RequestAcquire
  <2>3. req'[r].pc = "run" /\ req'[r].gen = req[r].gen /\ passes'[r] = req[r].gen
    BY <1>1, <2>2
  <2>4. QED
    BY <2>3
<1>5. CASE RequestTimeout(r)
  BY <1>2, <1>5 DEF RequestTimeout
<1>6. CASE RequestEnd(r) \/ PassEnd(r)
  <2>1. passes' = [passes EXCEPT ![r] = 0]
    BY <1>6 DEF RequestEnd, PassEnd
  <2>2. QED
    BY <1>1, <2>1
<1>7. CASE RequestCancel(r)
  BY <1>1, <1>7 DEF RequestCancel
<1>8. QED
  BY <1>3, <1>4, <1>5, <1>6, <1>7 DEF RequestStep

LEMMA NextComputing ==
  ASSUME Known, Computing, [Next]_vars
  PROVE  Computing'
<1> SUFFICES ASSUME cancels' = 0, NEW q \in Requests, passes'[q] # 0
             PROVE  req'[q].pc = "run" /\ req'[q].gen = passes'[q]
  BY DEF Computing
<1>1. cancels = 0
  BY CancelsGrow DEF Known
<1>2. passes[q] # 0 => req[q].pc = "run" /\ req[q].gen = passes[q]
  BY <1>1 DEF Computing
<1>3. CASE req' = req /\ passes'[q] \in {0, passes[q]}
  BY <1>2, <1>3
<1>4. ASSUME NEW r \in Requests, RequestStep(r)
      PROVE  req'[q].pc = "run" /\ req'[q].gen = passes'[q]
  <2>1. CASE q = r
    BY <1>1, <1>4, <2>1, RequestComputing
  <2>2. CASE q # r
    <3>1. req'[q] = req[q] /\ passes'[q] = passes[q]
      BY <1>4, <2>2, RequestFacts DEF Known
    <3>2. QED
      BY <1>2, <3>1
  <2>3. QED
    BY <2>1, <2>2
<1>5. ASSUME Unloading
      PROVE  req' = req /\ passes'[q] \in {0, passes[q]}
  <2>1. PICK u \in Closers, closed \in SUBSET Gens, now \in SUBSET Models, last \in SUBSET Models :
           Unloads(u, closed, now, last)
    BY <1>5 DEF Unloading
  <2>2. UnloadEffect(u, closed, now, last)
    BY <2>1, UnloadFacts DEF Known
  <2>3. QED
    BY <2>2 DEF UnloadEffect
<1>6. (\E l \in Loaders, x \in Models : LoadBegin(l, x)) \/ (\E l \in Loaders : LoadStep(l)) => req' = req /\ passes' = passes
  BY DEF LoadBegin, LoadStep, LoadDone, LoadFail, LoadLost
<1>7. Aside \/ UNCHANGED vars => req' = req /\ passes' = passes
  BY DEF Aside, ClearStatus, UnloadNone, ListEnd, vars
<1>8. QED
  BY <1>3, <1>4, <1>5, <1>6, <1>7, NextSteps DEF Known

\* The inductive invariant holds throughout.
THEOREM Inductive == Spec => []IInv
<1>1. Init => Registered /\ Accounted /\ DepthCounts /\ Computing
  BY DEF Init, Registered, Accounted, DepthCounts, Computing, Begun
<1>2. IInv <=> Known /\ Registered /\ Accounted /\ DepthCounts /\ Computing
  BY DEF IInv, Known
<1>3. Init => IInv
  BY <1>1, <1>2, InitKnown
<1>4. IInv /\ [Next]_vars => IInv'
  <2>1. (IInv <=> Known /\ Registered /\ Accounted /\ DepthCounts /\ Computing)'
    BY DEF IInv, Known
  <2>2. QED
    BY <1>2, <2>1, NextKnown, NextRegistered, NextAccounted, NextDepthCounts, NextComputing
<1>5. QED
  BY <1>3, <1>4, PTL DEF Spec

\* As long as nothing is cancelled and a name is loaded once, the lock in front of a
\* llama.cpp backend keeps it to one forward pass at a time.
THEOREM OnePassAtATime == Spec => []OnePass
<1>1. ASSUME IInv PROVE OnePass
  <2> SUFFICES ASSUME cancels = 0, NEW g \in Gens, owner[g] \in Serial, Once(owner[g])
               PROVE  Cardinality(Passes(g)) <= 1
    BY DEF OnePass, Once
  <2> DEFINE m == owner[g]
  <2>1. Passes(g) \subseteq Running(m)
    <3> SUFFICES ASSUME NEW r \in Requests, passes[r] = g
                 PROVE  req[r].pc = "run" /\ req[r].model = m
      BY DEF Passes, Running
    <3>1. g # 0
      BY DEF Gens
    <3>2. req[r].pc = "run" /\ req[r].gen = g
      BY <1>1, <3>1 DEF IInv, Computing
    <3>3. QED
      BY <1>1, <3>2 DEF IInv, Refs, RefersTo
  <2>2. CASE Passes(g) = {}
    BY <2>2, FS_EmptySet
  <2>3. CASE Passes(g) # {}
    <3>1. PICK r \in Requests : passes[r] = g
      BY <2>3 DEF Passes
    <3>2. g \in Begun
      <4>1. g # 0
        BY DEF Gens
      <4>2. req[r].pc = "run" /\ req[r].gen = g
        BY <1>1, <3>1, <4>1 DEF IInv, Computing
      <4>3. QED
        BY <1>1, <4>2 DEF IInv, Refs, RefersTo
    <3>3. permits[g] + Cardinality(Running(m)) <= Capacity(m) /\ Capacity(m) = 1 /\ permits[g] \in Nat
      BY <1>1, <3>2 DEF IInv, Accounted, Capacity, TypeOK
    <3>4. IsFiniteSet(Running(m)) /\ Cardinality(Running(m)) \in Nat
      BY Counts
    <3>5. Cardinality(Passes(g)) <= Cardinality(Running(m)) /\ Cardinality(Passes(g)) \in Nat
      BY <2>1, <3>4, FS_Subset, FS_CardinalityType
    <3>6. QED
      BY <3>3, <3>4, <3>5
  <2>4. QED
    BY <2>2, <2>3
<1>2. QED
  BY <1>1, Inductive, PTL

\* Timeouts, failures, cancellations, unloads and evictions neither lose a permit of a
\* registered lock nor return one twice, and, without cancellations, the advertised queue
\* depth is the number of requests that wait or run.
THEOREM CountsAreHeld == Spec => []CountsHold
<1>1. ASSUME IInv PROVE CountsHold
  <2>1. ASSUME NEW m \in Models, locks[m] # 0, Once(m)
        PROVE  permits[locks[m]] + Cardinality(Running(m)) = Capacity(m)
    <3>1. RefersTo(locks[m], m)
      BY <1>1, <2>1 DEF IInv, Refs
    <3>2. QED
      BY <1>1, <2>1, <3>1 DEF IInv, Accounted, RefersTo
  <2>2. PermitsConserved
    BY <2>1 DEF PermitsConserved, Running, Once
  <2>3. QED
    BY <1>1, <2>2 DEF CountsHold, IInv
<1>2. QED
  BY <1>1, Inductive, PTL

-----------------------------------------------------------------------------
(* Relays and restoring, for any endpoints, models and files, and any      *)
(* bounds (module Sources).                                                *)

TaskRecords == [at : {"idle", "asked", "claim", "load", "withdraw"}, r : Relays \cup {None},
                dropped : BOOLEAN, own : SUBSET Names, left : SUBSET Upstream,
                seen : SUBSET Names, names : SUBSET Names, all : BOOLEAN]

\* A name that can be registered for the endpoint r: the plain one, or one qualified by its label.
NameFor(r, n) == n \in Names /\ n[1] \in {"relay", Label[r]}

\* An endpoint of the label of q.
Akin(b, q) == b \in Relays /\ Label[b] = Label[q]

\* An operation works for an endpoint, and loads names that can be its own.
Endpointed ==
    \A s \in Lanes : AtWork(s) =>
        /\ task[s].r \in Relays
        /\ task[s].at = "load" => \A n \in task[s].names : NameFor(task[s].r, n)

\* No model kills the process without an attempt of its own having been counted: while a model may
\* be restored, at least as many are counted as it had kills.
Counted(n) ==
    /\ killed[n] <= MaxAttempts
    /\ ~IsFile(n) \/ n \in loaded => killed[n] = 0
    /\ configured[n] = "on" \/ (phase = "restore" /\ n \in todo) \/ (restoring = n /\ n # None) => killed[n] <= attempts[n]
    /\ restoring = n /\ n # None /\ IsFile(n) /\ ~outrun => killed[n] < attempts[n]

\* While one operation is at work at a time, what an endpoint has registered is its own by name
\* and was last loaded from one of its label, and what is being loaded no other has registered.
Undisturbed ==
    /\ \A s, u \in Lanes : AtWork(s) /\ AtWork(u) => s = u
    /\ \A s \in Lanes : AtWork(s) /\ task[s].dropped => task[s].at = "withdraw"
    /\ \A q \in known : \A n \in owned[q] : Akin(base[n], q) /\ NameFor(q, n)
    /\ \A s \in Lanes : task[s].at = "load" =>
          \A n \in task[s].names, q \in known : n \in owned[q] => Akin(q, task[s].r)

SrcInv ==
    /\ SrcTypeOK /\ Endpointed
    /\ (phase = "restore" => todo \subseteq Names) /\ (phase = "relays" => todo \subseteq Relays)
    /\ \A n \in Names : Counted(n)
    /\ ~overlapped => Undisturbed

LEMMA NamesAre ==
  /\ \A m \in Upstream : Plain(m) \in Names /\ ~IsFile(Plain(m)) /\ \A r : NameFor(r, Plain(m))
  /\ \A r \in Relays, m \in Upstream :
        /\ Qualified(r, m) \in Names /\ ~IsFile(Qualified(r, m)) /\ NameFor(r, Qualified(r, m))
        /\ Qualified(r, m)[1] = Label[r] /\ Label[r] # "relay"
  /\ \A r \in Relays, n \in Names : NameFor(r, n) => ~IsFile(n)
BY RelaysAssumption DEF Names, Plain, Qualified, IsFile, NameFor, Labels

\* What the operations make of the record of a task.
LEMMA RestingIs == Resting \in TaskRecords /\ Resting.at = "idle"
BY DEF Resting, TaskRecords

LEMMA AskingIs ==
  ASSUME NEW r \in Relays
  PROVE  Asking(r) \in TaskRecords /\ Asking(r).at = "asked" /\ Asking(r).r = r /\ ~Asking(r).dropped
BY DEF Asking, Resting, TaskRecords

LEMMA WithdrawingIs ==
  ASSUME NEW t \in TaskRecords, NEW names \in SUBSET Names, NEW all \in BOOLEAN
  PROVE  /\ Withdrawing(t, names, all) \in TaskRecords
         /\ Withdrawing(t, names, all).at \in {"idle", "withdraw"}
         /\ Withdrawing(t, names, all).at = "withdraw" => Withdrawing(t, names, all).r = t.r
<1>1. CASE names = {}
  BY <1>1, RestingIs DEF Withdrawing
<1>2. CASE names # {}
  <2>1. Withdrawing(t, names, all) = [t EXCEPT !.at = "withdraw", !.names = names, !.all = all, !.left = {}, !.seen = {}]
    BY <1>2 DEF Withdrawing
  <2>2. QED
    BY <2>1 DEF TaskRecords
<1>3. QED
  BY <1>1, <1>2

Leaving(t, given)   == [t EXCEPT !.dropped = TRUE, !.own = given]
Claiming(t, models) == [t EXCEPT !.at = "claim", !.left = models]
Seeing(t, models, names) == [t EXCEPT !.left = models, !.seen = names]
Loading(t, names)   == [t EXCEPT !.at = "load", !.names = names]
Holding(t, given)   == [t EXCEPT !.own = given]
BackFrom(t)         == [t EXCEPT !.at = "claim", !.names = {}]

LEMMA TaskChanges ==
  ASSUME NEW t \in TaskRecords
  PROVE  /\ \A given \in SUBSET Names : LET x == Leaving(t, given) IN
              x \in TaskRecords /\ x.at = t.at /\ x.r = t.r /\ x.names = t.names
         /\ \A models \in SUBSET Upstream : LET x == Claiming(t, models) IN
              x \in TaskRecords /\ x.at = "claim" /\ x.r = t.r /\ x.dropped = t.dropped
         /\ \A models \in SUBSET Upstream, names \in SUBSET Names : LET x == Seeing(t, models, names) IN
              x \in TaskRecords /\ x.at = t.at /\ x.r = t.r /\ x.dropped = t.dropped /\ x.names = t.names
         /\ \A names \in SUBSET Names : LET x == Loading(t, names) IN
              x \in TaskRecords /\ x.at = "load" /\ x.r = t.r /\ x.dropped = t.dropped /\ x.names = names
         /\ \A given \in SUBSET Names : LET x == Holding(t, given) IN
              x \in TaskRecords /\ x.at = t.at /\ x.r = t.r /\ x.dropped = t.dropped /\ x.names = t.names
         /\ LET x == BackFrom(t) IN
              x \in TaskRecords /\ x.at = "claim" /\ x.r = t.r /\ x.dropped = t.dropped
<1>1. t \in [at : {"idle", "asked", "claim", "load", "withdraw"}, r : Relays \cup {None},
             dropped : BOOLEAN, own : SUBSET Names, left : SUBSET Upstream,
             seen : SUBSET Names, names : SUBSET Names, all : BOOLEAN]
  BY DEF TaskRecords
<1>2. QED
  BY <1>1 DEF TaskRecords, Leaving, Claiming, Seeing, Loading, Holding, BackFrom

-----------------------------------------------------------------------------
(* What the operations of the relay manager do to the tasks.               *)



\* The types, in the words of the lemmas above.
LEMMA SrcFacts ==
  ASSUME SrcInv
  PROVE  /\ configured \in [Names -> {"none", "on", "off"}] /\ base \in [Names -> Relays \cup {None}]
         /\ attempts \in [Names -> 0 .. MaxAttempts] /\ killed \in [Names -> 0 .. Kills]
         /\ phase \in {"down", "restore", "relays", "up"} /\ todo \subseteq Names \cup Relays
         /\ planned \in [Names -> Relays \cup {None}]
         /\ restoring \in Names \cup {None} /\ loaded \subseteq Names
         /\ known \subseteq Relays /\ owned \in [Relays -> SUBSET Names]
         /\ task \in [Lanes -> TaskRecords]
         /\ overlapped \in BOOLEAN /\ outrun \in BOOLEAN /\ calls \in 0 .. Calls
         /\ Endpointed /\ \A n \in Names : Counted(n)
         /\ (phase = "restore" => todo \subseteq Names) /\ (phase = "relays" => todo \subseteq Relays)
BY DEF SrcInv, SrcTypeOK, TaskRecords

\* The part of the invariant that the relay manager can disturb.
Relaying ==
    /\ known \subseteq Relays /\ owned \in [Relays -> SUBSET Names] /\ task \in [Lanes -> TaskRecords]
    /\ overlapped \in BOOLEAN /\ Endpointed
    /\ ~overlapped => Undisturbed

LEMMA OwnIs ==
  ASSUME SrcInv, NEW s \in Lanes, AtWork(s)
  PROVE  /\ task[s] \in TaskRecords /\ task[s].r \in Relays /\ Own(s) \in SUBSET Names
         /\ ~task[s].dropped => Own(s) = owned[task[s].r]
<1>1. task[s] \in TaskRecords /\ task[s].r \in Relays
  BY SrcFacts DEF Endpointed
<1>2. task[s].own \in SUBSET Names /\ owned[task[s].r] \in SUBSET Names
  BY <1>1, SrcFacts DEF TaskRecords
<1>3. QED
  BY <1>1, <1>2 DEF Own

LEMMA DroppedIs ==
  ASSUME SrcInv, NEW r \in Relays
  PROVE  Dropped(r) \in [Lanes -> TaskRecords] /\ \A s \in Lanes :
            Dropped(r)[s].at = task[s].at /\ Dropped(r)[s].r = task[s].r /\ Dropped(r)[s].names = task[s].names
<1> DEFINE new(s) == IF task[s].r = r /\ ~task[s].dropped
                     THEN Leaving(task[s], owned[r]) ELSE task[s]
<1>1. Dropped(r) = [s \in Lanes |-> new(s)]
  BY DEF Dropped, Leaving
<1>2. ASSUME NEW s \in Lanes
      PROVE  new(s) \in TaskRecords /\ new(s).at = task[s].at /\ new(s).r = task[s].r /\ new(s).names = task[s].names
  <2>1. task[s] \in TaskRecords /\ owned[r] \in SUBSET Names
    BY SrcFacts
  <2>2. LET x == Leaving(task[s], owned[r]) IN
           x \in TaskRecords /\ x.at = task[s].at /\ x.r = task[s].r /\ x.names = task[s].names
    BY <2>1, TaskChanges
  <2>3. QED
    BY <2>1, <2>2
<1> HIDE DEF new
<1>3. QED
  BY <1>1, <1>2

\* An operation that begins finds the others at rest, or overlaps them.
LEMMA BeginIs ==
  ASSUME SrcInv, NEW s \in Lanes, NEW tasks \in [Lanes -> TaskRecords], NEW t \in TaskRecords,
         \A u \in Lanes : tasks[u].at = task[u].at /\ tasks[u].r = task[u].r /\ tasks[u].names = task[u].names,
         t.at \in {"idle", "asked", "withdraw"}, t.at # "idle" => t.r \in Relays,
         t.at # "idle" /\ t.dropped => t.at = "withdraw",
         known' \subseteq Relays, owned' \in [Relays -> SUBSET Names], UNCHANGED base,
         \A q \in known' : owned'[q] = {} \/ (q \in known /\ owned'[q] = owned[q]),
         Begin(s, tasks, t)
  PROVE  Relaying'
<1>1. task' = [tasks EXCEPT ![s] = t] /\ overlapped' = (overlapped \/ \E u \in Lanes : AtWork(u))
  BY DEF Begin
<1>2. task' \in [Lanes -> TaskRecords] /\ task'[s] = t /\ \A u \in Lanes : u # s => task'[u] = tasks[u]
  BY <1>1
<1>3. Endpointed'
  <2>1. \A u \in Lanes : u # s /\ AtWork(u)' => AtWork(u) /\ task'[u].r = task[u].r /\ task'[u].at = task[u].at /\ task'[u].names = task[u].names
    BY <1>2 DEF AtWork
  <2>2. AtWork(s)' => task'[s].r \in Relays /\ task'[s].at # "load"
    BY <1>2 DEF AtWork
  <2>3. QED
    BY <2>1, <2>2, SrcFacts DEF Endpointed
<1>4. ASSUME ~overlapped' PROVE Undisturbed'
  <2>1. Undisturbed /\ \A u \in Lanes : ~AtWork(u)
    BY <1>1, <1>4 DEF SrcInv
  <2>2. \A u \in Lanes : AtWork(u)' => u = s
    BY <1>2, <2>1 DEF AtWork
  <2>3. \A q \in known' : \A n \in owned'[q] : q \in known /\ n \in owned[q]
    OBVIOUS
  <2>4. \A u \in Lanes : AtWork(u)' => task'[u] = t
    BY <1>2, <2>2
  <2>5. \A u \in Lanes : task'[u].at # "load"
    BY <2>4 DEF AtWork
  <2>6. \A u \in Lanes : AtWork(u)' /\ task'[u].dropped => task'[u].at = "withdraw"
    BY <2>4 DEF AtWork
  <2>7. \A q \in known' : \A n \in owned'[q] : Akin(base'[n], q) /\ NameFor(q, n)'
    BY <2>1, <2>3 DEF Undisturbed, NameFor
  <2>8. QED
    BY <2>2, <2>5, <2>6, <2>7 DEF Undisturbed
<1>5. overlapped' \in BOOLEAN
  BY <1>1
<1>6. QED
  BY <1>2, <1>3, <1>4, <1>5 DEF Relaying

\* What a step of an operation under way has to show.
LEMMA WorkIs ==
  ASSUME SrcInv, NEW s \in Lanes, AtWork(s), NEW t \in TaskRecords,
         t.at # "idle" => t.r = task[s].r,
         t.at = "load" => \A n \in t.names : NameFor(t.r, n),
         task' = [task EXCEPT ![s] = t], UNCHANGED <<overlapped, known>>,
         owned' \in [Relays -> SUBSET Names],
         Undisturbed => /\ t.at # "idle" /\ t.dropped => t.at = "withdraw"
                        /\ \A q \in known : \A n \in owned'[q] : Akin(base'[n], q) /\ NameFor(q, n)
                        /\ t.at = "load" => \A n \in t.names, q \in known : n \in owned'[q] => Akin(q, t.r)
  PROVE  Relaying'
<1>1. task' \in [Lanes -> TaskRecords] /\ task'[s] = t /\ \A u \in Lanes : u # s => task'[u] = task[u]
  BY SrcFacts
<1>2. Endpointed'
  <2>1. \A u \in Lanes : u # s /\ AtWork(u)' => AtWork(u) /\ task'[u] = task[u]
    BY <1>1 DEF AtWork
  <2>2. AtWork(s)' => task'[s].r \in Relays /\ (task'[s].at = "load" => \A n \in task'[s].names : NameFor(task'[s].r, n))
    BY <1>1, SrcFacts DEF AtWork, Endpointed
  <2>3. \A r, n : NameFor(r, n)' <=> NameFor(r, n)
    BY DEF NameFor
  <2>4. QED
    BY <2>1, <2>2, <2>3, SrcFacts DEF Endpointed
<1>3. ASSUME ~overlapped' PROVE Undisturbed'
  <2>1. Undisturbed
    BY <1>3 DEF SrcInv
  <2>2. \A u \in Lanes : AtWork(u)' => u = s
    BY <1>1, <2>1 DEF AtWork, Undisturbed
  <2>3. \A u \in Lanes : AtWork(u)' => task'[u] = t
    BY <1>1, <2>2
  <2>4. \A u \in Lanes : task'[u].at = "load" => \A n \in task'[u].names, q \in known' : n \in owned'[q] => Akin(q, task'[u].r)
    BY <2>1, <2>3 DEF AtWork
  <2>5. \A u \in Lanes : AtWork(u)' /\ task'[u].dropped => task'[u].at = "withdraw"
    BY <2>1, <2>3 DEF AtWork
  <2>6. \A q \in known' : \A n \in owned'[q] : Akin(base'[n], q) /\ NameFor(q, n)'
    BY <2>1 DEF NameFor
  <2>7. QED
    BY <2>2, <2>4, <2>5, <2>6 DEF Undisturbed
<1>4. QED
  BY <1>1, <1>2, <1>3, SrcFacts DEF Relaying

LEMMA AddRelaying ==
  ASSUME SrcInv, NEW s \in Lanes, NEW r \in Relays, Add(s, r)
  PROVE  Relaying'
<1>1. /\ Begin(s, Dropped(r), Asking(r)) /\ known' = known \cup {r} /\ owned' = [owned EXCEPT ![r] = {}]
      /\ UNCHANGED base
  BY DEF Add, disk
<1>2. known' \subseteq Relays /\ owned' \in [Relays -> SUBSET Names]
      /\ \A q \in known' : owned'[q] = {} \/ (q \in known /\ owned'[q] = owned[q])
  BY <1>1, SrcFacts
<1>3. QED
  BY <1>1, <1>2, DroppedIs, AskingIs, BeginIs

LEMMA AskRelaying ==
  ASSUME SrcInv, NEW s \in Lanes, NEW r \in Relays, Ask(s, r)
  PROVE  Relaying'
<1>1. Begin(s, task, Asking(r)) /\ UNCHANGED <<known, owned, base>>
  BY DEF Ask, disk
<1>2. QED
  BY <1>1, AskingIs, BeginIs, SrcFacts

LEMMA RemoveRelaying ==
  ASSUME SrcInv, NEW r \in Relays, Remove(r)
  PROVE  Relaying'
<1> DEFINE x == Leaving(Asking(r), owned[r])
           t == Withdrawing(x, owned[r], TRUE)
<1>1. /\ Begin("api", Dropped(r), t) /\ known' = known \ {r} /\ owned' = [owned EXCEPT ![r] = {}]
      /\ UNCHANGED base
  BY DEF Remove, disk, Leaving
<1>2. known' \subseteq Relays /\ owned' \in [Relays -> SUBSET Names] /\ owned[r] \in SUBSET Names
      /\ \A q \in known' : owned'[q] = {} \/ (q \in known /\ owned'[q] = owned[q])
  BY <1>1, SrcFacts
<1>3. x \in TaskRecords /\ x.r = r
  BY <1>2, AskingIs, TaskChanges
<1> HIDE DEF x
<1>4. t \in TaskRecords /\ t.at \in {"idle", "withdraw"} /\ (t.at = "withdraw" => t.r = r)
  BY <1>2, <1>3, WithdrawingIs
<1> HIDE DEF t
<1>5. "api" \in Lanes
  BY DEF Lanes
<1>6. /\ t.at \in {"idle", "asked", "withdraw"} /\ (t.at # "idle" => t.r \in Relays)
      /\ t.at # "idle" /\ t.dropped => t.at = "withdraw"
  BY <1>4
<1>7. Dropped(r) \in [Lanes -> TaskRecords] /\ \A u \in Lanes :
         Dropped(r)[u].at = task[u].at /\ Dropped(r)[u].r = task[u].r /\ Dropped(r)[u].names = task[u].names
  BY DroppedIs
<1>8. QED
  BY <1>1, <1>2, <1>4, <1>5, <1>6, <1>7, BeginIs

LEMMA RecordIs ==
  ASSUME SrcInv, NEW s \in Lanes, AtWork(s), NEW t \in TaskRecords, NEW given \in SUBSET Names, Record(s, t, given)
  PROVE  /\ \E x \in TaskRecords : /\ x.at = t.at /\ x.r = t.r /\ x.dropped = t.dropped /\ x.names = t.names
                                   /\ task' = [task EXCEPT ![s] = x]
         /\ UNCHANGED overlapped /\ owned' \in [Relays -> SUBSET Names]
         /\ \A q \in Relays : owned'[q] = IF q = task[s].r /\ ~task[s].dropped THEN given ELSE owned[q]
<1>1. CASE task[s].dropped
  <2>1. task' = [task EXCEPT ![s] = Holding(t, given)] /\ UNCHANGED <<overlapped, owned>>
    BY <1>1 DEF Record, Go, Holding
  <2>2. LET x == Holding(t, given) IN
           x \in TaskRecords /\ x.at = t.at /\ x.r = t.r /\ x.dropped = t.dropped /\ x.names = t.names
    BY TaskChanges
  <2>3. QED
    BY <1>1, <2>1, <2>2, SrcFacts
<1>2. CASE ~task[s].dropped
  <2>1. task' = [task EXCEPT ![s] = t] /\ UNCHANGED overlapped /\ owned' = [owned EXCEPT ![task[s].r] = given]
    BY <1>2 DEF Record, Go
  <2>2. task[s].r \in Relays /\ owned \in [Relays -> SUBSET Names]
    BY SrcFacts DEF Endpointed
  <2>3. owned' \in [Relays -> SUBSET Names]
        /\ \A q \in Relays : owned'[q] = IF q = task[s].r /\ ~task[s].dropped THEN given ELSE owned[q]
    BY <1>2, <2>1, <2>2
  <2>4. QED
    BY <2>1, <2>3
<1>3. QED
  BY <1>1, <1>2

LEMMA AnsweredRelaying ==
  ASSUME SrcInv, NEW s \in Lanes, Answered(s)
  PROVE  Relaying'
<1>1. AtWork(s) /\ task[s].at = "asked" /\ UNCHANGED <<known, owned, base>>
  BY DEF Answered, AtWork, disk
<1>2. task[s] \in TaskRecords /\ Own(s) \in SUBSET Names /\ owned \in [Relays -> SUBSET Names]
  BY <1>1, OwnIs, SrcFacts
<1>3. Undisturbed => ~task[s].dropped /\ \A q \in known : \A n \in owned'[q] : Akin(base'[n], q) /\ NameFor(q, n)
  BY <1>1 DEF Undisturbed
<1>4. CASE Go(s, Withdrawing(task[s], Own(s), TRUE))
  <2> DEFINE t == Withdrawing(task[s], Own(s), TRUE)
  <2>1. t \in TaskRecords /\ t.at \in {"idle", "withdraw"} /\ (t.at = "withdraw" => t.r = task[s].r)
    BY <1>2, WithdrawingIs
  <2>2. task' = [task EXCEPT ![s] = t] /\ UNCHANGED overlapped
    BY <1>4 DEF Go
  <2> HIDE DEF t
  <2>3. t.at # "load" /\ (t.at # "idle" => t.r = task[s].r) /\ (t.at # "idle" => t.at = "withdraw")
    BY <2>1
  <2>4. QED
    BY <1>1, <1>2, <1>3, <2>1, <2>2, <2>3, WorkIs
<1>5. ASSUME NEW models \in SUBSET Upstream, Go(s, Claiming(task[s], models)) PROVE Relaying'
  <2> DEFINE t == Claiming(task[s], models)
  <2>1. t \in TaskRecords /\ t.at = "claim" /\ t.r = task[s].r /\ t.dropped = task[s].dropped
    BY <1>2, TaskChanges
  <2>2. task' = [task EXCEPT ![s] = t] /\ UNCHANGED overlapped
    BY <1>5 DEF Go
  <2> HIDE DEF t
  <2>3. QED
    BY <1>1, <1>2, <1>3, <2>1, <2>2, WorkIs
<1>6. QED
  BY <1>4, <1>5 DEF Answered, Claiming

LEMMA ReconcileRelaying ==
  ASSUME SrcInv, NEW s \in Lanes, Reconcile(s)
  PROVE  Relaying'
<1>1. AtWork(s) /\ UNCHANGED <<known, owned, base>>
  BY DEF Reconcile, AtWork, disk
<1>2. task[s] \in TaskRecords /\ Own(s) \ task[s].seen \in SUBSET Names /\ owned \in [Relays -> SUBSET Names]
  BY <1>1, OwnIs, SrcFacts
<1> DEFINE t == Withdrawing(task[s], Own(s) \ task[s].seen, FALSE)
<1>3. t \in TaskRecords /\ t.at \in {"idle", "withdraw"} /\ (t.at = "withdraw" => t.r = task[s].r)
  BY <1>2, WithdrawingIs
<1>4. task' = [task EXCEPT ![s] = t] /\ UNCHANGED overlapped
  BY DEF Reconcile, Go
<1> HIDE DEF t
<1>5. t.at # "load" /\ (t.at # "idle" => t.r = task[s].r) /\ (t.at # "idle" => t.at = "withdraw")
  BY <1>3
<1>6. Undisturbed => \A q \in known : \A n \in owned'[q] : Akin(base'[n], q) /\ NameFor(q, n)
  BY <1>1 DEF Undisturbed
<1>7. QED
  BY <1>1, <1>2, <1>3, <1>4, <1>5, <1>6, WorkIs

LEMMA WithdrawRelaying ==
  ASSUME SrcInv, NEW s \in Lanes, Withdraw(s)
  PROVE  Relaying'
<1>1. AtWork(s) /\ UNCHANGED <<known, base>>
  BY DEF Withdraw, AtWork, Unload
<1>2. task[s] \in TaskRecords /\ task[s].r \in Relays /\ Own(s) \in SUBSET Names
      /\ (~task[s].dropped => Own(s) = owned[task[s].r]) /\ task[s].names \in SUBSET Names /\ task[s].all \in BOOLEAN
  BY <1>1, OwnIs DEF TaskRecords
<1>3. PICK n \in task[s].names :
         Record(s, Withdrawing(task[s], task[s].names \ {n}, task[s].all),
                IF ~task[s].all THEN Own(s) \ {n} ELSE IF task[s].names \ {n} = {} THEN {} ELSE Own(s))
  BY DEF Withdraw
<1> DEFINE t == Withdrawing(task[s], task[s].names \ {n}, task[s].all)
           given == IF ~task[s].all THEN Own(s) \ {n} ELSE IF task[s].names \ {n} = {} THEN {} ELSE Own(s)
<1>4. t \in TaskRecords /\ t.at \in {"idle", "withdraw"} /\ (t.at = "withdraw" => t.r = task[s].r)
  BY <1>2, WithdrawingIs
<1>5. given \in SUBSET Own(s) /\ given \in SUBSET Names
  BY <1>2
<1>6. Record(s, t, given)
  BY <1>3
<1> HIDE DEF t, given
<1>7. PICK x \in TaskRecords : /\ x.at = t.at /\ x.r = t.r /\ x.dropped = t.dropped /\ x.names = t.names
                               /\ task' = [task EXCEPT ![s] = x]
  BY <1>1, <1>4, <1>5, <1>6, RecordIs
<1>8. /\ UNCHANGED overlapped /\ owned' \in [Relays -> SUBSET Names]
      /\ \A q \in Relays : owned'[q] = IF q = task[s].r /\ ~task[s].dropped THEN given ELSE owned[q]
  BY <1>1, <1>4, <1>5, <1>6, RecordIs
<1>9. x.at # "load" /\ (x.at # "idle" => x.r = task[s].r) /\ (x.at # "idle" => x.at = "withdraw")
  BY <1>4, <1>7
<1>10. \A q \in Relays : owned'[q] \subseteq owned[q]
  BY <1>2, <1>5, <1>8
<1>11. Undisturbed => \A q \in known : \A m \in owned'[q] : Akin(base'[m], q) /\ NameFor(q, m)
  BY <1>1, <1>10, SrcFacts DEF Undisturbed
<1>12. QED
  BY <1>1, <1>7, <1>8, <1>9, <1>11, WorkIs

LEMMA ClaimNameIs ==
  ASSUME SrcInv, NEW s \in Lanes, AtWork(s), NEW m \in Upstream
  PROVE  /\ NameFor(task[s].r, ClaimName(s, m)) /\ ClaimName(s, m) \in Names
         /\ Undisturbed => \A q \in known : ClaimName(s, m) \in owned[q] => Akin(q, task[s].r)
<1> DEFINE r == task[s].r
<1>1. r \in Relays
  BY OwnIs
<1>2. CASE \A q \in known : Plain(m) \in owned[q] => q = r /\ ~task[s].dropped
  <2>1. ClaimName(s, m) = Plain(m)
    BY <1>2 DEF ClaimName
  <2>2. QED
    BY <1>1, <1>2, <2>1, NamesAre DEF Akin
<1>3. CASE ~\A q \in known : Plain(m) \in owned[q] => q = r /\ ~task[s].dropped
  <2>1. ClaimName(s, m) = Qualified(r, m)
    BY <1>3 DEF ClaimName
  <2>2. Qualified(r, m)[1] = Label[r] /\ Label[r] # "relay" /\ NameFor(r, Qualified(r, m)) /\ Qualified(r, m) \in Names
    BY <1>1, NamesAre
  <2>3. ASSUME Undisturbed, NEW q \in known, Qualified(r, m) \in owned[q] PROVE Akin(q, r)
    BY <2>2, <2>3, SrcFacts DEF Undisturbed, NameFor, Akin
  <2>4. QED
    BY <2>1, <2>2, <2>3
<1>4. QED
  BY <1>2, <1>3

LEMMA ClaimRelaying ==
  ASSUME SrcInv, NEW s \in Lanes, Claim(s)
  PROVE  Relaying'
<1>1. AtWork(s) /\ task[s].at = "claim" /\ UNCHANGED <<known, base>>
  BY DEF Claim, AtWork, disk
<1>2. task[s] \in TaskRecords /\ task[s].r \in Relays /\ Own(s) \in SUBSET Names
      /\ (~task[s].dropped => Own(s) = owned[task[s].r]) /\ task[s].left \in SUBSET Upstream /\ task[s].seen \in SUBSET Names
  BY <1>1, OwnIs DEF TaskRecords
<1>3. PICK m \in task[s].left :
        LET n == ClaimName(s, m)
            next == Seeing(task[s], task[s].left \ {m}, task[s].seen \cup {n}) IN
        IF n \in Own(s) \/ n \in loaded
        THEN Record(s, next, Own(s) \cup (IF n \in loaded /\ IsOurs(s, n) THEN {n} ELSE {}))
        ELSE Record(s, Loading(next, {n}), Own(s))
  BY DEF Claim, Seeing, Loading
<1> DEFINE n == ClaimName(s, m)
           next == Seeing(task[s], task[s].left \ {m}, task[s].seen \cup {n})
           given == Own(s) \cup (IF n \in loaded /\ IsOurs(s, n) THEN {n} ELSE {})
<1>4. n \in Names /\ NameFor(task[s].r, n) /\ (Undisturbed => \A q \in known : n \in owned[q] => Akin(q, task[s].r))
  BY <1>1, <1>2, ClaimNameIs
<1>5. given \in SUBSET Names /\ (\A k \in given : k \in Own(s) \/ (k = n /\ Akin(base[n], task[s].r)))
  BY <1>2, <1>4, SrcFacts DEF IsOurs, Group, Akin
<1>6. IF n \in Own(s) \/ n \in loaded THEN Record(s, next, given) ELSE Record(s, Loading(next, {n}), Own(s))
  BY <1>3
<1> HIDE DEF n
<1>7. next \in TaskRecords /\ next.at = "claim" /\ next.r = task[s].r /\ next.dropped = task[s].dropped
  BY <1>1, <1>2, <1>4, TaskChanges
<1> HIDE DEF next, given
<1>8. LET x == Loading(next, {n}) IN
        x \in TaskRecords /\ x.at = "load" /\ x.r = task[s].r /\ x.dropped = task[s].dropped /\ x.names = {n}
  BY <1>4, <1>7, TaskChanges
<1>9. Undisturbed => ~task[s].dropped
  BY <1>1 DEF Undisturbed
<1>10. CASE n \in Own(s) \/ n \in loaded
  <2>1. PICK x \in TaskRecords : /\ x.at = next.at /\ x.r = next.r /\ x.dropped = next.dropped
                                 /\ task' = [task EXCEPT ![s] = x]
    BY <1>1, <1>5, <1>6, <1>7, <1>10, RecordIs
  <2>2. /\ UNCHANGED overlapped /\ owned' \in [Relays -> SUBSET Names]
        /\ \A q \in Relays : owned'[q] = IF q = task[s].r /\ ~task[s].dropped THEN given ELSE owned[q]
    BY <1>1, <1>5, <1>6, <1>7, <1>10, RecordIs
  <2>3. ASSUME Undisturbed, NEW q \in known, NEW k \in owned'[q] PROVE Akin(base'[k], q) /\ NameFor(q, k)
    <3>1. q \in Relays
      BY SrcFacts
    <3>2. CASE q = task[s].r
      <4>1. k \in owned[q] \/ (k = n /\ Akin(base[n], q))
        BY <1>2, <1>5, <1>9, <2>2, <2>3, <3>1, <3>2
      <4>2. QED
        BY <1>1, <1>4, <2>3, <3>2, <4>1 DEF Undisturbed
    <3>3. CASE q # task[s].r
      BY <1>1, <2>2, <2>3, <3>1, <3>3 DEF Undisturbed
    <3>4. QED
      BY <3>2, <3>3
  <2>4. x.at # "load" /\ x.r = task[s].r /\ (Undisturbed => ~x.dropped)
    BY <1>7, <1>9, <2>1
  <2>5. QED
    BY <1>1, <2>1, <2>2, <2>3, <2>4, WorkIs
<1>11. CASE ~(n \in Own(s) \/ n \in loaded)
  <2>1. PICK x \in TaskRecords : /\ x.at = "load" /\ x.r = task[s].r /\ x.dropped = task[s].dropped /\ x.names = {n}
                                 /\ task' = [task EXCEPT ![s] = x]
    BY <1>1, <1>2, <1>6, <1>8, <1>11, RecordIs
  <2>2. /\ UNCHANGED overlapped /\ owned' \in [Relays -> SUBSET Names]
        /\ \A q \in Relays : owned'[q] = IF q = task[s].r /\ ~task[s].dropped THEN Own(s) ELSE owned[q]
    BY <1>1, <1>2, <1>6, <1>8, <1>11, RecordIs
  <2>3. \A q \in Relays : owned'[q] = owned[q]
    BY <1>2, <2>2
  <2>4. Undisturbed => /\ ~x.dropped
                       /\ \A q \in known : \A k \in owned'[q] : Akin(base'[k], q) /\ NameFor(q, k)
                       /\ \A k \in x.names, q \in known : k \in owned'[q] => Akin(q, x.r)
    BY <1>1, <1>4, <1>9, <2>1, <2>3, SrcFacts DEF Undisturbed
  <2>5. \A k \in x.names : NameFor(x.r, k)
    BY <1>4, <2>1
  <2>6. QED
    BY <1>1, <2>1, <2>2, <2>4, <2>5, WorkIs
<1>12. QED
  BY <1>10, <1>11

LEMMA LoadedRelaying ==
  ASSUME SrcInv, NEW s \in Lanes, Loaded(s)
  PROVE  Relaying'
<1>1. AtWork(s) /\ task[s].at = "load" /\ UNCHANGED known
  BY DEF Loaded, AtWork
<1>2. task[s] \in TaskRecords /\ task[s].r \in Relays /\ Own(s) \in SUBSET Names
      /\ (~task[s].dropped => Own(s) = owned[task[s].r]) /\ task[s].names \in SUBSET Names
  BY <1>1, OwnIs DEF TaskRecords
<1> DEFINE t == BackFrom(task[s])
<1>3. PICK n \in task[s].names :
        \/ Load(n, task[s].r) /\ Record(s, t, Own(s) \cup {n})
        \/ Record(s, t, Own(s)) /\ UNCHANGED <<loaded, disk>>
  BY DEF Loaded, BackFrom
<1>4. t \in TaskRecords /\ t.at = "claim" /\ t.r = task[s].r /\ t.dropped = task[s].dropped
  BY <1>2, TaskChanges
<1> HIDE DEF t
<1>5. PICK given \in SUBSET Names :
        /\ Record(s, t, given)
        /\ \/ given = Own(s) /\ UNCHANGED base
           \/ given = Own(s) \cup {n} /\ base' = [base EXCEPT ![n] = task[s].r]
  BY <1>2, <1>3 DEF Load, disk
<1>6. PICK x \in TaskRecords : /\ x.at = t.at /\ x.r = t.r /\ x.dropped = t.dropped
                               /\ task' = [task EXCEPT ![s] = x]
  BY <1>1, <1>4, <1>5, RecordIs
<1>7. /\ UNCHANGED overlapped /\ owned' \in [Relays -> SUBSET Names]
      /\ \A q \in Relays : owned'[q] = IF q = task[s].r /\ ~task[s].dropped THEN given ELSE owned[q]
  BY <1>1, <1>4, <1>5, RecordIs
<1>8. NameFor(task[s].r, n)
  BY <1>1, SrcFacts DEF Endpointed
<1>9. ASSUME Undisturbed PROVE ~x.dropped /\ \A q \in known : \A k \in owned'[q] : Akin(base'[k], q) /\ NameFor(q, k)
  <2>1. ~task[s].dropped /\ \A q \in known : n \in owned[q] => Akin(q, task[s].r)
    BY <1>1, <1>9 DEF Undisturbed
  <2>2. SUFFICES ASSUME NEW q \in known, NEW k \in owned'[q] PROVE Akin(base'[k], q) /\ NameFor(q, k)
    BY <1>4, <1>6, <2>1
  <2>3. q \in Relays /\ base \in [Names -> Relays \cup {None}]
    BY SrcFacts
  <2>4. CASE q = task[s].r
    <3>1. k \in given
      BY <1>7, <2>1, <2>2, <2>3, <2>4
    <3>2. k \in owned[q] => Akin(base[k], q) /\ NameFor(q, k)
      BY <1>9 DEF Undisturbed
    <3>3. QED
      BY <1>2, <1>5, <1>8, <2>1, <2>3, <2>4, <3>1, <3>2 DEF Akin
  <2>5. CASE q # task[s].r
    <3>1. k \in owned[q] /\ (k = n => Akin(q, task[s].r))
      BY <1>7, <2>1, <2>2, <2>3, <2>5
    <3>2. Akin(base[k], q) /\ NameFor(q, k)
      BY <1>9, <3>1 DEF Undisturbed
    <3>3. base'[k] = base[k] \/ (k = n /\ base'[k] = task[s].r)
      BY <1>5, <2>3, <3>1, <3>2 DEF NameFor
    <3>4. QED
      BY <1>2, <3>1, <3>2, <3>3 DEF Akin
  <2>6. QED
    BY <2>4, <2>5
<1>10. x.at # "load" /\ x.r = task[s].r
  BY <1>4, <1>6
<1>11. QED
  BY <1>1, <1>6, <1>7, <1>9, <1>10, WorkIs

LEMMA RelayingKept ==
  ASSUME SrcInv, UNCHANGED <<known, owned, task>>, overlapped' \in BOOLEAN,
         ~overlapped' => ~overlapped /\ \A n \in Names : ~IsFile(n) => base'[n] = base[n]
  PROVE  Relaying'
<1>1. Endpointed'
  BY SrcFacts DEF Endpointed, AtWork, NameFor
<1>2. ASSUME ~overlapped' PROVE Undisturbed'
  <2>1. Undisturbed /\ \A n \in Names : ~IsFile(n) => base'[n] = base[n]
    BY <1>2 DEF SrcInv
  <2>2. \A q \in known : \A n \in owned[q] : Akin(base'[n], q) /\ NameFor(q, n)
    BY <2>1, SrcFacts, NamesAre DEF Undisturbed
  <2>3. QED
    BY <2>1, <2>2 DEF Undisturbed, AtWork, NameFor
<1>3. QED
  BY <1>1, <1>2, SrcFacts DEF Relaying

LEMMA RelayingStep == ASSUME SrcInv, [SrcNext]_srcVars PROVE Relaying'
<1>1. CASE BootAdd
  <2>1. PICK r \in todo : phase = "relays" /\ Add("task", r)
    BY <1>1 DEF BootAdd
  <2>2. r \in Relays
    BY <2>1, SrcFacts
  <2>3. QED
    BY <2>1, <2>2, AddRelaying DEF Lanes
<1>2. CASE ApiAdd
  BY <1>2, AddRelaying DEF ApiAdd, Lanes
<1>3. CASE Poll \/ ApiRefresh
  BY <1>3, AskRelaying DEF Poll, ApiRefresh, Lanes
<1>4. ASSUME NEW r \in Relays, Remove(r) PROVE Relaying'
  BY <1>4, RemoveRelaying
<1>5. ASSUME NEW s \in Lanes, Answered(s) \/ Claim(s) \/ Loaded(s) \/ Reconcile(s) \/ Withdraw(s) PROVE Relaying'
  BY <1>5, AnsweredRelaying, ClaimRelaying, LoadedRelaying, ReconcileRelaying, WithdrawRelaying
<1>6. CASE Booted \/ RestoreDone \/ Start \/ ApiUnload \/ UNCHANGED srcVars
  <2>1. UNCHANGED <<known, owned, task, overlapped, base>>
    BY <1>6 DEF Booted, RestoreDone, Start, ApiUnload, Unload, srcVars, disk
  <2>2. QED
    BY <2>1, RelayingKept, SrcFacts
<1>7. CASE LoadFile
  <2>1. PICK n \in Names : IsFile(n) /\ base' = [base EXCEPT ![n] = None] /\ UNCHANGED <<known, owned, task, overlapped>>
    BY <1>7 DEF LoadFile, Load
  <2>2. QED
    BY <2>1, RelayingKept, SrcFacts
<1>8. CASE RestoreEnds
  <2>1. /\ UNCHANGED <<known, owned, task>>
        /\ \/ UNCHANGED <<base, overlapped>>
           \/ /\ base' = [base EXCEPT ![restoring] = planned[restoring]]
              /\ overlapped' = (overlapped \/ planned[restoring] # base[restoring])
    BY <1>8 DEF RestoreEnds, Load, disk
  <2>2. overlapped \in BOOLEAN /\ base \in [Names -> Relays \cup {None}]
    BY SrcFacts
  <2>3. overlapped' \in BOOLEAN /\ (~overlapped' => ~overlapped)
    BY <2>1, <2>2
  <2>4. ~overlapped' => UNCHANGED base \/ planned[restoring] = base[restoring]
    BY <2>1
  <2>5. ~overlapped' => \A n \in Names : base'[n] = base[n]
    BY <2>1, <2>2, <2>4
  <2>6. QED
    BY <2>1, <2>3, <2>5, RelayingKept
<1>9. CASE Die
  <2>1. known' = {} /\ owned' = [r \in Relays |-> {}] /\ task' = [s \in Lanes |-> Resting] /\ overlapped' = FALSE
    BY <1>9 DEF Die
  <2>2. \A s \in Lanes : task'[s].at = "idle"
    BY <2>1, RestingIs
  <2>3. task' \in [Lanes -> TaskRecords] /\ owned' \in [Relays -> SUBSET Names]
    BY <2>1, RestingIs
  <2>4. QED
    BY <2>1, <2>2, <2>3 DEF Relaying, Endpointed, Undisturbed, AtWork
<1>10. CASE RestoreNext
  <2>1. /\ UNCHANGED <<known, owned, task>>
        /\ \/ UNCHANGED <<base, overlapped>>
           \/ overlapped' = (overlapped \/ base' # base)
    BY <1>10 DEF RestoreNext, Quarantine, Attempt
  <2>2. overlapped \in BOOLEAN
    BY SrcFacts
  <2>3. CASE UNCHANGED <<base, overlapped>>
    BY <2>1, <2>2, <2>3, RelayingKept
  <2>4. CASE overlapped' = (overlapped \/ base' # base)
    <3>1. overlapped' \in BOOLEAN /\ (~overlapped' => ~overlapped /\ base' = base)
      BY <2>4
    <3>2. QED
      BY <2>1, <3>1, RelayingKept
  <2>5. QED
    BY <2>1, <2>3, <2>4
<1>11. QED
  BY <1>1, <1>2, <1>3, <1>4, <1>5, <1>6, <1>7, <1>8, <1>9, <1>10 DEF SrcNext

-----------------------------------------------------------------------------
(* What restoring and the crash-loop guard do.                             *)

\* The part of the invariant that the relay manager leaves alone but for its loads and unloads.
Restarting ==
    /\ configured \in [Names -> {"none", "on", "off"}] /\ base \in [Names -> Relays \cup {None}]
    /\ attempts \in [Names -> 0 .. MaxAttempts] /\ killed \in [Names -> 0 .. Kills]
    /\ phase \in {"down", "restore", "relays", "up"} /\ todo \subseteq Names \cup Relays
    /\ planned \in [Names -> Relays \cup {None}]
    /\ restoring \in Names \cup {None} /\ loaded \subseteq Names
    /\ outrun \in BOOLEAN /\ calls \in 0 .. Calls
    /\ (phase = "restore" => todo \subseteq Names) /\ (phase = "relays" => todo \subseteq Relays)
    /\ \A n \in Names : Counted(n)

LEMMA TwoParts == Relaying /\ Restarting <=> SrcInv
BY DEF Relaying, Restarting, SrcInv, SrcTypeOK, TaskRecords

LEMMA CallsCount == SrcInv => 0 \in 0 .. Calls /\ (Called => calls' \in 0 .. Calls)
BY SrcBounds, SrcFacts DEF Called

\* A name that is unloaded may no longer be restored.
LEMMA UnloadRestarting ==
  ASSUME SrcInv, NEW n \in Names, Unload(n), UNCHANGED <<phase, planned, todo, restoring, killed, outrun>>, calls' \in 0 .. Calls
  PROVE  Restarting'
<1>1. configured' \in [Names -> {"none", "on", "off"}] /\ loaded' \subseteq Names /\ UNCHANGED <<base, attempts>>
  BY SrcFacts DEF Unload
<1>2. ASSUME NEW m \in Names PROVE Counted(m)'
  <2>1. Counted(m) /\ (configured'[m] = "on" => configured[m] = "on") /\ (m \in loaded' => m \in loaded)
    BY SrcFacts DEF Unload
  <2>2. QED
    BY <1>1, <2>1 DEF Counted
<1>3. QED
  BY <1>1, <1>2, SrcFacts DEF Restarting

\* A load clears the attempts; that of a file has cleared its kills.
LEMMA LoadRestarting ==
  ASSUME SrcInv, NEW n \in Names, NEW r \in Relays \cup {None}, Load(n, r), UNCHANGED <<phase, planned, todo>>,
         calls' \in 0 .. Calls, outrun' \in BOOLEAN,
         UNCHANGED killed \/ killed' = [killed EXCEPT ![n] = 0],
         IsFile(n) => killed'[n] = 0,
         \/ restoring' = None
         \/ UNCHANGED restoring /\ (outrun' = outrun \/ outrun' = TRUE) /\ (IsFile(n) /\ n = restoring => outrun')
  PROVE  Restarting'
<1>1. /\ configured' \in [Names -> {"none", "on", "off"}] /\ base' \in [Names -> Relays \cup {None}]
      /\ attempts' \in [Names -> 0 .. MaxAttempts] /\ killed' \in [Names -> 0 .. Kills] /\ loaded' \subseteq Names
      /\ restoring' \in Names \cup {None}
  BY SrcFacts, SrcBounds DEF Load
<1>2. Counted(n)'
  <2>1. attempts'[n] = 0 /\ killed'[n] = 0
    BY SrcFacts DEF Load, Counted
  <2>2. 0 <= MaxAttempts /\ (IsFile(n) /\ restoring' = n /\ n # None => outrun')
    BY SrcBounds
  <2>3. QED
    BY <2>1, <2>2 DEF Counted
<1>3. ASSUME NEW m \in Names, m # n PROVE Counted(m)'
  <2>1. /\ Counted(m) /\ configured'[m] = configured[m] /\ attempts'[m] = attempts[m] /\ killed'[m] = killed[m]
        /\ (m \in loaded' <=> m \in loaded)
    BY <1>3, SrcFacts DEF Load
  <2>2. QED
    BY <2>1 DEF Counted
<1>4. QED
  BY <1>1, <1>2, <1>3, SrcFacts DEF Restarting

LEMMA RestoreNextRestarting ==
  ASSUME SrcInv, RestoreNext
  PROVE  Restarting'
<1>1. PICK n \in todo : todo' = todo \ {n} /\ (Quarantine(n) \/ Attempt(n))
  BY DEF RestoreNext
<1>2. /\ phase = "restore" /\ restoring = None /\ outrun' = FALSE
      /\ UNCHANGED <<phase, planned, loaded, killed, calls>>
  BY DEF RestoreNext
<1>3. n \in Names /\ MaxAttempts \in Nat \ {0} /\ attempts[n] \in Nat /\ killed[n] \in Nat
  BY <1>2, SrcFacts, SrcBounds
<1>4. CASE Quarantine(n)
  <2>1. /\ configured' = [configured EXCEPT ![n] = IF n \in loaded THEN "on" ELSE "off"]
        /\ attempts' = [attempts EXCEPT ![n] = 0] /\ UNCHANGED restoring
        /\ base' = [base EXCEPT ![n] = IF n \in loaded THEN @ ELSE planned[n]]
    BY <1>4 DEF Quarantine
  <2>2. /\ configured' \in [Names -> {"none", "on", "off"}] /\ attempts' \in [Names -> 0 .. MaxAttempts]
        /\ base' \in [Names -> Relays \cup {None}]
    BY <1>3, <2>1, SrcFacts
  <2>3. ASSUME NEW m \in Names PROVE Counted(m)'
    <3>1. CASE m = n
      <4>1. attempts'[n] = 0 /\ (configured'[n] = "on" => n \in loaded) /\ n \notin todo'
        BY <1>1, <1>3, <2>1, SrcFacts
      <4>2. Counted(n)
        BY <1>3, SrcFacts
      <4>3. QED
        BY <1>2, <1>3, <2>1, <3>1, <4>1, <4>2 DEF Counted
    <3>2. CASE m # n
      <4>1. configured'[m] = configured[m] /\ attempts'[m] = attempts[m] /\ (m \in todo' <=> m \in todo) /\ Counted(m)
        BY <1>1, <2>1, <3>2, SrcFacts
      <4>2. QED
        BY <1>2, <2>1, <4>1 DEF Counted
    <3>3. QED
      BY <3>1, <3>2
  <2>4. QED
    BY <1>1, <1>2, <2>1, <2>2, <2>3, SrcFacts DEF Restarting
<1>5. CASE Attempt(n)
  <2>1. /\ attempts[n] < MaxAttempts /\ attempts' = [attempts EXCEPT ![n] = @ + 1]
        /\ restoring' \in {n, None} /\ UNCHANGED <<configured, base>>
    BY <1>5 DEF Attempt, Bumped
  <2>2. attempts' \in [Names -> 0 .. MaxAttempts] /\ attempts'[n] = attempts[n] + 1
    BY <1>3, <2>1, SrcFacts
  <2>3. ASSUME NEW m \in Names PROVE Counted(m)'
    <3>1. CASE m = n
      <4>1. Counted(n) /\ killed[n] <= attempts[n]
        BY <1>1, <1>2, <1>3, SrcFacts DEF Counted
      <4>2. QED
        BY <1>2, <1>3, <2>1, <2>2, <3>1, <4>1 DEF Counted
    <3>2. CASE m # n
      <4>1. attempts'[m] = attempts[m] /\ (m \in todo' <=> m \in todo) /\ Counted(m) /\ (restoring' # m \/ m = None)
        BY <1>1, <2>1, <3>2, SrcFacts
      <4>2. QED
        BY <1>2, <2>1, <4>1 DEF Counted
    <3>3. QED
      BY <3>1, <3>2
  <2>4. QED
    BY <1>1, <1>2, <1>3, <2>1, <2>2, <2>3, SrcFacts DEF Restarting
<1>6. QED
  BY <1>1, <1>4, <1>5

LEMMA RestoreEndsRestarting ==
  ASSUME SrcInv, RestoreEnds
  PROVE  Restarting'
<1>1. /\ restoring # None /\ restoring' = None /\ outrun' = FALSE /\ UNCHANGED <<phase, planned, todo, calls>>
      /\ \/ Load(restoring, planned[restoring]) /\ killed' = [killed EXCEPT ![restoring] = 0]
         \/ UNCHANGED <<loaded, configured, base, attempts, killed>>
  BY DEF RestoreEnds, disk
<1>2. restoring \in Names /\ planned[restoring] \in Relays \cup {None}
  BY <1>1, SrcFacts
<1>3. CASE Load(restoring, planned[restoring]) /\ killed' = [killed EXCEPT ![restoring] = 0]
  <2>1. killed'[restoring] = 0
    BY <1>2, <1>3, SrcFacts
  <2>2. calls' \in 0 .. Calls /\ outrun' \in BOOLEAN
    BY <1>1, SrcFacts
  <2>3. QED
    BY <1>1, <1>2, <1>3, <2>1, <2>2, LoadRestarting
<1>4. CASE UNCHANGED <<loaded, configured, base, attempts, killed>>
  <2>1. ASSUME NEW m \in Names PROVE Counted(m)'
    BY <1>1, <1>4, SrcFacts DEF Counted
  <2>2. QED
    BY <1>1, <1>4, <2>1, SrcFacts DEF Restarting
<1>5. QED
  BY <1>1, <1>3, <1>4

LEMMA DieRestarting ==
  ASSUME SrcInv, Die
  PROVE  Restarting'
<1>1. /\ phase' = "down" /\ todo' = {} /\ restoring' = None /\ outrun' = FALSE /\ loaded' = {} /\ calls' = 0
      /\ UNCHANGED <<configured, base, attempts>> /\ planned' = [n \in Names |-> None]
      /\ IF restoring # None /\ IsFile(restoring) /\ ~outrun
         THEN killed[restoring] < Kills /\ killed' = [killed EXCEPT ![restoring] = @ + 1]
         ELSE UNCHANGED killed
  BY DEF Die, disk
<1>2. killed' \in [Names -> 0 .. Kills]
  BY <1>1, SrcFacts, SrcBounds
<1>3. ASSUME NEW m \in Names PROVE Counted(m)'
  <2>1. Counted(m) /\ attempts[m] \in 0 .. MaxAttempts /\ killed[m] \in Nat /\ MaxAttempts \in Nat
    BY SrcFacts, SrcBounds
  <2>2. CASE restoring = m /\ m # None /\ IsFile(m) /\ ~outrun
    <3>1. killed'[m] = killed[m] + 1 /\ killed[m] < attempts[m]
      BY <1>1, <2>1, <2>2, SrcFacts DEF Counted
    <3>2. killed'[m] <= attempts[m] /\ killed'[m] <= MaxAttempts
      BY <2>1, <3>1
    <3>3. QED
      BY <1>1, <2>2, <3>2 DEF Counted
  <2>3. CASE ~(restoring = m /\ m # None /\ IsFile(m) /\ ~outrun)
    <3>1. killed'[m] = killed[m]
      BY <1>1, <2>3, SrcFacts
    <3>2. QED
      BY <1>1, <2>1, <3>1 DEF Counted
  <2>4. QED
    BY <2>2, <2>3
<1>4. QED
  BY <1>1, <1>2, <1>3, SrcFacts, CallsCount DEF Restarting

LEMMA RestartingKept ==
  ASSUME SrcInv, UNCHANGED <<configured, base, attempts, restoring, loaded, killed, outrun>>, calls' \in 0 .. Calls,
         planned' \in [Names -> Relays \cup {None}],
         \/ UNCHANGED <<phase, todo>>
         \/ phase' = phase /\ todo' \subseteq todo
         \/ phase' = "up" /\ todo' = {}
         \/ phase' = "relays" /\ todo' \subseteq Relays
         \/ phase' = "restore" /\ todo' = {n \in Names : configured[n] = "on"}
  PROVE  Restarting'
<1>1. \A n \in Names : Counted(n)
  BY SrcFacts
<1>2. ASSUME NEW n \in Names PROVE Counted(n)'
  BY <1>1 DEF Counted
<1>3. QED
  BY <1>2, SrcFacts DEF Restarting

LEMMA RestartingStep == ASSUME SrcInv, [SrcNext]_srcVars PROVE Restarting'
<1>1. CASE BootAdd
  <2>1. phase' = phase /\ todo' \subseteq todo /\ UNCHANGED <<configured, base, planned, attempts, restoring, loaded, killed, outrun, calls>>
    BY <1>1 DEF BootAdd, Add, disk
  <2>2. QED
    BY <2>1, RestartingKept, SrcFacts
<1>2. CASE Booted
  BY <1>2, RestartingKept, SrcFacts DEF Booted, disk
<1>3. CASE RestoreNext
  BY <1>3, RestoreNextRestarting
<1>4. CASE RestoreEnds
  BY <1>4, RestoreEndsRestarting
<1>5. CASE RestoreDone
  BY <1>5, RestartingKept, SrcFacts, RelaysAssumption DEF RestoreDone, disk
<1>6. CASE Start
  BY <1>6, RestartingKept, SrcFacts DEF Start, disk
<1>7. CASE Die
  BY <1>7, DieRestarting
<1>8. CASE ApiAdd \/ ApiRefresh \/ Poll \/ \E r \in Relays : Remove(r)
  <2>1. UNCHANGED <<configured, base, attempts, phase, planned, todo, restoring, loaded, killed, outrun>> /\ calls' \in 0 .. Calls
    BY <1>8, CallsCount, SrcFacts DEF ApiAdd, ApiRefresh, Poll, Remove, Add, Ask, disk, boot
  <2>2. QED
    BY <2>1, RestartingKept, SrcFacts
<1>9. CASE LoadFile
  <2>1. PICK n \in Names : /\ IsFile(n) /\ Load(n, None) /\ killed' = [killed EXCEPT ![n] = 0]
                           /\ outrun' = (outrun \/ n = restoring)
    BY <1>9 DEF LoadFile
  <2>2. UNCHANGED <<phase, planned, todo, restoring>> /\ calls' \in 0 .. Calls
    BY <1>9, CallsCount DEF LoadFile, boot
  <2>3. killed'[n] = 0 /\ outrun' \in BOOLEAN /\ (outrun' = outrun \/ outrun' = TRUE) /\ (n = restoring => outrun')
    BY <2>1, SrcFacts
  <2>4. QED
    BY <2>1, <2>2, <2>3, LoadRestarting
<1>10. CASE ApiUnload
  <2>1. PICK n \in loaded : Unload(n)
    BY <1>10 DEF ApiUnload
  <2>2. UNCHANGED <<phase, planned, todo, restoring, killed, outrun>> /\ calls' \in 0 .. Calls
    BY <1>10, CallsCount DEF ApiUnload, boot
  <2>3. QED
    BY <2>1, <2>2, UnloadRestarting, SrcFacts
<1>11. ASSUME NEW s \in Lanes, Answered(s) \/ Claim(s) \/ Reconcile(s) PROVE Restarting'
  <2>1. UNCHANGED <<configured, base, attempts, phase, planned, todo, restoring, loaded, killed, outrun, calls>>
    BY <1>11 DEF Answered, Claim, Reconcile, disk, boot
  <2>2. QED
    BY <2>1, RestartingKept, SrcFacts
<1>12. ASSUME NEW s \in Lanes, Withdraw(s) PROVE Restarting'
  <2>1. PICK n \in task[s].names : Unload(n)
    BY <1>12 DEF Withdraw
  <2>2. UNCHANGED <<phase, planned, todo, restoring, killed, outrun, calls>>
    BY <1>12 DEF Withdraw, boot
  <2>3. n \in Names
    BY <2>1, SrcFacts DEF TaskRecords
  <2>4. QED
    BY <2>1, <2>2, <2>3, UnloadRestarting, SrcFacts
<1>13. ASSUME NEW s \in Lanes, Loaded(s) PROVE Restarting'
  <2>1. PICK n \in task[s].names : Load(n, task[s].r) \/ UNCHANGED <<loaded, configured, base, attempts>>
    BY <1>13 DEF Loaded, disk
  <2>2. UNCHANGED <<phase, planned, todo, restoring, killed, outrun, calls>> /\ task[s].at = "load"
    BY <1>13 DEF Loaded, boot
  <2>3. task[s].r \in Relays /\ n \in Names /\ ~IsFile(n)
    BY <2>1, <2>2, SrcFacts, NamesAre DEF Endpointed, AtWork, NameFor
  <2>4. CASE Load(n, task[s].r)
    BY <2>2, <2>3, <2>4, LoadRestarting, SrcFacts
  <2>5. CASE UNCHANGED <<loaded, configured, base, attempts>>
    BY <2>2, <2>5, RestartingKept, SrcFacts
  <2>6. QED
    BY <2>1, <2>4, <2>5
<1>14. CASE UNCHANGED srcVars
  BY <1>14, RestartingKept, SrcFacts DEF srcVars, disk, boot
<1>15. QED
  BY <1>1, <1>2, <1>3, <1>4, <1>5, <1>6, <1>7, <1>8, <1>9, <1>10, <1>11, <1>12, <1>13, <1>14 DEF SrcNext

-----------------------------------------------------------------------------
(* The theorems about Sources.                                             *)

LEMMA SrcInitially == SrcInit => SrcInv
<1> SUFFICES ASSUME SrcInit PROVE SrcInv
  OBVIOUS
<1>1. \A s \in Lanes : task[s].at = "idle" /\ task[s] \in TaskRecords
  BY RestingIs DEF SrcInit
<1>2. Relaying
  <2>1. task \in [Lanes -> TaskRecords] /\ owned \in [Relays -> SUBSET Names] /\ known = {} /\ overlapped = FALSE
    BY <1>1 DEF SrcInit
  <2>2. QED
    BY <1>1, <2>1 DEF Relaying, Endpointed, Undisturbed, AtWork
<1>3. Restarting
  <2>1. \A n \in Names : Counted(n)
    BY SrcBounds DEF SrcInit, Counted
  <2>2. 0 \in 0 .. MaxAttempts /\ 0 \in 0 .. Kills /\ 0 \in 0 .. Calls /\ Env \subseteq Relays
    BY SrcBounds, RelaysAssumption
  <2>3. /\ configured \in [Names -> {"none", "on", "off"}] /\ base \in [Names -> Relays \cup {None}]
        /\ attempts \in [Names -> 0 .. MaxAttempts] /\ killed \in [Names -> 0 .. Kills]
        /\ planned \in [Names -> Relays \cup {None}]
    BY <2>2 DEF SrcInit
  <2>4. QED
    BY <2>1, <2>2, <2>3 DEF SrcInit, Restarting
<1>4. QED
  BY <1>2, <1>3, TwoParts

(* Through discoveries, loads, withdrawals, restores and deaths of the      *)
(* process in any order, the types hold, every kill of the process by a     *)
(* model it restores has been counted before it, and operations of the      *)
(* relay manager that do not overlap keep the names of endpoints apart      *)
(* (inference/relay.py, inference/manager.py restore_models).               *)
THEOREM SrcInductive == SrcSpec => []SrcInv
<1>1. ASSUME SrcInv, [SrcNext]_srcVars PROVE SrcInv'
  <2>1. Relaying' /\ Restarting'
    BY <1>1, RelayingStep, RestartingStep
  <2>2. QED
    BY <2>1, TwoParts, PTL
<1>2. QED
  BY <1>1, SrcInitially, PTL DEF SrcSpec

(* Unless operations of the relay manager or a restore overlap, what an     *)
(* endpoint has registered is served from it or from another of its label,  *)
(* for any endpoints, labels and models of the same names                   *)
(* (inference/relay.py _claim_name, _is_ours).                              *)
THEOREM EndpointsServeTheirOwn == SrcSpec => []OwnEndpoint
<1>1. SrcInv => OwnEndpoint
  BY DEF SrcInv, Undisturbed, OwnEndpoint, Akin
<1>2. QED
  BY <1>1, SrcInductive, PTL

(* However often models kill the process while they are restored, whatever  *)
(* is loaded, unloaded and disabled between two starts, none does so more   *)
(* than MaxAttempts times in a row (inference/manager.py _bump_attempt).    *)
THEOREM CrashLoopsEnd == SrcSpec => []LoopEnds
<1>1. SrcInv => LoopEnds
  BY DEF SrcInv, Counted, LoopEnds
<1>2. QED
  BY <1>1, SrcInductive, PTL
=============================================================================
