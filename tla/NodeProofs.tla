----------------------------- MODULE NodeProofs -----------------------------
(***************************************************************************)
(* Proofs about the six parts that meet only in a node's event loop:       *)
(* Fleet, Federation, Downloads, Accounts, Gateway and Batching, each for  *)
(* any values of its constants.                                            *)
(***************************************************************************)
EXTENDS Fleet, Federation, Downloads, Accounts, Gateway, Batching, Sums, FiniteSetTheorems,
        SequenceTheorems, TLAPS

-----------------------------------------------------------------------------
(* Fleet: the administrator's word.                                        *)

\* A node's handler writes the entry of that node, the sweep only removes.
Handling ==
    /\ bootstrap.up \in {bootstrap.was, "down"}
    /\ Up \/ \A h \in Handlers : write[h].op = "none"
    /\ \A n \in Nodes : write[n].op # "none" => write[n].op = "upsert" /\ write[n].node = n
    /\ write["sweep"].op # "upsert"
    /\ \A h \in Handlers : write[h].op # "none" => write[h].node \in Nodes

\* A write under way that would leave the row approved; a removal under way.
Approving(h, n) == write[h].op = "upsert" /\ write[h].node = n /\ write[h].status = "approved"
Removing(n) == write["admin"].op = "remove" /\ write["admin"].node = n

\* Wherever it is written that a node is approved, it is granted or excepted; and a removal
\* under way, unless excepted, has nothing behind it that would approve the node again.
Granted(n) ==
    /\ (registry[n].status = "approved" \/ rows[n] = "approved" \/ \E h \in Handlers : Approving(h, n))
           => n \in granted \cup lost
    /\ Removing(n) => \/ n \in lost
                      \/ registry[n].status # "approved" /\ \A h \in Handlers : ~Approving(h, n)

FleetInv == FleetTypeOK /\ Handling /\ (bootstrap.was = "private" => \A n \in Nodes : Granted(n))

\* Where the announce loop of a node may be.
Announcing == [at : {"off", "wait", "sent"}, forced : BOOLEAN, delay : 0 .. MaxDelay, left : 0 .. MaxDelay]

LEMMA FleetNumbers == MaxDelay \in Nat /\ NewNodes \in Nat /\ NewNodes # 0 /\ Crashes \in Nat
BY FleetAssumption

LEMMA FleetInitInv == FleetInit => FleetInv
<1> SUFFICES ASSUME NEW kind \in {"private", "public"}, NEW known \in [Nodes -> {"none", "approved"}],
                    FleetStarted(kind, known)
             PROVE  FleetInv
  BY DEF FleetInit
<1>1. /\ bootstrap = [up |-> kind, was |-> kind, crashes |-> 0]
      /\ rows = known /\ registry = [n \in Nodes |-> Entry(known[n], "fresh")]
      /\ posted = [n \in Nodes |-> FALSE] /\ write = [h \in Handlers |-> NoWrite]
      /\ evicting = {} /\ recent \in 0 .. NewNodes
      /\ granted = {n \in Nodes : known[n] = "approved"} /\ lost = {}
  BY FleetNumbers DEF FleetStarted
<1>a. announcing \in [Nodes -> Announcing]
  <2>1. announcing = [n \in Nodes |-> [at |-> IF n \in Running THEN "wait" ELSE "off", forced |-> FALSE,
                                      delay |-> 0, left |-> 0]]
    BY DEF FleetStarted, Starting
  <2>2. 0 \in 0 .. MaxDelay
    BY FleetNumbers
  <2>3. QED
    BY <2>1, <2>2 DEF Announcing
<1>2. NoWrite \in [op : {"none", "upsert", "remove"}, node : Nodes \cup {""}, stage : {"get", "commit"},
                   status : Statuses, base : Statuses, live : BOOLEAN]
  BY DEF NoWrite, Statuses
<1>3. FleetTypeOK
  <2>1. /\ bootstrap \in [up : {"off", "private", "public", "down"}, was : {"off", "private", "public"}, crashes : 0 .. Crashes]
        /\ rows \in [Nodes -> Statuses]
    BY <1>1, FleetNumbers DEF Statuses
  <2>2. registry \in [Nodes -> Entries]
    BY <1>1 DEF Entries, Entry, NoEntry
  <2>3. posted \in [Nodes -> BOOLEAN] /\ evicting \subseteq Nodes /\ granted \subseteq Nodes /\ lost \subseteq Nodes
    BY <1>1
  <2>4. QED
    BY <1>1, <1>a, <1>2, <2>1, <2>2, <2>3 DEF FleetTypeOK, Announcing
<1>4. Handling /\ \A n \in Nodes : \A h \in Handlers : ~Approving(h, n) /\ ~Removing(n)
  BY <1>1 DEF Handling, Handlers, NoWrite, Approving, Removing, Up
<1>5. \A n \in Nodes : Granted(n)
  BY <1>1, <1>4 DEF Granted, Entry, NoEntry, Handlers
<1>6. QED
  BY <1>3, <1>4, <1>5 DEF FleetInv

\* The steps of a node's announce loop leave the bootstrap alone.
Loop(n) == AddressChange(n) \/ Post(n) \/ Skip(n) \/ Refused(n)

LEMMA LoopInv ==
  ASSUME FleetInv, NEW n \in Nodes, Loop(n)
  PROVE  FleetInv'
<1>1. UNCHANGED <<bootstrap, registry, rows, write, evicting, recent, granted, lost>>
  BY DEF Loop, AddressChange, Post, Skip, Refused
<1>2. announcing \in [Nodes -> Announcing] /\ posted \in [Nodes -> BOOLEAN]
  BY DEF FleetInv, FleetTypeOK, Announcing
<1>3. posted' \in [Nodes -> BOOLEAN]
  BY <1>2 DEF Loop, AddressChange, Post, Skip, Refused
<1>4. announcing' \in [Nodes -> Announcing]
  <2>1. announcing[n] \in Announcing /\ 0 \in 0 .. MaxDelay /\ Longer(n) \in 0 .. MaxDelay
    BY <1>2, FleetNumbers DEF Longer, Announcing
  <2>2. announcing[n].left > 0 => Remaining(n) \in 0 .. MaxDelay
    BY <2>1, FleetNumbers DEF Remaining, Announcing
  <2>3. ASSUME NEW new \in Announcing, announcing' = [announcing EXCEPT ![n] = new]
        PROVE  announcing' \in [Nodes -> Announcing]
    BY <1>2, <2>3
  <2>4. /\ [announcing[n] EXCEPT !.forced = TRUE] \in Announcing
        /\ [announcing[n] EXCEPT !.at = "sent", !.forced = FALSE] \in Announcing
        /\ [announcing[n] EXCEPT !.at = "sent", !.forced = FALSE, !.delay = 0, !.left = 0] \in Announcing
        /\ [announcing[n] EXCEPT !.at = "wait", !.delay = Longer(n), !.left = Longer(n)] \in Announcing
        /\ announcing[n].left > 0 => [announcing[n] EXCEPT !.forced = FALSE, !.left = Remaining(n)] \in Announcing
    BY <2>1, <2>2 DEF Announcing
  <2>5. CASE AddressChange(n)
    BY <1>2, <2>4, <2>5 DEF AddressChange
  <2>6. CASE Post(n)
    BY <1>2, <2>4, <2>6 DEF Post
  <2>7. CASE Skip(n)
    BY <1>2, <2>4, <2>7 DEF Skip
  <2>8. CASE Refused(n)
    BY <1>2, <2>4, <2>8 DEF Refused, Bump, Waits
  <2>9. QED
    BY <2>5, <2>6, <2>7, <2>8 DEF Loop
<1>5. FleetTypeOK'
  BY <1>1, <1>3, <1>4 DEF FleetInv, FleetTypeOK, Announcing
<1>6. QED
  BY <1>1, <1>5 DEF FleetInv, Handling, Granted, Approving, Removing, Up

Writes == [op : {"none", "upsert", "remove"}, node : Nodes \cup {""}, stage : {"get", "commit"},
           status : Statuses, base : Statuses, live : BOOLEAN]

LEMMA ServedType ==
  ASSUME announcing \in [Nodes -> Announcing], NEW n \in Nodes, Served(n)
  PROVE  announcing' \in [Nodes -> Announcing]
<1>1. 0 \in 0 .. MaxDelay
  BY FleetNumbers
<1>2. [announcing[n] EXCEPT !.at = "wait", !.delay = 0, !.left = 0] \in Announcing
  BY <1>1 DEF Announcing
<1>3. QED
  BY <1>2 DEF Served, Waits

\* What a step of the bootstrap has to show, and may use.
LEMMA FleetStep ==
  ASSUME FleetInv,
         /\ bootstrap' \in [up : {"off", "private", "public", "down"}, was : {"off", "private", "public"}, crashes : 0 .. Crashes]
         /\ bootstrap'.up \in {bootstrap'.was, "down"}
         /\ bootstrap'.was = bootstrap.was,
         (Up /\ UNCHANGED bootstrap) \/ UNCHANGED <<bootstrap, write>> \/ \A h \in Handlers : write'[h].op = "none",
         /\ registry' \in [Nodes -> Entries] /\ rows' \in [Nodes -> Statuses]
         /\ announcing' \in [Nodes -> Announcing] /\ posted' \in [Nodes -> BOOLEAN]
         /\ write' \in [Handlers -> Writes]
         /\ evicting' \subseteq Nodes /\ recent' \in 0 .. NewNodes
         /\ granted' \subseteq Nodes /\ lost' \subseteq Nodes,
         /\ \A n \in Nodes : write'[n].op # "none" => write'[n].op = "upsert" /\ write'[n].node = n
         /\ write'["sweep"].op # "upsert"
         /\ \A h \in Handlers : write'[h].op # "none" => write'[h].node \in Nodes,
         bootstrap.was = "private" => \A n \in Nodes : Granted(n)'
  PROVE  FleetInv'
BY DEF FleetInv, FleetTypeOK, Handling, Announcing, Writes, Up

LEMMA FleetFacts ==
  ASSUME FleetInv
  PROVE  /\ bootstrap \in [up : {"off", "private", "public", "down"}, was : {"off", "private", "public"}, crashes : 0 .. Crashes]
         /\ bootstrap.up \in {bootstrap.was, "down"}
         /\ Up \/ \A h \in Handlers : write[h].op = "none"
         /\ registry \in [Nodes -> Entries] /\ rows \in [Nodes -> Statuses]
         /\ announcing \in [Nodes -> Announcing] /\ posted \in [Nodes -> BOOLEAN]
         /\ write \in [Handlers -> Writes]
         /\ evicting \subseteq Nodes /\ recent \in 0 .. NewNodes
         /\ granted \subseteq Nodes /\ lost \subseteq Nodes
         /\ \A n \in Nodes : write[n].op # "none" => write[n].op = "upsert" /\ write[n].node = n
         /\ write["sweep"].op # "upsert"
         /\ \A h \in Handlers : write[h].op # "none" => write[h].node \in Nodes
         /\ "admin" \in Handlers /\ "sweep" \in Handlers /\ Nodes \subseteq Handlers
         /\ "admin" \notin Nodes /\ "sweep" \notin Nodes
         /\ NoWrite \in Writes /\ NoEntry \in Entries /\ NoWrite.op = "none" /\ NoEntry.status = "none"
         /\ bootstrap.was = "private" => \A n \in Nodes : Granted(n)
<1>1. NoWrite \in Writes /\ NoEntry \in Entries /\ NoWrite.op = "none" /\ NoEntry.status = "none"
  BY DEF NoWrite, Writes, NoEntry, Entries, Statuses
<1>2. "admin" \in Handlers /\ "sweep" \in Handlers /\ Nodes \subseteq Handlers /\ "admin" \notin Nodes /\ "sweep" \notin Nodes
  BY FleetAssumption DEF Handlers
<1>3. QED
  BY <1>1, <1>2 DEF FleetInv, FleetTypeOK, Handling, Announcing, Writes

LEMMA AnnounceInv ==
  ASSUME FleetInv, NEW n \in Nodes, Announce(n)
  PROVE  FleetInv'
<1> USE FleetFacts
<1>1. UNCHANGED <<bootstrap, rows, evicting, granted, lost>> /\ posted' = [posted EXCEPT ![n] = FALSE] /\ Up
  BY DEF Announce
<1>2. CASE Limited(n)
  <2>1. Served(n) /\ UNCHANGED <<registry, write, recent>>
    BY <1>2 DEF Announce
  <2>2. announcing' \in [Nodes -> Announcing]
    BY <2>1, ServedType
  <2>3. \A m \in Nodes : Granted(m) => Granted(m)'
    BY <1>1, <2>1 DEF Granted, Approving, Removing
  <2>4. QED
    BY <1>1, <2>1, <2>2, <2>3, FleetStep
<1>3. CASE ~Limited(n)
  <2> DEFINE w == [NoWrite EXCEPT !.op = "upsert", !.node = n, !.status = Status(n), !.live = TRUE]
             e == [status |-> Status(n), age |-> "fresh"]
  <2>1. /\ registry' = [registry EXCEPT ![n] = e]
        /\ recent' = IF bootstrap.up = "public" /\ ~Known(n) THEN recent + 1 ELSE recent
        /\ write' = [write EXCEPT ![n] = w]
        /\ UNCHANGED announcing /\ Up /\ write[n].op = "none"
    BY <1>3 DEF Announce
  <2>2. Status(n) \in {"pending", "approved"}
    <3>1. registry[n].status \in {"none", "pending", "approved"}
      BY DEF Entries, NoEntry
    <3>2. QED
      BY <3>1 DEF Status, Known
  <2>3. w \in Writes /\ w.op = "upsert" /\ w.node = n /\ w.status = Status(n)
    BY <2>2 DEF NoWrite, Writes, Statuses
  <2>4. e \in Entries /\ e.status = Status(n)
    BY <2>2 DEF Entries
  <2>5. recent' \in 0 .. NewNodes
    <3>1. recent \in 0 .. NewNodes /\ NewNodes \in Nat
      BY FleetNumbers
    <3>2. recent' # recent => recent' = recent + 1 /\ recent # NewNodes
      BY <1>3, <2>1 DEF Limited
    <3>3. QED
      BY <3>1, <3>2
  <2> HIDE DEF w, e
  <2>6. registry' \in [Nodes -> Entries] /\ write' \in [Handlers -> Writes] /\ posted' \in [Nodes -> BOOLEAN]
    BY <1>1, <2>1, <2>3, <2>4
  <2>7. write'[n] = w /\ registry'[n] = e /\ \A h \in Handlers \ {n} : write'[h] = write[h]
    BY <2>1
  <2>8. ASSUME bootstrap.was = "private", NEW m \in Nodes
        PROVE  Granted(m)'
    <3>1. Granted(m)
      BY <2>8
    <3>2. CASE m = n
      <4>1. Status(n) = "approved" => registry[n].status = "approved"
        BY <2>1, <2>8 DEF Status, Up
      <4>2. \A h \in Handlers : Approving(h, n)' => Approving(h, n) \/ registry[n].status = "approved"
        BY <2>3, <2>7, <4>1 DEF Approving
      <4>3. registry'[n].status = "approved" => registry[n].status = "approved"
        BY <2>4, <2>7, <4>1
      <4>4. Removing(n)' <=> Removing(n)
        BY <2>7 DEF Removing
      <4>5. QED
        BY <1>1, <3>1, <3>2, <4>2, <4>3, <4>4 DEF Granted
    <3>3. CASE m # n
      <4>1. \A h \in Handlers : Approving(h, m)' => Approving(h, m)
        BY <2>3, <2>7, <3>3 DEF Approving
      <4>2. registry'[m] = registry[m]
        BY <2>1, <3>3
      <4>3. Removing(m)' <=> Removing(m)
        BY <2>7 DEF Removing
      <4>4. QED
        BY <1>1, <3>1, <4>1, <4>2, <4>3 DEF Granted
    <3>4. QED
      BY <3>2, <3>3
  <2>9. /\ \A m \in Nodes : write'[m].op # "none" => write'[m].op = "upsert" /\ write'[m].node = m
        /\ write'["sweep"].op # "upsert"
        /\ \A h \in Handlers : write'[h].op # "none" => write'[h].node \in Nodes
    BY <2>3, <2>7
  <2>10. QED
    BY <1>1, <2>1, <2>5, <2>6, <2>8, <2>9, FleetStep
<1>4. QED
  BY <1>2, <1>3

LEMMA ApproveInv ==
  ASSUME FleetInv, NEW n \in Nodes, Approve(n)
  PROVE  FleetInv'
<1> USE FleetFacts
<1> DEFINE w == [NoWrite EXCEPT !.op = "upsert", !.node = n, !.status = "approved", !.live = TRUE]
           new(h) == IF h = "admin" THEN w
                     ELSE IF write[h].op = "upsert" /\ write[h].node = n /\ write[h].live /\ write[h].stage = "get"
                     THEN [write[h] EXCEPT !.status = "approved"] ELSE write[h]
           e == [registry[n] EXCEPT !.status = "approved"]
<1>1. /\ registry' = [registry EXCEPT ![n] = e]
      /\ write' = [h \in Handlers |-> new(h)]
      /\ granted' = granted \cup {n} /\ lost' = lost \ {n}
      /\ UNCHANGED <<bootstrap, rows, announcing, posted, evicting, recent>>
      /\ Known(n) /\ Up
  BY DEF Approve
<1>2. w \in Writes /\ w.op = "upsert" /\ w.node = n
  BY DEF NoWrite, Writes, Statuses
<1>a. \A x \in Writes : LET y == [x EXCEPT !.status = "approved"] IN y \in Writes /\ y.op = x.op /\ y.node = x.node
  BY DEF Writes, Statuses
<1>3. \A h \in Handlers : new(h) \in Writes
  BY <1>2, <1>a, Zenon
<1>4. e \in Entries
  BY <1>1 DEF Entries, Known, NoEntry
<1>5. \A h \in Handlers \ {"admin"} : new(h).op = write[h].op /\ new(h).node = write[h].node
                                    /\ (write[h].node # n => new(h) = write[h])
  BY <1>a
<1>6. new("admin") = w
  OBVIOUS
<1> HIDE DEF new, e, w
<1>7. registry' \in [Nodes -> Entries] /\ write' \in [Handlers -> Writes]
  BY <1>1, <1>3, <1>4
<1>8. \A m \in Nodes : Granted(m) => Granted(m)'
  <2> SUFFICES ASSUME NEW m \in Nodes, Granted(m) PROVE Granted(m)'
    OBVIOUS
  <2>1. ~Removing(m)'
    BY <1>1, <1>2, <1>6 DEF Removing
  <2>2. CASE m = n
    BY <1>1, <2>1, <2>2 DEF Granted
  <2>3. CASE m # n
    <3>1. \A h \in Handlers : Approving(h, m)' => Approving(h, m)
      BY <1>1, <1>2, <1>5, <1>6, <2>3 DEF Approving
    <3>2. QED
      BY <1>1, <2>1, <2>3, <3>1 DEF Granted
  <2>4. QED
    BY <2>2, <2>3
<1>9. /\ \A m \in Nodes : write'[m].op # "none" => write'[m].op = "upsert" /\ write'[m].node = m
      /\ write'["sweep"].op # "upsert"
      /\ \A h \in Handlers : write'[h].op # "none" => write'[h].node \in Nodes
  BY <1>1, <1>2, <1>5, <1>6
<1>10. granted' \subseteq Nodes /\ lost' \subseteq Nodes
  BY <1>1
<1>11. QED
  BY <1>1, <1>7, <1>8, <1>9, <1>10, FleetStep

\* A removal and an eviction drop the entry, and give the handler h its write.
Drops(n, h) ==
    /\ registry' = [registry EXCEPT ![n] = NoEntry]
    /\ write' = [Detach(n, write) EXCEPT ![h] = [NoWrite EXCEPT !.op = "remove", !.node = n]]
Dropped(n, h) ==
    /\ registry' \in [Nodes -> Entries] /\ write' \in [Handlers -> Writes]
    /\ \A k \in Handlers \ {h} : write'[k].op = write[k].op /\ write'[k].node = write[k].node
                                /\ write'[k].status = write[k].status
    /\ write'[h].op = "remove" /\ write'[h].node = n
    /\ \A m \in Nodes : write'[m].op # "none" => write'[m].op = "upsert" /\ write'[m].node = m
    /\ write'["sweep"].op # "upsert"
    /\ \A k \in Handlers : write'[k].op # "none" => write'[k].node \in Nodes
    /\ \A k \in Handlers, m \in Nodes : Approving(k, m)' => Approving(k, m) /\ k # h
    /\ \A m \in Nodes : registry'[m].status = "approved" => registry[m].status = "approved" /\ m # n

LEMMA DropFacts ==
  ASSUME FleetInv, NEW n \in Nodes, NEW h \in {"admin", "sweep"}, Drops(n, h)
  PROVE  Dropped(n, h)
<1> USE FleetFacts
<1> DEFINE w == [NoWrite EXCEPT !.op = "remove", !.node = n]
           d == Detach(n, write)
<1>1. w \in Writes /\ w.op = "remove" /\ w.node = n
  BY DEF NoWrite, Writes, Statuses
<1>2. \A x \in Writes : LET y == [x EXCEPT !.live = FALSE]
                        IN  y \in Writes /\ y.op = x.op /\ y.node = x.node /\ y.status = x.status
  BY DEF Writes
<1>3. d = [k \in Handlers |-> IF write[k].node = n THEN [write[k] EXCEPT !.live = FALSE] ELSE write[k]]
  BY DEF Detach
<1>4. d \in [Handlers -> Writes] /\ \A k \in Handlers : d[k].op = write[k].op /\ d[k].node = write[k].node /\ d[k].status = write[k].status
  BY <1>2, <1>3
<1> HIDE DEF w, d
<1>5. write' = [d EXCEPT ![h] = w]
  BY DEF w, d, Drops
<1>6. /\ write' \in [Handlers -> Writes] /\ write'[h] = w
      /\ \A k \in Handlers \ {h} : write'[k].op = write[k].op /\ write'[k].node = write[k].node
                                  /\ write'[k].status = write[k].status
  <2>1. h \in Handlers
    OBVIOUS
  <2>2. write' \in [Handlers -> Writes] /\ write'[h] = w /\ \A k \in Handlers \ {h} : write'[k] = d[k]
    BY <1>1, <1>4, <1>5, <2>1
  <2>3. QED
    BY <1>4, <2>2
<1>7. registry' \in [Nodes -> Entries] /\ \A m \in Nodes : registry'[m].status = "approved" => registry[m].status = "approved" /\ m # n
  BY DEF Drops
<1>8. \A k \in Handlers, m \in Nodes : Approving(k, m)' => Approving(k, m) /\ k # h
  BY <1>1, <1>6 DEF Approving
<1>9. /\ \A m \in Nodes : write'[m].op # "none" => write'[m].op = "upsert" /\ write'[m].node = m
      /\ write'["sweep"].op # "upsert"
      /\ \A k \in Handlers : write'[k].op # "none" => write'[k].node \in Nodes
  BY <1>1, <1>6
<1>10. QED
  BY <1>1, <1>6, <1>7, <1>8, <1>9 DEF Dropped

LEMMA RemoveInv ==
  ASSUME FleetInv, NEW n \in Nodes, RemoveNode(n)
  PROVE  FleetInv'
<1> USE FleetFacts
<1>1. /\ registry' = [registry EXCEPT ![n] = NoEntry]
      /\ write' = [Detach(n, write) EXCEPT !["admin"] = [NoWrite EXCEPT !.op = "remove", !.node = n]]
      /\ lost' = IF write[n].op = "none" THEN lost ELSE lost \cup {n}
      /\ UNCHANGED <<bootstrap, rows, announcing, posted, evicting, recent, granted>> /\ Up
  BY DEF RemoveNode
<1>2. /\ registry' \in [Nodes -> Entries] /\ write' \in [Handlers -> Writes]
      /\ write'["admin"].op = "remove" /\ write'["admin"].node = n
      /\ \A m \in Nodes : write'[m].op # "none" => write'[m].op = "upsert" /\ write'[m].node = m
      /\ write'["sweep"].op # "upsert"
      /\ \A k \in Handlers : write'[k].op # "none" => write'[k].node \in Nodes
      /\ \A k \in Handlers, m \in Nodes : Approving(k, m)' => Approving(k, m) /\ k # "admin"
      /\ \A m \in Nodes : registry'[m].status = "approved" => registry[m].status = "approved" /\ m # n
  <2>1. Dropped(n, "admin")
    BY <1>1, DropFacts DEF Drops
  <2>2. QED
    BY <2>1 DEF Dropped
<1>3. granted' \subseteq Nodes /\ lost' \subseteq Nodes /\ lost \subseteq lost'
  BY <1>1
<1>4. ASSUME NEW m \in Nodes, Granted(m) PROVE Granted(m)'
  <2>1. Removing(m)' => m = n
    BY <1>2 DEF Removing
  <2>2. CASE m # n \/ m \in lost'
    BY <1>1, <1>2, <1>3, <1>4, <2>1, <2>2 DEF Granted
  <2>3. CASE m = n /\ m \notin lost'
    <3>1. write[n].op = "none"
      BY <1>1, <2>3
    <3>2. \A k \in Handlers : ~Approving(k, n)'
      <4> SUFFICES ASSUME NEW k \in Handlers, Approving(k, n), k # "admin" PROVE FALSE
        BY <1>2
      <4>1. write[k].op = "upsert" /\ write[k].node = n
        BY DEF Approving
      <4>2. k \in Nodes
        BY <4>1 DEF Handlers
      <4>3. QED
        BY <3>1, <4>1, <4>2
    <3>3. QED
      BY <1>1, <1>2, <1>3, <1>4, <2>3, <3>2 DEF Granted
  <2>4. QED
    BY <2>2, <2>3
<1>5. QED
  BY <1>1, <1>2, <1>3, <1>4, FleetStep

LEMMA EvictInv ==
  ASSUME FleetInv, NEW n \in Nodes, Evict(n)
  PROVE  FleetInv'
<1> USE FleetFacts
<1>1. /\ registry' = [registry EXCEPT ![n] = NoEntry] /\ evicting' = evicting \ {n}
      /\ write' = [Detach(n, write) EXCEPT !["sweep"] = [NoWrite EXCEPT !.op = "remove", !.node = n]]
      /\ UNCHANGED <<bootstrap, rows, announcing, posted, recent, granted, lost>> /\ Up
  BY DEF Evict
<1>2. /\ registry' \in [Nodes -> Entries] /\ write' \in [Handlers -> Writes]
      /\ write'["admin"].op = write["admin"].op /\ write'["admin"].node = write["admin"].node
      /\ \A m \in Nodes : write'[m].op # "none" => write'[m].op = "upsert" /\ write'[m].node = m
      /\ write'["sweep"].op # "upsert"
      /\ \A k \in Handlers : write'[k].op # "none" => write'[k].node \in Nodes
      /\ \A k \in Handlers, m \in Nodes : Approving(k, m)' => Approving(k, m)
      /\ \A m \in Nodes : registry'[m].status = "approved" => registry[m].status = "approved"
  <2>1. Dropped(n, "sweep")
    BY <1>1, DropFacts DEF Drops
  <2>2. QED
    BY <2>1 DEF Dropped
<1>3. ASSUME NEW m \in Nodes, Granted(m) PROVE Granted(m)'
  <2>1. Removing(m)' <=> Removing(m)
    BY <1>2 DEF Removing
  <2>2. QED
    BY <1>1, <1>2, <1>3, <2>1 DEF Granted
<1>4. evicting' \subseteq Nodes
  BY <1>1
<1>5. QED
  BY <1>1, <1>2, <1>3, <1>4, FleetStep

\* Steps that leave what is written, and what is granted, as they are.
LEMMA StillInv ==
  ASSUME FleetInv, Sweep \/ Window \/ \E n \in Nodes : Hour(n)
  PROVE  FleetInv'
<1> USE FleetFacts
<1>1. UNCHANGED <<bootstrap, rows, announcing, posted, write, granted, lost>>
  BY DEF Sweep, Window, Hour
<1>2. evicting' \subseteq Nodes
  BY DEF Sweep, Window, Hour
<1>3. recent' \in 0 .. NewNodes
  <2>1. recent \in 0 .. NewNodes /\ NewNodes \in Nat
    BY FleetNumbers
  <2>2. recent' = recent \/ (recent > 0 /\ recent' = recent - 1)
    BY DEF Sweep, Window, Hour
  <2>3. QED
    BY <2>1, <2>2
<1>4. registry' \in [Nodes -> Entries] /\ \A m \in Nodes : registry'[m].status = registry[m].status
  <2>1. CASE registry' = registry
    BY <2>1
  <2>2. ASSUME NEW n \in Nodes, Hour(n) PROVE registry' \in [Nodes -> Entries] /\ \A m \in Nodes : registry'[m].status = registry[m].status
    <3> DEFINE e == [registry[n] EXCEPT !.age = "old"]
    <3>1. registry' = [registry EXCEPT ![n] = e] /\ Known(n)
      BY <2>2 DEF Hour
    <3>2. e \in Entries /\ e.status = registry[n].status
      BY <3>1 DEF Entries, Known, NoEntry
    <3> HIDE DEF e
    <3>3. QED
      BY <3>1, <3>2
  <2>3. QED
    BY <2>1, <2>2 DEF Sweep, Window
<1>5. ASSUME NEW m \in Nodes, Granted(m) PROVE Granted(m)'
  <2>1. registry'[m].status = registry[m].status
    BY <1>4
  <2>2. QED
    BY <1>1, <1>5, <2>1 DEF Granted, Approving, Removing
<1>6. QED
  BY <1>1, <1>2, <1>3, <1>4, <1>5, FleetStep
\* A handler that ends: no approval is written that was not, and what stood granted or excepted
\* stays so, unless its removal has reached the database and left no approval there.
LEMMA EndsInv ==
  ASSUME FleetInv, NEW h \in Handlers, NEW reached \in BOOLEAN, write[h].op # "none", Ends(h, reached),
         UNCHANGED <<bootstrap, registry, posted, evicting, recent>>, Up,
         rows' \in [Nodes -> Statuses],
         \A m \in Nodes : rows'[m] = "approved" => rows[m] = "approved" \/ Approving(h, m),
         \A m \in Nodes : h = "admin" /\ Removing(m) /\ reached => rows'[m] # "approved"
  PROVE  FleetInv'
<1> USE FleetFacts
<1>1. write' \in [Handlers -> Writes] /\ write'[h] = NoWrite /\ \A k \in Handlers \ {h} : write'[k] = write[k]
  BY DEF Ends
<1>2. announcing' \in [Nodes -> Announcing]
  BY ServedType DEF Ends, Answer
<1>3. /\ \A m \in Nodes : write'[m].op # "none" => write'[m].op = "upsert" /\ write'[m].node = m
      /\ write'["sweep"].op # "upsert"
      /\ \A k \in Handlers : write'[k].op # "none" => write'[k].node \in Nodes
  BY <1>1
<1>4. \A k \in Handlers, m \in Nodes : Approving(k, m)' => Approving(k, m) /\ k # h
  BY <1>1 DEF Approving
<1>5. \A m \in Nodes : Removing(m)' => Removing(m) /\ h # "admin"
  BY <1>1 DEF Removing
<1>6. granted' \subseteq Nodes /\ lost' \subseteq Nodes /\ (h # "admin" => lost' = lost)
  BY DEF Ends, Settle
<1>7. ASSUME NEW m \in Nodes, m \in granted \cup lost
      PROVE  m \in granted' \cup lost' \/ (m \notin lost /\ h = "admin" /\ Removing(m) /\ reached)
  BY <1>7 DEF Ends, Settle, Removing
<1>8. ASSUME NEW m \in Nodes, Granted(m) PROVE Granted(m)'
  <2>1. Removing(m)' => m \in lost' \/ (registry'[m].status # "approved" /\ \A k \in Handlers : ~Approving(k, m)')
    BY <1>4, <1>5, <1>6, <1>8 DEF Granted
  <2>2. ASSUME registry'[m].status = "approved" \/ rows'[m] = "approved" \/ \E k \in Handlers : Approving(k, m)'
        PROVE  m \in granted' \cup lost'
    <3>1. registry[m].status = "approved" \/ rows[m] = "approved" \/ \E k \in Handlers : Approving(k, m)
      BY <1>4, <2>2
    <3>2. m \in granted \cup lost
      BY <1>8, <3>1 DEF Granted
    <3>3. CASE m \notin lost /\ h = "admin" /\ Removing(m) /\ reached
      <4>1. registry[m].status # "approved" /\ \A k \in Handlers : ~Approving(k, m)
        BY <1>8, <3>3 DEF Granted
      <4>2. rows'[m] # "approved"
        BY <3>3
      <4>3. QED
        BY <1>4, <2>2, <4>1, <4>2
    <3>4. QED
      BY <1>7, <3>2, <3>3
  <2>3. QED
    BY <2>1, <2>2 DEF Granted
<1>9. QED
  BY <1>1, <1>2, <1>3, <1>6, <1>8, FleetStep

LEMMA GetInv ==
  ASSUME FleetInv, NEW h \in Handlers, Get(h)
  PROVE  FleetInv'
<1> USE FleetFacts
<1>1. UNCHANGED <<bootstrap, registry, rows, posted, evicting, recent>> /\ write[h].op # "none" /\ write[h].node \in Nodes /\ Up
  BY DEF Get
<1>2. CASE write[h].op = "remove" /\ rows[write[h].node] = "none"
  <2>1. Ends(h, TRUE)
    BY <1>2 DEF Get
  <2>2. \A m \in Nodes : h = "admin" /\ Removing(m) => rows'[m] # "approved"
    BY <1>1, <1>2 DEF Removing
  <2>3. QED
    BY <1>1, <2>1, <2>2, EndsInv, ZenonT(60)
<1>3. CASE ~(write[h].op = "remove" /\ rows[write[h].node] = "none")
  <2> DEFINE w == [write[h] EXCEPT !.stage = "commit", !.base = rows[write[h].node]]
  <2>1. write' = [write EXCEPT ![h] = w] /\ UNCHANGED <<announcing, granted, lost>>
    BY <1>3 DEF Get
  <2>2. rows[write[h].node] \in Statuses
    BY <1>1
  <2>3. w \in Writes /\ w.op = write[h].op /\ w.node = write[h].node /\ w.status = write[h].status
    <3>1. \A x \in Writes, b \in Statuses : LET y == [x EXCEPT !.stage = "commit", !.base = b]
                                            IN  y \in Writes /\ y.op = x.op /\ y.node = x.node /\ y.status = x.status
      BY DEF Writes
    <3>2. write[h] \in Writes
      OBVIOUS
    <3>3. QED
      BY <2>2, <3>1, <3>2
  <2> HIDE DEF w
  <2>4. /\ write' \in [Handlers -> Writes]
        /\ \A k \in Handlers : write'[k].op = write[k].op /\ write'[k].node = write[k].node /\ write'[k].status = write[k].status
    BY <2>1, <2>3
  <2>5. \A k \in Handlers, m \in Nodes : (Approving(k, m)' <=> Approving(k, m)) /\ (Removing(m)' <=> Removing(m))
    BY <2>4 DEF Approving, Removing
  <2>6. ASSUME NEW m \in Nodes, Granted(m) PROVE Granted(m)'
    BY <1>1, <2>1, <2>5, <2>6 DEF Granted
  <2>7. /\ \A m \in Nodes : write'[m].op # "none" => write'[m].op = "upsert" /\ write'[m].node = m
        /\ write'["sweep"].op # "upsert"
        /\ \A k \in Handlers : write'[k].op # "none" => write'[k].node \in Nodes
    BY <2>4, ZenonT(60)
  <2>8. QED
    BY <1>1, <2>1, <2>4, <2>6, <2>7, FleetStep
<1>4. QED
  BY <1>2, <1>3

LEMMA CommitInv ==
  ASSUME FleetInv, NEW h \in Handlers, Commit(h) \/ DbFails(h)
  PROVE  FleetInv'
<1> USE FleetFacts
<1>1. UNCHANGED <<bootstrap, registry, posted, evicting, recent>> /\ write[h].op # "none" /\ write[h].node \in Nodes /\ Up
  BY DEF Commit, DbFails
<1>2. CASE DbFails(h)
  <2>1. Ends(h, FALSE) /\ UNCHANGED rows
    BY <1>2 DEF DbFails
  <2>2. QED
    BY <1>1, <2>1, EndsInv
<1>3. CASE Commit(h)
  <2> DEFINE row == IF write[h].op = "upsert" THEN Upserted(write[h]) ELSE "none"
  <2>1. rows' = [rows EXCEPT ![write[h].node] = row] /\ Ends(h, TRUE)
    BY <1>3 DEF Commit, RemovedRow
  <2>2. /\ row \in Statuses
        /\ row = "approved" => rows[write[h].node] = "approved" \/ Approving(h, write[h].node)
        /\ write[h].op = "remove" => row = "none"
    <3>1. write[h].status \in Statuses /\ rows[write[h].node] \in Statuses /\ "none" \in Statuses
      BY <1>1 DEF Writes, Statuses
    <3>2. Upserted(write[h]) \in {write[h].status, rows[write[h].node]}
      BY DEF Upserted
    <3>3. QED
      BY <3>1, <3>2 DEF Approving
  <2> HIDE DEF row
  <2>3. rows' \in [Nodes -> Statuses]
    BY <1>1, <2>1, <2>2
  <2>4. rows'[write[h].node] = row /\ \A m \in Nodes : m # write[h].node => rows'[m] = rows[m]
    BY <1>1, <2>1
  <2>5. \A m \in Nodes : rows'[m] = "approved" => rows[m] = "approved" \/ Approving(h, m)
    BY <2>2, <2>4
  <2>6. \A m \in Nodes : h = "admin" /\ Removing(m) => rows'[m] # "approved"
    BY <2>2, <2>4 DEF Removing
  <2>7. QED
    BY <1>1, <2>1, <2>3, <2>5, <2>6, EndsInv
<1>4. QED
  BY <1>2, <1>3

\* A crash leaves the rows alone, and the registry read from them is no more than they are.
LEMMA CrashInv ==
  ASSUME FleetInv, Crash \/ Restart
  PROVE  FleetInv'
<1> USE FleetFacts
<1>1. UNCHANGED <<rows, announcing, granted, lost>>
  BY DEF Crash, Restart
<1>2. CASE Crash
  <2>1. /\ bootstrap' = [bootstrap EXCEPT !.up = "down", !.crashes = @ + 1] /\ bootstrap.crashes < Crashes
        /\ registry' = [n \in Nodes |-> NoEntry] /\ posted' = [n \in Nodes |-> FALSE]
        /\ write' = [h \in Handlers |-> NoWrite] /\ evicting' = {} /\ recent' = 0
    BY <1>2 DEF Crash
  <2>2. bootstrap.crashes \in 0 .. Crashes
    OBVIOUS
  <2>3. bootstrap.crashes + 1 \in 0 .. Crashes /\ 0 \in 0 .. NewNodes
    BY <2>1, <2>2, FleetNumbers
  <2>4. /\ bootstrap' \in [up : {"off", "private", "public", "down"}, was : {"off", "private", "public"}, crashes : 0 .. Crashes]
        /\ bootstrap'.up = "down" /\ bootstrap'.was = bootstrap.was
    BY <2>1, <2>3
  <2>5. /\ registry' \in [Nodes -> Entries] /\ posted' \in [Nodes -> BOOLEAN] /\ write' \in [Handlers -> Writes]
        /\ \A k \in Handlers : write'[k].op = "none"
        /\ \A m \in Nodes : registry'[m].status = "none"
    BY <2>1
  <2>6. ASSUME NEW m \in Nodes, Granted(m) PROVE Granted(m)'
    <3>1. \A k \in Handlers : ~Approving(k, m)'
      BY <2>5 DEF Approving
    <3>2. ~Removing(m)'
      BY <2>5 DEF Removing
    <3>3. QED
      BY <1>1, <2>5, <2>6, <3>1, <3>2 DEF Granted
  <2>7. QED
    BY <1>1, <2>1, <2>3, <2>4, <2>5, <2>6, FleetStep
<1>3. CASE Restart
  <2>1. PICK age \in [Nodes -> {"fresh", "old"}] : registry' = [n \in Nodes |-> Entry(rows[n], age[n])]
    BY <1>3 DEF Restart
  <2>2. bootstrap' = [bootstrap EXCEPT !.up = bootstrap.was] /\ UNCHANGED <<posted, write, evicting, recent>>
    BY <1>3 DEF Restart
  <2>3. registry' \in [Nodes -> Entries] /\ \A m \in Nodes : registry'[m].status = rows[m]
    BY <2>1 DEF Entry, Entries, NoEntry, Statuses
  <2>4. /\ bootstrap' \in [up : {"off", "private", "public", "down"}, was : {"off", "private", "public"}, crashes : 0 .. Crashes]
        /\ bootstrap'.up = bootstrap'.was /\ bootstrap'.was = bootstrap.was
    BY <2>2
  <2>5. \A h \in Handlers : write[h].op = "none"
    BY <1>3 DEF Restart, Up
  <2>6. ASSUME NEW m \in Nodes, Granted(m) PROVE Granted(m)'
    <3>1. \A k \in Handlers : ~Approving(k, m)'
      BY <2>2, <2>5 DEF Approving
    <3>2. ~Removing(m)'
      BY <2>2, <2>5 DEF Removing
    <3>3. QED
      BY <1>1, <2>3, <2>6, <3>1, <3>2 DEF Granted
  <2>7. QED
    BY <1>1, <2>2, <2>3, <2>4, <2>5, <2>6, FleetStep
<1>4. QED
  BY <1>2, <1>3

LEMMA FleetNextInv == FleetInv /\ [FleetNext]_fleetVars => FleetInv'
<1> SUFFICES ASSUME FleetInv, [FleetNext]_fleetVars PROVE FleetInv'
  OBVIOUS
<1>1. ASSUME NEW n \in Nodes, Loop(n) PROVE FleetInv'
  BY <1>1, LoopInv
<1>2. ASSUME NEW n \in Nodes, Announce(n) PROVE FleetInv'
  BY <1>2, AnnounceInv
<1>3. ASSUME NEW n \in Nodes, Approve(n) PROVE FleetInv'
  BY <1>3, ApproveInv
<1>4. ASSUME NEW n \in Nodes, RemoveNode(n) PROVE FleetInv'
  BY <1>4, RemoveInv
<1>5. ASSUME NEW n \in Nodes, Evict(n) PROVE FleetInv'
  BY <1>5, EvictInv
<1>6. CASE Sweep \/ Window \/ \E n \in Nodes : Hour(n)
  BY <1>6, StillInv
<1>7. ASSUME NEW h \in Handlers, Get(h) PROVE FleetInv'
  BY <1>7, GetInv
<1>8. ASSUME NEW h \in Handlers, Commit(h) \/ DbFails(h) PROVE FleetInv'
  BY <1>8, CommitInv
<1>9. CASE Crash \/ Restart
  BY <1>9, CrashInv
<1>10. CASE UNCHANGED fleetVars
  <2>1. UNCHANGED <<bootstrap, registry, rows, announcing, posted, write, evicting, recent, granted, lost>>
    BY <1>10 DEF fleetVars
  <2>2. \A n \in Nodes : Granted(n)' <=> Granted(n)
    BY <2>1, Zenon DEF Granted, Approving, Removing
  <2>3. QED
    BY <2>1, <2>2, FleetFacts, FleetStep
<1>11. QED
  BY <1>1, <1>2, <1>3, <1>4, <1>5, <1>6, <1>7, <1>8, <1>9, <1>10 DEF FleetNext, Loop

(* On every private network, for any nodes and through any number of       *)
(* crashes, announces, approvals, removals and sweeps, a node counts as    *)
(* approved only if the administrator approved it and was not told since   *)
(* that it is removed, save for the removals the database did not take     *)
(* (api/admin.py approve_node, remove_node; storage/repositories.py).      *)
THEOREM ApprovedByAdmin == FleetSpec => []OnlyGranted
<1>1. FleetInv => OnlyGranted
  BY DEF FleetInv, Granted, OnlyGranted
<1>2. QED
  BY <1>1, FleetInitInv, FleetNextInv, PTL DEF FleetSpec

(* The registry, its table and what its handlers have under way stay in    *)
(* their types (api/admin.py).                                             *)
THEOREM FleetTypes == FleetSpec => []FleetTypeOK
<1>1. FleetInv => FleetTypeOK
  BY DEF FleetInv
<1>2. QED
  BY <1>1, FleetInitInv, FleetNextInv, PTL DEF FleetSpec
-----------------------------------------------------------------------------
(* Federation: whom a network admits, and which networks a node is in.     *)

\* A node that runs hosts its home network, one that does not has no peers.
HomeHosted ==
    /\ hostFile[Home] # NotHosted /\ (daemon = "up" => hosted[Home] # NotHosted)
    /\ daemon # "up" => \A q \in Peers : entry[q] = Unknown

\* Of a network whose file was not torn, the file says whether it was joined, and memory what the
\* file says.
FilesSay ==
    \A n \in Beside \ cut : /\ joinFile[n] = "yes" <=> n \in joined
                            /\ daemon = "up" => (n \in members <=> joinFile[n] = "yes")

FedInv == FedTypeOK /\ HomeHosted /\ Admitted /\ FilesSay

LEMMA NetsApart ==
  /\ Beside \subseteq Nets /\ Home \in Nets /\ Home \notin Beside
  /\ \A n \in Nets : n # Home => n \in Beside
  /\ Torn \notin HostedKeys /\ NotHosted \notin Keys \cup {NoKey} /\ NoKey \notin Keys
  /\ NotHosted \in HostedKeys /\ Keys \cup {NoKey} \subseteq HostedKeys /\ Torn \in Unknown
BY FederationAssumption DEF Nets, Beside, HostedKeys, Torn, Unknown

LEMMA NoPeers ==
  /\ [q \in Peers |-> Unknown] \in [Peers -> {Unknown} \cup SUBSET Nets]
  /\ [q \in Peers |-> {}] \in [Peers -> SUBSET Nets]
<1>1. \A S : \A v \in S : [q \in Peers |-> v] \in [Peers -> S]
  OBVIOUS
<1>2. Unknown \in {Unknown} \cup SUBSET Nets /\ {} \in SUBSET Nets
  OBVIOUS
<1>3. QED
  BY <1>1, <1>2, Zenon

LEMMA FedInitInv == FedInit => FedInv
<1> SUFFICES ASSUME FedInit PROVE FedInv
  OBVIOUS
<1>1. /\ daemon = "up" /\ hostFile = [Empty EXCEPT ![Home] = NoKey] /\ joinFile = [n \in Beside |-> "no"]
      /\ hosted = hostFile /\ members = {} /\ declared = {Home}
      /\ entry = [q \in Peers |-> Unknown] /\ shown = [q \in Peers |-> {}]
      /\ joined = {} /\ cut = {}
  BY DEF FedInit
<1>2. hostFile \in [Nets -> HostedKeys] /\ hostFile[Home] = NoKey
  BY <1>1, NetsApart DEF Empty
<1>3. FedTypeOK
  <2>1. /\ entry \in [Peers -> {Unknown} \cup SUBSET Nets] /\ shown \in [Peers -> SUBSET Nets]
    BY <1>1, NoPeers
  <2>2. /\ members \subseteq Beside /\ declared \subseteq Nets /\ joined \subseteq Beside /\ cut \subseteq Beside
        /\ joinFile \in [Beside -> {"no", "yes", "torn"}] /\ hostFile \in [Nets -> HostedKeys \cup Unknown]
    BY <1>1, <1>2, NetsApart
  <2>3. QED
    BY <1>1, <1>2, <2>1, <2>2 DEF FedTypeOK
<1>4. HomeHosted /\ Admitted /\ FilesSay
  BY <1>1, <1>2, NetsApart DEF HomeHosted, Admitted, FilesSay
<1>5. QED
  BY <1>3, <1>4 DEF FedInv

LEMMA CommandInv ==
  ASSUME FedInv,
         \/ \E n \in Nets, key \in Keys \cup {NoKey} : Host(n, key) \/ SetKey(n, key)
         \/ \E n \in Nets : Drop(n)
  PROVE  FedInv'
<1>1. CommandUnchanged
  BY DEF Host, SetKey, Drop
<1>2. hostFile \in [Nets -> HostedKeys \cup Unknown] /\ hostFile[Home] # NotHosted
  BY DEF FedInv, FedTypeOK, HomeHosted
<1>3. ASSUME NEW n \in Nets, NEW key \in Keys \cup {NoKey}, Rewritten(n, key)
      PROVE  hostFile' \in [Nets -> HostedKeys \cup Unknown] /\ hostFile'[Home] # NotHosted
  <2>1. PICK v \in HostedKeys \cup Unknown : hostFile' = [hostFile EXCEPT ![n] = v] /\ v # NotHosted
    BY <1>3, NetsApart DEF Rewritten
  <2>2. QED
    BY <1>2, <2>1
<1>4. ASSUME NEW n \in Nets, Drop(n)
      PROVE  hostFile' \in [Nets -> HostedKeys \cup Unknown] /\ hostFile'[Home] # NotHosted
  BY <1>2, <1>4, NetsApart DEF Drop
<1>5. hostFile' \in [Nets -> HostedKeys \cup Unknown] /\ hostFile'[Home] # NotHosted
  BY <1>3, <1>4 DEF Host, SetKey
<1>6. QED
  BY <1>1, <1>5 DEF FedInv, FedTypeOK, HomeHosted, Admitted, FilesSay, CommandUnchanged, Keyed

\* Memberships that are joined, while nobody else is admitted.
LEMMA JoinsFiles ==
  ASSUME FedInv, daemon = "up", NEW ns \in SUBSET Beside, Joins(ns)
  PROVE  /\ members' \subseteq Beside /\ joinFile' \in [Beside -> {"no", "yes", "torn"}]
         /\ joined' \subseteq Beside /\ cut' \subseteq Beside /\ daemon' = "up" /\ FilesSay'
<1>1. /\ members \subseteq Beside /\ joined \subseteq Beside /\ cut \subseteq Beside
      /\ joinFile \in [Beside -> {"no", "yes", "torn"}]
  BY DEF FedInv, FedTypeOK
<1>2. PICK entered \in SUBSET ns, memoryOnly \in SUBSET ns, hurt \in SUBSET ns :
         /\ memoryOnly \subseteq entered /\ hurt \subseteq memoryOnly
         /\ members' = members \cup entered
         /\ joinFile' = [n \in Beside |-> IF n \in hurt THEN "torn"
                                         ELSE IF n \in entered \ memoryOnly THEN "yes" ELSE joinFile[n]]
         /\ joined' = joined \cup entered /\ cut' = (cut \ entered) \cup memoryOnly /\ daemon' = "up"
  BY DEF Joins
<1>3. joinFile' \in [Beside -> {"no", "yes", "torn"}]
  BY <1>1, <1>2
<1>4. FilesSay'
  <2>1. ASSUME NEW n \in Beside, n \notin cut'
        PROVE  /\ joinFile'[n] = "yes" <=> n \in joined'
               /\ n \in members' <=> n \in joined'
    BY <1>1, <1>2, <2>1 DEF FedInv, FilesSay
  <2>2. QED
    BY <1>2, <2>1 DEF FilesSay
<1>5. QED
  BY <1>1, <1>2, <1>3, <1>4

LEMMA DownInv ==
  ASSUME FedInv, Down, UNCHANGED <<hostFile, joined>>,
         \/ UNCHANGED <<joinFile, cut>>
         \/ \E n \in Beside : joinFile' = [joinFile EXCEPT ![n] = "torn"] /\ cut' = cut \cup {n}
  PROVE  FedInv'
<1>1. /\ joined \subseteq Beside /\ cut \subseteq Beside
      /\ joinFile \in [Beside -> {"no", "yes", "torn"}] /\ hostFile \in [Nets -> HostedKeys \cup Unknown]
  BY DEF FedInv, FedTypeOK
<1>2. /\ daemon' = "down" /\ hosted' = Empty /\ members' = {} /\ declared' = {}
      /\ entry' = [q \in Peers |-> Unknown] /\ shown' = [q \in Peers |-> {}]
  BY DEF Down
<1>3. /\ joinFile' \in [Beside -> {"no", "yes", "torn"}] /\ cut' \subseteq Beside
      /\ \A m \in Beside \ cut' : m \notin cut /\ joinFile'[m] = joinFile[m]
  BY <1>1
<1>4. FedTypeOK'
  <2>1. /\ entry' \in [Peers -> {Unknown} \cup SUBSET Nets] /\ shown' \in [Peers -> SUBSET Nets]
    BY <1>2, NoPeers
  <2>2. hosted' \in [Nets -> HostedKeys]
    BY <1>2, NetsApart DEF Empty
  <2>3. QED
    BY <1>1, <1>2, <1>3, <2>1, <2>2 DEF FedTypeOK
<1>5. HomeHosted' /\ Admitted' /\ FilesSay'
  BY <1>2, <1>3 DEF FedInv, HomeHosted, Admitted, FilesSay
<1>6. QED
  BY <1>4, <1>5 DEF FedInv

LEMMA LeaveInv ==
  ASSUME FedInv, NEW n \in Beside, Leave(n)
  PROVE  FedInv'
<1>1. /\ members \subseteq Beside /\ joined \subseteq Beside /\ cut \subseteq Beside
      /\ joinFile \in [Beside -> {"no", "yes", "torn"}]
  BY DEF FedInv, FedTypeOK
<1>2. /\ members' = members \ {n} /\ joined' = joined \ {n}
      /\ \/ joinFile' = [joinFile EXCEPT ![n] = "no"] /\ cut' = cut \ {n}
         \/ UNCHANGED joinFile /\ cut' = cut \cup {n}
      /\ UNCHANGED <<daemon, hostFile, hosted, declared, entry, shown>>
  BY DEF Leave, Unlinked
<1>3. /\ joinFile' \in [Beside -> {"no", "yes", "torn"}] /\ cut' \subseteq Beside
      /\ joinFile'[n] = "no" \/ n \in cut'
      /\ \A m \in Beside : m # n => joinFile'[m] = joinFile[m] /\ (m \in cut' <=> m \in cut)
  BY <1>1, <1>2
<1>4. FedTypeOK'
  BY <1>1, <1>2, <1>3 DEF FedInv, FedTypeOK
<1>5. FilesSay'
  BY <1>1, <1>2, <1>3 DEF FedInv, FilesSay
<1>6. QED
  BY <1>2, <1>4, <1>5 DEF FedInv, HomeHosted, Admitted, Keyed
\* What a node and its home network have in common with the networks it is in.
LEMMA NewBeside ==
  ASSUME FedInv, daemon = "up", NEW claims \in SUBSET Nets
  PROVE  claims \ Ids \in SUBSET Beside
BY NetsApart DEF FedInv, HomeHosted, Ids, HostIds

\* A handshake writes the entry of a peer, and what of its claims counts it has shown the key of.
LEMMA ShakenInv ==
  ASSUME FedInv, NEW q \in Peers, NEW claims \in SUBSET Nets, NEW keys \in SUBSET Nets,
         entry' = [entry EXCEPT ![q] = Accepted(claims, keys)], shown' = [shown EXCEPT ![q] = keys],
         UNCHANGED hosted
  PROVE  /\ entry' \in [Peers -> {Unknown} \cup SUBSET Nets] /\ shown' \in [Peers -> SUBSET Nets]
         /\ Admitted'
<1>1. entry \in [Peers -> {Unknown} \cup SUBSET Nets] /\ shown \in [Peers -> SUBSET Nets] /\ Admitted
  BY DEF FedInv, FedTypeOK
<1>2. Accepted(claims, keys) \in {Unknown} \cup SUBSET Nets
  BY DEF Accepted
<1>3. \A n \in Accepted(claims, keys) : Keyed(n) => n \in keys
  BY DEF Accepted
<1>4. entry' \in [Peers -> {Unknown} \cup SUBSET Nets] /\ entry'[q] = Accepted(claims, keys)
  BY <1>1, <1>2
<1>5. shown' \in [Peers -> SUBSET Nets] /\ shown'[q] = keys
  BY <1>1
<1>6. \A m \in Peers : m # q => entry'[m] = entry[m] /\ shown'[m] = shown[m]
  BY <1>1
<1>7. Admitted'
  <2> SUFFICES ASSUME NEW m \in Peers, NEW n \in Nets, entry'[m] # Unknown, n \in entry'[m], Keyed(n)'
               PROVE  n \in shown'[m]
    BY DEF Admitted
  <2>1. Keyed(n)
    BY DEF Keyed
  <2>2. CASE m = q
    BY <1>3, <1>4, <1>5, <2>1, <2>2
  <2>3. CASE m # q
    BY <1>1, <1>6, <2>1, <2>3 DEF Admitted
  <2>4. QED
    BY <2>2, <2>3
<1>8. QED
  BY <1>4, <1>5, <1>7

LEMMA HelloInv ==
  ASSUME FedInv, NEW q \in Peers, NEW claims \in SUBSET Nets, NEW keys \in SUBSET Nets,
         Hello(q, claims, keys) \/ Dialled(q, claims, keys)
  PROVE  FedInv'
<1>1. CASE Hello(q, claims, keys)
  <2>1. /\ daemon = "up"
        /\ UNCHANGED <<daemon, hostFile, joinFile, hosted, members, declared, joined, cut>>
    BY <1>1 DEF Hello
  <2>2. /\ entry' \in [Peers -> {Unknown} \cup SUBSET Nets] /\ shown' \in [Peers -> SUBSET Nets]
        /\ Admitted'
    BY <1>1, ShakenInv DEF Hello
  <2>3. QED
    BY <2>1, <2>2 DEF FedInv, FedTypeOK, HomeHosted, FilesSay
<1>2. CASE Dialled(q, claims, keys)
  <2> DEFINE new == IF q \in BootstrapPeers THEN claims \ Ids ELSE {}
  <2>1. daemon = "up"
    BY <1>2 DEF Dialled
  <2>2. new \in SUBSET Beside
    BY <2>1, NewBeside
  <2>3. \/ /\ entry' = [entry EXCEPT ![q] = Accepted(claims, keys)] /\ shown' = [shown EXCEPT ![q] = keys]
           /\ Joins(new) /\ UNCHANGED <<hostFile, hosted, declared>>
        \/ \E n \in new : DiesJoining(n)
    BY <1>2 DEF Dialled, DialledClaims
  <2> HIDE DEF new
  <2>4. CASE Joins(new) /\ UNCHANGED <<hostFile, hosted, declared>> /\ ~\E n \in new : DiesJoining(n)
    <3>1. /\ members' \subseteq Beside /\ joinFile' \in [Beside -> {"no", "yes", "torn"}]
          /\ joined' \subseteq Beside /\ cut' \subseteq Beside /\ daemon' = "up" /\ FilesSay'
      BY <2>1, <2>2, <2>4, JoinsFiles
    <3>2. /\ entry' \in [Peers -> {Unknown} \cup SUBSET Nets] /\ shown' \in [Peers -> SUBSET Nets]
          /\ Admitted'
      BY <2>3, <2>4, ShakenInv
    <3>3. QED
      BY <2>1, <2>4, <3>1, <3>2 DEF FedInv, FedTypeOK, HomeHosted
  <2>5. CASE \E n \in new : DiesJoining(n)
    BY <2>2, <2>5, DownInv DEF DiesJoining
  <2>6. QED
    BY <2>3, <2>4, <2>5
<1>3. QED
  BY <1>1, <1>2

LEMMA JoinInv ==
  ASSUME FedInv, NEW n \in Beside, Join(n)
  PROVE  FedInv'
<1>1. daemon = "up"
  BY DEF Join
<1>2. CASE DiesJoining(n)
  BY <1>2, DownInv DEF DiesJoining
<1>3. CASE Joins({n}) /\ UNCHANGED <<hostFile, hosted, declared, entry, shown>>
  <2>1. /\ members' \subseteq Beside /\ joinFile' \in [Beside -> {"no", "yes", "torn"}]
        /\ joined' \subseteq Beside /\ cut' \subseteq Beside /\ daemon' = "up" /\ FilesSay'
    BY <1>1, <1>3, JoinsFiles
  <2>2. QED
    BY <1>1, <1>3, <2>1 DEF FedInv, FedTypeOK, HomeHosted, Admitted, Keyed
<1>4. QED
  BY <1>2, <1>3 DEF Join

\* The start reads the files, and knows no peer.
LEMMA StartInv ==
  ASSUME FedInv, Start
  PROVE  FedInv'
<1>1. daemon = "down" /\ UNCHANGED <<hostFile, joinFile, entry, shown, joined, cut>>
  BY DEF Start
<1>2. \A q \in Peers : entry'[q] = Unknown
  BY <1>1 DEF FedInv, HomeHosted
<1>3. CASE hostFile[Home] = Torn
  <2>1. daemon' = "failed" /\ UNCHANGED <<hosted, members, declared>>
    BY <1>3 DEF Start
  <2>2. QED
    BY <1>1, <1>2, <2>1 DEF FedInv, FedTypeOK, HomeHosted, Admitted, FilesSay
<1>4. CASE hostFile[Home] # Torn
  <2>1. /\ daemon' = "up" /\ hosted' = [n \in Nets |-> IF hostFile[n] = Torn THEN NotHosted ELSE hostFile[n]]
        /\ members' = {n \in Beside : joinFile[n] = "yes"}
        /\ declared' = HostIds(hosted') \cup members'
    BY <1>4 DEF Start
  <2>2. hostFile \in [Nets -> HostedKeys \cup Unknown] /\ hostFile[Home] # NotHosted
    BY DEF FedInv, FedTypeOK, HomeHosted
  <2>3. hosted' \in [Nets -> HostedKeys] /\ hosted'[Home] # NotHosted
    BY <1>4, <2>1, <2>2, NetsApart DEF Torn, Unknown
  <2>4. members' \subseteq Beside /\ declared' \subseteq Nets
    BY <2>1, NetsApart DEF HostIds
  <2>5. FedTypeOK'
    BY <1>1, <2>1, <2>3, <2>4 DEF FedInv, FedTypeOK
  <2>6. FilesSay'
    BY <1>1, <2>1 DEF FedInv, FilesSay
  <2>7. QED
    BY <1>1, <1>2, <2>1, <2>2, <2>3, <2>5, <2>6 DEF FedInv, HomeHosted, Admitted
<1>5. QED
  BY <1>3, <1>4

LEMMA FedNextInv == FedInv /\ [FedNext]_fedVars => FedInv'
<1> SUFFICES ASSUME FedInv, [FedNext]_fedVars PROVE FedInv'
  OBVIOUS
<1>1. CASE \/ \E n \in Nets, key \in Keys \cup {NoKey} : Host(n, key) \/ SetKey(n, key)
           \/ \E n \in Nets : Drop(n)
  BY <1>1, CommandInv
<1>2. ASSUME NEW n \in Beside, Join(n) PROVE FedInv'
  BY <1>2, JoinInv
<1>3. ASSUME NEW n \in Beside, Leave(n) PROVE FedInv'
  BY <1>3, LeaveInv
<1>4. ASSUME NEW q \in Peers, NEW claims \in SUBSET Nets, NEW keys \in SUBSET {m \in Nets : Keyed(m)},
             Hello(q, claims, keys) \/ Dialled(q, claims, keys)
      PROVE  FedInv'
  <2>1. keys \in SUBSET Nets
    OBVIOUS
  <2>2. QED
    BY <1>4, <2>1, HelloInv
<1>5. CASE Die
  BY <1>5, DownInv DEF Die
<1>6. CASE Start
  BY <1>6, StartInv
<1>7. CASE UNCHANGED fedVars
  BY <1>7 DEF fedVars, FedInv, FedTypeOK, HomeHosted, Admitted, FilesSay, Keyed
<1>8. QED
  BY <1>1, <1>2, <1>3, <1>4, <1>5, <1>6, <1>7 DEF FedNext

(* Whatever networks, keys and peers there are, and however the command    *)
(* line, crashes and restarts run between handshakes, a peer counts as in  *)
(* a network this node hosts with a key only if it presented that key      *)
(* (federation.py filter_claimed_network_ids).                             *)
THEOREM KeyAdmits == FedSpec => []Admitted
<1>1. FedInv => Admitted
  BY DEF FedInv
<1>2. QED
  BY <1>1, FedInitInv, FedNextInv, PTL DEF FedSpec

(* A node that runs is in the networks it joined and has not left, through *)
(* any number of crashes, those excepted whose file was last not written   *)
(* or removed (federation.py join_network, leave_network, init_network).   *)
THEOREM MembershipsSurvive == FedSpec => []StaysJoined
<1>1. FedInv => StaysJoined
  BY DEF FedInv, FedTypeOK, FilesSay, StaysJoined
<1>2. QED
  BY <1>1, FedInitInv, FedNextInv, PTL DEF FedSpec
(* The files of networks, and what memory holds of networks and peers,     *)
(* stay in their types (federation.py, router/registry.py).                *)
THEOREM FederationTypes == FedSpec => []FedTypeOK
<1>1. FedInv => FedTypeOK
  BY DEF FedInv
<1>2. QED
  BY <1>1, FedInitInv, FedNextInv, PTL DEF FedSpec

-----------------------------------------------------------------------------
(* Downloads: what lies at the paths.                                      *)

TaskRecords == [source : DownloadIds, at : {"none", "begun", "writing", "written", "loading", "cancelled", "ended"},
                file : {0} \cup Tasks, hash : BOOLEAN, live : BOOLEAN]
ByteRecords == [of : SUBSET Sources, whole : BOOLEAN]
InfoStates == {"none", "downloading", "complete", "aborted", "failed"}

FileTypes ==
    /\ info \in [DownloadIds -> InfoStates] /\ current \in [Sources -> {0} \cup Tasks]
    /\ task \in [Tasks -> TaskRecords] /\ bytes \in [Tasks -> ByteRecords]
    /\ part \in {0} \cup Tasks /\ dest \in {0} \cup Tasks /\ finished \in {0} \cup Tasks
    /\ loaded \in BOOLEAN /\ deleting \in BOOLEAN /\ spoilt \in BOOLEAN /\ unmade \subseteq DownloadIds
DirTypes ==
    /\ process \in [is : {"off", "up", "down"}, ends : 0 .. Stops]
    /\ assembly \in [of : Manifests \cup {"none"}, at : 0 .. Files + 1, open : BOOLEAN]
    /\ staged \in [Paths -> Contents] /\ directory \in [Paths -> Contents]

Fetches(t) == task[t].at \in {"begun", "writing", "written"}

\* While no two tasks of the file were under way at once: the one that is works on the path it
\* opened, with nothing at the destination until it has finished, and it is the one its id leads to,
\* unless that one is over for want of its directory.
OneTask ==
    /\ \A t, u \in Tasks : Under(t) /\ Under(u) => t = u
    /\ \A t \in Tasks : /\ Under(t) => task[t].live
                        /\ Fetches(t) \/ task[t].at = "cancelled" => dest = 0
                        /\ task[t].at \in {"writing", "written"} => part = task[t].file /\ part # 0
                        /\ task[t].at = "written" => bytes[part].whole
    /\ \A s \in Sources \ unmade : /\ current[s] # 0 => Under(current[s])
                                   /\ info[s] = "downloading" => \E t \in Tasks : task[t].source = s /\ Fetches(t)
    /\ dest = finished /\ (dest # 0 => bytes[dest].whole)
Sourced ==
    /\ \A t \in Tasks : Under(t) => task[t].source \in Sources
    /\ \A s \in Sources : current[s] # 0 => task[current[s]].source = s /\ task[current[s]].at # "none"
FileInv == FileTypes /\ Sourced /\ (~spoilt => OneTask)

\* What the assembly has passed is staged.
Passed ==
    assembly.of # "none" => /\ assembly.at # 0 /\ \A q \in Paths : q < assembly.at => staged[q] \in Manifests
                            /\ assembly.open => assembly.at \in Paths
DirInv == DirTypes /\ Passed /\ DirectoryWhole

DlInv == FileInv /\ DirInv

LEMMA DlNumbers == /\ MaxTasks \in Nat /\ Files \in Nat /\ Files # 0 /\ Stops \in Nat
                   /\ Tasks = 1 .. MaxTasks /\ Paths = 1 .. Files
                   /\ 0 \notin Tasks /\ Dir \notin Sources /\ Sources \subseteq DownloadIds /\ Dir \in DownloadIds
<1>1. /\ MaxTasks \in Nat /\ Files \in Nat /\ Files # 0 /\ Stops \in Nat
  BY DownloadsAssumption
<1>2. QED
  BY <1>1, DownloadsAssumption DEF Tasks, Paths, Dir, DownloadIds

LEMMA DlTypes == FileTypes /\ DirTypes <=> DownloadsTypeOK
BY DEF FileTypes, DirTypes, DownloadsTypeOK, TaskRecords, ByteRecords, InfoStates

LEMMA DlInitInv == DlInit => DlInv
<1>1. ASSUME NEW there, DlStarted("up", there), there \in [Paths -> Contents],
             there # NoFiles => \A q \in Paths : there[q] \in Manifests
      PROVE  DlInv
  <2>1. /\ process = [is |-> "up", ends |-> 0]
        /\ info = [i \in DownloadIds |-> "none"] /\ current = [s \in Sources |-> 0]
        /\ bytes = [t \in Tasks |-> NoBytes]
        /\ part = 0 /\ dest = 0 /\ loaded = FALSE /\ deleting = FALSE
        /\ assembly = Unassembled /\ staged = NoFiles /\ directory = there
        /\ finished = 0 /\ unmade = {} /\ spoilt = FALSE
    BY <1>1 DEF DlStarted
  <2>2. task \in [Tasks -> TaskRecords] /\ \A t \in Tasks : task[t].at \in {"none", "ended"}
    <3> DEFINE first == [NoTask EXCEPT !.at = IF there = NoFiles THEN "ended" ELSE "none"]
    <3>1. first \in TaskRecords /\ first.at \in {"none", "ended"}
      BY DlNumbers DEF NoTask, TaskRecords
    <3>2. task = [t \in Tasks |-> first]
      BY <1>1 DEF DlStarted
    <3> HIDE DEF first
    <3>3. QED
      BY <3>1, <3>2
  <2>3. bytes \in [Tasks -> ByteRecords]
    <3>1. NoBytes \in ByteRecords
      BY DEF NoBytes, ByteRecords
    <3>2. QED
      BY <2>1, <3>1
  <2>4. FileTypes
    BY <2>1, <2>2, <2>3 DEF FileTypes, InfoStates
  <2>5. OneTask
    BY <2>1, <2>2, DlNumbers DEF OneTask, Under, Fetches
  <2>a. Sourced
    BY <2>1, <2>2 DEF Sourced, Under
  <2>6. DirTypes
    <3>1. 0 \in 0 .. Stops /\ 0 \in 0 .. Files + 1
      BY DlNumbers
    <3>2. NoFiles \in [Paths -> Contents]
      BY DEF NoFiles, Contents
    <3>3. QED
      BY <1>1, <2>1, <3>1, <3>2 DEF DirTypes, Unassembled
  <2>7. Passed /\ DirectoryWhole
    BY <1>1, <2>1 DEF Passed, DirectoryWhole, Unassembled
  <2>8. QED
    BY <2>4, <2>5, <2>a, <2>6, <2>7 DEF DlInv, FileInv, DirInv
<1>2. NoFiles \in [Paths -> Contents]
  BY DEF NoFiles, Contents
<1>3. \A m \in Manifests : /\ [q \in Paths |-> m] \in [Paths -> Contents]
                           /\ \A q \in Paths : [r \in Paths |-> m][q] \in Manifests
  BY DEF Contents
<1>4. QED
  BY <1>1, <1>2, <1>3 DEF DlInit
\* A task that moves on keeps what else it is.
LEMMA TaskMoves ==
  \A x \in TaskRecords, at \in {"none", "begun", "writing", "written", "loading", "cancelled", "ended"} :
      LET y == [x EXCEPT !.at = at]
      IN  y \in TaskRecords /\ y.at = at /\ y.source = x.source /\ y.file = x.file /\ y.hash = x.hash /\ y.live = x.live
BY DEF TaskRecords

LEMMA TaskAt ==
  ASSUME task \in [Tasks -> TaskRecords], NEW t \in Tasks,
         NEW at \in {"none", "begun", "writing", "written", "loading", "cancelled", "ended"},
         task' = [task EXCEPT ![t].at = at]
  PROVE  /\ task' \in [Tasks -> TaskRecords] /\ task'[t].at = at /\ task'[t].source = task[t].source
         /\ task'[t].file = task[t].file /\ task'[t].live = task[t].live
         /\ \A u \in Tasks : u # t => task'[u] = task[u]
<1> DEFINE y == [task[t] EXCEPT !.at = at]
<1>1. task' = [task EXCEPT ![t] = y]
  OBVIOUS
<1>2. y \in TaskRecords /\ y.at = at /\ y.source = task[t].source /\ y.file = task[t].file /\ y.live = task[t].live
  BY TaskMoves, ZenonT(60)
<1> HIDE DEF y
<1>3. QED
  BY <1>1, <1>2

\* A download begins; whatever is under way then spoils the file.
LEMMA DownloadInv ==
  ASSUME FileInv, NEW s \in Sources, NEW t \in Tasks, Download(s, t)
  PROVE  FileInv'
<1> DEFINE first == [NoTask EXCEPT !.source = s, !.at = "begun", !.live = TRUE]
           now(u) == IF u = t THEN first ELSE IF task[u].source = s THEN [task[u] EXCEPT !.live = FALSE] ELSE task[u]
<1>1. /\ dest = 0 /\ info[s] # "downloading" /\ task[t].at = "none"
      /\ info' = [info EXCEPT ![s] = "downloading"] /\ current' = [current EXCEPT ![s] = t]
      /\ task' = [u \in Tasks |-> now(u)]
      /\ spoilt' = (spoilt \/ \E u \in Tasks : Under(u))
      /\ UNCHANGED <<bytes, part, dest, loaded, deleting, finished>> /\ unmade' = unmade \ {s}
  BY DEF Download, NothingThere
<1>2. first \in TaskRecords /\ first.source = s /\ first.at = "begun" /\ first.live
  BY DlNumbers DEF NoTask, TaskRecords
<1>3. \A x \in TaskRecords : LET y == [x EXCEPT !.live = FALSE] IN y \in TaskRecords /\ y.at = x.at /\ y.source = x.source
  BY DEF TaskRecords
<1>4. task \in [Tasks -> TaskRecords]
  BY DEF FileInv, FileTypes
<1>5. \A u \in Tasks : now(u) \in TaskRecords /\ (u # t => now(u).at = task[u].at /\ now(u).source = task[u].source)
  BY <1>2, <1>3, <1>4
<1>6. now(t) = first
  OBVIOUS
<1> HIDE DEF first, now
<1>7. /\ task' \in [Tasks -> TaskRecords] /\ task'[t] = first
      /\ \A u \in Tasks : u # t => task'[u].at = task[u].at /\ task'[u].source = task[u].source
  BY <1>1, <1>5, <1>6
<1>8. /\ info \in [DownloadIds -> InfoStates] /\ current \in [Sources -> {0} \cup Tasks] /\ s \in DownloadIds
      /\ spoilt \in BOOLEAN
  BY DlNumbers DEF FileInv, FileTypes
<1>9. /\ info' \in [DownloadIds -> InfoStates] /\ current' \in [Sources -> {0} \cup Tasks] /\ spoilt' \in BOOLEAN
      /\ current'[s] = t /\ \A r \in Sources : r # s => info'[r] = info[r] /\ current'[r] = current[r]
  BY <1>1, <1>8, DlNumbers DEF InfoStates
<1>10. FileTypes'
  BY <1>1, <1>7, <1>9 DEF FileInv, FileTypes
<1>a. Sourced'
  <2>1. Sourced
    BY DEF FileInv
  <2>2. \A u \in Tasks : u # t => (Under(u)' <=> Under(u))
    BY <1>7 DEF Under
  <2>3. \A u \in Tasks : Under(u)' => task'[u].source \in Sources
    BY <1>2, <1>7, <2>1, <2>2 DEF Sourced
  <2>4. ASSUME NEW r \in Sources, current'[r] # 0
        PROVE  task'[current'[r]].source = r /\ task'[current'[r]].at # "none"
    <3>1. CASE r = s
      BY <1>2, <1>7, <1>9, <3>1
    <3>2. CASE r # s
      <4>1. current'[r] = current[r] /\ current[r] \in Tasks
        BY <1>8, <1>9, <2>4, <3>2
      <4>2. task[current[r]].source = r /\ task[current[r]].at # "none"
        BY <2>1, <2>4, <4>1 DEF Sourced
      <4>3. QED
        BY <1>1, <1>7, <4>1, <4>2
    <3>3. QED
      BY <3>1, <3>2
  <2>5. QED
    BY <2>3, <2>4 DEF Sourced
<1>11. ASSUME ~spoilt' PROVE OneTask'
  <2>1. ~spoilt /\ \A u \in Tasks : ~Under(u)
    BY <1>1, <1>11
  <2>2. OneTask
    BY <2>1 DEF FileInv
  <2>3. \A u \in Tasks : Under(u)' <=> u = t
    BY <1>2, <1>7, <2>1 DEF Under
  <2>4. \A r \in Sources \ unmade : current[r] = 0 /\ info[r] # "downloading"
    BY <2>1, <2>2, <1>8 DEF OneTask, Under, Fetches
  <2>5. \A u \in Tasks : u # t => task'[u].at \in {"none", "ended"}
    BY <1>4, <1>7, <2>1 DEF Under, TaskRecords
  <2>6. \A r \in Sources \ unmade' : /\ current'[r] # 0 => r = s /\ current'[r] = t
                                     /\ info'[r] = "downloading" => r = s
    BY <1>1, <1>9, <2>4
  <2>7. Fetches(t)' /\ task'[t].source = s
    BY <1>2, <1>7 DEF Fetches
  <2>8. /\ \A u \in Tasks : Under(u)' => task'[u].live
        /\ \A u \in Tasks : task'[u].at \notin {"writing", "written"}
    BY <1>2, <1>7, <2>3, <2>5
  <2>9. dest' = 0 /\ finished' = 0
    BY <1>1, <2>2 DEF OneTask
  <2>10. \A r \in Sources \ unmade' :
             /\ current'[r] # 0 => Under(current[r])' /\ task'[current'[r]].source = r
             /\ info'[r] = "downloading" => \E u \in Tasks : task'[u].source = r /\ Fetches(u)'
    BY <2>3, <2>6, <2>7
  <2>11. QED
    BY <2>3, <2>8, <2>9, <2>10 DEF OneTask
<1>12. QED
  BY <1>10, <1>a, <1>11 DEF FileInv

LEMMA OpenInv ==
  ASSUME FileInv, NEW t \in Tasks, Open(t), UNCHANGED unmade
  PROVE  FileInv'
<1> DEFINE file == IF part = 0 THEN t ELSE part
           first == [of |-> {task[t].source}, whole |-> FALSE]
<1>1. PICK hash \in BOOLEAN : task' = [task EXCEPT ![t].at = "writing", ![t].file = file, ![t].hash = hash]
  BY DEF Open
<1>2. /\ task[t].at = "begun" /\ part' = file /\ bytes' = [bytes EXCEPT ![file] = first]
      /\ UNCHANGED <<info, current, dest, loaded, deleting, finished, spoilt>>
  BY DEF Open
<1>3. /\ task \in [Tasks -> TaskRecords] /\ bytes \in [Tasks -> ByteRecords] /\ part \in {0} \cup Tasks
  BY DEF FileInv, FileTypes
<1>4. file \in Tasks
  BY <1>3
<1> HIDE DEF file, first
<1> DEFINE y == [task[t] EXCEPT !.at = "writing", !.file = file, !.hash = hash]
<1>5. task' = [task EXCEPT ![t] = y]
  BY <1>1
<1>6. y \in TaskRecords /\ y.at = "writing" /\ y.file = file /\ y.source = task[t].source /\ y.live = task[t].live
  <2>1. task[t] \in TaskRecords
    BY <1>3
  <2>2. QED
    BY <1>4, <2>1 DEF TaskRecords
<1> HIDE DEF y
<1>7. task' \in [Tasks -> TaskRecords] /\ task'[t] = y /\ \A u \in Tasks : u # t => task'[u] = task[u]
  BY <1>3, <1>5, <1>6
<1>8. bytes' \in [Tasks -> ByteRecords]
  <2>1. task[t].source \in Sources
    BY <1>2 DEF FileInv, Sourced, Under
  <2>2. first \in ByteRecords
    BY <2>1 DEF first, ByteRecords
  <2>3. QED
    BY <1>2, <1>3, <1>4, <2>2
<1>9. FileTypes'
  BY <1>2, <1>4, <1>7, <1>8 DEF FileInv, FileTypes
<1>10. Sourced'
  <2>1. \A u \in Tasks : /\ Under(u)' <=> Under(u)
                         /\ task'[u].source = task[u].source
                         /\ task[u].at # "none" => task'[u].at # "none"
    BY <1>2, <1>6, <1>7 DEF Under
  <2>2. \A s \in Sources : current[s] # 0 => current[s] \in Tasks
    BY DEF FileInv, FileTypes
  <2>3. Sourced /\ UNCHANGED current
    BY <1>2 DEF FileInv
  <2>4. QED
    BY <2>1, <2>2, <2>3 DEF Sourced
<1>11. ASSUME ~spoilt' PROVE OneTask'
  <2>1. OneTask
    BY <1>2, <1>11 DEF FileInv
  <2>2. dest' = 0 /\ finished' = 0
    BY <1>2, <2>1 DEF OneTask, Fetches
  <2>3. \A u \in Tasks : /\ Under(u)' <=> Under(u)
                         /\ task'[u].source = task[u].source /\ task'[u].live = task[u].live
                         /\ Fetches(u)' <=> Fetches(u)
    BY <1>2, <1>6, <1>7 DEF Under, Fetches
  <2>4. \A u \in Tasks : u # t => task[u].at \notin {"writing", "written"}
    BY <1>2, <2>1 DEF OneTask, Under
  <2>5. part' # 0
    BY <1>2, <1>4, DlNumbers
  <2>6. \A u \in Tasks : task'[u].at \in {"writing", "written"} => part' = task'[u].file /\ task'[u].at # "written"
    BY <1>2, <1>6, <1>7, <2>4
  <2>7. \A s \in Sources : current[s] # 0 => current[s] \in Tasks
    BY DEF FileInv, FileTypes
  <2>8. \A s \in Sources \ unmade' :
                           /\ current'[s] # 0 => Under(current[s])'
                           /\ info'[s] = "downloading" => \E u \in Tasks : task'[u].source = s /\ Fetches(u)'
    BY <1>2, <2>1, <2>3, <2>7 DEF OneTask
  <2>10. \A u, v \in Tasks : Under(u)' /\ Under(v)' => u = v
    BY <2>1, <2>3 DEF OneTask
  <2>11. \A u \in Tasks : Under(u)' => task'[u].live
    BY <2>1, <2>3 DEF OneTask
  <2>12. QED
    BY <2>2, <2>5, <2>6, <2>8, <2>10, <2>11 DEF OneTask
<1>12. QED
  BY <1>9, <1>10, <1>11 DEF FileInv
\* A chunk, or the last one.
LEMMA WriteInv ==
  ASSUME FileInv, NEW t \in Tasks, Chunk(t) \/ Wrote(t), UNCHANGED unmade
  PROVE  FileInv'
<1> DEFINE file == task[t].file
           whole == IF Wrote(t) THEN TRUE ELSE bytes[file].whole
           b == [of |-> bytes[file].of \cup {task[t].source}, whole |-> whole]
<1>1. /\ task \in [Tasks -> TaskRecords] /\ bytes \in [Tasks -> ByteRecords] /\ part \in {0} \cup Tasks
      /\ file \in {0} \cup Tasks
  BY DEF FileInv, FileTypes, TaskRecords
<1>2. /\ task[t].at = "writing" /\ UNCHANGED <<info, current, part, dest, loaded, deleting, finished, spoilt>>
      /\ task' = IF Wrote(t) THEN [task EXCEPT ![t].at = "written"] ELSE task
  BY DEF Chunk, Wrote
<1>3. task[t].source \in Sources
  BY <1>2 DEF FileInv, Sourced, Under
<1>4. file \in Tasks => b \in ByteRecords
  BY <1>1, <1>3 DEF ByteRecords
<1>5. bytes' = [bytes EXCEPT ![file] = b]
  <2>1. CASE Wrote(t)
    BY <2>1 DEF Wrote
  <2>2. CASE Chunk(t) /\ ~Wrote(t)
    <3>1. bytes' = [bytes EXCEPT ![file].of = @ \cup {task[t].source}]
      BY <2>2 DEF Chunk
    <3>2. file \in Tasks => bytes[file] \in ByteRecords
      BY <1>1
    <3>3. file \in Tasks => [bytes[file] EXCEPT !.of = @ \cup {task[t].source}] = b
      BY <2>2, <3>2 DEF ByteRecords
    <3> HIDE DEF b, file
    <3>4. QED
      BY <1>1, <3>1, <3>3
  <2>3. QED
    BY <2>1, <2>2
<1>6. b.whole = whole /\ (Wrote(t) => whole = TRUE)
  OBVIOUS
<1> HIDE DEF b, file, whole
<1>7. bytes' \in [Tasks -> ByteRecords] /\ (file \in Tasks => bytes'[file] = b)
  BY <1>1, <1>4, <1>5
<1>8. /\ task' \in [Tasks -> TaskRecords] /\ task'[t].at = (IF Wrote(t) THEN "written" ELSE "writing")
      /\ task'[t].file = file
      /\ \A u \in Tasks : task'[u].source = task[u].source /\ task'[u].live = task[u].live /\ (u # t => task'[u] = task[u])
  <2>1. CASE Wrote(t)
    <3>1. task' = [task EXCEPT ![t].at = "written"]
      BY <1>2, <2>1
    <3>2. QED
      BY <1>1, <2>1, <3>1, TaskAt DEF file
  <2>2. CASE ~Wrote(t)
    BY <1>1, <1>2, <2>2 DEF file
  <2>3. QED
    BY <2>1, <2>2
<1>9. FileTypes'
  BY <1>2, <1>7, <1>8 DEF FileInv, FileTypes
<1>10. \A u \in Tasks : /\ Under(u)' <=> Under(u)
                        /\ Fetches(u)' <=> Fetches(u)
                        /\ task[u].at # "none" => task'[u].at # "none"
  BY <1>2, <1>8 DEF Under, Fetches
<1>11. \A s \in Sources : current[s] # 0 => current[s] \in Tasks
  BY DEF FileInv, FileTypes
<1>12. Sourced'
  BY <1>2, <1>8, <1>10, <1>11 DEF FileInv, Sourced
<1>13. ASSUME ~spoilt' PROVE OneTask'
  <2>1. OneTask
    BY <1>2, <1>13 DEF FileInv
  <2>2. dest' = 0 /\ finished' = 0 /\ part' = file /\ part' # 0
    BY <1>2, <2>1 DEF OneTask, Fetches, file
  <2>3. \A u \in Tasks : u # t => task'[u].at \notin {"writing", "written"}
    BY <1>2, <1>8, <2>1 DEF OneTask, Under
  <2>4. \A u, v \in Tasks : Under(u)' /\ Under(v)' => u = v
    BY <1>10, <2>1 DEF OneTask
  <2>5. \A u \in Tasks : Under(u)' => task'[u].live
    BY <1>8, <1>10, <2>1 DEF OneTask
  <2>6. \A s \in Sources \ unmade' :
                           /\ current'[s] # 0 => Under(current[s])'
                           /\ info'[s] = "downloading" => \E u \in Tasks : task'[u].source = s /\ Fetches(u)'
    BY <1>2, <1>8, <1>10, <1>11, <2>1 DEF OneTask
  <2>7. \A u \in Tasks : /\ task'[u].at \in {"writing", "written"} => part' = task'[u].file /\ part' # 0
                         /\ task'[u].at = "written" => bytes'[part'].whole
    BY <1>1, <1>2, <1>6, <1>7, <1>8, <2>2, <2>3
  <2>8. QED
    BY <2>2, <2>4, <2>5, <2>6, <2>7 DEF OneTask
<1>14. QED
  BY <1>9, <1>12, <1>13 DEF FileInv

\* The source of a task under way is given its status, and nothing else.
LEMMA ReportedTypes ==
  ASSUME FileInv, NEW t \in Tasks, Under(t), NEW status \in InfoStates
  PROVE  /\ Reported(t, status) \in [DownloadIds -> InfoStates]
         /\ \A s \in Sources : Reported(t, status)[s] = "downloading" /\ status # "downloading"
                => info[s] = "downloading" /\ (s = task[t].source => ~task[t].live)
<1>1. info \in [DownloadIds -> InfoStates] /\ task[t].source \in DownloadIds /\ Sources \subseteq DownloadIds
  BY DlNumbers DEF FileInv, FileTypes, Sourced
<1>2. QED
  BY <1>1 DEF Reported

LEMMA PublishInv ==
  ASSUME FileInv, NEW t \in Tasks, Publish(t), UNCHANGED unmade
  PROVE  FileInv'
<1>1. /\ task[t].at = "written" /\ part # 0 /\ dest' = part /\ part' = 0 /\ finished' = part
      /\ info' = Reported(t, "complete") /\ task' = [task EXCEPT ![t].at = "loading"]
      /\ UNCHANGED <<current, bytes, loaded, deleting, spoilt>>
  BY DEF Publish, Verified
<1>2. task \in [Tasks -> TaskRecords] /\ Under(t) /\ part \in Tasks
  BY <1>1 DEF FileInv, FileTypes, Under
<1>3. /\ task' \in [Tasks -> TaskRecords] /\ task'[t].at = "loading" /\ task'[t].source = task[t].source
      /\ task'[t].live = task[t].live /\ \A u \in Tasks : u # t => task'[u] = task[u]
  BY <1>1, <1>2, TaskAt
<1>4. /\ info' \in [DownloadIds -> InfoStates]
      /\ \A s \in Sources : info'[s] = "downloading" => info[s] = "downloading" /\ (s = task[t].source => ~task[t].live)
  BY <1>1, <1>2, ReportedTypes DEF InfoStates
<1>5. FileTypes'
  BY <1>1, <1>2, <1>3, <1>4 DEF FileInv, FileTypes
<1>6. \A u \in Tasks : /\ Under(u)' <=> Under(u)
                       /\ task'[u].source = task[u].source /\ task'[u].live = task[u].live
                       /\ task[u].at # "none" => task'[u].at # "none"
  BY <1>1, <1>2, <1>3 DEF Under
<1>7. \A s \in Sources : current[s] # 0 => current[s] \in Tasks
  BY DEF FileInv, FileTypes
<1>8. Sourced'
  BY <1>1, <1>6, <1>7 DEF FileInv, Sourced
<1>9. ASSUME ~spoilt' PROVE OneTask'
  <2>1. OneTask
    BY <1>1, <1>9 DEF FileInv
  <2>2. \A u \in Tasks : u # t => ~Under(u) /\ ~Under(u)'
    BY <1>2, <1>6, <2>1 DEF OneTask
  <2>3. \A u \in Tasks : ~Fetches(u)' /\ task'[u].at \notin {"writing", "written", "cancelled"}
    BY <1>3, <2>2 DEF Under, Fetches
  <2>4. \A s \in Sources \ unmade' : info'[s] # "downloading"
    BY <1>2, <1>4, <2>1, <2>2 DEF OneTask, Fetches, Under
  <2>5. dest' = finished' /\ bytes'[dest'].whole
    BY <1>1, <2>1 DEF OneTask
  <2>6. \A u, v \in Tasks : Under(u)' /\ Under(v)' => u = v
    BY <1>6, <2>1 DEF OneTask
  <2>7. \A u \in Tasks : Under(u)' => task'[u].live
    BY <1>6, <2>1 DEF OneTask
  <2>8. \A s \in Sources \ unmade' : current'[s] # 0 => Under(current[s])'
    BY <1>1, <1>6, <1>7, <2>1 DEF OneTask
  <2>9. QED
    BY <2>3, <2>4, <2>5, <2>6, <2>7, <2>8 DEF OneTask
<1>10. QED
  BY <1>5, <1>8, <1>9 DEF FileInv
\* A task that ends, and with it what its id led to.
LEMMA TaskEndsInv ==
  ASSUME FileInv, NEW t \in Tasks, Under(t), Popped(t), task' = [task EXCEPT ![t].at = "ended"],
         UNCHANGED <<bytes, deleting, finished, unmade, spoilt>>, loaded' \in BOOLEAN,
         \/ /\ task[t].at = "loading" /\ UNCHANGED <<info, part, dest>>
         \/ /\ Fetches(t) \/ task[t].at = "cancelled"
            /\ part' = 0 /\ dest' = 0
            /\ \E status \in InfoStates \ {"downloading"} : info' = Reported(t, status)
  PROVE  FileInv'
<1>1. /\ task \in [Tasks -> TaskRecords] /\ current \in [Sources -> {0} \cup Tasks] /\ task[t].source \in Sources
      /\ 0 \in {0} \cup Tasks
  BY DEF FileInv, FileTypes, Sourced
<1>2. /\ task' \in [Tasks -> TaskRecords] /\ task'[t].at = "ended" /\ task'[t].source = task[t].source
      /\ task'[t].live = task[t].live /\ \A u \in Tasks : u # t => task'[u] = task[u]
  BY <1>1, TaskAt
<1>3. /\ info' \in [DownloadIds -> InfoStates]
      /\ \A s \in Sources : info'[s] = "downloading"
              => info[s] = "downloading" /\ (s = task[t].source => ~task[t].live \/ task[t].at = "loading")
  <2>1. CASE UNCHANGED info /\ task[t].at = "loading"
    BY <2>1 DEF FileInv, FileTypes
  <2>2. ASSUME NEW status \in InfoStates \ {"downloading"}, info' = Reported(t, status)
        PROVE  /\ info' \in [DownloadIds -> InfoStates]
               /\ \A s \in Sources : info'[s] = "downloading"
                       => info[s] = "downloading" /\ (s = task[t].source => ~task[t].live \/ task[t].at = "loading")
    BY <2>2, ReportedTypes
  <2>3. QED
    BY <2>1, <2>2
<1>4. /\ current' \in [Sources -> {0} \cup Tasks] /\ current'[task[t].source] = 0
      /\ \A s \in Sources : s # task[t].source => current'[s] = current[s]
  BY <1>1 DEF Popped
<1>5. FileTypes'
  BY <1>1, <1>2, <1>3, <1>4 DEF FileInv, FileTypes
<1>6. \A u \in Tasks : /\ Under(u)' <=> (u # t /\ Under(u))
                       /\ task'[u].source = task[u].source /\ task'[u].live = task[u].live
                       /\ task[u].at # "none" => task'[u].at # "none"
  BY <1>1, <1>2 DEF Under
<1>7. Sourced'
  <2>1. Sourced
    BY DEF FileInv
  <2>2. \A s \in Sources : current'[s] # 0 => current'[s] = current[s] /\ current[s] \in Tasks
    BY <1>1, <1>4
  <2>3. QED
    BY <1>6, <2>1, <2>2 DEF Sourced
<1>8. ASSUME ~spoilt' PROVE OneTask'
  <2>1. OneTask /\ Sourced
    BY <1>8 DEF FileInv
  <2>2. \A u \in Tasks : ~Under(u)' /\ (u # t => ~Under(u))
    BY <1>6, <2>1 DEF OneTask
  <2>3. \A u \in Tasks : ~Fetches(u)' /\ task'[u].at \notin {"writing", "written", "cancelled"}
    BY <2>2 DEF Under, Fetches
  <2>4. \A s \in Sources \ unmade : current[s] # 0 => current[s] = t /\ s = task[t].source
    BY <1>1, <2>1, <2>2 DEF OneTask, Sourced
  <2>5. \A s \in Sources \ unmade : current'[s] = 0
    BY <1>1, <1>4, <2>4
  <2>6. ASSUME NEW s \in Sources \ unmade, info'[s] = "downloading" PROVE FALSE
    <3>1. PICK u \in Tasks : task[u].source = s /\ Fetches(u)
      BY <1>3, <2>1, <2>6 DEF OneTask
    <3>2. Under(u) /\ task[u].at # "loading"
      BY <3>1 DEF Under, Fetches
    <3>3. u = t /\ task[t].live
      BY <2>1, <2>2, <3>2 DEF OneTask
    <3>4. QED
      BY <1>3, <2>6, <3>1, <3>2, <3>3
  <2>7. dest' = finished' /\ (dest' # 0 => bytes'[dest'].whole)
    BY <2>1 DEF OneTask
  <2>8. QED
    BY <2>2, <2>3, <2>5, <2>6, <2>7 DEF OneTask
<1>9. QED
  BY <1>5, <1>7, <1>8 DEF FileInv

LEMMA EndedInv ==
  ASSUME FileInv, NEW t \in Tasks, Fail(t) \/ Load(t) \/ Cancelled(t), UNCHANGED unmade
  PROVE  FileInv'
<1>1. loaded \in BOOLEAN
  BY DEF FileInv, FileTypes
<1>2. CASE Load(t)
  BY <1>1, <1>2, TaskEndsInv DEF Load, Under
<1>3. CASE Fail(t)
  BY <1>1, <1>3, TaskEndsInv DEF Fail, Removed, Under, Fetches, InfoStates
<1>4. CASE Cancelled(t)
  BY <1>1, <1>4, TaskEndsInv DEF Cancelled, Removed, Under, Fetches, InfoStates
<1>5. QED
  BY <1>2, <1>3, <1>4

\* An abort cancels the task its id leads to, which has nothing at the destination.
LEMMA AbortInv ==
  ASSUME FileInv, NEW s \in Sources, Abort(s), UNCHANGED unmade
  PROVE  FileInv'
<1>1. /\ info[s] = "downloading" /\ info' = [info EXCEPT ![s] = "aborted"] /\ dest' = 0
      /\ task' = [t \in Tasks |-> IF t = current[s] /\ Under(t) THEN [task[t] EXCEPT !.at = "cancelled"] ELSE task[t]]
      /\ UNCHANGED <<current, bytes, part, loaded, deleting, finished>> /\ spoilt' = (spoilt \/ s \in unmade)
  BY DEF Abort
<1>2. /\ task \in [Tasks -> TaskRecords] /\ current \in [Sources -> {0} \cup Tasks]
      /\ info \in [DownloadIds -> InfoStates] /\ s \in DownloadIds
  BY DlNumbers DEF FileInv, FileTypes
<1>3. /\ task' \in [Tasks -> TaskRecords]
      /\ \A t \in Tasks : /\ task'[t].at = (IF t = current[s] /\ Under(t) THEN "cancelled" ELSE task[t].at)
                          /\ task'[t].source = task[t].source /\ task'[t].live = task[t].live /\ task'[t].file = task[t].file
  <2> DEFINE now(t) == IF t = current[s] /\ Under(t) THEN [task[t] EXCEPT !.at = "cancelled"] ELSE task[t]
  <2>1. \A t \in Tasks : /\ now(t) \in TaskRecords /\ now(t).at = (IF t = current[s] /\ Under(t) THEN "cancelled" ELSE task[t].at)
                         /\ now(t).source = task[t].source /\ now(t).live = task[t].live /\ now(t).file = task[t].file
    <3>1. \A x \in TaskRecords : LET y == [x EXCEPT !.at = "cancelled"]
                                IN  /\ y \in TaskRecords /\ y.at = "cancelled"
                                    /\ y.source = x.source /\ y.live = x.live /\ y.file = x.file
      BY DEF TaskRecords
    <3>2. QED
      BY <1>2, <3>1
  <2>2. task' = [t \in Tasks |-> now(t)]
    BY <1>1
  <2> HIDE DEF now
  <2>3. QED
    BY <2>1, <2>2
<1>4. /\ info' \in [DownloadIds -> InfoStates] /\ info'[s] # "downloading"
      /\ \A r \in Sources : info'[r] = "downloading" => info[r] = "downloading" /\ r # s
  BY <1>1, <1>2, DlNumbers DEF InfoStates
<1>a. spoilt' \in BOOLEAN
  <2>1. spoilt \in BOOLEAN
    BY DEF FileInv, FileTypes
  <2>2. QED
    BY <1>1, <2>1
<1>5. FileTypes'
  BY <1>1, <1>3, <1>4, <1>a DEF FileInv, FileTypes
<1>6. Sourced'
  <2>1. Sourced
    BY DEF FileInv
  <2>2. \A t \in Tasks : Under(t)' => Under(t)
    BY <1>3 DEF Under
  <2>4. \A t \in Tasks : Under(t)' => task'[t].source \in Sources
    BY <1>3, <2>1, <2>2 DEF Sourced
  <2>5. \A r \in Sources : current'[r] # 0 => task'[current'[r]].source = r /\ task'[current'[r]].at # "none"
    BY <1>1, <1>2, <1>3, <2>1 DEF Sourced
  <2>6. QED
    BY <2>4, <2>5 DEF Sourced
<1>7. ASSUME ~spoilt' PROVE OneTask'
  <2>1. OneTask /\ s \notin unmade
    BY <1>1, <1>7 DEF FileInv
  <2>2. PICK u \in Tasks : task[u].source = s /\ Fetches(u)
    BY <1>1, <2>1 DEF OneTask
  <2>3. dest = 0 /\ finished = 0 /\ Under(u)
    BY <2>1, <2>2 DEF OneTask, Under, Fetches
  <2>4. \A t \in Tasks : Under(t) => t = u
    BY <2>1, <2>3 DEF OneTask
  <2>5. \A t \in Tasks : t = current[s] => t = u
    <3>1. current[s] # 0 => Under(current[s])
      BY <2>1 DEF OneTask
    <3>2. QED
      BY <2>4, <3>1, DlNumbers
  <2>6. \A t \in Tasks : /\ Under(t)' <=> Under(t)
                         /\ t # u => ~Under(t)
                         /\ task'[t].at \in {"writing", "written"} => task'[t].at = task[t].at
    BY <1>3, <2>3, <2>4, <2>5 DEF Under
  <2>7. \A r \in Sources \ unmade : info'[r] # "downloading"
    BY <1>4, <2>1, <2>2, <2>4 DEF OneTask, Under, Fetches
  <2>8. \A r \in Sources \ unmade : current'[r] # 0 => Under(current[r])'
    BY <1>1, <1>2, <2>1, <2>6 DEF OneTask
  <2>9. \A t \in Tasks : /\ task'[t].at \in {"writing", "written"} => part' = task'[t].file /\ part' # 0
                         /\ task'[t].at = "written" => bytes'[part'].whole
    BY <1>1, <1>3, <2>1, <2>6 DEF OneTask
  <2>10. \A t, v \in Tasks : Under(t)' /\ Under(v)' => t = v
    BY <2>4, <2>6
  <2>11. \A t \in Tasks : Under(t)' => task'[t].live
    BY <1>3, <2>1, <2>6 DEF OneTask
  <2>12. QED
    BY <1>1, <2>3, <2>7, <2>8, <2>9, <2>10, <2>11 DEF OneTask
<1>8. QED
  BY <1>5, <1>6, <1>7 DEF FileInv

\* A task that ends where its directory cannot be made leaves all as it is.
LEMMA NoDirectoryInv ==
  ASSUME FileInv, NEW t \in Tasks, NoDirectory(t)
  PROVE  FileInv'
<1>1. /\ task[t].at = "begun" /\ task' = [task EXCEPT ![t].at = "ended"]
      /\ unmade' = IF task[t].live THEN unmade \cup {task[t].source} ELSE unmade
      /\ UNCHANGED <<info, current, bytes, part, dest, loaded, deleting, finished, spoilt>>
  BY DEF NoDirectory
<1>2. /\ task \in [Tasks -> TaskRecords] /\ current \in [Sources -> {0} \cup Tasks] /\ unmade \subseteq DownloadIds
      /\ Under(t) /\ task[t].source \in Sources /\ Sources \subseteq DownloadIds
  BY <1>1, DlNumbers DEF FileInv, FileTypes, Sourced, Under
<1>3. /\ task' \in [Tasks -> TaskRecords] /\ task'[t].at = "ended" /\ task'[t].source = task[t].source
      /\ task'[t].live = task[t].live /\ \A u \in Tasks : u # t => task'[u] = task[u]
  BY <1>1, <1>2, TaskAt
<1>4. unmade' \subseteq DownloadIds
  BY <1>1, <1>2
<1>5. FileTypes'
  BY <1>1, <1>3, <1>4 DEF FileInv, FileTypes
<1>6. \A u \in Tasks : /\ Under(u)' <=> (u # t /\ Under(u))
                       /\ task'[u].source = task[u].source /\ task'[u].live = task[u].live
                       /\ task[u].at # "none" => task'[u].at # "none"
  BY <1>1, <1>3 DEF Under
<1>7. Sourced'
  BY <1>1, <1>2, <1>6 DEF FileInv, Sourced
<1>8. ASSUME ~spoilt' PROVE OneTask'
  <2>1. OneTask /\ Sourced
    BY <1>1, <1>8 DEF FileInv
  <2>2. \A u \in Tasks : ~Under(u)' /\ (u # t => ~Under(u))
    BY <1>2, <1>6, <2>1 DEF OneTask
  <2>3. \A u \in Tasks : ~Fetches(u)' /\ task'[u].at \notin {"writing", "written", "cancelled"}
    BY <2>2 DEF Under, Fetches
  <2>4. unmade' = unmade \cup {task[t].source}
    BY <1>1, <1>2, <2>1 DEF OneTask
  <2>5. ASSUME NEW s \in Sources \ unmade' PROVE current'[s] = 0 /\ info'[s] # "downloading"
    <3>1. s \in Sources \ unmade /\ s # task[t].source
      BY <2>4
    <3>2. \A u \in Tasks : Under(u) => task[u].source # s
      BY <2>2, <3>1
    <3>3. current[s] = 0
      BY <1>2, <2>1, <3>1, <3>2 DEF OneTask, Sourced
    <3>4. info[s] # "downloading"
      BY <2>1, <3>1, <3>2 DEF OneTask, Under, Fetches
    <3>5. QED
      BY <1>1, <3>3, <3>4
  <2>6. dest' = finished' /\ (dest' # 0 => bytes'[dest'].whole)
    BY <1>1, <2>1 DEF OneTask
  <2>7. QED
    BY <2>2, <2>3, <2>5, <2>6 DEF OneTask
<1>9. QED
  BY <1>5, <1>7, <1>8 DEF FileInv

\* A deletion is of a file that no task has yet to put there.
LEMMA DeleteInv ==
  ASSUME FileInv, Delete \/ Unloaded, UNCHANGED unmade
  PROVE  FileInv'
<1>1. UNCHANGED <<info, current, task, bytes, part, spoilt>>
  BY DEF Delete, Unloaded
<1>2. \/ UNCHANGED <<dest, finished>>
      \/ dest' = 0 /\ finished' = 0
  BY DEF Delete, Unloaded
<1>3. loaded' \in BOOLEAN /\ deleting' \in BOOLEAN
  BY DEF Delete, Unloaded, FileInv, FileTypes
<1>4. QED
  <2>1. FileTypes'
    BY <1>1, <1>2, <1>3 DEF FileInv, FileTypes
  <2>2. Sourced'
    BY <1>1 DEF FileInv, Sourced, Under
  <2>3. ASSUME ~spoilt' PROVE OneTask'
    BY <1>1, <1>2, <2>3 DEF FileInv, OneTask, Under, Fetches
  <2>4. QED
    BY <2>1, <2>2, <2>3 DEF FileInv
\* What the assembly of a directory does is nothing to the file.
LEMMA FileStays ==
  ASSUME FileInv, NEW status \in InfoStates,
         info' = info \/ info' = [info EXCEPT ![Dir] = status],
         unmade' \subseteq DownloadIds, unmade' \ {Dir} = unmade \ {Dir},
         UNCHANGED <<current, task, bytes, part, dest, loaded, deleting, finished, spoilt>>
  PROVE  FileInv'
<1>a. \A s \in Sources : s \in unmade' <=> s \in unmade
  BY DlNumbers
<1>1. info' \in [DownloadIds -> InfoStates] /\ \A s \in Sources : info'[s] = info[s]
  BY DlNumbers DEF FileInv, FileTypes
<1>2. FileTypes'
  BY <1>1 DEF FileInv, FileTypes
<1>3. Sourced'
  BY DEF FileInv, Sourced, Under
<1>4. ASSUME ~spoilt' PROVE OneTask'
  BY <1>1, <1>4, <1>a DEF FileInv, OneTask, Under, Fetches
<1>5. QED
  BY <1>2, <1>3, <1>4 DEF FileInv

Assemblies == [of : Manifests \cup {"none"}, at : 0 .. Files + 1, open : BOOLEAN]

LEMMA DirFacts ==
  ASSUME DirInv
  PROVE  /\ assembly \in Assemblies /\ staged \in [Paths -> Contents] /\ directory \in [Paths -> Contents]
         /\ process \in [is : {"off", "up", "down"}, ends : 0 .. Stops]
         /\ Unassembled \in Assemblies /\ Unassembled.of = "none"
         /\ Manifests \subseteq Contents /\ "partial" \in Contents /\ "absent" \in Contents /\ NoFiles \in [Paths -> Contents]
<1>1. 0 \in 0 .. Files + 1
  BY DlNumbers
<1>2. Unassembled \in Assemblies /\ Unassembled.of = "none"
  BY <1>1 DEF Unassembled, Assemblies
<1>3. NoFiles \in [Paths -> Contents]
  BY DEF NoFiles, Contents
<1>4. QED
  BY <1>2, <1>3 DEF DirInv, DirTypes, Assemblies, Contents

\* A file of the assembly: what lies before the path it is at stays as it is, and it goes on only
\* over what is staged.
LEMMA AssemblyInv ==
  ASSUME DirInv, NEW q \in Paths, SkipFile(q) \/ FetchFile(q) \/ GotFile(q)
  PROVE  DirInv'
<1> USE DirFacts
<1>1. /\ assembly.of # "none" /\ assembly.at = q /\ UNCHANGED <<process, directory>>
      /\ assembly.of \in Manifests /\ assembly.open \in BOOLEAN
  BY DEF SkipFile, FetchFile, GotFile, Assembling, AssemblyUnchanged, Assemblies
<1>2. q \in Nat /\ q # 0 /\ q + 1 \in 0 .. Files + 1 /\ q + 1 # 0 /\ q \in 0 .. Files + 1
      /\ \A r \in Paths : (r < q + 1 => r < q \/ r = q) /\ (r < q => r # q)
  BY DlNumbers
<1>3. \A r \in Paths : r < q => staged[r] \in Manifests
  BY <1>1 DEF DirInv, Passed
<1>4. \A x \in Assemblies, at \in 0 .. Files + 1, open \in BOOLEAN :
          LET y == [x EXCEPT !.open = open, !.at = at]
          IN  y \in Assemblies /\ y.at = at /\ y.open = open /\ y.of = x.of
  BY DEF Assemblies
<1>5. assembly' \in Assemblies /\ staged' \in [Paths -> Contents] /\ Passed'
  <2>1. CASE SkipFile(q)
    <3>1. assembly' = [assembly EXCEPT !.at = q + 1] /\ staged' = staged /\ staged[q] \in Manifests /\ ~assembly.open
      BY <2>1 DEF SkipFile, Skips
    <3>2. assembly' \in Assemblies /\ assembly'.at = q + 1 /\ assembly'.open = assembly.open
      BY <1>2, <3>1 DEF Assemblies
    <3>3. Passed'
      BY <1>2, <1>3, <3>1, <3>2 DEF Passed
    <3>4. QED
      BY <3>1, <3>2, <3>3
  <2>2. CASE FetchFile(q)
    <3>1. assembly' = [assembly EXCEPT !.open = TRUE] /\ staged' = [staged EXCEPT ![q] = "partial"]
      BY <2>2 DEF FetchFile
    <3>2. assembly' \in Assemblies /\ assembly'.at = q
      BY <1>1, <3>1 DEF Assemblies
    <3>3. staged' \in [Paths -> Contents] /\ \A r \in Paths : r # q => staged'[r] = staged[r]
      BY <3>1
    <3>4. Passed'
      BY <1>2, <1>3, <3>2, <3>3 DEF Passed
    <3>5. QED
      BY <3>2, <3>3, <3>4
  <2>3. CASE GotFile(q)
    <3>1. assembly' = [assembly EXCEPT !.open = FALSE, !.at = q + 1] /\ staged' = [staged EXCEPT ![q] = assembly.of]
      BY <2>3 DEF GotFile
    <3>2. assembly' \in Assemblies /\ assembly'.at = q + 1 /\ ~assembly'.open
      BY <1>2, <3>1 DEF Assemblies
    <3>3. staged' \in [Paths -> Contents] /\ staged'[q] \in Manifests /\ \A r \in Paths : r # q => staged'[r] = staged[r]
      BY <1>1, <3>1
    <3>4. Passed'
      BY <1>2, <1>3, <3>2, <3>3 DEF Passed
    <3>5. QED
      BY <3>2, <3>3, <3>4
  <2>4. QED
    BY <2>1, <2>2, <2>3
<1>6. QED
  BY <1>1, <1>5 DEF DirInv, DirTypes, Assemblies, DirectoryWhole

\* A directory is begun, published or given up as a whole.
LEMMA DirectoryInv ==
  ASSUME DirInv, (\E m \in Manifests : Assemble(m)) \/ PublishDirectory \/ AbortDirectory \/ FailDirectory
  PROVE  DirInv'
<1> USE DirFacts
<1>1. ASSUME NEW m \in Manifests, Assemble(m) PROVE DirInv'
  <2>1. /\ assembly' = [of |-> m, at |-> 1, open |-> FALSE] \/ UNCHANGED assembly
        /\ UNCHANGED <<process, staged, directory>>
    BY <1>1 DEF Assemble
  <2>a. CASE UNCHANGED assembly
    BY <2>1, <2>a DEF DirInv, DirTypes, Assemblies, Passed, DirectoryWhole
  <2>b. CASE assembly' = [of |-> m, at |-> 1, open |-> FALSE]
    <3>1. 1 \in 0 .. Files + 1 /\ \A r \in Paths : ~(r < 1)
      BY DlNumbers
    <3>2. assembly' \in Assemblies /\ assembly'.at = 1 /\ ~assembly'.open
      BY <2>b, <3>1 DEF Assemblies
    <3>3. Passed'
      BY <3>1, <3>2 DEF Passed
    <3>4. QED
      BY <2>1, <3>2, <3>3 DEF DirInv, DirTypes, Assemblies, DirectoryWhole
  <2>c. QED
    BY <2>1, <2>a, <2>b
<1>2. CASE PublishDirectory
  <2>1. /\ assembly.of # "none" /\ assembly.at \notin Paths
        /\ directory' = staged /\ staged' = NoFiles /\ assembly' = Unassembled /\ UNCHANGED process
    BY <1>2 DEF PublishDirectory
  <2>2. \A r \in Paths : r < assembly.at
    BY <2>1, DlNumbers DEF DirInv, Passed, Assemblies
  <2>3. \A r \in Paths : directory'[r] \in Manifests
    BY <2>1, <2>2 DEF DirInv, Passed
  <2>4. QED
    BY <2>1, <2>3 DEF DirInv, DirTypes, Assemblies, Passed, DirectoryWhole
<1>3. CASE AbortDirectory
  <2>1. assembly' = Unassembled /\ UNCHANGED <<process, staged, directory>>
    BY <1>3 DEF AbortDirectory, AssemblyUnchanged
  <2>2. QED
    BY <2>1 DEF DirInv, DirTypes, Assemblies, Passed, DirectoryWhole
<1>4. CASE FailDirectory
  <2>1. assembly' = Unassembled /\ staged' \in [Paths -> Contents] /\ UNCHANGED <<process, directory>>
    BY <1>4 DEF FailDirectory, AssemblyUnchanged
  <2>2. QED
    BY <2>1 DEF DirInv, DirTypes, Assemblies, Passed, DirectoryWhole
<1>5. QED
  BY <1>1, <1>2, <1>3, <1>4

\* What an orderly end of the node, or its death, leaves of tasks and paths.
LEMMA StopInv ==
  ASSUME DlInv, Stop \/ Killed
  PROVE  DlInv'
<1>1. /\ process.ends < Stops /\ process' = [is |-> "down", ends |-> process.ends + 1]
      /\ info' = [i \in DownloadIds |-> "none"] /\ current' = [s \in Sources |-> 0]
      /\ task' = [t \in Tasks |-> [task[t] EXCEPT !.at = IF @ = "none" THEN "none" ELSE "ended"]]
      /\ loaded' = FALSE /\ deleting' = FALSE /\ assembly' = Unassembled /\ unmade' = {}
      /\ UNCHANGED <<bytes, staged, directory, finished>>
  BY DEF Stop, Killed, Ending, Forgotten
<1>2. /\ \/ part' = 0 /\ dest' = 0 /\ spoilt' = (spoilt \/ \E t \in Tasks : task[t].at = "loading") /\ \E t \in Tasks : Under(t)
         \/ UNCHANGED <<part, dest, spoilt>>
  BY DEF Stop, Killed
<1>3. task \in [Tasks -> TaskRecords]
  BY DEF DlInv, FileInv, FileTypes
<1>4. task' \in [Tasks -> TaskRecords] /\ \A t \in Tasks : task'[t].at \in {"none", "ended"}
  <2>1. \A x \in TaskRecords : LET y == [x EXCEPT !.at = IF @ = "none" THEN "none" ELSE "ended"]
                               IN  y \in TaskRecords /\ y.at \in {"none", "ended"}
    BY DEF TaskRecords
  <2>2. QED
    BY <1>1, <1>3, <2>1
<1>5. FileTypes'
  BY <1>1, <1>2, <1>4 DEF DlInv, FileInv, FileTypes, InfoStates
<1>6. Sourced'
  BY <1>1, <1>4 DEF Sourced, Under
<1>7. ASSUME ~spoilt' PROVE OneTask'
  <2>1. OneTask
    BY <1>2, <1>7 DEF DlInv, FileInv
  <2>2. dest' = finished' /\ (dest' # 0 => bytes'[dest'].whole)
    BY <1>1, <1>2, <1>7, <2>1 DEF OneTask, Under, Fetches
  <2>3. QED
    BY <1>1, <1>4, <2>2, DlNumbers DEF OneTask, Under, Fetches
<1>8. DirInv
  BY DEF DlInv
<1>9. process' \in [is : {"off", "up", "down"}, ends : 0 .. Stops]
  <2>1. process.ends \in 0 .. Stops
    BY <1>8, DirFacts
  <2>2. process.ends + 1 \in 0 .. Stops
    BY <1>1, <2>1, DlNumbers
  <2>3. QED
    BY <1>1, <2>2
<1>10. DirInv'
  BY <1>1, <1>8, <1>9, DirFacts DEF DirInv, DirTypes, Assemblies, Passed, DirectoryWhole
<1>11. QED
  BY <1>5, <1>6, <1>7, <1>10 DEF DlInv, FileInv

LEMMA DlNextInv == DlInv /\ [DlNext]_dlVars => DlInv'
<1> SUFFICES ASSUME DlInv, [DlNext]_dlVars PROVE DlInv'
  OBVIOUS
<1>1. FileInv /\ DirInv
  BY DEF DlInv
<1>2. CASE FileStep /\ UNCHANGED <<process, assembly, staged, directory>>
  <2>1. ASSUME NEW t \in Tasks, NEW s \in Sources, Download(s, t) PROVE FileInv'
    BY <1>1, <2>1, DownloadInv
  <2>a. ASSUME NEW t \in Tasks, NoDirectory(t) PROVE FileInv'
    BY <1>1, <2>a, NoDirectoryInv
  <2>2. ASSUME NEW t \in Tasks, Open(t), UNCHANGED unmade PROVE FileInv'
    BY <1>1, <2>2, OpenInv
  <2>3. ASSUME NEW t \in Tasks, Chunk(t) \/ Wrote(t), UNCHANGED unmade PROVE FileInv'
    BY <1>1, <2>3, WriteInv
  <2>4. ASSUME NEW t \in Tasks, Publish(t), UNCHANGED unmade PROVE FileInv'
    BY <1>1, <2>4, PublishInv
  <2>5. ASSUME NEW t \in Tasks, Fail(t) \/ Load(t) \/ Cancelled(t), UNCHANGED unmade PROVE FileInv'
    BY <1>1, <2>5, EndedInv
  <2>6. ASSUME NEW s \in Sources, Abort(s), UNCHANGED unmade PROVE FileInv'
    BY <1>1, <2>6, AbortInv
  <2>7. ASSUME Delete \/ Unloaded, UNCHANGED unmade PROVE FileInv'
    BY <1>1, <2>7, DeleteInv
  <2>8. FileInv'
    BY <1>2, <2>1, <2>a, <2>2, <2>3, <2>4, <2>5, <2>6, <2>7 DEF FileStep
  <2>9. DirInv'
    BY <1>1, <1>2 DEF DirInv, DirTypes, Passed, DirectoryWhole
  <2>10. QED
    BY <2>8, <2>9 DEF DlInv
<1>3. CASE (\E m \in Manifests : Assemble(m)) \/ PublishDirectory \/ AbortDirectory \/ FailDirectory
  <2>1. DirInv'
    BY <1>1, <1>3, DirectoryInv
  <2>2. \E status \in InfoStates : info' = [info EXCEPT ![Dir] = status]
    BY <1>3 DEF Assemble, PublishDirectory, AbortDirectory, FailDirectory, GivenUp, InfoStates
  <2>3. UNCHANGED <<current, task, bytes, part, dest, loaded, deleting, finished, spoilt>>
    BY <1>3 DEF Assemble, PublishDirectory, AbortDirectory, FailDirectory, AssemblyUnchanged
  <2>a. unmade \subseteq DownloadIds
    BY <1>1 DEF FileInv, FileTypes
  <2>b. unmade' \in {unmade, unmade \ {Dir}, unmade \cup {Dir}}
    BY <1>3 DEF Assemble, PublishDirectory, AbortDirectory, FailDirectory, AssemblyUnchanged
  <2>c. unmade' \subseteq DownloadIds /\ unmade' \ {Dir} = unmade \ {Dir}
    BY <2>a, <2>b, DlNumbers
  <2>4. FileInv'
    BY <1>1, <2>2, <2>3, <2>c, FileStays
  <2>5. QED
    BY <2>1, <2>4 DEF DlInv
<1>4. ASSUME NEW q \in Paths, SkipFile(q) \/ FetchFile(q) \/ GotFile(q) PROVE DlInv'
  <2>1. DirInv'
    BY <1>1, <1>4, AssemblyInv
  <2>2. "none" \in InfoStates /\ info' = info /\ unmade' = unmade /\ unmade \subseteq DownloadIds
    BY <1>1, <1>4 DEF SkipFile, FetchFile, GotFile, AssemblyUnchanged, InfoStates, FileInv, FileTypes
  <2>3. UNCHANGED <<current, task, bytes, part, dest, loaded, deleting, finished, spoilt>>
    BY <1>4 DEF SkipFile, FetchFile, GotFile, AssemblyUnchanged
  <2>4. FileInv'
    BY <1>1, <2>2, <2>3, FileStays
  <2>5. QED
    BY <2>1, <2>4 DEF DlInv
<1>5. CASE Stop \/ Killed
  BY <1>5, StopInv
<1>6. CASE StartAgain \/ UNCHANGED dlVars
  <2>1. UNCHANGED <<info, current, task, bytes, part, dest, loaded, deleting, finished, unmade, spoilt, assembly, staged, directory>>
    BY <1>6 DEF StartAgain, fileVars, dirVars, dlVars
  <2>2. process' \in [is : {"off", "up", "down"}, ends : 0 .. Stops]
    BY <1>1, <1>6, DirFacts DEF StartAgain, dlVars
  <2>3. "none" \in InfoStates /\ unmade \subseteq DownloadIds
    BY <1>1 DEF InfoStates, FileInv, FileTypes
  <2>4. FileInv'
    BY <1>1, <2>1, <2>3, FileStays
  <2>5. QED
    BY <1>1, <2>1, <2>2, <2>4 DEF DlInv, DirInv, DirTypes, Passed, DirectoryWhole
<1>7. QED
  BY <1>2, <1>3, <1>4, <1>5, <1>6 DEF DlNext

(* Whatever is downloaded from wherever, aborted, deleted, stopped and     *)
(* started again, what a finished download put in place is there until it  *)
(* is deleted, whole, and nothing else is, unless downloads of the file    *)
(* overlapped, one that was over for want of its directory was aborted, or *)
(* the node was stopped while it loaded it; and a published directory has  *)
(* every file of it (api/models.py _do_download, _do_manifest_download).   *)
THEOREM FilesStayWhole == DlSpec => []FilesWhole
<1>1. DlInv => FilesWhole
  BY DEF DlInv, FileInv, DirInv, OneTask, FilesWhole, FinishedStays
<1>2. QED
  BY <1>1, DlInitInv, DlNextInv, PTL DEF DlSpec

(* Tasks, paths and what lies there stay in their types (api/models.py).   *)
THEOREM DownloadTypes == DlSpec => []DownloadsTypeOK
<1>1. DlInv => DownloadsTypeOK
  BY DlTypes DEF DlInv, FileInv, DirInv
<1>2. QED
  BY <1>1, DlInitInv, DlNextInv, PTL DEF DlSpec
-----------------------------------------------------------------------------
(* Accounts: the row of the account, and what dashboards see of it.        *)

ConsumingRecords == [at : {"idle", "asking", "debit", "debited", "delivered", "none"}, left : 0 .. Tries, read : Amounts]
ServingRecords   == [at : {"idle", "credit", "credited", "receipt", "ended"}, read : Amounts]
CacheRecords     == [at : {"none", "there"}, stamp : 0 .. MaxClock, value : Amounts]
PollRecords      == [at : {"none", "reading", "read"}, stamp : 0 .. MaxClock, value : Amounts]
BookRecords      == [opened : Amounts, credits : Nat, debits : [Consumed -> Nat]]

\* No balance, and none that a transaction has read, exceeds what was ever there; every credit is
\* of an answer that is past it.
Credited == {v \in Answers : serving[v].at \in {"receipt", "ended"}}
Within ==
    /\ booked.credits <= Cardinality(Credited)
    /\ account.balance <= InitialCredits + booked.credits
    /\ \A r \in Debiting : consuming[r].read # 0 /\ consuming[r].read <= InitialCredits + booked.credits
    /\ \A v \in Crediting : serving[v].read <= InitialCredits + booked.credits

\* The books: nothing before the account is opened, no transaction while the node is down, one
\* debit for what was delivered.
Opened ==
    /\ AccUp => account.there
    /\ ~AccUp => Debiting = {} /\ Crediting = {}
    /\ ~account.there => booked.opened = InitialCredits /\ booked.credits = 0 /\ \A r \in Consumed : booked.debits[r] = 0
    /\ \A r \in Consumed : booked.debits[r] = (IF consuming[r].at = "delivered" THEN 1 ELSE 0)

\* While no two transactions overlapped there is at most one, and it has read the balance.
Alone ==
    /\ \A r, s \in Debiting : r = s
    /\ \A v, w \in Crediting : v = w
    /\ Debiting = {} \/ Crediting = {}
    /\ \A r \in Debiting : consuming[r].read = account.balance
    /\ \A v \in Crediting : serving[v].read = account.balance
    /\ account.there => account.balance + Debits = booked.opened + booked.credits

\* A balance that was read is one of the time since its refresh began.
Seen(x) == x.stamp <= clock /\ \E t \in x.stamp .. clock : x.value \in held[t]
Polled ==
    /\ AccUp => account.balance \in held[clock]
    /\ poll.at = "reading" => poll.stamp <= clock
    /\ poll.at = "read" => Seen(poll)
    /\ cache.at = "there" => Seen(cache)

AccInv == AccountsTypeOK /\ Within /\ Opened /\ (~overlapped => Alone) /\ Polled

LEMMA AccNumbers ==
  /\ InitialCredits \in Nat /\ Cardinality(Answers) \in Nat /\ IsFiniteSet(Answers) /\ IsFiniteSet(Consumed)
  /\ Tries \in Nat /\ Tries # 0 /\ MaxClock \in Nat /\ Exits \in Nat
  /\ Amounts = 0 .. (InitialCredits + Cardinality(Answers)) /\ 0 \in Amounts /\ InitialCredits \in Amounts
<1>1. /\ InitialCredits \in Nat /\ Cardinality(Answers) \in Nat /\ IsFiniteSet(Answers) /\ IsFiniteSet(Consumed)
      /\ Tries \in Nat /\ Tries # 0 /\ MaxClock \in Nat /\ Exits \in Nat
  BY AccountsAssumption, FS_CardinalityType
<1>2. QED
  BY <1>1 DEF Amounts

LEMMA AccFacts ==
  ASSUME AccountsTypeOK
  PROVE  /\ node \in [is : {"off", "up", "down"}, ends : 0 .. Exits]
         /\ account \in [there : BOOLEAN, balance : Amounts]
         /\ consuming \in [Consumed -> ConsumingRecords] /\ serving \in [Answers -> ServingRecords]
         /\ receipts \in [Consumed \X Attempts -> {"none", "sent", "ended"}] /\ settled \subseteq Consumed \X Attempts
         /\ cache \in CacheRecords /\ poll \in PollRecords
         /\ clock \in 0 .. MaxClock /\ held \in [0 .. MaxClock -> SUBSET Amounts]
         /\ booked \in BookRecords /\ overlapped \in BOOLEAN
BY DEF AccountsTypeOK, ConsumingRecords, ServingRecords, CacheRecords, PollRecords, BookRecords

LEMMA AccTypes ==
  ASSUME node \in [is : {"off", "up", "down"}, ends : 0 .. Exits],
         account \in [there : BOOLEAN, balance : Amounts],
         consuming \in [Consumed -> ConsumingRecords], serving \in [Answers -> ServingRecords],
         receipts \in [Consumed \X Attempts -> {"none", "sent", "ended"}], settled \subseteq Consumed \X Attempts,
         cache \in CacheRecords, poll \in PollRecords,
         clock \in 0 .. MaxClock, held \in [0 .. MaxClock -> SUBSET Amounts],
         booked \in BookRecords, overlapped \in BOOLEAN
  PROVE  AccountsTypeOK
BY DEF AccountsTypeOK, ConsumingRecords, ServingRecords, CacheRecords, PollRecords, BookRecords

\* Cardinalities of sets of answers and of requests.
LEMMA Counted ==
  ASSUME NEW S \in SUBSET Answers, NEW T \in SUBSET S
  PROVE  /\ IsFiniteSet(S) /\ Cardinality(S) \in Nat /\ Cardinality(T) \in Nat /\ Cardinality(T) <= Cardinality(S)
         /\ Cardinality(S) <= Cardinality(Answers)
<1>1. IsFiniteSet(S) /\ Cardinality(S) <= Cardinality(Answers)
  BY AccNumbers, FS_Subset
<1>2. IsFiniteSet(T) /\ Cardinality(T) <= Cardinality(S)
  BY <1>1, FS_Subset
<1>3. QED
  BY <1>1, <1>2, FS_CardinalityType

LEMMA NothingType == Nothing \in CacheRecords /\ Nothing \in PollRecords /\ Nothing.at = "none"
<1>1. 0 \in 0 .. MaxClock
  BY AccNumbers
<1>2. QED
  BY <1>1, AccNumbers DEF Nothing, CacheRecords, PollRecords

LEMMA AccInitInv == AccInit => AccInv
<1> SUFFICES ASSUME NEW spent \in BOOLEAN, AccStarted("down", spent) PROVE AccInv
  BY DEF AccInit
<1>1. /\ node = [is |-> "down", ends |-> 0] /\ account = [there |-> spent, balance |-> 0]
      /\ consuming = [r \in Consumed |-> Asking] /\ serving = [v \in Answers |-> NotServed]
      /\ receipts = [a \in Consumed \X Attempts |-> "none"] /\ settled = {}
      /\ cache = Nothing /\ poll = Nothing
      /\ clock = 0 /\ held = [t \in 0 .. MaxClock |-> {}]
      /\ booked = [opened |-> IF spent THEN 0 ELSE InitialCredits, credits |-> 0, debits |-> [r \in Consumed |-> 0]]
      /\ overlapped = FALSE
  BY DEF AccStarted
<1>2. /\ Asking \in ConsumingRecords /\ NotServed \in ServingRecords /\ Asking.at = "idle" /\ NotServed.at = "idle"
  <2>1. Tries \in 0 .. Tries
    BY AccNumbers
  <2>2. QED
    BY <2>1, AccNumbers DEF Asking, NotServed, ConsumingRecords, ServingRecords
<1>3. consuming \in [Consumed -> ConsumingRecords] /\ serving \in [Answers -> ServingRecords]
  BY <1>1, <1>2
<1>4. 0 \in 0 .. MaxClock /\ 0 \in 0 .. Exits
  BY AccNumbers
<1>5. booked \in BookRecords /\ booked.credits = 0 /\ \A r \in Consumed : booked.debits[r] = 0
  BY <1>1, AccNumbers DEF BookRecords
<1>6. AccountsTypeOK
  BY <1>1, <1>3, <1>4, <1>5, AccNumbers, NothingType, AccTypes
<1>7. Debiting = {} /\ Crediting = {}
  BY <1>1, <1>2 DEF Debiting, Crediting
<1>8. Within
  <2>1. Cardinality(Credited) \in Nat
    BY Counted DEF Credited
  <2>2. QED
    BY <1>1, <1>5, <1>7, <2>1, AccNumbers DEF Within
<1>9. Opened
  BY <1>1, <1>2, <1>5, <1>7 DEF Opened, AccUp
<1>10. Alone
  <2>1. {r \in Consumed : booked.debits[r] > 0} = {}
    BY <1>5
  <2>2. Debits = 0
    BY <2>1, FS_EmptySet DEF Debits
  <2>3. QED
    BY <1>1, <1>7, <2>2, AccNumbers DEF Alone
<1>11. Polled
  BY <1>1, NothingType DEF Polled, AccUp
<1>12. QED
  BY <1>6, <1>8, <1>9, <1>10, <1>11 DEF AccInv
\* A poll is not disturbed by what only adds to the balances of the time.
LEMMA PollsStay ==
  ASSUME AccInv, UNCHANGED <<node, poll, clock>>, cache' = cache \/ cache' = Nothing,
         \A t \in 0 .. MaxClock : held[t] \subseteq held'[t],
         AccUp => account'.balance \in held'[clock]
  PROVE  Polled'
<1>1. /\ poll \in PollRecords /\ cache \in CacheRecords /\ clock \in 0 .. MaxClock
  BY AccFacts DEF AccInv
<1>2. ASSUME NEW x \in PollRecords \cup CacheRecords, Seen(x), x' = x PROVE Seen(x)'
  <2>1. x.stamp \in 0 .. MaxClock /\ x.stamp <= clock
    BY <1>2 DEF Seen, PollRecords, CacheRecords
  <2>2. PICK t \in x.stamp .. clock : x.value \in held[t]
    BY <1>2 DEF Seen
  <2>3. t \in 0 .. MaxClock
    BY <1>1, <2>1, AccNumbers
  <2>4. x.value \in held'[t]
    BY <2>2, <2>3
  <2>5. QED
    BY <1>2, <2>1, <2>2, <2>4 DEF Seen
<1>3. poll.at = "read" => Seen(poll)'
  BY <1>1, <1>2 DEF AccInv, Polled
<1>4. cache'.at = "there" => Seen(cache)'
  BY <1>1, <1>2, NothingType DEF AccInv, Polled
<1>5. QED
  BY <1>3, <1>4 DEF AccInv, Polled, AccUp

LEMMA OverlapsKept ==
  ASSUME overlapped \in BOOLEAN, Overlaps
  PROVE  /\ overlapped' \in BOOLEAN /\ (overlapped => overlapped')
         /\ ~overlapped' => Debiting = {} /\ Crediting = {}
<1> DEFINE met == Debiting # {} \/ Crediting # {}
<1>1. overlapped' = (overlapped \/ met)
  BY DEF Overlaps
<1>2. ~met => Debiting = {} /\ Crediting = {}
  OBVIOUS
<1> HIDE DEF met
<1>3. QED
  BY <1>1, <1>2, Zenon

\* A request that asks on, or begins its debit with the balance.
LEMMA AsksInv ==
  ASSUME AccInv, NEW r \in Consumed,
         Consume(r) \/ AskFails(r) \/ PeerAnswers(r) \/ DebitRow(r) \/ DebitFails(r)
  PROVE  AccInv'
<1>1. /\ UNCHANGED <<node, account, serving, settled, cache, poll, clock, held, booked>>
      /\ AccUp /\ consuming[r].at \in {"idle", "asking", "debit", "debited"}
  BY DEF Consume, AskFails, PeerAnswers, DebitRow, DebitFails, RequestUnchanged
<1>2. AccountsTypeOK /\ account \in [there : BOOLEAN, balance : Amounts] /\ consuming \in [Consumed -> ConsumingRecords]
      /\ consuming[r] \in ConsumingRecords /\ receipts \in [Consumed \X Attempts -> {"none", "sent", "ended"}]
      /\ overlapped \in BOOLEAN
  BY AccFacts DEF AccInv
<1>3. receipts' \in [Consumed \X Attempts -> {"none", "sent", "ended"}]
  BY <1>2 DEF Consume, AskFails, PeerAnswers, DebitRow, DebitFails
<1>4. \E y \in ConsumingRecords :
          /\ consuming' = [consuming EXCEPT ![r] = y] /\ y.at # "delivered"
          /\ y.at = "debited" => y.read = account.balance /\ account.balance # 0 /\ Overlaps
          /\ y.at # "debited" => UNCHANGED overlapped
  <2>1. \A x \in ConsumingRecords : LET y == [x EXCEPT !.at = "asking"] IN y \in ConsumingRecords /\ y.at = "asking"
    BY DEF ConsumingRecords
  <2>2. \A x \in ConsumingRecords : LET y == [x EXCEPT !.at = "debit"] IN y \in ConsumingRecords /\ y.at = "debit"
    BY DEF ConsumingRecords
  <2>a. 0 \in 0 .. Tries /\ \A n \in 0 .. Tries : n > 1 => n - 1 \in 0 .. Tries
    BY AccNumbers
  <2>3. \A x \in ConsumingRecords : x.left > 1 =>
            LET y == [x EXCEPT !.at = "asking", !.left = x.left - 1] IN y \in ConsumingRecords /\ y.at = "asking"
    BY <2>a DEF ConsumingRecords
  <2>4. \A x \in ConsumingRecords :
            LET y == [x EXCEPT !.at = "none", !.left = 0] IN y \in ConsumingRecords /\ y.at = "none"
    BY <2>a DEF ConsumingRecords
  <2>5. \A x \in ConsumingRecords, b \in Amounts :
            LET y == [x EXCEPT !.at = "debited", !.read = b] IN y \in ConsumingRecords /\ y.at = "debited" /\ y.read = b
    BY DEF ConsumingRecords
  <2>6. ASSUME consuming' = NextPeer(r), UNCHANGED overlapped PROVE <1>4
    <3>1. CASE consuming[r].left > 1
      <4>1. consuming' = [consuming EXCEPT ![r] = [consuming[r] EXCEPT !.at = "asking", !.left = @ - 1]]
        BY <2>6, <3>1 DEF NextPeer
      <4>2. QED
        BY <1>2, <2>3, <2>6, <3>1, <4>1
    <3>2. CASE ~(consuming[r].left > 1)
      <4>1. consuming' = [consuming EXCEPT ![r] = [consuming[r] EXCEPT !.at = "none", !.left = 0]]
        BY <2>6, <3>2 DEF NextPeer
      <4>2. QED
        BY <1>2, <2>4, <2>6, <4>1
    <3>3. QED
      BY <3>1, <3>2
  <2>7. CASE Consume(r)
    <3>1. consuming' = [consuming EXCEPT ![r] = [consuming[r] EXCEPT !.at = "asking"]] /\ UNCHANGED overlapped
      BY <2>7 DEF Consume
    <3>2. QED
      BY <1>2, <2>1, <3>1
  <2>8. CASE PeerAnswers(r)
    <3>1. consuming' = [consuming EXCEPT ![r] = [consuming[r] EXCEPT !.at = "debit"]] /\ UNCHANGED overlapped
      BY <2>8 DEF PeerAnswers
    <3>2. QED
      BY <1>2, <2>2, <3>1
  <2>9. CASE DebitRow(r)
    <3>1. CASE account.balance < 1
      BY <2>6, <2>9, <3>1 DEF DebitRow
    <3>2. CASE ~(account.balance < 1)
      <4>1. /\ consuming' = [consuming EXCEPT ![r].at = "debited", ![r].read = account.balance]
            /\ Overlaps
        BY <2>9, <3>2 DEF DebitRow
      <4>2. account.balance # 0 /\ account.balance \in Amounts
        BY <1>2, <3>2, AccNumbers
      <4> DEFINE y == [consuming[r] EXCEPT !.at = "debited", !.read = account.balance]
      <4>3. consuming' = [consuming EXCEPT ![r] = y]
        BY <4>1
      <4>4. y \in ConsumingRecords /\ y.at = "debited" /\ y.read = account.balance
        BY <1>2, <2>5, <4>2
      <4> HIDE DEF y
      <4>5. QED
        BY <4>1, <4>2, <4>3, <4>4
    <3>3. QED
      BY <3>1, <3>2
  <2>10. CASE AskFails(r) \/ DebitFails(r)
    BY <2>6, <2>10 DEF AskFails, DebitFails
  <2>11. QED
    BY <2>7, <2>8, <2>9, <2>10
<1>5. PICK y \in ConsumingRecords :
          /\ consuming' = [consuming EXCEPT ![r] = y] /\ y.at # "delivered"
          /\ y.at = "debited" => y.read = account.balance /\ account.balance # 0 /\ Overlaps
          /\ y.at # "debited" => UNCHANGED overlapped
  BY <1>4
<1>6. consuming' \in [Consumed -> ConsumingRecords] /\ consuming'[r] = y /\ \A s \in Consumed : s # r => consuming'[s] = consuming[s]
  BY <1>2, <1>5
<1>7. overlapped' \in BOOLEAN /\ (overlapped => overlapped')
  BY <1>2, <1>5, OverlapsKept
<1>8. AccountsTypeOK'
  BY <1>1, <1>2, <1>3, <1>6, <1>7 DEF AccountsTypeOK, ConsumingRecords
<1>9. Crediting' = Crediting /\ Credited' = Credited /\ \A s \in Debiting' : (s \in Debiting /\ s # r) \/ (s = r /\ y.at = "debited")
  BY <1>1, <1>6 DEF Crediting, Credited, Debiting
<1>10. Within'
  <2>1. \A s \in Debiting' : consuming'[s].read # 0 /\ consuming'[s].read <= InitialCredits + booked.credits
    BY <1>5, <1>6, <1>9 DEF AccInv, Within, Debiting
  <2>2. QED
    BY <1>1, <1>9, <2>1 DEF AccInv, Within
<1>11. Opened'
  <2>1. consuming'[r].at # "delivered" /\ consuming[r].at # "delivered"
    BY <1>1, <1>5, <1>6
  <2>2. QED
    BY <1>1, <1>6, <2>1 DEF AccInv, Opened, AccUp
<1>12. ASSUME ~overlapped' PROVE Alone'
  <2>1. Alone
    BY <1>7, <1>12 DEF AccInv
  <2>2. y.at = "debited" => Debiting = {} /\ Crediting = {}
    BY <1>2, <1>5, <1>12, OverlapsKept
  <2>3. Debits' = Debits
    BY <1>1 DEF Debits
  <2>4. \A s, t \in Debiting' : s = t
    BY <1>9, <2>1, <2>2 DEF Alone
  <2>5. \A s \in Debiting' : consuming'[s].read = account'.balance
    BY <1>1, <1>5, <1>6, <1>9, <2>1 DEF Alone
  <2>6. Debiting' = {} \/ Crediting' = {}
    BY <1>9, <2>1, <2>2 DEF Alone
  <2>7. QED
    BY <1>1, <1>9, <2>1, <2>3, <2>4, <2>5, <2>6 DEF Alone
<1>13. Polled'
  BY <1>1, PollsStay DEF AccInv, Polled
<1>14. QED
  BY <1>8, <1>10, <1>11, <1>12, <1>13 DEF AccInv
\* What a commit writes is a balance of the time.
LEMMA TotalHeld ==
  ASSUME AccInv, NEW b \in Amounts, Total(b), UNCHANGED clock
  PROVE  /\ account' \in [there : BOOLEAN, balance : Amounts] /\ account'.there /\ account'.balance = b
         /\ held' \in [0 .. MaxClock -> SUBSET Amounts] /\ b \in held'[clock]
         /\ \A t \in 0 .. MaxClock : held[t] \subseteq held'[t]
<1>1. clock \in 0 .. MaxClock /\ held \in [0 .. MaxClock -> SUBSET Amounts]
  BY AccFacts DEF AccInv
<1> DEFINE now == held[clock] \cup {b}
<1>2. held' = [held EXCEPT ![clock] = now] /\ account' = [there |-> TRUE, balance |-> b]
  BY DEF Total
<1>3. now \in SUBSET Amounts /\ b \in now /\ held[clock] \subseteq now
  BY <1>1
<1> HIDE DEF now
<1>4. QED
  BY <1>1, <1>2, <1>3

LEMMA DebitCommitsInv ==
  ASSUME AccInv, NEW r \in Consumed, DebitCommits(r)
  PROVE  AccInv'
<1> DEFINE b == consuming[r].read - 1
           y == [consuming[r] EXCEPT !.at = "delivered"]
           debits == [booked.debits EXCEPT ![r] = @ + 1]
<1>1. /\ UNCHANGED <<node, serving, receipts, settled, poll, clock, overlapped>> /\ cache' = Nothing
      /\ AccUp /\ consuming[r].at = "debited" /\ Total(b)
      /\ consuming' = [consuming EXCEPT ![r] = y]
  BY DEF DebitCommits, Invalidated, RequestUnchanged
<1>2. /\ AccountsTypeOK /\ consuming \in [Consumed -> ConsumingRecords] /\ consuming[r] \in ConsumingRecords
      /\ booked \in BookRecords /\ booked.debits \in [Consumed -> Nat] /\ booked.credits \in Nat
  BY AccFacts DEF AccInv, BookRecords
<1>3. booked' = [booked EXCEPT !.debits = debits]
  BY <1>2 DEF DebitCommits, BookRecords
<1>4. r \in Debiting /\ consuming[r].read \in Amounts /\ consuming[r].read # 0
      /\ consuming[r].read <= InitialCredits + booked.credits
  BY <1>1, <1>2 DEF Debiting, ConsumingRecords, AccInv, Within
<1>5. b \in Amounts /\ b + 1 = consuming[r].read /\ b <= InitialCredits + booked.credits
  BY <1>2, <1>4, AccNumbers, SMTT(30)
<1>6. y \in ConsumingRecords /\ y.at = "delivered"
  BY <1>2 DEF ConsumingRecords
<1>7. booked.debits[r] = 0
  BY <1>1 DEF AccInv, Opened
<1>8. debits \in [Consumed -> Nat] /\ debits[r] = 1 /\ \A s \in Consumed : s # r => debits[s] = booked.debits[s]
  BY <1>2, <1>7
<1> HIDE DEF b, y, debits
<1>9. /\ booked' \in BookRecords /\ booked'.opened = booked.opened /\ booked'.credits = booked.credits /\ booked'.debits = debits
  BY <1>2, <1>3, <1>8 DEF BookRecords
<1>10. consuming' \in [Consumed -> ConsumingRecords] /\ consuming'[r] = y /\ \A s \in Consumed : s # r => consuming'[s] = consuming[s]
  BY <1>1, <1>2, <1>6
<1>11. /\ account' \in [there : BOOLEAN, balance : Amounts] /\ account'.there /\ account'.balance = b
       /\ held' \in [0 .. MaxClock -> SUBSET Amounts] /\ b \in held'[clock]
       /\ \A t \in 0 .. MaxClock : held[t] \subseteq held'[t]
  BY <1>1, <1>5, TotalHeld
<1>12. AccountsTypeOK'
  <2>1. UNCHANGED <<node, serving, receipts, settled, poll, clock, overlapped>> /\ cache' \in CacheRecords
    BY <1>1, NothingType
  <2>2. QED
    BY <1>2, <1>9, <1>10, <1>11, <2>1 DEF AccountsTypeOK, ConsumingRecords, CacheRecords, BookRecords
<1>13. Crediting' = Crediting /\ Credited' = Credited /\ Debiting' = Debiting \ {r}
  BY <1>1, <1>6, <1>10 DEF Crediting, Credited, Debiting
<1>14. Within'
  <2>1. \A s \in Debiting' : consuming'[s] = consuming[s]
    BY <1>10, <1>13 DEF Debiting
  <2>2. QED
    BY <1>1, <1>5, <1>9, <1>11, <1>13, <2>1 DEF AccInv, Within
<1>15. Opened'
  BY <1>1, <1>6, <1>8, <1>9, <1>10, <1>11 DEF AccInv, Opened, AccUp
<1>16. ASSUME ~overlapped' PROVE Alone'
  <2>1. Alone
    BY <1>1, <1>16 DEF AccInv
  <2>2. Debiting' = {} /\ Crediting' = {}
    BY <1>4, <1>13, <2>1 DEF Alone
  <2>3. Debits' = Debits + 1 /\ Debits \in Nat
    <3> DEFINE S == {s \in Consumed : booked.debits[s] > 0}
               T == {s \in Consumed : debits[s] > 0}
    <3>1. T = S \cup {r} /\ r \notin S /\ S \subseteq Consumed
      BY <1>2, <1>7, <1>8
    <3>2. IsFiniteSet(S)
      BY <3>1, AccNumbers, FS_Subset
    <3>3. Debits = Cardinality(S) /\ Debits' = Cardinality(T)
      <4>1. {s \in Consumed : booked'.debits[s] > 0} = T
        BY <1>9
      <4>2. QED
        BY <4>1 DEF Debits
    <3> HIDE DEF S, T
    <3>4. QED
      BY <3>1, <3>2, <3>3, FS_AddElement, FS_CardinalityType
  <2>4. account.there /\ account.balance = b + 1
    BY <1>1, <1>4, <1>5, <2>1 DEF AccInv, Opened, Alone
  <2>5. account.balance + Debits = booked.opened + booked.credits
    BY <2>1, <2>4 DEF Alone
  <2>6. b \in Nat /\ booked.opened \in Nat
    BY <1>2, <1>5, AccNumbers DEF BookRecords
  <2>7. account'.balance + Debits' = booked'.opened + booked'.credits
    BY <1>2, <1>9, <1>11, <2>3, <2>4, <2>5, <2>6
  <2>8. QED
    BY <2>2, <2>7 DEF Alone
<1>17. Polled'
  BY <1>1, <1>11, PollsStay
<1>18. QED
  BY <1>12, <1>14, <1>15, <1>16, <1>17 DEF AccInv

\* An answer that is given, or begins its credit with the balance.
LEMMA ServesInv ==
  ASSUME AccInv, NEW v \in Answers, Serve(v) \/ CreditRow(v) \/ CreditFails(v) \/ SendReceipt(v)
  PROVE  AccInv'
<1>1. /\ UNCHANGED <<node, account, consuming, receipts, settled, cache, poll, clock, held, booked>> /\ AccUp
  BY DEF Serve, CreditRow, CreditFails, SendReceipt, ServeUnchanged
<1>2. AccountsTypeOK /\ account \in [there : BOOLEAN, balance : Amounts] /\ serving \in [Answers -> ServingRecords]
      /\ serving[v] \in ServingRecords /\ overlapped \in BOOLEAN /\ booked.credits \in Nat /\ account.balance \in Amounts
  BY AccFacts DEF AccInv, BookRecords
<1>3. \E y \in ServingRecords :
          /\ serving' = [serving EXCEPT ![v] = y] /\ (serving[v].at \in {"receipt", "ended"} => y.at = "ended")
          /\ y.at = "credited" => y.read = account.balance /\ Overlaps
          /\ y.at # "credited" => UNCHANGED overlapped
  <2>2. CASE CreditRow(v)
    <3> DEFINE y == [serving[v] EXCEPT !.at = "credited", !.read = account.balance]
    <3>1. serving' = [serving EXCEPT ![v] = y] /\ Overlaps /\ serving[v].at = "credit"
      BY <2>2 DEF CreditRow
    <3>2. y \in ServingRecords /\ y.at = "credited" /\ y.read = account.balance
      BY <1>2 DEF ServingRecords
    <3> HIDE DEF y
    <3>3. QED
      BY <3>1, <3>2
  <2>3. ASSUME NEW at \in {"credit", "receipt", "ended"}, serving' = [serving EXCEPT ![v].at = at], UNCHANGED overlapped,
               serving[v].at \in {"receipt", "ended"} => at = "ended"
        PROVE  <1>3
    <3> DEFINE y == [serving[v] EXCEPT !.at = at]
    <3>1. serving' = [serving EXCEPT ![v] = y]
      BY <2>3
    <3>2. y \in ServingRecords /\ y.at = at
      BY <1>2 DEF ServingRecords
    <3> HIDE DEF y
    <3>3. QED
      BY <2>3, <3>1, <3>2
  <2>4. CASE Serve(v) \/ CreditFails(v) \/ SendReceipt(v)
    BY <2>3, <2>4 DEF Serve, CreditFails, SendReceipt
  <2>5. QED
    BY <2>2, <2>4
<1>4. PICK y \in ServingRecords :
          /\ serving' = [serving EXCEPT ![v] = y] /\ (serving[v].at \in {"receipt", "ended"} => y.at = "ended")
          /\ y.at = "credited" => y.read = account.balance /\ Overlaps
          /\ y.at # "credited" => UNCHANGED overlapped
  BY <1>3
<1>5. serving' \in [Answers -> ServingRecords] /\ serving'[v] = y /\ \A w \in Answers : w # v => serving'[w] = serving[w]
  BY <1>2, <1>4
<1>6. overlapped' \in BOOLEAN /\ (overlapped => overlapped')
  BY <1>2, <1>4, OverlapsKept
<1>7. AccountsTypeOK'
  BY <1>1, <1>2, <1>5, <1>6 DEF AccountsTypeOK, ServingRecords
<1>8. /\ Debiting' = Debiting /\ Credited \subseteq Credited'
      /\ \A w \in Crediting' : (w \in Crediting /\ w # v) \/ (w = v /\ y.at = "credited")
  BY <1>1, <1>4, <1>5 DEF Crediting, Credited, Debiting
<1>9. Within'
  <2>1. Cardinality(Credited) \in Nat /\ Cardinality(Credited') \in Nat /\ Cardinality(Credited) <= Cardinality(Credited')
    <3>1. Credited' \in SUBSET Answers /\ Credited \in SUBSET Credited'
      BY <1>8 DEF Credited
    <3>2. QED
      BY <3>1, Counted
  <2>2. booked'.credits <= Cardinality(Credited')
    BY <1>1, <1>2, <2>1 DEF AccInv, Within
  <2>3. \A w \in Crediting' : serving'[w].read <= InitialCredits + booked.credits
    BY <1>4, <1>5, <1>8 DEF AccInv, Within, Crediting
  <2>4. QED
    BY <1>1, <1>8, <2>2, <2>3 DEF AccInv, Within
<1>10. Opened'
  BY <1>1 DEF AccInv, Opened, AccUp
<1>11. ASSUME ~overlapped' PROVE Alone'
  <2>1. Alone
    BY <1>6, <1>11 DEF AccInv
  <2>2. y.at = "credited" => Debiting = {} /\ Crediting = {}
    BY <1>2, <1>4, <1>11, OverlapsKept
  <2>3. Debits' = Debits
    BY <1>1 DEF Debits
  <2>4. \A w, x \in Crediting' : w = x
    BY <1>8, <2>1, <2>2 DEF Alone
  <2>5. \A w \in Crediting' : serving'[w].read = account'.balance
    BY <1>1, <1>4, <1>5, <1>8, <2>1 DEF Alone, Crediting
  <2>6. Debiting' = {} \/ Crediting' = {}
    BY <1>8, <2>1, <2>2 DEF Alone
  <2>7. QED
    BY <1>1, <1>8, <2>1, <2>3, <2>4, <2>5, <2>6 DEF Alone
<1>12. Polled'
  BY <1>1, PollsStay DEF AccInv, Polled
<1>13. QED
  BY <1>7, <1>9, <1>10, <1>11, <1>12 DEF AccInv
LEMMA CreditCommitsInv ==
  ASSUME AccInv, NEW v \in Answers, CreditCommits(v)
  PROVE  AccInv'
<1> DEFINE b == serving[v].read + 1
           y == [serving[v] EXCEPT !.at = "receipt"]
<1>1. /\ UNCHANGED <<node, consuming, receipts, settled, poll, clock, overlapped>> /\ cache' = Nothing
      /\ AccUp /\ serving[v].at = "credited" /\ Total(b)
      /\ booked' = [booked EXCEPT !.credits = @ + 1]
      /\ serving' = [serving EXCEPT ![v] = y]
  BY DEF CreditCommits, Invalidated, ServeUnchanged
<1>2. /\ AccountsTypeOK /\ serving \in [Answers -> ServingRecords] /\ serving[v] \in ServingRecords
      /\ booked \in BookRecords /\ booked.credits \in Nat
  BY AccFacts DEF AccInv, BookRecords
<1>3. v \in Crediting /\ serving[v].read \in Amounts /\ serving[v].read <= InitialCredits + booked.credits
  BY <1>1, <1>2 DEF Crediting, ServingRecords, AccInv, Within
<1>4. y \in ServingRecords /\ y.at = "receipt"
  BY <1>2 DEF ServingRecords
<1>5. /\ booked' \in BookRecords /\ booked'.opened = booked.opened /\ booked'.credits = booked.credits + 1 /\ booked'.debits = booked.debits
  BY <1>1, <1>2 DEF BookRecords
<1> HIDE DEF y
<1>6. serving' \in [Answers -> ServingRecords] /\ serving'[v] = y /\ \A w \in Answers : w # v => serving'[w] = serving[w]
  BY <1>1, <1>2, <1>4
<1>7. Debiting' = Debiting /\ Crediting' = Crediting \ {v} /\ Credited' = Credited \cup {v} /\ v \notin Credited
  BY <1>1, <1>4, <1>6 DEF Crediting, Credited, Debiting
<1>8. booked.credits + 1 <= Cardinality(Credited') /\ booked.credits + 1 <= Cardinality(Answers)
  <2>1. Credited \in SUBSET Answers /\ Credited' \in SUBSET Answers
    BY DEF Credited
  <2>2. /\ IsFiniteSet(Credited) /\ Cardinality(Credited) \in Nat /\ Cardinality(Credited') \in Nat
        /\ Cardinality(Credited') <= Cardinality(Answers)
    BY <2>1, Counted
  <2>3. Cardinality(Credited') = Cardinality(Credited) + 1
    BY <1>7, <2>2, FS_AddElement
  <2>4. booked.credits <= Cardinality(Credited)
    BY DEF AccInv, Within
  <2>5. QED
    BY <1>2, <2>2, <2>3, <2>4, AccNumbers
<1>9. b \in Amounts /\ b <= InitialCredits + booked'.credits /\ b = serving[v].read + 1 /\ b \in Nat
      /\ \A x \in Amounts : x <= InitialCredits + booked.credits => x <= InitialCredits + booked'.credits
  BY <1>2, <1>3, <1>5, <1>8, AccNumbers, SMTT(30)
<1> HIDE DEF b
<1>10. /\ account' \in [there : BOOLEAN, balance : Amounts] /\ account'.there /\ account'.balance = b
       /\ held' \in [0 .. MaxClock -> SUBSET Amounts] /\ b \in held'[clock]
       /\ \A t \in 0 .. MaxClock : held[t] \subseteq held'[t]
  BY <1>1, <1>9, TotalHeld
<1>11. AccountsTypeOK'
  <2>1. UNCHANGED <<node, consuming, receipts, settled, poll, clock, overlapped>> /\ cache' \in CacheRecords
    BY <1>1, NothingType
  <2>2. QED
    BY <1>2, <1>5, <1>6, <1>10, <2>1 DEF AccountsTypeOK, ServingRecords, CacheRecords, BookRecords
<1>12. Within'
  <2>1. \A w \in Crediting' : serving'[w] = serving[w] /\ serving[w].read \in Amounts /\ w \in Crediting
    BY <1>2, <1>6, <1>7 DEF Crediting, ServingRecords
  <2>2. \A r \in Debiting' : consuming'[r] = consuming[r] /\ consuming[r].read \in Amounts /\ r \in Debiting
    <3>1. consuming \in [Consumed -> ConsumingRecords]
      BY <1>2, AccFacts
    <3>2. QED
      BY <1>1, <1>7, <3>1 DEF Debiting, ConsumingRecords
  <2>3. QED
    BY <1>5, <1>8, <1>9, <1>10, <2>1, <2>2 DEF AccInv, Within
<1>13. Opened'
  BY <1>1, <1>5, <1>10 DEF AccInv, Opened, AccUp
<1>14. ASSUME ~overlapped' PROVE Alone'
  <2>1. Alone
    BY <1>1, <1>14 DEF AccInv
  <2>2. Debiting' = {} /\ Crediting' = {}
    BY <1>3, <1>7, <2>1 DEF Alone
  <2>3. Debits' = Debits /\ Debits \in Nat
    <3>1. Debits' = Debits
      BY <1>5 DEF Debits
    <3>2. IsFiniteSet({r \in Consumed : booked.debits[r] > 0})
      BY AccNumbers, FS_Subset
    <3>3. QED
      BY <3>1, <3>2, FS_CardinalityType DEF Debits
  <2>4. account.there /\ account.balance = serving[v].read
    BY <1>1, <1>3, <2>1 DEF AccInv, Opened, Alone
  <2>5. account.balance + Debits = booked.opened + booked.credits
    BY <2>1, <2>4 DEF Alone
  <2>6. serving[v].read \in Nat /\ booked.opened \in Nat
    BY <1>2, <1>3, AccNumbers DEF BookRecords
  <2>7. account'.balance + Debits' = booked'.opened + booked'.credits
    BY <1>2, <1>5, <1>9, <1>10, <2>3, <2>4, <2>5, <2>6, SMTT(30)
  <2>8. QED
    BY <2>2, <2>7 DEF Alone
<1>15. Polled'
  BY <1>1, <1>10, PollsStay
<1>16. QED
  BY <1>11, <1>12, <1>13, <1>14, <1>15 DEF AccInv

\* Steps that leave the row and its transactions alone.
LEMMA RowStays ==
  ASSUME AccInv, UNCHANGED <<account, consuming, serving, booked, overlapped>>,
         node'.is = node.is
  PROVE  Within' /\ Opened' /\ (~overlapped' => Alone')
<1>1. Debiting' = Debiting /\ Crediting' = Crediting /\ Credited' = Credited /\ Debits' = Debits
  BY DEF Debiting, Crediting, Credited, Debits
<1>2. Within'
  BY <1>1 DEF AccInv, Within
<1>3. Opened'
  BY <1>1 DEF AccInv, Opened, AccUp
<1>4. ~overlapped' => Alone'
  BY <1>1 DEF AccInv, Alone
<1>5. QED
  BY <1>2, <1>3, <1>4

LEMMA ReceiveInv ==
  ASSUME AccInv, NEW a \in Consumed \X Attempts, Receive(a)
  PROVE  AccInv'
<1>1. UNCHANGED <<node, account, consuming, serving, cache, poll, clock, held, booked, overlapped>>
  BY DEF Receive
<1>2. receipts' \in [Consumed \X Attempts -> {"none", "sent", "ended"}] /\ settled' \subseteq Consumed \X Attempts
  BY AccFacts DEF AccInv, Receive, Submitted
<1>3. AccountsTypeOK'
  BY <1>1, <1>2 DEF AccInv, AccountsTypeOK
<1>4. Polled'
  BY <1>1, PollsStay DEF AccInv, Polled
<1>5. QED
  BY <1>1, <1>3, <1>4, RowStays DEF AccInv

\* A refresh stores what it read with the time it began at.
LEMMA RefreshInv ==
  ASSUME AccInv, Refresh \/ RefreshReads \/ RefreshStores \/ RefreshDropped
  PROVE  AccInv'
<1>1. UNCHANGED <<node, account, consuming, serving, receipts, settled, clock, held, booked, overlapped>> /\ AccUp
  BY DEF Refresh, RefreshReads, RefreshStores, RefreshDropped, PollUnchanged
<1>2. /\ AccountsTypeOK /\ poll \in PollRecords /\ cache \in CacheRecords /\ clock \in 0 .. MaxClock /\ account.balance \in Amounts
      /\ Polled
  BY AccFacts DEF AccInv
<1>3. poll' \in PollRecords /\ cache' \in CacheRecords /\ Polled'
  <2>1. CASE Refresh
    <3>1. poll' = [at |-> "reading", stamp |-> clock, value |-> 0] /\ cache' = cache
      BY <2>1 DEF Refresh
    <3>2. poll' \in PollRecords /\ poll'.at = "reading" /\ poll'.stamp = clock /\ clock <= clock
      BY <1>2, <3>1, AccNumbers DEF PollRecords
    <3>3. QED
      BY <1>1, <1>2, <3>1, <3>2 DEF Polled, Seen, AccUp
  <2>2. CASE RefreshReads
    <3>1. poll' = [poll EXCEPT !.at = "read", !.value = account.balance] /\ cache' = cache /\ poll.at = "reading"
      BY <2>2 DEF RefreshReads
    <3>2. poll' \in PollRecords /\ poll'.at = "read" /\ poll'.stamp = poll.stamp /\ poll'.value = account.balance
      BY <1>2, <3>1 DEF PollRecords
    <3>3. poll.stamp <= clock /\ account.balance \in held[clock] /\ poll.stamp \in 0 .. MaxClock
      BY <1>1, <1>2, <3>1 DEF Polled, PollRecords
    <3>4. clock \in poll.stamp .. clock
      BY <1>2, <3>3, AccNumbers
    <3>5. Seen(poll)'
      BY <1>1, <3>2, <3>3, <3>4 DEF Seen
    <3>6. QED
      BY <1>1, <1>2, <3>1, <3>2, <3>5 DEF Polled, Seen, AccUp
  <2>3. CASE RefreshStores
    <3>1. cache' = [poll EXCEPT !.at = "there"] /\ poll' = Nothing /\ poll.at = "read"
      BY <2>3 DEF RefreshStores, Stamped
    <3>2. cache' \in CacheRecords /\ cache'.stamp = poll.stamp /\ cache'.value = poll.value
      BY <1>2, <3>1 DEF PollRecords, CacheRecords
    <3>3. Seen(cache)'
      BY <1>1, <1>2, <3>1, <3>2 DEF Polled, Seen
    <3>4. QED
      BY <1>1, <1>2, <3>1, <3>2, <3>3, NothingType DEF Polled, AccUp
  <2>4. CASE RefreshDropped
    <3>1. cache' = cache /\ poll' = Nothing
      BY <2>4 DEF RefreshDropped
    <3>2. QED
      BY <1>1, <1>2, <3>1, NothingType DEF Polled, Seen, AccUp
  <2>5. QED
    BY <2>1, <2>2, <2>3, <2>4
<1>4. AccountsTypeOK'
  BY <1>1, <1>2, <1>3 DEF AccountsTypeOK, PollRecords, CacheRecords
<1>5. QED
  BY <1>1, <1>3, <1>4, RowStays DEF AccInv
\* Time passes: what was held at an earlier time stays known.
LEMMA TickInv ==
  ASSUME AccInv, Tick
  PROVE  AccInv'
<1>1. /\ AccUp /\ clock < MaxClock /\ clock' = clock + 1 /\ held' = [held EXCEPT ![clock + 1] = {account.balance}]
      /\ UNCHANGED <<node, account, consuming, serving, receipts, settled, cache, poll, booked, overlapped>>
  BY DEF Tick
<1>2. /\ AccountsTypeOK /\ poll \in PollRecords /\ cache \in CacheRecords /\ clock \in 0 .. MaxClock /\ account.balance \in Amounts
      /\ held \in [0 .. MaxClock -> SUBSET Amounts] /\ Polled
  BY AccFacts DEF AccInv
<1>3. clock + 1 \in 0 .. MaxClock /\ \A t \in 0 .. MaxClock : t <= clock => t # clock + 1 /\ t <= clock + 1
  BY <1>1, <1>2, AccNumbers
<1>4. /\ held' \in [0 .. MaxClock -> SUBSET Amounts] /\ held'[clock + 1] = {account.balance}
      /\ \A t \in 0 .. MaxClock : t # clock + 1 => held'[t] = held[t]
  BY <1>1, <1>2, <1>3
<1>5. ASSUME NEW x \in PollRecords \cup CacheRecords, Seen(x), x' = x PROVE Seen(x)'
  <2>1. x.stamp \in 0 .. MaxClock /\ x.stamp <= clock
    BY <1>5 DEF Seen, PollRecords, CacheRecords
  <2>2. PICK t \in x.stamp .. clock : x.value \in held[t]
    BY <1>5 DEF Seen
  <2>3. t \in 0 .. MaxClock /\ t # clock + 1 /\ t \in x.stamp .. clock' /\ x.stamp <= clock'
    BY <1>1, <1>2, <2>1, AccNumbers
  <2>4. x.value \in held'[t]
    BY <1>4, <2>2, <2>3
  <2>5. QED
    BY <1>5, <2>3, <2>4 DEF Seen
<1>6. poll.at = "reading" => poll.stamp <= clock'
  BY <1>1, <1>2, <1>3 DEF Polled, PollRecords
<1>7. Seen(poll) => Seen(poll)'
  BY <1>1, <1>2, <1>5
<1>8. Seen(cache) => Seen(cache)'
  BY <1>1, <1>2, <1>5
<1>9. Polled'
  BY <1>1, <1>2, <1>4, <1>6, <1>7, <1>8 DEF Polled, AccUp
<1>10. AccountsTypeOK'
  BY <1>1, <1>2, <1>3, <1>4 DEF AccountsTypeOK
<1>11. QED
  BY <1>1, <1>9, <1>10, RowStays DEF AccInv

\* The account is opened at the first start, and found at the others.
LEMMA NodeStartsInv ==
  ASSUME AccInv, NodeStarts
  PROVE  AccInv'
<1>1. /\ node.is = "down" /\ node' = [node EXCEPT !.is = "up"] /\ Total(Ensured)
      /\ UNCHANGED <<consuming, serving, receipts, settled, cache, poll, clock, booked, overlapped>>
  BY DEF NodeStarts
<1>2. /\ AccountsTypeOK /\ poll \in PollRecords /\ cache \in CacheRecords /\ clock \in 0 .. MaxClock
      /\ node \in [is : {"off", "up", "down"}, ends : 0 .. Exits]
      /\ account \in [there : BOOLEAN, balance : Amounts] /\ booked \in BookRecords /\ booked.credits \in Nat
  BY AccFacts DEF AccInv, BookRecords
<1>3. Ensured \in Amounts /\ (account.there => Ensured = account.balance) /\ (~account.there => Ensured = InitialCredits)
  BY <1>2, AccNumbers DEF Ensured
<1>4. /\ account' \in [there : BOOLEAN, balance : Amounts] /\ account'.there /\ account'.balance = Ensured
      /\ held' \in [0 .. MaxClock -> SUBSET Amounts] /\ Ensured \in held'[clock]
      /\ \A t \in 0 .. MaxClock : held[t] \subseteq held'[t]
  BY <1>1, <1>3, TotalHeld
<1>5. node' \in [is : {"off", "up", "down"}, ends : 0 .. Exits] /\ node'.is = "up"
  BY <1>1, <1>2
<1>6. AccountsTypeOK'
  BY <1>1, <1>2, <1>4, <1>5 DEF AccountsTypeOK
<1>7. Debiting' = {} /\ Crediting' = {} /\ Debiting = {} /\ Crediting = {} /\ Credited' = Credited /\ Debits' = Debits
  <2>1. Debiting = {} /\ Crediting = {}
    BY <1>1 DEF AccInv, Opened, AccUp
  <2>2. QED
    BY <1>1, <2>1 DEF Debiting, Crediting, Credited, Debits
<1>8. Within'
  <2>1. Ensured <= InitialCredits + booked.credits
    BY <1>2, <1>3, AccNumbers DEF AccInv, Within
  <2>2. QED
    BY <1>1, <1>4, <1>7, <2>1 DEF AccInv, Within
<1>9. Opened'
  BY <1>1, <1>4, <1>5 DEF AccInv, Opened, AccUp
<1>10. ASSUME ~overlapped' PROVE Alone'
  <2>1. Alone
    BY <1>1, <1>10 DEF AccInv
  <2>2. account'.balance + Debits' = booked'.opened + booked'.credits
    <3>1. CASE account.there
      BY <1>1, <1>3, <1>4, <1>7, <2>1, <3>1 DEF Alone
    <3>2. CASE ~account.there
      <4>1. booked.opened = InitialCredits /\ booked.credits = 0 /\ \A r \in Consumed : booked.debits[r] = 0
        BY <3>2 DEF AccInv, Opened
      <4>2. {r \in Consumed : booked.debits[r] > 0} = {}
        BY <4>1
      <4>3. Debits = 0
        BY <4>2, FS_EmptySet DEF Debits
      <4>4. QED
        BY <1>1, <1>3, <1>4, <1>7, <3>2, <4>1, <4>3, AccNumbers
    <3>3. QED
      BY <3>1, <3>2
  <2>3. QED
    BY <1>7, <2>2 DEF Alone
<1>11. Polled'
  <2>1. ASSUME NEW x \in PollRecords \cup CacheRecords, Seen(x), x' = x PROVE Seen(x)'
    <3>1. x.stamp \in 0 .. MaxClock /\ x.stamp <= clock
      BY <2>1 DEF Seen, PollRecords, CacheRecords
    <3>2. PICK t \in x.stamp .. clock : x.value \in held[t]
      BY <2>1 DEF Seen
    <3>3. t \in 0 .. MaxClock
      BY <1>2, <3>1, AccNumbers
    <3>4. x.value \in held'[t]
      BY <1>4, <3>2, <3>3
    <3>5. QED
      BY <1>1, <2>1, <3>1, <3>2, <3>4 DEF Seen
  <2>2. (Seen(poll) => Seen(poll)') /\ (Seen(cache) => Seen(cache)')
    BY <1>1, <1>2, <2>1
  <2>3. QED
    BY <1>1, <1>4, <2>2 DEF AccInv, Polled
<1>12. QED
  BY <1>6, <1>8, <1>9, <1>10, <1>11 DEF AccInv

\* The end of the node ends its transactions: none of them has written anything.
LEMMA NodeEndsInv ==
  ASSUME AccInv, NodeEnds
  PROVE  AccInv'
<1> DEFINE asked(r) == IF consuming[r].at \in {"idle", "delivered"} THEN consuming[r] ELSE [consuming[r] EXCEPT !.at = "none"]
           served(v) == IF serving[v].at = "idle" THEN serving[v] ELSE [serving[v] EXCEPT !.at = "ended"]
<1>1. /\ AccUp /\ node.ends < Exits /\ node' = [is |-> "down", ends |-> node.ends + 1]
      /\ consuming' = [r \in Consumed |-> asked(r)] /\ serving' = [v \in Answers |-> served(v)]
      /\ receipts' = [a \in DOMAIN receipts |-> IF receipts[a] = "sent" THEN "ended" ELSE receipts[a]]
      /\ cache' = Nothing /\ poll' = Nothing
      /\ UNCHANGED <<account, settled, clock, held, booked, overlapped>>
  BY DEF NodeEnds
<1>2. /\ AccountsTypeOK /\ consuming \in [Consumed -> ConsumingRecords] /\ serving \in [Answers -> ServingRecords]
      /\ receipts \in [Consumed \X Attempts -> {"none", "sent", "ended"}] /\ node.ends \in 0 .. Exits
      /\ booked.credits \in Nat
  BY AccFacts DEF AccInv, BookRecords
<1>3. \A x \in ConsumingRecords : LET y == [x EXCEPT !.at = "none"] IN y \in ConsumingRecords /\ y.at = "none"
  BY DEF ConsumingRecords
<1>4. \A x \in ServingRecords : LET y == [x EXCEPT !.at = "ended"] IN y \in ServingRecords /\ y.at = "ended"
  BY DEF ServingRecords
<1>5. \A r \in Consumed : /\ asked(r) \in ConsumingRecords /\ asked(r).at # "debited"
                          /\ asked(r).at = "delivered" <=> consuming[r].at = "delivered"
  BY <1>2, <1>3
<1>6. \A v \in Answers : /\ served(v) \in ServingRecords /\ served(v).at # "credited"
                         /\ serving[v].at \in {"receipt", "ended"} => served(v).at = "ended"
  BY <1>2, <1>4
<1> HIDE DEF asked, served
<1>7. /\ consuming' \in [Consumed -> ConsumingRecords] /\ serving' \in [Answers -> ServingRecords]
      /\ \A r \in Consumed : consuming'[r] = asked(r)
      /\ \A v \in Answers : serving'[v] = served(v)
  BY <1>1, <1>5, <1>6
<1>8. receipts' \in [Consumed \X Attempts -> {"none", "sent", "ended"}]
  BY <1>1, <1>2
<1>9. node' \in [is : {"off", "up", "down"}, ends : 0 .. Exits] /\ node'.is = "down"
  <2>1. node.ends + 1 \in 0 .. Exits
    BY <1>1, <1>2, AccNumbers
  <2>2. QED
    BY <1>1, <2>1
<1>10. AccountsTypeOK'
  BY <1>1, <1>2, <1>7, <1>8, <1>9, NothingType
     DEF AccountsTypeOK, ConsumingRecords, ServingRecords, CacheRecords, PollRecords
<1>11. Debiting' = {} /\ Crediting' = {} /\ Credited \subseteq Credited' /\ Debits' = Debits
  BY <1>1, <1>5, <1>6, <1>7 DEF Debiting, Crediting, Credited, Debits
<1>12. Within'
  <2>1. Credited' \in SUBSET Answers /\ Credited \in SUBSET Credited'
    BY <1>11 DEF Credited
  <2>2. Cardinality(Credited) \in Nat /\ Cardinality(Credited') \in Nat /\ Cardinality(Credited) <= Cardinality(Credited')
    BY <2>1, Counted
  <2>3. booked'.credits <= Cardinality(Credited')
    BY <1>1, <1>2, <2>2 DEF AccInv, Within
  <2>4. QED
    BY <1>1, <1>11, <2>3 DEF AccInv, Within
<1>13. Opened'
  BY <1>1, <1>5, <1>7, <1>9, <1>11 DEF AccInv, Opened, AccUp
<1>14. ASSUME ~overlapped' PROVE Alone'
  BY <1>1, <1>11, <1>14 DEF AccInv, Alone
<1>15. Polled'
  BY <1>1, <1>9, NothingType DEF Polled, AccUp
<1>16. QED
  BY <1>10, <1>12, <1>13, <1>14, <1>15 DEF AccInv

LEMMA AccNextInv == AccInv /\ [AccNext]_accVars => AccInv'
<1> SUFFICES ASSUME AccInv, [AccNext]_accVars PROVE AccInv'
  OBVIOUS
<1>1. ASSUME NEW r \in Consumed, Consume(r) \/ AskFails(r) \/ PeerAnswers(r) \/ DebitRow(r) \/ DebitFails(r)
      PROVE  AccInv'
  BY <1>1, AsksInv
<1>2. ASSUME NEW r \in Consumed, DebitCommits(r) PROVE AccInv'
  BY <1>2, DebitCommitsInv
<1>3. ASSUME NEW v \in Answers, Serve(v) \/ CreditRow(v) \/ CreditFails(v) \/ SendReceipt(v) PROVE AccInv'
  BY <1>3, ServesInv
<1>4. ASSUME NEW v \in Answers, CreditCommits(v) PROVE AccInv'
  BY <1>4, CreditCommitsInv
<1>5. ASSUME NEW a \in Consumed \X Attempts, Receive(a) PROVE AccInv'
  BY <1>5, ReceiveInv
<1>6. CASE Refresh \/ RefreshReads \/ RefreshStores \/ RefreshDropped
  BY <1>6, RefreshInv
<1>7. CASE Tick
  BY <1>7, TickInv
<1>8. CASE NodeStarts
  BY <1>8, NodeStartsInv
<1>9. CASE NodeEnds
  BY <1>9, NodeEndsInv
<1>10. CASE UNCHANGED accVars
  <2>1. AccountsTypeOK'
    BY <1>10 DEF accVars, AccInv, AccountsTypeOK
  <2>2. Polled'
    BY <1>10, PollsStay DEF accVars, AccInv, Polled
  <2>3. QED
    BY <1>10, <2>1, <2>2, RowStays DEF accVars, AccInv
<1>11. QED
  BY <1>1, <1>2, <1>3, <1>4, <1>5, <1>6, <1>7, <1>8, <1>9, <1>10 DEF AccNext

(* For any requests, peers, answers and credits, through restarts and      *)
(* databases that fail: an account on which no two transactions overlapped *)
(* holds what it was opened with, what was credited and what was debited,  *)
(* once for every request that was answered to the end; and a dashboard is *)
(* never shown from the cache a balance the account had not had since the  *)
(* refresh began, no longer than its ttl ago (storage/repositories.py      *)
(* ensure_account, credit, debit, get_account_cached).                     *)
THEOREM AccountsKept == AccSpec => []AccountKept
<1>1. AccInv => AccountKept
  BY DEF AccInv, Opened, Alone, Polled, Seen, CacheFresh, AccountKept, AccountHolds, PollsFresh
<1>2. QED
  BY <1>1, AccInitInv, AccNextInv, PTL DEF AccSpec

(* No balance of the account, and none that a transaction, a poll or the   *)
(* cache holds of it, is below nothing or above the credits there ever     *)
(* were (storage/repositories.py debit: "Insufficient credits").           *)
THEOREM AccountTypes == AccSpec => []AccountsTypeOK
<1>1. AccInv => AccountsTypeOK
  BY DEF AccInv
<1>2. QED
  BY <1>1, AccInitInv, AccNextInv, PTL DEF AccSpec

-----------------------------------------------------------------------------
(* Gateway: what an address is charged, and who answers it.                *)

Fields == {"at", "stream", "left", "listed", "asked", "lost", "by"}
Rates == [tokens : Nat, requests : Nat, minuteOver : BOOLEAN, dayOver : BOOLEAN]

Answering(r) == request[r].at \in {"trying", "streaming"}
Underway == {r \in Requests : Answering(r)}

\* Every request under way may yet be charged its most.
Charging ==
    /\ DOMAIN request = Requests
    /\ \A r \in Requests : DOMAIN request[r] = Fields
    /\ rate \in Rates
    /\ rate.tokens + MaxCost * Cardinality(Underway) <= DailyBudget + MaxCost * Cardinality(Requests)

\* What is left of a request's candidates is in order, and the turn of those that are not has passed in vain.
Waiting(q) == {q.left[i] : i \in 1 .. Len(q.left)}
Turned(q) == q.by = {} /\ InOrder(q.left, Waiting(q)) /\ \A i \in q.listed \ Waiting(q) : InVain(q, i)
InTurn == \A r \in Requests : request[r].at = "trying" => Turned(request[r])

\* A count of which one field is set is a count.
LEMMA RateFields ==
  ASSUME NEW c \in Rates
  PROVE  /\ \A n \in Nat : [c EXCEPT !.tokens = n] \in Rates /\ [c EXCEPT !.tokens = n].tokens = n
         /\ \A n \in Nat : [c EXCEPT !.requests = n] \in Rates /\ [c EXCEPT !.requests = n].tokens = c.tokens
         /\ \A b \in BOOLEAN : [c EXCEPT !.minuteOver = b] \in Rates /\ [c EXCEPT !.minuteOver = b].tokens = c.tokens
         /\ \A b \in BOOLEAN : [c EXCEPT !.dayOver = b] \in Rates /\ [c EXCEPT !.dayOver = b].tokens = c.tokens
         /\ c.tokens \in Nat /\ c.requests \in Nat
<1>1. \A n \in Nat : [c EXCEPT !.tokens = n] \in Rates /\ [c EXCEPT !.tokens = n].tokens = n
  BY DEF Rates
<1>2. \A n \in Nat : [c EXCEPT !.requests = n] \in Rates /\ [c EXCEPT !.requests = n].tokens = c.tokens
  BY DEF Rates
<1>3. \A b \in BOOLEAN : [c EXCEPT !.minuteOver = b] \in Rates /\ [c EXCEPT !.minuteOver = b].tokens = c.tokens
  BY DEF Rates
<1>4. \A b \in BOOLEAN : [c EXCEPT !.dayOver = b] \in Rates /\ [c EXCEPT !.dayOver = b].tokens = c.tokens
  BY DEF Rates
<1>5. QED
  BY <1>1, <1>2, <1>3, <1>4 DEF Rates

\* A step changes one request, and what is charged for it.
LEMMA GwOneRequest ==
  ASSUME Charging, NEW r \in Requests, NEW x, request' = [request EXCEPT ![r] = x],
         DOMAIN x = Fields
  PROVE  /\ DOMAIN request' = Requests /\ request'[r] = x
         /\ \A q \in Requests : DOMAIN request'[q] = Fields
         /\ \A q \in Requests : q # r => request'[q] = request[q]
         /\ Underway' = IF x.at \in {"trying", "streaming"} THEN Underway \cup {r} ELSE Underway \ {r}
<1>1. /\ DOMAIN request' = Requests /\ request'[r] = x
      /\ \A q \in Requests : q # r => request'[q] = request[q]
  BY DEF Charging
<1>2. Underway' = IF x.at \in {"trying", "streaming"} THEN Underway \cup {r} ELSE Underway \ {r}
  BY <1>1 DEF Underway, Answering
<1>3. QED
  BY <1>1, <1>2 DEF Charging

LEMMA GwCounts ==
  ASSUME NEW r \in Requests
  PROVE  /\ IsFiniteSet(Underway) /\ Cardinality(Underway) \in Nat /\ Cardinality(Requests) \in Nat
         /\ Cardinality(Underway) <= Cardinality(Requests)
         /\ r \in Underway => Cardinality(Underway \ {r}) = Cardinality(Underway) - 1
         /\ r \notin Underway => /\ Cardinality(Underway \cup {r}) = Cardinality(Underway) + 1
                                 /\ Cardinality(Underway) + 1 <= Cardinality(Requests)
<1>1. IsFiniteSet(Requests) /\ Underway \subseteq Requests
  BY GatewayAssumption DEF Underway
<1>2. IsFiniteSet(Underway) /\ IsFiniteSet(Underway \cup {r})
  BY <1>1, FS_Subset, FS_AddElement
<1>3. Cardinality(Underway \cup {r}) <= Cardinality(Requests) /\ Cardinality(Underway) <= Cardinality(Requests)
  BY <1>1, FS_Subset
<1>4. QED
  BY <1>1, <1>2, <1>3, FS_CardinalityType, FS_AddElement, FS_RemoveElement

\* The most that k requests are charged.
LEMMA GwMost ==
  /\ \A k \in Nat : MaxCost * k \in Nat /\ MaxCost * (k + 1) = MaxCost * k + MaxCost
  /\ \A k, l \in Nat : k <= l => MaxCost * k <= MaxCost * l
<1>1. MaxCost \in Nat
  BY GatewayAssumption
<1>2. \A k \in Nat : MaxCost * k \in Nat /\ MaxCost * (k + 1) = MaxCost * k + MaxCost
  BY <1>1
<1>3. ASSUME NEW k \in Nat, NEW l \in Nat, k <= l PROVE MaxCost * k <= MaxCost * l
  <2>1. PICK d \in Nat : l = k + d
    <3>1. l - k \in Nat /\ l = k + (l - k)
      BY <1>3
    <3>2. QED
      BY <3>1
  <2>2. MaxCost * l = MaxCost * k + MaxCost * d /\ MaxCost * d \in Nat /\ MaxCost * k \in Nat
    BY <1>1, <2>1
  <2>3. QED
    BY <2>2
<1>4. QED
  BY <1>2, <1>3

\* Once it is admitted a request may be under way, and when it is done it is charged its most at most.
LEMMA GwBudget ==
  ASSUME Charging, NEW r \in Requests, rate' \in Rates,
         \/ Underway' = Underway /\ rate'.tokens <= rate.tokens
         \/ Underway' = Underway \cup {r} /\ rate'.tokens <= DailyBudget
         \/ Underway' = Underway \ {r} /\ rate'.tokens <= rate.tokens
         \/ r \in Underway /\ Underway' = Underway \ {r} /\ rate'.tokens <= rate.tokens + MaxCost
  PROVE  rate'.tokens + MaxCost * Cardinality(Underway') <= DailyBudget + MaxCost * Cardinality(Requests)
<1>1. /\ rate.tokens \in Nat /\ rate'.tokens \in Nat /\ MaxCost \in Nat /\ DailyBudget \in Nat
      /\ rate.tokens + MaxCost * Cardinality(Underway) <= DailyBudget + MaxCost * Cardinality(Requests)
  BY GatewayAssumption DEF Charging, Rates
<1>2. Underway \cup {r} = Underway \/ r \notin Underway
  OBVIOUS
<1>3. CASE Underway' = Underway /\ rate'.tokens <= rate.tokens
  <2>1. Cardinality(Underway') = Cardinality(Underway)
    BY <1>3
  <2>2. /\ MaxCost * Cardinality(Underway) \in Nat
        /\ MaxCost * Cardinality(Requests) \in Nat
    BY GwCounts, GwMost
  <2>3. QED
    BY <1>1, <1>3, <2>1, <2>2
<1>4. CASE Underway' = Underway \cup {r} /\ rate'.tokens <= DailyBudget
  <2>1. Cardinality(Underway') \in Nat /\ Cardinality(Underway') <= Cardinality(Requests) /\ Cardinality(Requests) \in Nat
    <3>1. CASE Underway' = Underway
      BY <3>1, GwCounts
    <3>2. CASE r \notin Underway
      <4>1. /\ Cardinality(Underway \cup {r}) = Cardinality(Underway) + 1 /\ Cardinality(Underway) \in Nat
            /\ Cardinality(Underway) + 1 <= Cardinality(Requests) /\ Cardinality(Requests) \in Nat
        BY <3>2, GwCounts
      <4>2. Cardinality(Underway') = Cardinality(Underway \cup {r})
        BY <1>4
      <4>3. QED
        BY <4>1, <4>2
    <3>3. QED
      BY <1>2, <1>4, <3>1, <3>2
  <2>2. MaxCost * Cardinality(Underway') <= MaxCost * Cardinality(Requests)
    BY <2>1, GwMost
  <2>3. MaxCost * Cardinality(Underway') \in Nat /\ MaxCost * Cardinality(Requests) \in Nat
    BY <2>1, GwMost
  <2>4. QED
    BY <1>1, <1>4, <2>2, <2>3
<1>5. CASE r \in Underway /\ Underway' = Underway \ {r} /\ rate'.tokens <= rate.tokens + MaxCost
  <2>1. /\ Cardinality(Underway') = Cardinality(Underway) - 1 /\ Cardinality(Underway) \in Nat
        /\ Cardinality(Requests) \in Nat
    BY <1>5, GwCounts
  <2>2. Cardinality(Underway') \in Nat
    <3>1. IsFiniteSet(Underway')
      BY <1>5, GwCounts, FS_Subset
    <3>2. QED
      BY <3>1, FS_CardinalityType
  <2>3. MaxCost * Cardinality(Underway) = MaxCost * Cardinality(Underway') + MaxCost
    BY <2>1, <2>2, GwMost
  <2>4. MaxCost * Cardinality(Underway') \in Nat /\ MaxCost * Cardinality(Requests) \in Nat
    BY <2>1, <2>2, GwMost
  <2>5. QED
    BY <1>1, <1>5, <2>3, <2>4
<1>6. CASE r \notin Underway /\ Underway' = Underway \ {r} /\ rate'.tokens <= rate.tokens
  <2>1. Underway' = Underway
    BY <1>6
  <2>2. QED
    BY <1>3, <1>6, <2>1
<1>7. CASE r \in Underway /\ Underway' = Underway \ {r} /\ rate'.tokens <= rate.tokens
  BY <1>1, <1>5, <1>7
<1>8. QED
  BY <1>3, <1>4, <1>5, <1>6, <1>7

\* Who is being tried fails, and the next one is in turn.
LEMMA GwFails ==
  ASSUME Charging, NEW r \in Requests, CandidateFails(r)
  PROVE  \E x, now : /\ request' = [request EXCEPT ![r] = x] /\ DOMAIN x = Fields
                     /\ x.at = "trying" /\ x.stream = request[r].stream /\ x.left = Tail(request[r].left)
                     /\ x.listed = request[r].listed /\ x.by = request[r].by
                     /\ x.asked = request[r].asked \cup Asks(Foremost(r), now)
                     /\ x.lost = request[r].lost \cup ({Foremost(r)} \ (now \cup Asks(Foremost(r), now)))
<1>1. DOMAIN request = Requests /\ DOMAIN request[r] = Fields /\ request[r].at = "trying"
  BY DEF CandidateFails, Trying, Charging
<1>2. PICK now : request' = [request EXCEPT ![r].left = Tail(@), ![r].asked = @ \cup Asks(Foremost(r), now),
                                            ![r].lost = @ \cup ({Foremost(r)} \ (now \cup Asks(Foremost(r), now)))]
  BY DEF CandidateFails
<1> DEFINE asks == Asks(Foremost(r), now)
           gone == {Foremost(r)} \ (now \cup asks)
           y == [request[r] EXCEPT !.left = Tail(@), !.asked = @ \cup asks, !.lost = @ \cup gone]
<1> HIDE DEF asks, gone
<1>3. request' = [request EXCEPT ![r] = y]
  BY <1>1, <1>2 DEF asks, gone
<1>4. /\ DOMAIN y = Fields /\ y.at = "trying" /\ y.stream = request[r].stream /\ y.left = Tail(request[r].left)
      /\ y.listed = request[r].listed /\ y.by = request[r].by
      /\ y.asked = request[r].asked \cup asks /\ y.lost = request[r].lost \cup gone
  BY <1>1 DEF Fields
<1> HIDE DEF y
<1>5. QED
  BY <1>3, <1>4 DEF asks, gone

\* What a request is when it begins, is passed on to a stream, and ends.
LEMMA Blank ==
  /\ \A where, by : DOMAIN Given(where, by) = Fields /\ Given(where, by).at = where /\ Given(where, by).by = by
  /\ \A where : At(where) = Given(where, {}) /\ DOMAIN At(where) = Fields /\ At(where).at = where /\ At(where).by = {}
BY DEF At, Given, Fields

LEMMA GwStreams ==
  ASSUME NEW i
  PROVE  LET x == [At("streaming") EXCEPT !.left = <<i>>] IN
         /\ DOMAIN x = Fields /\ x.at = "streaming" /\ x.stream = FALSE /\ x.left = <<i>>
         /\ x.listed = {} /\ x.asked = {} /\ x.lost = {} /\ x.by = {}
BY DEF At, Given, Fields

LEMMA GwAdmits ==
  ASSUME NEW stream, NEW list, NEW present
  PROVE  LET x == [At("trying") EXCEPT !.stream = stream, !.left = list, !.listed = present] IN
         /\ DOMAIN x = Fields /\ x.at = "trying" /\ x.stream = stream /\ x.left = list
         /\ x.listed = present /\ x.asked = {} /\ x.lost = {} /\ x.by = {}
BY DEF At, Given, Fields

LEMMA GwChargingKept ==
  ASSUME Charging, GwNext \/ UNCHANGED gwVars
  PROVE  Charging'
<1>1. /\ rate \in Rates
      /\ MaxCost \in Nat
  BY GatewayAssumption DEF Charging
<1>2. ASSUME NEW r \in Requests, NEW present \in SUBSET Indices, Ask(r, present)
      PROVE  Charging'
  <2>1. rate' \in Rates /\ rate'.tokens <= rate.tokens
    <3>1. DEFINE c1 == [rate EXCEPT !.tokens = IF rate.dayOver THEN 0 ELSE @]
    <3>2. DEFINE c2 == [c1 EXCEPT !.dayOver = FALSE]
    <3>3. DEFINE c3 == [c2 EXCEPT !.requests = IF rate.minuteOver THEN 0 ELSE @]
    <3> HIDE DEF c1, c2, c3
    <3>4. c1 \in Rates /\ c1.tokens = IF rate.dayOver THEN 0 ELSE rate.tokens
      BY <1>1, RateFields DEF c1
    <3>5. c2 \in Rates /\ c2.tokens = c1.tokens
      BY <3>4, RateFields DEF c2
    <3>6. c3 \in Rates /\ c3.tokens = c2.tokens
      <4>1. (IF rate.minuteOver THEN 0 ELSE c2.requests) \in Nat
        BY <3>5, RateFields
      <4>2. QED
        BY <3>5, <4>1, RateFields DEF c3
    <3>7. rate' = [c3 EXCEPT !.minuteOver = FALSE]
      BY <1>2 DEF Ask, Renewed, c1, c2, c3
    <3>8. rate' \in Rates /\ rate'.tokens = c3.tokens
      BY <3>6, <3>7, RateFields
    <3>9. QED
      BY <1>1, <3>4, <3>5, <3>6, <3>8, RateFields
  <2>2. PICK x : /\ request' = [request EXCEPT ![r] = x] /\ DOMAIN x = Fields
                 /\ x.at \in {"refused", "exhausted"} \/ (x.at = "trying" /\ rate'.tokens <= DailyBudget)
    <3>1. CASE request' = [request EXCEPT ![r] = At("refused")] \/ request' = [request EXCEPT ![r] = At("exhausted")]
      BY <3>1, Blank
    <3>2. ASSUME Allowed(Renewed), NEW list, NEW stream,
                 request' = [request EXCEPT ![r] = [At("trying") EXCEPT !.stream = stream, !.left = list, !.listed = present]]
          PROVE  \E x : /\ request' = [request EXCEPT ![r] = x] /\ DOMAIN x = Fields
                        /\ x.at = "trying" /\ rate'.tokens <= DailyBudget
      <4>1. rate'.tokens <= DailyBudget
        BY <1>2, <3>2 DEF Ask, Allowed
      <4> DEFINE y == [At("trying") EXCEPT !.stream = stream, !.left = list, !.listed = present]
      <4>2. DOMAIN y = Fields /\ y.at = "trying"
        BY GwAdmits
      <4>3. request' = [request EXCEPT ![r] = y]
        BY <3>2
      <4> HIDE DEF y
      <4>4. QED
        BY <4>1, <4>2, <4>3
    <3>3. QED
      BY <1>2, <3>1, <3>2 DEF Ask
  <2>3. Underway' = IF x.at \in {"trying", "streaming"} THEN Underway \cup {r} ELSE Underway \ {r}
    BY <2>2, GwOneRequest
  <2>4. QED
    BY <2>1, <2>2, <2>3, GwOneRequest, GwBudget DEF Charging
<1>3. ASSUME NEW r \in Requests, Answering(r), NEW where \in {"answered", "blank", "broken", "exhausted"}, NEW by,
             request' = [request EXCEPT ![r] = Given(where, by)],
             rate' = rate \/ \E cost \in 0 .. MaxCost : Charged(cost)
      PROVE  Charging'
  <2>1. rate' \in Rates /\ rate'.tokens <= rate.tokens + MaxCost
    <3>1. CASE rate' = rate
      BY <1>1, <3>1, RateFields
    <3>2. ASSUME NEW cost \in 0 .. MaxCost, Charged(cost)
          PROVE  /\ rate' \in Rates
                 /\ rate'.tokens <= rate.tokens + MaxCost
      <4>1. DEFINE c1 == [rate EXCEPT !.tokens = @ + cost]
      <4> HIDE DEF c1
      <4>2. rate.tokens \in Nat /\ rate.tokens + cost \in Nat
        BY <1>1, RateFields
      <4>3. c1 \in Rates /\ c1.tokens = rate.tokens + cost
        BY <1>1, <4>2, RateFields DEF c1
      <4>4. c1.requests + 1 \in Nat
        BY <4>3, RateFields
      <4>5. rate' = [c1 EXCEPT !.requests = @ + 1]
        BY <3>2 DEF Charged, c1
      <4>6. rate' \in Rates /\ rate'.tokens = c1.tokens
        BY <4>3, <4>4, <4>5, RateFields
      <4>7. QED
        BY <1>1, <4>2, <4>3, <4>6
    <3>3. QED
      BY <1>3, <3>1, <3>2
  <2> DEFINE x == Given(where, by)
  <2>2. DOMAIN x = Fields /\ x.at \notin {"trying", "streaming"} /\ request' = [request EXCEPT ![r] = x]
    BY <1>3, Blank
  <2> HIDE DEF x
  <2>3. Underway' = Underway \ {r} /\ r \in Underway
    BY <1>3, <2>2, GwOneRequest DEF Underway
  <2>4. DOMAIN request' = Requests /\ \A q \in Requests : DOMAIN request'[q] = Fields
    BY <2>2, GwOneRequest
  <2>5. rate'.tokens + MaxCost * Cardinality(Underway') <= DailyBudget + MaxCost * Cardinality(Requests)
    <3>1. rate' \in Rates /\ r \in Underway /\ Underway' = Underway \ {r} /\ rate'.tokens <= rate.tokens + MaxCost
      BY <2>1, <2>3
    <3>2. QED
      BY <3>1, GwBudget, ZenonT(20)
  <2>6. QED
    BY <2>1, <2>4, <2>5 DEF Charging
<1>4. ASSUME NEW r \in Requests, Answering(r), rate' = rate,
             NEW x, request' = [request EXCEPT ![r] = x], DOMAIN x = Fields,
             x.at \in {"trying", "streaming"}
      PROVE  Charging'
  <2>1. Underway' = Underway
    <3>1. r \in Underway
      BY <1>4 DEF Underway
    <3>2. Underway' = Underway \cup {r}
      BY <1>4, GwOneRequest
    <3>3. QED
      BY <3>1, <3>2
  <2>2. rate'.tokens <= rate.tokens
    BY <1>1, <1>4, RateFields
  <2>3. QED
    BY <1>1, <1>4, <2>1, <2>2, GwOneRequest, GwBudget DEF Charging
<1>5. ASSUME UNCHANGED request, rate' = rate \/ Minute \/ Day PROVE Charging'
  <2>1. rate' \in Rates /\ rate'.tokens = rate.tokens
    BY <1>1, <1>5, RateFields DEF Minute, Day
  <2>2. Underway' = Underway
    BY <1>5 DEF Underway, Answering
  <2>3. QED
    BY <1>5, <2>1, <2>2 DEF Charging
<1>6. ASSUME NEW r \in Requests,
             \/ \E present \in SUBSET Indices : Ask(r, present)
             \/ Answered(r) \/ StreamBegins(r) \/ CandidateFails(r) \/ Exhausted(r) \/ StreamEnds(r) \/ StreamBreaks(r)
      PROVE  Charging'
  <2>1. CASE Answered(r)
    BY <1>3, <2>1 DEF Answered, Trying, Answering
  <2>2. CASE StreamBegins(r)
    BY <1>4, <2>2, GwStreams DEF StreamBegins, Trying, Answering
  <2>3. CASE CandidateFails(r)
    <3>1. Answering(r) /\ rate' = rate
      BY <2>3 DEF CandidateFails, Trying, Answering
    <3>2. QED
      BY <1>4, <2>3, <3>1, GwFails
  <2>4. CASE Exhausted(r)
    BY <1>3, <2>4, Blank DEF Exhausted, Answering
  <2>5. CASE StreamEnds(r)
    <3>1. \E where \in {"answered", "blank"} : \E by : request' = [request EXCEPT ![r] = Given(where, by)]
      BY <2>5, Blank DEF StreamEnds
    <3>2. \E cost \in 0 .. MaxCost : Charged(cost)
      <4>1. 0 \in 0 .. MaxCost
        BY <1>1
      <4>2. QED
        BY <2>5, <4>1 DEF StreamEnds
    <3>3. QED
      BY <1>3, <2>5, <3>1, <3>2 DEF StreamEnds, Answering
  <2>6. CASE StreamBreaks(r)
    BY <1>3, <2>6, Blank DEF StreamBreaks, Answering
  <2>7. QED
    BY <1>2, <1>6, <2>1, <2>2, <2>3, <2>4, <2>5, <2>6
<1>7. QED
  BY <1>5, <1>6 DEF GwNext, gwVars, Minute, Day

LEMMA GwBegins == GwInit => Charging
<1>1. SUFFICES ASSUME GwInit PROVE Charging
  OBVIOUS
<1>2. /\ rate = [tokens |-> 0, requests |-> 0, minuteOver |-> FALSE, dayOver |-> FALSE]
      /\ request = [r \in Requests |-> At("none")]
  BY <1>1 DEF GwInit
<1>3. Underway = {}
  BY <1>2, Blank DEF Underway, Answering
<1>4. Cardinality(Underway) = 0 /\ Cardinality(Requests) \in Nat
  BY <1>3, GatewayAssumption, FS_EmptySet, FS_CardinalityType
<1>5. MaxCost * 0 = 0 /\ MaxCost * Cardinality(Requests) \in Nat
  BY <1>4, GwMost, GatewayAssumption
<1>6. rate.tokens + MaxCost * Cardinality(Underway) <= DailyBudget + MaxCost * Cardinality(Requests)
  BY <1>2, <1>4, <1>5, GatewayAssumption
<1>7. QED
  BY <1>2, <1>6, Blank DEF Charging, Rates

(* In a day an address is charged at most its budget and what its requests *)
(* under way cost, however they overlap and break off (BudgetOverrun).     *)
THEOREM BudgetBounded == GwSpec => []BudgetOverrun
<1>1. GwInit => Charging
  BY GwBegins
<1>2. Charging /\ [GwNext]_gwVars => Charging'
  BY GwChargingKept
<1>3. Charging => BudgetOverrun
  <2>1. SUFFICES ASSUME Charging PROVE BudgetOverrun
    OBVIOUS
  <2>2. IsFiniteSet(Underway) /\ Cardinality(Underway) \in Nat /\ Cardinality(Requests) \in Nat
    <3>1. IsFiniteSet(Underway)
      BY GatewayAssumption, FS_Subset DEF Underway
    <3>2. QED
      BY <3>1, GatewayAssumption, FS_CardinalityType
  <2>3. MaxCost * Cardinality(Underway) \in Nat /\ MaxCost * Cardinality(Requests) \in Nat
    BY <2>2, GwMost
  <2>4. QED
    BY <2>1, <2>3, GatewayAssumption DEF Charging, BudgetOverrun, Rates
<1>4. QED
  BY <1>1, <1>2, <1>3, PTL DEF GwSpec

\* R orders S strictly.
Orders(R, S) ==
    /\ \A x \in S : <<x, x>> \notin R
    /\ \A x, y \in S : x # y => <<x, y>> \in R \/ <<y, x>> \in R
    /\ \A x, y, z \in S : <<x, y>> \in R /\ <<y, z>> \in R => <<x, z>> \in R

\* How many are ahead of x.
Rank(x, R, S) == Cardinality({y \in S : <<y, x>> \in R})

\* What is ahead of another has fewer ahead of it, and nothing has all.
LEMMA RanksDiffer ==
  ASSUME NEW S, IsFiniteSet(S), NEW R, Orders(R, S), NEW x \in S
  PROVE  /\ Rank(x, R, S) \in 0 .. Cardinality(S) - 1
         /\ \A y \in S : <<y, x>> \in R => Rank(y, R, S) < Rank(x, R, S)
<1> DEFINE Lower(z) == {y \in S : <<y, z>> \in R}
<1>1. ASSUME NEW z \in S PROVE IsFiniteSet(Lower(z)) /\ Rank(z, R, S) = Cardinality(Lower(z)) /\ Rank(z, R, S) \in Nat
  <2>1. Lower(z) \in SUBSET S
    OBVIOUS
  <2>2. IsFiniteSet(Lower(z))
    BY <2>1, FS_Subset
  <2>3. Rank(z, R, S) = Cardinality(Lower(z))
    BY DEF Rank
  <2>4. QED
    BY <2>2, <2>3, FS_CardinalityType
<1>2. Rank(x, R, S) < Cardinality(S)
  <2>1. Lower(x) \in SUBSET S /\ Lower(x) # S
    BY DEF Orders
  <2> HIDE DEF Lower
  <2>2. Cardinality(Lower(x)) <= Cardinality(S) /\ Cardinality(Lower(x)) # Cardinality(S)
    BY <2>1, FS_Subset
  <2>3. Cardinality(S) \in Nat
    BY FS_CardinalityType
  <2>4. QED
    BY <1>1, <2>2, <2>3
<1>3. ASSUME NEW y \in S, <<y, x>> \in R PROVE Rank(y, R, S) < Rank(x, R, S)
  <2>1. Lower(y) \in SUBSET Lower(x) /\ Lower(y) # Lower(x)
    <3>1. y \in Lower(x) /\ y \notin Lower(y)
      BY <1>3 DEF Orders
    <3>2. ASSUME NEW z \in Lower(y) PROVE z \in Lower(x)
      BY <1>3, <3>2 DEF Orders
    <3>3. QED
      BY <3>1, <3>2
  <2>2. IsFiniteSet(Lower(x)) /\ Cardinality(Lower(x)) \in Nat /\ Cardinality(Lower(y)) \in Nat
    BY <1>1
  <2> HIDE DEF Lower
  <2>3. Cardinality(Lower(y)) <= Cardinality(Lower(x)) /\ Cardinality(Lower(y)) # Cardinality(Lower(x))
    BY <2>1, <2>2, FS_Subset
  <2>4. QED
    BY <1>1, <2>2, <2>3
<1> HIDE DEF Lower
<1>4. Cardinality(S) \in Nat
  BY FS_CardinalityType
<1>5. Rank(x, R, S) \in Nat
  BY <1>1
<1>6. QED
  BY <1>2, <1>3, <1>4, <1>5

\* A function of the first n numbers is a list of n.
LEMMA ListOf ==
  ASSUME NEW S, NEW n \in Nat, NEW list \in [1 .. n -> S]
  PROVE  list \in Seq(S) /\ Len(list) = n
OBVIOUS

\* Each number below how many there are is the rank of one.
LEMMA RanksTaken ==
  ASSUME NEW S, IsFiniteSet(S), NEW R, Orders(R, S), NEW i \in 1 .. Cardinality(S)
  PROVE  \E x \in S : Rank(x, R, S) = i - 1
<1> DEFINE n == Cardinality(S)
           f == [x \in S |-> Rank(x, R, S)]
           T == 0 .. n - 1
<1>1. n \in Nat
  BY FS_CardinalityType
<1>2. f \in [S -> T] /\ \A x \in S : f[x] = Rank(x, R, S)
  BY RanksDiffer
<1>3. \A x, y \in S : <<x, y>> \in R => f[x] < f[y]
  BY <1>2, RanksDiffer
<1>4. \A x, y \in S : f[x] = f[y] => x = y
  <2> HIDE DEF f
  <2>1. ASSUME NEW x \in S, NEW y \in S, f[x] = f[y], x # y PROVE FALSE
    <3>1. f[x] < f[y] \/ f[y] < f[x]
      BY <1>3, <2>1 DEF Orders
    <3>2. f[x] \in Int /\ f[y] \in Int
      BY <1>2
    <3>3. QED
      BY <2>1, <3>1, <3>2
  <2>2. QED
    BY <2>1
<1>5. f \in Surjection(S, T)
  <2>1. IsFiniteSet(T) /\ Cardinality(T) = n
    <3> HIDE DEF n
    <3>1. n - 1 \in Int
      BY <1>1
    <3>2. IsFiniteSet(0 .. n - 1) /\ Cardinality(0 .. n - 1) = IF 0 > n - 1 THEN 0 ELSE n - 1 - 0 + 1
      BY <3>1, FS_Interval
    <3>3. QED
      BY <1>1, <3>2
  <2> HIDE DEF f, T
  <2>2. f \in Injection(S, T)
    BY <1>2, <1>4 DEF Injection, IsInjective
  <2>3. QED
    BY <2>1, <2>2, FS_Injection
<1>6. i - 1 \in T
  BY <1>1
<1>7. QED
  BY <1>2, <1>5, <1>6 DEF Surjection

\* The list of S in which each has as many ahead of it as there are.
LEMMA RankedList ==
  ASSUME NEW S, IsFiniteSet(S), NEW R, Orders(R, S), NEW list \in Seq(S), Len(list) = Cardinality(S),
         \A i \in 1 .. Len(list) : Rank(list[i], R, S) = i - 1
  PROVE  /\ {list[i] : i \in 1 .. Len(list)} = S
         /\ \A i, j \in 1 .. Len(list) : i < j => <<list[i], list[j]>> \in R
<1>1. \A i \in 1 .. Len(list) : list[i] \in S /\ i \in Int
  OBVIOUS
<1>2. \A x, y \in S : /\ Rank(x, R, S) \in Int
                      /\ <<x, y>> \in R => Rank(x, R, S) < Rank(y, R, S)
                      /\ x # y => <<x, y>> \in R \/ <<y, x>> \in R
  <2>1. ASSUME NEW x \in S PROVE Rank(x, R, S) \in Int
    BY RanksDiffer
  <2>2. ASSUME NEW x \in S, NEW y \in S, <<x, y>> \in R PROVE Rank(x, R, S) < Rank(y, R, S)
    BY <2>2, RanksDiffer
  <2>3. QED
    BY <2>1, <2>2 DEF Orders
<1>3. ASSUME NEW x \in S PROVE \E i \in 1 .. Len(list) : list[i] = x
  <2>1. Rank(x, R, S) \in 0 .. Len(list) - 1 /\ Len(list) \in Nat
    BY RanksDiffer
  <2> DEFINE i == Rank(x, R, S) + 1
  <2>2. i \in 1 .. Len(list) /\ i - 1 = Rank(x, R, S)
    BY <2>1
  <2> HIDE DEF i
  <2>3. Rank(list[i], R, S) = Rank(x, R, S) /\ list[i] \in S
    BY <1>1, <2>2
  <2>4. ASSUME list[i] # x PROVE FALSE
    <3>1. Rank(list[i], R, S) < Rank(x, R, S) \/ Rank(x, R, S) < Rank(list[i], R, S)
      BY <1>2, <2>3, <2>4
    <3>2. Rank(x, R, S) \in Int
      BY <1>2
    <3>3. QED
      BY <2>3, <3>1, <3>2
  <2>5. QED
    BY <2>2, <2>4
<1>4. ASSUME NEW i \in 1 .. Len(list), NEW j \in 1 .. Len(list), i < j PROVE <<list[i], list[j]>> \in R
  <2>1. /\ list[i] \in S /\ list[j] \in S
        /\ Rank(list[i], R, S) = i - 1 /\ Rank(list[j], R, S) = j - 1 /\ i \in Int /\ j \in Int
    BY <1>1
  <2>2. ~(Rank(list[j], R, S) < Rank(list[i], R, S)) /\ Rank(list[i], R, S) # Rank(list[j], R, S)
    BY <1>4, <2>1
  <2>3. QED
    BY <1>2, <2>1, <2>2
<1>5. QED
  BY <1>1, <1>3, <1>4

LEMMA Division ==
  ASSUME NEW a \in Int, NEW n \in Nat \ {0}
  PROVE  a \div n \in Int /\ a % n \in 0 .. n - 1 /\ a = n * (a \div n) + (a % n)
BY SMT

\* What differs by less than n keeps apart when it is rotated.
LEMMA RotatedApart ==
  ASSUME NEW n \in Nat \ {0}, NEW a \in 0 .. n - 1, NEW b \in 0 .. n - 1, NEW by \in Int,
         (a - by) % n = (b - by) % n
  PROVE  a = b
<1> DEFINE p == (a - by) \div n
           q == (b - by) \div n
           m == (a - by) % n
<1>1. a - by \in Int /\ b - by \in Int
  OBVIOUS
<1>2. p \in Int /\ q \in Int /\ m \in Int /\ a - by = n * p + m /\ b - by = n * q + m
  BY <1>1, Division
<1> HIDE DEF p, q, m
<1>3. a - b = n * p - n * q /\ n * p \in Int /\ n * q \in Int
  BY <1>2
<1>4. n * (p - q) = n * p - n * q
  BY <1>2
<1> DEFINE d == p - q
<1>5. d \in Int /\ n * d = a - b
  BY <1>2, <1>3, <1>4
<1> HIDE DEF d
<1>6. CASE d >= 1
  <2>1. n * d >= n
    BY <1>5, <1>6
  <2>2. QED
    BY <1>5, <2>1
<1>7. CASE d <= -1
  <2>1. n * d <= -n
    BY <1>5, <1>7
  <2>2. QED
    BY <1>5, <2>1
<1>8. CASE d = 0
  BY <1>5, <1>8
<1>9. QED
  BY <1>5, <1>6, <1>7, <1>8

LEMMA Element ==
  ASSUME NEW T, NEW s \in Seq(T), NEW i \in 1 .. Len(s)
  PROVE  s[i] \in T
OBVIOUS

LEMMA KeysNat ==
  ASSUME NEW i \in Indices
  PROVE  Key(i)[1] \in Nat /\ Key(i)[2] \in Nat /\ Key(i) = <<Key(i)[1], Key(i)[2]>>
<1>1. Offers[i] \in [name : STRING, tier : Nat, hop : {Local, Quic, Http}]
  BY GatewayAssumption, Element DEF Indices
<1>2. Offers[i].tier \in Nat /\ Offers[i].hop \in Nat
  BY <1>1 DEF Local, Quic, Http
<1>3. QED
  BY <1>2 DEF Key

\* Offers of one key stand, and are rotated, apart.
LEMMA PlacesApart ==
  ASSUME NEW present \in SUBSET Indices, NEW i \in present, NEW k \in present, Key(i) = Key(k), i # k,
         NEW by \in Int
  PROVE  Rotated(i, present, by) # Rotated(k, present, by)
<1> DEFINE S == Alike(i, present)
           R == {x \in S \X S : x[1] < x[2]}
           n == Cardinality(S)
<1>1. IsFiniteSet(present) /\ Indices \in SUBSET Nat
  <2>1. Len(Offers) \in Nat
    BY GatewayAssumption
  <2>2. IsFiniteSet(1 .. Len(Offers))
    BY <2>1, FS_Interval
  <2>3. IsFiniteSet(present)
    BY <2>2, FS_Subset DEF Indices
  <2>4. QED
    BY <2>1, <2>3 DEF Indices
<1>2. IsFiniteSet(S) /\ S \in SUBSET Nat /\ Alike(k, present) = S /\ i \in S /\ k \in S
  BY <1>1, FS_Subset DEF Alike
<1>3. n \in Nat \ {0}
  <2> HIDE DEF S
  <2>1. QED
    BY <1>2, FS_CardinalityType, FS_EmptySet
<1> HIDE DEF S
<1>4. \A x, y \in S : <<x, y>> \in R <=> x < y
  OBVIOUS
<1> HIDE DEF R
<1>5. Orders(R, S)
  BY <1>2, <1>4 DEF Orders
<1>6. ASSUME NEW x \in S PROVE Cardinality({y \in S : y < x}) = Rank(x, R, S)
  <2>1. {y \in S : y < x} = {y \in S : <<y, x>> \in R}
    BY <1>4
  <2>2. QED
    BY <2>1 DEF Rank
<1>7. Place(i, present) = Rank(i, R, S) /\ Place(k, present) = Rank(k, R, S)
  BY <1>2, <1>6 DEF Place, S
<1>8. Rank(i, R, S) \in 0 .. n - 1 /\ Rank(k, R, S) \in 0 .. n - 1
  BY <1>2, <1>5, RanksDiffer
<1>9. Rank(i, R, S) # Rank(k, R, S)
  <2>1. <<i, k>> \in R \/ <<k, i>> \in R
    BY <1>2, <1>5 DEF Orders
  <2>2. Rank(i, R, S) < Rank(k, R, S) \/ Rank(k, R, S) < Rank(i, R, S)
    BY <1>2, <1>5, <2>1, RanksDiffer
  <2>3. QED
    BY <1>8, <2>2
<1>10. Rotated(i, present, by) = (Rank(i, R, S) - by) % n /\ Rotated(k, present, by) = (Rank(k, R, S) - by) % n
  BY <1>2, <1>7 DEF Rotated, S
<1> HIDE DEF n
<1>11. QED
  BY <1>3, <1>8, <1>9, <1>10, RotatedApart

LEMMA RotatedInt ==
  ASSUME NEW present \in SUBSET Indices, NEW i \in present, NEW by \in Int
  PROVE  Rotated(i, present, by) \in Int
<1>1. IsFiniteSet(present)
  <2>1. Len(Offers) \in Nat
    BY GatewayAssumption
  <2>2. IsFiniteSet(1 .. Len(Offers))
    BY <2>1, FS_Interval
  <2>3. QED
    BY <2>2, FS_Subset DEF Indices
<1> DEFINE S == Alike(i, present)
<1>2. IsFiniteSet(S) /\ i \in S
  BY <1>1, FS_Subset DEF Alike
<1> HIDE DEF S
<1>3. Cardinality(S) \in Nat \ {0}
  BY <1>2, FS_CardinalityType, FS_EmptySet
<1>4. Place(i, present) \in Nat
  <2>1. IsFiniteSet({k \in S : k < i})
    BY <1>2, FS_Subset
  <2>2. QED
    BY <2>1, FS_CardinalityType DEF Place, S
<1>5. Place(i, present) - by \in Int
  BY <1>4
<1>6. QED
  BY <1>3, <1>5, Division DEF Rotated, S

(* Whatever offers there are and whichever of them suit a request, the     *)
(* list _get_candidates makes has each of these once, a lower tier before  *)
(* a higher one and within a tier a nearer before a farther.               *)
THEOREM CandidatesSorted == Sorting
<1> SUFFICES ASSUME NEW present \in SUBSET Indices, NEW turn \in Turns PROVE InOrder(Candidates(present, turn), present)
  BY DEF Sorting
<1> DEFINE R == {x \in present \X present : Ahead(x[1], x[2], present, turn)}
           list == Candidates(present, turn)
<1>1. Len(Offers) \in Nat /\ turn \in Int
  BY GatewayAssumption DEF Turns
<1>2. IsFiniteSet(present)
  <2>1. IsFiniteSet(1 .. Len(Offers))
    BY <1>1, FS_Interval
  <2>2. QED
    BY <2>1, FS_Subset DEF Indices
<1>3. \A x, y \in present : <<x, y>> \in R <=> Ahead(x, y, present, turn)
  OBVIOUS
<1> HIDE DEF R
<1> DEFINE Chosen(n) == CHOOSE i \in present : Cardinality({k \in present : Ahead(k, i, present, turn)}) = n - 1
<1>4. \A x \in present : /\ Key(x)[1] \in Nat /\ Key(x)[2] \in Nat /\ Key(x) = <<Key(x)[1], Key(x)[2]>>
                         /\ Rotated(x, present, turn) \in Int
  BY <1>1, KeysNat, RotatedInt
<1>5. Orders(R, present)
  <2>1. ASSUME NEW x \in present PROVE ~Ahead(x, x, present, turn)
    BY <1>4 DEF Ahead, Before
  <2>2. ASSUME NEW x \in present, NEW y \in present, x # y
        PROVE  Ahead(x, y, present, turn) \/ Ahead(y, x, present, turn)
    <3>1. CASE Key(x) = Key(y)
      <4>1. Rotated(x, present, turn) # Rotated(y, present, turn)
        BY <1>1, <2>2, <3>1, PlacesApart
      <4>2. QED
        BY <1>4, <3>1, <4>1 DEF Ahead
    <3>2. CASE Key(x) # Key(y)
      <4>1. Key(x)[1] # Key(y)[1] \/ Key(x)[2] # Key(y)[2]
        BY <1>4, <3>2
      <4>2. Before(Key(x), Key(y)) \/ Before(Key(y), Key(x))
        BY <1>4, <4>1 DEF Before
      <4>3. QED
        BY <4>2 DEF Ahead
    <3>3. QED
      BY <3>1, <3>2
  <2>3. ASSUME NEW x \in present, NEW y \in present, NEW z \in present,
               Ahead(x, y, present, turn), Ahead(y, z, present, turn)
        PROVE  Ahead(x, z, present, turn)
    <3>1. CASE Before(Key(x), Key(y)) /\ Before(Key(y), Key(z))
      <4>1. Before(Key(x), Key(z))
        BY <1>4, <3>1 DEF Before
      <4>2. QED
        BY <4>1 DEF Ahead
    <3>2. CASE Before(Key(x), Key(y)) /\ Key(y) = Key(z)
      BY <3>2 DEF Ahead
    <3>3. CASE Key(x) = Key(y) /\ Before(Key(y), Key(z))
      BY <3>3 DEF Ahead
    <3>4. CASE /\ Key(x) = Key(y) /\ Rotated(x, present, turn) < Rotated(y, present, turn)
               /\ Key(y) = Key(z) /\ Rotated(y, present, turn) < Rotated(z, present, turn)
      BY <1>4, <3>4 DEF Ahead
    <3>5. QED
      BY <2>3, <3>1, <3>2, <3>3, <3>4 DEF Ahead
  <2>4. QED
    BY <1>3, <2>1, <2>2, <2>3 DEF Orders
<1>6. ASSUME NEW x \in present PROVE Cardinality({k \in present : Ahead(k, x, present, turn)}) = Rank(x, R, present)
  <2>1. {k \in present : Ahead(k, x, present, turn)} = {k \in present : <<k, x>> \in R}
    BY <1>3
  <2>2. QED
    BY <2>1 DEF Rank
<1>7. list = [n \in 1 .. Cardinality(present) |-> Chosen(n)]
  BY DEF Candidates
<1> HIDE DEF list
<1>8. ASSUME NEW n \in 1 .. Cardinality(present) PROVE Chosen(n) \in present /\ Rank(Chosen(n), R, present) = n - 1
  <2>1. \E x \in present : Rank(x, R, present) = n - 1
    BY <1>2, <1>5, RanksTaken
  <2>2. \E x \in present : Cardinality({k \in present : Ahead(k, x, present, turn)}) = n - 1
    BY <1>6, <2>1
  <2>3. Chosen(n) \in present /\ Cardinality({k \in present : Ahead(k, Chosen(n), present, turn)}) = n - 1
    BY <2>2
  <2> HIDE DEF Chosen
  <2>4. QED
    BY <1>6, <2>3
<1> HIDE DEF Chosen
<1>9. Cardinality(present) \in Nat /\ list \in [1 .. Cardinality(present) -> present]
  <2>1. Cardinality(present) \in Nat
    BY <1>2, FS_CardinalityType
  <2>2. QED
    BY <1>7, <1>8, <2>1
<1>10. list \in Seq(present) /\ Len(list) = Cardinality(present)
  BY <1>9, ListOf
<1>11. /\ {list[i] : i \in 1 .. Len(list)} = present
       /\ \A i, j \in 1 .. Len(list) : i < j => <<list[i], list[j]>> \in R
  <2>1. \A i \in 1 .. Len(list) : Rank(list[i], R, present) = i - 1
    BY <1>7, <1>8, <1>10
  <2>2. QED
    BY <1>2, <1>5, <1>10, <2>1, RankedList
<1>12. list \in Seq(Indices)
  BY <1>10, SeqMonotonic
<1>13. ASSUME NEW i \in 1 .. Len(list), NEW j \in 1 .. Len(list), i < j
       PROVE  list[i] # list[j] /\ ~Before(Key(list[j]), Key(list[i]))
  <2>1. list[i] \in present /\ list[j] \in present /\ <<list[i], list[j]>> \in R
    BY <1>10, <1>11, <1>13
  <2>2. list[i] # list[j]
    BY <1>5, <2>1 DEF Orders
  <2>3. Ahead(list[i], list[j], present, turn)
    BY <1>3, <2>1
  <2>4. ~Before(Key(list[j]), Key(list[i]))
    BY <1>4, <2>1, <2>3 DEF Ahead, Before
  <2>5. QED
    BY <2>2, <2>4
<1>14. QED
  BY <1>11, <1>12, <1>13 DEF InOrder, list

\* Without its first the list is one of the others.
LEMMA NextInTurn ==
  ASSUME NEW list, NEW present, InOrder(list, present), list # <<>>
  PROVE  InOrder(Tail(list), present \ {Head(list)})
<1>1. /\ list \in Seq(Indices) /\ present = {list[i] : i \in 1 .. Len(list)} /\ Len(list) \in Nat \ {0}
      /\ \A i, j \in 1 .. Len(list) : i < j => list[i] # list[j] /\ ~Before(Key(list[j]), Key(list[i]))
  BY DEF InOrder
<1>2. /\ Tail(list) \in Seq(Indices) /\ Len(Tail(list)) = Len(list) - 1 /\ Head(list) = list[1]
      /\ \A i \in 1 .. Len(list) - 1 : Tail(list)[i] = list[i + 1]
  BY <1>1
<1>3. {Tail(list)[i] : i \in 1 .. Len(Tail(list))} = present \ {Head(list)}
  <2>1. ASSUME NEW i \in 1 .. Len(Tail(list)) PROVE Tail(list)[i] \in present \ {Head(list)}
    <3>1. i + 1 \in 1 .. Len(list) /\ 1 \in 1 .. Len(list) /\ 1 < i + 1
      BY <1>1, <1>2, <2>1
    <3>2. QED
      BY <1>1, <1>2, <2>1, <3>1
  <2>2. ASSUME NEW x \in present \ {Head(list)} PROVE \E i \in 1 .. Len(Tail(list)) : x = Tail(list)[i]
    <3>1. PICK k \in 1 .. Len(list) : x = list[k]
      BY <1>1, <2>2
    <3>2. k - 1 \in 1 .. Len(Tail(list)) /\ (k - 1) + 1 = k
      BY <1>1, <1>2, <2>2, <3>1
    <3>3. QED
      BY <1>2, <3>1, <3>2
  <2>3. QED
    BY <2>1, <2>2
<1>4. ASSUME NEW i \in 1 .. Len(Tail(list)), NEW j \in 1 .. Len(Tail(list)), i < j
      PROVE  Tail(list)[i] # Tail(list)[j] /\ ~Before(Key(Tail(list)[j]), Key(Tail(list)[i]))
  <2>1. i + 1 \in 1 .. Len(list) /\ j + 1 \in 1 .. Len(list) /\ i + 1 < j + 1
    BY <1>1, <1>2, <1>4
  <2>2. QED
    BY <1>1, <1>2, <1>4, <2>1
<1>5. QED
  BY <1>2, <1>3, <1>4 DEF InOrder

\* The first of the list is before no other; an empty list is one of nobody.
LEMMA FirstIsNearest ==
  ASSUME NEW list, NEW present, InOrder(list, present)
  PROVE  /\ list = <<>> => present = {}
         /\ list # <<>> => \A x \in present : ~Before(Key(x), Key(Head(list)))
<1>1. CASE list = <<>>
  BY <1>1 DEF InOrder
<1>2. ASSUME list # <<>>, NEW x \in present PROVE ~Before(Key(x), Key(Head(list)))
  <2>1. PICK k \in 1 .. Len(list) : x = list[k]
    BY <1>2 DEF InOrder
  <2>2. Head(list) = list[1] /\ Len(list) \in Nat \ {0} /\ list \in Seq(Indices) /\ 1 \in 1 .. Len(list)
    BY <1>2 DEF InOrder
  <2>3. CASE k = 1
    <3>1. list[1] \in Indices
      BY <2>2
    <3>2. Offers[list[1]].tier \in Nat /\ Offers[list[1]].hop \in Nat
      <4>1. Offers[list[1]] \in [name : STRING, tier : Nat, hop : {Local, Quic, Http}]
        <5>1. \A S : \A o \in Seq(S) : \A i \in 1 .. Len(o) : o[i] \in S
          OBVIOUS
        <5>2. Offers \in Seq([name : STRING, tier : Nat, hop : {Local, Quic, Http}]) /\ list[1] \in 1 .. Len(Offers)
          BY <3>1, GatewayAssumption DEF Indices
        <5>3. QED
          BY <5>1, <5>2
      <4>2. Offers[list[1]].tier \in Nat /\ Offers[list[1]].hop \in {Local, Quic, Http}
        BY <4>1
      <4>3. QED
        BY <4>2 DEF Local, Quic, Http
    <3>3. Key(list[1])[1] \in Nat /\ Key(list[1])[2] \in Nat
      BY <3>2 DEF Key
    <3>4. ~Before(Key(list[1]), Key(list[1]))
      BY <3>3 DEF Before
    <3>5. QED
      BY <2>1, <2>2, <2>3, <3>4
  <2>4. CASE k # 1
    <3>1. 1 < k
      BY <2>2, <2>4
    <3>2. QED
      BY <2>1, <2>2, <3>1 DEF InOrder
  <2>5. QED
    BY <2>3, <2>4
<1>3. QED
  BY <1>1, <1>2

\* Those asked at a turn are of the candidate's model and no farther away.
LEMMA AsksModel ==
  ASSUME NEW i \in Indices, NEW now, NEW by \in Asks(i, now)
  PROVE  by \in Indices /\ Offers[by].name = Offers[i].name /\ Offers[by].hop <= Offers[i].hop
<1>1. Offers[i] \in [name : STRING, tier : Nat, hop : {Local, Quic, Http}]
  BY GatewayAssumption, Element DEF Indices
<1>2. Offers[i].hop \in {0, 1, 2}
  BY <1>1 DEF Local, Quic, Http
<1>3. CASE Offers[i].hop = Http
  <2>1. by = i
    BY <1>3 DEF Asks
  <2>2. QED
    BY <1>2, <2>1
<1>4. CASE Offers[i].hop # Http
  <2>1. by \in Loaded(i, now) \/ (by \in Connected(i, now) /\ Offers[i].hop = Quic)
    BY <1>4 DEF Asks
  <2>2. by \in OfModel(i) /\ (Offers[by].hop = Local \/ Offers[by].hop = Offers[i].hop)
    BY <2>1 DEF Loaded, Connected
  <2>3. QED
    BY <1>2, <2>2 DEF OfModel, Local
<1>5. QED
  BY <1>3, <1>4

\* Whoever stands for a candidate was asked, or it was not to be reached, when its turn has passed.
LEMMA TurnPasses ==
  ASSUME NEW i \in Indices, NEW now, NEW q, Asks(i, now) \subseteq q.asked, {i} \ (now \cup Asks(i, now)) \subseteq q.lost
  PROVE  InVain(q, i)
<1>1. Offers[i] \in [name : STRING, tier : Nat, hop : {Local, Quic, Http}]
  BY GatewayAssumption, Element DEF Indices
<1>2. Offers[i].hop \in {Local, Quic, Http} /\ i \in OfModel(i)
  BY <1>1 DEF OfModel
<1>3. CASE i \in Asks(i, now) \/ i \notin now
  BY <1>3 DEF InVain
<1>4. CASE i \in now /\ i \notin Asks(i, now)
  <2>1. Offers[i].hop # Http
    BY <1>4 DEF Asks
  <2>2. CASE Offers[i].hop = Local
    <3>1. Asks(i, now) = Loaded(i, now)
      BY <2>2 DEF Asks, Local, Quic, Http
    <3>2. i \in Loaded(i, now)
      BY <1>2, <1>4, <2>2 DEF Loaded
    <3>3. QED
      BY <1>4, <3>1, <3>2
  <2>3. CASE Offers[i].hop = Quic
    <3>1. Loaded(i, now) # {}
      <4>1. i \in Connected(i, now)
        BY <1>2, <1>4, <2>3 DEF Connected
      <4>2. QED
        BY <1>4, <2>1, <2>3, <4>1 DEF Asks
    <3>2. Asks(i, now) = Loaded(i, now)
      BY <2>1, <3>1 DEF Asks
    <3>3. Loaded(i, now) \subseteq Loaded(i, q.asked)
      BY <3>2 DEF Loaded
    <3>4. QED
      BY <2>3, <3>1, <3>3 DEF InVain
  <2>4. QED
    BY <1>2, <2>1, <2>2, <2>3
<1>5. QED
  BY <1>3, <1>4

LEMMA InTurnKept ==
  ASSUME Charging, InTurn, GwNext \/ UNCHANGED gwVars
  PROVE  InTurn'
<1>1. ASSUME NEW r \in Requests, NEW x, request' = [request EXCEPT ![r] = x], DOMAIN x = Fields, x.at = "trying" => Turned(x)
      PROVE  InTurn'
  <2>1. request'[r] = x /\ \A q \in Requests : q # r => request'[q] = request[q]
    BY <1>1, GwOneRequest
  <2>2. ASSUME NEW q \in Requests, request'[q].at = "trying" PROVE Turned(request'[q])
    BY <1>1, <2>1, <2>2 DEF InTurn
  <2>3. QED
    BY <2>2 DEF InTurn, Turned, Waiting, InVain
<1>2. ASSUME NEW r \in Requests, NEW where, where # "trying", NEW by, request' = [request EXCEPT ![r] = Given(where, by)]
      PROVE  InTurn'
  <2> DEFINE x == Given(where, by)
  <2>1. DOMAIN x = Fields /\ x.at # "trying" /\ request' = [request EXCEPT ![r] = x]
    BY <1>2, Blank
  <2> HIDE DEF x
  <2>2. QED
    BY <1>1, <2>1
<1>3. ASSUME NEW r \in Requests, NEW present \in SUBSET Indices, Ask(r, present)
      PROVE  InTurn'
  <2>1. ASSUME NEW turn \in Turns, NEW stream, request' = [request EXCEPT ![r] =
                 [At("trying") EXCEPT !.stream = stream, !.left = Candidates(present, turn), !.listed = present]]
        PROVE  InTurn'
    <3>1. InOrder(Candidates(present, turn), present)
      BY <1>3, <2>1, CandidatesSorted DEF Sorting
    <3> DEFINE x == [At("trying") EXCEPT !.stream = stream, !.left = Candidates(present, turn), !.listed = present]
    <3>2. DOMAIN x = Fields /\ x.left = Candidates(present, turn) /\ x.listed = present /\ x.by = {}
      BY GwAdmits
    <3>3. request' = [request EXCEPT ![r] = x]
      BY <2>1
    <3> HIDE DEF x
    <3>4. Waiting(x) = present
      BY <3>1, <3>2 DEF Waiting, InOrder
    <3>5. QED
      BY <1>1, <3>1, <3>2, <3>3, <3>4 DEF Turned
  <2>2. ASSUME NEW where \in {"refused", "exhausted"}, request' = [request EXCEPT ![r] = At(where)] PROVE InTurn'
    <3>1. request' = [request EXCEPT ![r] = Given(where, {})]
      BY <2>2, Blank
    <3>2. QED
      BY <1>2, <2>2, <3>1
  <2>3. CASE \E where \in {"refused", "exhausted"} : request' = [request EXCEPT ![r] = At(where)]
    BY <2>2, <2>3
  <2>4. CASE \E turn \in Turns : \E stream : request' = [request EXCEPT ![r] =
                [At("trying") EXCEPT !.stream = stream, !.left = Candidates(present, turn), !.listed = present]]
    BY <2>1, <2>4
  <2>5. QED
    BY <1>3, <2>3, <2>4 DEF Ask
<1>4. ASSUME NEW r \in Requests, CandidateFails(r) PROVE InTurn'
  <2>1. PICK x, now : /\ request' = [request EXCEPT ![r] = x] /\ DOMAIN x = Fields
                      /\ x.at = "trying" /\ x.left = Tail(request[r].left)
                      /\ x.listed = request[r].listed /\ x.by = request[r].by
                      /\ x.asked = request[r].asked \cup Asks(Foremost(r), now)
                      /\ x.lost = request[r].lost \cup ({Foremost(r)} \ (now \cup Asks(Foremost(r), now)))
    BY <1>4, GwFails
  <2>2. Turned(request[r]) /\ request[r].left # <<>>
    BY <1>4 DEF CandidateFails, Trying, InTurn
  <2>3. InOrder(x.left, Waiting(request[r]) \ {Foremost(r)})
    BY <2>1, <2>2, NextInTurn DEF Foremost, Turned
  <2>4. Waiting(x) = Waiting(request[r]) \ {Foremost(r)}
    BY <2>3 DEF Waiting, InOrder
  <2>5. ASSUME NEW i \in x.listed \ Waiting(x) PROVE InVain(x, i)
    <3>1. CASE i = Foremost(r)
      <4>1. Foremost(r) \in Indices
        <5>1. request[r].left \in Seq(Indices)
          BY <2>2 DEF Turned, InOrder
        <5>2. QED
          BY <2>2, <5>1, HeadTailProperties DEF Foremost
      <4>2. Asks(Foremost(r), now) \subseteq x.asked /\ {Foremost(r)} \ (now \cup Asks(Foremost(r), now)) \subseteq x.lost
        BY <2>1
      <4>3. QED
        BY <3>1, <4>1, <4>2, TurnPasses
    <3>2. CASE i # Foremost(r)
      <4>1. InVain(request[r], i)
        BY <2>1, <2>2, <2>4, <2>5, <3>2 DEF Turned
      <4>2. Loaded(i, request[r].asked) \subseteq Loaded(i, x.asked)
        BY <2>1 DEF Loaded
      <4>3. QED
        BY <2>1, <4>1, <4>2 DEF InVain
    <3>3. QED
      BY <3>1, <3>2
  <2>6. QED
    BY <1>1, <2>1, <2>2, <2>3, <2>4, <2>5 DEF Turned
<1>5. ASSUME NEW r \in Requests, StreamBegins(r) PROVE InTurn'
  BY <1>1, <1>5, GwStreams DEF StreamBegins
<1>6. CASE UNCHANGED request
  BY <1>6 DEF InTurn, Turned, Waiting, InVain
<1>7. ASSUME NEW r \in Requests, Answered(r) \/ Exhausted(r) \/ StreamEnds(r) \/ StreamBreaks(r) PROVE InTurn'
  <2>1. \E where \in {"answered", "blank", "exhausted", "broken"} : \E by : request' = [request EXCEPT ![r] = Given(where, by)]
    BY <1>7, Blank DEF Answered, Exhausted, StreamEnds, StreamBreaks
  <2>2. QED
    BY <1>2, <2>1
<1>8. QED
  BY <1>3, <1>4, <1>5, <1>6, <1>7 DEF GwNext, gwVars, Minute, Day

\* Those nearer than the candidate in turn have been passed in vain, and all when none is left.
LEMMA PassedInVain ==
  ASSUME NEW q, Turned(q), NEW i \in q.listed, q.left # <<>> => Before(Key(i), Key(Head(q.left)))
  PROVE  InVain(q, i)
<1>1. i \notin Waiting(q)
  BY FirstIsNearest DEF Turned
<1>2. QED
  BY <1>1 DEF Turned

LEMMA InTurnServes ==
  ASSUME Charging, InTurn, GwNext, NEW r \in Requests, request[r].at = "trying"
  PROVE  Serves(r)
<1>1. Turned(request[r])
  BY DEF InTurn
<1>2. request[r].by = {}
  BY <1>1 DEF Turned
<1>3. CASE request'[r] = request[r]
  BY <1>2, <1>3 DEF Serves
<1>4. ASSUME NEW q \in Requests, q # r, NEW x, request' = [request EXCEPT ![q] = x] PROVE Serves(r)
  BY <1>3, <1>4 DEF Charging
<1>5. CASE Answered(r)
  <2>1. request[r].left # <<>>
    BY <1>5 DEF Answered, Trying
  <2>2. Foremost(r) \in Indices
    <3>1. request[r].left \in Seq(Indices)
      BY <1>1 DEF Turned, InOrder
    <3>2. QED
      BY <2>1, <3>1, HeadTailProperties DEF Foremost
  <2>3. PICK where \in {"answered", "blank"}, now \in SUBSET OfModel(Foremost(r)) :
             \E by \in Asks(Foremost(r), now) : request' = [request EXCEPT ![r] = Given(where, {by})]
    BY <1>5 DEF Answered
  <2>4. PICK by \in Asks(Foremost(r), now) : request' = [request EXCEPT ![r] = Given(where, {by})]
    BY <2>3
  <2>5. request'[r] = Given(where, {by})
    BY <2>4 DEF Charging
  <2>6. request'[r].at # "exhausted" /\ request'[r].by = {by}
    BY <2>5, Blank
  <2>7. Offers[by].name = Offers[Foremost(r)].name /\ Offers[by].hop <= Offers[Foremost(r)].hop
    BY <2>2, AsksModel
  <2>8. \A i \in request[r].listed : Before(Key(i), Key(Foremost(r))) => InVain(request[r], i)
    BY <1>1, PassedInVain DEF Foremost
  <2>9. QED
    BY <2>6, <2>7, <2>8 DEF Serves
<1>6. CASE StreamBegins(r)
  <2>1. request'[r].at = "streaming" /\ request'[r].by = {}
    BY <1>6, GwStreams DEF StreamBegins, Charging
  <2>2. \A i \in request[r].listed : Before(Key(i), Key(Foremost(r))) => InVain(request[r], i)
    BY <1>1, PassedInVain DEF Foremost
  <2>3. QED
    BY <2>1, <2>2 DEF Serves
<1>7. CASE Exhausted(r)
  <2>1. request[r].left = <<>> /\ request'[r].at = "exhausted" /\ request'[r].by = {}
    BY <1>7, Blank DEF Exhausted, Charging
  <2>2. \A i \in request[r].listed : InVain(request[r], i)
    BY <1>1, <2>1, PassedInVain
  <2>3. QED
    BY <2>1, <2>2 DEF Serves
<1>8. CASE CandidateFails(r)
  <2>1. request'[r].at = "trying" /\ request'[r].by = {}
    BY <1>2, <1>8, GwFails DEF Charging
  <2>2. QED
    BY <2>1 DEF Serves
<1>9. ASSUME NEW present, Ask(r, present) PROVE FALSE
  BY <1>9 DEF Ask, Over
<1>10. ASSUME NEW q \in Requests, q # r, CandidateFails(q) PROVE Serves(r)
  BY <1>4, <1>10, GwFails
<1>11. ASSUME NEW q \in Requests, q # r, Answered(q) \/ StreamBegins(q) \/ Exhausted(q) \/ StreamEnds(q) \/ StreamBreaks(q)
       PROVE  Serves(r)
  BY <1>4, <1>11 DEF Answered, StreamBegins, Exhausted, StreamEnds, StreamBreaks
<1>12. ASSUME NEW q \in Requests, q # r, NEW present \in SUBSET Indices, Ask(q, present) PROVE Serves(r)
  BY <1>4, <1>12 DEF Ask
<1>13. ~StreamEnds(r) /\ ~StreamBreaks(r)
  BY DEF StreamEnds, StreamBreaks
<1>14. CASE Minute \/ Day
  BY <1>3, <1>14 DEF Minute, Day
<1>15. QED
  BY <1>5, <1>6, <1>7, <1>8, <1>9, <1>10, <1>11, <1>12, <1>13, <1>14 DEF GwNext

(* Whatever other requests do and offers come and go meanwhile, a request  *)
(* is answered when all that are nearer were asked in vain, by one of the  *)
(* model in turn and no farther away, and refused when all were            *)
(* (NearestFirst; peers whose model is loaded here count as asked when it  *)
(* was asked for them).                                                    *)
THEOREM NearestAnswers == GwSpec => NearestFirst
<1>1. GwInit => Charging /\ InTurn
  <2>1. GwInit => InTurn
    <3>1. SUFFICES ASSUME GwInit, NEW r \in Requests PROVE request[r].at = "none"
      BY DEF InTurn
    <3>2. QED
      BY <3>1, Blank DEF GwInit
  <2>2. QED
    BY <2>1, GwBegins
<1>2. Charging /\ InTurn /\ [GwNext]_gwVars => Charging' /\ InTurn'
  BY GwChargingKept, InTurnKept
<1>3. Charging /\ InTurn /\ [GwNext]_gwVars => [\A r \in Requests : request[r].at = "trying" => Serves(r)]_gwVars
  BY InTurnServes
<1>4. QED
  BY <1>1, <1>2, <1>3, PTL DEF GwSpec, NearestFirst

\* A request as GatewayTypeOK has it; one that is streamed has its candidate.
Formed(x) == /\ x.at \in Over \cup {"trying", "streaming"} /\ x.stream \in BOOLEAN
             /\ x.left \in Seq(Indices) /\ x.listed \subseteq Indices
             /\ x.asked \subseteq Indices /\ x.lost \subseteq Indices /\ x.by \subseteq Indices
             /\ x.at = "streaming" => x.left # <<>>
GwTypes == \A r \in Requests : Formed(request[r])

LEMMA BlankFormed ==
  /\ \A where \in Over, by \in SUBSET Indices : Formed(Given(where, by))
  /\ \A where \in Over : Formed(At(where))
BY DEF Formed, At, Given, Over

LEMMA GwTypesKept ==
  ASSUME Charging, GwTypes, GwNext \/ UNCHANGED gwVars
  PROVE  GwTypes'
<1>1. ASSUME NEW r \in Requests, NEW x, request' = [request EXCEPT ![r] = x], Formed(x) PROVE GwTypes'
  <2>1. request'[r] = x /\ \A q \in Requests : q # r => request'[q] = request[q]
    BY <1>1 DEF Charging
  <2>2. QED
    BY <1>1, <2>1 DEF GwTypes, Formed
<1>2. /\ "refused" \in Over /\ "answered" \in Over /\ "blank" \in Over /\ "exhausted" \in Over /\ "broken" \in Over
      /\ {} \in SUBSET Indices
  BY DEF Over
<1>3. ASSUME NEW r \in Requests, NEW present \in SUBSET Indices, Ask(r, present) PROVE GwTypes'
  <2>1. ASSUME NEW turn \in Turns, NEW stream \in BOOLEAN, request' = [request EXCEPT ![r] =
                 [At("trying") EXCEPT !.stream = stream, !.left = Candidates(present, turn), !.listed = present]]
        PROVE  GwTypes'
    <3> DEFINE x == [At("trying") EXCEPT !.stream = stream, !.left = Candidates(present, turn), !.listed = present]
    <3>1. Candidates(present, turn) \in Seq(Indices)
      BY CandidatesSorted DEF Sorting, InOrder
    <3>2. /\ x.at = "trying" /\ x.stream = stream /\ x.left = Candidates(present, turn)
          /\ x.listed = present /\ x.asked = {} /\ x.lost = {} /\ x.by = {}
      BY GwAdmits
    <3>3. request' = [request EXCEPT ![r] = x]
      BY <2>1
    <3> HIDE DEF x
    <3>4. Formed(x)
      BY <3>1, <3>2 DEF Formed
    <3>5. QED
      BY <1>1, <3>3, <3>4
  <2>2. QED
    BY <1>1, <1>2, <1>3, <2>1, BlankFormed DEF Ask
<1>4. ASSUME NEW r \in Requests, Answering(r), request[r].left # <<>> PROVE Foremost(r) \in Indices
  <2>1. request[r].left \in Seq(Indices)
    BY DEF GwTypes, Formed
  <2>2. QED
    BY <1>4, <2>1, HeadTailProperties DEF Foremost
<1>5. ASSUME NEW r \in Requests, CandidateFails(r) PROVE GwTypes'
  <2>1. Formed(request[r]) /\ request[r].left # <<>> /\ request[r].at = "trying" /\ Foremost(r) \in Indices
    BY <1>4, <1>5 DEF GwTypes, CandidateFails, Trying, Answering
  <2>2. Tail(request[r].left) \in Seq(Indices)
    <3>1. request[r].left \in Seq(Indices)
      BY <2>1 DEF Formed
    <3>2. QED
      BY <2>1, <3>1, HeadTailProperties
  <2>3. PICK x, now : /\ request' = [request EXCEPT ![r] = x]
                      /\ x.at = "trying" /\ x.stream = request[r].stream /\ x.left = Tail(request[r].left)
                      /\ x.listed = request[r].listed /\ x.by = request[r].by
                      /\ x.asked = request[r].asked \cup Asks(Foremost(r), now)
                      /\ x.lost = request[r].lost \cup ({Foremost(r)} \ (now \cup Asks(Foremost(r), now)))
    BY <1>5, GwFails
  <2>4. Asks(Foremost(r), now) \subseteq Indices
    BY <2>1, AsksModel
  <2>5. Formed(x)
    BY <2>1, <2>2, <2>3, <2>4 DEF Formed
  <2>6. QED
    BY <1>1, <2>3, <2>5
<1>6. ASSUME NEW r \in Requests, Answered(r) PROVE GwTypes'
  <2>1. Foremost(r) \in Indices
    BY <1>4, <1>6 DEF Answered, Trying, Answering
  <2>2. PICK where \in {"answered", "blank"}, now \in SUBSET OfModel(Foremost(r)) :
             \E by \in Asks(Foremost(r), now) : request' = [request EXCEPT ![r] = Given(where, {by})]
    BY <1>6 DEF Answered
  <2>3. PICK by \in Asks(Foremost(r), now) : request' = [request EXCEPT ![r] = Given(where, {by})]
    BY <2>2
  <2>4. {by} \in SUBSET Indices
    BY <2>1, AsksModel
  <2>5. QED
    BY <1>1, <1>2, <2>3, <2>4, BlankFormed
<1>7. ASSUME NEW r \in Requests, StreamBegins(r) PROVE GwTypes'
  <2>1. Foremost(r) \in Indices
    BY <1>4, <1>7 DEF StreamBegins, Trying, Answering
  <2> DEFINE x == [At("streaming") EXCEPT !.left = <<Foremost(r)>>]
  <2>2. /\ x.at = "streaming" /\ x.stream = FALSE /\ x.left = <<Foremost(r)>>
        /\ x.listed = {} /\ x.asked = {} /\ x.lost = {} /\ x.by = {}
    BY GwStreams
  <2>3. request' = [request EXCEPT ![r] = x]
    BY <1>7 DEF StreamBegins
  <2> HIDE DEF x
  <2>4. <<Foremost(r)>> \in Seq(Indices) /\ <<Foremost(r)>> # <<>>
    BY <2>1
  <2>5. Formed(x)
    BY <2>2, <2>4 DEF Formed
  <2>6. QED
    BY <1>1, <2>3, <2>5
<1>8. ASSUME NEW r \in Requests, StreamEnds(r) PROVE GwTypes'
  <2>1. CASE request' = [request EXCEPT ![r] = At("blank")]
    BY <1>1, <1>2, <2>1, BlankFormed
  <2>2. Foremost(r) \in Indices
    BY <1>4, <1>8 DEF StreamEnds, Answering, GwTypes, Formed
  <2>3. ASSUME NEW by, request' = [request EXCEPT ![r] = Given("answered", {by})],
               by = Foremost(r) \/ \E now : by \in Connected(Foremost(r), now)
        PROVE  GwTypes'
    <3>1. {by} \in SUBSET Indices
      BY <2>2, <2>3 DEF Connected, OfModel
    <3>2. QED
      BY <1>1, <1>2, <2>3, <3>1, BlankFormed
  <2>4. QED
    BY <1>8, <2>1, <2>3 DEF StreamEnds
<1>9. ASSUME NEW r \in Requests, Exhausted(r) \/ StreamBreaks(r) PROVE GwTypes'
  BY <1>1, <1>2, <1>9, BlankFormed DEF Exhausted, StreamBreaks
<1>10. CASE UNCHANGED request
  BY <1>10 DEF GwTypes, Formed
<1>11. QED
  BY <1>3, <1>5, <1>6, <1>7, <1>8, <1>9, <1>10 DEF GwNext, gwVars, Minute, Day

(* Every reachable state of the gateway is type correct: a request's       *)
(* candidates are offers, whichever come and go.                           *)
THEOREM GatewayTypes == GwSpec => []GatewayTypeOK
<1>1. GwInit => Charging /\ GwTypes
  <2>1. GwInit => GwTypes
    <3>1. SUFFICES ASSUME GwInit, NEW r \in Requests PROVE request[r] = At("none") /\ "none" \in Over
      BY BlankFormed DEF GwTypes, GwInit, Over
    <3>2. QED
      BY <3>1 DEF GwInit, Over
  <2>2. QED
    BY <2>1, GwBegins
<1>2. Charging /\ GwTypes /\ [GwNext]_gwVars => Charging' /\ GwTypes'
  BY GwChargingKept, GwTypesKept
<1>3. Charging /\ GwTypes => GatewayTypeOK
  BY DEF Charging, GwTypes, Formed, GatewayTypeOK, Rates
<1>4. QED
  BY <1>1, <1>2, <1>3, PTL DEF GwSpec

-----------------------------------------------------------------------------
(* Batching: what a stream sends.                                          *)

\* What it means that a text ends in a beginning of the stop string from i on.
Beginning(text, i) == Len(text) - i < Len(StopString) /\ \A k \in 1 .. Len(text) - i : text[i + k] = StopString[k]

LEMMA StopWord == StopString \in Seq(Characters) /\ Len(StopString) \in Nat \ {0}
<1>1. StopString \in Seq(Characters) /\ StopString # <<>>
  BY BatchingAssumption
<1>2. QED
  BY <1>1, EmptySeq

LEMMA StopAt ==
  ASSUME NEW text \in Seq(Characters), NEW i \in Nat
  PROVE  i \in StopsAt(text) <=> /\ i + Len(StopString) <= Len(text)
                                 /\ \A k \in 1 .. Len(StopString) : text[i + k] = StopString[k]
<1> DEFINE s == Len(StopString)
           piece == SubSeq(text, i + 1, i + s)
<1>1. s \in Nat \ {0} /\ StopString \in Seq(Characters) /\ Len(text) \in Nat
  BY StopWord
<1>2. i \in StopsAt(text) <=> i + s <= Len(text) /\ piece = StopString
  BY <1>1 DEF StopsAt
<1>3. ASSUME i + s <= Len(text)
      PROVE  piece \in Seq(Characters) /\ Len(piece) = s /\ \A k \in 1 .. s : piece[k] = text[i + k]
  BY <1>1, <1>3
<1>4. ASSUME i + s <= Len(text)
      PROVE  piece = StopString <=> \A k \in 1 .. s : text[i + k] = StopString[k]
  <2> HIDE DEF piece
  <2>1. QED
    BY <1>1, <1>3, <1>4, SeqEqual
<1>5. QED
  BY <1>2, <1>4

LEMMA StopsAtNat == ASSUME NEW text \in Seq(Characters) PROVE StopsAt(text) \in SUBSET Nat
BY StopWord DEF StopsAt

\* The text is cut where the stop string comes first.
LEMMA CutAt ==
  ASSUME NEW text \in Seq(Characters)
  PROVE  /\ StopsAt(text) = {} => Cut(text) = text
         /\ StopsAt(text) # {} => \E i \in StopsAt(text) : Cut(text) = SubSeq(text, 1, i)
<1> DEFINE Is(i) == \A k \in StopsAt(text) : i <= k
           shorter == CHOOSE i \in StopsAt(text) : Is(i)
<1>1. ASSUME StopsAt(text) # {} PROVE shorter \in StopsAt(text)
  <2>1. \E i \in StopsAt(text) : Is(i)
    BY <1>1, StopsAtNat, Least
  <2> HIDE DEF Is
  <2>2. QED
    BY <2>1
<1>2. Cut(text) = IF StopsAt(text) = {} THEN text ELSE SubSeq(text, 1, shorter)
  BY DEF Cut
<1> HIDE DEF shorter
<1>3. QED
  BY <1>1, <1>2

\* What is held back is at least as long as any beginning of the stop string that the text ends in.
LEMMA HoldbackAt ==
  ASSUME NEW text \in Seq(Characters)
  PROVE  /\ Holdback(text) \in 0 .. Len(text)
         /\ \A i \in 0 .. Len(text) : Beginning(text, i) => Len(text) - i <= Holdback(text)
<1> DEFINE s == Len(StopString)
           n == Len(text)
           Fits(k) == k <= n /\ SubSeq(text, n - k + 1, n) = SubSeq(StopString, 1, k)
           fits == {k \in 0 .. s - 1 : Fits(k)}
           Is(k) == \A l \in fits : l <= k
           longest == CHOOSE k \in fits : Is(k)
<1>1. s \in Nat \ {0} /\ StopString \in Seq(Characters) /\ n \in Nat
  BY StopWord
<1>2. Holdback(text) = longest
  BY DEF Holdback
<1>3. 0 \in fits
  <2>1. SubSeq(text, n - 0 + 1, n) = <<>> /\ SubSeq(StopString, 1, 0) = <<>>
    BY <1>1, SubSeqEmpty
  <2>2. QED
    BY <1>1, <2>1
<1>4. fits \in SUBSET (0 .. s - 1) /\ \A k \in fits : k <= n
  OBVIOUS
<1>5. longest \in fits /\ Is(longest)
  <2> DEFINE T == {s - k : k \in fits}
  <2> HIDE DEF fits
  <2>1. T \in SUBSET Nat /\ T # {}
    BY <1>1, <1>3, <1>4
  <2>2. PICK m \in T : \A l \in T : m <= l
    BY <2>1, Least
  <2>3. PICK k \in fits : m = s - k
    BY <2>2
  <2>4. ASSUME NEW l \in fits PROVE l <= k
    <3>1. s - k <= s - l
      BY <2>2, <2>3
    <3>2. QED
      BY <1>1, <1>4, <3>1
  <2>5. Is(k)
    BY <2>4
  <2> HIDE DEF Is
  <2>6. QED
    BY <2>3, <2>5
<1>6. ASSUME NEW i \in 0 .. n, Beginning(text, i) PROVE n - i \in fits
  <2> DEFINE k == n - i
             ending == SubSeq(text, n - k + 1, n)
             piece == SubSeq(StopString, 1, k)
  <2>1. k \in 0 .. s - 1 /\ k <= n /\ n - k = i
    BY <1>1, <1>6 DEF Beginning
  <2>2. ending \in Seq(Characters) /\ Len(ending) = k /\ \A l \in 1 .. k : ending[l] = text[i + l]
    BY <1>1, <2>1
  <2>3. piece \in Seq(Characters) /\ Len(piece) = k /\ \A l \in 1 .. k : piece[l] = StopString[l]
    BY <1>1, <2>1
  <2>4. \A l \in 1 .. k : text[i + l] = StopString[l]
    BY <1>6 DEF Beginning
  <2> HIDE DEF ending, piece, k
  <2>5. ending = piece
    BY <2>2, <2>3, <2>4, SeqEqual
  <2>6. QED
    BY <2>1, <2>5 DEF ending, piece, k
<1> HIDE DEF fits, longest
<1>7. QED
  BY <1>1, <1>2, <1>4, <1>5, <1>6

-----------------------------------------------------------------------------
\* How a text grows.
Extends(text, next) == Len(text) <= Len(next) /\ \A i \in 1 .. Len(text) : next[i] = text[i]

\* Nothing up to there is the beginning of a stop string that the text ends in.
Clear(text, sent) == \A i \in 0 .. sent - 1 : ~Beginning(text, i)

LEMMA ExtendsPrefix ==
  ASSUME NEW text \in Seq(Characters), NEW next \in Seq(Characters), IsPrefix(text, next)
  PROVE  Extends(text, next)
<1> DEFINE n == Len(text)
           a == SubSeq(text, 1, n)
           b == SubSeq(next, 1, n)
<1>1. n \in Nat /\ Len(next) \in Nat /\ n <= Len(next) /\ a = b
  BY DEF IsPrefix
<1>2. \A i \in 1 .. n : a[i] = text[i] /\ b[i] = next[i]
  BY <1>1
<1> HIDE DEF a, b
<1>3. QED
  BY <1>1, <1>2 DEF Extends

LEMMA ExtendsPiece ==
  ASSUME NEW text \in Seq(Characters), NEW piece \in Seq(Characters)
  PROVE  text \o piece \in Seq(Characters) /\ Extends(text, text \o piece)
BY ConcatProperties DEF Extends

\* A stop string that comes with the growth begins where nothing was sent.
LEMMA StopGrows ==
  ASSUME NEW text \in Seq(Characters), NEW next \in Seq(Characters), Extends(text, next), StopsAt(text) = {},
         NEW sent \in Nat, sent <= Len(text), Clear(text, sent), NEW i \in StopsAt(next)
  PROVE  sent <= i
<1> DEFINE s == Len(StopString)
<1>1. s \in Nat \ {0} /\ Len(text) \in Nat /\ Len(next) \in Nat /\ i \in Nat
  BY StopWord, StopsAtNat
<1>2. i + s <= Len(next) /\ \A k \in 1 .. s : next[i + k] = StopString[k]
  BY <1>1, StopAt
<1> SUFFICES ASSUME i < sent PROVE FALSE
  BY <1>1
<1>3. CASE i + s <= Len(text)
  <2>1. \A k \in 1 .. s : text[i + k] = StopString[k]
    BY <1>1, <1>2, <1>3 DEF Extends
  <2>2. i \in StopsAt(text)
    BY <1>1, <1>3, <2>1, StopAt
  <2>3. QED
    BY <2>2
<1>4. CASE Len(text) < i + s
  <2>1. \A k \in 1 .. Len(text) - i : text[i + k] = StopString[k]
    BY <1>1, <1>2, <1>4 DEF Extends
  <2>2. Beginning(text, i)
    BY <1>1, <1>4, <2>1 DEF Beginning
  <2>3. QED
    BY <1>1, <2>2 DEF Clear
<1>5. QED
  BY <1>1, <1>3, <1>4

LEMMA ClearGrows ==
  ASSUME NEW text \in Seq(Characters), NEW next \in Seq(Characters), Extends(text, next),
         NEW sent \in Nat, sent <= Len(text), Clear(text, sent)
  PROVE  Clear(next, sent)
<1> SUFFICES ASSUME NEW i \in 0 .. sent - 1, Beginning(next, i) PROVE FALSE
  BY DEF Clear
<1>1. /\ Len(StopString) \in Nat \ {0} /\ Len(text) \in Nat /\ Len(next) \in Nat /\ i \in Nat /\ i < Len(text)
      /\ Len(text) <= Len(next)
  BY StopWord DEF Extends
<1>2. \A k \in 1 .. Len(text) - i : text[i + k] = StopString[k]
  BY <1>1 DEF Beginning, Extends
<1>3. Len(text) - i < Len(StopString)
  BY <1>1 DEF Beginning
<1>4. QED
  BY <1>2, <1>3 DEF Beginning, Clear

\* What is sent of a text that does not end in a beginning of the stop string there.
LEMMA ClearAfter ==
  ASSUME NEW text \in Seq(Characters), NEW sent \in Nat, sent <= Len(text) - Holdback(text)
  PROVE  Clear(text, sent)
<1>1. Holdback(text) \in 0 .. Len(text) /\ Len(text) \in Nat
  BY HoldbackAt
<1>2. ASSUME NEW i \in 0 .. sent - 1, Beginning(text, i) PROVE FALSE
  <2>1. i \in 0 .. Len(text)
    BY <1>1
  <2>2. Len(text) - i <= Holdback(text)
    BY <1>2, <2>1, HoldbackAt
  <2>3. QED
    BY <1>1, <2>2
<1>3. QED
  BY <1>2 DEF Clear

\* The beginning of a text, and that with what follows it.
LEMMA PieceIs ==
  ASSUME NEW text \in Seq(Characters), NEW n \in 0 .. Len(text)
  PROVE  /\ SubSeq(text, 1, n) \in Seq(Characters) /\ Len(SubSeq(text, 1, n)) = n
         /\ \A i \in 1 .. n : SubSeq(text, 1, n)[i] = text[i]
<1>1. \A i \in 1 .. n : text[i] \in Characters
  OBVIOUS
<1>2. n \in Int /\ n \in Nat /\ 1 \in Int
  OBVIOUS
<1>3. /\ SubSeq(text, 1, n) \in Seq(Characters) /\ Len(SubSeq(text, 1, n)) = IF 1 <= n THEN n - 1 + 1 ELSE 0
      /\ \A i \in 1 .. n - 1 + 1 : SubSeq(text, 1, n)[i] = text[1 + i - 1]
  BY <1>1, <1>2, SubSeqProperties
<1>4. QED
  BY <1>2, <1>3

LEMMA Joined ==
  ASSUME NEW text \in Seq(Characters), NEW upto \in 0 .. Len(text), NEW sent \in 0 .. upto
  PROVE  SubSeq(text, 1, sent) \o SubSeq(text, sent + 1, upto) = SubSeq(text, 1, upto)
<1> DEFINE a == SubSeq(text, 1, sent)
           b == SubSeq(text, sent + 1, upto)
           c == SubSeq(text, 1, upto)
<1>1. Len(text) \in Nat /\ upto \in Nat /\ sent \in Nat /\ sent <= upto /\ upto <= Len(text)
  OBVIOUS
<1>2. a \in Seq(Characters) /\ Len(a) = sent /\ \A i \in 1 .. sent : a[i] = text[i]
  BY <1>1, PieceIs
<1>3. c \in Seq(Characters) /\ Len(c) = upto /\ \A i \in 1 .. upto : c[i] = text[i]
  BY <1>1, PieceIs
<1>4. b \in Seq(Characters) /\ Len(b) = upto - sent /\ \A i \in 1 .. upto - sent : b[i] = text[sent + i]
  <2>1. \A i \in sent + 1 .. upto : text[i] \in Characters
    BY <1>1
  <2>2. sent + 1 \in Int /\ upto \in Int
    BY <1>1
  <2>3. /\ b \in Seq(Characters) /\ Len(b) = IF sent + 1 <= upto THEN upto - (sent + 1) + 1 ELSE 0
        /\ \A i \in 1 .. upto - (sent + 1) + 1 : b[i] = text[sent + 1 + i - 1]
    BY <2>1, <2>2, SubSeqProperties
  <2> HIDE DEF b
  <2>4. QED
    BY <1>1, <2>3
<1> HIDE DEF a, b, c
<1>5. /\ a \o b \in Seq(Characters) /\ Len(a \o b) = upto
      /\ \A i \in 1 .. upto : (a \o b)[i] = IF i <= sent THEN a[i] ELSE b[i - sent]
  BY <1>1, <1>2, <1>4, ConcatProperties
<1>6. ASSUME NEW i \in 1 .. upto PROVE (a \o b)[i] = c[i]
  <2>1. CASE i <= sent
    BY <1>1, <1>2, <1>3, <1>5, <2>1
  <2>2. CASE ~(i <= sent)
    <3>1. i - sent \in 1 .. upto - sent /\ sent + (i - sent) = i
      BY <1>1, <2>2
    <3>2. QED
      BY <1>3, <1>4, <1>5, <2>2, <3>1
  <2>3. QED
    BY <2>1, <2>2
<1>7. a \o b = c
  BY <1>3, <1>5, <1>6, SeqEqual
<1>8. QED
  BY <1>7 DEF a, b, c

LEMMA WholePiece == ASSUME NEW text \in Seq(Characters) PROVE SubSeq(text, 1, Len(text)) = text
<1>1. Len(text) \in 0 .. Len(text)
  OBVIOUS
<1> DEFINE piece == SubSeq(text, 1, Len(text))
<1>2. piece \in Seq(Characters) /\ Len(piece) = Len(text) /\ \A i \in 1 .. Len(text) : piece[i] = text[i]
  BY <1>1, PieceIs
<1> HIDE DEF piece
<1>3. piece = text
  BY <1>2, SeqEqual
<1>4. QED
  BY <1>3 DEF piece

LEMMA PiecePrefix ==
  ASSUME NEW text \in Seq(Characters), NEW n \in 0 .. Len(text)
  PROVE  IsPrefix(SubSeq(text, 1, n), text)
<1> DEFINE piece == SubSeq(text, 1, n)
<1>1. piece \in Seq(Characters) /\ Len(piece) = n /\ n <= Len(text)
  BY PieceIs
<1>2. SubSeq(piece, 1, Len(piece)) = piece /\ piece = SubSeq(text, 1, Len(piece))
  <2>1. piece = SubSeq(text, 1, Len(piece))
    BY <1>1
  <2> HIDE DEF piece
  <2>2. QED
    BY <1>1, <2>1, WholePiece
<1> HIDE DEF piece
<1>3. IsPrefix(piece, text)
  BY <1>1, <1>2 DEF IsPrefix
<1>4. QED
  BY <1>3 DEF piece

LEMMA DecodedType ==
  ASSUME NEW text \in Seq(Characters), NEW full \in Decoded(text)
  PROVE  full \in Seq(Characters)
<1>1. PICK k \in {k \in 0 .. Reach : k <= Len(text)}, piece \in Pieces : full = SubSeq(text, 1, Len(text) - k) \o piece
  BY DEF Decoded
<1>2. Len(text) - k \in 0 .. Len(text) /\ piece \in Seq(Characters)
  BY BatchingAssumption
<1>3. SubSeq(text, 1, Len(text) - k) \in Seq(Characters)
  BY <1>2, PieceIs
<1>4. QED
  BY <1>1, <1>2, <1>3, ConcatProperties

-----------------------------------------------------------------------------
\* Each request, between the tokens.
Request == [at : {"new", "queued", "solo", "batch", "finished"}, text : Seq(Characters), room : Nat,
            emitted : Seq(Characters), sent : Nat, got : Seq(Characters),
            end : {"open", "stop", "length", "error", "shut"}, revised : BOOLEAN]

\* While it is under way: its text has no stop string yet, what is sent is a part of it, and nothing
\* is sent that could be the beginning of one.
Sending(r) ==
    /\ r.end = "open" /\ r.emitted = r.text /\ StopsAt(r.text) = {}
    /\ r.sent <= Len(r.text) /\ r.got = SubSeq(r.text, 1, r.sent) /\ Clear(r.text, r.sent)
\* What its consumer has.
Told(r) == IsPrefix(r.got, Cut(r.text)) /\ (r.end \in {"stop", "length"} => r.got = Cut(r.text))

Exact(r, m) ==
    /\ r \in Request /\ r.room <= m
    /\ r.at # "finished" => r.room > 0 /\ (r.revised \/ Sending(r))
    /\ r.revised \/ Told(r)

BatchingInv ==
    /\ worker \in {"off", "running", "crashed", "stopped"} /\ running \in BOOLEAN
    /\ admitted \in Seq(Jobs)
    /\ \A j \in ToSet(admitted) : job[j].at = "queued"
    /\ job \in [Jobs -> Request]
    /\ \A j \in Jobs : Exact(job[j], MaxTokens[j])

LEMMA SendingTold == ASSUME NEW r \in Request, Sending(r) PROVE Told(r)
<1>1. r.text \in Seq(Characters) /\ r.sent \in Nat
  BY DEF Request
<1>2. r.sent \in 0 .. Len(r.text)
  BY <1>1 DEF Sending
<1>3. Cut(r.text) = r.text
  BY <1>1, CutAt DEF Sending
<1>4. IsPrefix(r.got, r.text)
  BY <1>1, <1>2, PiecePrefix DEF Sending
<1>5. r.end = "open"
  BY DEF Sending
<1>6. QED
  BY <1>3, <1>4, <1>5 DEF Told

\* The text up to its stop string.
LEMMA CutType == ASSUME NEW text \in Seq(Characters) PROVE Cut(text) \in Seq(Characters) /\ Len(Cut(text)) <= Len(text)
<1>1. CASE StopsAt(text) = {}
  BY <1>1, CutAt
<1>2. CASE StopsAt(text) # {}
  <2>1. PICK i \in StopsAt(text) : Cut(text) = SubSeq(text, 1, i)
    BY <1>2, CutAt
  <2>2. i \in Nat /\ i <= Len(text)
    BY StopsAtNat, StopAt, StopWord
  <2>3. i \in 0 .. Len(text)
    BY <2>2
  <2>4. QED
    BY <2>1, <2>3, PieceIs
<1>3. QED
  BY <1>1, <1>2

\* What is flushed at the end is text.
LEMMA TailType ==
  ASSUME NEW text \in Seq(Characters), NEW sent \in Nat, NEW upto \in Nat, upto <= Len(text)
  PROVE  SubSeq(text, sent + 1, upto) \in Seq(Characters)
<1>1. \A i \in sent + 1 .. upto : text[i] \in Characters
  OBVIOUS
<1>2. sent + 1 \in Int /\ upto \in Int
  OBVIOUS
<1>3. QED
  BY <1>1, <1>2, SubSeqProperties

LEMMA FinishedIs ==
  ASSUME NEW r \in Request, NEW reason \in {"stop", "length"}
  PROVE  LET q == Finished(r, reason)
         IN  /\ q \in Request /\ q.at = "finished" /\ q.end = reason /\ q.text = r.text /\ q.room = r.room
             /\ q.revised = r.revised /\ q.got = r.got \o SubSeq(r.emitted, r.sent + 1, Len(r.emitted))
<1> DEFINE q == Finished(r, reason)
           s == r.got \o SubSeq(r.emitted, r.sent + 1, Len(r.emitted))
<1>1. r.got \in Seq(Characters) /\ r.emitted \in Seq(Characters) /\ r.sent \in Nat
  BY DEF Request
<1>2. Len(r.emitted) \in Nat /\ Len(r.emitted) <= Len(r.emitted)
  BY <1>1
<1>3. s \in Seq(Characters)
  <2>1. SubSeq(r.emitted, r.sent + 1, Len(r.emitted)) \in Seq(Characters)
    BY <1>1, <1>2, TailType
  <2>2. QED
    BY <1>1, <2>1, ConcatProperties
<1> HIDE DEF s
<1>4. q = [r EXCEPT !.at = "finished", !.end = reason, !.sent = Len(r.emitted), !.got = s]
  BY DEF Finished, s, Request
<1> HIDE DEF q
<1>5. q \in Request /\ q.at = "finished" /\ q.end = reason /\ q.text = r.text /\ q.room = r.room /\ q.revised = r.revised
      /\ q.got = s
  BY <1>2, <1>3, <1>4 DEF Request
<1>6. QED
  BY <1>5 DEF q, s

\* The end of a stream sends what was held back.
LEMMA FinishedTold ==
  ASSUME NEW r \in Request, NEW reason \in {"stop", "length"}, r.emitted = Cut(r.text), r.sent <= Len(r.emitted),
         r.got = SubSeq(r.emitted, 1, r.sent)
  PROVE  Told(Finished(r, reason))
<1> DEFINE q == Finished(r, reason)
<1>1. r.text \in Seq(Characters) /\ r.emitted \in Seq(Characters) /\ r.sent \in Nat
  BY DEF Request
<1>2. /\ Len(r.emitted) \in 0 .. Len(r.emitted) /\ r.sent \in 0 .. Len(r.emitted)
  BY <1>1
<1>3. q.text = r.text /\ q.got = r.got \o SubSeq(r.emitted, r.sent + 1, Len(r.emitted))
  BY FinishedIs
<1> HIDE DEF q
<1>4. q.got = r.emitted
  BY <1>1, <1>2, <1>3, Joined, WholePiece
<1>5. IsPrefix(r.emitted, r.emitted)
  BY <1>1, <1>2, PiecePrefix, WholePiece
<1>6. Told(q)
  BY <1>3, <1>4, <1>5 DEF Told
<1>7. QED
  BY <1>6 DEF q

\* _stream_progress, whatever was decoded.
LEMMA ProgressIs ==
  ASSUME NEW r \in Request
  PROVE  LET q == Progress(r)
         IN  q \in Request /\ q.at \in {r.at, "finished"} /\ q.room = r.room /\ q.revised = r.revised /\ q.text = r.text
<1> DEFINE q == Progress(r)
           E == r.emitted
<1>1. r.got \in Seq(Characters) /\ E \in Seq(Characters) /\ r.sent \in Nat /\ Len(E) \in Nat
  BY DEF Request
<1>2. CASE StopsAt(E) # {}
  <2> DEFINE r1 == [r EXCEPT !.emitted = Cut(E)]
  <2>1. q = Finished(r1, "stop")
    BY <1>2 DEF Progress
  <2>2. r1 \in Request /\ r1.room = r.room /\ r1.revised = r.revised /\ r1.text = r.text
    BY <1>1, CutType DEF Request
  <2> HIDE DEF r1, q
  <2>3. q \in Request /\ q.at = "finished" /\ q.room = r.room /\ q.revised = r.revised /\ q.text = r.text
    BY <2>1, <2>2, FinishedIs
  <2>4. QED
    BY <2>3 DEF q
<1>3. CASE StopsAt(E) = {}
  <2> DEFINE upto == Len(E) - Holdback(E)
             s == r.got \o SubSeq(E, r.sent + 1, upto)
  <2>1. upto \in Nat /\ upto <= Len(E)
    BY <1>1, HoldbackAt
  <2>2. q = IF upto > r.sent THEN [r EXCEPT !.sent = upto, !.got = s] ELSE r
    BY <1>3 DEF Progress, Request
  <2> HIDE DEF upto
  <2>3. s \in Seq(Characters)
    <3>1. SubSeq(E, r.sent + 1, upto) \in Seq(Characters)
      BY <1>1, <2>1, TailType
    <3>2. QED
      BY <1>1, <3>1, ConcatProperties
  <2> HIDE DEF s, q
  <2>4. q \in Request /\ q.at = r.at /\ q.room = r.room /\ q.revised = r.revised /\ q.text = r.text
    BY <2>1, <2>2, <2>3 DEF Request
  <2>5. QED
    BY <2>4 DEF q
<1>4. QED
  BY <1>2, <1>3

\* _stream_progress of a text whose stop string, if it has one, is still to be sent.
LEMMA ProgressExact ==
  ASSUME NEW r \in Request, r.end = "open", r.at # "finished", r.emitted = r.text,
         r.sent <= Len(r.text), r.got = SubSeq(r.text, 1, r.sent), Clear(r.text, r.sent),
         \A i \in StopsAt(r.text) : r.sent <= i
  PROVE  LET q == Progress(r) IN Told(q) /\ (q.at # "finished" => Sending(q))
<1> DEFINE q == Progress(r)
           text == r.text
<1>1. text \in Seq(Characters) /\ r.sent \in Nat /\ Len(text) \in Nat /\ r.got \in Seq(Characters)
  BY DEF Request
<1>2. CASE StopsAt(text) # {}
  <2> DEFINE shorter == Cut(text)
             r1 == [r EXCEPT !.emitted = shorter]
  <2>1. q = Finished(r1, "stop")
    BY <1>2 DEF Progress
  <2>2. PICK i \in StopsAt(text) : shorter = SubSeq(text, 1, i)
    BY <1>1, <1>2, CutAt
  <2>3. i \in Nat /\ i <= Len(text) /\ r.sent <= i
    BY <1>1, StopsAtNat, StopAt, StopWord
  <2>4. shorter \in Seq(Characters) /\ Len(shorter) = i /\ \A k \in 1 .. i : shorter[k] = text[k]
    <3>1. i \in 0 .. Len(text)
      BY <1>1, <2>3
    <3>2. QED
      BY <1>1, <2>2, <3>1, PieceIs
  <2>5. SubSeq(shorter, 1, r.sent) = SubSeq(text, 1, r.sent)
    <3> DEFINE a == SubSeq(shorter, 1, r.sent)
               b == SubSeq(text, 1, r.sent)
    <3>1. r.sent \in 0 .. Len(shorter) /\ r.sent \in 0 .. Len(text)
      BY <1>1, <2>3, <2>4
    <3> HIDE DEF shorter
    <3>2. a \in Seq(Characters) /\ Len(a) = r.sent /\ \A k \in 1 .. r.sent : a[k] = shorter[k]
      BY <2>4, <3>1, PieceIs
    <3>3. b \in Seq(Characters) /\ Len(b) = r.sent /\ \A k \in 1 .. r.sent : b[k] = text[k]
      BY <1>1, <3>1, PieceIs
    <3>4. \A k \in 1 .. r.sent : k \in 1 .. i
      BY <1>1, <2>3
    <3> HIDE DEF a, b
    <3>5. \A k \in 1 .. Len(a) : a[k] = b[k]
      BY <2>4, <3>2, <3>3, <3>4
    <3>6. a = b
      BY <3>2, <3>3, <3>5, SeqEqual
    <3>7. QED
      BY <3>6 DEF a, b
  <2> HIDE DEF shorter
  <2>6. /\ r1 \in Request /\ r1.sent = r.sent /\ r1.got = r.got /\ r1.emitted = shorter /\ r1.text = text
        /\ r.sent <= Len(shorter)
    BY <2>3, <2>4 DEF Request
  <2> HIDE DEF r1, q
  <2>7. r1.emitted = Cut(r1.text) /\ r1.sent <= Len(r1.emitted) /\ r1.got = SubSeq(r1.emitted, 1, r1.sent)
    BY <2>5, <2>6 DEF shorter
  <2>8. Told(q) /\ q.at = "finished"
    BY <2>1, <2>6, <2>7, FinishedTold, FinishedIs
  <2>9. QED
    BY <2>8 DEF q
<1>3. CASE StopsAt(text) = {}
  <2> DEFINE upto == Len(text) - Holdback(text)
  <2>1. upto \in Nat /\ upto <= Len(text)
    BY <1>1, HoldbackAt
  <2>2. Clear(text, upto)
    BY <1>1, <2>1, ClearAfter
  <2>3. q = IF upto > r.sent THEN [r EXCEPT !.sent = upto, !.got = r.got \o SubSeq(text, r.sent + 1, upto)] ELSE r
    BY <1>3 DEF Progress, Request
  <2> HIDE DEF q, upto
  <2>4. q \in Request
    BY ProgressIs DEF q
  <2>5. Sending(q)
    <3>1. CASE ~(upto > r.sent)
      BY <1>3, <2>3, <3>1 DEF Sending
    <3>2. CASE upto > r.sent
      <4> DEFINE s == r.got \o SubSeq(text, r.sent + 1, upto)
      <4>1. q = [r EXCEPT !.sent = upto, !.got = s]
        BY <2>3, <3>2
      <4>2. upto \in 0 .. Len(text) /\ r.sent \in 0 .. upto
        BY <1>1, <2>1, <3>2
      <4>3. s = SubSeq(text, 1, upto)
        BY <1>1, <4>2, Joined
      <4> HIDE DEF s
      <4>4. /\ q.sent = upto /\ q.got = s /\ q.text = text /\ q.emitted = r.emitted /\ q.end = "open"
        BY <4>1 DEF Request
      <4>5. QED
        BY <1>3, <2>1, <2>2, <4>3, <4>4 DEF Sending
    <3>3. QED
      BY <3>1, <3>2
  <2>6. Told(q)
    BY <2>4, <2>5, SendingTold
  <2>7. QED
    BY <2>5, <2>6 DEF q
<1>4. QED
  BY <1>2, <1>3

\* _stream_progress of a text that has grown.
LEMMA GrowthExact ==
  ASSUME NEW r \in Request, Sending(r), r.at # "finished", NEW next \in Seq(Characters), Extends(r.text, next),
         NEW q \in Request, q.at = r.at, q.end = r.end, q.sent = r.sent, q.got = r.got, q.text = next, q.emitted = next
  PROVE  Told(Progress(q)) /\ (Progress(q).at # "finished" => Sending(Progress(q)))
<1>1. r.text \in Seq(Characters) /\ r.sent \in Nat /\ Len(r.text) \in Nat /\ Len(next) \in Nat
  BY DEF Request
<1>2. /\ r.end = "open" /\ StopsAt(r.text) = {} /\ r.sent <= Len(r.text) /\ r.got = SubSeq(r.text, 1, r.sent)
      /\ Clear(r.text, r.sent)
  BY DEF Sending
<1>3. Clear(next, r.sent) /\ \A i \in StopsAt(next) : r.sent <= i
  BY <1>1, <1>2, ClearGrows, StopGrows
<1>4. r.sent <= Len(next)
  BY <1>1, <1>2 DEF Extends
<1>5. SubSeq(next, 1, r.sent) = SubSeq(r.text, 1, r.sent)
  <2> DEFINE a == SubSeq(next, 1, r.sent)
             b == SubSeq(r.text, 1, r.sent)
  <2>1. r.sent \in 0 .. Len(next) /\ r.sent \in 0 .. Len(r.text)
    BY <1>1, <1>2, <1>4
  <2>2. a \in Seq(Characters) /\ Len(a) = r.sent /\ \A k \in 1 .. r.sent : a[k] = next[k]
    BY <2>1, PieceIs
  <2>3. b \in Seq(Characters) /\ Len(b) = r.sent /\ \A k \in 1 .. r.sent : b[k] = r.text[k]
    BY <1>1, <2>1, PieceIs
  <2>4. \A k \in 1 .. r.sent : next[k] = r.text[k]
    BY <1>1, <1>2 DEF Extends
  <2> HIDE DEF a, b
  <2>5. a = b
    BY <2>2, <2>3, <2>4, SeqEqual
  <2>6. QED
    BY <2>5 DEF a, b
<1>6. /\ q.end = "open" /\ q.at # "finished" /\ q.emitted = q.text /\ q.sent <= Len(q.text)
      /\ q.got = SubSeq(q.text, 1, q.sent) /\ Clear(q.text, q.sent) /\ \A i \in StopsAt(q.text) : q.sent <= i
  BY <1>2, <1>3, <1>4, <1>5
<1>7. QED
  BY <1>6, ProgressExact

\* Another text decoded for a request.
LEMMA ReviseSays ==
  ASSUME NEW r \in Request, NEW full \in Seq(Characters), ~Revises(r, full)
  PROVE  ~r.revised /\ Extends(r.text, full)
<1>1. r.text \in Seq(Characters) /\ ~r.revised /\ IsPrefix(r.text, full)
  BY DEF Revises, Request
<1>2. QED
  BY <1>1, ExtendsPrefix

LEMMA RevisesType == ASSUME NEW r \in Request, NEW full PROVE Revises(r, full) \in BOOLEAN
BY DEF Revises

\* The last token a request has room for finishes it.
LEMMA ClosedExact ==
  ASSUME NEW m \in Nat, NEW r \in Request, r.room <= m,
         r.revised \/ (Told(r) /\ (r.at # "finished" => Sending(r)))
  PROVE  Exact(Closed(r), m) /\ Closed(r).at \in {r.at, "finished"}
<1>1. r.room \in Nat /\ r.text \in Seq(Characters)
  BY DEF Request
<1>2. CASE r.at # "finished" /\ r.room = 0
  <2> DEFINE q == Finished(r, "length")
  <2>1. Closed(r) = q
    BY <1>2 DEF Closed
  <2>2. q \in Request /\ q.at = "finished" /\ q.room = r.room /\ q.revised = r.revised
    BY FinishedIs
  <2>3. r.revised \/ Told(q)
    <3>1. SUFFICES ASSUME ~r.revised PROVE Told(q)
      OBVIOUS
    <3>2. StopsAt(r.text) = {} /\ r.emitted = r.text /\ r.sent <= Len(r.text) /\ r.got = SubSeq(r.text, 1, r.sent)
      BY <1>2, <3>1 DEF Sending
    <3>3. r.emitted = Cut(r.text)
      BY <1>1, <3>2, CutAt
    <3>4. QED
      BY <3>2, <3>3, FinishedTold
  <2> HIDE DEF q
  <2>4. Exact(q, m) /\ q.at = "finished"
    BY <2>2, <2>3 DEF Exact
  <2>5. QED
    BY <2>1, <2>4
<1>3. CASE ~(r.at # "finished" /\ r.room = 0)
  <2>1. Closed(r) = r
    BY <1>3 DEF Closed
  <2>2. r.at # "finished" => r.room > 0
    BY <1>1, <1>3
  <2>3. Exact(r, m)
    BY <2>2 DEF Exact
  <2>4. QED
    BY <2>1, <2>3
<1>4. QED
  BY <1>2, <1>3

\* _handle_token.
LEMMA GrownExact ==
  ASSUME NEW m \in Nat, NEW r, Exact(r, m), r.at # "finished", NEW full \in Seq(Characters)
  PROVE  Exact(Closed(Grown(r, full)), m)
<1> DEFINE next == [r EXCEPT !.text = full, !.room = r.room - 1, !.revised = Revises(r, full)]
           e == [next EXCEPT !.emitted = full]
           p == Progress(e)
           g == Grown(r, full)
<1>1. /\ r \in Request /\ r.room \in Nat /\ r.room <= m /\ r.room > 0 /\ (r.revised \/ Sending(r))
      /\ r.emitted \in Seq(Characters) /\ r.text \in Seq(Characters)
  BY DEF Exact, Request
<1>2. Revises(r, full) \in BOOLEAN /\ r.room - 1 \in Nat /\ r.room - 1 <= m
  BY <1>1, RevisesType
<1>3. /\ next \in Request /\ next.at = r.at /\ next.end = r.end /\ next.sent = r.sent /\ next.got = r.got
      /\ next.text = full /\ next.emitted = r.emitted /\ next.room = r.room - 1 /\ next.revised = Revises(r, full)
  BY <1>1, <1>2 DEF Request
<1>4. g = IF Len(full) > Len(r.emitted) THEN p ELSE next
  BY <1>1 DEF Grown, Request
<1> HIDE DEF next
<1>5. /\ e \in Request /\ e.at = r.at /\ e.end = r.end /\ e.sent = r.sent /\ e.got = r.got
      /\ e.text = full /\ e.emitted = full /\ e.room = r.room - 1 /\ e.revised = Revises(r, full)
  BY <1>3 DEF Request
<1> HIDE DEF e
<1>6. p \in Request /\ p.at \in {r.at, "finished"} /\ p.room = r.room - 1 /\ p.revised = Revises(r, full)
  BY <1>5, ProgressIs
<1>7. ASSUME ~Revises(r, full) PROVE /\ Told(p) /\ (p.at # "finished" => Sending(p))
                                     /\ ~(Len(full) > Len(r.emitted)) => Told(next) /\ Sending(next)
  <2>1. ~r.revised /\ Extends(r.text, full)
    BY <1>1, <1>7, ReviseSays
  <2>2. Sending(r)
    BY <1>1, <2>1
  <2>3. Told(p) /\ (p.at # "finished" => Sending(p))
    BY <1>1, <1>5, <2>1, <2>2, GrowthExact
  <2>4. ASSUME ~(Len(full) > Len(r.emitted)) PROVE Told(next) /\ Sending(next)
    <3>1. r.emitted = r.text
      BY <2>2 DEF Sending
    <3>2. Len(full) = Len(r.text) /\ \A i \in 1 .. Len(r.text) : r.text[i] = full[i]
      BY <1>1, <2>1, <2>4, <3>1 DEF Extends
    <3>3. full = r.text
      BY <1>1, <3>2, SeqEqual
    <3>4. Sending(next)
      BY <1>3, <2>2, <3>1, <3>3 DEF Sending
    <3>5. QED
      BY <1>3, <3>4, SendingTold
  <2>5. QED
    BY <2>3, <2>4
<1> HIDE DEF p, g
<1>8. g \in Request /\ g.room <= m /\ g.revised = Revises(r, full)
  BY <1>2, <1>3, <1>4, <1>6
<1>9. g.revised \/ (Told(g) /\ (g.at # "finished" => Sending(g)))
  BY <1>4, <1>7, <1>8
<1>10. QED
  BY <1>8, <1>9, ClosedExact DEF g

\* _run_solo: what its decoder adds.
LEMMA StreamedExact ==
  ASSUME NEW m \in Nat, NEW r \in Request, r.room <= m, r.at # "finished", r.revised \/ Sending(r),
         NEW piece \in Seq(Characters)
  PROVE  LET q == Streamed(r, piece)
         IN  /\ q \in Request /\ q.room <= m /\ q.at \in {r.at, "finished"}
             /\ q.revised \/ (Told(q) /\ (q.at # "finished" => Sending(q)))
<1> DEFINE next == r.text \o piece
           e == [r EXCEPT !.text = next, !.emitted = r.emitted \o piece]
           q == Streamed(r, piece)
<1>1. r.text \in Seq(Characters) /\ r.emitted \in Seq(Characters) /\ r.room \in Nat
  BY DEF Request
<1>2. next \in Seq(Characters) /\ Extends(r.text, next) /\ r.emitted \o piece \in Seq(Characters)
  BY <1>1, ExtendsPiece
<1>3. q = Progress(e)
  BY DEF Streamed, Request
<1> HIDE DEF next, q
<1>4. /\ e \in Request /\ e.at = r.at /\ e.end = r.end /\ e.sent = r.sent /\ e.got = r.got
      /\ e.text = next /\ e.emitted = r.emitted \o piece /\ e.room = r.room /\ e.revised = r.revised
  BY <1>2 DEF Request
<1> HIDE DEF e
<1>5. q \in Request /\ q.at \in {r.at, "finished"} /\ q.room = r.room /\ q.revised = r.revised
  BY <1>3, <1>4, ProgressIs
<1>6. ASSUME ~r.revised PROVE Told(q) /\ (q.at # "finished" => Sending(q))
  <2>1. Sending(r) /\ e.emitted = next
    BY <1>4, <1>6 DEF Sending, next
  <2>2. QED
    BY <1>2, <1>3, <1>4, <2>1, GrowthExact
<1>7. QED
  BY <1>5, <1>6 DEF q

\* From decoding alone into the batch, or to the error of its insertion.
LEMMA FoldedExact ==
  ASSUME NEW m \in Nat, NEW r, Exact(r, m), r.at = "solo", NEW full \in Seq(Characters)
  PROVE  LET q == Folded(r, full)
         IN  Exact(q, m) /\ q.at = "solo"
<1> DEFINE sent == IF r.sent > Len(full) THEN Len(full) ELSE r.sent
           revised == Revises(r, full) \/ StopsAt(full) # {}
           q == Folded(r, full)
<1>1. /\ r \in Request /\ r.room \in Nat /\ r.room <= m /\ r.room > 0 /\ (r.revised \/ Sending(r))
      /\ r.sent \in Nat /\ r.text \in Seq(Characters) /\ Len(r.text) \in Nat /\ Len(full) \in Nat
  BY DEF Exact, Request
<1>2. sent \in Nat /\ revised \in BOOLEAN
  BY <1>1, RevisesType
<1>3. q = [r EXCEPT !.text = full, !.emitted = full, !.sent = sent, !.revised = revised]
  BY <1>1 DEF Folded, Request
<1> HIDE DEF q, sent, revised
<1>4. /\ q \in Request /\ q.at = "solo" /\ q.end = r.end /\ q.text = full /\ q.emitted = full /\ q.sent = sent
      /\ q.got = r.got /\ q.room = r.room /\ q.revised = revised
  BY <1>1, <1>2, <1>3 DEF Request
<1>5. ASSUME ~revised PROVE Sending(q)
  <2>1. ~Revises(r, full) /\ StopsAt(full) = {}
    BY <1>5 DEF revised
  <2>2. ~r.revised /\ Extends(r.text, full)
    BY <1>1, <2>1, ReviseSays
  <2>3. /\ r.end = "open" /\ r.sent <= Len(r.text) /\ r.got = SubSeq(r.text, 1, r.sent) /\ Clear(r.text, r.sent)
    BY <1>1, <2>2 DEF Sending
  <2>4. Clear(full, r.sent)
    BY <1>1, <2>2, <2>3, ClearGrows
  <2>5. r.sent <= Len(full) /\ sent = r.sent
    BY <1>1, <2>2, <2>3 DEF Extends, sent
  <2>6. SubSeq(full, 1, r.sent) = SubSeq(r.text, 1, r.sent)
    <3> DEFINE a == SubSeq(full, 1, r.sent)
               b == SubSeq(r.text, 1, r.sent)
    <3>1. r.sent \in 0 .. Len(full) /\ r.sent \in 0 .. Len(r.text)
      BY <1>1, <2>3, <2>5
    <3>2. a \in Seq(Characters) /\ Len(a) = r.sent /\ \A k \in 1 .. r.sent : a[k] = full[k]
      BY <3>1, PieceIs
    <3>3. b \in Seq(Characters) /\ Len(b) = r.sent /\ \A k \in 1 .. r.sent : b[k] = r.text[k]
      BY <1>1, <3>1, PieceIs
    <3>4. \A k \in 1 .. r.sent : full[k] = r.text[k]
      BY <1>1, <2>2, <2>3 DEF Extends
    <3> HIDE DEF a, b
    <3>5. a = b
      BY <3>2, <3>3, <3>4, SeqEqual
    <3>6. QED
      BY <3>5 DEF a, b
  <2>7. QED
    BY <1>4, <2>1, <2>3, <2>4, <2>5, <2>6 DEF Sending
<1>6. revised \/ Told(q)
  BY <1>4, <1>5, SendingTold
<1>7. Exact(q, m)
  BY <1>1, <1>4, <1>5, <1>6 DEF Exact
<1>8. QED
  BY <1>4, <1>7 DEF q

\* The model ends the text of a request.
LEMMA EndedExact ==
  ASSUME NEW m \in Nat, NEW r \in Request, r.room <= m, r.revised \/ (Told(r) /\ (r.at # "finished" => Sending(r)))
  PROVE  Exact(IF r.at = "finished" THEN r ELSE Finished(r, "stop"), m)
<1>1. r.text \in Seq(Characters)
  BY DEF Request
<1>2. CASE r.at = "finished"
  <2>1. Exact(r, m)
    BY <1>2 DEF Exact
  <2>2. QED
    BY <1>2, <2>1
<1>3. CASE r.at # "finished"
  <2> DEFINE q == Finished(r, "stop")
  <2>1. q \in Request /\ q.at = "finished" /\ q.room = r.room /\ q.revised = r.revised
    BY FinishedIs
  <2>2. r.revised \/ Told(q)
    <3>1. SUFFICES ASSUME ~r.revised PROVE Told(q)
      OBVIOUS
    <3>2. StopsAt(r.text) = {} /\ r.emitted = r.text /\ r.sent <= Len(r.text) /\ r.got = SubSeq(r.text, 1, r.sent)
      BY <1>3, <3>1 DEF Sending
    <3>3. r.emitted = Cut(r.text)
      BY <1>1, <3>2, CutAt
    <3>4. QED
      BY <3>2, <3>3, FinishedTold
  <2> HIDE DEF q
  <2>3. Exact(q, m)
    BY <2>1, <2>2 DEF Exact
  <2>4. QED
    BY <1>3, <2>3 DEF q
<1>4. QED
  BY <1>2, <1>3

\* A request breaks off.
LEMMA BrokenExact ==
  ASSUME NEW m \in Nat, NEW r, Exact(r, m), r.at # "finished", NEW how \in {"error", "shut"}
  PROVE  Exact([r EXCEPT !.at = "finished", !.end = how], m)
<1> DEFINE q == [r EXCEPT !.at = "finished", !.end = how]
<1>1. r \in Request /\ r.room <= m /\ (r.revised \/ Told(r))
  BY DEF Exact
<1>2. /\ q \in Request /\ q.at = "finished" /\ q.text = r.text /\ q.room = r.room
      /\ q.got = r.got /\ q.end = how /\ q.revised = r.revised
  BY <1>1 DEF Request
<1> HIDE DEF q
<1>3. Told(r) => Told(q)
  BY <1>2 DEF Told
<1>4. Exact(q, m)
  BY <1>1, <1>2, <1>3 DEF Exact
<1>5. QED
  BY <1>4 DEF q

\* A request comes to another place.
LEMMA PlacedExact ==
  ASSUME NEW m \in Nat, NEW r, Exact(r, m), r.at # "finished", NEW place \in {"queued", "solo", "batch"}
  PROVE  Exact([r EXCEPT !.at = place], m)
<1> DEFINE q == [r EXCEPT !.at = place]
<1>1. r \in Request /\ r.room <= m /\ r.room > 0 /\ (r.revised \/ Sending(r)) /\ (r.revised \/ Told(r))
  BY DEF Exact
<1>2. /\ q \in Request /\ q.at = place /\ q.text = r.text /\ q.room = r.room /\ q.sent = r.sent
      /\ q.emitted = r.emitted /\ q.got = r.got /\ q.end = r.end /\ q.revised = r.revised
  BY <1>1 DEF Request
<1> HIDE DEF q
<1>3. (Sending(r) => Sending(q)) /\ (Told(r) => Told(q))
  BY <1>2 DEF Sending, Told
<1>4. Exact(q, m)
  BY <1>1, <1>2, <1>3 DEF Exact
<1>5. QED
  BY <1>4 DEF q

-----------------------------------------------------------------------------
LEMMA RoomNat == ASSUME NEW j \in Jobs PROVE MaxTokens[j] \in Nat \ {0} /\ MaxTokens[j] \in Nat
BY BatchingAssumption

LEMMA FreshExact ==
  ASSUME NEW j \in Jobs
  PROVE  Fresh(j) \in Request /\ Exact(Fresh(j), MaxTokens[j])
<1> DEFINE r == Fresh(j)
<1>1. <<>> \in Seq(Characters) /\ Len(<<>>) = 0 /\ Len(<<>>) \in 0 .. Len(<<>>)
  OBVIOUS
<1>2. r \in Request
  BY <1>1, RoomNat DEF Fresh, Request
<1>3. /\ r.at = "new" /\ r.end = "open" /\ r.text = <<>> /\ r.emitted = <<>> /\ r.got = <<>> /\ r.sent = 0
      /\ r.room = MaxTokens[j]
  BY DEF Fresh
<1>4. StopsAt(<<>>) = {}
  BY <1>1, StopWord DEF StopsAt
<1>5. SubSeq(<<>>, 1, 0) = <<>>
  BY SubSeqEmpty
<1> HIDE DEF r
<1>6. Sending(r)
  BY <1>1, <1>3, <1>4, <1>5 DEF Sending, Clear
<1>7. Exact(r, MaxTokens[j])
  BY <1>2, <1>3, <1>6, RoomNat, SendingTold DEF Exact
<1>8. QED
  BY <1>2, <1>7 DEF r

LEMMA BtInitInv == BtInit => BatchingInv
<1> SUFFICES ASSUME BtInit PROVE BatchingInv
  OBVIOUS
<1>1. worker = "running" /\ running = TRUE /\ admitted = <<>> /\ job = [j \in Jobs |-> Fresh(j)]
  BY DEF BtInit, BtStarted
<1>2. admitted \in Seq(Jobs) /\ ToSet(admitted) = {}
  BY <1>1 DEF ToSet
<1>3. job \in [Jobs -> Request] /\ \A j \in Jobs : Exact(job[j], MaxTokens[j])
  BY <1>1, FreshExact
<1>4. QED
  BY <1>1, <1>2, <1>3 DEF BatchingInv

LEMMA WaitsQueued ==
  ASSUME BatchingInv, NEW j \in ToSet(admitted)
  PROVE  j \in Jobs /\ job[j].at = "queued"
BY DEF BatchingInv, ToSet

\* A step that changes one request that does not wait.
LEMMA OneExact ==
  ASSUME BatchingInv, NEW j \in Jobs, job[j].at # "queued", NEW r, Exact(r, MaxTokens[j]),
         job' = [job EXCEPT ![j] = r], UNCHANGED <<worker, running, admitted>>
  PROVE  BatchingInv'
<1>1. r \in Request
  BY DEF Exact
<1>2. job' \in [Jobs -> Request] /\ job'[j] = r /\ \A k \in Jobs \ {j} : job'[k] = job[k]
  BY <1>1 DEF BatchingInv
<1>3. \A k \in Jobs : Exact(job'[k], MaxTokens[k])
  BY <1>2 DEF BatchingInv
<1>4. ASSUME NEW k \in ToSet(admitted) PROVE job'[k].at = "queued"
  <2>1. k \in Jobs /\ job[k].at = "queued"
    BY WaitsQueued
  <2>2. k # j
    BY <2>1
  <2>3. QED
    BY <1>2, <2>1, <2>2
<1>5. QED
  BY <1>2, <1>3, <1>4 DEF BatchingInv

\* All that wait are inserted, or fail.
LEMMA InsertedInv ==
  ASSUME worker \in {"off", "running", "crashed", "stopped"}, running \in BOOLEAN,
         NEW jobs \in [Jobs -> Request], \A j \in Jobs : Exact(jobs[j], MaxTokens[j]),
         NEW some \in SUBSET Jobs, \A j \in some : jobs[j].at # "finished", NEW failed \in SUBSET some,
         job' = Inserted(jobs, some, failed), admitted' = <<>>, UNCHANGED <<worker, running>>
  PROVE  BatchingInv'
<1>1. ASSUME NEW j \in Jobs PROVE Exact(job'[j], MaxTokens[j])
  <2>1. Exact(jobs[j], MaxTokens[j]) /\ MaxTokens[j] \in Nat
    BY RoomNat
  <2>2. job'[j] = IF j \in failed THEN [jobs[j] EXCEPT !.at = "finished", !.end = "error"]
                  ELSE IF j \in some THEN [jobs[j] EXCEPT !.at = "batch"] ELSE jobs[j]
    BY DEF Inserted
  <2>3. CASE j \in failed
    <3>1. job'[j] = [jobs[j] EXCEPT !.at = "finished", !.end = "error"] /\ jobs[j].at # "finished"
      BY <2>2, <2>3
    <3>2. Exact([jobs[j] EXCEPT !.at = "finished", !.end = "error"], MaxTokens[j])
      BY <2>1, <3>1, BrokenExact
    <3>3. QED
      BY <3>1, <3>2
  <2>4. CASE j \in some /\ j \notin failed
    <3>1. job'[j] = [jobs[j] EXCEPT !.at = "batch"] /\ jobs[j].at # "finished"
      BY <2>2, <2>4
    <3>2. Exact([jobs[j] EXCEPT !.at = "batch"], MaxTokens[j])
      BY <2>1, <3>1, PlacedExact
    <3>3. QED
      BY <3>1, <3>2
  <2>5. CASE j \notin some /\ j \notin failed
    BY <2>1, <2>2, <2>5
  <2>6. QED
    BY <2>3, <2>4, <2>5
<1>2. job' \in [Jobs -> Request]
  <2>1. job' = [j \in Jobs |-> job'[j]]
    BY DEF Inserted
  <2>2. \A j \in Jobs : job'[j] \in Request
    BY <1>1 DEF Exact
  <2>3. QED
    BY <2>1, <2>2
<1>3. admitted' \in Seq(Jobs) /\ ToSet(admitted') = {}
  BY DEF ToSet
<1>4. QED
  BY <1>1, <1>2, <1>3 DEF BatchingInv

\* Requests that end together before their texts do.
LEMMA SomeBroken ==
  ASSUME BatchingInv, NEW S \in SUBSET Jobs, \A j \in S : job[j].at \in {"solo", "batch"},
         NEW how \in {"error", "shut"},
         job' = [j \in Jobs |-> IF j \in S THEN [job[j] EXCEPT !.at = "finished", !.end = how] ELSE job[j]],
         worker' \in {"crashed", "stopped"}, UNCHANGED <<running, admitted>>
  PROVE  BatchingInv'
<1>1. ASSUME NEW j \in Jobs PROVE job'[j] \in Request /\ Exact(job'[j], MaxTokens[j])
  <2>1. Exact(job[j], MaxTokens[j]) /\ MaxTokens[j] \in Nat
    BY RoomNat DEF BatchingInv
  <2>2. CASE j \in S
    <3>1. job'[j] = [job[j] EXCEPT !.at = "finished", !.end = how]
      BY <2>2
    <3>2. job[j].at # "finished"
      BY <2>2
    <3>3. Exact(job'[j], MaxTokens[j])
      BY <2>1, <3>1, <3>2, BrokenExact
    <3>4. QED
      BY <3>3 DEF Exact
  <2>3. CASE j \notin S
    <3>1. job'[j] = job[j]
      BY <2>3
    <3>2. QED
      BY <2>1, <3>1 DEF Exact
  <2>4. QED
    BY <2>2, <2>3
<1>2. job' \in [Jobs -> Request]
  <2>1. job' = [j \in Jobs |-> job'[j]]
    OBVIOUS
  <2>2. QED
    BY <1>1, <2>1
<1>3. ASSUME NEW k \in ToSet(admitted) PROVE job'[k].at = "queued"
  <2>1. k \in Jobs /\ job[k].at = "queued"
    BY WaitsQueued
  <2>2. k \notin S
    BY <2>1
  <2>3. QED
    BY <2>1, <2>2
<1>4. QED
  BY <1>1, <1>2, <1>3 DEF BatchingInv

LEMMA SubmitInv == ASSUME BatchingInv, NEW j \in Jobs, Submit(j) PROVE BatchingInv'
<1>1. Exact(job[j], MaxTokens[j]) /\ MaxTokens[j] \in Nat /\ job[j].at = "new"
  BY RoomNat DEF BatchingInv, Submit
<1>2. CASE worker = "stopped"
  <2>1. /\ job' = [job EXCEPT ![j] = [job[j] EXCEPT !.at = "finished", !.end = "error"]]
        /\ UNCHANGED <<worker, running, admitted>>
    BY <1>1, <1>2 DEF Submit, BatchingInv, Exact, Request
  <2>2. Exact([job[j] EXCEPT !.at = "finished", !.end = "error"], MaxTokens[j])
    BY <1>1, BrokenExact
  <2>3. QED
    BY <1>1, <2>1, <2>2, OneExact
<1>3. CASE worker # "stopped"
  <2> DEFINE r == [job[j] EXCEPT !.at = "queued"]
  <2>1. job' = [job EXCEPT ![j] = r] /\ admitted' = Append(admitted, j) /\ UNCHANGED <<worker, running>>
    BY <1>3 DEF Submit, BatchingInv
  <2>2. Exact(r, MaxTokens[j])
    BY <1>1, PlacedExact
  <2>3. r.at = "queued" /\ r \in Request
    BY <1>1 DEF Exact, Request
  <2> HIDE DEF r
  <2>4. job' \in [Jobs -> Request] /\ job'[j] = r /\ \A k \in Jobs \ {j} : job'[k] = job[k]
    BY <2>1, <2>3 DEF BatchingInv
  <2>5. \A k \in Jobs : Exact(job'[k], MaxTokens[k])
    BY <2>2, <2>4 DEF BatchingInv
  <2>6. admitted' \in Seq(Jobs) /\ \A k \in ToSet(admitted') : k = j \/ k \in ToSet(admitted)
    BY <2>1, AppendProperties DEF BatchingInv, ToSet
  <2>7. \A k \in ToSet(admitted') : job'[k].at = "queued"
    BY <2>3, <2>4, <2>6, WaitsQueued
  <2>8. QED
    BY <2>1, <2>4, <2>5, <2>6, <2>7 DEF BatchingInv
<1>4. QED
  BY <1>2, <1>3

LEMMA AdmitInv == ASSUME BatchingInv, Admit PROVE BatchingInv'
<1>1. admitted # <<>> /\ admitted' = <<>> /\ UNCHANGED <<worker, running>>
  BY DEF Admit
<1>2. /\ job \in [Jobs -> Request] /\ \A j \in Jobs : Exact(job[j], MaxTokens[j])
      /\ worker \in {"off", "running", "crashed", "stopped"} /\ running \in BOOLEAN
  BY DEF BatchingInv
<1>3. CASE SoloPath /\ Batch = {} /\ Len(admitted) = 1
  <2> DEFINE h == Head(admitted)
             r == [job[h] EXCEPT !.at = "solo"]
  <2>1. h \in Jobs /\ job[h].at = "queued"
    <3>1. admitted \in Seq(Jobs) /\ 1 \in DOMAIN admitted /\ h = admitted[1]
      BY <1>1, EmptySeq DEF BatchingInv
    <3>2. h \in ToSet(admitted)
      BY <3>1 DEF ToSet
    <3>3. QED
      BY <3>2, WaitsQueued
  <2>2. job' = [job EXCEPT ![h] = r]
    BY <1>3 DEF Admit
  <2>3. Exact(r, MaxTokens[h])
    <3>1. Exact(job[h], MaxTokens[h]) /\ MaxTokens[h] \in Nat /\ job[h].at # "finished"
      BY <1>2, <2>1, RoomNat
    <3>2. QED
      BY <3>1, PlacedExact
  <2> HIDE DEF r
  <2>4. r \in Request
    BY <2>3 DEF Exact
  <2>5. job' \in [Jobs -> Request] /\ job'[h] = r /\ \A k \in Jobs \ {h} : job'[k] = job[k]
    BY <1>2, <2>1, <2>2, <2>4
  <2>6. \A k \in Jobs : Exact(job'[k], MaxTokens[k])
    BY <1>2, <2>3, <2>5
  <2>7. admitted' \in Seq(Jobs) /\ ToSet(admitted') = {}
    BY <1>1 DEF ToSet
  <2>8. QED
    BY <1>1, <1>2, <2>5, <2>6, <2>7 DEF BatchingInv
<1>4. CASE ~(SoloPath /\ Batch = {} /\ Len(admitted) = 1)
  <2>1. PICK failed \in SUBSET ToSet(admitted) : job' = Inserted(job, ToSet(admitted), failed)
    BY <1>4 DEF Admit
  <2>2. ToSet(admitted) \in SUBSET Jobs /\ \A j \in ToSet(admitted) : job[j].at # "finished"
    BY WaitsQueued
  <2>3. QED
    BY <1>1, <1>2, <2>1, <2>2, InsertedInv
<1>5. QED
  BY <1>3, <1>4

LEMMA BatchTokenInv == ASSUME BatchingInv, NEW j \in Jobs, BatchToken(j) PROVE BatchingInv'
<1>1. Exact(job[j], MaxTokens[j]) /\ MaxTokens[j] \in Nat /\ job[j].at = "batch" /\ job[j] \in Request
  BY RoomNat DEF BatchingInv, BatchToken, Batch
<1>2. PICK full \in Decoded(job[j].text) : job' = [job EXCEPT ![j] = Closed(Grown(job[j], full))]
  BY DEF BatchToken, BatchingInv
<1>3. full \in Seq(Characters)
  BY <1>1, DecodedType DEF Request
<1> DEFINE q == Closed(Grown(job[j], full))
<1>4. Exact(q, MaxTokens[j])
  BY <1>1, <1>3, GrownExact
<1>5. UNCHANGED <<worker, running, admitted>>
  BY DEF BatchToken
<1> HIDE DEF q
<1>6. QED
  BY <1>1, <1>2, <1>4, <1>5, OneExact DEF q

LEMMA SoloTokenInv == ASSUME BatchingInv, NEW j \in Jobs, SoloToken(j) PROVE BatchingInv'
<1> DEFINE m == MaxTokens[j]
           e == [job[j] EXCEPT !.room = job[j].room - 1]
           some == ToSet(admitted) \cup {j}
<1>1. Exact(job[j], m) /\ m \in Nat /\ job[j].at = "solo" /\ job[j] \in Request
  BY RoomNat DEF BatchingInv, SoloToken, Solo
<1>2. PICK piece \in Pieces :
        LET r == Closed(Streamed(e, piece)) IN
        IF r.at = "finished" \/ admitted = <<>>
        THEN job' = [job EXCEPT ![j] = r] /\ UNCHANGED admitted
        ELSE /\ \E full \in Decoded(r.text), failed \in SUBSET some :
                    job' = Inserted([job EXCEPT ![j] = Folded(r, full)], some, failed)
             /\ admitted' = <<>>
  BY <1>1 DEF SoloToken, Request
<1> DEFINE p == Streamed(e, piece)
           r == Closed(p)
<1>3. UNCHANGED <<worker, running>>
  BY DEF SoloToken
<1>4. Exact(r, m) /\ r.at \in {"solo", "finished"}
  <2>1. /\ job[j].room \in Nat /\ job[j].room > 0 /\ job[j].room <= m
        /\ job[j].room - 1 \in Nat /\ (job[j].revised \/ Sending(job[j]))
    BY <1>1 DEF Exact, Request
  <2>2. /\ e \in Request /\ e.room = job[j].room - 1 /\ e.at = "solo" /\ e.text = job[j].text
        /\ e.emitted = job[j].emitted /\ e.sent = job[j].sent /\ e.got = job[j].got /\ e.end = job[j].end
        /\ e.revised = job[j].revised
    <3>1. job[j] \in Request /\ job[j].at = "solo" /\ job[j].room - 1 \in Nat
      BY <1>1, <2>1
    <3>2. QED
      BY <3>1 DEF Request
  <2> HIDE DEF e, m
  <2>3. e.room <= m
    BY <1>1, <2>1, <2>2
  <2>4. e.revised \/ Sending(e)
    BY <2>1, <2>2 DEF Sending
  <2>5. piece \in Seq(Characters)
    BY BatchingAssumption
  <2>6. /\ p \in Request /\ p.room <= m /\ p.at \in {"solo", "finished"}
        /\ p.revised \/ (Told(p) /\ (p.at # "finished" => Sending(p)))
    BY <1>1, <2>2, <2>3, <2>4, <2>5, StreamedExact
  <2> HIDE DEF p
  <2>7. Exact(r, m) /\ r.at \in {p.at, "finished"}
    BY <1>1, <2>6, ClosedExact
  <2>8. QED
    BY <2>6, <2>7
<1> HIDE DEF e, p, r
<1>5. CASE r.at = "finished" \/ admitted = <<>>
  <2>1. job' = [job EXCEPT ![j] = r] /\ UNCHANGED admitted
    BY <1>2, <1>5 DEF p, r
  <2>2. QED
    BY <1>1, <1>3, <1>4, <2>1, OneExact
<1>6. CASE ~(r.at = "finished" \/ admitted = <<>>)
  <2>1. /\ admitted' = <<>>
        /\ \E full \in Decoded(r.text), failed \in SUBSET some :
              job' = Inserted([job EXCEPT ![j] = Folded(r, full)], some, failed)
    BY <1>2, <1>6 DEF p, r
  <2>2. PICK full \in Decoded(r.text), failed \in SUBSET some :
           job' = Inserted([job EXCEPT ![j] = Folded(r, full)], some, failed)
    BY <2>1
  <2> DEFINE f == Folded(r, full)
             jobs == [job EXCEPT ![j] = f]
  <2>3. full \in Seq(Characters)
    BY <1>4, DecodedType DEF Exact, Request
  <2>4. Exact(f, m) /\ f.at = "solo"
    BY <1>1, <1>4, <1>6, <2>3, FoldedExact
  <2> HIDE DEF f
  <2>5. f \in Request
    BY <2>4 DEF Exact
  <2>6. /\ jobs \in [Jobs -> Request] /\ jobs[j] = f /\ \A k \in Jobs \ {j} : jobs[k] = job[k]
    BY <2>5 DEF BatchingInv
  <2>7. job' = Inserted(jobs, some, failed)
    BY <2>2 DEF f
  <2> HIDE DEF jobs
  <2>8. \A k \in Jobs : Exact(jobs[k], MaxTokens[k])
    BY <2>4, <2>6 DEF BatchingInv
  <2>9. some \in SUBSET Jobs /\ \A k \in some : jobs[k].at # "finished"
    BY <2>4, <2>6, WaitsQueued
  <2>10. worker \in {"off", "running", "crashed", "stopped"} /\ running \in BOOLEAN
    BY DEF BatchingInv
  <2> HIDE DEF some
  <2>11. QED
    BY <1>3, <2>1, <2>6, <2>7, <2>8, <2>9, <2>10, InsertedInv
<1>7. QED
  BY <1>5, <1>6

LEMMA EosInv == ASSUME BatchingInv, NEW j \in Jobs, Eos(j) PROVE BatchingInv'
<1> DEFINE m == MaxTokens[j]
           q(piece) == IF j \in Solo THEN Streamed(job[j], piece) ELSE job[j]
<1>1. Exact(job[j], m) /\ m \in Nat /\ job[j].at \in {"solo", "batch"} /\ job[j] \in Request
  BY RoomNat DEF BatchingInv, Eos, Solo, Batch
<1>2. PICK piece \in IF j \in Solo THEN Pieces ELSE {<<>>} :
        job' = [job EXCEPT ![j] = IF q(piece).at = "finished" THEN q(piece) ELSE Finished(q(piece), "stop")]
  BY DEF Eos
<1> DEFINE r == q(piece)
<1>3. /\ r \in Request /\ r.room <= m
      /\ r.revised \/ (Told(r) /\ (r.at # "finished" => Sending(r)))
  <2>1. CASE j \in Solo
    <3>1. piece \in Seq(Characters) /\ r = Streamed(job[j], piece)
      BY <2>1, BatchingAssumption
    <3> HIDE DEF r, m, q
    <3>2. job[j].room <= m /\ job[j].at # "finished" /\ (job[j].revised \/ Sending(job[j]))
      BY <1>1 DEF Exact
    <3>3. QED
      BY <1>1, <3>1, <3>2, StreamedExact
  <2>2. CASE j \notin Solo
    <3>1. r = job[j]
      BY <2>2
    <3> HIDE DEF r
    <3>2. QED
      BY <1>1, <3>1 DEF Exact
  <2>3. QED
    BY <2>1, <2>2
<1> DEFINE f == IF r.at = "finished" THEN r ELSE Finished(r, "stop")
<1>4. job' = [job EXCEPT ![j] = f] /\ UNCHANGED <<worker, running, admitted>>
  BY <1>2 DEF Eos
<1> HIDE DEF q, m
<1>5. Exact(f, m)
  <2> HIDE DEF r
  <2>1. QED
    BY <1>1, <1>3, EndedExact DEF f
<1> HIDE DEF f
<1>6. QED
  BY <1>1, <1>4, <1>5, OneExact DEF m

LEMMA ThreadInv == ASSUME BatchingInv, ThreadDies \/ Unload \/ Stopped PROVE BatchingInv'
<1>1. CASE ThreadDies
  <2>1. Batch \in SUBSET Jobs /\ \A j \in Batch : job[j].at \in {"solo", "batch"}
    BY DEF Batch
  <2>2. job' = [j \in Jobs |-> IF j \in Batch THEN [job[j] EXCEPT !.at = "finished", !.end = "error"] ELSE job[j]]
        /\ worker' \in {"crashed", "stopped"} /\ UNCHANGED <<running, admitted>>
    BY <1>1 DEF ThreadDies
  <2>3. QED
    BY <2>1, <2>2, SomeBroken
<1>2. CASE Unload
  BY <1>2 DEF Unload, BatchingInv
<1>3. CASE Stopped
  <2> DEFINE S == IF worker = "running" THEN Solo ELSE {}
  <2>1. S \in SUBSET Jobs /\ \A j \in S : job[j].at \in {"solo", "batch"}
    BY DEF Solo
  <2>2. job' = [j \in Jobs |-> IF j \in S THEN [job[j] EXCEPT !.at = "finished", !.end = "shut"] ELSE job[j]]
        /\ worker' \in {"crashed", "stopped"} /\ UNCHANGED <<running, admitted>>
    BY <1>3 DEF Stopped
  <2> HIDE DEF S
  <2>3. QED
    BY <2>1, <2>2, SomeBroken
<1>4. QED
  BY <1>1, <1>2, <1>3

LEMMA BtNextInv == BatchingInv /\ [BtNext]_btVars => BatchingInv'
<1> SUFFICES ASSUME BatchingInv, [BtNext]_btVars PROVE BatchingInv'
  OBVIOUS
<1>1. CASE UNCHANGED btVars
  BY <1>1 DEF btVars, BatchingInv
<1>2. ASSUME NEW j \in Jobs, Submit(j) PROVE BatchingInv'
  BY <1>2, SubmitInv
<1>3. ASSUME NEW j \in Jobs, BatchToken(j) PROVE BatchingInv'
  BY <1>3, BatchTokenInv
<1>4. ASSUME NEW j \in Jobs, SoloToken(j) PROVE BatchingInv'
  BY <1>4, SoloTokenInv
<1>5. ASSUME NEW j \in Jobs, Eos(j) PROVE BatchingInv'
  BY <1>5, EosInv
<1>6. CASE Admit
  BY <1>6, AdmitInv
<1>7. CASE ThreadDies \/ Unload \/ Stopped
  BY <1>7, ThreadInv
<1>8. QED
  BY <1>1, <1>2, <1>3, <1>4, <1>5, <1>6, <1>7 DEF BtNext

(* For any stop string, whatever texts the tokens make and however         *)
(* requests come, are decoded alone, go on in the batch, break off and are *)
(* cut off by the end of the thread: what a consumer has is the text that  *)
(* was decoded for it up to the stop string, and all of it when its stream *)
(* ends, unless what was decoded before was revised (inference/            *)
(* mlx_batched.py _stream_progress, _finish, _run_solo, _handle_token).    *)
THEOREM StreamsExact == BtSpec => []StreamExact
<1>1. BatchingInv => StreamExact
  <2> SUFFICES ASSUME BatchingInv, NEW j \in Jobs
               PROVE  job[j].revised \/ (IsPrefix(job[j].got, Cut(job[j].text))
                                         /\ (job[j].end \in {"stop", "length"} => job[j].got = Cut(job[j].text)))
    BY DEF StreamExact
  <2>1. Exact(job[j], MaxTokens[j])
    BY DEF BatchingInv
  <2>2. QED
    BY <2>1 DEF Exact, Told
<1>2. QED
  BY <1>1, BtInitInv, BtNextInv, PTL DEF BtSpec

(* Requests, and the order they wait in, stay in their types: no more      *)
(* tokens than a request asked for (inference/mlx_batched.py).             *)
THEOREM BatchingTypes == BtSpec => []BatchingTypeOK
<1>1. BatchingInv => BatchingTypeOK
  <2> SUFFICES ASSUME BatchingInv PROVE BatchingTypeOK
    OBVIOUS
  <2>1. ASSUME NEW j \in Jobs
        PROVE  /\ job[j].at \in {"new", "queued", "solo", "batch", "finished"}
               /\ {job[j].text, job[j].emitted, job[j].got} \subseteq Seq(Characters)
               /\ job[j].room \in 0 .. MaxTokens[j] /\ job[j].sent \in Nat
               /\ job[j].end \in {"open", "stop", "length", "error", "shut"}
               /\ job[j].revised \in BOOLEAN
    <3>1. job[j] \in Request /\ job[j].room <= MaxTokens[j] /\ MaxTokens[j] \in Nat
      BY RoomNat DEF BatchingInv, Exact
    <3>2. QED
      BY <3>1 DEF Request
  <2>2. QED
    BY <2>1 DEF BatchingInv, BatchingTypeOK
<1>2. QED
  BY <1>1, BtInitInv, BtNextInv, PTL DEF BtSpec
=============================================================================
