------------------------------- MODULE Fleet -------------------------------
(***************************************************************************)
(* The fleet of a bootstrap: nodes that announce themselves over HTTP and  *)
(* back off from a bootstrap that fails (node.py), the registry of nodes   *)
(* the bootstrap keeps in memory and writes through to its database        *)
(* (api/admin.py, storage/repositories.py), the administrator's approvals  *)
(* and removals, the sweep of nodes not heard from, and its restart.       *)
(*                                                                         *)
(* A handler changes the memory in one step and then awaits the database,  *)
(* which reads the row and commits in two more; other handlers run in      *)
(* between.  An error of the database is swallowed by all of them.         *)
(* An entry's last_seen is only compared with the hour of the sweep.       *)
(***************************************************************************)
EXTENDS Naturals, FiniteSets

CONSTANTS
    Nodes,          \* peers the registry may know
    Running,        \* the nodes among them that run; of the others only entries are left
    MaxDelay,       \* doublings from ANNOUNCE_BACKOFF_BASE_S to ANNOUNCE_BACKOFF_MAX_S, 5 in the code
    NewNodes,       \* _RATE_LIMIT_MAX: new nodes one address may announce in a window
    Crashes         \* bound: crashes of the bootstrap

ASSUME FleetAssumption == /\ Running \subseteq Nodes /\ MaxDelay \in Nat \ {0}
                          /\ NewNodes \in Nat \ {0} /\ Crashes \in Nat
                          /\ Nodes \cap {"admin", "sweep", ""} = {}

VARIABLES
    bootstrap,  \* "off" (there is none), "private", "public" or "down", and how often it crashed
    registry,   \* node_registry: status and age of an entry
    rows,       \* the table NodeRegistryEntry, its statuses
    announcing, \* a node's announce loop
    posted,     \* its announce is on the way to the bootstrap
    write,      \* what a handler has under way in the database
    evicting,   \* the sweep's list of stale entries
    recent,     \* _announce_timestamps: new nodes in the window
    granted,    \* history: approved by the administrator and not removed since
    lost        \* history: a removal did not reach the database, or met a write on its way

fleetVars == <<bootstrap, registry, rows, announcing, posted, write, evicting, recent, granted, lost>>

Statuses == {"none", "pending", "approved"}
NoEntry  == [status |-> "none", age |-> "fresh"]
Entry(status, age) == IF status = "none" THEN NoEntry ELSE [status |-> status, age |-> age]
Entries  == {NoEntry} \cup [status : {"pending", "approved"}, age : {"fresh", "old"}]
\* A handler at the database: what it does, to which row, with which status (read off its entry
\* when the row was read), the status of the row it read, and whether its entry is the registry's.
Handlers == Nodes \cup {"admin", "sweep"}
NoWrite  == [op |-> "none", node |-> "", stage |-> "get", status |-> "none", base |-> "none", live |-> FALSE]

FleetTypeOK ==
    /\ bootstrap \in [up : {"off", "private", "public", "down"}, was : {"off", "private", "public"}, crashes : 0 .. Crashes]
    /\ registry \in [Nodes -> Entries] /\ rows \in [Nodes -> Statuses]
    /\ announcing \in [Nodes -> [at : {"off", "wait", "sent"}, forced : BOOLEAN,
                                 delay : 0 .. MaxDelay, left : 0 .. MaxDelay]]
    /\ posted \in [Nodes -> BOOLEAN]
    /\ write \in [Handlers -> [op : {"none", "upsert", "remove"}, node : Nodes \cup {""}, stage : {"get", "commit"},
                               status : Statuses, base : Statuses, live : BOOLEAN]]
    /\ evicting \subseteq Nodes /\ recent \in 0 .. NewNodes
    /\ granted \subseteq Nodes /\ lost \subseteq Nodes

Starting(n) == [at |-> IF n \in Running THEN "wait" ELSE "off", forced |-> FALSE, delay |-> 0, left |-> 0]

FleetStarted(kind, known) ==
    /\ bootstrap = [up |-> kind, was |-> kind, crashes |-> 0]
    /\ rows = known /\ registry = [n \in Nodes |-> Entry(known[n], "fresh")]
    /\ announcing = [n \in Nodes |-> IF kind = "off" THEN [Starting(n) EXCEPT !.at = "off"] ELSE Starting(n)]
    /\ posted = [n \in Nodes |-> FALSE]
    /\ write = [h \in Handlers |-> NoWrite]
    /\ evicting = {}
    \* other nodes behind the same address have been new before
    /\ recent \in IF kind = "public" THEN {0, NewNodes} ELSE {0}
    /\ granted = {n \in Nodes : known[n] = "approved"} /\ lost = {}

FleetOff  == FleetStarted("off", [n \in Nodes |-> "none"])
FleetInit == \E kind \in {"private", "public"}, known \in [Nodes -> {"none", "approved"}] :
                 FleetStarted(kind, known)

Up == bootstrap.up \in {"private", "public"}
Known(n) == registry[n].status # "none"

-----------------------------------------------------------------------------
(* A node announces itself.                                                *)

Waits(n, delay, left) == announcing' = [announcing EXCEPT ![n].at = "wait", ![n].delay = delay, ![n].left = left]

\* _announce_backoff_bump: a failure doubles the delay, up to its cap, and is waited out.  The
\* doublings stand for the rounds that the delay lasts.
Longer(n) == IF announcing[n].delay = MaxDelay THEN MaxDelay ELSE announcing[n].delay + 1
Bump(n) == Waits(n, Longer(n), Longer(n))

\* _network_selfheal_loop sees another address: an announce is forced.
AddressChange(n) ==
    /\ announcing[n].at # "off" /\ ~announcing[n].forced
    /\ announcing' = [announcing EXCEPT ![n].forced = TRUE]
    /\ UNCHANGED <<bootstrap, registry, rows, posted, write, evicting, recent, granted, lost>>

\* The wait ends and the announce is posted.  Ended by a forced announce, it has cleared the
\* backoff; ended by its timeout, it clears the event as well, though that may just have been set.
Post(n) ==
    /\ announcing[n].at = "wait" /\ ~posted[n]
    /\ \/ announcing[n].forced /\ announcing' = [announcing EXCEPT ![n].at = "sent", ![n].forced = FALSE, ![n].delay = 0, ![n].left = 0]
       \/ announcing[n].left = 0 /\ announcing' = [announcing EXCEPT ![n].at = "sent", ![n].forced = FALSE]
    /\ posted' = [posted EXCEPT ![n] = TRUE]
    /\ UNCHANGED <<bootstrap, registry, rows, write, evicting, recent, granted, lost>>

\* Mutant: passing a bootstrap over counts as another failure.
RemainingBumped(n) == Longer(n)
\* The wait has timed out: a bootstrap that backs off is passed over.
Remaining(n) == announcing[n].left - 1

Skip(n) ==
    /\ announcing[n].at = "wait" /\ announcing[n].left > 0
    /\ announcing' = [announcing EXCEPT ![n].forced = FALSE, ![n].left = Remaining(n)]
    /\ UNCHANGED <<bootstrap, registry, rows, posted, write, evicting, recent, granted, lost>>

\* No answer in time, or one that refuses: what was posted may still arrive.
Refused(n) ==
    /\ announcing[n].at = "sent"
    /\ Bump(n)
    /\ posted' \in {posted, [posted EXCEPT ![n] = FALSE]}
    /\ UNCHANGED <<bootstrap, registry, rows, write, evicting, recent, granted, lost>>

\* The answer arrives, unless the node has given it up.
Served(n) == IF announcing[n].at = "sent" THEN Waits(n, 0, 0) ELSE UNCHANGED announcing

-----------------------------------------------------------------------------
(* The bootstrap.  One announce of a node, one request of the administrator *)
(* and the sweep may be at the database at a time.                          *)

\* The rate limit is asked only for a node that is new on a public network; its refusal is an
\* answer like any other to the node.
Limited(n) == bootstrap.up = "public" /\ ~Known(n) /\ recent = NewNodes
Status(n) == IF bootstrap.up = "public" THEN "approved" ELSE IF Known(n) THEN registry[n].status ELSE "pending"

\* announce_node.
Announce(n) ==
    /\ Up /\ posted[n] /\ write[n].op = "none"
    /\ posted' = [posted EXCEPT ![n] = FALSE]
    /\ IF Limited(n)
       THEN Served(n) /\ UNCHANGED <<registry, write, recent>>
       ELSE /\ registry' = [registry EXCEPT ![n] = [status |-> Status(n), age |-> "fresh"]]
            /\ recent' = IF bootstrap.up = "public" /\ ~Known(n) THEN recent + 1 ELSE recent
            /\ write' = [write EXCEPT ![n] = [NoWrite EXCEPT !.op = "upsert", !.node = n, !.status = Status(n), !.live = TRUE]]
            /\ UNCHANGED announcing
    /\ UNCHANGED <<bootstrap, rows, evicting, granted, lost>>

\* approve_node changes the entry that an announce may still be writing.
Approve(n) ==
    /\ Up /\ Known(n) /\ write["admin"].op = "none"
    /\ registry' = [registry EXCEPT ![n].status = "approved"]
    /\ write' = [h \in Handlers |->
                    IF h = "admin" THEN [NoWrite EXCEPT !.op = "upsert", !.node = n, !.status = "approved", !.live = TRUE]
                    ELSE IF write[h].op = "upsert" /\ write[h].node = n /\ write[h].live /\ write[h].stage = "get"
                    THEN [write[h] EXCEPT !.status = "approved"] ELSE write[h]]
    /\ granted' = granted \cup {n} /\ lost' = lost \ {n}
    /\ UNCHANGED <<bootstrap, rows, announcing, posted, evicting, recent>>

\* The entries written at the moment are the registry's no more.
Detach(n, w) == [h \in Handlers |-> IF w[h].node = n THEN [w[h] EXCEPT !.live = FALSE] ELSE w[h]]

\* remove_node.
RemoveNode(n) ==
    /\ Up /\ Known(n) /\ write["admin"].op = "none"
    /\ registry' = [registry EXCEPT ![n] = NoEntry]
    /\ write' = [Detach(n, write) EXCEPT !["admin"] = [NoWrite EXCEPT !.op = "remove", !.node = n]]
    /\ lost' = IF write[n].op = "none" THEN lost ELSE lost \cup {n}
    /\ UNCHANGED <<bootstrap, rows, announcing, posted, evicting, recent, granted>>

\* _registry_ttl_sweep_loop: the stale entries are listed, then each is dropped from memory and
\* database, whatever has become of it since.  Ahead of the first of Nodes may be others.
Sweep ==
    /\ Up /\ evicting = {} /\ write["sweep"].op = "none"
    /\ evicting' = {n \in Nodes : Known(n) /\ registry[n].age = "old"} /\ evicting' # {}
    /\ UNCHANGED <<bootstrap, registry, rows, announcing, posted, write, recent, granted, lost>>

Evict(n) ==
    /\ Up /\ n \in evicting /\ write["sweep"].op = "none"
    /\ evicting' = evicting \ {n}
    /\ registry' = [registry EXCEPT ![n] = NoEntry]
    /\ write' = [Detach(n, write) EXCEPT !["sweep"] = [NoWrite EXCEPT !.op = "remove", !.node = n]]
    /\ UNCHANGED <<bootstrap, rows, announcing, posted, recent, granted, lost>>

-----------------------------------------------------------------------------
(* The database.                                                           *)

\* The handler that ends answers its caller.
Answer(h) == IF h \in Nodes THEN Served(h) ELSE UNCHANGED announcing
\* A removal that is answered takes the approval back.
Settle(h, reached) ==
    IF h = "admin" /\ write[h].op = "remove"
    THEN granted' = granted \ {write[h].node} /\ lost' = IF reached THEN lost ELSE lost \cup {write[h].node}
    ELSE UNCHANGED <<granted, lost>>
Ends(h, reached) == write' = [write EXCEPT ![h] = NoWrite] /\ Answer(h) /\ Settle(h, reached)

\* session.get: there is nothing to remove, or the commit is next.
Get(h) ==
    /\ Up /\ write[h].op # "none" /\ write[h].stage = "get"
    /\ LET w == write[h]  found == rows[w.node] IN
       IF w.op = "remove" /\ found = "none"
       THEN Ends(h, TRUE)
       ELSE /\ write' = [write EXCEPT ![h].stage = "commit", ![h].base = found]
            /\ UNCHANGED <<announcing, granted, lost>>
    /\ UNCHANGED <<bootstrap, registry, rows, posted, evicting, recent>>

\* Only what differs from the row as it was read is written; a row that is gone, or there already,
\* fails the commit.
Upserted(w) ==
    IF (w.base = "none") = (rows[w.node] = "none") /\ w.status # w.base THEN w.status ELSE rows[w.node]
\* Mutant: the row of a removed node is left to its next announce.
RemovedLater(w) == rows[w.node]
RemovedRow(w) == "none"

Commit(h) ==
    /\ Up /\ write[h].op # "none" /\ write[h].stage = "commit"
    /\ LET w == write[h] IN rows' = [rows EXCEPT ![w.node] = IF w.op = "upsert" THEN Upserted(w) ELSE RemovedRow(w)]
    /\ Ends(h, TRUE)
    /\ UNCHANGED <<bootstrap, registry, posted, evicting, recent>>

\* _save_to_db and _remove_from_db go on without it.
DbFails(h) ==
    /\ Up /\ write[h].op # "none" /\ write[h].stage = "commit"
    /\ Ends(h, FALSE)
    /\ UNCHANGED <<bootstrap, registry, rows, posted, evicting, recent>>

-----------------------------------------------------------------------------
(* Time passes; the bootstrap crashes and starts again.                    *)

\* An hour without a word from n.
Hour(n) ==
    /\ Up /\ Known(n) /\ registry[n].age = "fresh" /\ write[n].op = "none"
    /\ registry' = [registry EXCEPT ![n].age = "old"]
    /\ UNCHANGED <<bootstrap, rows, announcing, posted, write, evicting, recent, granted, lost>>

Window ==
    /\ recent > 0 /\ recent' = recent - 1
    /\ UNCHANGED <<bootstrap, registry, rows, announcing, posted, write, evicting, granted, lost>>

Crash ==
    /\ Up /\ bootstrap.crashes < Crashes
    /\ bootstrap' = [bootstrap EXCEPT !.up = "down", !.crashes = @ + 1]
    /\ registry' = [n \in Nodes |-> NoEntry] /\ posted' = [n \in Nodes |-> FALSE]
    /\ write' = [h \in Handlers |-> NoWrite] /\ evicting' = {} /\ recent' = 0
    /\ UNCHANGED <<rows, announcing, granted, lost>>

\* run: the registry is what the table holds.
Restart ==
    /\ bootstrap.up = "down"
    /\ bootstrap' = [bootstrap EXCEPT !.up = bootstrap.was]
    /\ \E age \in [Nodes -> {"fresh", "old"}] : registry' = [n \in Nodes |-> Entry(rows[n], age[n])]
    /\ UNCHANGED <<rows, announcing, posted, write, evicting, recent, granted, lost>>

FleetNext ==
    \/ \E n \in Nodes : \/ AddressChange(n) \/ Post(n) \/ Skip(n) \/ Refused(n)
                        \/ Announce(n) \/ Approve(n) \/ RemoveNode(n) \/ Evict(n) \/ Hour(n)
    \/ \E h \in Handlers : Get(h) \/ Commit(h) \/ DbFails(h)
    \/ Sweep \/ Window \/ Crash \/ Restart

\* The loops go on, a database and a network that keep failing let a try succeed now and then, and
\* the bootstrap is started again (launchd, systemd or docker restart it, resilience.py).
FleetFairness ==
    /\ \A n \in Running : /\ WF_fleetVars(Post(n)) /\ WF_fleetVars(Skip(n)) /\ WF_fleetVars(Refused(n))
                          /\ SF_fleetVars(Announce(n)) /\ WF_fleetVars(Get(n)) /\ SF_fleetVars(Commit(n))
    /\ WF_fleetVars(Window) /\ WF_fleetVars(Restart)

FleetSpec == FleetInit /\ [][FleetNext]_fleetVars /\ FleetFairness

-----------------------------------------------------------------------------
(* Properties.                                                             *)

(* On a private network a node counts as approved only if the              *)
(* administrator approved it and has not been told since that it is        *)
(* removed, also after announces, sweeps and a restart                     *)
(* (api/admin.py approve_node, remove_node).  A removal whose database      *)
(* write failed, or that met an announce at the database, is excepted: the *)
(* code does not keep those.                                               *)
OnlyGranted ==
    bootstrap.was = "private" => \A n \in Nodes : registry[n].status = "approved" => n \in granted \cup lost

(* The approval of a node that runs reaches the database, though its first *)
(* write may have failed: every announce writes the entry again            *)
(* (api/admin.py _save_to_db).                                             *)
ApprovalKept ==
    \A n \in Running : registry[n].status = "approved" ~> rows[n] = "approved" \/ registry[n].status # "approved"

(* However its announces fail and its backoff grows, a node that runs is   *)
(* again and again listed as heard from (node.py _announce_to_bootstrap:   *)
(* "Runs as a long-lived background task. Must never crash").              *)
Listed == \A n \in Running : []<>(bootstrap.was = "off" \/ (Known(n) /\ registry[n].age = "fresh"))
=============================================================================
