------------------------------ MODULE Peering ------------------------------
(***************************************************************************)
(* How one node keeps its peers: the manager that dials an address, shakes *)
(* hands, beats and dials again (transport/peer_manager.py), the inbound   *)
(* handshake and what a peer tells of itself and others (node.py), the     *)
(* registry that routing reads (router/registry.py), and the health        *)
(* checker (router/health.py).  All are coroutines of one event loop that  *)
(* write the same two maps: the connection table, by which an incoming     *)
(* answer finds its request, and the registry entry, by whose connection a *)
(* request leaves.                                                         *)
(*                                                                         *)
(* A connection stands for a PeerConnection and its QUIC protocol.  One    *)
(* that nobody refers to any more is forgotten and its name used again:    *)
(* the names bound what is kept, not how many connections are made.  How   *)
(* many requests are in flight on a connection is left open: a ping may    *)
(* always find it overloaded and be refused.                               *)
(***************************************************************************)
EXTENDS Naturals, FiniteSets

CONSTANTS
    Peers,          \* remote nodes, by peer id
    Addrs,          \* addresses they can be dialled at
    PeerAt,         \* who answers at an address
    Bootstrap,      \* addresses the settings name
    Names,          \* bound: names of connections one address or peer makes; 3 are enough
    MaxAttempts,    \* MAX_RECONNECT_ATTEMPTS, 5 in the code
    MaxMisses,      \* max_ping_failures of the manager, 3 in the code
    MaxHealthMisses,\* _FAILURE_THRESHOLD of the health checker, 3 in the code
    MaxManaged      \* MAX_MANAGED_PEERS, 20 in the code

ASSUME AddrsAssumption  == PeerAt \in [Addrs -> Peers] /\ Bootstrap \subseteq Addrs /\ Addrs \cap Peers = {}
ASSUME NamesAssumption  == \E i, j, k \in Names : i # j /\ i # k /\ j # k
ASSUME LimitsAssumption == /\ MaxAttempts \in Nat \ {0} /\ MaxMisses \in Nat \ {0} /\ MaxHealthMisses \in Nat \ {0}
                           /\ MaxManaged \in Nat
CONSTANT None               \* no connection, no peer
\* Connections are told apart by who made them, a dial of an address or a peer that dialled us.
Conns == (Addrs \cup Peers) \X Names
ASSUME NoneAssumption == None \notin Conns \cup Peers

VARIABLES
    running,    \* PeerManager._running
    managed,    \* _managed_peers: a ManagedPeer and the place its task is at
    open,       \* the connections whose protocol is open
    table,      \* MycellmNode._peer_connections
    entry,      \* PeerRegistry._peers: state and connection of an entry
    health      \* the HealthChecker: its task, whom it has yet to ping, the peer it pings and
                \* on which connection, misses

vars == <<running, managed, open, table, entry, health>>

\* "ended" is a task that returned and left its ManagedPeer behind.
Tasks   == {"none", "dial", "hello", "beat", "backoff", "ended"}
Fresh   == [task |-> "dial", conn |-> None, pid |-> None, attempts |-> 0, misses |-> 0]
Nobody  == [Fresh EXCEPT !.task = "none"]
Unknown == [state |-> "unknown", conn |-> None]

TypeOK ==
    /\ running \in BOOLEAN
    /\ managed \in [Addrs -> [task : Tasks, conn : Conns \cup {None}, pid : Peers \cup {None},
                              attempts : 0 .. MaxAttempts, misses : 0 .. MaxMisses]]
    /\ open \subseteq Conns
    /\ table \in [Peers -> Conns \cup {None}]
    /\ entry \in [Peers -> [state : {"unknown", "discovered", "routable", "disconnected"},
                            conn : Conns \cup {None}]]
    /\ health \in [task : {"sleep", "check", "sent", "answered", "cancelled", "dead"}, todo : SUBSET Peers,
                   at : Peers \cup {None}, conn : Conns \cup {None}, misses : [Peers -> 0 .. MaxHealthMisses]]

Init ==
    /\ running = TRUE
    /\ managed = [a \in Addrs |-> IF a \in Bootstrap THEN Fresh ELSE Nobody]
    /\ open = {}
    /\ table = [p \in Peers |-> None]
    /\ entry = [p \in Peers |-> Unknown]
    /\ health = [task |-> "sleep", todo |-> {}, at |-> None, conn |-> None, misses |-> [p \in Peers |-> 0]]

Routable(p) == entry[p].state = "routable"
\* PeerEntry.is_live
Live(p) == entry[p].conn \in open

\* The connections that something refers to, and a new one.
Referred == {managed[a].conn : a \in Addrs} \cup {table[p] : p \in Peers}
            \cup {entry[p].conn : p \in Peers} \cup {health.conn}
Free(x) == {i \in Names : <<x, i>> \notin Referred}
New(x) == <<x, CHOOSE i \in Free(x) : TRUE>>
\* What is kept of the connections: those still referred to.
Opens(cs) == open' = cs \cap Referred'

-----------------------------------------------------------------------------
(* Which addresses are managed.                                            *)

Managed == {a \in Addrs : managed[a].task # "none"}

\* add_peer.  The peer ids it compares are known only after a handshake.
Addable(a, p, m) ==
    /\ m[a].task = "none" /\ running
    /\ Cardinality({x \in Addrs : m[x].task # "none"}) < MaxManaged
    /\ p = None \/ \A x \in Addrs : m[x].pid # p

AddPeer(a, p) ==
    /\ Addable(a, p, managed)
    /\ managed' = [managed EXCEPT ![a] = Fresh]

\* A peer tells of another one: an entry is made, and each address it lists is dialled, one
\* add_peer call after the other.  The list may leave addresses out.  A peer in the table is
\* passed over, whether or not its connection is still open.
Told(p, as) ==
    /\ table[p] = None
    /\ entry' = IF entry[p].state = "unknown" THEN [entry EXCEPT ![p].state = "discovered"] ELSE entry
    /\ \E dialled \in SUBSET {a \in as : Addable(a, p, managed)} :
         /\ Cardinality(Managed \cup dialled) <= MaxManaged
         \* all that fit: an address is left out only when the cap is reached
         /\ dialled = {a \in as : Addable(a, p, managed)} \/ Cardinality(Managed \cup dialled) = MaxManaged
         /\ managed' = [a \in Addrs |-> IF a \in dialled THEN Fresh ELSE managed[a]]
     
\* What another node tells of p when it sends its list: addresses of p, fewer when
\* they are private and this node is not on its network, and nothing of a peer it
\* knows no address of.
Tellable(p) == (SUBSET {a \in Addrs : PeerAt[a] = p}) \ {{}}

PeerExchange(p) ==
    /\ \E as \in Tellable(p) : Told(p, as)
    /\ UNCHANGED <<running, open, table, health>>

\* The self-heal loop manages the bootstraps of networks the node has joined, as ordinary
\* addresses and without a peer id.
SelfHeal(a) ==
    /\ AddPeer(a, None)
    /\ UNCHANGED <<running, open, table, entry, health>>

-----------------------------------------------------------------------------
(* The task that manages an address.                                       *)

\* Mutant: bootstraps are given up like any other address.
RetryAlike(a, m) == IF m.attempts >= MaxAttempts THEN Nobody ELSE [m EXCEPT !.task = "backoff"]

\* After a failed dial: give the address up, or wait and dial again.
Retry(a, m) ==
    IF a \notin Bootstrap /\ m.attempts >= MaxAttempts THEN Nobody ELSE [m EXCEPT !.task = "backoff"]

DialFailed(a) ==
    managed' = [managed EXCEPT ![a] = Retry(a, [@ EXCEPT !.conn = None])]

DialFail(a) ==
    /\ managed[a].task = "dial"
    /\ DialFailed(a)
    /\ UNCHANGED <<running, open, table, entry, health>>

DialOk(a) ==
    /\ managed[a].task = "dial"
    /\ managed' = [managed EXCEPT ![a] = [@ EXCEPT !.task = "hello", !.conn = New(a)]]
    /\ open' = open \cup {New(a)}
    /\ UNCHANGED <<running, table, entry, health>>

\* Mutant: the peer registers without its new connection.
RegisterKeepsConnection(p, c) ==
    entry' = [entry EXCEPT ![p] = [state |-> "routable", conn |-> IF @.conn = None THEN c ELSE @.conn]]

\* register, with the connection that is now the peer's
Register(p, c) == entry' = [entry EXCEPT ![p] = [state |-> "routable", conn |-> c]]

HelloOk(a) ==
    LET c == managed[a].conn  p == PeerAt[a] IN
    /\ managed[a].task = "hello" /\ c \in open
    /\ managed' = [managed EXCEPT ![a] = [Fresh EXCEPT !.task = "beat", !.conn = c, !.pid = p]]
    /\ table' = [table EXCEPT ![p] = c]
    /\ Register(p, c)
    /\ UNCHANGED <<running, health>>
    /\ Opens(open)

\* Refused, timed out or not understood: the protocol is closed.
HelloFail(a) ==
    /\ managed[a].task = "hello" /\ managed[a].conn \in open
    /\ DialFailed(a)
    /\ UNCHANGED <<running, table, entry, health>>
    /\ Opens(open)

\* The connection is terminated while the hello is unanswered: the protocol cancels the
\* future, the CancelledError passes the handlers of _connect_peer, and _manage_peer returns.
HelloCut(a) ==
    /\ managed[a].task = "hello" /\ managed[a].conn \in open
    /\ managed' = [managed EXCEPT ![a] = [@ EXCEPT !.task = "ended", !.conn = None]]
    /\ UNCHANGED <<running, table, entry, health>>
    /\ Opens(open)

BackedOff(a) ==
    LET m == managed[a] IN
    /\ m.task = "backoff"
    /\ managed' = [managed EXCEPT ![a] = [m EXCEPT !.task = "dial",
                     !.attempts = IF m.attempts < MaxAttempts THEN m.attempts + 1 ELSE m.attempts]]
    /\ UNCHANGED <<running, open, table, entry, health>>

\* PeerConnection.close: a ping of the health checker that waits on it is cancelled; the
\* protocol stays open.
Cancelled(c) ==
    IF health.task = "sent" /\ health.conn = c THEN [health EXCEPT !.task = "cancelled"] ELSE health

\* _disconnect_peer removes whatever connection the table has for the peer id.
Removed(t, a) == [t EXCEPT ![managed[a].pid] = None]
Disconnect(a) ==
    LET p == managed[a].pid IN
    /\ table' = Removed(table, a)
    /\ entry' = [entry EXCEPT ![p].state = "disconnected"]
    /\ health' = Cancelled(managed[a].conn)
    /\ managed' = [managed EXCEPT ![a] = [@ EXCEPT !.task = "backoff", !.conn = None]]
    /\ Opens(open)

\* A ping that brought no answer in time, or that an overloaded connection refused.
Missed(a) ==
    IF managed[a].misses + 1 >= MaxMisses
    THEN Disconnect(a)
    ELSE managed' = [managed EXCEPT ![a].misses = @ + 1] /\ UNCHANGED <<open, table, entry, health>>

\* An answer finds its request through the table: one that comes by another connection than
\* the table's is dropped.
Answerable(c) == c \in open /\ \E p \in Peers : table[p] = c

\* A turn of the heartbeat loop, with the ping it sends and what becomes of it: its answer
\* concerns this task alone, so that the two are one step.
Beat(a) ==
    LET c == managed[a].conn IN
    /\ managed[a].task = "beat"
    /\ \/ c \notin open /\ Disconnect(a)
       \/ c \in open /\ Missed(a)
       \/ Answerable(c) /\ managed' = [managed EXCEPT ![a].misses = 0] /\ UNCHANGED <<open, table, entry, health>>
    /\ UNCHANGED <<running>>

-----------------------------------------------------------------------------
(* What peers do.                                                          *)

\* A peer connects and its hello is verified.
InboundHello(p) ==
    /\ table' = [table EXCEPT ![p] = New(p)]
    /\ Register(p, New(p))
    /\ UNCHANGED <<running, managed, health>>
    /\ Opens(open \cup {New(p)})

\* A ping of the peer, sent under its own id, brings its entry back.
InboundPing(p) ==
    /\ table[p] \in open
    /\ entry[p].state = "disconnected"
    /\ entry' = [entry EXCEPT ![p].state = "routable"]
    /\ UNCHANGED <<running, managed, open, table, health>>

\* An announcement registers the peer again, with the connection the table has.  A closed one
\* brings the state it was left in, whatever that is.
Announce(p) ==
    /\ \/ /\ table[p] = None
          /\ entry' = IF entry[p].state = "unknown" THEN [entry EXCEPT ![p].state = "discovered"] ELSE entry
       \/ /\ table[p] # None
          /\ \E s \in {"routable", "disconnected"} :
               /\ table[p] \in open => s = "routable"
               /\ entry' = [entry EXCEPT ![p] = [state |-> s, conn |-> table[p]]]
    /\ UNCHANGED <<running, managed, table, health>>
    /\ Opens(open)

\* The connection ends: closed by the peer, or idle for too long.
Terminated(c) ==
    /\ c \in open
    /\ \A a \in Addrs : managed[a].conn = c => managed[a].task # "hello"
    /\ open' = open \ {c}
    /\ UNCHANGED <<running, managed, table, entry, health>>

\* Whom peers_for_model offers to routing.
Offered(p) == Routable(p) /\ Live(p)

-----------------------------------------------------------------------------
(* The health checker.                                                     *)

\* Mutant: only connected peers are pinged.
CheckedConnected == {p \in Peers : Offered(p)}

\* Whom a round pings: peers that are connected, and peers that were found disconnected.
Checked == {p \in Peers : Offered(p) \/ (entry[p].state = "disconnected" /\ entry[p].conn # None)}

HealthBegin ==
    /\ health.task = "sleep"
    /\ health' = [health EXCEPT !.task = "check", !.todo = Checked]
    /\ UNCHANGED <<running, managed, open, table, entry>>

\* No answer, or a connection too loaded to ask.
HealthMissed(p) ==
    /\ health' = [health EXCEPT !.task = "check", !.at = None, !.conn = None, !.todo = @ \ {p},
                                !.misses[p] = IF @ < MaxHealthMisses THEN @ + 1 ELSE @]
    /\ entry' = IF health.misses[p] + 1 >= MaxHealthMisses
                THEN [entry EXCEPT ![p].state = "disconnected"] ELSE entry

HealthRefused(p) ==
    /\ health.task = "check" /\ p \in health.todo
    /\ HealthMissed(p)
    /\ UNCHANGED <<running, managed, open, table>>

HealthPing(p) ==
    /\ health.task = "check" /\ p \in health.todo
    /\ health' = [health EXCEPT !.task = "sent", !.todo = @ \ {p}, !.at = p, !.conn = entry[p].conn]
    /\ UNCHANGED <<running, managed, open, table, entry>>

HealthAnswered ==
    /\ health.task = "sent" /\ Answerable(health.conn)
    /\ health' = [health EXCEPT !.task = "answered"]
    /\ UNCHANGED <<running, managed, open, table, entry>>

HealthOk ==
    /\ health.task = "answered"
    /\ health' = [health EXCEPT !.task = "check", !.at = None, !.conn = None, !.misses[health.at] = 0]
    /\ entry' = [entry EXCEPT ![health.at].state = "routable"]
    /\ UNCHANGED <<running, managed, table>>
    /\ Opens(open)

HealthMiss ==
    /\ health.task = "sent"
    /\ HealthMissed(health.at)
    /\ UNCHANGED <<running, managed, table>>
    /\ Opens(open)

\* The connection was closed under the ping: the CancelledError ends the checker's loop.
HealthCut ==
    /\ health.task = "cancelled"
    /\ health' = [health EXCEPT !.task = "dead", !.todo = {}, !.at = None, !.conn = None]
    /\ UNCHANGED <<running, managed, table, entry>>
    /\ Opens(open)

HealthEnd ==
    /\ health.task = "check" /\ health.todo = {}
    /\ health' = [health EXCEPT !.task = "sleep"]
    /\ UNCHANGED <<running, managed, open, table, entry>>

-----------------------------------------------------------------------------
\* The manager's tasks are cancelled and its connections closed.
ManagerStopped ==
    [a \in Addrs |-> [managed[a] EXCEPT !.task = IF @ = "none" THEN @ ELSE "ended", !.conn = None]]

\* MycellmNode.shutdown: the manager, then the checker, then the table.
Shutdown ==
    /\ running
    /\ running' = FALSE
    /\ managed' = ManagerStopped
    /\ table' = [p \in Peers |-> None]
    /\ health' = [health EXCEPT !.task = "dead", !.todo = {}, !.at = None, !.conn = None]
    /\ UNCHANGED <<entry>>
    /\ Opens(open)

Manage(a) ==
    \/ DialFail(a) \/ DialOk(a) \/ HelloOk(a) \/ HelloFail(a) \/ HelloCut(a)
    \/ BackedOff(a) \/ Beat(a)
Remote(p) == PeerExchange(p) \/ InboundHello(p) \/ InboundPing(p) \/ Announce(p)
Check ==
    \/ HealthBegin \/ HealthAnswered \/ HealthOk \/ HealthMiss \/ HealthCut \/ HealthEnd
    \/ \E p \in Peers : HealthRefused(p) \/ HealthPing(p)

Next ==
    \/ /\ running
       /\ \/ \E a \in Addrs : Manage(a) \/ SelfHeal(a)
          \/ \E p \in Peers : Remote(p)
          \/ \E c \in Conns : Terminated(c)
          \/ Check
    \/ Shutdown

\* Tasks run until they return.  Of the network: a peer that is dialled over and over answers
\* in the end, and so does one that is pinged over and over.
Fairness ==
    /\ \A a \in Addrs : /\ WF_vars(running /\ Manage(a))
                        /\ SF_vars(running /\ DialOk(a)) /\ SF_vars(running /\ HelloOk(a))
    /\ WF_vars(running /\ Check) /\ SF_vars(running /\ HealthAnswered)
    /\ \A p \in Peers : SF_vars(running /\ HealthPing(p))
Spec == Init /\ [][Next]_vars /\ Fairness
-----------------------------------------------------------------------------
(* Properties.                                                             *)

(* A request leaves by the connection of the registry entry (node.py,      *)
(* route_inference) and its answer is looked up in the connection table:   *)
(* as long as the table has a connection of the peer, it is that one.      *)
AnswersReach == \A p \in Peers : table[p] # None => entry[p].conn = table[p]

(* A peer that answers the heartbeat of its address is in the table         *)
(* (peer_manager.py, "Clean up a disconnected peer").  With two addresses   *)
(* it need not be: _disconnect_peer of one takes out the peer, not the      *)
(* connection.                                                              *)
BeatingInTable == \A a \in Addrs : managed[a].task = "beat" => table[PeerAt[a]] # None

(* A managed connection that has ended is noticed by its heartbeat.        *)
LostIsNoticed ==
    \A a \in Addrs : managed[a].task = "beat" /\ managed[a].conn \notin open ~> managed[a].task # "beat"

(* A bootstrap address whose task still runs is dialled until it is        *)
(* connected.                                                              *)
Reconnects ==
    \A a \in Bootstrap : managed[a].task \in {"dial", "hello", "backoff"}
                           ~> managed[a].task \in {"beat", "ended"}

(* A managed connection that ends is noticed, and dialled again if it is a  *)
(* bootstrap's.                                                            *)
ConnectionsReturn == LostIsNoticed /\ Reconnects

(* A peer whose connection is open and in the table, but which is marked    *)
(* disconnected, is offered to routing again (router/health.py, "recovery  *)
(* path"), unless the checker itself has ended.                            *)
Recovers ==
    \A p \in Peers : entry[p].state = "disconnected" /\ table[p] \in open
                      ~> Routable(p) \/ table[p] \notin open \/ health.task = "dead"

(* "Bootstrap peers NEVER give up" (peer_manager.py:167).                   *)
BootstrapKept == running => \A a \in Bootstrap : managed[a].task # "ended"
=============================================================================
