---------------------------- MODULE PeeringProofs ----------------------------
(***************************************************************************)
(* Proofs about Peering, for any peers, addresses and limits, and any      *)
(* number of names from three on, and about Chat, for any models, nodes of *)
(* the fleet and constraints of requests.                                  *)
(***************************************************************************)
EXTENDS Peering, Chat, TLAPS

-----------------------------------------------------------------------------
(* The invariant.                                                          *)

\* What the manager, the registry and the checker hold.
ManagedPeers == [task : Tasks, conn : Conns \cup {None}, pid : Peers \cup {None},
                 attempts : 0 .. MaxAttempts, misses : 0 .. MaxMisses]
Entries == [state : {"unknown", "discovered", "routable", "disconnected"}, conn : Conns \cup {None}]
Checkers == [task : {"sleep", "check", "sent", "answered", "cancelled", "dead"}, todo : SUBSET Peers,
             at : Peers \cup {None}, conn : Conns \cup {None}, misses : [Peers -> 0 .. MaxHealthMisses]]

\* The peer at the other end of a connection.
Owner(c) == IF c[1] \in Addrs THEN PeerAt[c[1]] ELSE c[1]

\* A task has a connection when it waits for a hello or beats, one that it dialled, and knows
\* whom it beats for.
Holds(a, m) ==
    /\ m \in ManagedPeers
    /\ m.conn # None => m.conn[1] = a
    /\ m.conn # None <=> m.task \in {"hello", "beat"}
    /\ m.task = "beat" => m.pid = PeerAt[a]
Managing == managed \in [Addrs -> ManagedPeers] /\ \A a \in Addrs : Holds(a, managed[a])

\* Table and registry agree on a peer, and have connections of it.
Agree(p) ==
    /\ table[p] # None => entry[p].conn = table[p]
    /\ entry[p].conn # None => Owner(entry[p].conn) = p
Agreeing ==
    /\ table \in [Peers -> Conns \cup {None}] /\ entry \in [Peers -> Entries]
    /\ \A p \in Peers : Agree(p)

\* The checker has a peer and a connection only while it pings.
Pings(h) ==
    /\ h \in Checkers
    /\ h.at \in Peers <=> h.task \in {"sent", "answered", "cancelled"}
    /\ h.conn # None => h.task \in {"sent", "answered", "cancelled"}

IInv ==
    /\ running \in BOOLEAN
    /\ Managing /\ Agreeing /\ Pings(health)
    /\ open \subseteq Conns /\ open \subseteq Referred

\* Whoever makes a connection finds a name for it, and not that of an open one (the bound Names).
NameLeft ==
    /\ \A a \in Addrs : managed[a].task = "dial" => Free(a) # {}
    /\ \A p \in Peers : Free(p) # {}
    /\ \A x \in Addrs \cup Peers : \A i \in Free(x) : <<x, i>> \notin open

LEMMA IInvTypes == IInv => TypeOK
  BY DEF IInv, TypeOK, Managing, Agreeing, Pings, ManagedPeers, Entries, Checkers

-----------------------------------------------------------------------------
(* Names.                                                                  *)

LEMMA OpenRefers == IInv => \A c \in open : c \in Conns /\ c # None
  BY NoneAssumption DEF IInv

\* Of a peer that connects, or an address that is dialled, only the registry's entry and the
\* checker have connections: the table has that of the entry.
LEMMA TwoRefer ==
    ASSUME IInv, NEW x \in Addrs \cup Peers, x \in Addrs => managed[x].conn = None, NEW i \in Names,
           <<x, i>> \in Referred
    PROVE  <<x, i>> \in {entry[IF x \in Addrs THEN PeerAt[x] ELSE x].conn, health.conn}
<1> DEFINE c == <<x, i>>
<1>1. c \in Conns /\ c # None /\ c[1] = x
  BY NoneAssumption DEF Conns
<1>2. Owner(c) = IF x \in Addrs THEN PeerAt[x] ELSE x
  BY <1>1 DEF Owner
<1>3. CASE \E a \in Addrs : c = managed[a].conn
  BY <1>1, <1>3, AddrsAssumption DEF IInv, Managing, Holds
<1>4. CASE \E p \in Peers : c = table[p]
  BY <1>1, <1>2, <1>4 DEF IInv, Agreeing, Agree
<1>5. CASE \E p \in Peers : c = entry[p].conn
  BY <1>1, <1>2, <1>5 DEF IInv, Agreeing, Agree
<1>6. QED
  BY <1>3, <1>4, <1>5 DEF Referred

LEMMA NameFound ==
    ASSUME IInv, NEW x \in Addrs \cup Peers, x \in Addrs => managed[x].conn = None
    PROVE  Free(x) # {}
<1>1. SUFFICES ASSUME Free(x) = {} PROVE FALSE
  OBVIOUS
<1>2. PICK i \in Names, j \in Names, k \in Names : i # j /\ i # k /\ j # k
  BY NamesAssumption
<1>3. <<x, i>> \in Referred /\ <<x, j>> \in Referred /\ <<x, k>> \in Referred
  BY <1>1 DEF Free
<1> DEFINE e == entry[IF x \in Addrs THEN PeerAt[x] ELSE x].conn
<1>4. <<x, i>> \in {e, health.conn} /\ <<x, j>> \in {e, health.conn} /\ <<x, k>> \in {e, health.conn}
  BY <1>3, TwoRefer
<1>5. <<x, i>> # <<x, j>> /\ <<x, i>> # <<x, k>> /\ <<x, j>> # <<x, k>>
  BY <1>2
<1>6. QED
  BY <1>4, <1>5

\* A new connection is one of its maker's, and known to nobody.
LEMMA NewIsNew ==
    ASSUME IInv, NEW x \in Addrs \cup Peers, x \in Addrs => managed[x].conn = None
    PROVE  New(x) \in Conns /\ New(x) # None /\ New(x)[1] = x /\ New(x) \notin Referred
<1>1. PICK i \in Free(x) : New(x) = <<x, i>>
  BY NameFound DEF New
<1>2. QED
  BY <1>1, NoneAssumption DEF Free, Conns

LEMMA NamesLeft == IInv => NameLeft
<1>1. SUFFICES ASSUME IInv PROVE NameLeft
  OBVIOUS
<1>2. ASSUME NEW a \in Addrs, managed[a].task = "dial" PROVE Free(a) # {}
  BY <1>1, <1>2, NameFound DEF IInv, Managing, Holds
<1>3. ASSUME NEW p \in Peers PROVE Free(p) # {}
  BY <1>1, NameFound, AddrsAssumption
<1>4. ASSUME NEW x \in Addrs \cup Peers, NEW i \in Free(x) PROVE <<x, i>> \notin open
  BY <1>1 DEF Free, IInv
<1>5. QED
  BY <1>2, <1>3, <1>4 DEF NameLeft

-----------------------------------------------------------------------------
(* The manager.                                                            *)

LEMMA FreshHolds == \A a \in Addrs : Holds(a, Fresh) /\ Holds(a, Nobody)
  BY LimitsAssumption DEF Holds, ManagedPeers, Fresh, Nobody, Tasks

\* What the task of an address makes of its ManagedPeer.
LEMMA DialFailedHolds ==
    ASSUME IInv, NEW a \in Addrs PROVE Holds(a, Retry(a, [managed[a] EXCEPT !.conn = None]))
  BY FreshHolds DEF IInv, Managing, Holds, ManagedPeers, Retry, Tasks

LEMMA DisconnectHolds ==
    ASSUME IInv, NEW a \in Addrs
    PROVE  Holds(a, [managed[a] EXCEPT !.task = "backoff", !.conn = None])
  BY DEF IInv, Managing, Holds, ManagedPeers, Tasks

\* A record of one address is replaced.
LEMMA OneManaged ==
    ASSUME Managing, NEW a \in Addrs, NEW m, Holds(a, m), managed' = [managed EXCEPT ![a] = m]
    PROVE  Managing'
<1>1. m \in ManagedPeers
  BY DEF Holds
<1>2. managed' \in [Addrs -> ManagedPeers]
  BY <1>1 DEF Managing
<1>3. ASSUME NEW b \in Addrs PROVE Holds(b, managed'[b])
  BY DEF Managing
<1>4. QED
  BY <1>2, <1>3 DEF Managing, Holds

LEMMA AddHolds ==
    ASSUME Managing, NEW as \in SUBSET Addrs,
           managed' = [a \in Addrs |-> IF a \in as THEN Fresh ELSE managed[a]]
    PROVE  Managing'
<1>1. \A b \in Addrs : managed'[b] = IF b \in as THEN Fresh ELSE managed[b]
  OBVIOUS
<1>2. \A b \in Addrs : Holds(b, managed'[b])
  BY <1>1, FreshHolds DEF Managing
<1>3. managed' \in [Addrs -> ManagedPeers]
  BY <1>2 DEF Holds
<1>4. QED
  BY <1>2, <1>3 DEF Managing, Holds

LEMMA DialOkHolds ==
    ASSUME IInv, NEW a \in Addrs, managed[a].task = "dial"
    PROVE  Holds(a, [managed[a] EXCEPT !.task = "hello", !.conn = New(a)])
<1>1. managed[a].conn = None /\ Holds(a, managed[a])
  BY DEF IInv, Managing, Holds
<1>2. New(a) \in Conns /\ New(a) # None /\ New(a)[1] = a
  BY <1>1, NewIsNew
<1>3. QED
  BY <1>1, <1>2 DEF Holds, ManagedPeers, Tasks

LEMMA HelloOkHolds ==
    ASSUME IInv, NEW a \in Addrs, managed[a].task = "hello"
    PROVE  Holds(a, [Fresh EXCEPT !.task = "beat", !.conn = managed[a].conn, !.pid = PeerAt[a]])
<1>1. Holds(a, managed[a]) /\ PeerAt[a] \in Peers
  BY AddrsAssumption DEF IInv, Managing
<1>2. ASSUME NEW m \in ManagedPeers
      PROVE  Holds(a, [m EXCEPT !.task = "beat", !.conn = managed[a].conn, !.pid = PeerAt[a]])
  BY <1>1 DEF Holds, ManagedPeers, Tasks
<1>3. Fresh \in ManagedPeers
  BY FreshHolds DEF Holds
<1>4. QED
  BY <1>2, <1>3

LEMMA HelloCutHolds ==
    ASSUME IInv, NEW a \in Addrs
    PROVE  Holds(a, [managed[a] EXCEPT !.task = "ended", !.conn = None])
  BY DEF IInv, Managing, Holds, ManagedPeers, Tasks

LEMMA BackedOffHolds ==
    ASSUME IInv, NEW a \in Addrs, managed[a].task = "backoff"
    PROVE  Holds(a, [managed[a] EXCEPT !.task = "dial", !.attempts = IF @ < MaxAttempts THEN @ + 1 ELSE @])
<1>1. Holds(a, managed[a])
  BY DEF IInv, Managing
<1>2. managed[a].attempts \in 0 .. MaxAttempts
  BY <1>1 DEF Holds, ManagedPeers
<1>3. (IF managed[a].attempts < MaxAttempts THEN managed[a].attempts + 1 ELSE managed[a].attempts)
           \in 0 .. MaxAttempts
  BY <1>2, LimitsAssumption
<1>4. QED
  BY <1>1, <1>3 DEF Holds, ManagedPeers, Tasks

LEMMA MissHolds ==
    ASSUME IInv, NEW a \in Addrs, managed[a].misses + 1 < MaxMisses
    PROVE  /\ Holds(a, [managed[a] EXCEPT !.misses = @ + 1])
           /\ Holds(a, [managed[a] EXCEPT !.misses = 0])
<1>1. Holds(a, managed[a])
  BY DEF IInv, Managing
<1>2. managed[a].misses \in 0 .. MaxMisses
  BY <1>1 DEF Holds, ManagedPeers
<1>3. managed[a].misses + 1 \in 0 .. MaxMisses /\ 0 \in 0 .. MaxMisses
  BY <1>2, LimitsAssumption
<1>4. QED
  BY <1>1, <1>3 DEF Holds, ManagedPeers

LEMMA AnswerHolds ==
    ASSUME IInv, NEW a \in Addrs PROVE Holds(a, [managed[a] EXCEPT !.misses = 0])
<1>1. Holds(a, managed[a]) /\ 0 \in 0 .. MaxMisses
  BY LimitsAssumption DEF IInv, Managing
<1>2. QED
  BY <1>1 DEF Holds, ManagedPeers

LEMMA StopHolds ==
    ASSUME IInv, NEW a \in Addrs
    PROVE  Holds(a, [managed[a] EXCEPT !.task = IF @ = "none" THEN @ ELSE "ended", !.conn = None])
  BY DEF IInv, Managing, Holds, ManagedPeers, Tasks

\* What an address's task has of the state.
LEMMA ManageManaging == ASSUME IInv, NEW a \in Addrs, Manage(a) PROVE Managing'
<1>0. Managing
  BY DEF IInv
<1>1. CASE DialFail(a)
  <2>1. managed' = [managed EXCEPT ![a] = Retry(a, [managed[a] EXCEPT !.conn = None])]
    BY <1>1 DEF DialFail, DialFailed
  <2>2. QED
    BY <1>0, <2>1, DialFailedHolds, OneManaged
<1>2. CASE DialOk(a)
  <2>1. managed' = [managed EXCEPT ![a] = [managed[a] EXCEPT !.task = "hello", !.conn = New(a)]]
    BY <1>2 DEF DialOk
  <2>2. QED
    BY <1>0, <1>2, <2>1, DialOkHolds, OneManaged DEF DialOk
<1>3. CASE HelloOk(a)
  <2>1. managed' = [managed EXCEPT ![a] = [Fresh EXCEPT !.task = "beat", !.conn = managed[a].conn,
                                                        !.pid = PeerAt[a]]]
    BY <1>3 DEF HelloOk
  <2>2. QED
    BY <1>0, <1>3, <2>1, HelloOkHolds, OneManaged DEF HelloOk
<1>4. CASE HelloFail(a)
  <2>1. managed' = [managed EXCEPT ![a] = Retry(a, [managed[a] EXCEPT !.conn = None])]
    BY <1>4 DEF HelloFail, DialFailed
  <2>2. QED
    BY <1>0, <2>1, DialFailedHolds, OneManaged
<1>5. CASE HelloCut(a)
  <2>1. managed' = [managed EXCEPT ![a] = [managed[a] EXCEPT !.task = "ended", !.conn = None]]
    BY <1>5 DEF HelloCut
  <2>2. QED
    BY <1>0, <2>1, HelloCutHolds, OneManaged
<1>6. CASE BackedOff(a)
  <2>1. managed' = [managed EXCEPT ![a] = [managed[a] EXCEPT !.task = "dial",
                       !.attempts = IF @ < MaxAttempts THEN @ + 1 ELSE @]]
    BY <1>6 DEF BackedOff
  <2>2. QED
    BY <1>0, <1>6, <2>1, BackedOffHolds, OneManaged DEF BackedOff
<1>7. CASE Beat(a)
  <2>1. CASE managed' = [managed EXCEPT ![a] = [managed[a] EXCEPT !.task = "backoff", !.conn = None]]
    BY <1>0, <2>1, DisconnectHolds, OneManaged
  <2>2. CASE managed[a].misses + 1 < MaxMisses /\ managed' = [managed EXCEPT ![a].misses = @ + 1]
    <3>1. managed' = [managed EXCEPT ![a] = [managed[a] EXCEPT !.misses = @ + 1]]
      BY <2>2
    <3>2. QED
      BY <1>0, <2>2, <3>1, MissHolds, OneManaged
  <2>3. CASE managed' = [managed EXCEPT ![a].misses = 0]
    <3>1. managed' = [managed EXCEPT ![a] = [managed[a] EXCEPT !.misses = 0]]
      BY <2>3
    <3>2. QED
      BY <1>0, <3>1, AnswerHolds, OneManaged
  <2>4. managed[a].misses + 1 < MaxMisses \/ managed[a].misses + 1 >= MaxMisses
    BY <1>0, LimitsAssumption DEF Managing, ManagedPeers
  <2>5. QED
    BY <1>7, <2>1, <2>2, <2>3, <2>4 DEF Beat, Missed, Disconnect
<1>8. QED
  BY <1>1, <1>2, <1>3, <1>4, <1>5, <1>6, <1>7 DEF Manage

LEMMA ManagingStep == ASSUME IInv, [Next]_vars PROVE Managing'
<1>0. Managing
  BY DEF IInv
<1>1. ASSUME NEW a \in Addrs, SelfHeal(a) PROVE Managing'
  <2>1. managed' = [managed EXCEPT ![a] = Fresh]
    BY <1>1 DEF SelfHeal, AddPeer
  <2>2. QED
    BY <1>0, <2>1, FreshHolds, OneManaged
<1>2. ASSUME NEW p \in Peers, PeerExchange(p) PROVE Managing'
  <2>1. PICK as \in Tellable(p) : Told(p, as)
    BY <1>2 DEF PeerExchange
  <2>2. PICK dialled \in SUBSET {a \in as : Addable(a, p, managed)} :
            managed' = [a \in Addrs |-> IF a \in dialled THEN Fresh ELSE managed[a]]
    BY <2>1 DEF Told
  <2>3. dialled \in SUBSET Addrs
    BY <2>1, <2>2 DEF Tellable
  <2>4. QED
    BY <1>0, <2>2, <2>3, AddHolds
<1>3. CASE Shutdown
  <2>1. \A a \in Addrs : managed'[a] = [managed[a] EXCEPT !.task = IF @ = "none" THEN @ ELSE "ended",
                                                         !.conn = None]
    BY <1>3 DEF Shutdown, ManagerStopped
  <2>2. \A a \in Addrs : Holds(a, managed'[a])
    BY <2>1, StopHolds
  <2>3. managed' \in [Addrs -> ManagedPeers]
    BY <1>3, <2>2 DEF Shutdown, ManagerStopped, Holds
  <2>4. QED
    BY <2>2, <2>3 DEF Managing, Holds
<1>4. CASE UNCHANGED managed
  BY <1>0, <1>4 DEF Managing, Holds
<1>5. QED
  BY <1>1, <1>2, <1>3, <1>4, ManageManaging
     DEF Next, Remote, InboundHello, InboundPing, Announce, Terminated, Check, HealthBegin, HealthAnswered,
         HealthOk, HealthMiss, HealthCut, HealthEnd, HealthRefused, HealthPing, vars

-----------------------------------------------------------------------------
(* Table and registry.                                                     *)

\* An entry is replaced by one that agrees with the table.
LEMMA EntryAgrees ==
    ASSUME Agreeing, NEW p \in Peers, NEW e \in Entries,
           table' \in [Peers -> Conns \cup {None}],
           \A q \in Peers : q # p => table'[q] \in {table[q], None},
           table'[p] # None => e.conn = table'[p],
           e.conn # None => Owner(e.conn) = p,
           entry' = [entry EXCEPT ![p] = e]
    PROVE  Agreeing'
<1>1. entry' \in [Peers -> Entries]
  BY DEF Agreeing
<1>2. \A q \in Peers : entry'[q] = IF q = p THEN e ELSE entry[q]
  BY DEF Agreeing
<1>3. ASSUME NEW q \in Peers PROVE Agree(q)'
  <2>1. Agree(q)
    BY DEF Agreeing
  <2>2. entry'[q] = IF q = p THEN e ELSE entry[q]
    BY <1>2
  <2>3. (table'[q] # None => entry'[q].conn = table'[q]) /\ (entry'[q].conn # None => Owner(entry'[q].conn) = q)
    BY <2>1, <2>2 DEF Agree
  <2>4. QED
    BY <2>3 DEF Agree, Owner
<1>4. QED
  BY <1>1, <1>3 DEF Agreeing

\* Only the state of an entry changes, and the table loses connections at most.
LEMMA StateAgrees ==
    ASSUME Agreeing, NEW p \in Peers, NEW s \in {"discovered", "routable", "disconnected"},
           table' \in [Peers -> Conns \cup {None}], \A q \in Peers : table'[q] \in {table[q], None},
           entry' = [entry EXCEPT ![p].state = s]
    PROVE  Agreeing'
<1> DEFINE e == [entry[p] EXCEPT !.state = s]
<1>1. e \in Entries /\ e.conn = entry[p].conn
  BY DEF Agreeing, Entries
<1>2. entry' = [entry EXCEPT ![p] = e]
  OBVIOUS
<1>3. Agree(p)
  BY DEF Agreeing
<1>4. (table'[p] # None => e.conn = table'[p]) /\ (e.conn # None => Owner(e.conn) = p)
  BY <1>1, <1>3 DEF Agree
<1> HIDE DEF e
<1>5. QED
  BY <1>1, <1>2, <1>4, EntryAgrees

LEMMA TableAgrees ==
    ASSUME Agreeing, table' \in [Peers -> Conns \cup {None}],
           \A q \in Peers : table'[q] \in {table[q], None}, UNCHANGED entry
    PROVE  Agreeing'
  BY DEF Agreeing, Agree, Owner

\* A connection that shook hands is the peer's.
LEMMA RegisterAgrees ==
    ASSUME Agreeing, NEW p \in Peers, NEW c \in Conns, Owner(c) = p,
           table' = [table EXCEPT ![p] = c], Register(p, c)
    PROVE  Agreeing'
<1> DEFINE e == [state |-> "routable", conn |-> c]
<1>1. e \in Entries /\ e.conn = c
  BY DEF Entries
<1>2. entry' = [entry EXCEPT ![p] = e]
  BY DEF Register
<1>3. /\ table' \in [Peers -> Conns \cup {None}]
      /\ \A q \in Peers : table'[q] = IF q = p THEN c ELSE table[q]
  BY DEF Agreeing
<1> HIDE DEF e
<1>4. QED
  BY <1>1, <1>2, <1>3, EntryAgrees

LEMMA DisconnectAgrees ==
    ASSUME IInv, NEW a \in Addrs, managed[a].task = "beat", Disconnect(a) PROVE Agreeing'
<1> DEFINE p == managed[a].pid
<1>1. Agreeing /\ p \in Peers
  BY AddrsAssumption DEF IInv, Managing, Holds
<1>2. /\ table' \in [Peers -> Conns \cup {None}]
      /\ \A q \in Peers : table'[q] \in {table[q], None}
  BY <1>1 DEF Disconnect, Removed, Agreeing
<1>3. entry' = [entry EXCEPT ![p].state = "disconnected"]
  BY DEF Disconnect
<1>4. QED
  BY <1>1, <1>2, <1>3, StateAgrees

\* A peer is told of: its entry is made, or left alone.
LEMMA DiscoveredAgrees ==
    ASSUME Agreeing, NEW p \in Peers, UNCHANGED table,
           entry' = IF entry[p].state = "unknown" THEN [entry EXCEPT ![p].state = "discovered"] ELSE entry
    PROVE  Agreeing'
<1>1. table' \in [Peers -> Conns \cup {None}] /\ \A q \in Peers : table'[q] \in {table[q], None}
  BY DEF Agreeing
<1>2. CASE entry' = [entry EXCEPT ![p].state = "discovered"]
  BY <1>1, <1>2, StateAgrees
<1>3. CASE UNCHANGED entry
  BY <1>1, <1>3, TableAgrees
<1>4. QED
  BY <1>2, <1>3

LEMMA AnnounceAgrees == ASSUME IInv, NEW p \in Peers, Announce(p) PROVE Agreeing'
<1>0. Agreeing /\ UNCHANGED table
  BY DEF IInv, Announce
<1>1. CASE entry' = IF entry[p].state = "unknown" THEN [entry EXCEPT ![p].state = "discovered"] ELSE entry
  BY <1>0, <1>1, DiscoveredAgrees
<1>2. CASE \E s \in {"routable", "disconnected"} :
             table[p] # None /\ entry' = [entry EXCEPT ![p] = [state |-> s, conn |-> table[p]]]
  <2>1. PICK s \in {"routable", "disconnected"} :
          table[p] # None /\ entry' = [entry EXCEPT ![p] = [state |-> s, conn |-> table[p]]]
    BY <1>2
  <2> DEFINE e == [state |-> s, conn |-> table[p]]
  <2>2. e \in Entries /\ e.conn = table[p]
    BY <1>0 DEF Agreeing, Entries
  <2>3. Owner(table[p]) = p
    BY <1>0, <2>1 DEF Agreeing, Agree
  <2>4. entry' = [entry EXCEPT ![p] = e]
    BY <2>1
  <2> HIDE DEF e
  <2>5. table' \in [Peers -> Conns \cup {None}]
    BY <1>0 DEF Agreeing
  <2>6. QED
    BY <1>0, <2>2, <2>3, <2>4, <2>5, EntryAgrees
<1>3. QED
  BY <1>1, <1>2 DEF Announce

LEMMA MissAgrees ==
    ASSUME Agreeing, NEW p \in Peers, UNCHANGED table, HealthMissed(p) PROVE Agreeing'
<1>1. table' \in [Peers -> Conns \cup {None}] /\ \A q \in Peers : table'[q] \in {table[q], None}
  BY DEF Agreeing
<1>2. CASE entry' = [entry EXCEPT ![p].state = "disconnected"]
  BY <1>1, <1>2, StateAgrees
<1>3. CASE UNCHANGED entry
  BY <1>1, <1>3, TableAgrees
<1>4. QED
  BY <1>2, <1>3 DEF HealthMissed

LEMMA AgreeingStep == ASSUME IInv, [Next]_vars PROVE Agreeing'
<1>0. /\ Agreeing
      /\ UNCHANGED table => table' \in [Peers -> Conns \cup {None}] /\ \A q \in Peers : table'[q] \in {table[q], None}
  BY DEF IInv, Agreeing
<1>1. ASSUME NEW a \in Addrs, HelloOk(a) PROVE Agreeing'
  <2> DEFINE c == managed[a].conn
             p == PeerAt[a]
  <2>1. p \in Peers /\ c \in Conns /\ Owner(c) = p
    <3>1. c \in open /\ Holds(a, managed[a])
      BY <1>1 DEF HelloOk, IInv, Managing
    <3>2. c \in Conns /\ c # None
      BY <3>1, OpenRefers
    <3>3. QED
      BY <3>1, <3>2, AddrsAssumption DEF Holds, Owner
  <2>2. table' = [table EXCEPT ![p] = c] /\ Register(p, c)
    BY <1>1 DEF HelloOk
  <2>3. QED
    BY <1>0, <2>1, <2>2, RegisterAgrees
<1>2. ASSUME NEW a \in Addrs, Beat(a) PROVE Agreeing'
  <2>1. CASE Disconnect(a)
    BY <1>2, <2>1, DisconnectAgrees DEF Beat
  <2>2. CASE UNCHANGED <<table, entry>>
    BY <1>0, <2>2, TableAgrees
  <2>3. QED
    BY <1>2, <2>1, <2>2 DEF Beat, Missed
<1>3. ASSUME NEW p \in Peers, PeerExchange(p) PROVE Agreeing'
  <2>1. PICK as \in Tellable(p) : Told(p, as)
    BY <1>3 DEF PeerExchange
  <2>2. QED
    BY <1>0, <1>3, <2>1, DiscoveredAgrees DEF Told, PeerExchange
<1>4. ASSUME NEW p \in Peers, InboundHello(p) PROVE Agreeing'
  <2>1. New(p) \in Conns /\ New(p)[1] = p /\ p \notin Addrs
    BY NewIsNew, AddrsAssumption
  <2>2. Owner(New(p)) = p
    BY <2>1 DEF Owner
  <2>3. table' = [table EXCEPT ![p] = New(p)] /\ Register(p, New(p))
    BY <1>4 DEF InboundHello
  <2>4. QED
    BY <1>0, <2>1, <2>2, <2>3, RegisterAgrees
<1>5. ASSUME NEW p \in Peers, InboundPing(p) PROVE Agreeing'
  BY <1>0, <1>5, StateAgrees DEF InboundPing
<1>6. ASSUME NEW p \in Peers, HealthRefused(p) PROVE Agreeing'
  BY <1>0, <1>6, MissAgrees DEF HealthRefused
<1>7. CASE HealthOk
  <2>1. health.at \in Peers
    BY <1>7 DEF IInv, Pings, HealthOk
  <2>2. QED
    BY <1>0, <1>7, <2>1, StateAgrees DEF HealthOk
<1>8. CASE HealthMiss
  <2>1. health.at \in Peers
    BY <1>8 DEF IInv, Pings, HealthMiss
  <2>2. QED
    BY <1>0, <1>8, <2>1, MissAgrees DEF HealthMiss
<1>9. CASE Shutdown
  <2>1. table' \in [Peers -> Conns \cup {None}] /\ (\A q \in Peers : table'[q] = None) /\ UNCHANGED entry
    BY <1>9 DEF Shutdown
  <2>2. QED
    BY <1>0, <2>1, TableAgrees
<1>10. CASE UNCHANGED <<table, entry>>
  BY <1>0, <1>10, TableAgrees
<1>11. QED
  BY <1>1, <1>2, <1>3, <1>4, <1>5, <1>6, <1>7, <1>8, <1>9, <1>10, AnnounceAgrees
     DEF Next, Manage, DialFail, DialOk, HelloFail, HelloCut, BackedOff, SelfHeal, Remote, Terminated, Check,
         HealthBegin, HealthAnswered, HealthCut, HealthEnd, HealthPing, vars

-----------------------------------------------------------------------------
(* The health checker.                                                     *)

LEMMA CancelledPings == ASSUME Pings(health), NEW c PROVE Pings(Cancelled(c))
  BY DEF Pings, Checkers, Cancelled

\* A missed ping counts up to the limit.
LEMMA MissPings ==
    ASSUME Pings(health), NEW p \in Peers, HealthMissed(p) PROVE Pings(health')
<1> DEFINE n == IF health.misses[p] < MaxHealthMisses THEN health.misses[p] + 1 ELSE health.misses[p]
           f == [health.misses EXCEPT ![p] = n]
<1>1. health \in Checkers /\ health.misses \in [Peers -> 0 .. MaxHealthMisses]
  BY DEF Pings, Checkers
<1>2. n \in 0 .. MaxHealthMisses
  BY <1>1, LimitsAssumption
<1>3. f \in [Peers -> 0 .. MaxHealthMisses]
  BY <1>1, <1>2
<1>4. health' = [health EXCEPT !.task = "check", !.at = None, !.conn = None, !.todo = health.todo \ {p},
                              !.misses = f]
  BY DEF HealthMissed
<1> HIDE DEF f
<1>5. QED
  BY <1>1, <1>3, <1>4, NoneAssumption DEF Pings, Checkers

LEMMA OkPings == ASSUME Pings(health), HealthOk PROVE Pings(health')
<1> DEFINE f == [health.misses EXCEPT ![health.at] = 0]
<1>1. health \in Checkers /\ health.misses \in [Peers -> 0 .. MaxHealthMisses]
  BY DEF Pings, Checkers
<1>2. f \in [Peers -> 0 .. MaxHealthMisses]
  <2>1. 0 \in 0 .. MaxHealthMisses
    BY LimitsAssumption
  <2>2. QED
    BY <1>1, <2>1
<1>3. health' = [health EXCEPT !.task = "check", !.at = None, !.conn = None, !.misses = f]
  BY DEF HealthOk
<1> HIDE DEF f
<1>4. QED
  BY <1>1, <1>2, <1>3, NoneAssumption DEF Pings, Checkers

LEMMA PingsStep == ASSUME IInv, [Next]_vars PROVE Pings(health')
<1>0. Pings(health) /\ health \in Checkers
  BY DEF IInv, Pings
<1>1. CASE HealthBegin
  BY <1>0, <1>1 DEF HealthBegin, Pings, Checkers, Checked
<1>2. ASSUME NEW p \in Peers, HealthPing(p) PROVE Pings(health')
  <2>1. entry[p].conn \in Conns \cup {None}
    BY DEF IInv, Agreeing, Entries
  <2>2. QED
    BY <1>0, <1>2, <2>1 DEF HealthPing, Pings, Checkers
<1>3. ASSUME NEW p \in Peers, HealthRefused(p) PROVE Pings(health')
  BY <1>0, <1>3, MissPings DEF HealthRefused
<1>4. CASE HealthAnswered
  BY <1>0, <1>4 DEF HealthAnswered, Pings, Checkers
<1>5. CASE HealthOk
  BY <1>0, <1>5, OkPings
<1>6. CASE HealthMiss
  BY <1>0, <1>6, MissPings DEF HealthMiss, Pings
<1>7. CASE HealthCut
  BY <1>0, <1>7, NoneAssumption DEF HealthCut, Pings, Checkers
<1>8. CASE HealthEnd
  BY <1>0, <1>8 DEF HealthEnd, Pings, Checkers
<1>9. CASE Shutdown
  BY <1>0, <1>9, NoneAssumption DEF Shutdown, Pings, Checkers
<1>10. ASSUME NEW a \in Addrs, Disconnect(a) PROVE Pings(health')
  BY <1>0, <1>10, CancelledPings DEF Disconnect
<1>11. CASE UNCHANGED health
  BY <1>0, <1>11
<1>12. QED
  BY <1>1, <1>2, <1>3, <1>4, <1>5, <1>6, <1>7, <1>8, <1>9, <1>10, <1>11
     DEF Next, Manage, DialFail, DialOk, HelloOk, HelloFail, HelloCut, BackedOff, Beat, Missed, SelfHeal, Remote,
         PeerExchange, InboundHello, InboundPing, Announce, Terminated, Check, vars

-----------------------------------------------------------------------------
(* The open connections.                                                   *)

\* Whatever a step does not forget stays referred to.
LEMMA StillReferred ==
    ASSUME \A a \in Addrs : managed[a].conn \in {managed'[a].conn, None},
           \A p \in Peers : table[p] \in {table'[p], None},
           \A p \in Peers : entry[p].conn \in {entry'[p].conn, None},
           health.conn \in {health'.conn, None},
           NEW c \in Referred, c # None
    PROVE  c \in Referred'
  BY DEF Referred

Open == open \subseteq Conns /\ open \subseteq Referred

LEMMA OpensOpen == ASSUME NEW cs \in SUBSET Conns, Opens(cs) PROVE Open'
  BY DEF Opens, Open, Conns

\* Nothing is forgotten while no connection is opened.
LEMMA KeepsOpen ==
    ASSUME IInv, open' \subseteq open,
           \A a \in Addrs : managed[a].conn \in {managed'[a].conn, None},
           UNCHANGED table,
           \A p \in Peers : entry'[p].conn = entry[p].conn,
           health.conn \in {health'.conn, None}
    PROVE  Open'
<1>1. \A c \in open : c \in Referred /\ c # None /\ c \in Conns
  BY OpenRefers DEF IInv
<1>2. \A c \in open : c \in Referred'
  BY <1>1, StillReferred
<1>3. QED
  BY <1>1, <1>2 DEF Open, Conns

\* A state of an entry is no connection.
LEMMA StateOnly ==
    ASSUME Agreeing, NEW p \in Peers, NEW s, entry' = [entry EXCEPT ![p].state = s]
    PROVE  \A q \in Peers : entry'[q].conn = entry[q].conn
  BY DEF Agreeing, Entries

\* Nor has an address a connection that is added or only waits.
LEMMA OtherManaged ==
    ASSUME Managing, NEW a \in Addrs, NEW m, managed' = [managed EXCEPT ![a] = m],
           managed[a].conn \in {m.conn, None}
    PROVE  \A b \in Addrs : managed[b].conn \in {managed'[b].conn, None}
  BY DEF Managing

LEMMA ManageOpen == ASSUME IInv, NEW a \in Addrs, Manage(a) PROVE Open'
<1>0. Managing /\ Holds(a, managed[a]) /\ open \in SUBSET Conns /\ managed[a] \in ManagedPeers
  BY DEF IInv, Managing, Holds
<1>1. CASE DialFail(a)
  <2>1. managed[a].conn = None /\ managed' = [managed EXCEPT ![a] = Retry(a, [@ EXCEPT !.conn = None])]
    BY <1>0, <1>1 DEF DialFail, DialFailed, Holds
  <2>2. \A b \in Addrs : managed[b].conn \in {managed'[b].conn, None}
    BY <1>0, <2>1, OtherManaged
  <2>3. QED
    BY <1>1, <2>2, KeepsOpen DEF DialFail
<1>2. CASE DialOk(a)
  <2>1. managed[a].conn = None /\ managed' = [managed EXCEPT ![a] = [@ EXCEPT !.task = "hello", !.conn = New(a)]]
    BY <1>0, <1>2 DEF DialOk, Holds
  <2>2. \A b \in Addrs : managed[b].conn \in {managed'[b].conn, None}
    BY <1>0, <2>1, OtherManaged
  <2>3. managed'[a].conn = New(a) /\ New(a) \in Conns
    BY <1>0, <2>1, NewIsNew DEF Managing, ManagedPeers
  <2>4. New(a) \in Referred'
    BY <2>3 DEF Referred
  <2>5. \A c \in open : c \in Referred'
    <3>1. \A c \in open : c \in Referred /\ c # None
      BY OpenRefers DEF IInv
    <3>2. UNCHANGED <<table, entry, health>>
      BY <1>2 DEF DialOk
    <3>3. QED
      BY <2>2, <3>1, <3>2, StillReferred
  <2>6. open' = open \cup {New(a)}
    BY <1>2 DEF DialOk
  <2>7. QED
    BY <1>0, <2>3, <2>4, <2>5, <2>6 DEF Open, Conns
<1>3. CASE HelloOk(a) \/ HelloFail(a) \/ HelloCut(a)
  BY <1>0, <1>3, OpensOpen DEF HelloOk, HelloFail, HelloCut
<1>4. CASE BackedOff(a)
  <2>1. managed[a].conn = None /\ \E m : managed' = [managed EXCEPT ![a] = m]
    BY <1>0, <1>4 DEF BackedOff, Holds
  <2>2. \A b \in Addrs : managed[b].conn \in {managed'[b].conn, None}
    BY <1>0, <2>1, OtherManaged
  <2>3. QED
    BY <1>4, <2>2, KeepsOpen DEF BackedOff
<1>5. CASE Beat(a)
  <2>1. CASE Disconnect(a)
    BY <1>0, <2>1, OpensOpen DEF Disconnect
  <2>2. CASE /\ \E n : managed' = [managed EXCEPT ![a].misses = n]
             /\ UNCHANGED <<open, table, entry, health>>
    <3>1. PICK n : managed' = [managed EXCEPT ![a] = [managed[a] EXCEPT !.misses = n]]
      BY <2>2
    <3> DEFINE m == [managed[a] EXCEPT !.misses = n]
    <3>2. m.conn = managed[a].conn
      BY <1>0 DEF ManagedPeers
    <3>3. managed' = [managed EXCEPT ![a] = m]
      BY <3>1
    <3> HIDE DEF m
    <3>4. \A b \in Addrs : managed[b].conn \in {managed'[b].conn, None}
      BY <1>0, <3>2, <3>3, OtherManaged
    <3>5. QED
      BY <2>2, <3>4, KeepsOpen
  <2>3. QED
    BY <1>5, <2>1, <2>2 DEF Beat, Missed
<1>6. QED
  BY <1>1, <1>2, <1>3, <1>4, <1>5 DEF Manage

LEMMA OpenStep == ASSUME IInv, [Next]_vars PROVE Open'
<1>0. Managing /\ Agreeing /\ Pings(health) /\ open \in SUBSET Conns
  BY DEF IInv
<1>1. ASSUME NEW a \in Addrs, SelfHeal(a) PROVE Open'
  <2>1. managed[a].conn = None /\ managed' = [managed EXCEPT ![a] = Fresh]
    BY <1>0, <1>1 DEF SelfHeal, AddPeer, Addable, Managing, Holds
  <2>2. \A b \in Addrs : managed[b].conn \in {managed'[b].conn, None}
    BY <1>0, <2>1, OtherManaged
  <2>3. QED
    BY <1>1, <2>2, KeepsOpen DEF SelfHeal
<1>2. ASSUME NEW p \in Peers, PeerExchange(p) PROVE Open'
  <2>1. PICK as \in Tellable(p) : Told(p, as)
    BY <1>2 DEF PeerExchange
  <2>2. PICK dialled \in SUBSET {a \in as : Addable(a, p, managed)} :
            managed' = [a \in Addrs |-> IF a \in dialled THEN Fresh ELSE managed[a]]
    BY <2>1 DEF Told
  <2>3. \A a \in dialled : managed[a].conn = None
    BY <1>0, <2>1, <2>2 DEF Addable, Managing, Holds, Tellable
  <2>4. \A b \in Addrs : managed[b].conn \in {managed'[b].conn, None}
    BY <2>2, <2>3
  <2>5. \A q \in Peers : entry'[q].conn = entry[q].conn
    <3>1. CASE entry' = [entry EXCEPT ![p].state = "discovered"]
      BY <1>0, <3>1, StateOnly
    <3>2. CASE UNCHANGED entry
      BY <3>2
    <3>3. QED
      BY <2>1, <3>1, <3>2 DEF Told
  <2>6. QED
    BY <1>2, <2>4, <2>5, KeepsOpen DEF PeerExchange
<1>3. ASSUME NEW p \in Peers, InboundHello(p) PROVE Open'
  <2>1. open \cup {New(p)} \in SUBSET Conns
    BY <1>0, NewIsNew, AddrsAssumption
  <2>2. QED
    BY <1>3, <2>1, OpensOpen DEF InboundHello
<1>4. ASSUME NEW p \in Peers, InboundPing(p) PROVE Open'
  <2>1. \A q \in Peers : entry'[q].conn = entry[q].conn
    BY <1>0, <1>4, StateOnly DEF InboundPing
  <2>2. QED
    BY <1>4, <2>1, KeepsOpen DEF InboundPing
<1>5. ASSUME NEW c \in Conns, Terminated(c) PROVE Open'
  BY <1>5, KeepsOpen DEF Terminated
<1>6. CASE HealthBegin \/ HealthEnd \/ HealthAnswered
  <2>1. health'.conn = health.conn
    BY <1>0, <1>6 DEF HealthBegin, HealthEnd, HealthAnswered, Pings, Checkers
  <2>2. QED
    BY <1>6, <2>1, KeepsOpen DEF HealthBegin, HealthEnd, HealthAnswered
<1>7. ASSUME NEW p \in Peers, HealthPing(p) PROVE Open'
  <2>1. health.conn = None
    BY <1>0, <1>7 DEF HealthPing, Pings
  <2>2. QED
    BY <1>7, <2>1, KeepsOpen DEF HealthPing
<1>8. ASSUME NEW p \in Peers, HealthRefused(p) PROVE Open'
  <2>1. health.conn = None
    BY <1>0, <1>8 DEF HealthRefused, Pings
  <2>2. \A q \in Peers : entry'[q].conn = entry[q].conn
    <3>1. CASE entry' = [entry EXCEPT ![p].state = "disconnected"]
      BY <1>0, <3>1, StateOnly
    <3>2. CASE UNCHANGED entry
      BY <3>2
    <3>3. QED
      BY <1>8, <3>1, <3>2 DEF HealthRefused, HealthMissed
  <2>3. QED
    BY <1>8, <2>1, <2>2, KeepsOpen DEF HealthRefused
<1>9. CASE HealthOk \/ HealthMiss \/ HealthCut \/ Shutdown \/ \E p \in Peers : Announce(p)
  BY <1>0, <1>9, OpensOpen DEF HealthOk, HealthMiss, HealthCut, Shutdown, Announce
<1>10. CASE UNCHANGED vars
  BY <1>10, KeepsOpen DEF vars
<1>11. QED
  BY <1>1, <1>2, <1>3, <1>4, <1>5, <1>6, <1>7, <1>8, <1>9, <1>10, ManageOpen DEF Next, Remote, Check

-----------------------------------------------------------------------------
(* The theorems.                                                           *)

LEMMA Initially == Init => IInv
<1>1. SUFFICES ASSUME Init PROVE IInv
  OBVIOUS
<1>2. Managing
  BY <1>1, FreshHolds DEF Init, Managing, Holds
<1>3. Agreeing
  BY <1>1 DEF Init, Agreeing, Agree, Entries, Unknown
<1>4. Pings(health)
  <2>1. 0 \in 0 .. MaxHealthMisses
    BY LimitsAssumption
  <2>2. QED
    BY <1>1, <2>1, NoneAssumption DEF Init, Pings, Checkers
<1>5. QED
  BY <1>1, <1>2, <1>3, <1>4 DEF IInv, Init

\* IInv holds in every reachable state of Peering.
THEOREM Inductive == Spec => []IInv
<1>1. ASSUME IInv, [Next]_vars PROVE IInv'
  <2>1. running' \in BOOLEAN
    BY <1>1 DEF IInv, Next, Manage, DialFail, DialOk, HelloOk, HelloFail, HelloCut, BackedOff, Beat, SelfHeal,
                Remote, PeerExchange, InboundHello, InboundPing, Announce, Terminated, Check, HealthBegin,
                HealthAnswered, HealthOk, HealthMiss, HealthCut, HealthEnd, HealthRefused, HealthPing,
                Shutdown, vars
  <2>2. Managing' /\ Agreeing' /\ Pings(health') /\ Open'
    BY <1>1, ManagingStep, AgreeingStep, PingsStep, OpenStep
  <2>3. QED
    BY <2>1, <2>2 DEF IInv, Open, Pings, Checkers, Conns
<1>2. QED
  BY Initially, <1>1, PTL DEF Spec

\* Every reachable state is type correct, for any peers, addresses and limits.
THEOREM TypeCorrect == Spec => []TypeOK
  BY Inductive, IInvTypes, PTL

\* As long as the table has a connection of a peer, a request leaves by that connection: through
\* dials, inbound hellos, announcements, health checks and a shutdown in any order, also for a
\* peer that is dialled at several addresses (AnswersReach).
THEOREM RequestsLeaveByTheTable == Spec => []AnswersReach
<1>1. IInv => AnswersReach
  BY DEF IInv, Agreeing, Agree, AnswersReach
<1>2. QED
  BY Inductive, <1>1, PTL

\* Three names are enough: whoever makes a connection finds one that nothing refers to, which is
\* not that of an open connection, so that the bound Names leaves out no behaviour of the code.
THEOREM ThreeNamesAreEnough == Spec => []NameLeft
  BY Inductive, NamesLeft, PTL


-----------------------------------------------------------------------------
(* What a request for a chat completion has found out (module Chat).       *)

\* No source of the model would have answered, but for those that the balance bars.
Hopeless(m) == \A s \in Reached(m) : Works(s) => Barred(m, s)
Wanted == IF request.model = AnyModel THEN Models \ Embedding ELSE {request.model} \ Embedding
Confined == request.trust = "local" /\ request.fallback = "reject" /\ ~request.stream

Asked ==
    /\ request.model \in Named
    /\ request.stream => ~request.constrained
    /\ request.trust = "local" => request.constrained

\* A candidate that has been tried in vain.
Vain(c) == c[1] # "local" /\ (c[1] = "fleet" => FleetAnswers(c[2]) = {})

\* An answer that is given whole: what is not among the candidates left was tried in vain.
AnswersWhole ==
    /\ place \in {"start", "ranked", "generate", "route", "ended"}
    /\ out = <<>> \/ place = "ended"
    /\ place \in {"ranked", "route"} => request.model \notin local
    /\ place = "ranked" => todo \subseteq Ranked /\ \A c \in Ranked \ todo : Vain(c)
    /\ place = "route" => /\ at = request.model /\ \A c \in Ranked : Vain(c)
                          /\ request.model = AnyModel => local \subseteq Embedding
    /\ Confined => place # "route" /\ (place = "ranked" => todo # {} /\ \A c \in todo : c[1] = "local")

\* A stream: what is not among the candidates left, nor being tried, has no source that works, and
\* nothing was emitted but by the nodes of the fleet that broke off.
AnswersStreamed ==
    /\ place \in {"start", "stream", "local", "peers", "fleet", "ended"}
    /\ place = "fleet" => out \in Seq({"fleet"} \X Fleet)
    /\ out = <<>> \/ place \in {"fleet", "ended"}
    /\ place \in {"stream", "local", "peers", "fleet"} =>
          \A m \in Wanted : <<"any", m>> \in todo \/ (place # "stream" /\ at = m) \/ Hopeless(m)
    /\ place = "local" => at \in local
    /\ place \in {"peers", "fleet"} => at \notin local
    /\ place = "fleet" =>
          /\ entries \subseteq Listing(at)
          /\ at \notin Embedding => /\ at \in quic => ~Works(<<"quic", at>>)
                                    /\ \A f \in Listing(at) \ entries : ~Works(<<"fleet", f>>)

ChatInv ==
    /\ Asked /\ (place # "ended" => end = "open")
    /\ (~request.stream => AnswersWhole) /\ (request.stream => AnswersStreamed)
    /\ NoneIsTrue /\ LocalStays /\ OneSource

-----------------------------------------------------------------------------
(* Lemmas about the resolver and the sources.                              *)

\* What a request finds does not change while it lasts.
LEMMA SameWorld ==
  ASSUME UNCHANGED world
  PROVE  /\ local' = local /\ quic' = quic /\ fleet' = fleet /\ Ranked' = Ranked /\ Wanted' = Wanted
         /\ request' = request /\ Confined' = Confined
         /\ \A m : Listing(m)' = Listing(m) /\ FleetAnswers(m)' = FleetAnswers(m) /\ Hopeless(m)' = Hopeless(m)
         /\ \A s : Works(s)' = Works(s)
<1>1. request' = request /\ does' = does /\ linked' = linked
  BY DEF world
<1>2. local' = local /\ quic' = quic /\ fleet' = fleet
  BY <1>1 DEF local, quic, fleet
<1>3. \A m : Listing(m)' = Listing(m)
  BY <1>2 DEF Listing
<1>4. \A s : Works(s)' = Works(s)
  BY <1>1 DEF Works
<1>5. \A m : FleetAnswers(m)' = FleetAnswers(m)
  <2>1. \A m : ByRouting(m)' = ByRouting(m) /\ Routes(m)' = Routes(m)
    BY <1>2, <1>4 DEF ByRouting, Routes
  <2>2. QED
    BY <2>1, <1>1, <1>3, <1>4 DEF FleetAnswers
<1>7. Candidates' = Candidates
  BY <1>2, <1>3 DEF Candidates
<1>r. Resolved' = Resolved
  BY <1>1, <1>7 DEF Resolved, Requested
<1>6. \A m : Hopeless(m)' = Hopeless(m)
  <2>1. \A m : Reached(m)' = Reached(m)
    BY <1>2, <1>3 DEF Reached
  <2>2. QED
    BY <1>1, <1>4, <1>r, <2>1 DEF Hopeless, Barred
<1>8. Ranked' = Ranked
  BY <1>1, <1>7, <1>r DEF Ranked, ResolvedUnder, Affordable, Requested, Trusted
<1>9. Wanted' = Wanted /\ Confined' = Confined
  BY <1>1 DEF Wanted, Confined
<1>10. QED
  BY <1>1, <1>2, <1>3, <1>4, <1>5, <1>6, <1>8, <1>9

\* A model is hopeless if each way to it is.
LEMMA NoWayTo ==
  ASSUME NEW m
  PROVE  /\ m \in local /\ ~Works(<<"local", m>>) => Hopeless(m)
         /\ m \notin local /\ (m \in quic => ~Works(<<"quic", m>>))
            /\ (\A f \in Listing(m) : Works(<<"fleet", f>>) => Barred(m, <<"fleet", f>>))
              => Hopeless(m)
BY DEF Hopeless, Reached

\* Routing goes to a peer that serves the model, if this node does not.
LEMMA NoRoute == \A m : m \in quic /\ m \notin local /\ m \notin Embedding /\ ~Routes(m) => ~Works(<<"quic", m>>)
BY DEF Routes, ByRouting

\* A model nobody in the fleet answers for is one whose nodes do not work.
LEMMA FleetVain ==
  ASSUME NEW m, FleetAnswers(m) = {}
  PROVE  \A f \in Listing(m) : ~Works(<<"fleet", f>>)
<1>1. SUFFICES ASSUME NEW f \in Listing(m), Works(<<"fleet", f>>) PROVE FALSE
  OBVIOUS
<1>2. CASE Routes(m) /\ linked \cap Listing(m) # {}
  <2>1. PICK g : g \in linked /\ g \in Listing(m)
    BY <1>2
  <2>2. ByRouting(m) \in FleetAnswers(m)
    BY <1>2, <2>1 DEF FleetAnswers
  <2>3. QED
    BY <2>2
<1>3. CASE ~(Routes(m) /\ linked \cap Listing(m) # {})
  <2>1. <<"fleet", f>> \in FleetAnswers(m)
    BY <1>1, <1>3 DEF FleetAnswers
  <2>2. QED
    BY <2>1
<1>4. QED
  BY <1>2, <1>3

\* A source yields nothing, or pieces of its own; one that works and generates yields some.
LEMMA OwnPieces ==
  /\ \A s : Pieces(s) \in {<<>>, <<s>>, <<s, s>>}
  /\ \A x, m : x # "fleet" /\ m \notin Embedding /\ Pieces(<<x, m>>) = <<>> => ~Works(<<x, m>>)
<1>1. ASSUME NEW s PROVE Pieces(s) \in {<<>>, <<s>>, <<s, s>>}
  BY DEF Pieces
<1>2. ASSUME NEW x, NEW m, x # "fleet", m \notin Embedding, Works(<<x, m>>) PROVE Pieces(<<x, m>>) # <<>>
  <2>1. Pieces(<<x, m>>) = <<<<x, m>>, <<x, m>>>>
    BY <1>2 DEF Pieces, Works
  <2>2. QED
    BY <2>1
<1>3. QED
  BY <1>1, <1>2

\* Pieces of one source are of one source; pieces of this node are of this node.
LEMMA PiecesAgree ==
  ASSUME NEW s, NEW o, o \in {<<>>, <<s>>, <<s, s>>}
  PROVE  /\ \A i \in 2 .. Len(o) : o[i] = o[i - 1]
         /\ s[1] = "local" => \A i \in 1 .. Len(o) : o[i][1] = "local"
<1>1. CASE o = <<>>
  BY <1>1
<1>2. CASE o = <<s>>
  <2>1. Len(o) = 1 /\ o[1] = s
    BY <1>2
  <2>2. QED
    BY <2>1
<1>3. CASE o = <<s, s>>
  <2>1. Len(o) = 2 /\ o[1] = s /\ o[2] = s
    BY <1>3
  <2>2. QED
    BY <2>1
<1>4. QED
  BY <1>1, <1>2, <1>3

\* A stream that does not name a model puts every one that somebody has among its candidates.
LEMMA EveryModel ==
  ASSUME Asked, request.model = AnyModel, NEW m \in Wanted, ~Hopeless(m)
  PROVE  \E c \in Resolved : c[2] = m
<1>1. m \in Models /\ m \notin Embedding
  BY DEF Wanted
<1>2. PICK s \in Reached(m) : Works(s)
  BY DEF Hopeless
<1>3. \E c \in Candidates : c[2] = m
  <2>1. m \in local \/ m \in quic \/ Listing(m) # {}
    BY <1>2 DEF Reached
  <2>2. <<"local", m>>[2] = m /\ <<"quic", m>>[2] = m /\ <<"fleet", m>>[2] = m
    OBVIOUS
  <2>3. QED
    BY <1>1, <2>1, <2>2 DEF Candidates
<1>4. QED
  BY <1>1, <1>3 DEF Resolved, Requested

-----------------------------------------------------------------------------
(* The steps of a request.                                                 *)

LEMMA ChatBegins ==
  ASSUME ChatInit
  PROVE  ChatInv
<1>1. Asked
  BY DEF ChatInit, Requests, Asked
<1>2. place = "start" /\ out = <<>> /\ end = "open" /\ Len(out) = 0
  BY DEF ChatInit
<1>3. QED
  BY <1>1, <1>2 DEF ChatInv, AnswersWhole, AnswersStreamed, NoneIsTrue, LocalStays, OneSource

\* A request that ends keeps the invariant if what its client has and was told is right.
LEMMA EndsWell ==
  ASSUME ChatInv, UNCHANGED world, place' = "ended", NoneIsTrue', OneSource',
         Confined => \A i \in 1 .. Len(out') : out'[i][1] = "local"
  PROVE  ChatInv'
<1>1. Asked' /\ request' = request
  BY SameWorld DEF ChatInv, Asked
<1>2. LocalStays'
  BY <1>1 DEF LocalStays, Confined
<1>3. QED
  BY <1>1, <1>2 DEF ChatInv, AnswersWhole, AnswersStreamed

\* One that goes on has told its client nothing of an end.
LEMMA GoesOn ==
  ASSUME ChatInv, UNCHANGED world, end' = end, place # "ended",
         out' = <<>> \/ (out' \in Seq({"fleet"} \X Fleet) /\ request.stream),
         ~request.stream => AnswersWhole', request.stream => AnswersStreamed'
  PROVE  ChatInv'
<1>1. Asked' /\ request' = request
  BY SameWorld DEF ChatInv, Asked
<1>2. NoneIsTrue' /\ end' = "open"
  BY DEF ChatInv, NoneIsTrue
<1>3. OneSource' /\ LocalStays'
  <2>1. CASE out' = <<>>
    <3>1. Len(out') = 0
      BY <2>1
    <3>2. QED
      BY <3>1 DEF OneSource, LocalStays
  <2>2. CASE out' \in Seq({"fleet"} \X Fleet) /\ request.stream
    <3>1. \A i \in 1 .. Len(out') : out'[i][1] = "fleet"
      BY <2>2
    <3>2. Len(out') \in Nat
      BY <2>2
    <3>3. QED
      BY <1>1, <2>2, <3>1, <3>2 DEF OneSource, LocalStays
  <2>3. QED
    BY <2>1, <2>2
<1>4. QED
  BY <1>1, <1>2, <1>3 DEF ChatInv

\* An answer that is given whole, or an end without one.
LEMMA EndsWhole ==
  ASSUME ChatInv, UNCHANGED world, place' = "ended", NEW s, out' \in {<<>>, <<s>>},
         Confined => out' = <<>> \/ s[1] = "local", NoneIsTrue'
  PROVE  ChatInv'
<1>1. /\ \A i \in 2 .. Len(out') : out'[i] = out'[i - 1]
      /\ s[1] = "local" => \A i \in 1 .. Len(out') : out'[i][1] = "local"
  BY PiecesAgree
<1>2. OneSource'
  BY <1>1 DEF OneSource
<1>3. out' = <<>> => Len(out') = 0
  OBVIOUS
<1>4. Confined => \A i \in 1 .. Len(out') : out'[i][1] = "local"
  BY <1>1, <1>3
<1>5. QED
  BY <1>2, <1>4, EndsWell

LEMMA StartWholeKeeps ==
  ASSUME ChatInv, StartWhole
  PROVE  ChatInv'
<1>1. place = "start" /\ ~request.stream /\ UNCHANGED world /\ out' = out /\ out = <<>> /\ AnswersWhole
  BY DEF StartWhole, ChatInv, AnswersWhole
<1>2. CASE request.model \in local
  BY <1>1, <1>2, GoesOn, SameWorld DEF StartWhole, AnswersWhole, Goes
<1>3. CASE request.model \notin local /\ request.constrained /\ ResolvedUnder = {} /\ request.fallback = "reject"
  <2>1. end' = "rejected" /\ place' = "ended"
    BY <1>3 DEF StartWhole, Ended
  <2>2. QED
    BY <1>1, <2>1, EndsWhole DEF NoneIsTrue
<1>4. CASE request.model \notin local /\ ~(request.constrained /\ ResolvedUnder = {} /\ request.fallback = "reject")
  <2>1. place' = "ranked" /\ todo' = Ranked /\ end' = end
    BY <1>4 DEF StartWhole
  <2>2. Confined => Ranked # {} /\ \A c \in Ranked : c[1] = "local"
    BY <1>4 DEF Confined, Ranked, ResolvedUnder, Trusted, ChatInv, Asked
  <2>3. AnswersWhole'
    BY <1>1, <1>4, <2>1, <2>2, SameWorld DEF AnswersWhole
  <2>4. QED
    BY <1>1, <2>1, <2>3, GoesOn
<1>5. QED
  BY <1>2, <1>3, <1>4

\* What the fleet answers with is of another node.
LEMMA RankedTriesOthers ==
  ASSUME ChatInv, place = "ranked", ~request.stream, NEW c \in todo, c[1] # "local"
  PROVE  ~Confined
BY DEF ChatInv, AnswersWhole

LEMMA TryRankedKeeps ==
  ASSUME ChatInv, TryRanked
  PROVE  ChatInv'
<1>1. place = "ranked" /\ ~request.stream /\ UNCHANGED world /\ out = <<>> /\ AnswersWhole
  BY DEF TryRanked, ChatInv, AnswersWhole
<1>2. PICK c \in todo :
        CASE c[1] = "local" -> Goes("generate", c[2]) /\ UNCHANGED <<todo, entries, out, end>>
          [] c[1] = "quic" /\ Routes(c[2]) -> Answer(ByRouting(c[2]))
          [] c[1] = "fleet" /\ FleetAnswers(c[2]) # {} -> \E s \in FleetAnswers(c[2]) : Answer(s)
          [] OTHER -> todo' = todo \ {c} /\ UNCHANGED <<place, at, entries, out, end>>
  BY DEF TryRanked
<1>3. CASE c[1] = "local"
  <2>1. place' = "generate" /\ end' = end /\ out' = <<>>
    BY <1>1, <1>2, <1>3 DEF Goes
  <2>2. AnswersWhole'
    BY <1>1, <2>1, SameWorld DEF AnswersWhole
  <2>3. QED
    BY <1>1, <2>1, <2>2, GoesOn
<1>4. ASSUME NEW s, Answer(s), c[1] # "local" PROVE ChatInv'
  <2>1. out' = <<s>> /\ end' = "answered" /\ place' = "ended"
    BY <1>1, <1>4 DEF Answer, Ended
  <2>2. QED
    BY <1>1, <1>4, <2>1, EndsWhole, RankedTriesOthers DEF NoneIsTrue
<1>5. CASE c[1] # "local" /\ todo' = todo \ {c} /\ UNCHANGED <<place, at, entries, out, end>> /\ Vain(c)
  <2>1. \A d \in Ranked \ todo' : Vain(d)
    BY <1>1, <1>5 DEF AnswersWhole
  <2>2. ~Confined
    BY <1>1, <1>5, RankedTriesOthers
  <2>3. AnswersWhole'
    <3>1. \A d : Vain(d)' = Vain(d)
      BY <1>1, SameWorld DEF Vain
    <3>2. QED
      BY <1>1, <1>5, <2>1, <2>2, <3>1, SameWorld DEF AnswersWhole
  <2>4. QED
    BY <1>1, <1>5, <2>3, GoesOn
<1>6. QED
  BY <1>2, <1>3, <1>4, <1>5 DEF Vain

LEMMA NoneRankedKeeps ==
  ASSUME ChatInv, NoneRanked
  PROVE  ChatInv'
<1>1. /\ place = "ranked" /\ ~request.stream /\ UNCHANGED <<world, todo, entries, out, end>> /\ out = <<>> /\ AnswersWhole
      /\ todo = {} /\ ~Confined /\ \A c \in Ranked : Vain(c)
  BY DEF NoneRanked, ChatInv, AnswersWhole
<1>2. CASE place' = "generate"
  <2>1. AnswersWhole'
    BY <1>1, <1>2, SameWorld DEF AnswersWhole
  <2>2. QED
    BY <1>1, <2>1, GoesOn
<1>3. CASE place' = "route" /\ at' = request.model /\ (request.model = AnyModel => local \ Embedding = {})
  <2>1. \A d : Vain(d)' = Vain(d)
    BY <1>1, SameWorld DEF Vain
  <2>2. AnswersWhole'
    BY <1>1, <1>3, <2>1, SameWorld DEF AnswersWhole
  <2>3. QED
    BY <1>1, <2>2, GoesOn
<1>4. QED
  BY <1>2, <1>3 DEF NoneRanked, Goes

LEMMA GenerateWholeKeeps ==
  ASSUME ChatInv, GenerateWhole
  PROVE  ChatInv'
<1>1. place = "generate" /\ ~request.stream /\ UNCHANGED world /\ out = <<>>
  BY DEF GenerateWhole, ChatInv, AnswersWhole, AnswersStreamed
<1>2. \/ out' = <<>> /\ end' \in {"busy", "error"} /\ place' = "ended"
      \/ \E x : out' = <<<<"local", x>>>> /\ end' = "answered" /\ place' = "ended"
  BY <1>1 DEF GenerateWhole, Answer, Ended
<1>3. NoneIsTrue' /\ place' = "ended"
  BY <1>2 DEF NoneIsTrue
<1>4. QED
  BY <1>1, <1>2, <1>3, EndsWhole

\* Before the last resort fails, everything else has.
LEMMA LastResort ==
  ASSUME ChatInv, place = "route", ~request.constrained,
         NEW ms, ms = (IF at = AnyModel THEN (local \cup quic \cup UNION {Lists[f] : f \in fleet}) \ Embedding ELSE {at}),
         \A m \in ms : ~Routes(m), at # AnyModel => FleetAnswers(at) = {}
  PROVE  \A m \in Wanted : Hopeless(m)
<1>1. /\ at = request.model /\ request.model \notin local /\ ~request.stream /\ \A c \in Ranked : Vain(c)
      /\ request.model = AnyModel => local \subseteq Embedding
  BY DEF ChatInv, AnswersWhole, AnswersStreamed
<1>2. TAKE m \in Wanted
<1>3. CASE request.model = AnyModel
  <2>1. m \in Models /\ m \notin Embedding /\ m \notin local
    BY <1>1, <1>2, <1>3 DEF Wanted
  <2>2. m \in quic => ~Works(<<"quic", m>>)
    BY <1>1, <1>3, <2>1, NoRoute
  <2>3. Listing(m) # {} => FleetAnswers(m) = {} \/ \A f \in Fleet : Barred(m, <<"fleet", f>>)
    <3>1. SUFFICES ASSUME Listing(m) # {}, \E f \in Fleet : ~Barred(m, <<"fleet", f>>) PROVE FleetAnswers(m) = {}
      OBVIOUS
    <3>2. <<"fleet", m>> \in Candidates
      BY <2>1, <3>1 DEF Candidates
    <3>3. <<"fleet", m>> \in Resolved
      BY <1>3, <2>1, <3>2 DEF Resolved, Requested
    <3>4. m \in request.affords \/ ~\E c \in Resolved : c[2] \in request.affords
      BY <1>1, <1>3, <3>1 DEF Barred
    <3>5. <<"fleet", m>> \in Ranked
      BY <3>3, <3>4 DEF Ranked, Affordable
    <3>6. QED
      BY <1>1, <3>5 DEF Vain
  <2>4. \A f \in Listing(m) : Works(<<"fleet", f>>) => Barred(m, <<"fleet", f>>)
    BY <2>3, FleetVain DEF Listing, fleet
  <2>5. QED
    BY <2>1, <2>2, <2>4, NoWayTo
<1>4. CASE request.model # AnyModel
  <2>1. m = at /\ m \notin Embedding /\ m \notin local /\ ~Routes(m) /\ FleetAnswers(m) = {}
    BY <1>1, <1>2, <1>4 DEF Wanted
  <2>2. QED
    BY <2>1, NoRoute, FleetVain, NoWayTo
<1>5. QED
  BY <1>3, <1>4

LEMMA RouteWholeKeeps ==
  ASSUME ChatInv, RouteWhole
  PROVE  ChatInv'
<1>1. place = "route" /\ ~request.stream /\ UNCHANGED world /\ out = <<>> /\ ~Confined
  BY DEF RouteWhole, ChatInv, AnswersWhole, AnswersStreamed
<1>2. DEFINE ms == IF at = AnyModel THEN (local \cup quic \cup UNION {Lists[f] : f \in fleet}) \ Embedding ELSE {at}
<1>3. ASSUME NEW s, Answer(s) PROVE ChatInv'
  <2>1. out' = <<s>> /\ end' = "answered" /\ place' = "ended"
    BY <1>1, <1>3 DEF Answer, Ended
  <2>2. QED
    BY <1>1, <2>1, EndsWhole DEF NoneIsTrue
<1>4. CASE (\A m \in ms : ~Routes(m)) /\ (at # AnyModel => FleetAnswers(at) = {}) /\ UNCHANGED out /\ Ended("none")
  <2>1. out' = <<>> /\ end' = "none" /\ place' = "ended"
    BY <1>1, <1>4 DEF Ended
  <2>2. ~request.constrained => \A m \in Wanted : Hopeless(m)
    BY <1>1, <1>4, LastResort
  <2>3. NoneIsTrue'
    <3>1. ~request'.constrained => \A m \in Wanted' : Hopeless(m)'
      BY <1>1, <2>2, SameWorld
    <3>2. QED
      BY <3>1 DEF NoneIsTrue, Wanted, Hopeless
  <2>4. QED
    BY <1>1, <2>1, <2>3, EndsWhole
<1>5. QED
  <2>1. \/ \E m \in ms : Answer(ByRouting(m))
        \/ \E s \in FleetAnswers(at) : Answer(s)
        \/ (\A m \in ms : ~Routes(m)) /\ (at # AnyModel => FleetAnswers(at) = {}) /\ UNCHANGED out /\ Ended("none")
    BY DEF RouteWhole
  <2>2. QED
    BY <1>3, <1>4, <2>1

LEMMA StartStreamKeeps ==
  ASSUME ChatInv, StartStream
  PROVE  ChatInv'
<1>1. place = "start" /\ request.stream /\ UNCHANGED world /\ out' = <<>> /\ place' = "stream" /\ end' = end /\ Asked
  BY DEF StartStream, ChatInv, AnswersStreamed
<1>2. ASSUME NEW m \in Wanted, ~Hopeless(m) PROVE <<"any", m>> \in todo'
  <2>1. CASE request.model = AnyModel
    <3>1. PICK c \in Resolved : c[2] = m
      BY <1>1, <1>2, <2>1, EveryModel
    <3>2. QED
      BY <2>1, <3>1 DEF StartStream
  <2>2. CASE request.model # AnyModel
    BY <1>2, <2>2 DEF StartStream, Wanted
  <2>3. QED
    BY <2>1, <2>2
<1>3. AnswersStreamed'
  BY <1>1, <1>2, SameWorld DEF AnswersStreamed
<1>4. QED
  BY <1>1, <1>3, GoesOn

LEMMA TryStreamKeeps ==
  ASSUME ChatInv, TryStream
  PROVE  ChatInv'
<1>1. place = "stream" /\ request.stream /\ UNCHANGED <<world, entries, out, end>> /\ out = <<>> /\ AnswersStreamed
  BY DEF TryStream, ChatInv, AnswersStreamed, AnswersWhole
<1>2. PICK c \in todo : todo' = todo \ {c} /\ Goes(IF c[2] \in local THEN "local" ELSE "peers", c[2])
  BY DEF TryStream
<1>3. \A m : <<"any", m>> \in todo => <<"any", m>> \in todo' \/ at' = m
  BY <1>2 DEF Goes
<1>4. place' = (IF at' \in local' THEN "local" ELSE "peers")
  BY <1>1, <1>2, SameWorld DEF Goes
<1>5. AnswersStreamed'
  BY <1>1, <1>3, <1>4, SameWorld DEF AnswersStreamed
<1>6. QED
  BY <1>1, <1>4, <1>5, GoesOn

\* A candidate whose stream is over is the last one, or has nobody that works.
LEMMA OverKeeps ==
  ASSUME ChatInv, place \in {"local", "peers", "fleet"}, UNCHANGED world, Over,
         out' = <<>> => at \in Embedding \/ Hopeless(at), OneSource'
  PROVE  ChatInv'
<1>1. request.stream /\ AnswersStreamed
  BY DEF ChatInv, AnswersWhole
<1>2. CASE out' # <<>>
  <2>1. place' = "ended" /\ NoneIsTrue'
    BY <1>2 DEF Over, Ended, NoneIsTrue
  <2>2. QED
    BY <1>1, <2>1, EndsWell DEF Confined
<1>3. CASE out' = <<>>
  <2>1. place' = "stream" /\ UNCHANGED <<at, entries, todo, end>>
    BY <1>3 DEF Over
  <2>2. \A m \in Wanted : <<"any", m>> \in todo \/ Hopeless(m)
    BY <1>1, <1>3 DEF AnswersStreamed, Wanted
  <2>3. AnswersStreamed'
    BY <1>1, <1>3, <2>1, <2>2, SameWorld DEF AnswersStreamed
  <2>4. QED
    BY <1>1, <1>3, <2>1, <2>3, GoesOn
<1>4. QED
  BY <1>2, <1>3

LEMMA StreamLocalKeeps ==
  ASSUME ChatInv, StreamLocal
  PROVE  ChatInv'
<1>1. place = "local" /\ UNCHANGED world /\ Over /\ out = <<>> /\ at \in local
  BY DEF StreamLocal, ChatInv, AnswersStreamed, AnswersWhole
<1>2. PICK x : /\ out' = Pieces(<<"local", x>>)
               /\ x = at \/ does[<<"local", at>>] = "busy"
  <2>1. PICK x : out' = out \o Pieces(<<"local", x>>) /\ (x = at \/ does[<<"local", at>>] = "busy")
    BY DEF StreamLocal
  <2>2. Pieces(<<"local", x>>) \in {<<>>, <<<<"local", x>>>>, <<<<"local", x>>, <<"local", x>>>>}
    BY OwnPieces
  <2>3. out \o Pieces(<<"local", x>>) = Pieces(<<"local", x>>)
    BY <1>1, <2>2
  <2>4. QED
    BY <2>1, <2>3
<1>3. out' = <<>> => at \in Embedding \/ Hopeless(at)
  <2>1. SUFFICES ASSUME out' = <<>>, at \notin Embedding PROVE ~Works(<<"local", at>>)
    BY <1>1, NoWayTo
  <2>2. CASE x = at
    BY <1>2, <2>1, <2>2, OwnPieces
  <2>3. CASE does[<<"local", at>>] = "busy"
    BY <2>3 DEF Works
  <2>4. QED
    BY <1>2, <2>2, <2>3
<1>4. OneSource'
  <2>1. out' \in {<<>>, <<<<"local", x>>>>, <<<<"local", x>>, <<"local", x>>>>}
    BY <1>2, OwnPieces
  <2>2. QED
    BY <2>1, PiecesAgree DEF OneSource
<1>5. QED
  BY <1>1, <1>3, <1>4, OverKeeps

LEMMA StreamPeersKeeps ==
  ASSUME ChatInv, StreamPeers
  PROVE  ChatInv'
<1>1. place = "peers" /\ UNCHANGED world /\ out = <<>> /\ at \notin local /\ request.stream /\ AnswersStreamed
  BY DEF StreamPeers, ChatInv, AnswersStreamed, AnswersWhole
<1>2. out' = <<>> \/ (at \in quic /\ out' = Pieces(<<"quic", at>>))
  <2>1. Pieces(<<"quic", at>>) \in {<<>>, <<<<"quic", at>>>>, <<<<"quic", at>>, <<"quic", at>>>>}
    BY OwnPieces
  <2>2. out \o Pieces(<<"quic", at>>) = Pieces(<<"quic", at>>)
    BY <1>1, <2>1
  <2>3. QED
    BY <1>1, <2>2 DEF StreamPeers
<1>3. CASE out' # <<>>
  <2>1. out' \in {<<>>, <<<<"quic", at>>>>, <<<<"quic", at>>, <<"quic", at>>>>}
    BY <1>2, <1>3, OwnPieces
  <2>2. OneSource'
    BY <2>1, PiecesAgree DEF OneSource
  <2>3. Over
    BY <1>3 DEF StreamPeers
  <2>4. QED
    BY <1>1, <1>3, <2>2, <2>3, OverKeeps
<1>4. CASE out' = <<>>
  <2>1. place' = "fleet" /\ entries' = Listing(at) /\ UNCHANGED <<at, todo, end>>
    BY <1>4 DEF StreamPeers
  <2>2. at \notin Embedding /\ at \in quic => ~Works(<<"quic", at>>)
    <3>1. SUFFICES ASSUME at \notin Embedding, at \in quic PROVE Pieces(<<"quic", at>>) = <<>>
      BY OwnPieces
    <3>2. Pieces(<<"quic", at>>) \in {<<>>, <<<<"quic", at>>>>, <<<<"quic", at>>, <<"quic", at>>>>}
      BY OwnPieces
    <3>3. out \o Pieces(<<"quic", at>>) = Pieces(<<"quic", at>>)
      BY <1>1, <3>2
    <3>4. QED
      BY <1>4, <3>1, <3>3 DEF StreamPeers
  <2>3. out' \in Seq({"fleet"} \X Fleet)
    BY <1>4
  <2>4. AnswersStreamed'
    BY <1>1, <1>4, <2>1, <2>2, <2>3, SameWorld DEF AnswersStreamed
  <2>5. QED
    BY <1>1, <1>4, <2>1, <2>4, GoesOn
<1>5. QED
  BY <1>3, <1>4

LEMMA FewAre ==
  ASSUME NEW S, NEW s \in S
  PROVE  <<>> \in Seq(S) /\ <<s>> \in Seq(S) /\ <<s, s>> \in Seq(S)
OBVIOUS

LEMMA StreamFleetKeeps ==
  ASSUME ChatInv, StreamFleet
  PROVE  ChatInv'
<1>1. /\ place = "fleet" /\ UNCHANGED world /\ request.stream /\ AnswersStreamed
      /\ at \notin local /\ entries \subseteq Listing(at) /\ out \in Seq({"fleet"} \X Fleet)
  BY DEF StreamFleet, ChatInv, AnswersStreamed, AnswersWhole
<1>2. ASSUME NEW o, o \in Seq({"fleet"} \X Fleet) PROVE \A i \in 2 .. Len(o) : o[i - 1][1] = "fleet"
  <2>1. \A i \in 1 .. Len(o) : o[i] \in {"fleet"} \X Fleet
    BY <1>2
  <2>2. Len(o) \in Nat
    BY <1>2
  <2>3. QED
    BY <2>1, <2>2
<1>3. ASSUME NEW f \in entries, out' = out \o Pieces(<<"fleet", f>>), entries' = entries \ {f},
             IF Works(<<"fleet", f>>) THEN end' = "answered" /\ place' = "ended" /\ UNCHANGED <<todo, at>>
             ELSE UNCHANGED <<place, todo, at, end>>
      PROVE  ChatInv'
  <2>1. f \in Fleet
    BY <1>1 DEF Listing, fleet
  <2>2. Pieces(<<"fleet", f>>) \in Seq({"fleet"} \X Fleet)
    <3>1. Pieces(<<"fleet", f>>) \in {<<>>, <<<<"fleet", f>>>>, <<<<"fleet", f>>, <<"fleet", f>>>>}
      BY OwnPieces
    <3>2. <<"fleet", f>> \in {"fleet"} \X Fleet
      BY <2>1
    <3>3. QED
      BY <3>1, <3>2, FewAre
  <2>3. out' \in Seq({"fleet"} \X Fleet)
    <3>1. \A S : \A p, q \in Seq(S) : p \o q \in Seq(S)
      OBVIOUS
    <3>2. QED
      BY <1>1, <1>3, <2>2, <3>1
  <2>4. CASE Works(<<"fleet", f>>)
    <3>1. OneSource'
      BY <1>2, <2>3 DEF OneSource
    <3>2. NoneIsTrue' /\ place' = "ended"
      BY <1>3, <2>4 DEF NoneIsTrue
    <3>3. QED
      BY <1>1, <3>1, <3>2, EndsWell DEF Confined
  <2>5. CASE ~Works(<<"fleet", f>>)
    <3>1. place' = "fleet" /\ UNCHANGED <<todo, at, end>>
      BY <1>1, <1>3, <2>5
    <3>2. \A g \in Listing(at) \ entries' : g = f \/ g \in Listing(at) \ entries
      BY <1>3
    <3>3. AnswersStreamed'
      BY <1>1, <1>3, <2>3, <2>5, <3>1, <3>2, SameWorld DEF AnswersStreamed
    <3>4. QED
      BY <1>1, <2>3, <3>1, <3>3, GoesOn
  <2>6. QED
    BY <2>4, <2>5
<1>4. CASE entries = {} /\ UNCHANGED out /\ Over
  <2>1. out' = <<>> => at \in Embedding \/ Hopeless(at)
    BY <1>1, <1>4, NoWayTo DEF AnswersStreamed
  <2>2. OneSource'
    BY <1>1, <1>2, <1>4 DEF OneSource
  <2>3. QED
    BY <1>1, <1>4, <2>1, <2>2, OverKeeps
<1>5. QED
  BY <1>3, <1>4 DEF StreamFleet

LEMMA NoneStreamedKeeps ==
  ASSUME ChatInv, NoneStreamed
  PROVE  ChatInv'
<1>1. /\ place = "stream" /\ UNCHANGED <<world, out>> /\ out = <<>> /\ request.stream
      /\ place' = "ended" /\ \A m \in Wanted : Hopeless(m)
  BY DEF NoneStreamed, Ended, ChatInv, AnswersStreamed, AnswersWhole
<1>2. \A m \in Wanted' : Hopeless(m)'
  BY <1>1, SameWorld
<1>3. NoneIsTrue'
  BY <1>2 DEF NoneIsTrue, Wanted, Hopeless
<1>4. OneSource'
  <2>1. Len(out') = 0
    BY <1>1
  <2>2. QED
    BY <2>1 DEF OneSource
<1>5. QED
  BY <1>1, <1>3, <1>4, EndsWell DEF Confined

(* What the client of a chat completion has and was told, and what the      *)
(* handler has tried in vain, in every state of a request.                  *)
THEOREM ChatInductive == ChatSpec => []ChatInv
<1>1. ChatInit => ChatInv
  BY ChatBegins
<1>2. ChatInv /\ [ChatNext]_chatVars => ChatInv'
  <2>1. ASSUME ChatInv, ChatNext PROVE ChatInv'
    BY <2>1, StartWholeKeeps, TryRankedKeeps, NoneRankedKeeps, GenerateWholeKeeps, RouteWholeKeeps,
       StartStreamKeeps, TryStreamKeeps, StreamLocalKeeps, StreamPeersKeeps, StreamFleetKeeps, NoneStreamedKeeps
       DEF ChatNext
  <2>2. ASSUME ChatInv, UNCHANGED chatVars PROVE ChatInv'
    <3>1. UNCHANGED world /\ \A d : Vain(d)' = Vain(d)
      BY <2>2, SameWorld DEF chatVars, world, Vain
    <3>2. UNCHANGED <<request, place, todo, at, entries, out, end>>
      BY <2>2 DEF chatVars
    <3>3. Asked' /\ LocalStays' /\ OneSource'
      BY <2>2, <3>2 DEF ChatInv, Asked, LocalStays, OneSource
    <3>4. NoneIsTrue'
      <4>1. NoneIsTrue <=> (end = "none" /\ ~request.constrained => \A m \in Wanted : Hopeless(m))
        BY DEF NoneIsTrue, Wanted, Hopeless
      <4>2. NoneIsTrue' <=> (end' = "none" /\ ~request'.constrained => \A m \in Wanted' : Hopeless(m)')
        BY DEF NoneIsTrue, Wanted, Hopeless
      <4>3. QED
        BY <2>2, <3>1, <3>2, <4>1, <4>2, SameWorld DEF ChatInv
    <3>5. AnswersWhole' = AnswersWhole /\ AnswersStreamed' = AnswersStreamed
      BY <3>1, <3>2, SameWorld DEF AnswersWhole, AnswersStreamed
    <3>6. QED
      BY <2>2, <3>2, <3>3, <3>4, <3>5 DEF ChatInv
  <2>3. QED
    BY <2>1, <2>2
<1>3. QED
  BY <1>1, <1>2, PTL DEF ChatSpec

(* A client that is told that nobody serves its request was told the truth, *)
(* whatever is loaded, announced, connected and broken (NoneIsTrue).        *)
THEOREM TellsTheTruth == ChatSpec => []NoneIsTrue
<1>1. ChatInv => NoneIsTrue
  BY DEF ChatInv
<1>2. QED
  BY <1>1, ChatInductive, PTL

(* A request for this node alone never leaves it, unless it is streamed or  *)
(* may be downgraded (LocalStays).                                          *)
THEOREM LocalRequestsStay == ChatSpec => []LocalStays
<1>1. ChatInv => LocalStays
  BY DEF ChatInv
<1>2. QED
  BY <1>1, ChatInductive, PTL

(* All pieces of a stream are of one source, but for the nodes of the fleet *)
(* that broke off (OneSource).                                              *)
THEOREM StreamsAreOfOneSource == ChatSpec => []OneSource
<1>1. ChatInv => OneSource
  BY DEF ChatInv
<1>2. QED
  BY <1>1, ChatInductive, PTL
=============================================================================
