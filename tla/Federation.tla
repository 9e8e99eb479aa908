----------------------------- MODULE Federation -----------------------------
(***************************************************************************)
(* The networks of a node (federation.py): the home network, those it      *)
(* hosts beside it and those it has joined, each in a file of its own; the *)
(* command line, another process that edits the files of hosted networks   *)
(* (cli/network.py); the API that joins and leaves (api/node.py); and the  *)
(* claims of peers, taken at a handshake, that decide what a peer is       *)
(* trusted with and which requests it is offered (node.py, router/         *)
(* registry.py).  A file is rewritten in place, and either process may die *)
(* while it does so.                                                       *)
(***************************************************************************)
EXTENDS FiniteSets

CONSTANTS
    Peers,          \* remote nodes
    BootstrapPeers, \* those among them that the settings name
    Home,           \* the home network
    Hostable,       \* networks this account may host
    Foreign,        \* networks of others
    Keys,           \* join keys
    NoKey,          \* no key is set, or presented
    NotHosted       \* a network without a file

Nets == {Home} \cup Hostable \cup Foreign
Beside == Nets \ {Home}

ASSUME FederationAssumption ==
    /\ BootstrapPeers \subseteq Peers
    /\ Home \notin Hostable \cup Foreign /\ Hostable \cap Foreign = {}
    /\ NoKey \notin Keys /\ NotHosted \notin Keys \cup {NoKey}
    /\ "unknown" \notin Nets \cup Keys \cup {NoKey, NotHosted}

VARIABLES
    daemon,     \* "up", "down", or "failed" to start
    hostFile,   \* the join key in a network's identity file, NotHosted or "torn"
    joinFile,   \* the membership files: "no", "yes", "torn"
    hosted,     \* the daemon's _identity and _hosted: key or NotHosted
    members,    \* _memberships
    declared,   \* capabilities.network_ids, which every hello carries
    entry,      \* PeerRegistry: network_ids of a peer, Nets \cup {"unknown"}
    shown,      \* history: the networks whose key a peer presented at its last handshake
    joined,     \* history: networks joined and not left since
    cut         \* history: networks whose file was not written or removed when it should have been

fedVars == <<daemon, hostFile, joinFile, hosted, members, declared, entry, shown, joined, cut>>

HostedKeys == Keys \cup {NoKey, NotHosted}
Unknown == {"unknown"}

FedTypeOK ==
    /\ daemon \in {"up", "down", "failed"}
    /\ hostFile \in [Nets -> HostedKeys \cup Unknown] /\ joinFile \in [Beside -> {"no", "yes", "torn"}]
    /\ hosted \in [Nets -> HostedKeys] /\ members \subseteq Beside /\ declared \subseteq Nets
    /\ entry \in [Peers -> {Unknown} \cup SUBSET Nets] /\ shown \in [Peers -> SUBSET Nets]
    /\ joined \subseteq Beside /\ cut \subseteq Beside

Torn == "unknown"
Empty == [n \in Nets |-> NotHosted]

FedInit ==
    /\ daemon = "up"
    /\ hostFile = [Empty EXCEPT ![Home] = NoKey] /\ joinFile = [n \in Beside |-> "no"]
    /\ hosted = hostFile /\ members = {} /\ declared = {Home}
    /\ entry = [p \in Peers |-> Unknown] /\ shown = [p \in Peers |-> {}]
    /\ joined = {} /\ cut = {}

\* host_network_ids and network_ids.
HostIds(h) == {n \in Nets : h[n] # NotHosted}
Ids == HostIds(hosted) \cup members

-----------------------------------------------------------------------------
(* The command line.  It loads the files, changes one and ends; the daemon *)
(* reads them when it starts.                                              *)

FilesLoad == hostFile[Home] # Torn
Rewritten(n, key) == hostFile' \in {[hostFile EXCEPT ![n] = key], [hostFile EXCEPT ![n] = Torn]}
CommandUnchanged == UNCHANGED <<daemon, joinFile, hosted, members, declared, entry, shown, joined, cut>>

\* host_network returns what is there if the network is hosted already; a file that does not load
\* is passed over and written again.
Host(n, key) ==
    /\ FilesLoad /\ n \in Hostable /\ hostFile[n] \in {NotHosted, Torn}
    /\ Rewritten(n, key) /\ CommandUnchanged

SetKey(n, key) ==
    /\ FilesLoad /\ hostFile[n] \notin {NotHosted, Torn}
    /\ Rewritten(n, key) /\ CommandUnchanged

Drop(n) ==
    /\ FilesLoad /\ n # Home /\ hostFile[n] \notin {NotHosted, Torn}
    /\ hostFile' = [hostFile EXCEPT ![n] = NotHosted] /\ CommandUnchanged

-----------------------------------------------------------------------------
(* Joining and leaving.                                                    *)

\* What the daemon holds is gone with it.
Down ==
    /\ daemon' = "down" /\ hosted' = Empty /\ members' = {} /\ declared' = {}
    /\ entry' = [p \in Peers |-> Unknown] /\ shown' = [p \in Peers |-> {}]

\* join_network, for each of ns in turn: the API gives it no join key.  A directory that cannot be
\* made leaves a network out.  A file that cannot be written, or not to its end, leaves it in memory
\* alone: the API reports the error, a handshake passes over it.
Joins(ns) ==
    \E new \in SUBSET ns : \E unwritten \in SUBSET new : \E torn \in SUBSET unwritten :
       /\ members' = members \cup new
       /\ joinFile' = [n \in Beside |-> IF n \in torn THEN "torn"
                                       ELSE IF n \in new \ unwritten THEN "yes" ELSE joinFile[n]]
       /\ joined' = joined \cup new /\ cut' = (cut \ new) \cup unwritten
       /\ UNCHANGED daemon
\* The daemon may die in the middle of one of them.
DiesJoining(n) ==
    /\ joinFile' = [joinFile EXCEPT ![n] = "torn"] /\ cut' = cut \cup {n}
    /\ Down /\ UNCHANGED <<hostFile, joined>>

Join(n) ==
    /\ daemon = "up"
    /\ \/ Joins({n}) /\ UNCHANGED <<hostFile, hosted, declared, entry, shown>>
       \/ DiesJoining(n)

\* Mutant: the file of a membership that is left stays.
UnlinkedNot(n) == joinFile
Unlinked(n) == [joinFile EXCEPT ![n] = "no"]

\* A file that cannot be removed is read again at the next start.
Leave(n) ==
    /\ daemon = "up" /\ n \in members
    /\ members' = members \ {n}
    /\ \/ joinFile' = Unlinked(n) /\ cut' = cut \ {n}
       \/ joinFile[n] # "no" /\ UNCHANGED joinFile /\ cut' = cut \cup {n}
    /\ joined' = joined \ {n}
    /\ UNCHANGED <<daemon, hostFile, hosted, declared, entry, shown>>

-----------------------------------------------------------------------------
(* Handshakes.                                                             *)

\* filter_claimed_network_ids: a network this node hosts with a key counts only with that key.
Keyed(n) == hosted[n] \in Keys
Accepted(claims, keys) == {n \in claims : Keyed(n) => n \in keys}

\* A peer that dials us; keys are the networks whose join key it presents.
Hello(p, claims, keys) ==
    /\ daemon = "up"
    /\ entry' = [entry EXCEPT ![p] = Accepted(claims, keys)]
    /\ shown' = [shown EXCEPT ![p] = keys]
    /\ UNCHANGED <<daemon, hostFile, joinFile, hosted, members, declared, joined, cut>>

\* A peer that we dial answers; the networks of a bootstrap are joined.
\* Mutant: what a peer that we dial claims is not filtered.
DialledClaimsAll(claims, keys) == claims
DialledClaims(claims, keys) == Accepted(claims, keys)

Dialled(p, claims, keys) ==
    /\ daemon = "up"
    /\ LET new == IF p \in BootstrapPeers THEN claims \ Ids ELSE {} IN
       \/ /\ entry' = [entry EXCEPT ![p] = DialledClaims(claims, keys)]
          /\ shown' = [shown EXCEPT ![p] = keys]
          /\ Joins(new)
          /\ UNCHANGED <<hostFile, hosted, declared>>
       \/ \E n \in new : DiesJoining(n)

\* The networks a request of peer p, or of this node, is routed in; none is no restriction.
Offered(q, nets) == entry[q] # Unknown /\ (nets = {} \/ entry[q] = {} \/ entry[q] \cap nets # {})
\* _resolve_peer_trust: a network that was joined is trusted, one that is hosted as far as it says.
Trusted(p) == entry[p] # Unknown /\ entry[p] \cap Ids # {}

-----------------------------------------------------------------------------
(* The daemon dies, and starts from its files.                             *)

Die ==
    /\ daemon = "up" /\ Down
    /\ UNCHANGED <<hostFile, joinFile, joined, cut>>

\* init_network raises on a torn home network; other files that do not load are passed over.
Start ==
    /\ daemon = "down"
    /\ IF hostFile[Home] = Torn
       THEN daemon' = "failed" /\ UNCHANGED <<hosted, members, declared>>
       ELSE /\ daemon' = "up"
            /\ hosted' = [n \in Nets |-> IF hostFile[n] = Torn THEN NotHosted ELSE hostFile[n]]
            /\ members' = {n \in Beside : joinFile[n] = "yes"}
            /\ declared' = HostIds(hosted') \cup members'
    /\ UNCHANGED <<hostFile, joinFile, entry, shown, joined, cut>>

FedNext ==
    \/ \E n \in Nets, key \in Keys \cup {NoKey} : Host(n, key) \/ SetKey(n, key)
    \/ \E n \in Nets : Drop(n)
    \/ \E n \in Beside : Join(n) \/ Leave(n)
    \/ \E p \in Peers, claims \in SUBSET Nets, keys \in SUBSET {m \in Nets : Keyed(m)} : Hello(p, claims, keys) \/ Dialled(p, claims, keys)
    \/ Die \/ Start

FedSpec == FedInit /\ [][FedNext]_fedVars

-----------------------------------------------------------------------------
(* Properties.                                                             *)

(* A peer counts as in a network this node hosts with a key only if it     *)
(* presented that key, whoever dialled, and whatever the command line has  *)
(* changed while the daemon runs: that is in force from the next start, at *)
(* which all peers shake hands again (federation.py                        *)
(* filter_claimed_network_ids, cli/network.py set-key).                    *)
Admitted ==
    \A p \in Peers, n \in Nets : entry[p] # Unknown /\ n \in entry[p] /\ Keyed(n) => n \in shown[p]

(* After any crash and restart the node is in the networks it joined, from *)
(* the API or of a bootstrap, and has not left, except those whose file was *)
(* last not written or removed: the node died, or the disk refused          *)
(* (federation.py join_network, leave_network, init_network).              *)
StaysJoined ==
    daemon = "up" => members \ cut = joined \ cut

(* Not kept: a membership that was granted, or ended, is so after the next *)
(* start as well ("Join an additional network", federation.py:301).        *)
JoinedForGood == daemon = "up" => members = joined

(* What init_network's caller expects: a crash leaves a node that starts.  *)
StartsAgain == daemon # "failed"

(* A peer whose claim to a network was dropped "gets no routing or model   *)
(* visibility on the protected one" (federation.py:252).                   *)
DroppedNotOffered ==
    \A p \in Peers, n \in Nets : entry[p] # Unknown /\ Keyed(n) /\ n \notin shown[p] => ~Offered(p, {n})
=============================================================================
