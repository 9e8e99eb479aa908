------------------------------- MODULE Chat -------------------------------
(***************************************************************************)
(* POST /v1/chat/completions: how one request is matched with models       *)
(* (router/model_resolver.py) and tried on one source after another        *)
(* (api/openai.py), streamed or whole.                                     *)
(*                                                                         *)
(* A source is a model of this node, the peers connected over QUIC that    *)
(* serve a model (their own failover is module Serving), or a node of the  *)
(* fleet reached over HTTP.  What a source does when it is asked does not  *)
(* change while the request lasts.  The scores by which candidates are     *)
(* ranked are left out: they are tried in any order.  Those that the       *)
(* balance of the node does not open are not among them.                   *)
(***************************************************************************)
EXTENDS Naturals, Sequences, FiniteSets

CONSTANTS
    Models,
    Embedding,      \* the models that embed and cannot generate
    Fleet,          \* nodes that announced themselves over HTTP
    Lists,          \* [Fleet -> SUBSET Models]: the models they list
    Here, There,    \* the models that may be loaded here, and that peers may announce
    AnyModel,       \* the request names no model
    Named,          \* what requests name, AnyModel or a model
    Meeting,        \* sets of models that may meet the constraints of a request
    Affording       \* sets of models whose tiers a balance may open

ASSUME ModelsAssumption == Embedding \subseteq Models /\ Here \subseteq Models /\ There \subseteq Models
ASSUME FleetAssumption == Lists \in [Fleet -> SUBSET Models]
ASSUME RequestsAssumption == AnyModel \notin Models /\ Named \subseteq Models \cup {AnyModel} /\ Meeting \subseteq SUBSET Models
                             /\ Affording \subseteq SUBSET Models

Sources == {<<"local", m>> : m \in Here} \cup {<<"quic", m>> : m \in There} \cup {<<"fleet", f>> : f \in Fleet}

VARIABLES
    request,    \* what the client asked for
    does,       \* what a source does when asked, if it is there
    linked,     \* the nodes of the fleet with a QUIC connection
    place,      \* where the handler is
    todo,       \* the candidates left
    at,         \* the model that is tried
    entries,    \* the nodes of the fleet left to try for it
    out,        \* the sources of the pieces the client received
    end         \* what the client was told at the end

chatVars == <<request, does, linked, place, todo, at, entries, out, end>>
world == <<request, does, linked>>

\* Is not there: not loaded, not announced by a live peer, not an approved node that is online.
\* Works; breaks after a first piece; fails before; is busy, as only a model of this node can be.
Doing(s) == {"absent", "works", "breaks", "fails"} \cup IF s[1] = "local" THEN {"busy"} ELSE {}

\* fits: the models that meet the quality constraints of the request.  affords: those of the
\* tiers that the balance of this node opens, all without a ledger.
Requests == [stream : BOOLEAN, model : Named, constrained : BOOLEAN, fits : Meeting \cup {Models},
             affords : Affording \cup {Models},
             trust : {"any", "trusted", "local"}, fallback : {"downgrade", "reject"}, tools : BOOLEAN]

ChatInit ==
    /\ request \in {r \in Requests : /\ r.tools => r.stream
                                     /\ r.stream => r.affords = Models
                                     /\ ~r.constrained \/ r.stream =>
                                          ~r.constrained /\ r.fits = Models /\ r.trust = "any" /\ r.fallback = "downgrade"}
    /\ does \in {d \in [Sources -> {"absent", "works", "breaks", "fails", "busy"}] : \A s \in Sources : d[s] \in Doing(s)}
    /\ linked \in SUBSET {f \in Fleet : does[<<"fleet", f>>] # "absent"}
    /\ place = "start" /\ todo = {} /\ at = AnyModel /\ entries = {} /\ out = <<>> /\ end = "open"

Works(s) == does[s] = "works"
local == {m \in Here : does[<<"local", m>>] # "absent"}
quic  == {m \in There : does[<<"quic", m>>] # "absent"}
fleet == {f \in Fleet : does[<<"fleet", f>>] # "absent"}
Listing(m) == {f \in fleet : m \in Lists[f]}

-----------------------------------------------------------------------------
(* The resolver.                                                           *)

Candidates == {<<"local", m>> : m \in local} \cup {<<"quic", m>> : m \in quic}
              \cup {<<"fleet", m>> : m \in {x \in Models : Listing(x) # {}}}

\* Names match exactly or not at all here: no match leaves every candidate.
Requested(cs) ==
    IF request.model = AnyModel THEN {c \in cs : c[2] \notin Embedding}
    ELSE LET exact == {c \in cs : c[2] = request.model} IN IF exact # {} THEN exact ELSE cs

\* Mutant: the trust filter lets every source through.
TrustIgnored(cs) == cs

Trusted(cs) ==
    CASE request.trust = "local"   -> {c \in cs : c[1] = "local"}
      [] request.trust = "trusted" -> {c \in cs : c[1] \in {"local", "quic"}}
      [] OTHER                     -> cs

\* _apply_balance_filter: only the tiers that the balance opens, unless none has a candidate.
Affordable(cs) ==
    LET within == {c \in cs : c[2] \in request.affords} IN IF within # {} THEN within ELSE cs

Resolved == Requested(Candidates)
ResolvedUnder == Trusted(Affordable({c \in Requested(Candidates) : c[2] \in request.fits}))

\* The candidates of a request that is not streamed.  A request that is downgraded is resolved
\* without its constraints, and without the balance.
Ranked ==
    IF ~request.constrained THEN Affordable(Resolved)
    ELSE IF ResolvedUnder # {} THEN ResolvedUnder ELSE Resolved

-----------------------------------------------------------------------------
(* A request that is answered whole.                                       *)

Ended(e) == end' = e /\ place' = "ended" /\ UNCHANGED <<todo, at, entries>>
Goes(p, m) == place' = p /\ at' = m

StartWhole ==
    /\ place = "start" /\ ~request.stream
    /\ IF request.model \in local THEN Goes("generate", request.model) /\ UNCHANGED <<todo, entries, end>>
       ELSE IF request.constrained /\ ResolvedUnder = {} /\ request.fallback = "reject" THEN Ended("rejected")
       ELSE place' = "ranked" /\ todo' = Ranked /\ UNCHANGED <<at, entries, end>>
    /\ UNCHANGED <<world, out>>

Answer(s) == out' = Append(out, s) /\ Ended("answered")

\* route_inference: a model that is loaded here is generated here, and if that fails nowhere.
ByRouting(m) == IF m \in local THEN <<"local", m>> ELSE <<"quic", m>>
Routes(m) == m \in local \cup quic /\ Works(ByRouting(m)) /\ m \notin Embedding

\* _route_via_fleet: the nodes that list the model, by routing if they are connected, and then
\* by HTTP.
FleetAnswers(m) ==
    {ByRouting(m) : f \in {f \in Listing(m) : f \in linked /\ Routes(m)}}
    \cup {<<"fleet", f>> : f \in {f \in Listing(m) : Works(<<"fleet", f>>) /\ ~(Routes(m) /\ linked \cap Listing(m) # {})}}

TryRanked ==
    /\ place = "ranked" /\ ~request.stream
    /\ \E c \in todo :
         CASE c[1] = "local" -> Goes("generate", c[2]) /\ UNCHANGED <<todo, entries, out, end>>
           [] c[1] = "quic" /\ Routes(c[2]) -> Answer(ByRouting(c[2]))
           [] c[1] = "fleet" /\ FleetAnswers(c[2]) # {} -> \E s \in FleetAnswers(c[2]) : Answer(s)
           [] OTHER -> todo' = todo \ {c} /\ UNCHANGED <<place, at, entries, out, end>>
    /\ UNCHANGED world

\* Every candidate failed: any model of this node that can generate, when none was named.
NoneRanked ==
    /\ place = "ranked" /\ ~request.stream /\ todo = {}
    /\ LET loaded == IF request.model = AnyModel THEN local \ Embedding ELSE local \cap {request.model} IN
       \/ \E m \in loaded : Goes("generate", m)
       \/ loaded = {} /\ Goes("route", request.model)
    /\ UNCHANGED <<world, todo, entries, out, end>>

\* _find_alternative_model: a model whose lock is free, of whatever kind.
Alternatives(m) == {x \in local \ {m} : does[<<"local", x>>] # "busy"}

Generates(m) == Works(<<"local", m>>) /\ m \notin Embedding

GenerateWhole ==
    /\ place = "generate"
    /\ IF does[<<"local", at>>] = "busy"
       THEN \/ Alternatives(at) = {} /\ UNCHANGED out /\ Ended("busy")
            \/ \E x \in Alternatives(at) : IF Generates(x) THEN Answer(<<"local", x>>)
                                           ELSE UNCHANGED out /\ Ended("busy")
       ELSE IF Generates(at) THEN Answer(<<"local", at>>) ELSE UNCHANGED out /\ Ended("error")
    /\ UNCHANGED world

\* The last resort, without the constraints: the peers, and then the fleet, for the model as it
\* was named.  No node lists "auto".
RouteWhole ==
    /\ place = "route"
    /\ LET ms == IF at = AnyModel THEN (local \cup quic \cup UNION {Lists[f] : f \in fleet}) \ Embedding ELSE {at} IN
       \/ \E m \in ms : Routes(m) /\ Answer(ByRouting(m))
       \/ (\A m \in ms : ~Routes(m)) /\ at # AnyModel /\ \E s \in FleetAnswers(at) : Answer(s)
       \/ /\ \A m \in ms : ~Routes(m)
          /\ at # AnyModel => FleetAnswers(at) = {}
          /\ UNCHANGED out /\ Ended("none")
    /\ UNCHANGED world

-----------------------------------------------------------------------------
(* A request that is streamed.  The constraints are not read.              *)

StartStream ==
    /\ place = "start" /\ request.stream
    /\ place' = "stream"
    /\ todo' = IF request.model = AnyModel THEN {<<"any", c[2]>> : c \in Resolved} ELSE {<<"any", request.model>>}
    /\ UNCHANGED <<world, at, entries, out, end>>

\* Mutant: the next candidate is tried even if pieces were emitted.
OverLast == IF out' # <<>> /\ todo = {} THEN Ended("answered") ELSE place' = "stream" /\ UNCHANGED <<at, entries, todo, end>>

\* The stream of a candidate came to its end: when it emitted, it was the last one.
Over == IF out' # <<>> THEN Ended("answered") ELSE place' = "stream" /\ UNCHANGED <<at, entries, todo, end>>

\* A stream of two pieces; one that breaks yields the first.  With tools a model of this node
\* is asked for the whole answer, and nothing is emitted unless it works.
Pieces(s) ==
    CASE s[1] # "fleet" /\ s[2] \in Embedding -> <<>>
      [] does[s] = "works"  -> <<s, s>>
      [] does[s] = "breaks" -> IF s[1] = "local" /\ request.tools THEN <<>> ELSE <<s>>
      [] OTHER              -> <<>>

TryStream ==
    /\ place = "stream"
    /\ \E c \in todo :
         /\ todo' = todo \ {c}
         /\ Goes(IF c[2] \in local THEN "local" ELSE "peers", c[2])
    /\ UNCHANGED <<world, entries, out, end>>

StreamLocal ==
    /\ place = "local"
    /\ LET s == <<"local", at>> IN
       IF does[s] = "busy" /\ ~request.tools /\ Alternatives(at) # {}
       THEN \E x \in Alternatives(at) : out' = out \o Pieces(<<"local", x>>)
       ELSE out' = out \o Pieces(s)
    /\ Over
    /\ UNCHANGED world

StreamPeers ==
    /\ place = "peers"
    /\ out' = IF at \in quic THEN out \o Pieces(<<"quic", at>>) ELSE out
    /\ IF out' # <<>> THEN Over
       ELSE place' = "fleet" /\ entries' = Listing(at) /\ UNCHANGED <<at, todo, end>>
    /\ UNCHANGED world

\* Mutant: one node of the fleet is tried, and no other.
StreamFleetOnce ==
    /\ place = "fleet"
    /\ \/ \E f \in entries :
            /\ out' = out \o Pieces(<<"fleet", f>>)
            /\ entries' = {}
            /\ IF Works(<<"fleet", f>>) THEN end' = "answered" /\ place' = "ended" /\ UNCHANGED <<todo, at>>
               ELSE UNCHANGED <<place, todo, at, end>>
       \/ entries = {} /\ UNCHANGED out /\ Over
    /\ UNCHANGED world

\* A node whose stream breaks is followed by the next one, even if pieces were emitted.
StreamFleet ==
    /\ place = "fleet"
    /\ \/ \E f \in entries :
            /\ out' = out \o Pieces(<<"fleet", f>>)
            /\ entries' = entries \ {f}
            /\ IF Works(<<"fleet", f>>) THEN end' = "answered" /\ place' = "ended" /\ UNCHANGED <<todo, at>>
               ELSE UNCHANGED <<place, todo, at, end>>
       \/ entries = {} /\ UNCHANGED out /\ Over
    /\ UNCHANGED world

\* Every candidate bowed out: the client is told why.
NoneStreamed ==
    /\ place = "stream" /\ todo = {}
    /\ Ended("none")
    /\ UNCHANGED <<world, out>>

ChatNext ==
    \/ StartWhole \/ TryRanked \/ NoneRanked \/ GenerateWhole \/ RouteWhole
    \/ StartStream \/ TryStream \/ StreamLocal \/ StreamPeers \/ StreamFleet \/ NoneStreamed

ChatSpec == ChatInit /\ [][ChatNext]_chatVars /\ WF_chatVars(ChatNext)

-----------------------------------------------------------------------------
(* Properties.                                                             *)

(* Who the request could have reached for a model.                         *)
Reached(m) ==
    IF m \in local THEN {<<"local", m>>}
    ELSE {s \in {<<"quic", m>>} : m \in quic} \cup {<<"fleet", f>> : f \in Listing(m)}

(* A node of the fleet whose model the balance does not open, while it opens that of another   *)
(* candidate: "auto" does not try it.  Peers and this node are tried again, whatever the balance. *)
Barred(m, s) ==
    /\ s[1] = "fleet" /\ request.model = AnyModel /\ ~request.stream
    /\ m \notin request.affords /\ \E c \in Resolved : c[2] \in request.affords

(* A client that is told that nobody serves its request was told the truth: *)
(* no source of the model it named, or of any model when it named none,     *)
(* would have answered, but for a node of the fleet that its balance does not open; constraints *)
(* apart (api/openai.py, "if the best model's seeder is down,               *)
(* fall through to the next-best rather than failing the request").         *)
NoneIsTrue ==
    end = "none" /\ ~request.constrained =>
        \A m \in IF request.model = AnyModel THEN Models \ Embedding ELSE {request.model} \ Embedding :
            \A s \in Reached(m) : Works(s) => Barred(m, s)

(* A request for this node alone that is rejected rather than downgraded    *)
(* never leaves it, unless it is streamed (model_resolver.py, "local: only  *)
(* models on this node (no network exposure)").                             *)
LocalStays ==
    request.trust = "local" /\ request.fallback = "reject" /\ ~request.stream =>
        \A i \in 1 .. Len(out) : out[i][1] = "local"

(* Except where a node of the fleet broke off, all pieces of a stream are   *)
(* of one source (api/openai.py, "re-routing is off the table").            *)
OneSource ==
    \A i \in 2 .. Len(out) : out[i] = out[i - 1] \/ out[i - 1][1] = "fleet"

-----------------------------------------------------------------------------
(* What the repository says of the program and the code does not keep.     *)

\* model_resolver.py, _apply_balance_filter: "Last resort: return all candidates (don't block
\* completely)".  When those that the balance opens fail, the others of the fleet are not tried.
NeverBlocked ==
    end = "none" /\ ~request.constrained /\ request.model = AnyModel =>
        \A m \in Models \ Embedding : \A s \in Reached(m) : ~Works(s)
=============================================================================
