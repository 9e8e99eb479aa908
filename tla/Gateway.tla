-------------------------------- MODULE Gateway --------------------------------
(***************************************************************************)
(* The public gateway (api/gateway.py): requests of one address that are   *)
(* admitted by a count of its requests and tokens, are offered to the      *)
(* candidates that the gateway can reach, in turn, until one answers, and  *)
(* are charged when they have been answered.  Between the admission and    *)
(* the charge lie the awaits of the inference: requests overlap, and what  *)
(* the gateway listed comes and goes.  A candidate that is a peer's is not *)
(* asked itself: route_inference is given its model, and asks for that.    *)
(* Every node of the fleet is taken to have announced an address, as       *)
(* _announce_to_bootstrap does.                                            *)
(***************************************************************************)
EXTENDS Integers, Sequences, FiniteSets

CONSTANTS
    Requests,       \* requests the address has under way at a time
    Offers,         \* models somewhere: a sequence of [name, tier, hop], in the order _get_candidates meets them
    DailyBudget,    \* _DAILY_TOKEN_BUDGET
    MaxCost,        \* the most one request is charged: _MAX_REQUEST_TOKENS and its prompt
    PerMinute       \* _MAX_REQUESTS_PER_MINUTE

\* Hops are counted as _hop_cost does: this node, a peer's connection, the HTTP address of a fleet node.
Local == 0
Quic  == 1
Http  == 2

ASSUME GatewayAssumption ==
    /\ IsFiniteSet(Requests)
    /\ Offers \in Seq([name : STRING, tier : Nat, hop : {Local, Quic, Http}])
    /\ DailyBudget \in Nat /\ MaxCost \in Nat \ {0} /\ PerMinute \in Nat \ {0}

VARIABLES
    rate,       \* _rate_state of the address
    request     \* the requests

gwVars == <<rate, request>>

Indices == 1 .. Len(Offers)
\* _round_robin_counter is advanced by requests of every address: a turn may be any.
Turns == 0 .. Len(Offers) - 1
\* A request: what is left of its candidates, all of them, who was asked in vain, the candidates that
\* were not to be reached in their turn, and who answered it in the end.
Given(where, by) == [at |-> where, stream |-> FALSE, left |-> <<>>, listed |-> {}, asked |-> {}, lost |-> {}, by |-> by]
At(where) == Given(where, {})
\* "blank": the client was told that its request is done, and not a word.
Over == {"none", "refused", "answered", "blank", "exhausted", "broken"}

GatewayTypeOK ==
    /\ rate \in [tokens : Nat, requests : Nat, minuteOver : BOOLEAN, dayOver : BOOLEAN]
    /\ \A r \in Requests : /\ request[r].at \in Over \cup {"trying", "streaming"} /\ request[r].stream \in BOOLEAN
                           /\ request[r].left \in Seq(Indices) /\ request[r].listed \subseteq Indices
                           /\ request[r].asked \subseteq Indices /\ request[r].lost \subseteq Indices
                           /\ request[r].by \subseteq Indices

GwInit ==
    /\ rate = [tokens |-> 0, requests |-> 0, minuteOver |-> FALSE, dayOver |-> FALSE]
    /\ request = [r \in Requests |-> At("none")]

-----------------------------------------------------------------------------
(* Candidates.                                                             *)

Key(i) == <<Offers[i].tier, Offers[i].hop>>
Before(k, l) == k[1] < l[1] \/ (k[1] = l[1] /\ k[2] < l[2])

\* Those of its key keep the order they were met in, and begin at another of them each time: the
\* place of i among them, and the place the counter gives it.
Alike(i, present) == {k \in present : Key(k) = Key(i)}
Place(i, present) == Cardinality({k \in Alike(i, present) : k < i})
Rotated(i, present, by) == (Place(i, present) - by) % Cardinality(Alike(i, present))

Ahead(k, i, present, by) ==
    \/ Before(Key(k), Key(i))
    \/ Key(k) = Key(i) /\ Rotated(k, present, by) < Rotated(i, present, by)

\* _get_candidates: each has as many ahead of it as it has in the list.
Candidates(present, by) ==
    [n \in 1 .. Cardinality(present) |->
        CHOOSE i \in present : Cardinality({k \in present : Ahead(k, i, present, by)}) = n - 1]

-----------------------------------------------------------------------------
(* The count of the address.                                               *)

\* _check_rate begins a new day and a new minute when one is asked for.
Renewed == [rate EXCEPT !.tokens = IF rate.dayOver THEN 0 ELSE @, !.dayOver = FALSE,
                        !.requests = IF rate.minuteOver THEN 0 ELSE @, !.minuteOver = FALSE]
Allowed(state) == state.requests < PerMinute /\ state.tokens <= DailyBudget

\* _record_usage, of an answer that was given to the end.
Charged(cost) == rate' = [rate EXCEPT !.tokens = @ + cost, !.requests = @ + 1]

Minute == ~rate.minuteOver /\ rate.requests > 0 /\ rate' = [rate EXCEPT !.minuteOver = TRUE] /\ UNCHANGED request
Day    == ~rate.dayOver /\ rate.tokens > 0 /\ rate' = [rate EXCEPT !.dayOver = TRUE] /\ UNCHANGED request

-----------------------------------------------------------------------------
(* Requests.                                                               *)

\* public_chat up to its candidates: what is there, and suits the request, at this moment.
Ask(r, present) ==
    /\ request[r].at \in Over
    /\ rate' = Renewed
    /\ IF ~Allowed(Renewed) THEN request' = [request EXCEPT ![r] = At("refused")]
       ELSE IF present = {} THEN request' = [request EXCEPT ![r] = At("exhausted")]
       ELSE \E list \in {Candidates(present, turn) : turn \in Turns}, stream \in BOOLEAN : request' = [request EXCEPT
                ![r] = [At("trying") EXCEPT !.stream = stream, !.left = list, !.listed = present]]

Trying(r) == request[r].at = "trying" /\ request[r].left # <<>>
Foremost(r) == Head(request[r].left)

\* Who offers the model of candidate i; of those that are there now, those here and those connected.
OfModel(i) == {k \in Indices : Offers[k].name = Offers[i].name}
Loaded(i, now)    == {k \in OfModel(i) \cap now : Offers[k].hop = Local}
Connected(i, now) == {k \in OfModel(i) \cap now : Offers[k].hop = Quic}

\* Who is asked for the whole text at the turn of i.  route_inference has the model of this node
\* before every peer, and asks none of them when it fails; else it asks all that are connected.
Asks(i, now) ==
    IF Offers[i].hop = Http THEN {i}
    ELSE IF Offers[i].hop = Quic /\ Loaded(i, now) = {} THEN Connected(i, now)
    ELSE Loaded(i, now)

\* One of those asked answers.  What this node says for a peer is no dict of a peer: it is thrown away.
Answered(r) ==
    /\ Trying(r) /\ ~request[r].stream
    /\ \E now \in SUBSET OfModel(Foremost(r)) : \E by \in Asks(Foremost(r), now), cost \in 0 .. MaxCost :
          LET dropped == Offers[Foremost(r)].hop = Quic /\ Offers[by].hop = Local IN
          /\ dropped => cost = 0
          /\ Charged(cost)
          /\ request' = [request EXCEPT ![r] = Given(IF dropped THEN "blank" ELSE "answered", {by})]

\* A stream is begun: from here on there is no other candidate.  Only a fleet node was asked for
\* its answer first.
StreamBegins(r) ==
    /\ Trying(r) /\ request[r].stream
    /\ request' = [request EXCEPT ![r] = [At("streaming") EXCEPT !.left = <<Foremost(r)>>]]
    /\ UNCHANGED rate

\* Mutant: the first candidate that fails ends the request.
FirstFails(r) ==
    /\ Trying(r) /\ (request[r].stream => Offers[Foremost(r)].hop = Http)
    /\ request' = [request EXCEPT ![r] = At("exhausted")]
    /\ UNCHANGED rate

\* All who are asked are busy, gone or unreachable: the next one.  A connection or this node fails a stream only later.
CandidateFails(r) ==
    /\ Trying(r) /\ (request[r].stream => Offers[Foremost(r)].hop = Http)
    /\ \E now \in SUBSET OfModel(Foremost(r)) : request' = [request EXCEPT
          ![r].left = Tail(@), ![r].asked = @ \cup Asks(Foremost(r), now),
          ![r].lost = @ \cup ({Foremost(r)} \ (now \cup Asks(Foremost(r), now)))]
    /\ UNCHANGED rate

Exhausted(r) ==
    /\ request[r].at = "trying" /\ request[r].left = <<>>
    /\ request' = [request EXCEPT ![r] = At("exhausted")]
    /\ UNCHANGED rate

\* route_inference_stream asks only peers, ends where the one it began to pass on falls off, and
\* without a word when there is none.
StreamEnds(r) ==
    /\ request[r].at = "streaming"
    /\ \/ \E now \in SUBSET OfModel(Foremost(r)), cost \in 0 .. MaxCost :
             \E by \in IF Offers[Foremost(r)].hop = Quic THEN Connected(Foremost(r), now) ELSE {Foremost(r)} :
                /\ Charged(cost)
                /\ request' = [request EXCEPT ![r] = Given("answered", {by})]
       \/ /\ Offers[Foremost(r)].hop = Quic
          /\ Charged(0)
          /\ request' = [request EXCEPT ![r] = At("blank")]

\* This node or the fleet's fails in the middle of a stream, or the client leaves: nothing is charged.
StreamBreaks(r) ==
    /\ request[r].at = "streaming"
    /\ request' = [request EXCEPT ![r] = At("broken")]
    /\ UNCHANGED rate

GwNext ==
    \/ \E r \in Requests : \/ \E present \in SUBSET Indices : Ask(r, present)
                           \/ Answered(r) \/ StreamBegins(r) \/ CandidateFails(r) \/ Exhausted(r)
                           \/ StreamEnds(r) \/ StreamBreaks(r)
    \/ Minute \/ Day

GwSpec == GwInit /\ [][GwNext]_gwVars

-----------------------------------------------------------------------------
(* Properties.                                                             *)

(* What _get_candidates promises of the list it makes: everyone who is     *)
(* there once, a lower tier first, within a tier a nearer one.             *)
InOrder(list, present) ==
    /\ list \in Seq(Indices) /\ {list[i] : i \in 1 .. Len(list)} = present
    /\ \A i, j \in 1 .. Len(list) : i < j => list[i] # list[j] /\ ~Before(Key(list[j]), Key(list[i]))
Sorting == \A present \in SUBSET Indices, turn \in Turns : InOrder(Candidates(present, turn), present)

(* However candidates are rotated, requests overlap and offers come and    *)
(* go, a request is answered at the turn of a candidate only when all that *)
(* are nearer, or of a lower tier, were asked in vain, and then by one of  *)
(* that candidate's model which is no farther away than it; and it is      *)
(* refused for want of one only when all were asked in vain.  Not asked    *)
(* are those that were gone, and peers whose model is loaded here too, and *)
(* was asked instead of them (api/gateway.py _get_candidates: "Rotate      *)
(* within (tier, hop cost), NOT within tier alone"; _proxy_fleet: "THIS    *)
(* USED TO return ... AND THAT ENDED THE REQUEST").                        *)
InVain(q, i) ==
    \/ i \in q.asked \cup q.lost
    \/ Offers[i].hop = Quic /\ Loaded(i, q.asked) # {}
Serves(r) ==
    LET q == request[r]  after == request'[r] IN
    /\ after.at \in {"answered", "blank", "streaming"} =>
          \A i \in q.listed : Before(Key(i), Key(Foremost(r))) => InVain(q, i)
    /\ \A by \in after.by : Offers[by].name = Offers[Foremost(r)].name /\ Offers[by].hop <= Offers[Foremost(r)].hop
    /\ after.at = "exhausted" => \A i \in q.listed : InVain(q, i)
NearestFirst == [][\A r \in Requests : request[r].at = "trying" => Serves(r)]_gwVars

(* Not kept.  A request is refused only when every candidate that could be *)
(* reached was asked (api/gateway.py public_chat: "failover to next if     *)
(* busy/error"), and one that is answered is answered in words.            *)
EveryoneAsked ==
    [][\A r \in Requests : request[r].at = "trying" /\ request'[r].at = "exhausted" =>
          request[r].listed \subseteq request[r].asked \cup request[r].lost]_gwVars
AnsweredInWords == \A r \in Requests : request[r].at # "blank"

(* In a day an address is charged at most its budget and what its requests *)
(* under way when it was used up cost: requests that overlap all see what  *)
(* was left before any of them (api/gateway.py _check_rate, _record_usage).*)
BudgetOverrun == rate.tokens <= DailyBudget + MaxCost * Cardinality(Requests)
=============================================================================
