------------------------------ MODULE Serving ------------------------------
(***************************************************************************)
(* How an inference request travels between nodes: the pending requests of *)
(* a connection (transport/connection.py), the streams its answer comes by *)
(* (transport/quic.py), the node that serves it, relays it or refuses it,  *)
(* and the failover of the node that routed it (node.py).                  *)
(*                                                                         *)
(* One client asks once, of the node Origin.  A request that one node puts *)
(* to another is a task of that node; a task that routes puts the request  *)
(* to one node after another.  Who it believes to serve the model is what  *)
(* the peers announced, which may be out of date.  An answer is Chunks     *)
(* pieces long.  Frames of one stream arrive in order, messages that have  *)
(* a stream of their own arrive in any order; what never arrives is told   *)
(* from what is late by the timeout alone.                                 *)
(***************************************************************************)
EXTENDS Naturals, Sequences, FiniteSets

CONSTANTS
    Nodes, Origin,
    Believed,       \* [Nodes -> SUBSET Nodes]: who the registry of a node offers for the model
    Hops,           \* bound: requests that nodes put to nodes, unfinished ones
    Root,           \* the client's request
    Nothing,
    Chunks,
    MaxConcurrent,  \* _max_concurrent of a PeerConnection, 4 in the code
    QueueMax        \* the queue of a streamed answer, 500 in the code

ASSUME NodesAssumption == Origin \in Nodes /\ Believed \in [Nodes -> SUBSET Nodes]
ASSUME TasksAssumption ==
    IsFiniteSet(Hops) /\ Root \notin Hops /\ Nothing \notin Hops \cup Nodes \cup {Root}
ASSUME BoundsAssumption == Chunks \in Nat \ {0} /\ MaxConcurrent \in Nat \ {0} /\ QueueMax \in Nat \ {0}

Tasks == Hops \cup {Root}

VARIABLES
    loaded,     \* the nodes that have the model
    task,       \* a request at a node
    active,     \* _active_requests of the connection of a node to another
    result      \* what the client received: the pieces, and whether it ended and how

vars == <<loaded, task, active, result>>

\* "stream": pieces on one frame stream; "tools": one piece, and what ends it, each on a stream
\* of its own; "whole": one response; "relay": a request that is passed on and answered by the
\* first message that comes back.
Kinds == {"stream", "tools", "whole", "relay"}
Streamed(k) == k \in {"stream", "tools"}

Free == [at |-> Nothing, kind |-> "stream", from |-> Nothing, place |-> "free", todo |-> {},
         to |-> Nothing, child |-> Nothing, queue |-> <<>>, frames |-> <<>>, loose |-> {},
         told |-> 0, made |-> 0]

Piece(n, k) == [what |-> "piece", by |-> n, k |-> k]
Plain(w)    == [what |-> w, by |-> Nothing, k |-> 0]
Messages == {Piece(n, k) : n \in Nodes, k \in 1 .. Chunks} \cup {Plain(w) : w \in {"done", "error", "response"}}

TypeOK ==
    /\ loaded \subseteq Nodes
    /\ \A t \in Tasks :
         /\ task[t].at \in Nodes \cup {Nothing} /\ task[t].kind \in Kinds
         /\ task[t].from \in Tasks \cup {Nothing} /\ task[t].child \in Hops \cup {Nothing}
         /\ task[t].place \in {"free", "sent", "routing", "waiting", "serving", "ended"}
         /\ task[t].todo \subseteq Nodes /\ task[t].to \in Nodes \cup {Nothing}
         /\ task[t].queue \in Seq(Messages) /\ Len(task[t].queue) <= QueueMax
         /\ task[t].frames \in Seq(Messages) /\ task[t].loose \subseteq Messages
    /\ active \in [Nodes -> [Nodes -> 0 .. MaxConcurrent]]
    /\ result.out \in Seq(Messages) /\ result.end \in {"open", "answered", "none", "cut"}

Init ==
    /\ loaded \in SUBSET Nodes
    /\ task = [t \in Tasks |-> Free]
    /\ active = [n \in Nodes |-> [m \in Nodes |-> 0]]
    /\ result = [out |-> <<>>, end |-> "open"]

-----------------------------------------------------------------------------
(* Sending and ending.                                                     *)

\* The request is still awaited: its id is pending on the connection it came by.
Awaited(t) == t # Root /\ task[task[t].from].child = t

\* The tasks after t sent a message to whom it works for: on the frame stream of its answer, or
\* on a stream of its own.
Frame(ts, t, m) ==
    IF Awaited(t) THEN [ts EXCEPT ![task[t].from].frames = Append(@, m)] ELSE ts
Loose(ts, t, ms) ==
    IF Awaited(t) THEN [ts EXCEPT ![task[t].from].loose = @ \cup ms] ELSE ts

\* A task of a node is over, the last thing it did being to send ms.
Over(t, ms) == task' = [Loose(task, t, ms) EXCEPT ![t] = Free] /\ UNCHANGED result
\* The same of the client's request, which ends with e.
Answered(e) == task' = [task EXCEPT ![Root] = [Free EXCEPT !.place = "ended"]]
               /\ result' = [result EXCEPT !.end = e]

\* Tasks whose request to another node is over, answered or not.
Back(ts, t) == [ts EXCEPT ![t] = [ts[t] EXCEPT !.place = "routing", !.todo = @ \ {task[t].to}, !.to = Nothing,
                                               !.child = Nothing, !.queue = <<>>, !.frames = <<>>, !.loose = {}]]
\* Mutant: a request that timed out keeps its slot.
ReleasedByAnswer(t) ==
    active' = IF task[t].queue = <<>> THEN active ELSE [active EXCEPT ![task[t].at][task[t].to] = @ - 1]

\* The finally clause of request and request_stream.
Released(t) == active' = [active EXCEPT ![task[t].at][task[t].to] = @ - 1]

-----------------------------------------------------------------------------
(* The client and the nodes that receive requests.                         *)

\* route_inference, route_inference_stream, or a RELAY message for a peer or for the model.
Ask(k) ==
    /\ task[Root].place = "free"
    /\ LET t == [Free EXCEPT !.at = Origin, !.kind = k, !.place = "routing", !.todo = Believed[Origin]] IN
       \/ /\ k = "whole" /\ Origin \in loaded
          /\ task' = [task EXCEPT ![Root] = [t EXCEPT !.place = "serving"]]
       \/ /\ k # "relay" /\ ~(k = "whole" /\ Origin \in loaded)
          /\ task' = [task EXCEPT ![Root] = t]
       \/ /\ k = "relay"
          /\ \E m \in Nodes \ {Origin} : task' = [task EXCEPT ![Root] = [t EXCEPT !.todo = {m}]]
    /\ UNCHANGED <<loaded, active, result>>

\* Not admitted, or the node that serves the model is overloaded.
Refuse(t) ==
    /\ task[t].place = "sent"
    /\ Over(t, {Plain("error")})
    /\ UNCHANGED <<loaded, active>>

\* Admitted: served here, or passed on to whoever is believed to serve the model.
Admit(t) ==
    /\ task[t].place = "sent"
    /\ task' = [task EXCEPT ![t] = IF task[t].at \in loaded THEN [@ EXCEPT !.place = "serving"]
                                   ELSE [@ EXCEPT !.place = "routing", !.todo = Believed[task[t].at]]]
    /\ UNCHANGED <<loaded, active, result>>

-----------------------------------------------------------------------------
(* A node that has the model.                                              *)

Generate(t) ==
    /\ task[t].place = "serving" /\ task[t].kind = "stream" /\ task[t].made < Chunks
    /\ LET k == task[t].made + 1 IN
       task' = [Frame(task, t, Piece(task[t].at, k)) EXCEPT ![t].made = k]
    /\ UNCHANGED <<loaded, active, result>>

Generated(t) ==
    /\ task[t].place = "serving"
    /\ \/ /\ task[t].kind = "stream" /\ task[t].made = Chunks
          /\ task' = [Frame(task, t, Plain("done")) EXCEPT ![t] = Free] /\ UNCHANGED result
       \/ task[t].kind = "tools" /\ Over(t, {Piece(task[t].at, 1), Plain("done")})
       \/ task[t].kind = "whole" /\ t # Root /\ Over(t, {Plain("response")})
       \/ task[t].kind = "whole" /\ t = Root /\ Answered("answered")
    /\ UNCHANGED <<loaded, active>>

\* The backend fails.  A client's own request goes on to the next candidate model, that is, it
\* ends here.
GenerateFail(t) ==
    /\ task[t].place = "serving"
    /\ IF t = Root THEN Answered("none") ELSE Over(t, {Plain("error")})
    /\ UNCHANGED <<loaded, active>>

Unload(n) ==
    /\ n \in loaded
    /\ loaded' = loaded \ {n}
    /\ UNCHANGED <<task, active, result>>

-----------------------------------------------------------------------------
(* A node that puts the request to others.                                 *)

\* PeerConnection.is_overloaded
Full(n, m) == active[n][m] >= MaxConcurrent

Call(t, m, c) ==
    /\ task[t].place = "routing" /\ m \in task[t].todo /\ ~Full(task[t].at, m)
    /\ c \in Hops /\ task[c].place = "free"
    /\ \E k \in IF task[t].kind = "relay" THEN {"stream", "whole"} ELSE {task[t].kind} :
         task' = [task EXCEPT ![t] = [@ EXCEPT !.place = "waiting", !.to = m, !.child = c],
                              ![c] = [Free EXCEPT !.at = m, !.kind = k, !.from = t, !.place = "sent"]]
    /\ active' = [active EXCEPT ![task[t].at][m] = @ + 1]
    /\ UNCHANGED <<loaded, result>>

\* The request does not arrive, as happens to all that are put while Hops has no name left.
CallLost(t, m) ==
    /\ task[t].place = "routing" /\ m \in task[t].todo /\ ~Full(task[t].at, m)
    /\ task' = [task EXCEPT ![t] = [@ EXCEPT !.place = "waiting", !.to = m]]
    /\ active' = [active EXCEPT ![task[t].at][m] = @ + 1]
    /\ UNCHANGED <<loaded, result>>

\* chain.route leaves out a full connection; one that filled up since refuses the request.
CallFull(t, m) ==
    /\ task[t].place = "routing" /\ m \in task[t].todo /\ Full(task[t].at, m)
    /\ task' = [task EXCEPT ![t].todo = @ \ {m}]
    /\ UNCHANGED <<loaded, active, result>>

\* Nobody is left to ask.
Exhausted(t) ==
    /\ task[t].place = "routing" /\ task[t].todo = {}
    /\ IF t = Root THEN Answered("none") ELSE Over(t, {Plain("error")})
    /\ UNCHANGED <<loaded, active>>

\* handle_response: a full queue drops what comes, and so does a future that has its answer.
Room(t) == Len(task[t].queue) < IF Streamed(task[t].kind) THEN QueueMax ELSE 1
Put(t, m) == IF Room(t) THEN Append(task[t].queue, m) ELSE task[t].queue

DeliverFrame(t) ==
    /\ task[t].place = "waiting" /\ task[t].frames # <<>>
    /\ task' = [task EXCEPT ![t].frames = Tail(@), ![t].queue = Put(t, Head(task[t].frames))]
    /\ UNCHANGED <<loaded, active, result>>

DeliverLoose(t) ==
    /\ task[t].place = "waiting"
    /\ \E m \in task[t].loose :
         task' = [task EXCEPT ![t].loose = @ \ {m}, ![t].queue = Put(t, m)]
    /\ UNCHANGED <<loaded, active, result>>

Comes(t, w) == task[t].place = "waiting" /\ task[t].queue # <<>> /\ Head(task[t].queue).what = w

\* A piece is handed on at once; from here on the request is committed to this peer.
TakePiece(t) ==
    /\ Streamed(task[t].kind) /\ Comes(t, "piece")
    /\ LET m == Head(task[t].queue)
           ts == [task EXCEPT ![t].queue = Tail(@), ![t].told = @ + 1] IN
       IF t = Root THEN task' = ts /\ result' = [result EXCEPT !.out = Append(@, m)]
       ELSE task' = Frame(ts, t, m) /\ UNCHANGED result
    /\ UNCHANGED <<loaded, active>>

\* The stream of a peer is over: whoever was told pieces is told that they were all, and
\* otherwise that the model is unavailable.
StreamOver(t) ==
    IF t = Root THEN Answered(IF task[t].told > 0 THEN "answered" ELSE "none")
    ELSE IF task[t].told > 0
         THEN task' = [Frame(task, t, Plain("done")) EXCEPT ![t] = Free] /\ UNCHANGED result
         ELSE Over(t, {Plain("error")})

TakeDone(t) ==
    /\ Streamed(task[t].kind) /\ Comes(t, "done")
    /\ StreamOver(t)
    /\ Released(t)
    /\ UNCHANGED loaded

\* Mutant: a stream that fails is asked of the next peer although pieces were handed on.
FailedRetries(t) == task' = Back(task, t) /\ UNCHANGED result

\* An error or a timeout: the next peer, unless pieces were handed on.
Failed(t) ==
    IF Streamed(task[t].kind) /\ task[t].told > 0 THEN StreamOver(t)
    ELSE task' = Back(task, t) /\ UNCHANGED result

\* A response is debited and handed on.  The ledger may refuse: then the answer is thrown away
\* and the next peer asked.
TakeResponse(t) ==
    /\ task[t].kind = "whole" /\ Comes(t, "response")
    /\ \/ IF t = Root THEN Answered("answered") ELSE Over(t, {Plain("response")})
       \/ Failed(t)
    /\ Released(t)
    /\ UNCHANGED loaded

TakeError(t) ==
    /\ task[t].kind # "relay" /\ Comes(t, "error")
    /\ Failed(t)
    /\ Released(t)
    /\ UNCHANGED loaded

\* A relayed request is over with the first message of its answer, whatever that is.
TakeRelayed(t) ==
    /\ task[t].kind = "relay" /\ task[t].place = "waiting" /\ task[t].queue # <<>>
    /\ task' = [task EXCEPT ![t] = [Free EXCEPT !.place = "ended"]]
    /\ result' = [out |-> IF Comes(t, "piece") THEN Append(result.out, Head(task[t].queue)) ELSE result.out,
                  end |-> IF Comes(t, "error") THEN "none" ELSE "answered"]
    /\ Released(t)
    /\ UNCHANGED loaded

\* Mutant: the wait for the next message has no timeout.
TimeOutOnce(t) ==
    /\ task[t].place = "waiting" /\ task[t].queue = <<>> /\ task[t].told = 0
    /\ IF task[t].kind = "relay" THEN Answered("none") ELSE Failed(t)
    /\ Released(t)
    /\ UNCHANGED loaded

\* 120 seconds for each message of an answer, 60 for a relayed one.
TimeOut(t) ==
    /\ task[t].place = "waiting" /\ task[t].queue = <<>>
    /\ IF task[t].kind = "relay" THEN Answered("none") ELSE Failed(t)
    /\ Released(t)
    /\ UNCHANGED loaded

\* PeerConnection.close, called when the heartbeat gives up the connection of n to m: the
\* futures that wait on it are cancelled and with them the handlers, which answer nobody;
\* the queue of a stream among them stops it there, and the stream waits for its timeout.
Cut(n, m) ==
    LET waits == {t \in Tasks : task[t].place = "waiting" /\ task[t].at = n /\ task[t].to = m}
        futures == {t \in waits : ~Streamed(task[t].kind)} IN
    \E cut \in SUBSET futures \ {{}} :
       /\ waits = futures => cut = futures
       /\ task' = [t \in Tasks |-> IF t \notin cut THEN task[t]
                                   ELSE IF t = Root THEN [Free EXCEPT !.place = "ended"] ELSE Free]
       /\ active' = [active EXCEPT ![n][m] = @ - Cardinality(cut)]
       /\ result' = IF Root \in cut THEN [result EXCEPT !.end = "cut"] ELSE result
       /\ UNCHANGED loaded

-----------------------------------------------------------------------------
\* What a task does by itself.
Act(t) ==
    \/ Refuse(t) \/ Admit(t) \/ Generate(t) \/ Generated(t) \/ GenerateFail(t)
    \/ (\E m \in Nodes : CallFull(t, m) \/ CallLost(t, m) \/ \E c \in Hops : Call(t, m, c))
    \/ Exhausted(t)
    \/ TakePiece(t) \/ TakeDone(t) \/ TakeResponse(t) \/ TakeError(t) \/ TakeRelayed(t) \/ TimeOut(t)

Next ==
    \/ \E k \in Kinds : Ask(k)
    \/ \E t \in Tasks : Act(t) \/ DeliverFrame(t) \/ DeliverLoose(t)
    \/ \E n \in Nodes : Unload(n)
    \/ \E n, m \in Nodes : Cut(n, m)

\* Handlers run until they return; nothing is assumed of the network.
Fairness == \A t \in Tasks : WF_vars(Act(t))
Spec == Init /\ [][Next]_vars /\ Fairness

-----------------------------------------------------------------------------
(* Properties.                                                             *)

(* Whatever fails over to whatever, what a client is handed is the output  *)
(* of one node, in order and without repetition (node.py, "cannot          *)
(* transparently re-route without duplicating output").                    *)
OneVoice ==
    \A i, j \in 1 .. Len(result.out) :
        i < j => result.out[i].by = result.out[j].by /\ result.out[i].k < result.out[j].k

(* Every slot of a connection is held by a request that waits on it: none  *)
(* is lost to a timeout, an error or a cancelled handler                   *)
(* (connection.py, request and request_stream).                            *)
SlotsHeld ==
    \A n, m \in Nodes :
        active[n][m] = Cardinality({t \in Tasks : task[t].place = "waiting" /\ task[t].at = n /\ task[t].to = m})

(* A client that asks is told how it ended, although requests may be lost,  *)
(* answers dropped and nodes ask each other in a circle.                   *)
AskedEnds == task[Root].place = "routing" ~> result.end # "open"
=============================================================================
