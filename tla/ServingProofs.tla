---------------------------- MODULE ServingProofs ----------------------------
(***************************************************************************)
(* Proofs about Serving: for any nodes, beliefs, number of requests in     *)
(* flight, length of an answer and size of the queues.                     *)
(***************************************************************************)
EXTENDS Serving, FiniteSetTheorems, SequenceTheorems, TLAPS

-----------------------------------------------------------------------------
(* The invariant.                                                          *)

Places == {"free", "sent", "routing", "waiting", "serving", "ended"}
Record == [at : Nodes \cup {Nothing}, kind : Kinds, from : Tasks \cup {Nothing}, place : Places,
           todo : SUBSET Nodes, to : Nodes \cup {Nothing}, child : Hops \cup {Nothing},
           queue : Seq(Messages), frames : Seq(Messages), loose : SUBSET Messages,
           told : Nat, made : Nat]
Ends == {"open", "answered", "none", "cut"}

\* What the record r of the task t holds at each place.
Placed(t, r) ==
    /\ r.place \notin {"free", "ended"} => r.at \in Nodes
    /\ r.place = "waiting" => r.to \in Nodes
    /\ r.place # "waiting" => r.child = Nothing /\ r.queue = <<>> /\ r.frames = <<>> /\ r.loose = {} /\ r.told = 0
    /\ ~Streamed(r.kind) => r.told = 0
    /\ r.made # 0 => r.place = "serving" /\ r.kind = "stream"
    /\ r.from # t
    /\ t = Root => r.from = Nothing /\ r.place # "sent" /\ (r.place = "serving" => r.kind = "whole")
    /\ t # Root /\ r.place # "free" => r.from \in Tasks /\ r.place # "ended" /\ r.kind # "relay"
    /\ Len(r.queue) <= QueueMax

Shape ==
    /\ loaded \subseteq Nodes
    /\ task \in [Tasks -> Record]
    /\ \A t \in Tasks : Placed(t, task[t])
    /\ active \in [Nodes -> [Nodes -> Int]]
    /\ \A n, m \in Nodes : active[n][m] <= MaxConcurrent
    /\ result \in [out : Seq(Messages), end : Ends]

\* What c sends is for u.
Feeds(c, u) == task[c].from = u /\ task[u].child = c

\* A request is pending at its connection: an entry of active.
Holds(t, n, m) == task[t].place = "waiting" /\ task[t].at = n /\ task[t].to = m

-----------------------------------------------------------------------------
(* What the parts of an action do to the tasks.                            *)

LEMMA FreeShape == Free \in Record /\ \A t \in Tasks \ {Root} : Placed(t, Free)
  BY TasksAssumption, BoundsAssumption, EmptySeq
     DEF Free, Record, Placed, Places, Kinds, Streamed, Tasks

\* The record of the client's request when it is over.
Closed == [Free EXCEPT !.place = "ended"]

LEMMA ClosedShape == Closed \in Record /\ Placed(Root, Closed)
<1>1. /\ Free \in Record /\ Free.kind = "stream" /\ Free.from = Nothing /\ Free.child = Nothing
      /\ Free.queue = <<>> /\ Free.frames = <<>> /\ Free.loose = {} /\ Free.told = 0 /\ Free.made = 0
  BY FreeShape DEF Free
<1>2. /\ Closed \in Record /\ Closed.place = "ended" /\ Closed.kind = "stream" /\ Closed.from = Nothing
      /\ Closed.child = Nothing /\ Closed.queue = <<>> /\ Closed.frames = <<>> /\ Closed.loose = {}
      /\ Closed.told = 0 /\ Closed.made = 0
  BY <1>1 DEF Closed, Record, Places
<1>3. QED
  BY <1>2, TasksAssumption, BoundsAssumption, EmptySeq DEF Placed, Streamed, Tasks

LEMMA RootFreeShape == Placed(Root, Free)
  BY TasksAssumption, BoundsAssumption, EmptySeq
     DEF Free, Record, Placed, Places, Kinds, Streamed, Tasks

LEMMA MessageTypes ==
    /\ \A w \in {"done", "error", "response"} : Plain(w) \in Messages
    /\ \A n \in Nodes, k \in 1 .. Chunks : Piece(n, k) \in Messages
  BY DEF Messages

\* Whoever waits for t is told by the stream of its own.
LEMMA LooseIs ==
    ASSUME Shape, NEW t \in Tasks, NEW ts \in [Tasks -> Record], NEW ms
    PROVE  Loose(ts, t, ms) =
               [u \in Tasks |-> IF Feeds(t, u) THEN [ts[u] EXCEPT !.loose = @ \cup ms] ELSE ts[u]]
<1>1. CASE task[t].from \in Tasks
  <2>1. Awaited(t) <=> Feeds(t, task[t].from)
    BY <1>1, TasksAssumption DEF Awaited, Feeds, Shape, Record, Placed, Tasks
  <2>2. \A u \in Tasks : Feeds(t, u) => u = task[t].from
    BY DEF Feeds
  <2>3. CASE Awaited(t)
    BY <1>1, <2>1, <2>2, <2>3 DEF Loose
  <2>4. CASE ~Awaited(t)
    <3>1. \A u \in Tasks : ~Feeds(t, u)
      BY <2>1, <2>2, <2>4
    <3>2. QED
      BY <2>4, <3>1 DEF Loose
  <2>5. QED
    BY <2>3, <2>4
<1>2. CASE task[t].from \notin Tasks
  <2>1. \A u \in Tasks : ~Feeds(t, u)
    BY <1>2 DEF Feeds
  <2>2. CASE Awaited(t)
    BY <1>2, <2>1, <2>2 DEF Loose
  <2>3. CASE ~Awaited(t)
    BY <2>1, <2>3 DEF Loose
  <2>4. QED
    BY <2>2, <2>3
<1>3. QED
  BY <1>1, <1>2

\* Or by the stream of frames.
LEMMA FrameIs ==
    ASSUME Shape, NEW t \in Tasks, NEW ts \in [Tasks -> Record], NEW m
    PROVE  Frame(ts, t, m) =
               [u \in Tasks |-> IF Feeds(t, u) THEN [ts[u] EXCEPT !.frames = Append(@, m)] ELSE ts[u]]
<1>1. CASE task[t].from \in Tasks
  <2>1. Awaited(t) <=> Feeds(t, task[t].from)
    BY <1>1, TasksAssumption DEF Awaited, Feeds, Shape, Record, Placed, Tasks
  <2>2. \A u \in Tasks : Feeds(t, u) => u = task[t].from
    BY DEF Feeds
  <2>3. CASE Awaited(t)
    BY <1>1, <2>1, <2>2, <2>3 DEF Frame
  <2>4. CASE ~Awaited(t)
    <3>1. \A u \in Tasks : ~Feeds(t, u)
      BY <2>1, <2>2, <2>4
    <3>2. QED
      BY <2>4, <3>1 DEF Frame
  <2>5. QED
    BY <2>3, <2>4
<1>2. CASE task[t].from \notin Tasks
  <2>1. \A u \in Tasks : ~Feeds(t, u)
    BY <1>2 DEF Feeds
  <2>2. CASE Awaited(t)
    BY <1>2, <2>1, <2>2 DEF Frame
  <2>3. CASE ~Awaited(t)
    BY <2>1, <2>3 DEF Frame
  <2>4. QED
    BY <2>2, <2>3
<1>3. QED
  BY <1>1, <1>2

\* Only a task that waits is fed.
LEMMA FedWaits ==
    ASSUME Shape, NEW t \in Tasks, NEW u \in Tasks, Feeds(t, u)
    PROVE  /\ task[u].place = "waiting" /\ t # u /\ t \in Hops
           /\ \A c \in Tasks : Feeds(c, u) => c = t
  BY TasksAssumption DEF Shape, Placed, Feeds, Record, Tasks

\* A message is added to what a waiting task has been sent.
LEMMA SentShape ==
    ASSUME NEW t \in Tasks, NEW r \in Record, Placed(t, r), r.place = "waiting"
    PROVE  /\ \A ms \in SUBSET Messages :
                [r EXCEPT !.loose = @ \cup ms] \in Record /\ Placed(t, [r EXCEPT !.loose = @ \cup ms])
           /\ \A m \in Messages :
                [r EXCEPT !.frames = Append(@, m)] \in Record /\ Placed(t, [r EXCEPT !.frames = Append(@, m)])
<1>1. ASSUME NEW ms \in SUBSET Messages
      PROVE  [r EXCEPT !.loose = @ \cup ms] \in Record /\ Placed(t, [r EXCEPT !.loose = @ \cup ms])
  BY <1>1 DEF Record, Placed
<1>2. ASSUME NEW m \in Messages
      PROVE  [r EXCEPT !.frames = Append(@, m)] \in Record /\ Placed(t, [r EXCEPT !.frames = Append(@, m)])
  <2>1. Append(r.frames, m) \in Seq(Messages)
    BY <1>2 DEF Record
  <2>2. QED
    BY <1>2, <2>1 DEF Record, Placed
<1>3. QED
  BY <1>1, <1>2

\* The tasks ts, which differ from those before in the record of one task, have a shape.
Shaped(ts) == ts \in [Tasks -> Record] /\ \A u \in Tasks : Placed(u, ts[u])

LEMMA LooseShaped ==
    ASSUME Shape, NEW t \in Tasks, NEW ms \in SUBSET Messages
    PROVE  Shaped(Loose(task, t, ms))
<1>1. \A u \in Tasks : Feeds(t, u) => task[u].place = "waiting"
  BY FedWaits
<1>2. Loose(task, t, ms) =
        [u \in Tasks |-> IF Feeds(t, u) THEN [task[u] EXCEPT !.loose = @ \cup ms] ELSE task[u]]
  BY LooseIs DEF Shape
<1>3. \A u \in Tasks : task[u] \in Record /\ Placed(u, task[u])
  BY DEF Shape
<1>4. \A u \in Tasks : Feeds(t, u) =>
        [task[u] EXCEPT !.loose = @ \cup ms] \in Record /\ Placed(u, [task[u] EXCEPT !.loose = @ \cup ms])
  BY <1>1, <1>3, SentShape
<1>5. QED
  BY <1>2, <1>3, <1>4 DEF Shaped

LEMMA FrameShaped ==
    ASSUME Shape, NEW t \in Tasks, NEW m \in Messages, NEW ts \in [Tasks -> Record], Shaped(ts),
           \A u \in Tasks \ {t} : ts[u] = task[u]
    PROVE  Shaped(Frame(ts, t, m))
<1>1. \A u \in Tasks : Feeds(t, u) => task[u].place = "waiting" /\ ts[u] = task[u]
  BY FedWaits
<1>2. Frame(ts, t, m) =
        [u \in Tasks |-> IF Feeds(t, u) THEN [ts[u] EXCEPT !.frames = Append(@, m)] ELSE ts[u]]
  BY FrameIs
<1>3. \A u \in Tasks : ts[u] \in Record /\ Placed(u, ts[u])
  BY DEF Shaped
<1>4. \A u \in Tasks : Feeds(t, u) =>
        [ts[u] EXCEPT !.frames = Append(@, m)] \in Record /\ Placed(u, [ts[u] EXCEPT !.frames = Append(@, m)])
  BY <1>1, <1>3, SentShape
<1>5. QED
  BY <1>2, <1>3, <1>4 DEF Shaped

LEMMA WithShaped ==
    ASSUME NEW ts, Shaped(ts), NEW t \in Tasks, NEW r \in Record, Placed(t, r)
    PROVE  Shaped([ts EXCEPT ![t] = r])
  BY DEF Shaped

LEMMA OverShaped ==
    ASSUME Shape, NEW t \in Tasks \ {Root}, NEW ms \in SUBSET Messages, Over(t, ms)
    PROVE  Shaped(task') /\ result' = result
<1>1. Shaped(Loose(task, t, ms))
  BY LooseShaped
<1>2. QED
  BY <1>1, FreeShape, WithShaped DEF Over

LEMMA AnsweredShaped ==
    ASSUME Shape, NEW e \in Ends, Answered(e)
    PROVE  Shaped(task') /\ result' = [out |-> result.out, end |-> e]
<1>1. task' = [task EXCEPT ![Root] = Closed] /\ Shaped(task) /\ Root \in Tasks
  BY DEF Answered, Closed, Shape, Shaped, Tasks
<1>2. Shaped(task')
  BY <1>1, ClosedShape, WithShaped
<1>3. result' = [out |-> result.out, end |-> e]
  BY DEF Answered, Shape
<1>4. QED
  BY <1>2, <1>3

LEMMA BackShaped ==
    ASSUME Shape, NEW t \in Tasks, task[t].place = "waiting", task[t].told = 0
    PROVE  Shaped(Back(task, t))
<1> DEFINE r == [task[t] EXCEPT !.place = "routing", !.todo = @ \ {task[t].to}, !.to = Nothing,
                                !.child = Nothing, !.queue = <<>>, !.frames = <<>>, !.loose = {}]
<1>1. task[t] \in Record /\ Placed(t, task[t]) /\ <<>> \in Seq(Messages) /\ Len(<<>>) = 0
  BY EmptySeq DEF Shape
<1>2. r \in Record
  BY <1>1 DEF Record, Places
<1>3. /\ r.place = "routing" /\ r.at = task[t].at /\ r.kind = task[t].kind /\ r.from = task[t].from
      /\ r.told = task[t].told /\ r.made = task[t].made
      /\ r.child = Nothing /\ r.queue = <<>> /\ r.frames = <<>> /\ r.loose = {}
  BY <1>1 DEF Record
<1>4. Placed(t, r)
  <2> HIDE DEF r
  <2> QED
    BY <1>1, <1>3, BoundsAssumption DEF Placed
<1>5. Back(task, t) = [task EXCEPT ![t] = r] /\ Shaped(task)
  BY DEF Back, Shape, Shaped
<1> HIDE DEF r
<1>6. Shaped([task EXCEPT ![t] = r])
  BY <1>2, <1>4, <1>5, WithShaped
<1>7. QED
  BY <1>5, <1>6

LEMMA StreamOverShaped ==
    ASSUME Shape, NEW t \in Tasks, task[t].place = "waiting", StreamOver(t)
    PROVE  Shaped(task') /\ \E e \in Ends : result' = [out |-> result.out, end |-> e]
<1>1. CASE t = Root
  <2>1. PICK e \in {"answered", "none"} : Answered(e)
    BY <1>1 DEF StreamOver
  <2>2. QED
    BY <2>1, AnsweredShaped DEF Ends
<1>2. CASE t # Root /\ task[t].told > 0
  <2>1. task' = [Frame(task, t, Plain("done")) EXCEPT ![t] = Free] /\ result' = result
    BY <1>2 DEF StreamOver
  <2>2. Shaped(Frame(task, t, Plain("done")))
    BY MessageTypes, FrameShaped DEF Shape, Shaped
  <2>3. QED
    BY <1>2, <2>1, <2>2, FreeShape, WithShaped DEF Shape
<1>3. CASE t # Root /\ ~(task[t].told > 0)
  <2>1. Over(t, {Plain("error")})
    BY <1>3 DEF StreamOver
  <2>2. QED
    BY <1>3, <2>1, OverShaped, MessageTypes DEF Shape
<1>4. QED
  BY <1>1, <1>2, <1>3

LEMMA FailedShaped ==
    ASSUME Shape, NEW t \in Tasks, task[t].place = "waiting", Failed(t)
    PROVE  Shaped(task') /\ \E e \in Ends : result' = [out |-> result.out, end |-> e]
<1>1. CASE Streamed(task[t].kind) /\ task[t].told > 0
  BY <1>1, StreamOverShaped DEF Failed
<1>2. CASE ~(Streamed(task[t].kind) /\ task[t].told > 0)
  <2>1. task[t].told = 0
    BY <1>2 DEF Shape, Placed, Record
  <2>2. QED
    BY <1>2, <2>1, BackShaped DEF Failed, Shape
<1>3. QED
  BY <1>1, <1>2

LEMMA ReleasedTyped ==
    ASSUME Shape, NEW t \in Tasks, task[t].place = "waiting", Released(t)
    PROVE  /\ active' \in [Nodes -> [Nodes -> Int]]
           /\ \A n, m \in Nodes : active'[n][m] <= MaxConcurrent
<1>1. task[t].at \in Nodes /\ task[t].to \in Nodes
  BY DEF Shape, Placed
<1>2. active' = [active EXCEPT ![task[t].at][task[t].to] = @ - 1]
  BY DEF Released
<1>3. QED
  BY <1>1, <1>2, BoundsAssumption DEF Shape

LEMMA TakenTyped ==
    ASSUME Shape, NEW n \in Nodes, NEW m \in Nodes, ~Full(n, m),
           active' = [active EXCEPT ![n][m] = @ + 1]
    PROVE  /\ active' \in [Nodes -> [Nodes -> Int]]
           /\ \A p, q \in Nodes : active'[p][q] <= MaxConcurrent
  BY BoundsAssumption DEF Shape, Full

LEMMA AskShape == ASSUME Shape, NEW k \in Kinds, Ask(k) PROVE Shape'
<1> DEFINE r == [Free EXCEPT !.at = Origin, !.kind = k, !.place = "routing", !.todo = Believed[Origin]]
<1>1. Origin \in Nodes /\ Believed[Origin] \in SUBSET Nodes /\ Root \in Tasks
  BY NodesAssumption DEF Tasks
<1>2. /\ r \in Record /\ r.place = "routing" /\ r.kind = k /\ r.at = Origin /\ r.from = Nothing /\ r.child = Nothing
      /\ r.queue = <<>> /\ r.frames = <<>> /\ r.loose = {} /\ r.told = 0 /\ r.made = 0
  BY <1>1, FreeShape DEF Record, Places, Free
<1> HIDE DEF r
<1>3. PICK x \in {r, [r EXCEPT !.place = "serving"]} \cup {[r EXCEPT !.todo = {m}] : m \in Nodes \ {Origin}} :
          task' = [task EXCEPT ![Root] = x] /\ (x.place = "serving" => k = "whole")
  <2>1. CASE k = "whole" /\ Origin \in loaded
    <3>1. task' = [task EXCEPT ![Root] = [r EXCEPT !.place = "serving"]]
      BY <2>1 DEF Ask, r
    <3>2. QED
      BY <2>1, <3>1
  <2>2. CASE k # "relay" /\ ~(k = "whole" /\ Origin \in loaded)
    <3>1. task' = [task EXCEPT ![Root] = r]
      BY <2>2 DEF Ask, r
    <3>2. QED
      BY <1>2, <3>1
  <2>3. CASE k = "relay"
    <3>1. PICK m \in Nodes \ {Origin} : task' = [task EXCEPT ![Root] = [r EXCEPT !.todo = {m}]]
      BY <2>3 DEF Ask, r
    <3>2. [r EXCEPT !.todo = {m}].place = "routing"
      BY <1>2 DEF Record
    <3>3. QED
      BY <3>1, <3>2
  <2>4. QED
    BY <2>1, <2>2, <2>3
<1>4. /\ x \in Record /\ x.place \in {"routing", "serving"} /\ x.kind = k /\ x.at = Origin /\ x.from = Nothing
      /\ x.child = Nothing /\ x.queue = <<>> /\ x.frames = <<>> /\ x.loose = {} /\ x.told = 0 /\ x.made = 0
  BY <1>2, <1>3 DEF Record, Places
<1>5. Placed(Root, x)
  BY <1>1, <1>3, <1>4, TasksAssumption, BoundsAssumption, EmptySeq DEF Placed
<1>6. Shaped(task')
  <2>1. Shaped(task)
    BY DEF Shape, Shaped
  <2>2. QED
    BY <1>1, <1>3, <1>4, <1>5, <2>1, WithShaped
<1>7. UNCHANGED <<loaded, active, result>>
  BY DEF Ask
<1>8. QED
  BY <1>6, <1>7 DEF Shape, Shaped

LEMMA ServeShape ==
    ASSUME Shape, NEW t \in Tasks, Refuse(t) \/ Admit(t) \/ Generate(t) \/ Generated(t) \/ GenerateFail(t)
    PROVE  Shape'
<1>0. Shaped(task) /\ task[t] \in Record /\ Placed(t, task[t])
  BY DEF Shape, Shaped
<1>1. CASE Refuse(t)
  <2>1. t \in Tasks \ {Root}
    BY <1>0, <1>1 DEF Refuse, Placed
  <2>2. Over(t, {Plain("error")}) /\ UNCHANGED <<loaded, active>>
    BY <1>1 DEF Refuse
  <2>3. QED
    BY <2>1, <2>2, OverShaped, MessageTypes DEF Shape, Shaped
<1>2. CASE Admit(t)
  <2> DEFINE served == [task[t] EXCEPT !.place = "serving"]
             routed == [task[t] EXCEPT !.place = "routing", !.todo = Believed[task[t].at]]
  <2>1. task[t].place = "sent" /\ t # Root /\ task[t].at \in Nodes
    BY <1>0, <1>2 DEF Admit, Placed
  <2>2. Believed[task[t].at] \in SUBSET Nodes
    BY <2>1, NodesAssumption
  <2>3. served \in Record /\ Placed(t, served)
    BY <1>0, <2>1, EmptySeq, BoundsAssumption DEF Record, Places, Placed
  <2>4. routed \in Record /\ Placed(t, routed)
    BY <1>0, <2>1, <2>2, EmptySeq, BoundsAssumption DEF Record, Places, Placed
  <2>5. task' = [task EXCEPT ![t] = served] \/ task' = [task EXCEPT ![t] = routed]
    BY <1>2 DEF Admit
  <2> HIDE DEF served, routed
  <2>6. Shaped(task')
    BY <1>0, <2>3, <2>4, <2>5, WithShaped
  <2>7. QED
    BY <1>2, <2>6 DEF Admit, Shape, Shaped
<1>3. CASE Generate(t)
  <2> DEFINE k == task[t].made + 1
             m == Piece(task[t].at, k)
             ts == Frame(task, t, m)
  <2>1. task[t].place = "serving" /\ task[t].kind = "stream" /\ task[t].at \in Nodes /\ k \in 1 .. Chunks
    BY <1>0, <1>3, BoundsAssumption DEF Generate, Placed, Record
  <2>2. m \in Messages /\ Shaped(ts)
    BY <1>0, <2>1, MessageTypes, FrameShaped DEF Shape
  <2>3. task' = [ts EXCEPT ![t].made = k]
    BY <1>3 DEF Generate
  <2>4. ts[t] = task[t]
    <3>1. ~Feeds(t, t)
      BY FedWaits
    <3>2. ts = [u \in Tasks |-> IF Feeds(t, u) THEN [task[u] EXCEPT !.frames = Append(@, m)] ELSE task[u]]
      BY FrameIs, ZenonT(60) DEF Shape
    <3>3. QED
      BY <3>1, <3>2
  <2>5. [task[t] EXCEPT !.made = k] \in Record /\ Placed(t, [task[t] EXCEPT !.made = k])
    BY <1>0, <2>1 DEF Record, Placed
  <2>6. task' = [ts EXCEPT ![t] = [task[t] EXCEPT !.made = k]]
    BY <2>2, <2>3, <2>4 DEF Shaped
  <2> HIDE DEF ts, k
  <2>7. Shaped(task')
    BY <2>2, <2>5, <2>6, WithShaped
  <2>8. QED
    BY <1>3, <2>7 DEF Generate, Shape, Shaped
<1>4. CASE Generated(t)
  <2>1. task[t].place = "serving" /\ task[t].at \in Nodes /\ UNCHANGED <<loaded, active>>
    BY <1>0, <1>4 DEF Generated, Placed
  <2>2. CASE task[t].kind = "stream" /\ task' = [Frame(task, t, Plain("done")) EXCEPT ![t] = Free] /\ UNCHANGED result
    <3>1. Shaped(Frame(task, t, Plain("done"))) /\ t # Root
      BY <1>0, <2>1, <2>2, MessageTypes, FrameShaped DEF Shape, Placed
    <3>2. Shaped(task')
      BY <2>2, <3>1, FreeShape, WithShaped
    <3>3. QED
      BY <2>1, <2>2, <3>2 DEF Shape, Shaped
  <2>3. CASE task[t].kind = "tools" /\ Over(t, {Piece(task[t].at, 1), Plain("done")})
    <3>1. t # Root /\ {Piece(task[t].at, 1), Plain("done")} \in SUBSET Messages
      BY <1>0, <2>1, <2>3, MessageTypes, BoundsAssumption DEF Placed
    <3>2. QED
      BY <2>1, <2>3, <3>1, OverShaped DEF Shape, Shaped
  <2>4. CASE t # Root /\ Over(t, {Plain("response")})
    BY <2>1, <2>4, OverShaped, MessageTypes DEF Shape, Shaped
  <2>5. CASE Answered("answered")
    BY <2>1, <2>5, AnsweredShaped DEF Shape, Shaped, Ends
  <2>6. QED
    BY <1>4, <2>2, <2>3, <2>4, <2>5 DEF Generated
<1>5. CASE GenerateFail(t)
  <2>1. CASE t = Root
    BY <1>5, <2>1, AnsweredShaped DEF GenerateFail, Shape, Shaped, Ends
  <2>2. CASE t # Root
    BY <1>5, <2>2, OverShaped, MessageTypes DEF GenerateFail, Shape, Shaped
  <2>3. QED
    BY <2>1, <2>2
<1>6. QED
  BY <1>1, <1>2, <1>3, <1>4, <1>5

LEMMA RouteShape ==
    ASSUME Shape, NEW t \in Tasks,
           Exhausted(t) \/ \E m \in Nodes : CallFull(t, m) \/ CallLost(t, m) \/ \E c \in Hops : Call(t, m, c)
    PROVE  Shape'
<1>0. Shaped(task) /\ task[t] \in Record /\ Placed(t, task[t])
  BY DEF Shape, Shaped
<1>1. CASE Exhausted(t)
  <2>1. CASE t = Root
    BY <1>1, <2>1, AnsweredShaped DEF Exhausted, Shape, Shaped, Ends
  <2>2. CASE t # Root
    BY <1>1, <2>2, OverShaped, MessageTypes DEF Exhausted, Shape, Shaped
  <2>3. QED
    BY <2>1, <2>2
<1>2. ASSUME NEW m \in Nodes, CallFull(t, m) PROVE Shape'
  <2> DEFINE r == [task[t] EXCEPT !.todo = @ \ {m}]
  <2>1. r \in Record /\ Placed(t, r)
    BY <1>0 DEF Record, Placed
  <2>2. task' = [task EXCEPT ![t] = r]
    BY <1>0, <1>2 DEF CallFull, Shaped
  <2> HIDE DEF r
  <2>3. Shaped(task')
    BY <1>0, <2>1, <2>2, WithShaped
  <2>4. QED
    BY <1>2, <2>3 DEF CallFull, Shape, Shaped
<1>3. ASSUME NEW m \in Nodes, CallLost(t, m) PROVE Shape'
  <2> DEFINE r == [task[t] EXCEPT !.place = "waiting", !.to = m]
  <2>1. task[t].place = "routing" /\ task[t].at \in Nodes
    BY <1>0, <1>3 DEF CallLost, Placed
  <2>2. r \in Record /\ Placed(t, r)
    BY <1>0, <2>1 DEF Record, Placed, Places
  <2>3. task' = [task EXCEPT ![t] = r]
    BY <1>3 DEF CallLost
  <2> HIDE DEF r
  <2>4. Shaped(task')
    BY <1>0, <2>2, <2>3, WithShaped
  <2>5. /\ active' \in [Nodes -> [Nodes -> Int]]
        /\ \A p, q \in Nodes : active'[p][q] <= MaxConcurrent
    BY <1>3, <2>1, TakenTyped DEF CallLost
  <2>6. QED
    BY <1>3, <2>4, <2>5 DEF CallLost, Shape, Shaped
<1>4. ASSUME NEW m \in Nodes, NEW c \in Hops, Call(t, m, c) PROVE Shape'
  <2>1. PICK k \in IF task[t].kind = "relay" THEN {"stream", "whole"} ELSE {task[t].kind} :
          task' = [task EXCEPT ![t] = [@ EXCEPT !.place = "waiting", !.to = m, !.child = c],
                               ![c] = [Free EXCEPT !.at = m, !.kind = k, !.from = t, !.place = "sent"]]
    BY <1>4 DEF Call
  <2> DEFINE r == [task[t] EXCEPT !.place = "waiting", !.to = m, !.child = c]
             new == [Free EXCEPT !.at = m, !.kind = k, !.from = t, !.place = "sent"]
  <2>2. task[t].place = "routing" /\ task[t].at \in Nodes /\ c \in Tasks /\ c # t /\ c # Root
    BY <1>0, <1>4, TasksAssumption DEF Call, Placed, Tasks
  <2>3. k \in Kinds \ {"relay"}
    BY <1>0, <2>1 DEF Record, Kinds
  <2>4. r \in Record /\ Placed(t, r)
    BY <1>0, <2>2 DEF Record, Placed, Places
  <2>5. /\ new \in Record /\ new.place = "sent" /\ new.kind = k /\ new.at = m /\ new.from = t /\ new.child = Nothing
        /\ new.queue = <<>> /\ new.frames = <<>> /\ new.loose = {} /\ new.told = 0 /\ new.made = 0
    BY <2>2, <2>3, FreeShape DEF Record, Places, Free
  <2>6. task' = [[task EXCEPT ![t] = r] EXCEPT ![c] = new]
    BY <2>1, <2>2
  <2> HIDE DEF r, new
  <2>7. Placed(c, new)
    BY <2>2, <2>3, <2>5, BoundsAssumption, EmptySeq DEF Placed
  <2>8. Shaped([task EXCEPT ![t] = r])
    BY <1>0, <2>4, WithShaped
  <2>9. Shaped(task')
    BY <2>2, <2>5, <2>6, <2>7, <2>8, WithShaped
  <2>10. /\ active' \in [Nodes -> [Nodes -> Int]]
         /\ \A p, q \in Nodes : active'[p][q] <= MaxConcurrent
    BY <1>4, <2>2, TakenTyped DEF Call
  <2>11. QED
    BY <1>4, <2>9, <2>10 DEF Call, Shape, Shaped
<1>5. QED
  BY <1>1, <1>2, <1>3, <1>4

\* What is put into a queue leaves room for no more than it holds.
LEMMA PutTyped ==
    ASSUME NEW t \in Tasks, task[t] \in Record, Placed(t, task[t]), NEW m \in Messages
    PROVE  Put(t, m) \in Seq(Messages) /\ Len(Put(t, m)) <= QueueMax
<1>1. task[t].queue \in Seq(Messages) /\ Len(task[t].queue) <= QueueMax /\ Len(task[t].queue) \in Nat
  BY DEF Record, Placed
<1>2. CASE Room(t)
  <2>1. Len(task[t].queue) < QueueMax
    BY <1>1, <1>2, BoundsAssumption DEF Room
  <2>2. Put(t, m) = Append(task[t].queue, m)
    BY <1>2 DEF Put
  <2>3. Append(task[t].queue, m) \in Seq(Messages) /\ Len(Append(task[t].queue, m)) = Len(task[t].queue) + 1
    BY <1>1
  <2>4. QED
    BY <1>1, <2>1, <2>2, <2>3, BoundsAssumption
<1>3. CASE ~Room(t)
  BY <1>1, <1>3 DEF Put
<1>4. QED
  BY <1>2, <1>3

LEMMA DeliverShape ==
    ASSUME Shape, NEW t \in Tasks, DeliverFrame(t) \/ DeliverLoose(t)
    PROVE  Shape'
<1>0. Shaped(task) /\ task[t] \in Record /\ Placed(t, task[t]) /\ task[t].place = "waiting"
  BY DEF Shape, Shaped, DeliverFrame, DeliverLoose
<1>1. CASE DeliverFrame(t)
  <2> DEFINE q == Put(t, Head(task[t].frames))
             r == [task[t] EXCEPT !.frames = Tail(task[t].frames), !.queue = q]
  <2>1. task[t].frames # <<>> /\ task[t].frames \in Seq(Messages)
    BY <1>0, <1>1 DEF DeliverFrame, Record
  <2>2. Head(task[t].frames) \in Messages /\ Tail(task[t].frames) \in Seq(Messages)
    BY <2>1, HeadTailProperties
  <2>3. q \in Seq(Messages) /\ Len(q) <= QueueMax
    BY <1>0, <2>2, PutTyped
  <2>4. task' = [task EXCEPT ![t] = r]
    BY <1>0, <1>1 DEF DeliverFrame, Shaped
  <2> HIDE DEF q
  <2>5. r \in Record /\ Placed(t, r)
    BY <1>0, <2>2, <2>3 DEF Record, Placed
  <2> HIDE DEF r
  <2>6. Shaped(task')
    BY <1>0, <2>4, <2>5, WithShaped
  <2>7. QED
    BY <1>1, <2>6 DEF DeliverFrame, Shape, Shaped
<1>2. CASE DeliverLoose(t)
  <2>1. PICK m \in task[t].loose :
          task' = [task EXCEPT ![t].loose = @ \ {m}, ![t].queue = Put(t, m)]
    BY <1>2 DEF DeliverLoose
  <2> DEFINE q == Put(t, m)
             r == [task[t] EXCEPT !.loose = task[t].loose \ {m}, !.queue = q]
  <2>2. m \in Messages
    BY <1>0 DEF Record
  <2>3. q \in Seq(Messages) /\ Len(q) <= QueueMax
    BY <1>0, <2>2, PutTyped
  <2>4. task' = [task EXCEPT ![t] = r]
    BY <1>0, <2>1 DEF Shaped
  <2> HIDE DEF q
  <2>5. r \in Record /\ Placed(t, r)
    BY <1>0, <2>3 DEF Record, Placed
  <2> HIDE DEF r
  <2>6. Shaped(task')
    BY <1>0, <2>4, <2>5, WithShaped
  <2>7. QED
    BY <1>2, <2>6 DEF DeliverLoose, Shape, Shaped
<1>3. QED
  BY <1>1, <1>2

LEMMA TakePieceShape == ASSUME Shape, NEW t \in Tasks, TakePiece(t) PROVE Shape'
<1> DEFINE m == Head(task[t].queue)
           r == [task[t] EXCEPT !.queue = Tail(task[t].queue), !.told = task[t].told + 1]
           ts == [task EXCEPT ![t] = r]
<1>0. Shaped(task) /\ task[t] \in Record /\ Placed(t, task[t]) /\ task[t].place = "waiting"
  BY DEF Shape, Shaped, TakePiece, Comes
<1>1. task[t].queue # <<>> /\ task[t].queue \in Seq(Messages) /\ Streamed(task[t].kind)
  BY <1>0 DEF TakePiece, Comes, Record
<1>2. /\ m \in Messages /\ Tail(task[t].queue) \in Seq(Messages)
      /\ Len(Tail(task[t].queue)) = Len(task[t].queue) - 1 /\ Len(task[t].queue) \in Nat
  BY <1>1, HeadTailProperties
<1>3. Len(Tail(task[t].queue)) <= QueueMax
  BY <1>0, <1>2, BoundsAssumption DEF Placed
<1>4. r \in Record /\ Placed(t, r)
  <2>1. task[t].told \in Nat
    BY <1>0 DEF Record
  <2>2. task[t].told + 1 \in Nat
    BY <2>1
  <2>3. r \in Record
    BY <1>0, <1>2, <2>2 DEF Record
  <2>4. /\ r.place = "waiting" /\ r.at = task[t].at /\ r.to = task[t].to /\ r.kind = task[t].kind
        /\ r.made = task[t].made /\ r.from = task[t].from /\ r.queue = Tail(task[t].queue)
    BY <1>0 DEF Record
  <2> HIDE DEF r
  <2>5. Placed(t, r)
    BY <1>0, <1>1, <1>3, <2>4 DEF Placed
  <2>6. QED
    BY <2>3, <2>5
<1>5. ts = [task EXCEPT ![t].queue = Tail(@), ![t].told = @ + 1]
  BY <1>0 DEF Shaped
<1>6. IF t = Root THEN task' = ts /\ result' = [result EXCEPT !.out = Append(@, m)]
      ELSE task' = Frame(ts, t, m) /\ UNCHANGED result
  BY <1>5 DEF TakePiece
<1>7. Shaped(ts)
  <2> HIDE DEF r
  <2> QED
    BY <1>0, <1>4, WithShaped
<1>8. \A u \in Tasks \ {t} : ts[u] = task[u]
  BY <1>0 DEF Shaped
<1> HIDE DEF m, r, ts
<1>9. Shaped(task') /\ result' \in [out : Seq(Messages), end : Ends]
  <2>1. CASE t = Root
    <3>1. result.out \in Seq(Messages) /\ result.end \in Ends /\ Append(result.out, m) \in Seq(Messages)
      BY <1>2 DEF Shape
    <3>2. result' = [out |-> Append(result.out, m), end |-> result.end] /\ task' = ts
      BY <1>6, <2>1 DEF Shape
    <3>3. QED
      BY <1>7, <3>1, <3>2
  <2>2. CASE t # Root
    <3>1. Shaped(Frame(ts, t, m))
      BY <1>2, <1>7, <1>8, FrameShaped DEF Shaped
    <3>2. QED
      BY <1>6, <2>2, <3>1 DEF Shape
  <2>3. QED
    BY <2>1, <2>2
<1>10. QED
  BY <1>9 DEF TakePiece, Shape, Shaped

\* The ways a task stops waiting, all of which release its slot.
LEMMA StopShape ==
    ASSUME Shape, NEW t \in Tasks,
           TakeDone(t) \/ TakeResponse(t) \/ TakeError(t) \/ TakeRelayed(t) \/ TimeOut(t)
    PROVE  /\ Shape' /\ Released(t) /\ task[t].place = "waiting"
<1>0. task[t].place = "waiting" /\ Released(t) /\ loaded' = loaded
  BY DEF TakeDone, TakeResponse, TakeError, TakeRelayed, TimeOut, Comes
<1>1. Shaped(task') /\ result' \in [out : Seq(Messages), end : Ends]
  <2>0. result.out \in Seq(Messages) /\ task[t] \in Record /\ Placed(t, task[t]) /\ Shaped(task)
    BY DEF Shape, Shaped
  <2>1. CASE StreamOver(t)
    BY <1>0, <2>0, <2>1, StreamOverShaped
  <2>2. CASE Failed(t)
    BY <1>0, <2>0, <2>2, FailedShaped
  <2>3. CASE \E e \in Ends : Answered(e)
    BY <2>0, <2>3, AnsweredShaped
  <2>4. CASE t # Root /\ Over(t, {Plain("response")})
    BY <2>4, OverShaped, MessageTypes DEF Shape
  <2>5. CASE TakeRelayed(t)
    <3>1. t = Root /\ Head(task[t].queue) \in Messages
      BY <1>0, <2>0, <2>5, HeadTailProperties DEF TakeRelayed, Placed, Record
    <3>2. task' = [task EXCEPT ![Root] = Closed]
      BY <2>5, <3>1 DEF TakeRelayed, Closed
    <3>3. Shaped(task')
      BY <2>0, <3>1, <3>2, ClosedShape, WithShaped
    <3>4. result' \in [out : Seq(Messages), end : Ends]
      BY <2>0, <2>5, <3>1 DEF TakeRelayed, Ends
    <3>5. QED
      BY <3>3, <3>4
  <2>6. StreamOver(t) \/ Failed(t) \/ (\E e \in Ends : Answered(e)) \/ (t # Root /\ Over(t, {Plain("response")})) \/ TakeRelayed(t)
    BY DEF TakeDone, TakeResponse, TakeError, TimeOut, Ends
  <2>7. QED
    BY <2>1, <2>2, <2>3, <2>4, <2>5, <2>6
<1>2. QED
  BY <1>0, <1>1, ReleasedTyped DEF Shape, Shaped

LEMMA CutShape == ASSUME Shape, NEW n \in Nodes, NEW m \in Nodes, Cut(n, m) PROVE Shape'
<1> DEFINE waits == {t \in Tasks : task[t].place = "waiting" /\ task[t].at = n /\ task[t].to = m}
           futures == {t \in waits : ~Streamed(task[t].kind)}
<1>1. PICK cut \in SUBSET futures \ {{}} :
         /\ task' = [t \in Tasks |-> IF t \notin cut THEN task[t]
                                     ELSE IF t = Root THEN [Free EXCEPT !.place = "ended"] ELSE Free]
         /\ active' = [active EXCEPT ![n][m] = @ - Cardinality(cut)]
         /\ result' = IF Root \in cut THEN [result EXCEPT !.end = "cut"] ELSE result
         /\ loaded' = loaded
  BY DEF Cut
<1>2. Shaped(task')
  BY <1>1, FreeShape, ClosedShape DEF Shape, Shaped, Closed
<1>3. Cardinality(cut) \in Nat
  BY <1>1, TasksAssumption, FS_AddElement, FS_Subset, FS_CardinalityType DEF Tasks
<1>4. active' \in [Nodes -> [Nodes -> Int]] /\ \A p, q \in Nodes : active'[p][q] <= MaxConcurrent
  BY <1>1, <1>3, BoundsAssumption DEF Shape
<1>5. result' \in [out : Seq(Messages), end : Ends]
  BY <1>1 DEF Shape, Ends
<1>6. QED
  BY <1>1, <1>2, <1>4, <1>5 DEF Shape, Shaped

LEMMA NextShape == ASSUME Shape, [Next]_vars PROVE Shape'
<1>1. ASSUME NEW k \in Kinds, Ask(k) PROVE Shape'
  BY <1>1, AskShape
<1>2. ASSUME NEW t \in Tasks, Act(t) PROVE Shape'
  BY <1>2, ServeShape, RouteShape, TakePieceShape, StopShape DEF Act
<1>3. ASSUME NEW t \in Tasks, DeliverFrame(t) \/ DeliverLoose(t) PROVE Shape'
  BY <1>3, DeliverShape
<1>4. ASSUME NEW n \in Nodes, Unload(n) PROVE Shape'
  BY <1>4 DEF Unload, Shape
<1>5. ASSUME NEW n \in Nodes, NEW m \in Nodes, Cut(n, m) PROVE Shape'
  BY <1>5, CutShape
<1>6. CASE UNCHANGED vars
  BY <1>6 DEF vars, Shape
<1>7. QED
  BY <1>1, <1>2, <1>3, <1>4, <1>5, <1>6 DEF Next

LEMMA InitShape == Init => Shape
<1> SUFFICES ASSUME Init PROVE Shape
  OBVIOUS
<1>1. <<>> \in Seq(Messages)
  BY EmptySeq
<1>2. \A t \in Tasks : Free \in Record /\ Placed(t, Free)
  BY FreeShape, RootFreeShape
<1>3. QED
  BY <1>1, <1>2, BoundsAssumption DEF Init, Shape, Ends

-----------------------------------------------------------------------------
(* Slots.                                                                  *)

\* A task that at most has been sent something more.
Same(r, s) ==
    /\ r.place = s.place /\ r.at = s.at /\ r.to = s.to /\ r.kind = s.kind /\ r.from = s.from
    /\ r.child = s.child /\ r.told = s.told /\ r.made = s.made /\ r.queue = s.queue

LEMMA LooseSame ==
    ASSUME Shape, NEW t \in Tasks, NEW ms
    PROVE  \A u \in Tasks : Same(Loose(task, t, ms)[u], task[u])
<1>1. Loose(task, t, ms) =
        [u \in Tasks |-> IF Feeds(t, u) THEN [task[u] EXCEPT !.loose = @ \cup ms] ELSE task[u]]
  BY LooseIs DEF Shape
<1>2. \A u \in Tasks : task[u] \in Record
  BY DEF Shape
<1>3. \A r \in Record : Same([r EXCEPT !.loose = @ \cup ms], r) /\ Same(r, r)
  BY DEF Same, Record
<1>4. QED
  BY <1>1, <1>2, <1>3

LEMMA FrameSame ==
    ASSUME Shape, NEW t \in Tasks, NEW m, NEW ts \in [Tasks -> Record]
    PROVE  \A u \in Tasks : Same(Frame(ts, t, m)[u], ts[u])
<1>1. Frame(ts, t, m) =
        [u \in Tasks |-> IF Feeds(t, u) THEN [ts[u] EXCEPT !.frames = Append(@, m)] ELSE ts[u]]
  BY FrameIs
<1>2. \A u \in Tasks : ts[u] \in Record
  OBVIOUS
<1>3. \A r \in Record : Same([r EXCEPT !.frames = Append(@, m)], r) /\ Same(r, r)
  BY DEF Same, Record
<1>4. QED
  BY <1>1, <1>2, <1>3

\* All tasks but t are the same.
Others(t) == \A u \in Tasks \ {t} : Same(task'[u], task[u])

LEMMA OverOthers ==
    ASSUME Shape, NEW t \in Tasks, NEW ms, Over(t, ms)
    PROVE  task'[t] = Free /\ Others(t)
<1>1. Loose(task, t, ms) =
        [u \in Tasks |-> IF Feeds(t, u) THEN [task[u] EXCEPT !.loose = @ \cup ms] ELSE task[u]]
  BY LooseIs DEF Shape
<1>2. task'[t] = Free /\ \A u \in Tasks \ {t} : task'[u] = Loose(task, t, ms)[u]
  BY <1>1 DEF Over
<1>3. QED
  BY <1>2, LooseSame DEF Others

LEMMA AnsweredOthers ==
    ASSUME Shape, NEW e, Answered(e)
    PROVE  task'[Root] = Closed /\ Others(Root)
  BY DEF Shape, Answered, Closed, Others, Same, Tasks

LEMMA DoneOthers ==
    ASSUME Shape, NEW t \in Tasks, NEW m, task' = [Frame(task, t, m) EXCEPT ![t] = Free]
    PROVE  task'[t] = Free /\ Others(t)
<1>1. Frame(task, t, m) =
        [u \in Tasks |-> IF Feeds(t, u) THEN [task[u] EXCEPT !.frames = Append(@, m)] ELSE task[u]]
  BY FrameIs DEF Shape
<1>2. task'[t] = Free /\ \A u \in Tasks \ {t} : task'[u] = Frame(task, t, m)[u]
  BY <1>1
<1>3. QED
  BY <1>2, FrameSame DEF Others, Shape

LEMMA BackOthers ==
    ASSUME Shape, NEW t \in Tasks, task' = Back(task, t)
    PROVE  /\ task'[t] = [task[t] EXCEPT !.place = "routing", !.todo = @ \ {task[t].to}, !.to = Nothing,
                                         !.child = Nothing, !.queue = <<>>, !.frames = <<>>, !.loose = {}]
           /\ Others(t)
  BY DEF Shape, Back, Others, Same

LEMMA StreamOverOthers ==
    ASSUME Shape, NEW t \in Tasks, StreamOver(t)
    PROVE  /\ task'[t] \in {Free, Closed} /\ Others(t)
           /\ task'[t] = Closed <=> t = Root
<1>0. Free.place = "free" /\ Closed.place = "ended"
  BY DEF Free, Closed
<1>1. CASE t = Root
  <2>1. PICK e \in {"answered", "none"} : Answered(e)
    BY <1>1 DEF StreamOver
  <2>2. QED
    BY <1>1, <2>1, AnsweredOthers
<1>2. CASE t # Root /\ task[t].told > 0
  <2>1. task' = [Frame(task, t, Plain("done")) EXCEPT ![t] = Free]
    BY <1>2 DEF StreamOver
  <2>2. QED
    BY <1>0, <1>2, <2>1, DoneOthers
<1>3. CASE t # Root /\ ~(task[t].told > 0)
  <2>1. Over(t, {Plain("error")})
    BY <1>3 DEF StreamOver
  <2>2. QED
    BY <1>0, <1>3, <2>1, OverOthers
<1>4. QED
  BY <1>1, <1>2, <1>3

LEMMA FailedOthers ==
    ASSUME Shape, NEW t \in Tasks, Failed(t)
    PROVE  task'[t].place # "waiting" /\ Others(t)
<1>1. CASE StreamOver(t)
  BY <1>1, StreamOverOthers DEF Free, Closed
<1>2. CASE task' = Back(task, t)
  <2>1. task[t] \in Record
    BY DEF Shape
  <2>2. QED
    BY <1>2, <2>1, BackOthers DEF Record
<1>3. QED
  BY <1>1, <1>2 DEF Failed

\* A task that stops waiting is the only one to.
LEMMA StopOthers ==
    ASSUME Shape, NEW t \in Tasks,
           TakeDone(t) \/ TakeResponse(t) \/ TakeError(t) \/ TakeRelayed(t) \/ TimeOut(t)
    PROVE  task'[t].place # "waiting" /\ Others(t)
<1>0. task[t].place = "waiting" /\ Placed(t, task[t])
  BY DEF TakeDone, TakeResponse, TakeError, TakeRelayed, TimeOut, Comes, Shape
<1>1. CASE StreamOver(t)
  BY <1>1, StreamOverOthers DEF Free, Closed
<1>2. CASE Failed(t)
  BY <1>2, FailedOthers
<1>3. CASE t = Root /\ \E e \in Ends : Answered(e)
  BY <1>3, AnsweredOthers DEF Closed, Free
<1>4. CASE Over(t, {Plain("response")})
  BY <1>4, OverOthers DEF Free
<1>5. CASE TakeRelayed(t)
  BY <1>5 DEF TakeRelayed, Others, Same, Shape, Free
<1>6. \/ StreamOver(t) \/ Failed(t) \/ (t = Root /\ \E e \in Ends : Answered(e))
      \/ Over(t, {Plain("response")}) \/ TakeRelayed(t)
  BY <1>0 DEF TakeDone, TakeResponse, TakeError, TimeOut, Ends, Placed
<1>7. QED
  BY <1>1, <1>2, <1>3, <1>4, <1>5, <1>6

Waits(n, m) == {t \in Tasks : Holds(t, n, m)}

LEMMA SlotsAreWaits == SlotsHeld <=> \A n, m \in Nodes : active[n][m] = Cardinality(Waits(n, m))
  BY DEF SlotsHeld, Waits, Holds

LEMMA WaitsFinite ==
    /\ IsFiniteSet(Tasks)
    /\ \A n, m \in Nodes : /\ IsFiniteSet(Waits(n, m)) /\ Cardinality(Waits(n, m)) \in Nat
                           /\ Waits(n, m) \subseteq Tasks
<1>1. IsFiniteSet(Tasks)
  BY TasksAssumption, FS_AddElement DEF Tasks
<1>2. \A n, m \in Nodes : Waits(n, m) \in SUBSET Tasks
  BY DEF Waits
<1>3. QED
  BY <1>1, <1>2, FS_Subset, FS_CardinalityType

\* Nobody starts and nobody stops waiting.
LEMMA KeptSlots ==
    ASSUME SlotsHeld, UNCHANGED active, \A u \in Tasks, n, m \in Nodes : Holds(u, n, m)' <=> Holds(u, n, m)
    PROVE  SlotsHeld'
<1>1. \A n, m \in Nodes : Waits(n, m)' = Waits(n, m)
  BY DEF Waits
<1>2. \A n, m \in Nodes : active'[n][m] = Cardinality(Waits(n, m)')
  BY <1>1, SlotsAreWaits
<1>3. QED
  BY <1>2 DEF SlotsHeld, Waits, Holds

\* One that waits with a slot begins to.
LEMMA TakenSlot ==
    ASSUME Shape, SlotsHeld, NEW t \in Tasks, NEW p \in Nodes, NEW q \in Nodes,
           active' = [active EXCEPT ![p][q] = @ + 1],
           task[t].place # "waiting", task'[t].place = "waiting", task'[t].at = p, task'[t].to = q,
           \A u \in Tasks \ {t}, n, m \in Nodes : Holds(u, n, m)' <=> Holds(u, n, m)
    PROVE  SlotsHeld'
<1>1. /\ Waits(p, q)' = Waits(p, q) \cup {t} /\ t \notin Waits(p, q)
      /\ \A n, m \in Nodes : <<n, m>> # <<p, q>> => Waits(n, m)' = Waits(n, m)
  BY DEF Waits, Holds
<1>2. Cardinality(Waits(p, q) \cup {t}) = Cardinality(Waits(p, q)) + 1
  BY <1>1, WaitsFinite, FS_AddElement
<1>3. active[p][q] = Cardinality(Waits(p, q)) /\ active[p][q] \in Int
  BY SlotsAreWaits DEF Shape
<1>4. active'[p][q] = Cardinality(Waits(p, q)')
  BY <1>1, <1>2, <1>3 DEF Shape
<1>5. ASSUME NEW n \in Nodes, NEW m \in Nodes, <<n, m>> # <<p, q>>
      PROVE  active'[n][m] = Cardinality(Waits(n, m)')
  <2>1. active'[n][m] = active[n][m]
    BY <1>5 DEF Shape
  <2>2. active[n][m] = Cardinality(Waits(n, m)) /\ Waits(n, m)' = Waits(n, m)
    BY <1>1, <1>5, SlotsAreWaits
  <2>3. QED
    BY <2>1, <2>2
<1>6. \A n, m \in Nodes : active'[n][m] = Cardinality(Waits(n, m)')
  BY <1>4, <1>5
<1>7. QED
  BY <1>6 DEF SlotsHeld, Waits, Holds

\* Some that waited for one slot each stop to.
LEMMA GivenSlots ==
    ASSUME Shape, SlotsHeld, NEW p \in Nodes, NEW q \in Nodes, NEW S \in SUBSET Waits(p, q),
           active' = [active EXCEPT ![p][q] = @ - Cardinality(S)],
           \A t \in S : task'[t].place # "waiting",
           \A u \in Tasks \ S, n, m \in Nodes : Holds(u, n, m)' <=> Holds(u, n, m)
    PROVE  SlotsHeld'
<1>1. /\ Waits(p, q)' = Waits(p, q) \ S /\ Waits(p, q) \cap S = S
      /\ \A n, m \in Nodes : <<n, m>> # <<p, q>> => Waits(n, m)' = Waits(n, m)
  BY DEF Waits, Holds
<1>2. Cardinality(Waits(p, q) \ S) = Cardinality(Waits(p, q)) - Cardinality(S)
  BY <1>1, WaitsFinite, FS_Difference
<1>3. active[p][q] = Cardinality(Waits(p, q)) /\ active[p][q] \in Int
  BY SlotsAreWaits DEF Shape
<1>4. active'[p][q] = Cardinality(Waits(p, q)')
  BY <1>1, <1>2, <1>3 DEF Shape
<1>5. ASSUME NEW n \in Nodes, NEW m \in Nodes, <<n, m>> # <<p, q>>
      PROVE  active'[n][m] = Cardinality(Waits(n, m)')
  <2>1. active'[n][m] = active[n][m]
    BY <1>5 DEF Shape
  <2>2. active[n][m] = Cardinality(Waits(n, m)) /\ Waits(n, m)' = Waits(n, m)
    BY <1>1, <1>5, SlotsAreWaits
  <2>3. QED
    BY <2>1, <2>2
<1>6. \A n, m \in Nodes : active'[n][m] = Cardinality(Waits(n, m)')
  BY <1>4, <1>5
<1>7. QED
  BY <1>6 DEF SlotsHeld, Waits, Holds

LEMMA StopSlots ==
    ASSUME Shape, SlotsHeld, NEW t \in Tasks,
           TakeDone(t) \/ TakeResponse(t) \/ TakeError(t) \/ TakeRelayed(t) \/ TimeOut(t)
    PROVE  SlotsHeld'
<1> DEFINE p == task[t].at
           q == task[t].to
<1>1. task[t].place = "waiting" /\ p \in Nodes /\ q \in Nodes /\ active' = [active EXCEPT ![p][q] = @ - 1]
  BY StopShape DEF Shape, Placed, Released
<1>2. task'[t].place # "waiting" /\ Others(t)
  BY StopOthers
<1>3. {t} \in SUBSET Waits(p, q)
  BY <1>1 DEF Waits, Holds
<1>4. Cardinality({t}) = 1
  BY FS_Singleton
<1>5. \A u \in Tasks \ {t}, n, m \in Nodes : Holds(u, n, m)' <=> Holds(u, n, m)
  BY <1>2 DEF Others, Same, Holds
<1> HIDE DEF p, q
<1>6. active' = [active EXCEPT ![p][q] = @ - Cardinality({t})]
  BY <1>1, <1>4
<1>7. \A u \in {t} : task'[u].place # "waiting"
  BY <1>2
<1>8. p \in Nodes /\ q \in Nodes
  BY <1>1
<1>9. QED
  BY <1>3, <1>5, <1>6, <1>7, <1>8, GivenSlots

LEMMA CutSlots == ASSUME Shape, SlotsHeld, NEW n \in Nodes, NEW m \in Nodes, Cut(n, m) PROVE SlotsHeld'
<1>1. PICK cut \in SUBSET Waits(n, m) :
         /\ task' = [t \in Tasks |-> IF t \notin cut THEN task[t]
                                     ELSE IF t = Root THEN [Free EXCEPT !.place = "ended"] ELSE Free]
         /\ active' = [active EXCEPT ![n][m] = @ - Cardinality(cut)]
  BY DEF Cut, Waits, Holds
<1>2. \A t \in cut : task'[t].place # "waiting"
  BY <1>1 DEF Waits, Free
<1>3. \A u \in Tasks \ cut, p, q \in Nodes : Holds(u, p, q)' <=> Holds(u, p, q)
  BY <1>1 DEF Holds
<1>4. QED
  BY <1>1, <1>2, <1>3, GivenSlots

\* Where t neither begins nor stops waiting.
LEMMA OthersSlots ==
    ASSUME Shape, SlotsHeld, NEW t \in Tasks, Others(t), UNCHANGED active,
           \/ task[t].place # "waiting" /\ task'[t].place # "waiting"
           \/ task'[t].place = task[t].place /\ task'[t].at = task[t].at /\ task'[t].to = task[t].to
    PROVE  SlotsHeld'
<1>1. \A u \in Tasks, n, m \in Nodes : Holds(u, n, m)' <=> Holds(u, n, m)
  BY DEF Others, Same, Holds
<1>2. QED
  BY <1>1, KeptSlots

LEMMA ActSlots == ASSUME Shape, SlotsHeld, NEW t \in Tasks, Act(t) PROVE SlotsHeld'
<1>0. task \in [Tasks -> Record] /\ task[t] \in Record /\ Placed(t, task[t])
  BY DEF Shape
<1>1. CASE Refuse(t)
  BY <1>1, OverOthers, OthersSlots DEF Refuse, Free
<1>2. CASE Admit(t)
  <2>1. Others(t)
    BY <1>2, <1>0 DEF Admit, Others, Same
  <2>2. task'[t].place \in {"serving", "routing"}
    BY <1>2, <1>0 DEF Admit, Record
  <2>3. QED
    BY <1>2, <2>1, <2>2, OthersSlots DEF Admit
<1>3. CASE Generate(t)
  <2> DEFINE k == task[t].made + 1
             ts == Frame(task, t, Piece(task[t].at, k))
  <2>1. \A u \in Tasks : Same(ts[u], task[u])
    BY <1>0, FrameSame
  <2>2. task' = [ts EXCEPT ![t].made = k]
    BY <1>3 DEF Generate
  <2>3. ts \in [Tasks -> Record]
    <3>1. task[t].at \in Nodes /\ k \in 1 .. Chunks
      BY <1>0, <1>3, BoundsAssumption DEF Generate, Placed, Record
    <3>2. QED
      BY <1>0, <3>1, MessageTypes, FrameShaped DEF Shape, Shaped
  <2> HIDE DEF ts, k
  <2>4. Others(t)
    BY <2>1, <2>2, <2>3 DEF Others
  <2>5. task'[t].place = task[t].place /\ task'[t].at = task[t].at /\ task'[t].to = task[t].to
    BY <2>1, <2>2, <2>3 DEF Same, Record
  <2>6. QED
    BY <1>3, <2>4, <2>5, OthersSlots DEF Generate
<1>4. CASE Generated(t)
  <2>1. task[t].place # "waiting" /\ UNCHANGED active
    BY <1>4 DEF Generated
  <2>2. CASE task' = [Frame(task, t, Plain("done")) EXCEPT ![t] = Free]
    BY <2>1, <2>2, DoneOthers, OthersSlots DEF Free
  <2>3. CASE \E ms : Over(t, ms)
    BY <2>1, <2>3, OverOthers, OthersSlots DEF Free
  <2>4. CASE t = Root /\ Answered("answered")
    BY <2>1, <2>4, AnsweredOthers, OthersSlots DEF Closed, Free
  <2>5. QED
    BY <1>4, <2>2, <2>3, <2>4 DEF Generated
<1>5. CASE GenerateFail(t)
  <2>1. CASE t = Root
    BY <1>5, <2>1, AnsweredOthers, OthersSlots DEF GenerateFail, Closed, Free
  <2>2. CASE t # Root
    BY <1>5, <2>2, OverOthers, OthersSlots DEF GenerateFail, Free
  <2>3. QED
    BY <2>1, <2>2
<1>6. ASSUME NEW m \in Nodes, CallFull(t, m) PROVE SlotsHeld'
  <2>1. Others(t) /\ task'[t].place = task[t].place
    BY <1>6, <1>0 DEF CallFull, Others, Same, Record
  <2>2. QED
    BY <1>6, <2>1, OthersSlots DEF CallFull
<1>7. ASSUME NEW m \in Nodes, CallLost(t, m) PROVE SlotsHeld'
  <2>1. task[t].place = "routing" /\ task[t].at \in Nodes /\ active' = [active EXCEPT ![task[t].at][m] = @ + 1]
    BY <1>7, <1>0 DEF CallLost, Placed
  <2>2. task'[t].place = "waiting" /\ task'[t].at = task[t].at /\ task'[t].to = m
    BY <1>7, <1>0 DEF CallLost, Record
  <2>3. \A u \in Tasks \ {t}, n, q \in Nodes : Holds(u, n, q)' <=> Holds(u, n, q)
    BY <1>7, <1>0 DEF CallLost, Holds
  <2>4. QED
    BY <2>1, <2>2, <2>3, TakenSlot
<1>8. ASSUME NEW m \in Nodes, NEW c \in Hops, Call(t, m, c) PROVE SlotsHeld'
  <2>1. /\ task[t].place = "routing" /\ task[t].at \in Nodes /\ active' = [active EXCEPT ![task[t].at][m] = @ + 1]
        /\ task[c].place = "free" /\ c \in Tasks /\ c # t
    BY <1>8, <1>0 DEF Call, Placed, Tasks
  <2>2. PICK k \in Kinds :
          task' = [task EXCEPT ![t] = [@ EXCEPT !.place = "waiting", !.to = m, !.child = c],
                               ![c] = [Free EXCEPT !.at = m, !.kind = k, !.from = t, !.place = "sent"]]
    BY <1>8, <1>0 DEF Call, Kinds, Record
  <2>3. task'[t].place = "waiting" /\ task'[t].at = task[t].at /\ task'[t].to = m
    BY <2>1, <2>2, <1>0 DEF Record
  <2>4. task'[c].place = "sent"
    BY <2>1, <2>2, <1>0 DEF Free
  <2>5. \A u \in Tasks \ {t, c} : task'[u] = task[u]
    BY <2>1, <2>2, <1>0
  <2>6. \A u \in Tasks \ {t}, n, q \in Nodes : Holds(u, n, q)' <=> Holds(u, n, q)
    BY <2>1, <2>4, <2>5 DEF Holds
  <2>7. QED
    BY <2>1, <2>3, <2>6, TakenSlot
<1>9. CASE Exhausted(t)
  <2>1. CASE t = Root
    BY <1>9, <2>1, AnsweredOthers, OthersSlots DEF Exhausted, Closed, Free
  <2>2. CASE t # Root
    BY <1>9, <2>2, OverOthers, OthersSlots DEF Exhausted, Free
  <2>3. QED
    BY <2>1, <2>2
<1>10. CASE TakePiece(t)
  <2> DEFINE ts == [task EXCEPT ![t].queue = Tail(@), ![t].told = @ + 1]
  <2>1. ts \in [Tasks -> Record]
    <3>1. task[t].queue # <<>> /\ task[t].queue \in Seq(Messages) /\ task[t].told \in Nat
      BY <1>0, <1>10 DEF TakePiece, Comes, Record
    <3>2. Tail(task[t].queue) \in Seq(Messages) /\ task[t].told + 1 \in Nat
      BY <3>1, HeadTailProperties
    <3>3. QED
      BY <1>0, <3>2 DEF Record
  <2>2. /\ ts[t].place = task[t].place /\ ts[t].at = task[t].at /\ ts[t].to = task[t].to
        /\ \A u \in Tasks \ {t} : ts[u] = task[u]
    BY <1>0 DEF Record
  <2>3. task' = ts \/ task' = Frame(ts, t, Head(task[t].queue))
    BY <1>10 DEF TakePiece
  <2> HIDE DEF ts
  <2>4. \A u \in Tasks : Same(task'[u], ts[u])
    BY <2>1, <2>3, FrameSame DEF Same
  <2>5. Others(t) /\ task'[t].place = task[t].place /\ task'[t].at = task[t].at /\ task'[t].to = task[t].to
    BY <2>2, <2>4 DEF Others, Same
  <2>6. QED
    BY <1>10, <2>5, OthersSlots DEF TakePiece
<1>11. QED
  BY <1>1, <1>2, <1>3, <1>4, <1>5, <1>6, <1>7, <1>8, <1>9, <1>10, StopSlots DEF Act

LEMMA NextSlots == ASSUME Shape, SlotsHeld, [Next]_vars PROVE SlotsHeld'
<1>0. task \in [Tasks -> Record]
  BY DEF Shape
<1>1. ASSUME NEW k \in Kinds, Ask(k) PROVE SlotsHeld'
  <2>1. task[Root].place # "waiting" /\ Others(Root) /\ Root \in Tasks
    BY <1>0, <1>1 DEF Ask, Others, Same, Tasks
  <2>2. task'[Root].place # "waiting"
    BY <1>0, <1>1, <2>1 DEF Ask, Free
  <2>3. QED
    BY <1>1, <2>1, <2>2, OthersSlots DEF Ask
<1>2. ASSUME NEW t \in Tasks, Act(t) PROVE SlotsHeld'
  BY <1>2, ActSlots
<1>3. ASSUME NEW t \in Tasks, DeliverFrame(t) \/ DeliverLoose(t) PROVE SlotsHeld'
  <2>1. Others(t)
    BY <1>0, <1>3 DEF DeliverFrame, DeliverLoose, Others, Same
  <2>2. task'[t].place = task[t].place /\ task'[t].at = task[t].at /\ task'[t].to = task[t].to
    BY <1>0, <1>3 DEF DeliverFrame, DeliverLoose, Record
  <2>3. QED
    BY <1>3, <2>1, <2>2, OthersSlots DEF DeliverFrame, DeliverLoose
<1>4. ASSUME NEW n \in Nodes, Unload(n) PROVE SlotsHeld'
  BY <1>4, KeptSlots DEF Unload, Holds
<1>5. ASSUME NEW n \in Nodes, NEW m \in Nodes, Cut(n, m) PROVE SlotsHeld'
  BY <1>5, CutSlots
<1>6. CASE UNCHANGED vars
  BY <1>6, KeptSlots DEF vars, Holds
<1>7. QED
  BY <1>1, <1>2, <1>3, <1>4, <1>5, <1>6 DEF Next

LEMMA InitSlots == Init => SlotsHeld
<1> SUFFICES ASSUME Init PROVE SlotsHeld
  OBVIOUS
<1>1. \A n, m \in Nodes : Waits(n, m) = {}
  BY DEF Init, Waits, Holds, Free
<1>2. QED
  BY <1>1, SlotsAreWaits, FS_EmptySet DEF Init

Slots == Shape /\ SlotsHeld

\* Everything is of its type in every reachable state: no connection has more
\* requests under way than it may, none counts below zero and no queue
\* outgrows its limit.
THEOREM TypeCorrect == Spec => []TypeOK
<1>1. Init => Slots
  BY InitShape, InitSlots DEF Slots
<1>2. Slots /\ [Next]_vars => Slots'
  BY NextShape, NextSlots DEF Slots
<1>3. ASSUME Slots PROVE TypeOK
  <2>1. \A n, m \in Nodes : active[n][m] \in 0 .. MaxConcurrent
    BY <1>3, SlotsAreWaits, WaitsFinite, BoundsAssumption DEF Slots, Shape
  <2>2. active \in [Nodes -> [Nodes -> 0 .. MaxConcurrent]]
    BY <1>3, <2>1 DEF Slots, Shape
  <2>3. QED
    BY <1>3, <2>2 DEF Slots, Shape, TypeOK, Record, Placed, Places, Ends
<1>4. Slots => TypeOK
  BY <1>3
<1>5. QED
  BY <1>1, <1>2, <1>4, PTL DEF Spec

\* Whatever is answered, refused, lost, timed out or cancelled, the count of a
\* connection is that of the requests which wait on it.
THEOREM SlotsAreHeld == Spec => []SlotsHeld
<1>1. Init => Slots
  BY InitShape, InitSlots DEF Slots
<1>2. Slots /\ [Next]_vars => Slots'
  BY NextShape, NextSlots DEF Slots
<1>3. Slots => SlotsHeld
  BY DEF Slots
<1>4. QED
  BY <1>1, <1>2, <1>3, PTL DEF Spec

-----------------------------------------------------------------------------
(* The voice: what is on its way to a task.                                *)

IsPiece(m) == m.what = "piece"
NoPiece(q) == \A i \in 1 .. Len(q) : ~IsPiece(q[i])
Rising(q) == \A i, j \in 1 .. Len(q) : i < j /\ IsPiece(q[i]) /\ IsPiece(q[j]) => q[i].k < q[j].k

\* The pieces that a task of record r has been sent and has not taken.
Got(r) == {m \in Messages : IsPiece(m) /\ \/ m \in r.loose
                                          \/ \E i \in 1 .. Len(r.queue) : r.queue[i] = m
                                          \/ \E i \in 1 .. Len(r.frames) : r.frames[i] = m}

\* No piece is on a stream of its own.
Quiet(r) == \A m \in r.loose : ~IsPiece(m)

\* They are taken in their order; one on a stream of its own is the only one.
Ordered(r) ==
    /\ Rising(r.queue) /\ Rising(r.frames)
    /\ \A i \in 1 .. Len(r.queue), j \in 1 .. Len(r.frames) :
          IsPiece(r.queue[i]) /\ IsPiece(r.frames[j]) => r.queue[i].k < r.frames[j].k
    /\ \A m \in r.loose : IsPiece(m) => NoPiece(r.queue) /\ NoPiece(r.frames) /\ Got(r) = {m}

\* A record that holds no more than r did.
Calm(s, r) == Ordered(s) /\ Got(s) \subseteq Got(r) /\ (Quiet(r) => Quiet(s))

LEMMA PieceTyped == \A m \in Messages : IsPiece(m) => m.by \in Nodes /\ m.k \in Nat /\ m.k # 0
  BY BoundsAssumption DEF Messages, IsPiece, Piece, Plain

LEMMA PlainTyped ==
    /\ \A w \in {"done", "error", "response"} : ~IsPiece(Plain(w)) /\ Plain(w) \in Messages
    /\ \A n \in Nodes, k \in 1 .. Chunks :
          /\ IsPiece(Piece(n, k)) /\ Piece(n, k) \in Messages
          /\ Piece(n, k).by = n /\ Piece(n, k).k = k
  BY DEF Messages, IsPiece, Piece, Plain

LEMMA EmptyGot ==
    ASSUME NEW r, r.queue = <<>>, r.frames = <<>>, r.loose = {}
    PROVE  Ordered(r) /\ Got(r) = {} /\ Quiet(r) /\ \A s : Calm(r, s)
<1>1. Len(r.queue) = 0 /\ Len(r.frames) = 0
  BY EmptySeq
<1>2. Ordered(r) /\ Got(r) = {} /\ Quiet(r)
  BY <1>1 DEF Ordered, Got, Quiet, Rising
<1>3. QED
  BY <1>2 DEF Calm

LEMMA CalmLoose ==
    ASSUME NEW r \in Record, Ordered(r), NEW ms \in SUBSET Messages, \A m \in ms : ~IsPiece(m)
    PROVE  Calm([r EXCEPT !.loose = @ \cup ms], r)
<1> DEFINE s == [r EXCEPT !.loose = @ \cup ms]
<1>1. s.queue = r.queue /\ s.frames = r.frames /\ s.loose = r.loose \cup ms
  BY DEF Record
<1> HIDE DEF s
<1>2. Got(s) = Got(r)
  BY <1>1 DEF Got
<1>3. Ordered(s)
  BY <1>1, <1>2 DEF Ordered
<1>4. Quiet(r) => Quiet(s)
  BY <1>1 DEF Quiet
<1>5. QED
  BY <1>2, <1>3, <1>4 DEF Calm, s

\* The frames of s are those of r and m after them.
LEMMA AppendedGot ==
    ASSUME NEW r \in Record, NEW m \in Messages
    PROVE  LET s == [r EXCEPT !.frames = Append(@, m)] IN
           /\ s.queue = r.queue /\ s.loose = r.loose /\ s.frames = Append(r.frames, m)
           /\ Len(r.frames) \in Nat /\ Len(s.frames) = Len(r.frames) + 1
           /\ \A i \in 1 .. Len(r.frames) : s.frames[i] = r.frames[i]
           /\ s.frames[Len(r.frames) + 1] = m
           /\ Got(s) = IF IsPiece(m) THEN Got(r) \cup {m} ELSE Got(r)
<1> DEFINE s == [r EXCEPT !.frames = Append(@, m)]
<1>1. s.queue = r.queue /\ s.loose = r.loose /\ s.frames = Append(r.frames, m)
  BY DEF Record
<1>2. r.frames \in Seq(Messages)
  BY DEF Record
<1> HIDE DEF s
<1>3. /\ Len(r.frames) \in Nat /\ Len(s.frames) = Len(r.frames) + 1
      /\ \A i \in 1 .. Len(r.frames) : s.frames[i] = r.frames[i]
      /\ s.frames[Len(r.frames) + 1] = m
  BY <1>1, <1>2
<1>4. \A x : (\E i \in 1 .. Len(s.frames) : s.frames[i] = x) <=> x = m \/ \E i \in 1 .. Len(r.frames) : r.frames[i] = x
  <2>1. 1 .. Len(s.frames) = (1 .. Len(r.frames)) \cup {Len(r.frames) + 1}
    BY <1>3
  <2>2. QED
    BY <1>3, <2>1
<1>5. Got(s) = IF IsPiece(m) THEN Got(r) \cup {m} ELSE Got(r)
  BY <1>1, <1>4 DEF Got
<1>6. QED
  BY <1>1, <1>3, <1>5 DEF s

LEMMA CalmFrame ==
    ASSUME NEW r \in Record, Ordered(r), NEW m \in Messages, ~IsPiece(m)
    PROVE  Calm([r EXCEPT !.frames = Append(@, m)], r)
<1> DEFINE s == [r EXCEPT !.frames = Append(@, m)]
<1>1. /\ s.queue = r.queue /\ s.loose = r.loose
      /\ Len(r.frames) \in Nat /\ Len(s.frames) = Len(r.frames) + 1
      /\ \A i \in 1 .. Len(r.frames) : s.frames[i] = r.frames[i]
      /\ s.frames[Len(r.frames) + 1] = m
      /\ Got(s) = Got(r)
  BY AppendedGot
<1> HIDE DEF s
<1>2. \A i \in 1 .. Len(s.frames) : IsPiece(s.frames[i]) => i \in 1 .. Len(r.frames) /\ s.frames[i] = r.frames[i]
  BY <1>1
<1>3. Rising(s.queue) /\ Rising(s.frames)
  BY <1>1, <1>2 DEF Ordered, Rising
<1>4. \A i \in 1 .. Len(s.queue), j \in 1 .. Len(s.frames) :
          IsPiece(s.queue[i]) /\ IsPiece(s.frames[j]) => s.queue[i].k < s.frames[j].k
  BY <1>1, <1>2 DEF Ordered
<1>5. \A x \in s.loose : IsPiece(x) => NoPiece(s.queue) /\ NoPiece(s.frames) /\ Got(s) = {x}
  BY <1>1, <1>2 DEF Ordered, NoPiece
<1>6. Ordered(s)
  BY <1>3, <1>4, <1>5 DEF Ordered
<1>7. QED
  BY <1>1, <1>6 DEF Calm, Quiet, s

\* A piece is sent after all that were sent before.
LEMMA PieceFrame ==
    ASSUME NEW r \in Record, Ordered(r), Quiet(r), NEW m \in Messages, IsPiece(m), \A x \in Got(r) : x.k < m.k
    PROVE  LET s == [r EXCEPT !.frames = Append(@, m)] IN
           Ordered(s) /\ Got(s) = Got(r) \cup {m} /\ Quiet(s)
<1> DEFINE s == [r EXCEPT !.frames = Append(@, m)]
<1>1. /\ s.queue = r.queue /\ s.loose = r.loose
      /\ Len(r.frames) \in Nat /\ Len(s.frames) = Len(r.frames) + 1
      /\ \A i \in 1 .. Len(r.frames) : s.frames[i] = r.frames[i]
      /\ s.frames[Len(r.frames) + 1] = m
      /\ Got(s) = Got(r) \cup {m}
  BY AppendedGot
<1> HIDE DEF s
<1>2. /\ r.frames \in Seq(Messages) /\ r.queue \in Seq(Messages)
      /\ \A i \in 1 .. Len(r.frames) : r.frames[i] \in Messages
      /\ \A i \in 1 .. Len(r.queue) : r.queue[i] \in Messages
  BY ElementOfSeq DEF Record
<1>3. /\ \A i \in 1 .. Len(r.frames) : IsPiece(r.frames[i]) => r.frames[i].k < m.k
      /\ \A i \in 1 .. Len(r.queue) : IsPiece(r.queue[i]) => r.queue[i].k < m.k
  BY <1>2 DEF Got
<1>4. Rising(s.frames)
  <2>1. SUFFICES ASSUME NEW i \in 1 .. Len(s.frames), NEW j \in 1 .. Len(s.frames), i < j,
                        IsPiece(s.frames[i]), IsPiece(s.frames[j])
                 PROVE  s.frames[i].k < s.frames[j].k
    BY DEF Rising
  <2>2. i \in 1 .. Len(r.frames)
    BY <1>1, <2>1
  <2>3. CASE j = Len(r.frames) + 1
    BY <1>1, <1>3, <2>1, <2>2, <2>3
  <2>4. CASE j \in 1 .. Len(r.frames)
    BY <1>1, <2>1, <2>2, <2>4 DEF Ordered, Rising
  <2>5. QED
    BY <1>1, <2>3, <2>4
<1>5. \A i \in 1 .. Len(s.queue), j \in 1 .. Len(s.frames) :
          IsPiece(s.queue[i]) /\ IsPiece(s.frames[j]) => s.queue[i].k < s.frames[j].k
  <2>1. SUFFICES ASSUME NEW i \in 1 .. Len(s.queue), NEW j \in 1 .. Len(s.frames),
                        IsPiece(s.queue[i]), IsPiece(s.frames[j])
                 PROVE  s.queue[i].k < s.frames[j].k
    OBVIOUS
  <2>2. CASE j = Len(r.frames) + 1
    BY <1>1, <1>3, <2>1, <2>2
  <2>3. CASE j \in 1 .. Len(r.frames)
    BY <1>1, <2>1, <2>3 DEF Ordered
  <2>4. QED
    BY <1>1, <2>2, <2>3
<1>6. Ordered(s) /\ Quiet(s)
  BY <1>1, <1>4, <1>5 DEF Ordered, Quiet
<1>7. QED
  BY <1>1, <1>6 DEF s

\* A piece of its own stream is the first there is.
LEMMA PieceLoose ==
    ASSUME NEW r \in Record, Ordered(r), NEW m \in Messages, IsPiece(m), Got(r) = {}, NEW d \in Messages, ~IsPiece(d)
    PROVE  LET s == [r EXCEPT !.loose = @ \cup {m, d}] IN Ordered(s) /\ Got(s) = {m}
<1> DEFINE s == [r EXCEPT !.loose = @ \cup {m, d}]
<1>1. s.queue = r.queue /\ s.frames = r.frames /\ s.loose = r.loose \cup {m, d}
  BY DEF Record
<1> HIDE DEF s
<1>2. Got(s) = Got(r) \cup {m}
  BY <1>1 DEF Got
<1>3. NoPiece(r.queue) /\ NoPiece(r.frames) /\ \A x \in r.loose : ~IsPiece(x)
  <2>1. /\ \A i \in 1 .. Len(r.frames) : r.frames[i] \in Messages
        /\ \A i \in 1 .. Len(r.queue) : r.queue[i] \in Messages
        /\ r.loose \subseteq Messages
    BY ElementOfSeq DEF Record
  <2>2. QED
    BY <2>1 DEF NoPiece, Got
<1>4. Ordered(s)
  BY <1>1, <1>2, <1>3 DEF Ordered
<1>5. QED
  BY <1>2, <1>4 DEF s

LEMMA TailIs ==
    ASSUME NEW q \in Seq(Messages), q # <<>>
    PROVE  /\ Len(q) \in Nat /\ Len(q) >= 1 /\ Len(Tail(q)) = Len(q) - 1 /\ Tail(q) \in Seq(Messages)
           /\ Head(q) = q[1] /\ Head(q) \in Messages
           /\ \A i \in 1 .. Len(Tail(q)) : i + 1 \in 1 .. Len(q) /\ Tail(q)[i] = q[i + 1]
<1>1. Len(q) \in Nat /\ Len(q) >= 1 /\ Len(Tail(q)) = Len(q) - 1 /\ Tail(q) \in Seq(Messages)
  BY HeadTailProperties, EmptySeq
<1>2. Head(q) = q[1] /\ Head(q) \in Messages
  BY HeadTailProperties
<1>3. \A i \in 1 .. Len(Tail(q)) : i + 1 \in 1 .. Len(q) /\ Tail(q)[i] = q[i + 1]
  BY <1>1
<1>4. QED
  BY <1>1, <1>2, <1>3

LEMMA AppendIs ==
    ASSUME NEW q \in Seq(Messages), NEW m \in Messages
    PROVE  /\ Len(q) \in Nat /\ Len(Append(q, m)) = Len(q) + 1
           /\ \A i \in 1 .. Len(q) : Append(q, m)[i] = q[i]
           /\ Append(q, m)[Len(q) + 1] = m
  OBVIOUS

LEMMA TakenCalm ==
    ASSUME NEW r \in Record, NEW s \in Record, Ordered(r), r.queue # <<>>,
           s.queue = Tail(r.queue), s.frames = r.frames, s.loose = r.loose
    PROVE  /\ Calm(s, r)
           /\ IsPiece(Head(r.queue)) => /\ Head(r.queue) \in Got(r)
                                        /\ \A x \in Got(s) : x.k > Head(r.queue).k
<1> DEFINE n == Len(r.queue)
<1>1. /\ n \in Nat /\ n >= 1 /\ Len(s.queue) = n - 1
      /\ Head(r.queue) = r.queue[1] /\ Head(r.queue) \in Messages
      /\ \A i \in 1 .. Len(s.queue) : i + 1 \in 1 .. n /\ s.queue[i] = r.queue[i + 1]
  BY TailIs DEF Record
<1>2. Got(s) \subseteq Got(r)
  BY <1>1 DEF Got
<1>3. Rising(s.queue)
  <2>1. SUFFICES ASSUME NEW i \in 1 .. Len(s.queue), NEW j \in 1 .. Len(s.queue), i < j,
                        IsPiece(s.queue[i]), IsPiece(s.queue[j])
                 PROVE  s.queue[i].k < s.queue[j].k
    BY DEF Rising
  <2>2. i + 1 \in 1 .. n /\ j + 1 \in 1 .. n /\ i + 1 < j + 1
    BY <1>1, <2>1
  <2>3. s.queue[i] = r.queue[i + 1] /\ s.queue[j] = r.queue[j + 1]
    BY <1>1
  <2>4. QED
    BY <2>1, <2>2, <2>3 DEF Ordered, Rising
<1>4. \A i \in 1 .. Len(s.queue), j \in 1 .. Len(s.frames) :
          IsPiece(s.queue[i]) /\ IsPiece(s.frames[j]) => s.queue[i].k < s.frames[j].k
  BY <1>1 DEF Ordered
<1>5. \A m \in s.loose : IsPiece(m) => NoPiece(s.queue) /\ NoPiece(s.frames) /\ Got(s) = {m}
  <2>1. SUFFICES ASSUME NEW m \in s.loose, IsPiece(m)
                 PROVE  NoPiece(s.queue) /\ NoPiece(s.frames) /\ Got(s) = {m}
    OBVIOUS
  <2>2. NoPiece(r.queue) /\ NoPiece(r.frames) /\ Got(r) = {m} /\ m \in Messages
    BY <2>1 DEF Ordered, Record
  <2>3. NoPiece(s.queue)
    BY <1>1, <2>2 DEF NoPiece
  <2>4. m \in Got(s)
    BY <2>1, <2>2 DEF Got
  <2>5. QED
    BY <1>2, <2>2, <2>3, <2>4
<1>6. Ordered(s)
  BY <1>3, <1>4, <1>5 DEF Ordered
<1>7. ASSUME IsPiece(Head(r.queue)) PROVE \A x \in Got(s) : x.k > Head(r.queue).k
  <2>1. SUFFICES ASSUME NEW x \in Got(s) PROVE x.k > Head(r.queue).k
    OBVIOUS
  <2>2. IsPiece(r.queue[1]) /\ 1 \in 1 .. n /\ r.queue[1].k \in Nat /\ x.k \in Nat /\ IsPiece(x)
    BY <1>1, <1>7, PieceTyped DEF Got
  <2>3. x \notin s.loose
    BY <2>2 DEF Ordered, NoPiece
  <2>4. CASE \E i \in 1 .. Len(s.queue) : s.queue[i] = x
    <3>1. PICK i \in 1 .. Len(s.queue) : s.queue[i] = x
      BY <2>4
    <3>2. i + 1 \in 1 .. n /\ 1 < i + 1 /\ r.queue[i + 1] = x
      BY <1>1, <3>1
    <3>3. r.queue[1].k < r.queue[i + 1].k
      BY <2>2, <3>2 DEF Ordered, Rising
    <3>4. QED
      BY <1>1, <2>2, <3>2, <3>3
  <2>5. CASE \E i \in 1 .. Len(s.frames) : s.frames[i] = x
    <3>1. PICK i \in 1 .. Len(r.frames) : r.frames[i] = x
      BY <2>5
    <3>2. r.queue[1].k < r.frames[i].k
      BY <2>2, <3>1 DEF Ordered
    <3>3. QED
      BY <1>1, <2>2, <3>1, <3>2
  <2>6. QED
    BY <2>3, <2>4, <2>5 DEF Got
<1>8. IsPiece(Head(r.queue)) => Head(r.queue) \in Got(r)
  BY <1>1 DEF Got
<1>9. QED
  BY <1>2, <1>6, <1>7, <1>8 DEF Calm, Quiet

\* What arrives and finds no room is gone.
LEMMA FrameCalm ==
    ASSUME NEW r \in Record, NEW s \in Record, Ordered(r), r.frames # <<>>,
           s.queue \in {r.queue, Append(r.queue, Head(r.frames))}, s.frames = Tail(r.frames), s.loose = r.loose
    PROVE  Calm(s, r)
<1> DEFINE n == Len(r.frames)
           l == Len(r.queue)
<1>1. /\ n \in Nat /\ n >= 1 /\ Len(s.frames) = n - 1
      /\ Head(r.frames) = r.frames[1] /\ Head(r.frames) \in Messages
      /\ \A i \in 1 .. Len(s.frames) : i + 1 \in 1 .. n /\ s.frames[i] = r.frames[i + 1]
  BY TailIs DEF Record
<1>2. /\ l \in Nat /\ Len(s.queue) \in {l, l + 1}
      /\ \A i \in 1 .. l : s.queue[i] = r.queue[i]
      /\ Len(s.queue) = l + 1 => s.queue[l + 1] = r.frames[1]
  BY <1>1, AppendIs DEF Record
<1>3. \A i \in 1 .. Len(s.queue) : i \in 1 .. l \/ i = l + 1
  BY <1>2
<1>4. Got(s) \subseteq Got(r)
  <2>1. SUFFICES ASSUME NEW x \in Got(s) PROVE x \in Got(r)
    OBVIOUS
  <2>2. CASE \E i \in 1 .. Len(s.queue) : s.queue[i] = x
    BY <1>1, <1>2, <1>3, <2>2 DEF Got
  <2>3. CASE \E i \in 1 .. Len(s.frames) : s.frames[i] = x
    BY <1>1, <2>3 DEF Got
  <2>4. QED
    BY <2>2, <2>3 DEF Got
<1>5. Rising(s.frames)
  <2>1. SUFFICES ASSUME NEW i \in 1 .. Len(s.frames), NEW j \in 1 .. Len(s.frames), i < j,
                        IsPiece(s.frames[i]), IsPiece(s.frames[j])
                 PROVE  s.frames[i].k < s.frames[j].k
    BY DEF Rising
  <2>2. i + 1 \in 1 .. n /\ j + 1 \in 1 .. n /\ i + 1 < j + 1
    BY <1>1, <2>1
  <2>3. s.frames[i] = r.frames[i + 1] /\ s.frames[j] = r.frames[j + 1]
    BY <1>1
  <2>4. QED
    BY <2>1, <2>2, <2>3 DEF Ordered, Rising
<1>6. Rising(s.queue)
  <2>1. SUFFICES ASSUME NEW i \in 1 .. Len(s.queue), NEW j \in 1 .. Len(s.queue), i < j,
                        IsPiece(s.queue[i]), IsPiece(s.queue[j])
                 PROVE  s.queue[i].k < s.queue[j].k
    BY DEF Rising
  <2>2. i \in 1 .. l
    BY <1>2, <1>3, <2>1
  <2>3. CASE j \in 1 .. l
    BY <1>2, <2>1, <2>2, <2>3 DEF Ordered, Rising
  <2>4. CASE j = l + 1
    <3>1. s.queue[j] = r.frames[1] /\ s.queue[i] = r.queue[i] /\ 1 \in 1 .. n
      BY <1>1, <1>2, <2>2, <2>4
    <3>2. QED
      BY <2>1, <2>2, <3>1 DEF Ordered
  <2>5. QED
    BY <1>3, <2>3, <2>4
<1>7. \A i \in 1 .. Len(s.queue), j \in 1 .. Len(s.frames) :
          IsPiece(s.queue[i]) /\ IsPiece(s.frames[j]) => s.queue[i].k < s.frames[j].k
  <2>1. SUFFICES ASSUME NEW i \in 1 .. Len(s.queue), NEW j \in 1 .. Len(s.frames),
                        IsPiece(s.queue[i]), IsPiece(s.frames[j])
                 PROVE  s.queue[i].k < s.frames[j].k
    OBVIOUS
  <2>2. j + 1 \in 1 .. n /\ 1 < j + 1 /\ 1 \in 1 .. n /\ s.frames[j] = r.frames[j + 1]
    BY <1>1
  <2>3. CASE i \in 1 .. l
    BY <1>2, <2>1, <2>2, <2>3 DEF Ordered
  <2>4. CASE i = l + 1
    <3>1. s.queue[i] = r.frames[1]
      BY <1>2, <2>4
    <3>2. QED
      BY <2>1, <2>2, <3>1 DEF Ordered, Rising
  <2>5. QED
    BY <1>3, <2>3, <2>4
<1>8. \A m \in s.loose : IsPiece(m) => NoPiece(s.queue) /\ NoPiece(s.frames) /\ Got(s) = {m}
  <2>1. SUFFICES ASSUME NEW m \in s.loose, IsPiece(m)
                 PROVE  NoPiece(s.queue) /\ NoPiece(s.frames) /\ Got(s) = {m}
    OBVIOUS
  <2>2. NoPiece(r.queue) /\ NoPiece(r.frames) /\ Got(r) = {m} /\ m \in Messages
    BY <2>1 DEF Ordered, Record
  <2>3. NoPiece(s.frames)
    BY <1>1, <2>2 DEF NoPiece
  <2>4. NoPiece(s.queue)
    BY <1>1, <1>2, <1>3, <2>2 DEF NoPiece
  <2>5. m \in Got(s)
    BY <2>1, <2>2 DEF Got
  <2>6. QED
    BY <1>4, <2>2, <2>3, <2>4, <2>5
<1>9. QED
  BY <1>4, <1>5, <1>6, <1>7, <1>8 DEF Ordered, Calm, Quiet

LEMMA LooseCalm ==
    ASSUME NEW r \in Record, NEW s \in Record, Ordered(r), NEW m \in r.loose,
           s.queue \in {r.queue, Append(r.queue, m)}, s.frames = r.frames, s.loose = r.loose \ {m}
    PROVE  Calm(s, r)
<1> DEFINE l == Len(r.queue)
<1>1. m \in Messages /\ r.queue \in Seq(Messages)
  BY DEF Record
<1>2. /\ l \in Nat /\ Len(s.queue) \in {l, l + 1}
      /\ \A i \in 1 .. l : s.queue[i] = r.queue[i]
      /\ Len(s.queue) = l + 1 => s.queue[l + 1] = m
  BY <1>1, AppendIs
<1>3. \A i \in 1 .. Len(s.queue) : i \in 1 .. l \/ i = l + 1
  BY <1>2
<1>4. Got(s) \subseteq Got(r)
  BY <1>2, <1>3 DEF Got
<1>5. CASE ~IsPiece(m)
  <2>1. \A i \in 1 .. Len(s.queue) : IsPiece(s.queue[i]) => i \in 1 .. l /\ s.queue[i] = r.queue[i]
    BY <1>2, <1>3, <1>5
  <2>2. Rising(s.queue)
    BY <2>1 DEF Ordered, Rising
  <2>3. \A i \in 1 .. Len(s.queue), j \in 1 .. Len(s.frames) :
            IsPiece(s.queue[i]) /\ IsPiece(s.frames[j]) => s.queue[i].k < s.frames[j].k
    BY <2>1 DEF Ordered
  <2>4. \A x \in s.loose : IsPiece(x) => NoPiece(s.queue) /\ NoPiece(s.frames) /\ Got(s) = {x}
    <3>1. SUFFICES ASSUME NEW x \in s.loose, IsPiece(x)
                   PROVE  NoPiece(s.queue) /\ NoPiece(s.frames) /\ Got(s) = {x}
      OBVIOUS
    <3>2. NoPiece(r.queue) /\ NoPiece(r.frames) /\ Got(r) = {x} /\ x \in Messages
      BY <3>1 DEF Ordered, Record
    <3>3. NoPiece(s.queue)
      BY <2>1, <3>2 DEF NoPiece
    <3>4. x \in Got(s)
      BY <3>1, <3>2 DEF Got
    <3>5. QED
      BY <1>4, <3>2, <3>3, <3>4
  <2>5. QED
    BY <1>4, <2>2, <2>3, <2>4 DEF Ordered, Calm, Quiet
<1>6. CASE IsPiece(m)
  <2>1. NoPiece(r.queue) /\ NoPiece(r.frames) /\ Got(r) = {m}
    BY <1>6 DEF Ordered
  <2>2. \A x \in s.loose : ~IsPiece(x)
    BY <2>1 DEF Got, Record
  <2>3. Rising(s.queue)
    <3>1. \A i \in 1 .. Len(s.queue) : IsPiece(s.queue[i]) => i = l + 1
      BY <1>2, <1>3, <2>1 DEF NoPiece
    <3>2. QED
      BY <1>2, <3>1 DEF Rising
  <2>4. QED
    BY <1>4, <2>1, <2>2, <2>3 DEF Ordered, Calm, Quiet, NoPiece
<1>7. QED
  BY <1>5, <1>6

-----------------------------------------------------------------------------
(* The voice: who speaks, and how far.                                     *)

\* h: the last piece a task handed on (a server: made), b: the node whose pieces they are.
Timed(t, r, h, b) ==
    /\ r.place \in {"sent", "routing", "waiting"} /\ r.told = 0 => h = 0
    /\ t = Root /\ r.place = "free" => h = 0
    /\ r.place = "serving" => h = r.made /\ (h > 0 => b = r.at)

\* What a task has been sent are pieces of one node, after those it handed on.
Own(t, h, b) ==
    /\ Ordered(task[t])
    /\ \A m \in Got(task[t]) : m.by = b /\ m.k > h
    /\ Timed(t, task[t], h, b)

\* Whom c speaks to has nothing that c has not handed on.
Link(c, t, h, b) ==
    Feeds(c, t) =>
        /\ Quiet(task[t])
        /\ h[t] <= h[c] /\ (h[t] > 0 => b[t] = b[c])
        /\ \A m \in Got(task[t]) : m.k <= h[c] /\ m.by = b[c]

\* Neither has the client.
Client(h, b) == \A i \in 1 .. Len(result.out) : result.out[i].by = b /\ result.out[i].k <= h

Voice(h, b) ==
    /\ \A t \in Tasks : Own(t, h[t], b[t])
    /\ \A c, t \in Tasks : Link(c, t, h, b)
    /\ Client(h[Root], b[Root])
    /\ OneVoice /\ \A i \in 1 .. Len(result.out) : IsPiece(result.out[i])

Voices == \E h \in [Tasks -> Nat], b \in [Tasks -> Nodes] : Voice(h, b)

\* The tasks follow one another as they did, or not at all.
Linked(s, r) == s.from \in {r.from, Nothing} /\ s.child \in {r.child, Nothing}

\* No piece is sent and none is taken.
LEMMA PlainVoice ==
    ASSUME NEW h \in [Tasks -> Nat], NEW b \in [Tasks -> Nodes], Voice(h, b), result'.out = result.out,
           \A u \in Tasks : /\ Calm(task'[u], task[u]) /\ Linked(task'[u], task[u])
                            /\ Timed(u, task'[u], h[u], b[u])
    PROVE  Voices'
<1>1. \A t \in Tasks : Own(t, h[t], b[t])'
  BY DEF Voice, Own, Calm
<1>2. ASSUME NEW c \in Tasks, NEW t \in Tasks PROVE Link(c, t, h, b)'
  <2>1. SUFFICES ASSUME Feeds(c, t)' PROVE Link(c, t, h, b)'
    BY DEF Link
  <2>2. Feeds(c, t)
    BY <2>1, TasksAssumption DEF Feeds, Linked, Tasks
  <2>3. Link(c, t, h, b) /\ Calm(task'[t], task[t])
    BY DEF Voice
  <2>4. QED
    BY <2>2, <2>3 DEF Link, Calm
<1>3. Client(h[Root], b[Root])' /\ OneVoice' /\ \A i \in 1 .. Len(result'.out) : IsPiece(result'.out[i])
  BY DEF Voice, Client, OneVoice
<1>4. Voice(h, b)'
  BY <1>1, <1>2, <1>3 DEF Voice
<1>5. QED
  BY <1>4 DEF Voices

\* What is left as it was.
LEMMA SameTimed ==
    ASSUME NEW u, NEW r, NEW s, NEW x, NEW y, Same(s, r), Timed(u, r, x, y)
    PROVE  Timed(u, s, x, y) /\ Linked(s, r)
  BY DEF Same, Timed, Linked

LEMMA SelfCalm == ASSUME NEW r, Ordered(r) PROVE Calm(r, r)
  BY DEF Calm

\* t has ended.
LEMMA FreeVoice ==
    ASSUME NEW t \in Tasks, NEW x, NEW y
    PROVE  /\ \A r : Calm(Free, r) /\ Linked(Free, r) /\ Calm(Closed, r) /\ Linked(Closed, r)
           /\ t # Root => Timed(t, Free, x, y)
           /\ Timed(t, Closed, x, y)
<1>1. Free.queue = <<>> /\ Free.frames = <<>> /\ Free.loose = {} /\ Free.place = "free" /\ Free.from = Nothing /\ Free.child = Nothing
  BY DEF Free
<1>2. /\ Closed.queue = <<>> /\ Closed.frames = <<>> /\ Closed.loose = {} /\ Closed.place = "ended"
      /\ Closed.from = Nothing /\ Closed.child = Nothing
  BY DEF Free, Closed
<1>3. \A r : Calm(Free, r) /\ Calm(Closed, r)
  BY <1>1, <1>2, EmptyGot
<1>4. QED
  BY <1>1, <1>2, <1>3 DEF Linked, Timed

\* The plain messages are sent, and t has ended.
LEMMA OverVoice ==
    ASSUME Shape, Voices, NEW t \in Tasks \ {Root}, NEW ms \in SUBSET Messages, \A m \in ms : ~IsPiece(m),
           Over(t, ms)
    PROVE  Voices'
<1>1. PICK h \in [Tasks -> Nat], b \in [Tasks -> Nodes] : Voice(h, b)
  BY DEF Voices
<1>2. /\ task'[t] = Free /\ Others(t) /\ result' = result
      /\ \A u \in Tasks \ {t} : task'[u] \in {task[u], [task[u] EXCEPT !.loose = @ \cup ms]}
  <2>0. t \in Tasks /\ task \in [Tasks -> Record]
    BY DEF Shape
  <2>1. Loose(task, t, ms) =
          [u \in Tasks |-> IF Feeds(t, u) THEN [task[u] EXCEPT !.loose = @ \cup ms] ELSE task[u]]
    BY <2>0, LooseIs
  <2>2. task'[t] = Free /\ Others(t)
    BY <2>0, OverOthers
  <2>3. QED
    BY <2>1, <2>2 DEF Over
<1>3. \A u \in Tasks : Own(u, h[u], b[u]) /\ task[u] \in Record
  BY <1>1 DEF Voice, Shape
<1>4. \A u \in Tasks \ {t} : Calm(task'[u], task[u]) /\ Linked(task'[u], task[u]) /\ Timed(u, task'[u], h[u], b[u])
  <2>1. SUFFICES ASSUME NEW u \in Tasks \ {t}
                 PROVE  Calm(task'[u], task[u]) /\ Linked(task'[u], task[u]) /\ Timed(u, task'[u], h[u], b[u])
    OBVIOUS
  <2>2. Ordered(task[u]) /\ Timed(u, task[u], h[u], b[u]) /\ Same(task'[u], task[u])
    BY <1>2, <1>3 DEF Own, Others
  <2>3. Calm(task'[u], task[u])
    <3>1. Calm([task[u] EXCEPT !.loose = @ \cup ms], task[u])
      BY <1>3, <2>2, CalmLoose
    <3>2. Calm(task[u], task[u])
      BY <2>2, SelfCalm
    <3>3. QED
      BY <1>2, <3>1, <3>2
  <2>4. QED
    BY <2>2, <2>3, SameTimed
<1>5. Calm(task'[t], task[t]) /\ Linked(task'[t], task[t]) /\ Timed(t, task'[t], h[t], b[t])
  BY <1>2, FreeVoice
<1>6. QED
  BY <1>1, <1>2, <1>4, <1>5, PlainVoice

\* The client is told how it ended.
LEMMA AnsweredVoice ==
    ASSUME Shape, Voices, NEW e, Answered(e)
    PROVE  Voices'
<1>1. PICK h \in [Tasks -> Nat], b \in [Tasks -> Nodes] : Voice(h, b)
  BY DEF Voices
<1>2. /\ Root \in Tasks /\ task'[Root] = Closed /\ result'.out = result.out
      /\ \A u \in Tasks \ {Root} : task'[u] = task[u]
  BY DEF Answered, Closed, Shape, Tasks
<1>3. \A u \in Tasks : Own(u, h[u], b[u])
  BY <1>1 DEF Voice
<1>4. \A u \in Tasks : Calm(task'[u], task[u]) /\ Linked(task'[u], task[u]) /\ Timed(u, task'[u], h[u], b[u])
  BY <1>2, <1>3, FreeVoice, SelfCalm DEF Own, Linked
<1>5. QED
  BY <1>1, <1>2, <1>4, PlainVoice

\* The stream of a task is ended.
LEMMA DoneVoice ==
    ASSUME Shape, Voices, NEW t \in Tasks \ {Root}, task' = [Frame(task, t, Plain("done")) EXCEPT ![t] = Free],
           result' = result
    PROVE  Voices'
<1>1. PICK h \in [Tasks -> Nat], b \in [Tasks -> Nodes] : Voice(h, b)
  BY DEF Voices
<1>2. /\ task'[t] = Free /\ Others(t)
      /\ \A u \in Tasks \ {t} : task'[u] \in {task[u], [task[u] EXCEPT !.frames = Append(@, Plain("done"))]}
  <2>0. t \in Tasks /\ task \in [Tasks -> Record]
    BY DEF Shape
  <2>1. Frame(task, t, Plain("done")) =
          [u \in Tasks |-> IF Feeds(t, u) THEN [task[u] EXCEPT !.frames = Append(@, Plain("done"))] ELSE task[u]]
    BY <2>0, FrameIs
  <2>2. task'[t] = Free /\ Others(t)
    BY <2>0, DoneOthers
  <2>3. QED
    BY <2>1, <2>2
<1>3. \A u \in Tasks : Own(u, h[u], b[u]) /\ task[u] \in Record
  BY <1>1 DEF Voice, Shape
<1>4. \A u \in Tasks \ {t} : Calm(task'[u], task[u]) /\ Linked(task'[u], task[u]) /\ Timed(u, task'[u], h[u], b[u])
  <2>1. SUFFICES ASSUME NEW u \in Tasks \ {t}
                 PROVE  Calm(task'[u], task[u]) /\ Linked(task'[u], task[u]) /\ Timed(u, task'[u], h[u], b[u])
    OBVIOUS
  <2>2. Ordered(task[u]) /\ Timed(u, task[u], h[u], b[u]) /\ Same(task'[u], task[u])
    BY <1>2, <1>3 DEF Own, Others
  <2>3. Calm(task'[u], task[u])
    <3>1. Calm([task[u] EXCEPT !.frames = Append(@, Plain("done"))], task[u])
      BY <1>3, <2>2, CalmFrame, PlainTyped
    <3>2. Calm(task[u], task[u])
      BY <2>2, SelfCalm
    <3>3. QED
      BY <1>2, <3>1, <3>2
  <2>4. QED
    BY <2>2, <2>3, SameTimed
<1>5. Calm(task'[t], task[t]) /\ Linked(task'[t], task[t]) /\ Timed(t, task'[t], h[t], b[t])
  BY <1>2, FreeVoice
<1>6. QED
  BY <1>1, <1>2, <1>4, <1>5, PlainVoice

\* Nobody is told anything, and t goes on with a record that has no more in it.
LEMMA AloneVoice ==
    ASSUME Shape, NEW h \in [Tasks -> Nat], NEW b \in [Tasks -> Nodes], Voice(h, b), NEW t \in Tasks,
           \A u \in Tasks \ {t} : task'[u] = task[u], result'.out = result.out,
           Calm(task'[t], task[t]), Linked(task'[t], task[t]), Timed(t, task'[t], h[t], b[t])
    PROVE  Voices'
<1>1. \A u \in Tasks : Own(u, h[u], b[u])
  BY DEF Voice
<1>2. \A u \in Tasks : Calm(task'[u], task[u]) /\ Linked(task'[u], task[u]) /\ Timed(u, task'[u], h[u], b[u])
  BY <1>1, SelfCalm DEF Own, Linked
<1>3. QED
  BY <1>2, PlainVoice

LEMMA StreamOverVoice ==
    ASSUME Shape, Voices, NEW t \in Tasks, StreamOver(t)
    PROVE  Voices'
<1>1. CASE t = Root
  <2>1. PICK e \in {"answered", "none"} : Answered(e)
    BY <1>1 DEF StreamOver
  <2>2. QED
    BY <2>1, AnsweredVoice
<1>2. CASE t # Root /\ task[t].told > 0
  <2>1. task' = [Frame(task, t, Plain("done")) EXCEPT ![t] = Free] /\ result' = result
    BY <1>2 DEF StreamOver
  <2>2. QED
    BY <1>2, <2>1, DoneVoice
<1>3. CASE t # Root /\ ~(task[t].told > 0)
  <2>1. Over(t, {Plain("error")})
    BY <1>3 DEF StreamOver
  <2>2. QED
    BY <1>3, <2>1, OverVoice, PlainTyped
<1>4. QED
  BY <1>1, <1>2, <1>3

\* The next peer is asked only while nothing was handed on.
LEMMA BackVoice ==
    ASSUME Shape, Voices, NEW t \in Tasks, task[t].place = "waiting", task[t].told = 0,
           task' = Back(task, t), result' = result
    PROVE  Voices'
<1>1. PICK h \in [Tasks -> Nat], b \in [Tasks -> Nodes] : Voice(h, b)
  BY DEF Voices
<1>2. task[t] \in Record /\ Own(t, h[t], b[t]) /\ \A u \in Tasks \ {t} : task'[u] = task[u]
  BY <1>1 DEF Voice, Shape, Back
<1>3. /\ task'[t].place = "routing" /\ task'[t].told = 0 /\ task'[t].from = task[t].from /\ task'[t].child = Nothing
      /\ task'[t].queue = <<>> /\ task'[t].frames = <<>> /\ task'[t].loose = {}
  BY <1>2, BackOthers DEF Record
<1>4. Calm(task'[t], task[t]) /\ Linked(task'[t], task[t])
  BY <1>3, EmptyGot DEF Linked
<1>5. Timed(t, task'[t], h[t], b[t])
  BY <1>2, <1>3 DEF Own, Timed
<1>6. QED
  BY <1>1, <1>2, <1>4, <1>5, AloneVoice

LEMMA FailedVoice ==
    ASSUME Shape, Voices, NEW t \in Tasks, task[t].place = "waiting", Failed(t)
    PROVE  Voices'
<1>1. CASE Streamed(task[t].kind) /\ task[t].told > 0
  BY <1>1, StreamOverVoice DEF Failed
<1>2. CASE ~(Streamed(task[t].kind) /\ task[t].told > 0)
  <2>1. task[t].told = 0
    BY <1>2 DEF Shape, Placed, Record
  <2>2. QED
    BY <1>2, <2>1, BackVoice DEF Failed
<1>3. QED
  BY <1>1, <1>2

-----------------------------------------------------------------------------
(* The voice: a piece is handed on.                                        *)

\* Whom a task that handed nothing on has been sent nothing.
LEMMA SilentLink ==
    ASSUME NEW c \in Tasks, NEW t \in Tasks, NEW h \in [Tasks -> Nat], NEW b,
           Feeds(c, t), Link(c, t, h, b), h[c] = 0
    PROVE  h[t] = 0 /\ Got(task[t]) = {} /\ Quiet(task[t])
<1>1. h[t] \in Nat /\ h[t] <= 0 /\ Quiet(task[t]) /\ \A m \in Got(task[t]) : m.k <= 0
  BY DEF Link
<1>2. \A m \in Got(task[t]) : m.k \in Nat /\ m.k # 0
  BY PieceTyped DEF Got
<1>3. Got(task[t]) = {}
  BY <1>1, <1>2
<1>4. QED
  BY <1>1, <1>3

\* The client has nothing while its request handed nothing on.
LEMMA SilentClient ==
    ASSUME Shape, NEW x, Client(0, x), \A i \in 1 .. Len(result.out) : IsPiece(result.out[i])
    PROVE  result.out \in Seq(Messages) /\ Len(result.out) = 0
<1>1. result.out \in Seq(Messages) /\ Len(result.out) \in Nat
  BY DEF Shape
<1>2. \A i \in 1 .. Len(result.out) : result.out[i] \in Messages
  BY <1>1, ElementOfSeq
<1>3. \A i \in 1 .. Len(result.out) : result.out[i].k <= 0 /\ result.out[i].k \in Nat /\ result.out[i].k # 0
  BY <1>2, PieceTyped DEF Client
<1>4. \A i \in 1 .. Len(result.out) : FALSE
  BY <1>3
<1>5. QED
  BY <1>1, <1>4

\* While a task handed nothing on, its pieces may be anybody's.
LEMMA Rename ==
    ASSUME Shape, NEW h \in [Tasks -> Nat], NEW b \in [Tasks -> Nodes], Voice(h, b), NEW t \in Tasks, h[t] = 0,
           NEW n \in Nodes, \A m \in Got(task[t]) : m.by = n
    PROVE  \E d \in [Tasks -> Nodes] : d[t] = n /\ (\A u \in Tasks \ {t} : d[u] = b[u]) /\ Voice(h, d)
<1> DEFINE d == [b EXCEPT ![t] = n]
<1>1. d \in [Tasks -> Nodes] /\ d[t] = n /\ \A u \in Tasks \ {t} : d[u] = b[u]
  OBVIOUS
<1> HIDE DEF d
<1>2. ASSUME NEW u \in Tasks PROVE Own(u, h[u], d[u])
  <2>1. Own(u, h[u], b[u])
    BY DEF Voice
  <2>2. CASE u = t
    BY <1>1, <2>1, <2>2 DEF Own, Timed
  <2>3. QED
    BY <1>1, <2>1, <2>2
<1>3. ASSUME NEW c \in Tasks, NEW u \in Tasks, Feeds(c, u) PROVE Link(c, u, h, d)
  <2>1. Link(c, u, h, b) /\ c # u
    BY <1>3, FedWaits DEF Voice
  <2>2. CASE c = t
    <3>1. h[u] = 0 /\ Got(task[u]) = {} /\ Quiet(task[u])
      BY <1>3, <2>1, <2>2, SilentLink
    <3>2. QED
      BY <2>2, <3>1 DEF Link
  <2>3. CASE u = t
    BY <1>1, <2>1, <2>3 DEF Link
  <2>4. QED
    BY <1>1, <2>1, <2>2, <2>3 DEF Link
<1>4. \A c, u \in Tasks : Link(c, u, h, d)
  BY <1>3 DEF Link
<1>5. Client(h[Root], d[Root])
  <2>1. Client(h[Root], b[Root]) /\ Root \in Tasks
    BY DEF Voice, Tasks
  <2>2. CASE Root = t
    <3>1. Len(result.out) = 0
      BY <2>1, <2>2, SilentClient DEF Voice
    <3>2. QED
      BY <3>1 DEF Client
  <2>3. QED
    BY <1>1, <2>1, <2>2
<1>6. Voice(h, d)
  BY <1>2, <1>4, <1>5 DEF Voice
<1>7. QED
  BY <1>1, <1>6

\* A task and whom it works for speak of the same node.
LEMMA Agree ==
    ASSUME Shape, NEW h \in [Tasks -> Nat], NEW b \in [Tasks -> Nodes], Voice(h, b), NEW t \in Tasks
    PROVE  \E d \in [Tasks -> Nodes] :
              d[t] = b[t] /\ Voice(h, d) /\ \A u \in Tasks : Feeds(t, u) => d[u] = d[t]
<1>1. CASE \A u \in Tasks : ~Feeds(t, u)
  BY <1>1
<1>2. CASE \E u \in Tasks : Feeds(t, u)
  <2>1. PICK u \in Tasks : Feeds(t, u)
    BY <1>2
  <2>2. u # t /\ (\A x \in Tasks : Feeds(t, x) => x = u) /\ Link(t, u, h, b) /\ h[u] \in Nat /\ b[t] \in Nodes
    BY <2>1, FedWaits DEF Feeds, Voice
  <2>3. CASE h[u] > 0
    BY <2>1, <2>2, <2>3 DEF Link
  <2>4. CASE h[u] = 0
    <3>1. \A m \in Got(task[u]) : m.by = b[t]
      BY <2>1, <2>2 DEF Link
    <3>2. PICK d \in [Tasks -> Nodes] : d[u] = b[t] /\ (\A x \in Tasks \ {u} : d[x] = b[x]) /\ Voice(h, d)
      BY <2>2, <2>4, <3>1, Rename
    <3>3. QED
      BY <2>2, <3>2
  <2>5. QED
    BY <2>2, <2>3, <2>4
<1>3. QED
  BY <1>1, <1>2

\* What t hands to whom it works for: m, after which it is ts[t].
LEMMA HandVoice ==
    ASSUME Shape, NEW h \in [Tasks -> Nat], NEW b \in [Tasks -> Nodes], Voice(h, b), NEW t \in Tasks \ {Root},
           NEW m \in Messages, IsPiece(m), m.by = b[t], m.k > h[t],
           task[t].place = "waiting" => m \in Got(task[t]),
           NEW ts \in [Tasks -> Record], \A u \in Tasks \ {t} : ts[u] = task[u],
           Calm(ts[t], task[t]), Linked(ts[t], task[t]), \A x \in Got(ts[t]) : x.k > m.k,
           Timed(t, ts[t], m.k, b[t]),
           task' = Frame(ts, t, m), result' = result
    PROVE  Voices'
<1>1. PICK d \in [Tasks -> Nodes] : d[t] = b[t] /\ Voice(h, d) /\ \A u \in Tasks : Feeds(t, u) => d[u] = d[t]
  BY Agree
<1>2. /\ t \in Tasks /\ Root \in Tasks /\ m.k \in Nat /\ m.by = d[t] /\ h[t] \in Nat
      /\ \A u \in Tasks : h[u] \in Nat /\ task[u] \in Record
  BY <1>1, PieceTyped DEF Tasks, Shape
<1>3. PICK g \in [Tasks -> Nat] : g[t] = m.k /\ \A u \in Tasks \ {t} : g[u] = h[u]
  <2>1. [h EXCEPT ![t] = m.k] \in [Tasks -> Nat]
    BY <1>2
  <2>2. QED
    BY <1>2, <2>1
<1>4. ~Feeds(t, t) /\ \A c, u \in Tasks : Feeds(t, u) /\ Feeds(c, u) => c = t
  BY <1>2, FedWaits
<1>5. /\ task'[t] = ts[t]
      /\ \A u \in Tasks \ {t} : ~Feeds(t, u) => task'[u] = task[u]
      /\ \A u \in Tasks \ {t} : Feeds(t, u) => task'[u] = [task[u] EXCEPT !.frames = Append(@, m)]
  <2>1. Frame(ts, t, m) =
          [u \in Tasks |-> IF Feeds(t, u) THEN [ts[u] EXCEPT !.frames = Append(@, m)] ELSE ts[u]]
    BY <1>2, FrameIs
  <2>2. QED
    BY <1>2, <1>4, <2>1
<1>6. \A u \in Tasks : Own(u, h[u], d[u])
  BY <1>1 DEF Voice
<1>7. \A c, u \in Tasks : Link(c, u, h, d)
  BY <1>1 DEF Voice
<1>8. ASSUME NEW u \in Tasks, Feeds(t, u)
      PROVE  /\ u # t /\ Own(u, g[u], d[u])'
             /\ Quiet(task'[u]) /\ Got(task'[u]) = Got(task[u]) \cup {m}
             /\ Same(task'[u], task[u])
  <2>1. u # t /\ d[u] = d[t] /\ Quiet(task[u]) /\ h[u] <= h[t] /\ \A x \in Got(task[u]) : x.k <= h[t] /\ x.by = d[t]
    BY <1>1, <1>2, <1>4, <1>7, <1>8 DEF Link
  <2>2. \A x \in Got(task[u]) : x.k \in Nat
    BY PieceTyped DEF Got
  <2>3. Ordered(task[u]) /\ Timed(u, task[u], h[u], d[u]) /\ \A x \in Got(task[u]) : x.k > h[u]
    BY <1>6 DEF Own
  <2>4. \A x \in Got(task[u]) : x.k < m.k
    BY <1>2, <2>1, <2>2
  <2>5. Ordered(task'[u]) /\ Got(task'[u]) = Got(task[u]) \cup {m} /\ Quiet(task'[u])
    <3>1. task'[u] = [task[u] EXCEPT !.frames = Append(@, m)] /\ task[u] \in Record
      BY <1>2, <1>5, <1>8, <2>1
    <3>2. /\ Ordered([task[u] EXCEPT !.frames = Append(@, m)])
          /\ Got([task[u] EXCEPT !.frames = Append(@, m)]) = Got(task[u]) \cup {m}
          /\ Quiet([task[u] EXCEPT !.frames = Append(@, m)])
      BY <2>1, <2>3, <2>4, <3>1, PieceFrame
    <3>3. QED
      BY <3>1, <3>2
  <2>6. Same(task'[u], task[u])
    <3>1. \A r \in Record : Same([r EXCEPT !.frames = Append(@, m)], r)
      BY DEF Same, Record
    <3>2. QED
      BY <1>2, <1>5, <1>8, <2>1, <3>1
  <2>7. Timed(u, task'[u], h[u], d[u])
    BY <2>3, <2>6, SameTimed
  <2>8. g[u] = h[u] /\ m.k > h[u] /\ m.by = d[u]
    BY <1>2, <1>3, <2>1
  <2>9. Own(u, g[u], d[u])'
    BY <2>1, <2>3, <2>5, <2>7, <2>8 DEF Own
  <2>10. QED
    BY <2>1, <2>5, <2>6, <2>9
<1>9. Own(t, g[t], d[t])'
  <2>1. \A x \in Got(task[t]) : x.by = d[t]
    BY <1>2, <1>6 DEF Own
  <2>2. QED
    BY <1>1, <1>2, <1>3, <1>5, <2>1 DEF Own, Calm
<1>10. ASSUME NEW u \in Tasks \ {t}, ~Feeds(t, u) PROVE Own(u, g[u], d[u])'
  BY <1>3, <1>5, <1>6, <1>10 DEF Own
<1>11. \A u \in Tasks : Own(u, g[u], d[u])'
  BY <1>8, <1>9, <1>10
<1>12. \A u \in Tasks : Linked(task'[u], task[u])
  BY <1>5, <1>8 DEF Linked, Same
<1>13. ASSUME NEW c \in Tasks, NEW u \in Tasks, Feeds(c, u)' PROVE Link(c, u, g, d)'
  <2>1. Feeds(c, u)
    BY <1>12, <1>13, TasksAssumption DEF Feeds, Linked, Tasks
  <2>2. Link(c, u, h, d) /\ c # u /\ task[u].place = "waiting"
    BY <1>7, <2>1, FedWaits
  <2>3. CASE c = t
    <3>1. u # t /\ g[u] = h[u] /\ d[u] = d[t] /\ Quiet(task'[u]) /\ Got(task'[u]) = Got(task[u]) \cup {m}
      BY <1>1, <1>3, <1>8, <2>1, <2>2, <2>3
    <3>2. h[u] <= h[t] /\ \A x \in Got(task[u]) : x.k <= h[t] /\ x.by = d[t] /\ x.k \in Nat
      BY <2>1, <2>2, <2>3, PieceTyped DEF Link, Got
    <3>3. g[u] <= g[t] /\ \A x \in Got(task[u]) : x.k <= g[t]
      BY <1>2, <1>3, <3>1, <3>2
    <3>4. m.k <= g[t]
      BY <1>2, <1>3
    <3>5. QED
      BY <1>2, <2>3, <3>1, <3>2, <3>3, <3>4 DEF Link
  <2>4. CASE u = t
    <3>1. m \in Got(task[t]) /\ Quiet(task'[t]) /\ Got(task'[t]) \subseteq Got(task[t])
      BY <1>5, <2>1, <2>2, <2>4 DEF Link, Calm
    <3>2. m.k <= h[c] /\ m.by = d[c] /\ \A x \in Got(task[t]) : x.k <= h[c] /\ x.by = d[c]
      BY <2>1, <2>2, <2>4, <3>1 DEF Link
    <3>3. g[c] = h[c] /\ g[t] = m.k /\ d[t] = d[c]
      BY <1>2, <1>3, <2>2, <2>4, <3>2
    <3>4. QED
      BY <2>4, <3>1, <3>2, <3>3 DEF Link
  <2>5. CASE c # t /\ u # t
    <3>1. ~Feeds(t, u) /\ task'[u] = task[u] /\ g[c] = h[c] /\ g[u] = h[u]
      BY <1>3, <1>4, <1>5, <2>1, <2>5
    <3>2. QED
      BY <2>1, <2>2, <3>1 DEF Link
  <2>6. QED
    BY <2>3, <2>4, <2>5
<1>14. \A c, u \in Tasks : Link(c, u, g, d)'
  BY <1>13 DEF Link
<1>15. Client(g[Root], d[Root])' /\ OneVoice' /\ \A i \in 1 .. Len(result'.out) : IsPiece(result'.out[i])
  <2>1. g[Root] = h[Root]
    BY <1>2, <1>3
  <2>2. QED
    BY <1>1, <2>1 DEF Voice, Client, OneVoice
<1>16. Voice(g, d)'
  BY <1>11, <1>14, <1>15 DEF Voice
<1>17. QED
  BY <1>16 DEF Voices

\* The client is handed m, which its request had been sent.
LEMMA HeardVoice ==
    ASSUME Shape, NEW h \in [Tasks -> Nat], NEW b \in [Tasks -> Nodes], Voice(h, b),
           NEW m \in Got(task[Root]),
           \A u \in Tasks \ {Root} : task'[u] = task[u],
           Calm(task'[Root], task[Root]), Linked(task'[Root], task[Root]), \A x \in Got(task'[Root]) : x.k > m.k,
           Timed(Root, task'[Root], m.k, b[Root]),
           result'.out = Append(result.out, m)
    PROVE  Voices'
<1>1. /\ Root \in Tasks /\ m \in Messages /\ IsPiece(m) /\ m.k \in Nat
      /\ \A u \in Tasks : h[u] \in Nat /\ b[u] \in Nodes
  BY PieceTyped DEF Tasks, Got
<1>2. PICK g \in [Tasks -> Nat] : g[Root] = m.k /\ \A u \in Tasks \ {Root} : g[u] = h[u]
  <2>1. [h EXCEPT ![Root] = m.k] \in [Tasks -> Nat]
    BY <1>1
  <2>2. QED
    BY <1>1, <2>1
<1>3. \A u \in Tasks : Own(u, h[u], b[u])
  BY DEF Voice
<1>4. m.by = b[Root] /\ m.k > h[Root]
  BY <1>1, <1>3 DEF Own
<1>5. \A u \in Tasks : Own(u, g[u], b[u])'
  <2>1. Own(Root, g[Root], b[Root])'
    BY <1>1, <1>2, <1>3 DEF Own, Calm
  <2>2. ASSUME NEW u \in Tasks \ {Root} PROVE Own(u, g[u], b[u])'
    BY <1>2, <1>3 DEF Own
  <2>3. QED
    BY <2>1, <2>2
<1>6. \A u \in Tasks : Linked(task'[u], task[u])
  BY DEF Linked
<1>7. ASSUME NEW c \in Tasks, NEW u \in Tasks, Feeds(c, u)' PROVE Link(c, u, g, b)'
  <2>1. Feeds(c, u)
    BY <1>6, <1>7, TasksAssumption DEF Feeds, Linked, Tasks
  <2>2. Link(c, u, h, b) /\ c \in Hops
    BY <2>1, FedWaits DEF Voice
  <2>3. Quiet(task[u]) /\ h[u] <= h[c] /\ (h[u] > 0 => b[u] = b[c]) /\ \A x \in Got(task[u]) : x.k <= h[c] /\ x.by = b[c]
    BY <2>1, <2>2 DEF Link
  <2>4. g[c] = h[c]
    BY <1>2, <2>2, TasksAssumption DEF Tasks
  <2>5. CASE u = Root
    <3>1. Quiet(task'[Root]) /\ Got(task'[Root]) \subseteq Got(task[Root])
      BY <2>3, <2>5 DEF Calm
    <3>2. \A x \in Got(task'[Root]) : x.k <= g[c] /\ x.by = b[c]
      BY <2>3, <2>4, <2>5, <3>1
    <3>3. g[Root] <= g[c] /\ b[Root] = b[c]
      BY <1>2, <1>4, <2>3, <2>4, <2>5
    <3>4. QED
      BY <2>5, <3>1, <3>2, <3>3 DEF Link
  <2>6. CASE u # Root
    <3>1. task'[u] = task[u] /\ g[u] = h[u]
      BY <1>2, <2>6
    <3>2. QED
      BY <2>3, <2>4, <3>1 DEF Link
  <2>7. QED
    BY <2>5, <2>6
<1>8. \A c, u \in Tasks : Link(c, u, g, b)'
  BY <1>7 DEF Link
<1>9. /\ result.out \in Seq(Messages) /\ Client(h[Root], b[Root]) /\ OneVoice
      /\ \A i \in 1 .. Len(result.out) : IsPiece(result.out[i]) /\ result.out[i] \in Messages
  BY ElementOfSeq DEF Voice, Shape
<1>10. /\ Len(result.out) \in Nat /\ Len(result'.out) = Len(result.out) + 1
       /\ \A i \in 1 .. Len(result.out) : result'.out[i] = result.out[i]
       /\ result'.out[Len(result.out) + 1] = m
  BY <1>1, <1>9, AppendIs
<1>11. \A i \in 1 .. Len(result.out) :
          /\ result'.out[i].by = b[Root] /\ result'.out[i].k < m.k
          /\ IsPiece(result'.out[i])
  <2>1. \A i \in 1 .. Len(result.out) : result.out[i].by = b[Root] /\ result.out[i].k <= h[Root] /\ result.out[i].k \in Nat
    BY <1>9, PieceTyped DEF Client
  <2>2. QED
    BY <1>1, <1>4, <1>9, <1>10, <2>1
<1>12. \A i \in 1 .. Len(result'.out) : i \in 1 .. Len(result.out) \/ i = Len(result.out) + 1
  BY <1>10
<1>13. Client(g[Root], b[Root])' /\ \A i \in 1 .. Len(result'.out) : IsPiece(result'.out[i])
  <2>1. \A i \in 1 .. Len(result.out) : result'.out[i].k <= m.k
    BY <1>1, <1>9, <1>10, <1>11, PieceTyped
  <2>2. QED
    BY <1>1, <1>2, <1>4, <1>10, <1>11, <1>12, <2>1 DEF Client
<1>14. OneVoice'
  <2>1. SUFFICES ASSUME NEW i \in 1 .. Len(result'.out), NEW j \in 1 .. Len(result'.out), i < j
                 PROVE  result'.out[i].by = result'.out[j].by /\ result'.out[i].k < result'.out[j].k
    BY DEF OneVoice
  <2>2. i \in 1 .. Len(result.out)
    BY <1>10, <2>1
  <2>3. CASE j \in 1 .. Len(result.out)
    BY <1>9, <1>10, <2>1, <2>2, <2>3 DEF OneVoice
  <2>4. CASE j = Len(result.out) + 1
    BY <1>4, <1>10, <1>11, <2>2, <2>4
  <2>5. QED
    BY <1>12, <2>3, <2>4
<1>15. Voice(g, b)'
  BY <1>5, <1>8, <1>13, <1>14 DEF Voice
<1>16. QED
  BY <1>15 DEF Voices

LEMMA TakePieceVoice == ASSUME Shape, Voices, NEW t \in Tasks, TakePiece(t) PROVE Voices'
<1> DEFINE m == Head(task[t].queue)
           r == [task[t] EXCEPT !.queue = Tail(task[t].queue), !.told = task[t].told + 1]
           ts == [task EXCEPT ![t] = r]
<1>1. PICK h \in [Tasks -> Nat], b \in [Tasks -> Nodes] : Voice(h, b)
  BY DEF Voices
<1>2. /\ task \in [Tasks -> Record] /\ task[t] \in Record /\ task[t].place = "waiting" /\ task[t].queue # <<>>
      /\ task[t].queue \in Seq(Messages) /\ task[t].told \in Nat /\ Own(t, h[t], b[t])
  BY <1>1 DEF Shape, TakePiece, Comes, Voice, Record
<1>3. /\ m \in Messages /\ Tail(task[t].queue) \in Seq(Messages) /\ IsPiece(m)
  BY <1>2, TailIs DEF TakePiece, Comes, IsPiece
<1>4. /\ r \in Record /\ r.queue = Tail(task[t].queue) /\ r.frames = task[t].frames /\ r.loose = task[t].loose
      /\ r.place = "waiting" /\ r.told = task[t].told + 1 /\ r.from = task[t].from /\ r.child = task[t].child
  <2>1. task[t].told + 1 \in Nat
    BY <1>2
  <2>2. r \in Record
    BY <1>2, <1>3, <2>1 DEF Record
  <2>3. QED
    BY <1>2, <2>2 DEF Record
<1>5. ts = [task EXCEPT ![t].queue = Tail(@), ![t].told = @ + 1]
  BY <1>2
<1>6. IF t = Root THEN task' = ts /\ result' = [result EXCEPT !.out = Append(@, m)]
      ELSE task' = Frame(ts, t, m) /\ UNCHANGED result
  BY <1>5 DEF TakePiece
<1> HIDE DEF r
<1>7. ts \in [Tasks -> Record] /\ ts[t] = r /\ \A u \in Tasks \ {t} : ts[u] = task[u]
  BY <1>2, <1>4
<1> HIDE DEF ts
<1>8. Calm(r, task[t]) /\ m \in Got(task[t]) /\ \A x \in Got(r) : x.k > m.k
  BY <1>2, <1>3, <1>4, TakenCalm DEF Own
<1>9. Linked(r, task[t]) /\ r.place = "waiting" /\ r.told # 0
  BY <1>2, <1>4 DEF Linked
<1>10. m.by = b[t] /\ m.k > h[t]
  BY <1>2, <1>8 DEF Own
<1> HIDE DEF m
<1>11. \A x, y : Timed(t, r, x, y)
  BY <1>9 DEF Timed
<1>12. CASE t = Root
  <2>1. task' = ts /\ result'.out = Append(result.out, m)
    BY <1>6, <1>12 DEF Shape
  <2>2. QED
    BY <1>1, <1>7, <1>8, <1>9, <1>11, <1>12, <2>1, HeardVoice
<1>13. CASE t # Root
  <2>1. task' = Frame(ts, t, m) /\ result' = result
    BY <1>6, <1>13
  <2>2. QED
    BY <1>1, <1>3, <1>7, <1>8, <1>9, <1>10, <1>11, <1>13, <2>1, HandVoice
<1>14. QED
  BY <1>12, <1>13

-----------------------------------------------------------------------------
(* The voice: the actions.                                                 *)

\* A task that waits for nobody has been sent nothing.
LEMMA IdleEmpty ==
    ASSUME Shape, NEW t \in Tasks, task[t].place # "waiting"
    PROVE  /\ task[t].queue = <<>> /\ task[t].frames = <<>> /\ task[t].loose = {} /\ task[t].child = Nothing
           /\ task[t].told = 0
           /\ Ordered(task[t]) /\ Got(task[t]) = {} /\ Quiet(task[t])
<1>1. task[t].queue = <<>> /\ task[t].frames = <<>> /\ task[t].loose = {} /\ task[t].child = Nothing /\ task[t].told = 0
  BY DEF Shape, Placed
<1>2. QED
  BY <1>1, EmptyGot

LEMMA GenerateVoice == ASSUME Shape, Voices, NEW t \in Tasks, Generate(t) PROVE Voices'
<1> DEFINE k == task[t].made + 1
           m == Piece(task[t].at, k)
           r == [task[t] EXCEPT !.made = k]
           ts == [task EXCEPT ![t] = r]
<1>1. /\ task \in [Tasks -> Record] /\ task[t] \in Record /\ Placed(t, task[t])
      /\ task[t].place = "serving" /\ task[t].kind = "stream"
      /\ task[t].made \in Nat /\ task[t].made < Chunks /\ t # Root /\ task[t].at \in Nodes
  BY DEF Shape, Generate, Record, Placed
<1>2. k \in 1 .. Chunks /\ k \in Nat
  BY <1>1, BoundsAssumption
<1>3. m \in Messages /\ IsPiece(m) /\ m.by = task[t].at /\ m.k = k
  BY <1>1, <1>2, PlainTyped
<1> HIDE DEF m
<1>4. /\ r \in Record /\ r.queue = task[t].queue /\ r.frames = task[t].frames /\ r.loose = task[t].loose
      /\ r.place = "serving" /\ r.told = task[t].told /\ r.from = task[t].from /\ r.child = task[t].child
      /\ r.at = task[t].at /\ r.made = k
  <2>1. r \in Record
    BY <1>1, <1>2 DEF Record
  <2>2. QED
    BY <1>1, <2>1 DEF Record
<1> HIDE DEF r
<1>5. ts \in [Tasks -> Record] /\ ts[t] = r /\ \A u \in Tasks \ {t} : ts[u] = task[u]
  BY <1>1, <1>4
<1> HIDE DEF ts
<1>6. task' = Frame(ts, t, m) /\ result' = result
  <2>1. [Frame(task, t, m) EXCEPT ![t].made = k] = Frame(ts, t, m)
    <3>1. Frame(task, t, m) =
            [u \in Tasks |-> IF Feeds(t, u) THEN [task[u] EXCEPT !.frames = Append(@, m)] ELSE task[u]]
      BY <1>1, FrameIs
    <3>2. Frame(ts, t, m) =
            [u \in Tasks |-> IF Feeds(t, u) THEN [ts[u] EXCEPT !.frames = Append(@, m)] ELSE ts[u]]
      BY <1>5, FrameIs
    <3>3. ~Feeds(t, t)
      BY FedWaits
    <3>4. Frame(ts, t, m)[t] = r /\ Frame(task, t, m)[t] = task[t]
      BY <1>5, <3>1, <3>2, <3>3
    <3>5. \A u \in Tasks \ {t} : Frame(ts, t, m)[u] = Frame(task, t, m)[u]
      BY <1>5, <3>1, <3>2, ZenonT(60)
    <3>6. [Frame(task, t, m) EXCEPT ![t].made = k] = [Frame(task, t, m) EXCEPT ![t] = r]
      BY <3>4 DEF r
    <3> DEFINE F == Frame(task, t, m)
               G == Frame(ts, t, m)
    <3>7. F = [u \in Tasks |-> F[u]] /\ G = [u \in Tasks |-> G[u]]
      BY <3>1, <3>2
    <3>8. G[t] = r /\ \A u \in Tasks \ {t} : G[u] = F[u]
      BY <3>4, <3>5
    <3> HIDE DEF F, G
    <3>9. [F EXCEPT ![t] = r] = G
      BY <3>7, <3>8
    <3>10. QED
      BY <3>6, <3>9 DEF F, G
  <2>2. QED
    BY <2>1 DEF Generate, m
<1> HIDE DEF k
<1>7. PICK h \in [Tasks -> Nat], a \in [Tasks -> Nodes] : Voice(h, a)
  BY DEF Voices
<1>8. h[t] = task[t].made /\ (h[t] > 0 => a[t] = task[t].at) /\ Got(task[t]) = {} /\ h[t] \in Nat
  BY <1>1, <1>7, IdleEmpty DEF Voice, Own, Timed
<1>9. PICK b \in [Tasks -> Nodes] : Voice(h, b) /\ b[t] = task[t].at
  <2>1. CASE h[t] = 0
    <3>1. \A x \in Got(task[t]) : x.by = task[t].at
      BY <1>8
    <3>2. task[t].at \in Nodes
      BY <1>1
    <3>3. \E d \in [Tasks -> Nodes] : d[t] = task[t].at /\ (\A u \in Tasks \ {t} : d[u] = a[u]) /\ Voice(h, d)
      BY <1>7, <2>1, <3>1, <3>2, Rename
    <3>4. QED
      BY <3>3
  <2>2. CASE h[t] > 0
    BY <1>7, <1>8, <2>2
  <2>3. QED
    BY <1>8, <2>1, <2>2
<1>10. Calm(r, task[t]) /\ Got(r) = {} /\ Linked(r, task[t])
  <2>1. r.queue = <<>> /\ r.frames = <<>> /\ r.loose = {}
    BY <1>1, <1>4, IdleEmpty
  <2>2. QED
    BY <1>4, <2>1, EmptyGot DEF Linked
<1>11. Timed(t, r, m.k, b[t])
  BY <1>1, <1>3, <1>4, <1>9 DEF Timed
<1>12. m.k > h[t] /\ m.by = b[t]
  BY <1>1, <1>2, <1>3, <1>8, <1>9 DEF k
<1>13. QED
  BY <1>1, <1>3, <1>5, <1>6, <1>9, <1>10, <1>11, <1>12, HandVoice

\* The answer of a call with tools comes at once.
LEMMA ToolsVoice ==
    ASSUME Shape, Voices, NEW t \in Tasks, task[t].place = "serving", task[t].kind = "tools",
           Over(t, {Piece(task[t].at, 1), Plain("done")})
    PROVE  Voices'
<1> DEFINE m == Piece(task[t].at, 1)
           e == Plain("done")
           ms == {m, e}
<1>1. /\ task \in [Tasks -> Record] /\ task[t] \in Record /\ Placed(t, task[t]) /\ t # Root
      /\ task[t].at \in Nodes /\ task[t].made = 0
  BY DEF Shape, Placed
<1>2. m \in Messages /\ IsPiece(m) /\ m.by = task[t].at /\ m.k = 1 /\ e \in Messages /\ ~IsPiece(e)
  BY <1>1, PlainTyped, BoundsAssumption
<1>3. Over(t, ms)
  OBVIOUS
<1> HIDE DEF m, e, ms
<1>4. PICK h \in [Tasks -> Nat], a \in [Tasks -> Nodes] : Voice(h, a)
  BY DEF Voices
<1>5. h[t] = 0
  BY <1>1, <1>4 DEF Voice, Own, Timed
<1>6. \A u \in Tasks : Feeds(t, u) => u # t /\ Quiet(task[u]) /\ h[u] = 0 /\ Got(task[u]) = {}
  <2>1. SUFFICES ASSUME NEW u \in Tasks, Feeds(t, u)
                 PROVE  u # t /\ Quiet(task[u]) /\ h[u] = 0 /\ Got(task[u]) = {}
    OBVIOUS
  <2>2. Link(t, u, h, a)
    BY <1>4 DEF Voice
  <2>3. h[u] = 0 /\ Got(task[u]) = {} /\ Quiet(task[u])
    BY <1>5, <2>1, <2>2, SilentLink
  <2>4. QED
    BY <2>1, <2>3, FedWaits
<1>7. PICK b \in [Tasks -> Nodes] : Voice(h, b) /\ \A u \in Tasks : Feeds(t, u) => b[u] = task[t].at
  <2>1. CASE \A u \in Tasks : ~Feeds(t, u)
    BY <1>4, <2>1
  <2>2. CASE \E u \in Tasks : Feeds(t, u)
    <3>1. PICK u \in Tasks : Feeds(t, u)
      BY <2>2
    <3>2. h[u] = 0 /\ (\A x \in Got(task[u]) : x.by = task[t].at) /\ \A x \in Tasks : Feeds(t, x) => x = u
      BY <1>6, <3>1 DEF Feeds
    <3>3. \E d \in [Tasks -> Nodes] : d[u] = task[t].at /\ (\A x \in Tasks \ {u} : d[x] = a[x]) /\ Voice(h, d)
      BY <1>1, <1>4, <3>2, Rename
    <3>4. QED
      BY <3>2, <3>3
  <2>3. QED
    BY <2>1, <2>2
<1>8. /\ task'[t] = Free /\ result' = result
      /\ \A u \in Tasks \ {t} : ~Feeds(t, u) => task'[u] = task[u]
      /\ \A u \in Tasks \ {t} : Feeds(t, u) => task'[u] = [task[u] EXCEPT !.loose = @ \cup ms]
  <2>1. Loose(task, t, ms) =
          [u \in Tasks |-> IF Feeds(t, u) THEN [task[u] EXCEPT !.loose = @ \cup ms] ELSE task[u]]
    BY LooseIs, SMTT(30) DEF Shape
  <2>2. task'[t] = Free
    BY <1>3, OverOthers
  <2>3. QED
    BY <1>3, <2>1, <2>2 DEF Over
<1>9. \A u \in Tasks : Own(u, h[u], b[u]) /\ task[u] \in Record
  BY <1>1, <1>7 DEF Voice
<1>10. ASSUME NEW u \in Tasks, Feeds(t, u) PROVE Own(u, h[u], b[u])' /\ Same(task'[u], task[u])
  <2>1. task'[u] = [task[u] EXCEPT !.loose = @ \cup ms] /\ Got(task[u]) = {} /\ h[u] = 0 /\ b[u] = task[t].at
    BY <1>6, <1>7, <1>8, <1>10
  <2>2. Ordered(task[u]) /\ Timed(u, task[u], h[u], b[u])
    BY <1>9 DEF Own
  <2>3. Ordered(task'[u]) /\ Got(task'[u]) = {m}
    <3>1. /\ Ordered([task[u] EXCEPT !.loose = @ \cup ms])
          /\ Got([task[u] EXCEPT !.loose = @ \cup ms]) = {m}
      BY <1>2, <1>9, <2>1, <2>2, PieceLoose DEF ms
    <3>2. QED
      BY <2>1, <3>1
  <2>4. Same(task'[u], task[u])
    <3>1. \A r \in Record : Same([r EXCEPT !.loose = @ \cup ms], r)
      BY DEF Same, Record
    <3>2. QED
      BY <1>9, <2>1, <3>1
  <2>5. Timed(u, task'[u], h[u], b[u])
    BY <2>2, <2>4, SameTimed
  <2>6. \A x \in Got(task'[u]) : x.by = b[u] /\ x.k > h[u]
    <3>1. m.by = b[u] /\ m.k > h[u]
      BY <1>2, <2>1
    <3>2. QED
      BY <2>3, <3>1
  <2>7. QED
    BY <2>3, <2>4, <2>5, <2>6 DEF Own
<1>11. Own(t, h[t], b[t])'
  <2>1. Free.queue = <<>> /\ Free.frames = <<>> /\ Free.loose = {}
    BY DEF Free
  <2>2. Ordered(Free) /\ Got(Free) = {} /\ Timed(t, Free, h[t], b[t])
    BY <1>1, <2>1, EmptyGot, FreeVoice
  <2>3. QED
    BY <1>8, <2>2 DEF Own
<1>12. ASSUME NEW u \in Tasks \ {t}, ~Feeds(t, u) PROVE Own(u, h[u], b[u])'
  BY <1>8, <1>9, <1>12 DEF Own
<1>13. \A u \in Tasks : Own(u, h[u], b[u])'
  BY <1>10, <1>11, <1>12
<1>14. ASSUME NEW c \in Tasks, NEW u \in Tasks, Feeds(c, u)' PROVE Link(c, u, h, b)'
  <2>1. c # t /\ u # t
    BY <1>8, <1>14, TasksAssumption DEF Feeds, Free, Tasks
  <2>2. task'[c].from = task[c].from /\ task'[u].child = task[u].child
    BY <1>8, <1>10, <2>1 DEF Same
  <2>3. Feeds(c, u) /\ ~Feeds(t, u)
    BY <1>14, <2>1, <2>2 DEF Feeds
  <2>4. task'[u] = task[u] /\ Link(c, u, h, b)
    BY <1>7, <1>8, <2>1, <2>3 DEF Voice
  <2>5. QED
    BY <2>3, <2>4 DEF Link
<1>15. \A c, u \in Tasks : Link(c, u, h, b)'
  BY <1>14 DEF Link
<1>16. Client(h[Root], b[Root])' /\ OneVoice' /\ \A i \in 1 .. Len(result'.out) : IsPiece(result'.out[i])
  BY <1>7, <1>8 DEF Voice, Client, OneVoice
<1>17. Voice(h, b)'
  BY <1>13, <1>15, <1>16 DEF Voice
<1>18. QED
  BY <1>17 DEF Voices

\* The record of one task changes, which held nothing and handed nothing on.
LEMMA TurnVoice ==
    ASSUME Shape, Voices, NEW t \in Tasks, NEW r,
           task[t].place \in {"sent", "routing"} \/ (t = Root /\ task[t].place = "free"),
           r.from = task[t].from, r.child = Nothing, r.queue = <<>>, r.frames = <<>>, r.loose = {},
           r.place = "serving" => r.made = 0,
           task'[t] = r, \A u \in Tasks \ {t} : task'[u] = task[u], result' = result
    PROVE  Voices'
<1>1. PICK h \in [Tasks -> Nat], b \in [Tasks -> Nodes] : Voice(h, b)
  BY DEF Voices
<1>2. Own(t, h[t], b[t]) /\ task[t].told = 0
  BY <1>1, IdleEmpty DEF Voice
<1>3. h[t] = 0
  BY <1>2 DEF Own, Timed
<1>4. Calm(r, task[t]) /\ Linked(r, task[t])
  BY EmptyGot DEF Linked
<1>5. Timed(t, r, h[t], b[t])
  BY <1>3 DEF Timed
<1>6. QED
  BY <1>1, <1>4, <1>5, AloneVoice

LEMMA AskVoice == ASSUME Shape, Voices, NEW k \in Kinds, Ask(k) PROVE Voices'
<1>1. /\ task \in [Tasks -> Record] /\ Root \in Tasks /\ task[Root].place = "free" /\ task[Root].from = Nothing
      /\ result' = result
  BY DEF Shape, Placed, Ask, Tasks
<1> DEFINE a == [Free EXCEPT !.at = Origin, !.kind = k, !.place = "routing", !.todo = Believed[Origin]]
<1>2. /\ a.from = Nothing /\ a.child = Nothing /\ a.queue = <<>> /\ a.frames = <<>> /\ a.loose = {} /\ a.made = 0
      /\ a.place = "routing"
  BY DEF Free
<1>3. a \in [at : {a.at}, kind : {a.kind}, from : {a.from}, place : {a.place}, todo : {a.todo}, to : {a.to},
             child : {a.child}, queue : {a.queue}, frames : {a.frames}, loose : {a.loose},
             told : {a.told}, made : {a.made}]
  BY DEF Free
<1> DEFINE s == [a EXCEPT !.place = "serving"]
           f(m) == [a EXCEPT !.todo = {m}]
<1>4. \/ task' = [task EXCEPT ![Root] = s] \/ task' = [task EXCEPT ![Root] = a]
      \/ \E m \in Nodes : task' = [task EXCEPT ![Root] = f(m)]
  BY DEF Ask
<1> HIDE DEF a
<1>5. /\ s.from = Nothing /\ s.child = Nothing /\ s.queue = <<>> /\ s.frames = <<>> /\ s.loose = {} /\ s.made = 0
  BY <1>2, <1>3
<1>6. ASSUME NEW m PROVE
      /\ f(m).from = Nothing /\ f(m).child = Nothing /\ f(m).queue = <<>> /\ f(m).frames = <<>> /\ f(m).loose = {}
      /\ f(m).made = 0
  BY <1>2, <1>3
<1> HIDE DEF s, f
<1>7. PICK r : /\ r.from = Nothing /\ r.child = Nothing /\ r.queue = <<>> /\ r.frames = <<>> /\ r.loose = {} /\ r.made = 0
               /\ task' = [task EXCEPT ![Root] = r]
  BY <1>2, <1>4, <1>5, <1>6
<1>8. task'[Root] = r /\ \A u \in Tasks \ {Root} : task'[u] = task[u]
  BY <1>1, <1>7
<1>9. QED
  BY <1>1, <1>7, <1>8, TurnVoice

LEMMA AdmitVoice == ASSUME Shape, Voices, NEW t \in Tasks, Admit(t) PROVE Voices'
<1>1. /\ task \in [Tasks -> Record] /\ task[t] \in Record /\ task[t].place = "sent" /\ task[t].made = 0
      /\ result' = result
  BY DEF Shape, Placed, Admit
<1>2. task[t].queue = <<>> /\ task[t].frames = <<>> /\ task[t].loose = {} /\ task[t].child = Nothing
  BY <1>1, IdleEmpty
<1> DEFINE s == [task[t] EXCEPT !.place = "serving"]
           r == [task[t] EXCEPT !.place = "routing", !.todo = Believed[task[t].at]]
<1>3. task'[t] \in {s, r} /\ \A u \in Tasks \ {t} : task'[u] = task[u]
  BY <1>1 DEF Admit
<1>4. /\ s.from = task[t].from /\ s.child = Nothing /\ s.queue = <<>> /\ s.frames = <<>> /\ s.loose = {} /\ s.made = 0
      /\ r.from = task[t].from /\ r.child = Nothing /\ r.queue = <<>> /\ r.frames = <<>> /\ r.loose = {} /\ r.made = 0
  BY <1>1, <1>2 DEF Record
<1> HIDE DEF s, r
<1>5. QED
  BY <1>1, <1>3, <1>4, TurnVoice

\* A task whose handler ends or whose client's request does, with a plain message.
LEMMA EndVoice ==
    ASSUME Shape, Voices, NEW t \in Tasks, NEW w \in {"done", "error", "response"}, NEW e,
           IF t = Root THEN Answered(e) ELSE Over(t, {Plain(w)})
    PROVE  Voices'
<1>1. CASE t = Root
  BY <1>1, AnsweredVoice
<1>2. CASE t # Root
  <2>1. {Plain(w)} \in SUBSET Messages /\ \A m \in {Plain(w)} : ~IsPiece(m)
    BY PlainTyped
  <2>2. Over(t, {Plain(w)}) /\ t \in Tasks \ {Root}
    BY <1>2
  <2>3. QED
    BY <2>1, <2>2, OverVoice
<1>3. QED
  BY <1>1, <1>2

LEMMA GeneratedVoice == ASSUME Shape, Voices, NEW t \in Tasks, Generated(t) PROVE Voices'
<1>1. task[t].place = "serving" /\ (task[t].kind # "whole" => t # Root)
  BY DEF Generated, Shape, Placed
<1>2. CASE /\ task[t].kind = "stream"
           /\ task' = [Frame(task, t, Plain("done")) EXCEPT ![t] = Free] /\ UNCHANGED result
  BY <1>1, <1>2, DoneVoice
<1>3. CASE task[t].kind = "tools" /\ Over(t, {Piece(task[t].at, 1), Plain("done")})
  BY <1>1, <1>3, ToolsVoice
<1>4. CASE t # Root /\ Over(t, {Plain("response")})
  BY <1>4, EndVoice
<1>5. CASE t = Root /\ Answered("answered")
  BY <1>5, AnsweredVoice
<1>6. QED
  BY <1>1, <1>2, <1>3, <1>4, <1>5 DEF Generated

\* t puts its request to another node as the task c.
LEMMA CallVoice ==
    ASSUME Shape, Voices, NEW t \in Tasks, NEW c \in Hops, task[t].place = "routing", task[c].place = "free",
           NEW r, NEW s,
           /\ r.from = task[t].from /\ r.child = c /\ r.queue = <<>> /\ r.frames = <<>> /\ r.loose = {}
           /\ r.place = "waiting",
           /\ s.from = t /\ s.child = Nothing /\ s.queue = <<>> /\ s.frames = <<>> /\ s.loose = {}
           /\ s.place = "sent",
           task'[t] = r, task'[c] = s, \A u \in Tasks \ {t, c} : task'[u] = task[u], result' = result
    PROVE  Voices'
<1>1. PICK h \in [Tasks -> Nat], b \in [Tasks -> Nodes] : Voice(h, b)
  BY DEF Voices
<1>2. c \in Tasks /\ c # t /\ c # Root /\ Root \in Tasks /\ c # Nothing /\ \A u \in Tasks : h[u] \in Nat
  BY TasksAssumption DEF Tasks
<1>3. \A u \in Tasks : Own(u, h[u], b[u])
  BY <1>1 DEF Voice
<1>4. h[t] = 0
  <2>1. task[t].told = 0
    BY IdleEmpty
  <2>2. QED
    BY <1>3, <2>1 DEF Own, Timed
<1>5. PICK g \in [Tasks -> Nat] : g[c] = 0 /\ \A u \in Tasks \ {c} : g[u] = h[u]
  <2>1. [h EXCEPT ![c] = 0] \in [Tasks -> Nat]
    BY <1>2
  <2>2. QED
    BY <1>2, <2>1
<1>6. Ordered(r) /\ Got(r) = {} /\ Quiet(r) /\ Ordered(s) /\ Got(s) = {}
  BY EmptyGot
<1>7. \A u \in Tasks : Own(u, g[u], b[u])'
  <2>1. Own(t, g[t], b[t])'
    BY <1>2, <1>4, <1>5, <1>6 DEF Own, Timed
  <2>2. Own(c, g[c], b[c])'
    BY <1>2, <1>5, <1>6 DEF Own, Timed
  <2>3. ASSUME NEW u \in Tasks \ {t, c} PROVE Own(u, g[u], b[u])'
    BY <1>3, <1>5 DEF Own
  <2>4. QED
    BY <2>1, <2>2, <2>3
<1>8. ASSUME NEW x \in Tasks, NEW u \in Tasks, Feeds(x, u)' PROVE Link(x, u, g, b)'
  <2>1. CASE u = t
    BY <1>2, <1>4, <1>5, <1>6, <2>1 DEF Link
  <2>2. u # c
    BY <1>8, TasksAssumption DEF Feeds, Tasks
  <2>3. CASE u # t
    <3>1. task'[u] = task[u] /\ g[u] = h[u]
      BY <1>5, <2>2, <2>3
    <3>2. x # c
      BY <1>8, <2>3 DEF Feeds
    <3>3. Feeds(x, u) /\ g[x] = h[x]
      BY <1>5, <1>8, <3>1, <3>2 DEF Feeds
    <3>4. Link(x, u, h, b)
      BY <1>1 DEF Voice
    <3>5. QED
      BY <3>1, <3>3, <3>4 DEF Link
  <2>4. QED
    BY <2>1, <2>3
<1>9. \A x, u \in Tasks : Link(x, u, g, b)'
  BY <1>8 DEF Link
<1>10. Client(g[Root], b[Root])' /\ OneVoice' /\ \A i \in 1 .. Len(result'.out) : IsPiece(result'.out[i])
  <2>1. g[Root] = h[Root]
    BY <1>2, <1>5
  <2>2. QED
    BY <1>1, <2>1 DEF Voice, Client, OneVoice
<1>11. Voice(g, b)'
  BY <1>7, <1>9, <1>10 DEF Voice
<1>12. QED
  BY <1>11 DEF Voices

\* A routing task that asks nobody yet, or whose request is lost.
LEMMA RouteVoice ==
    ASSUME Shape, Voices, NEW t \in Tasks, NEW m \in Nodes,
           CallFull(t, m) \/ CallLost(t, m) \/ \E c \in Hops : Call(t, m, c)
    PROVE  Voices'
<1>1. task \in [Tasks -> Record] /\ task[t] \in Record /\ task[t].place = "routing" /\ task[t].made = 0 /\ result' = result
  BY DEF Shape, Placed, CallFull, CallLost, Call
<1>2. task[t].queue = <<>> /\ task[t].frames = <<>> /\ task[t].loose = {} /\ task[t].child = Nothing
  BY <1>1, IdleEmpty
<1>3. CASE CallFull(t, m) \/ CallLost(t, m)
  <2> DEFINE s == [task[t] EXCEPT !.todo = @ \ {m}]
             r == [task[t] EXCEPT !.place = "waiting", !.to = m]
  <2>1. task'[t] \in {s, r} /\ \A u \in Tasks \ {t} : task'[u] = task[u]
    BY <1>1, <1>3 DEF CallFull, CallLost
  <2>2. /\ s.from = task[t].from /\ s.child = Nothing /\ s.queue = <<>> /\ s.frames = <<>> /\ s.loose = {} /\ s.made = 0
        /\ r.from = task[t].from /\ r.child = Nothing /\ r.queue = <<>> /\ r.frames = <<>> /\ r.loose = {} /\ r.made = 0
    BY <1>1, <1>2 DEF Record
  <2> HIDE DEF s, r
  <2>3. QED
    BY <1>1, <2>1, <2>2, TurnVoice
<1>4. CASE \E c \in Hops : Call(t, m, c)
  <2>1. PICK c \in Hops : Call(t, m, c)
    BY <1>4
  <2>2. c \in Tasks /\ task[c].place = "free" /\ c # t
    BY <1>1, <2>1 DEF Call, Tasks
  <2> DEFINE r == [task[t] EXCEPT !.place = "waiting", !.to = m, !.child = c]
             s(k) == [Free EXCEPT !.at = m, !.kind = k, !.from = t, !.place = "sent"]
  <2>3. PICK k : task' = [task EXCEPT ![t] = r, ![c] = s(k)]
    BY <2>1 DEF Call
  <2>4. /\ r.from = task[t].from /\ r.child = c /\ r.queue = <<>> /\ r.frames = <<>> /\ r.loose = {}
        /\ r.place = "waiting"
    BY <1>1, <1>2 DEF Record
  <2>5. /\ s(k).from = t /\ s(k).child = Nothing /\ s(k).queue = <<>> /\ s(k).frames = <<>> /\ s(k).loose = {}
        /\ s(k).place = "sent"
    BY DEF Free
  <2> HIDE DEF r, s
  <2>6. task'[t] = r /\ task'[c] = s(k) /\ \A u \in Tasks \ {t, c} : task'[u] = task[u]
    BY <1>1, <2>2, <2>3
  <2>7. QED
    BY <1>1, <2>2, <2>4, <2>5, <2>6, CallVoice
<1>5. QED
  BY <1>3, <1>4

LEMMA DeliverVoice ==
    ASSUME Shape, Voices, NEW t \in Tasks, DeliverFrame(t) \/ DeliverLoose(t)
    PROVE  Voices'
<1>1. PICK h \in [Tasks -> Nat], b \in [Tasks -> Nodes] : Voice(h, b)
  BY DEF Voices
<1>2. /\ task \in [Tasks -> Record] /\ task[t] \in Record /\ task[t].place = "waiting" /\ result' = result
      /\ task[t].told \in Nat /\ Own(t, h[t], b[t])
  BY <1>1 DEF Shape, DeliverFrame, DeliverLoose, Voice, Record
<1>3. \A u \in Tasks \ {t} : task'[u] = task[u]
  BY <1>2 DEF DeliverFrame, DeliverLoose
<1>4. Shape'
  BY DeliverShape
<1>5. task'[t] \in Record
  BY <1>4 DEF Shape
<1>6. CASE DeliverFrame(t)
  <2>1. /\ task'[t].queue = Put(t, Head(task[t].frames)) /\ task'[t].frames = Tail(task[t].frames)
        /\ task'[t].loose = task[t].loose
        /\ task'[t].place = "waiting" /\ task'[t].told = task[t].told /\ task'[t].from = task[t].from
        /\ task'[t].child = task[t].child
    BY <1>2, <1>6 DEF DeliverFrame, Record
  <2>2. task'[t].queue \in {task[t].queue, Append(task[t].queue, Head(task[t].frames))} /\ task[t].frames # <<>>
    BY <1>6, <2>1 DEF Put, DeliverFrame
  <2>3. Calm(task'[t], task[t])
    BY <1>2, <1>5, <2>1, <2>2, FrameCalm DEF Own
  <2>4. Linked(task'[t], task[t]) /\ Timed(t, task'[t], h[t], b[t])
    BY <1>2, <2>1 DEF Linked, Own, Timed
  <2>5. QED
    BY <1>1, <1>2, <1>3, <2>3, <2>4, AloneVoice
<1>7. CASE DeliverLoose(t)
  <2>1. PICK m \in task[t].loose : task' = [task EXCEPT ![t].loose = @ \ {m}, ![t].queue = Put(t, m)]
    BY <1>7 DEF DeliverLoose
  <2>2. /\ task'[t].queue = Put(t, m) /\ task'[t].frames = task[t].frames
        /\ task'[t].loose = task[t].loose \ {m}
        /\ task'[t].place = "waiting" /\ task'[t].told = task[t].told /\ task'[t].from = task[t].from
        /\ task'[t].child = task[t].child
    BY <1>2, <2>1 DEF Record
  <2>3. task'[t].queue \in {task[t].queue, Append(task[t].queue, m)}
    BY <2>2 DEF Put
  <2>4. Calm(task'[t], task[t])
    BY <1>2, <1>5, <2>2, <2>3, LooseCalm DEF Own
  <2>5. Linked(task'[t], task[t]) /\ Timed(t, task'[t], h[t], b[t])
    BY <1>2, <2>2 DEF Linked, Own, Timed
  <2>6. QED
    BY <1>1, <1>2, <1>3, <2>4, <2>5, AloneVoice
<1>8. QED
  BY <1>6, <1>7

\* The first message of a relayed answer is all that the client is handed.
LEMMA RelayedVoice == ASSUME Shape, Voices, NEW t \in Tasks, TakeRelayed(t) PROVE Voices'
<1>1. PICK h \in [Tasks -> Nat], b \in [Tasks -> Nodes] : Voice(h, b)
  BY DEF Voices
<1>2. /\ task \in [Tasks -> Record] /\ task[t] \in Record /\ task[t].place = "waiting" /\ task[t].queue # <<>>
      /\ t = Root /\ Own(t, h[t], b[t])
  BY <1>1 DEF Shape, Placed, TakeRelayed, Voice
<1>3. task'[Root] = Closed /\ \A u \in Tasks \ {Root} : task'[u] = task[u]
  BY <1>2 DEF TakeRelayed, Closed
<1>4. /\ Calm(Closed, task[Root]) /\ Linked(Closed, task[Root]) /\ (\A x, y : Timed(Root, Closed, x, y))
      /\ Got(Closed) = {}
  <2>1. Closed.queue = <<>> /\ Closed.frames = <<>> /\ Closed.loose = {}
    BY DEF Free, Closed
  <2>2. QED
    BY <1>2, <2>1, EmptyGot, FreeVoice
<1>5. CASE Comes(t, "piece")
  <2> DEFINE m == Head(task[Root].queue)
  <2>1. m = task[Root].queue[1] /\ m \in Messages /\ 1 \in 1 .. Len(task[Root].queue)
    BY <1>2, TailIs DEF Record
  <2>2. m \in Got(task[Root])
    BY <1>2, <1>5, <2>1 DEF Comes, IsPiece, Got
  <2>3. result'.out = Append(result.out, m)
    BY <1>2, <1>5 DEF TakeRelayed
  <2> HIDE DEF m
  <2>4. QED
    BY <1>1, <1>3, <1>4, <2>2, <2>3, HeardVoice
<1>6. CASE ~Comes(t, "piece")
  <2>1. result'.out = result.out
    BY <1>6 DEF TakeRelayed
  <2>2. QED
    BY <1>1, <1>2, <1>3, <1>4, <2>1, AloneVoice
<1>7. QED
  BY <1>5, <1>6

LEMMA StopVoice ==
    ASSUME Shape, Voices, NEW t \in Tasks,
           TakeDone(t) \/ TakeResponse(t) \/ TakeError(t) \/ TakeRelayed(t) \/ TimeOut(t)
    PROVE  Voices'
<1>1. task[t].place = "waiting" /\ Placed(t, task[t])
  BY DEF TakeDone, TakeResponse, TakeError, TakeRelayed, TimeOut, Comes, Shape
<1>2. CASE StreamOver(t)
  BY <1>2, StreamOverVoice
<1>3. CASE Failed(t)
  BY <1>1, <1>3, FailedVoice
<1>4. CASE \E e \in Ends : Answered(e)
  BY <1>4, AnsweredVoice
<1>5. CASE t # Root /\ Over(t, {Plain("response")})
  BY <1>5, EndVoice
<1>6. CASE TakeRelayed(t)
  BY <1>6, RelayedVoice
<1>7. \/ StreamOver(t) \/ Failed(t) \/ (\E e \in Ends : Answered(e))
      \/ (t # Root /\ Over(t, {Plain("response")})) \/ TakeRelayed(t)
  BY DEF TakeDone, TakeResponse, TakeError, TimeOut, Ends
<1>8. QED
  BY <1>2, <1>3, <1>4, <1>5, <1>6, <1>7

\* Nothing is sent by a handler that is cancelled.
LEMMA CutVoice == ASSUME Shape, Voices, NEW n \in Nodes, NEW m \in Nodes, Cut(n, m) PROVE Voices'
<1>1. PICK h \in [Tasks -> Nat], b \in [Tasks -> Nodes] : Voice(h, b)
  BY DEF Voices
<1>2. result'.out = result.out
  BY DEF Cut, Shape
<1>3. \A u \in Tasks : task'[u] = task[u] \/ (u # Root /\ task'[u] = Free) \/ task'[u] = Closed
  BY DEF Cut, Closed
<1>4. \A u \in Tasks : Own(u, h[u], b[u])
  BY <1>1 DEF Voice
<1>5. \A u \in Tasks : Calm(task'[u], task[u]) /\ Linked(task'[u], task[u]) /\ Timed(u, task'[u], h[u], b[u])
  <2>1. SUFFICES ASSUME NEW u \in Tasks
                 PROVE  Calm(task'[u], task[u]) /\ Linked(task'[u], task[u]) /\ Timed(u, task'[u], h[u], b[u])
    OBVIOUS
  <2>2. CASE task'[u] = task[u]
    BY <1>4, <2>2, SelfCalm DEF Own, Linked
  <2>3. CASE u # Root /\ task'[u] = Free
    BY <2>3, FreeVoice
  <2>4. CASE task'[u] = Closed
    BY <2>4, FreeVoice
  <2>5. QED
    BY <1>3, <2>2, <2>3, <2>4
<1>6. QED
  BY <1>1, <1>2, <1>5, PlainVoice

LEMMA KeptVoice == ASSUME Voices, task' = task, result' = result PROVE Voices'
<1>1. PICK h \in [Tasks -> Nat], b \in [Tasks -> Nodes] : Voice(h, b)
  BY DEF Voices
<1>2. \A u \in Tasks : Own(u, h[u], b[u])
  BY <1>1 DEF Voice
<1>3. \A u \in Tasks : Calm(task'[u], task[u]) /\ Linked(task'[u], task[u]) /\ Timed(u, task'[u], h[u], b[u])
  BY <1>2, SelfCalm DEF Own, Linked
<1>4. QED
  BY <1>1, <1>3, PlainVoice

LEMMA ActVoice == ASSUME Shape, Voices, NEW t \in Tasks, Act(t) PROVE Voices'
<1>1. CASE Refuse(t)
  <2>1. t # Root /\ Over(t, {Plain("error")})
    BY <1>1 DEF Refuse, Shape, Placed
  <2>2. QED
    BY <2>1, EndVoice
<1>2. CASE Admit(t)
  BY <1>2, AdmitVoice
<1>3. CASE Generate(t)
  BY <1>3, GenerateVoice
<1>4. CASE Generated(t)
  BY <1>4, GeneratedVoice
<1>5. CASE GenerateFail(t) \/ Exhausted(t)
  BY <1>5, EndVoice DEF GenerateFail, Exhausted
<1>6. CASE \E m \in Nodes : CallFull(t, m) \/ CallLost(t, m) \/ \E c \in Hops : Call(t, m, c)
  BY <1>6, RouteVoice
<1>7. CASE TakePiece(t)
  BY <1>7, TakePieceVoice
<1>8. CASE TakeDone(t) \/ TakeResponse(t) \/ TakeError(t) \/ TakeRelayed(t) \/ TimeOut(t)
  BY <1>8, StopVoice
<1>9. QED
  BY <1>1, <1>2, <1>3, <1>4, <1>5, <1>6, <1>7, <1>8 DEF Act

LEMMA NextVoice == ASSUME Shape, Voices, [Next]_vars PROVE Voices'
<1>1. CASE \E k \in Kinds : Ask(k)
  BY <1>1, AskVoice
<1>2. CASE \E t \in Tasks : Act(t)
  BY <1>2, ActVoice
<1>3. CASE \E t \in Tasks : DeliverFrame(t) \/ DeliverLoose(t)
  BY <1>3, DeliverVoice
<1>4. CASE \E n \in Nodes : Unload(n)
  BY <1>4, KeptVoice DEF Unload
<1>5. CASE \E n, m \in Nodes : Cut(n, m)
  BY <1>5, CutVoice
<1>6. CASE UNCHANGED vars
  BY <1>6, KeptVoice DEF vars
<1>7. QED
  BY <1>1, <1>2, <1>3, <1>4, <1>5, <1>6 DEF Next

LEMMA InitVoice == Init => Voices
<1> SUFFICES ASSUME Init PROVE Voices
  OBVIOUS
<1> DEFINE h == [t \in Tasks |-> 0]
           b == [t \in Tasks |-> Origin]
<1>1. h \in [Tasks -> Nat] /\ b \in [Tasks -> Nodes] /\ \A t \in Tasks : h[t] = 0 /\ b[t] = Origin
  BY NodesAssumption
<1> HIDE DEF h, b
<1>2. Free.queue = <<>> /\ Free.frames = <<>> /\ Free.loose = {} /\ Free.place = "free" /\ Free.from = Nothing
  BY DEF Free
<1>3. Ordered(Free) /\ Got(Free) = {}
  BY <1>2, EmptyGot
<1>4. \A t \in Tasks : task[t] = Free
  BY DEF Init
<1>5. \A t \in Tasks : Own(t, h[t], b[t])
  BY <1>1, <1>2, <1>3, <1>4 DEF Own, Timed
<1>6. \A c, t \in Tasks : Link(c, t, h, b)
  BY <1>2, <1>4, TasksAssumption DEF Link, Feeds, Tasks
<1>7. Len(result.out) = 0
  BY EmptySeq DEF Init
<1>8. Client(h[Root], b[Root]) /\ OneVoice /\ \A i \in 1 .. Len(result.out) : IsPiece(result.out[i])
  BY <1>7 DEF Client, OneVoice
<1>9. Voice(h, b)
  BY <1>5, <1>6, <1>8 DEF Voice
<1>10. QED
  BY <1>1, <1>9 DEF Voices

Speaking == Shape /\ Voices

\* Whatever fails over to whatever, through however many nodes a request is
\* passed on and whichever messages are lost, late or dropped, the client is
\* handed the output of one node, in order and without repetition.
THEOREM OneVoiceIsHeard == Spec => []OneVoice
<1>1. Init => Speaking
  BY InitShape, InitVoice DEF Speaking
<1>2. Speaking /\ [Next]_vars => Speaking'
  BY NextShape, NextVoice DEF Speaking
<1>3. Speaking => OneVoice
  BY DEF Speaking, Voices, Voice
<1>4. QED
  BY <1>1, <1>2, <1>3, PTL DEF Spec
=============================================================================
