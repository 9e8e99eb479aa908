------------------------------ MODULE JobQueue ------------------------------
(***************************************************************************)
(* The asynchronous job queue of one node: the table of queued jobs        *)
(* (execution/queue.py), the scheduler that drains it                      *)
(* (execution/scheduler.py), the HTTP handlers that fill it and cancel     *)
(* from it (api/jobs.py), and the stakes they take from and return to the  *)
(* credit ledger.                                                          *)
(*                                                                         *)
(* Everything runs as coroutines of one process over one SQLite file.  A   *)
(* coroutine can be interrupted where it awaits, so a handler is cut into  *)
(* one action per database commit and per resumption after it.  The table  *)
(* and the ledger survive a crash; coroutines, tasks and requests do not.  *)
(* Any access to the database may raise (a full disk, a locked file): it   *)
(* then has written nothing, and what the caller does next is what its     *)
(* handlers, or their absence, make of it.                                 *)
(*                                                                         *)
(* Jobs are numbered in the order of their created_at.  The columns that   *)
(* no step ever reads (attempts, waiting_reason, the result and the        *)
(* timestamps) are left out.                                               *)
(***************************************************************************)
EXTENDS Integers, FiniteSets

CONSTANTS
    NJobs,          \* bound: how many jobs are ever submitted
    MaxStake,       \* bound: the largest stake a caller offers
    AgeBonus,       \* AGE_BONUS_PER_HOUR, per submission interval
    PendingLimit,   \* the row limit of pending(), 200 in the code
    MaxConcurrent,  \* the scheduler's max_concurrent
    Nudges,         \* tick coroutines started by submissions; bound: in flight at once
    Loop,           \* the tick coroutine of the scheduler's own loop
    Cancellers,     \* concurrent cancel requests; bound: in flight at once
    MaxMishaps,     \* bound: how often the process ends or the database raises
    ReadySets       \* bound: the sets of jobs the device may be fit for at a time

Jobs  == 1 .. NJobs
Ticks == Nudges \cup {Loop}

ASSUME NJobsAssumption == NJobs \in Nat \ {0}
ASSUME StakeAssumption == MaxStake \in Nat /\ AgeBonus \in Nat
ASSUME LimitAssumption == PendingLimit \in Nat \ {0} /\ MaxConcurrent \in Nat \ {0}
ASSUME TicksAssumption == IsFiniteSet(Nudges) /\ Loop \notin Nudges
ASSUME MishapsAssumption == MaxMishaps \in Nat
ASSUME ReadyAssumption == ReadySets \subseteq SUBSET Jobs

VARIABLES
    state,      \* the state column of a job's row, "absent" before the INSERT
    stake,      \* credits debited for the job, and its row's stake column
    refunds,    \* how often the stake was credited back
    due,        \* jobs whose expires_at has passed
    submit,     \* where the submission of a job is
    ready,      \* jobs this device would take now: not constrained, a target online
    tpc,        \* where a tick coroutine is
    batch,      \* the ids a tick is working through
    pick,       \* the job a tick is claiming, 0 when none
    task,       \* where the task that runs a job is
    canc,       \* the cancel requests in flight
    phase,      \* "up", "stopping" (after JobScheduler.stop) or "down"
    exits,      \* how often the process has ended
    faults,     \* how often the database has raised
    unwritten,  \* jobs whose end or requeue raised since the process started
    uncredited  \* jobs the return of whose stake raised since then

rows  == <<state, stake, refunds>>
ticks == <<tpc, batch, pick>>
proc  == <<phase, exits>>
failures == <<faults, unwritten, uncredited>>
vars  == <<rows, due, submit, ready, ticks, task, canc, proc, failures>>

Terminal  == {"done", "failed", "expired", "cancelled"}
JobState  == {"queued", "running"} \cup Terminal
RowState  == {"absent"} \cup JobState
SubmitPC  == {"new", "debited", "accepted", "lost"}
TickPC    == {"idle", "begin", "expire", "refund", "pending", "decide",
              "visit", "claim", "won"}
TaskPC    == {"none", "exec", "done", "fail", "refund", "requeue"}
CancelPC  == {"idle", "update", "credit"}
NoCancel  == [pc |-> "idle", job |-> 1, seen |-> "queued"]

TypeOK ==
    /\ state   \in [Jobs -> RowState]
    /\ stake   \in [Jobs -> 0 .. MaxStake]
    /\ refunds \in [Jobs -> Nat]
    /\ due \subseteq Jobs
    /\ submit  \in [Jobs -> SubmitPC]
    /\ ready \subseteq Jobs
    /\ tpc     \in [Ticks -> TickPC]
    /\ batch   \in [Ticks -> SUBSET Jobs]
    /\ pick    \in [Ticks -> Jobs \cup {0}]
    /\ task    \in [Jobs -> TaskPC]
    /\ canc    \in [Cancellers -> [pc : CancelPC, job : Jobs, seen : JobState]]
    /\ phase   \in {"up", "stopping", "down"}
    /\ exits   \in Nat
    /\ faults  \in Nat
    /\ unwritten \subseteq Jobs
    /\ uncredited \subseteq Jobs

Init ==
    /\ state   = [j \in Jobs |-> "absent"]
    /\ stake   = [j \in Jobs |-> 0]
    /\ refunds = [j \in Jobs |-> 0]
    /\ due     = {}
    /\ submit  = [j \in Jobs |-> "new"]
    /\ ready \in ReadySets
    /\ tpc     = [t \in Ticks |-> "idle"]
    /\ batch   = [t \in Ticks |-> {}]
    /\ pick    = [t \in Ticks |-> 0]
    /\ task    = [j \in Jobs |-> "none"]
    /\ canc    = [c \in Cancellers |-> NoCancel]
    /\ phase   = "up"
    /\ exits   = 0
    /\ faults  = 0
    /\ unwritten = {}
    /\ uncredited = {}

Queued  == {j \in Jobs : state[j] = "queued"}

\* The keys of JobScheduler._running: a task leaves it when it ends, and
\* stop() clears it of the tasks it has cancelled.
Running == {j \in Jobs : task[j] \notin {"none", "requeue"}}

\* Mutant: the job about to start is counted twice.
BusyEarly == Cardinality(Running) + 1 >= MaxConcurrent

Busy == Cardinality(Running) >= MaxConcurrent

-----------------------------------------------------------------------------
(* The database.                                                           *)

\* Ends and failures so far, a shutdown that has begun included.
Mishaps == exits + faults + (IF phase = "stopping" THEN 1 ELSE 0)

Fault == Mishaps < MaxMishaps /\ faults' = faults + 1

\* A handler's access raises, and nothing about the job is lost by it.
FaultOnly == Fault /\ UNCHANGED <<unwritten, uncredited>>

\* finish or requeue raises in the task of j, which ends there.
Unwritten(j) ==
    /\ Fault
    /\ unwritten' = unwritten \cup {j}
    /\ UNCHANGED <<state, uncredited>>

\* The credit of j's stake raises: the caller logs it and goes on.
Uncredited(j) ==
    /\ stake[j] > 0
    /\ Fault
    /\ uncredited' = uncredited \cup {j}
    /\ UNCHANGED <<refunds, unwritten>>

-----------------------------------------------------------------------------
(* The order of the run queue.                                             *)

\* sort_key among jobs of one owner (api/jobs.py always submits as the node):
\* more stake plus age first, then the older.  Every job ages at the same
\* rate, so the comparison does not depend on the time it is made at.
Before(j, k) ==
    LET lead == (stake[j] - AgeBonus * j) - (stake[k] - AgeBonus * k)
    IN  lead > 0 \/ (lead = 0 /\ j < k)

First(j, S) == \A k \in S \ {j} : Before(j, k)

\* pending() cuts the oldest PendingLimit rows before it sorts them.
Oldest == {j \in Queued : Cardinality({k \in Queued : k < j}) < PendingLimit}

-----------------------------------------------------------------------------
(* POST /v1/jobs.                                                          *)

\* The balance covers the stake and the debit commits.  A debit that raises
\* continues with stake 0; a 402 changes nothing.
SubmitDebit(j) ==
    /\ phase # "down"
    /\ submit[j] = "new"
    /\ \A k \in 1 .. j - 1 : submit[k] # "new"
    /\ \E s \in 0 .. MaxStake : stake' = [stake EXCEPT ![j] = s]
    /\ submit' = [submit EXCEPT ![j] = "debited"]
    /\ UNCHANGED <<state, refunds, due, ready, ticks, task, canc, proc, failures>>

\* The task that ticks the scheduler once for a new row.
Nudge ==
    \/ \E n \in Nudges : tpc[n] = "idle" /\ tpc' = [tpc EXCEPT ![n] = "begin"]
    \/ /\ \A n \in Nudges : tpc[n] # "idle"
       /\ UNCHANGED tpc

\* JobQueue.submit commits the row, then the handler nudges the scheduler.
SubmitInsert(j) ==
    /\ phase # "down"
    /\ submit[j] = "debited"
    /\ \A k \in 1 .. j - 1 : submit[k] # "debited"
    /\ submit' = [submit EXCEPT ![j] = "accepted"]
    /\ state' = [state EXCEPT ![j] = "queued"]
    /\ Nudge
    /\ UNCHANGED <<stake, refunds, due, ready, batch, pick, task, canc, proc, failures>>

\* The INSERT raises: the request is answered with a 500 and the stake it
\* debited belongs to no job.
SubmitFails(j) ==
    /\ phase # "down"
    /\ submit[j] = "debited"
    /\ FaultOnly
    /\ submit' = [submit EXCEPT ![j] = "lost"]
    /\ UNCHANGED <<rows, due, ready, ticks, task, canc, proc>>

-----------------------------------------------------------------------------
(* DELETE /v1/jobs/{job_id}.                                               *)

\* The handler reads the row; a terminal job is refused with a 409.
CancelRead(c, j) ==
    /\ phase # "down"
    /\ canc[c].pc = "idle"
    /\ state[j] \in {"queued", "running"}
    /\ canc' = [canc EXCEPT ![c] = [pc |-> "update", job |-> j, seen |-> state[j]]]
    /\ UNCHANGED <<rows, due, submit, ready, ticks, task, proc, failures>>

\* JobQueue.cancel: one guarded UPDATE.  Whether to refund is decided on the
\* state read before it.
CancelUpdate(c) ==
    LET j == canc[c].job
        cancelled == state[j] \in {"queued", "running"}
    IN  /\ phase # "down"
        /\ canc[c].pc = "update"
        /\ state' = IF cancelled THEN [state EXCEPT ![j] = "cancelled"] ELSE state
        /\ canc' = [canc EXCEPT ![c] =
                      IF cancelled /\ stake[j] > 0 /\ canc[c].seen = "queued"
                      THEN [canc[c] EXCEPT !.pc = "credit"] ELSE NoCancel]
        /\ UNCHANGED <<stake, refunds, due, submit, ready, ticks, task, proc, failures>>

\* The credit, which may raise: the handler logs it and answers.
CancelCredit(c) ==
    /\ phase # "down"
    /\ canc[c].pc = "credit"
    /\ \/ refunds' = [refunds EXCEPT ![canc[c].job] = @ + 1] /\ UNCHANGED failures
       \/ Uncredited(canc[c].job)
    /\ canc' = [canc EXCEPT ![c] = NoCancel]
    /\ UNCHANGED <<state, stake, due, submit, ready, ticks, task, proc>>

\* The UPDATE raises: the request ends and the job is as it was.
CancelFails(c) ==
    /\ phase # "down"
    /\ canc[c].pc = "update"
    /\ FaultOnly
    /\ canc' = [canc EXCEPT ![c] = NoCancel]
    /\ UNCHANGED <<rows, due, submit, ready, ticks, task, proc>>

-----------------------------------------------------------------------------
(* JobScheduler.tick, by the loop or by a nudge.                           *)

TickUnchanged == UNCHANGED <<due, submit, ready, canc, proc, failures>>

\* The loop wakes after its poll interval.
Poll ==
    /\ phase = "up"
    /\ tpc[Loop] = "idle"
    /\ tpc' = [tpc EXCEPT ![Loop] = "begin"]
    /\ UNCHANGED <<rows, batch, pick, task>>
    /\ TickUnchanged

At(t, step) == phase # "down" /\ tpc[t] = step

\* Mutant: the state filter is dropped, so expired rows expire again.
DueAnyState == {j \in due : state[j] # "running"}

\* The rows expire_due selects.
DueRows == Queued \cap due

\* expire_due, the SELECT: queued rows past their deadline.
TickSelectDue(t) ==
    /\ At(t, "begin")
    /\ batch' = [batch EXCEPT ![t] = DueRows]
    /\ tpc' = [tpc EXCEPT ![t] = IF DueRows = {} THEN "pending" ELSE "expire"]
    /\ UNCHANGED <<rows, pick, task>>
    /\ TickUnchanged

\* expire_due, the UPDATE: by id, whatever the rows' states are by now.
TickExpire(t) ==
    /\ At(t, "expire")
    /\ state' = [j \in Jobs |-> IF j \in batch[t] THEN "expired" ELSE state[j]]
    /\ tpc' = [tpc EXCEPT ![t] = "refund"]
    /\ UNCHANGED <<stake, refunds, batch, pick, task>>
    /\ TickUnchanged

\* _refund: nothing is credited for a job without a stake, and a credit that
\* raises is logged and not tried again.
Credited(j) ==
    \/ /\ refunds' = IF stake[j] > 0 THEN [refunds EXCEPT ![j] = @ + 1] ELSE refunds
       /\ UNCHANGED failures
    \/ Uncredited(j)

\* One expired id after the other is refunded.
TickRefund(t) ==
    /\ At(t, "refund")
    /\ \E j \in batch[t] :
          /\ Credited(j)
          /\ batch' = [batch EXCEPT ![t] = @ \ {j}]
          /\ tpc' = [tpc EXCEPT ![t] = IF batch[t] = {j} THEN "pending" ELSE @]
    /\ UNCHANGED <<state, stake, pick, task, due, submit, ready, canc, proc>>

\* pending: the SELECT; an empty queue ends the tick.
TickPending(t) ==
    /\ At(t, "pending")
    /\ batch' = [batch EXCEPT ![t] = Oldest]
    /\ tpc' = [tpc EXCEPT ![t] = IF Oldest = {} THEN "idle" ELSE "decide"]
    /\ UNCHANGED <<rows, pick, task>>
    /\ TickUnchanged

\* eligible, and the targets, read once for the whole tick.  Jobs without a
\* target only get a waiting_reason.
TickDecide(t) ==
    /\ At(t, "decide")
    /\ batch' = [batch EXCEPT ![t] = IF Busy THEN {} ELSE @ \cap ready]
    /\ tpc' = [tpc EXCEPT ![t] = IF Busy THEN "idle" ELSE "visit"]
    /\ UNCHANGED <<rows, pick, task>>
    /\ TickUnchanged

\* The top of the loop over the pending jobs.
TickVisit(t) ==
    /\ At(t, "visit")
    /\ ~Busy
    /\ \E j \in batch[t] :
          /\ First(j, batch[t])
          /\ batch' = [batch EXCEPT ![t] = @ \ {j}]
          /\ pick' = [pick EXCEPT ![t] = j]
    /\ tpc' = [tpc EXCEPT ![t] = "claim"]
    /\ UNCHANGED <<rows, task>>
    /\ TickUnchanged

TickEnd(t) ==
    /\ At(t, "visit")
    /\ Busy \/ batch[t] = {}
    /\ batch' = [batch EXCEPT ![t] = {}]
    /\ tpc' = [tpc EXCEPT ![t] = "idle"]
    /\ UNCHANGED <<rows, pick, task>>
    /\ TickUnchanged

\* Mutant: read-then-write, the UPDATE is by id alone.
ClaimAny(j) == state[j] # "absent"

\* claim: the UPDATE is guarded by the row's state, and counts the rows it hit.
Claimable(j) == state[j] = "queued"

TickClaim(t) ==
    /\ At(t, "claim")
    /\ Claimable(pick[t])
    /\ state' = [state EXCEPT ![pick[t]] = "running"]
    /\ tpc' = [tpc EXCEPT ![t] = "won"]
    /\ UNCHANGED <<stake, refunds, batch, pick, task>>
    /\ TickUnchanged

\* Another worker took it.
TickLose(t) ==
    /\ At(t, "claim")
    /\ ~Claimable(pick[t])
    /\ tpc' = [tpc EXCEPT ![t] = "visit"]
    /\ pick' = [pick EXCEPT ![t] = 0]
    /\ UNCHANGED <<rows, batch, task>>
    /\ TickUnchanged

\* _spawn, when the tick resumes after a claim it won.
TickSpawn(t) ==
    /\ At(t, "won")
    /\ task' = [task EXCEPT ![pick[t]] = "exec"]
    /\ tpc' = [tpc EXCEPT ![t] = "visit"]
    /\ pick' = [pick EXCEPT ![t] = 0]
    /\ UNCHANGED <<rows, batch>>
    /\ TickUnchanged

\* expire_due, pending, note_waiting or claim raises: the tick ends, what it
\* had still to do is left to the next one, and the loop goes on.
TickFails(t) ==
    /\ phase # "down"
    /\ tpc[t] \in {"begin", "expire", "pending", "decide", "visit", "claim"}
    /\ FaultOnly
    /\ tpc' = [tpc EXCEPT ![t] = "idle"]
    /\ batch' = [batch EXCEPT ![t] = {}]
    /\ pick' = [pick EXCEPT ![t] = 0]
    /\ UNCHANGED <<rows, due, submit, ready, task, canc, proc>>

Tick(t) ==
    \/ TickSelectDue(t) \/ TickExpire(t) \/ TickRefund(t) \/ TickPending(t)
    \/ TickDecide(t) \/ TickVisit(t) \/ TickEnd(t)
    \/ TickClaim(t) \/ TickLose(t) \/ TickSpawn(t)

-----------------------------------------------------------------------------
(* JobScheduler._run, the task of one claimed job.                         *)

TaskAt(j, step) == phase # "down" /\ task[j] = step

TaskUnchanged == UNCHANGED <<stake, due, submit, ready, ticks, canc, proc>>

\* execute_job returns an answer, or raises or returns only an error.
TaskReturn(j) ==
    /\ TaskAt(j, "exec")
    /\ \E r \in {"done", "fail"} : task' = [task EXCEPT ![j] = r]
    /\ UNCHANGED <<state, refunds, failures>>
    /\ TaskUnchanged

\* Mutant: the result is written only over a queued row.
FinishQueued(j, s) ==
    /\ state' = [state EXCEPT ![j] = IF @ = "queued" THEN s ELSE @]
    /\ UNCHANGED failures

\* finish(DONE) and finish(FAILED): the UPDATE is by id alone.
Finish(j, s) == state' = [state EXCEPT ![j] = s] /\ UNCHANGED failures

TaskDone(j) ==
    /\ TaskAt(j, "done")
    /\ Finish(j, "done")
    /\ task' = [task EXCEPT ![j] = "none"]
    /\ UNCHANGED refunds
    /\ TaskUnchanged

TaskFail(j) ==
    /\ TaskAt(j, "fail")
    /\ Finish(j, "failed")
    /\ task' = [task EXCEPT ![j] = "refund"]
    /\ UNCHANGED refunds
    /\ TaskUnchanged

TaskRefund(j) ==
    /\ TaskAt(j, "refund")
    /\ Credited(j)
    /\ task' = [task EXCEPT ![j] = "none"]
    /\ UNCHANGED state
    /\ TaskUnchanged

\* Mutant: requeue does not check the row's state.
RequeueAnyState(j) ==
    /\ TaskAt(j, "requeue")
    /\ state' = [state EXCEPT ![j] = "queued"]
    /\ task' = [task EXCEPT ![j] = "none"]
    /\ UNCHANGED <<refunds, failures>>
    /\ TaskUnchanged

\* requeue, in the task that stop() has cancelled.
TaskRequeue(j) ==
    /\ TaskAt(j, "requeue")
    /\ state' = IF state[j] = "running" THEN [state EXCEPT ![j] = "queued"] ELSE state
    /\ task' = [task EXCEPT ![j] = "none"]
    /\ UNCHANGED <<refunds, failures>>
    /\ TaskUnchanged

\* finish or requeue raises.  Nothing in _run catches it: the task ends, the
\* row stays as it was, and a job that failed does not reach its refund.
TaskFails(j) ==
    /\ phase # "down"
    /\ task[j] \in {"done", "fail", "requeue"}
    /\ Unwritten(j)
    /\ task' = [task EXCEPT ![j] = "none"]
    /\ UNCHANGED refunds
    /\ TaskUnchanged

Task(j) == TaskReturn(j) \/ TaskDone(j) \/ TaskFail(j) \/ TaskRefund(j) \/ TaskRequeue(j)

-----------------------------------------------------------------------------
(* The process and its environment.                                        *)

\* JobScheduler.stop, in the node's shutdown: the loop's coroutine and the
\* tasks are cancelled where they await.  Only a task still executing catches
\* the cancellation, to requeue its job.
Stop ==
    /\ phase = "up"
    /\ Mishaps < MaxMishaps
    /\ phase' = "stopping"
    /\ tpc'   = [tpc EXCEPT ![Loop] = "idle"]
    /\ batch' = [batch EXCEPT ![Loop] = {}]
    /\ pick'  = [pick EXCEPT ![Loop] = 0]
    /\ task'  = [j \in Jobs |-> IF task[j] = "exec" THEN "requeue" ELSE "none"]
    /\ UNCHANGED <<rows, due, submit, ready, canc, exits, failures>>

\* The process ends, by the end of its shutdown or by a crash at any point.
Exit ==
    /\ phase # "down"
    /\ phase = "up" => Mishaps < MaxMishaps
    /\ phase'  = "down"
    /\ exits'  = exits + 1
    /\ submit' = [j \in Jobs |-> IF submit[j] = "debited" THEN "lost" ELSE submit[j]]
    /\ tpc'    = [t \in Ticks |-> "idle"]
    /\ batch'  = [t \in Ticks |-> {}]
    /\ pick'   = [t \in Ticks |-> 0]
    /\ task'   = [j \in Jobs |-> "none"]
    /\ canc'   = [c \in Cancellers |-> NoCancel]
    /\ unwritten' = {} /\ uncredited' = {}
    /\ UNCHANGED <<rows, due, ready, faults>>

\* reclaim_stale_running requeues the RUNNING rows that were started more than
\* an hour ago.
Reclaimed(stale) == [j \in Jobs |-> IF j \in stale THEN "queued" ELSE state[j]]

\* JobScheduler.start, before the API is up.  A recovery that raises is logged
\* and reclaims nothing.
Start ==
    /\ phase = "down"
    /\ phase' = "up"
    /\ \E stale \in SUBSET {j \in Jobs : state[j] = "running"} : state' = Reclaimed(stale)
    /\ UNCHANGED <<stake, refunds, due, submit, ready, ticks, task, canc, exits, failures>>

\* The job's ttl has passed.
Deadline(j) ==
    /\ state[j] \in {"queued", "running"}
    /\ due' = due \cup {j}
    /\ UNCHANGED <<rows, submit, ready, ticks, task, canc, proc, failures>>

\* Power, heat, or the models online have changed.
Telemetry ==
    /\ ready' \in ReadySets
    /\ UNCHANGED <<rows, due, submit, ticks, task, canc, proc, failures>>

-----------------------------------------------------------------------------

Next ==
    \/ \E j \in Jobs : SubmitDebit(j) \/ SubmitInsert(j) \/ Task(j) \/ Deadline(j)
    \/ \E c \in Cancellers :
          (\E j \in Jobs : CancelRead(c, j)) \/ CancelUpdate(c) \/ CancelCredit(c)
    \/ \E t \in Ticks : Tick(t)
    \/ \E j \in Jobs : SubmitFails(j) \/ TaskFails(j)
    \/ \E c \in Cancellers : CancelFails(c)
    \/ \E t \in Ticks : TickFails(t)
    \/ Poll \/ Stop \/ Exit \/ Start \/ Telemetry

Spec == Init /\ [][Next]_vars

\* The event loop runs every coroutine that can run, the poll timer fires, an
\* execution ends (a generation at max_tokens, a peer's answer at its timeout),
\* a shutdown reaches its SystemExit, and the operator starts the node again.
\* The database may raise at any time but, by MaxMishaps, not for ever.
Fairness ==
    /\ WF_vars(Poll)
    /\ \A t \in Ticks : WF_vars(Tick(t))
    /\ \A j \in Jobs : WF_vars(Task(j))
    /\ WF_vars(phase = "stopping" /\ Exit)
    /\ WF_vars(Start)

LiveSpec == Spec /\ Fairness

-----------------------------------------------------------------------------
(* Properties.                                                             *)

\* A claim this tick has won and not yet turned into a task.
Won(t, j) == tpc[t] = "won" /\ pick[t] = j

\* Something is executing j, or is about to.
Held(j) == task[j] # "none" \/ \E t \in Ticks : Won(t, j)

\* claim() is what keeps two ticks from running the same work twice
\* (queue.py, JobQueue): whatever the interleaving, crash or shutdown, a job
\* is held by one task or by one tick, and a job in the queue by none.
OneExecutor ==
    /\ \A t \in Ticks, j \in Jobs :
          Won(t, j) => task[j] = "none" /\ \A u \in Ticks \ {t} : ~Won(u, j)
    /\ \A j \in Queued : ~Held(j)

\* A job that has ended by any of finish, cancel and expire_due is never
\* claimed, requeued or reclaimed afterwards.
TerminalIsFinal ==
    [][\A j \in Jobs : state[j] \in Terminal => state'[j] \in Terminal]_vars

\* Until the first shutdown or crash, a RUNNING row has a task or a tick that
\* is about to create it: no path through claim, _spawn, cancel and finish
\* leaves a row claimed by nobody, but for a job whose own finish raised.
ClaimIsHeld ==
    phase = "up" /\ exits = 0 =>
        \A j \in Jobs : state[j] = "running" => Held(j) \/ j \in unwritten

\* While ticks overlap, the check of max_concurrent and the task it allows are
\* separated by an await, but the excess is at most one task per overlapping
\* tick.  With the loop's ticks alone it is the strict limit.
ConcurrencyBound == Cardinality(Running) <= MaxConcurrent + Cardinality(Nudges)

\* A refund for this expired or failed job is still to come.
RefundPending(j) ==
    \/ task[j] = "refund"
    \/ \E t \in Ticks : tpc[t] = "refund" /\ j \in batch[t]

\* The stake of a job that expired or failed is returned, or its return is
\* under way, as long as the process is neither stopped nor killed: no other
\* job's failed refund, no tick that ends early and no overlap loses it, only
\* a credit of its own that raised.
StakeReturned ==
    phase = "up" /\ exits = 0 =>
        \A j \in Jobs : state[j] \in {"expired", "failed"} /\ stake[j] > 0
                          => refunds[j] > 0 \/ RefundPending(j) \/ j \in uncredited

\* Until the process is first stopped or killed, neither a claimed job nor the
\* stake of one that ended without an answer is stranded by anything but a
\* write about that very job that raised.
NothingStranded == ClaimIsHeld /\ StakeReturned

\* One tick at a time and no cancel request.
Serial == Nudges = {} /\ Cancellers = {}

\* Then no stake is returned twice, even across crashes and requeues, and
\* none is returned for a job that was answered.
SerialRefund ==
    Serial => \A j \in Jobs : refunds[j] <= (IF state[j] = "done" THEN 0 ELSE 1)

\* A job past its deadline does not stay in the queue: expire_due takes it, or
\* a device already has.
DueLeaves ==
    \A j \in Jobs : (state[j] = "queued" /\ j \in due) ~> (state[j] # "queued")

\* A job that this device could take from some time on, and that is among the
\* rows pending() reads whenever it is queued, does not wait forever, whatever
\* runs before it, is staked higher or fails.
Progress ==
    \A j \in Jobs :
        <>[](j \in ready /\ (j \in Queued => j \in Oldest))
            => ((state[j] = "queued") ~> (state[j] # "queued"))

\* The queue moves: due jobs leave it, and so do jobs a device is fit for.
QueueMoves == DueLeaves /\ Progress

\* A claimed job is not claimed forever, if the process is never stopped or
\* killed and its own finish does not raise.
ClaimEnds ==
    [](phase = "up" /\ exits = 0) =>
        \A j \in Jobs : (state[j] = "running") ~> (state[j] # "running" \/ j \in unwritten)

\* JobQueue implements the promise: DONE, FAILED, EXPIRED and CANCELLED are all
\* "ended", and a job is active while a task or a won claim holds it.
Status == [j \in Jobs |-> IF state[j] \in Terminal THEN "ended" ELSE state[j]]
Active == {j \in Jobs : Held(j)}

Promise == INSTANCE JobLifecycle WITH status <- Status, active <- Active

\* The rows and their executors obey JobLifecycle, through crashes and restarts.
KeepsPromise == Promise!Spec

-----------------------------------------------------------------------------
(* What the repository says of the program and the code does not keep.     *)

\* queue.py, cancel: "this marks the intent so a result that arrives
\* afterwards is not written over it".
CancelSticks ==
    [][\A j \in Jobs : state[j] = "cancelled" => state'[j] \notin {"done", "failed"}]_vars

\* scheduler.py, start: "Anything left RUNNING belongs to a process that is
\* gone. Recovering it here is the difference [...]": once the scheduler is
\* up, a RUNNING row is one of its own.
RecoveredAtStart ==
    phase = "up" => \A j \in Jobs : state[j] = "running" => Held(j)

\* queue.py, module: "A stake is staked, not spent. Refunded on expiry or
\* cancellation": an expired stake is back or on its way, crash or not.
StakeSurvives ==
    phase = "up" =>
        \A j \in Jobs : state[j] = "expired" /\ stake[j] > 0
                          => refunds[j] > 0 \/ RefundPending(j)

\* The same without a crash: a refund that raises is not tried again.
StakeSurvivesFaults ==
    phase = "up" /\ exits = 0 =>
        \A j \in Jobs : state[j] = "expired" /\ stake[j] > 0
                          => refunds[j] > 0 \/ RefundPending(j)

\* queue.py, reclaim_stale_running: "A node killed mid-job leaves rows claimed
\* forever [...] Recovery on startup is the only way": a node that was not
\* killed leaves none.
ClaimSurvivesFaults ==
    phase = "up" /\ exits = 0 => \A j \in Jobs : state[j] = "running" => Held(j)

\* queue.py, AGE_BONUS_PER_HOUR: "This term is why a patient job always beats a
\* rich one eventually": a job the device is fit for leaves the queue, though
\* PendingLimit older rows that fit nothing stay in it.
PatienceWins ==
    \A j \in Jobs :
        <>[](j \in ready) => ((state[j] = "queued") ~> (state[j] # "queued"))

\* api/jobs.py, submit_job: a stake is checked so that the refund path cannot
\* mint credits.
NoMint == \A j \in Jobs : refunds[j] <= 1

\* api/jobs.py, cancel_job: "Refund only work that never started."
AnswerIsPaid == \A j \in Jobs : state[j] = "done" => refunds[j] = 0

\* queue.py, JobState.EXPIRED: "Deadline passed before any device could take
\* it."
ExpiredNeverRan == \A j \in Jobs : state[j] = "expired" => task[j] = "none"

\* config/settings.py: queue_max_concurrent is "How many queued jobs this node
\* runs at once."
WithinMaxConcurrent == Cardinality(Running) <= MaxConcurrent

\* queue.py, position: "1-based position in the run queue, or 0 if not queued."
Position(j) ==
    IF j \in Oldest THEN 1 + Cardinality({k \in Oldest \ {j} : Before(k, j)}) ELSE 0

QueuedHasPosition == \A j \in Queued : Position(j) > 0
=============================================================================
