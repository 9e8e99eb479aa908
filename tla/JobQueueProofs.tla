--------------------------- MODULE JobQueueProofs ---------------------------
(***************************************************************************)
(* Theorems about JobQueue, for any number of jobs, stakes, concurrent     *)
(* ticks and cancel requests, crashes, restarts and failing writes.        *)
(***************************************************************************)
EXTENDS JobQueue, FiniteSetTheorems, TLAPS

USE DEF Ticks, rows, ticks, proc, failures, vars, TickUnchanged, TaskUnchanged, At, TaskAt,
        Reclaimed, Fault, FaultOnly, Unwritten, Uncredited

-----------------------------------------------------------------------------
(* Type correctness.                                                       *)

LEMMA InitTypeOK == Init => TypeOK
BY NJobsAssumption, StakeAssumption, MishapsAssumption, ReadyAssumption
   DEF Init, TypeOK, RowState, SubmitPC, TickPC, TaskPC, CancelPC, JobState,
       NoCancel, Jobs

\* Every step keeps the types: each handler writes only states, ids and
\* counters of its own kind.
LEMMA NextTypeOK == TypeOK /\ [Next]_vars => TypeOK'
<1> SUFFICES ASSUME TypeOK, [Next]_vars PROVE TypeOK'
  OBVIOUS
<1> USE NJobsAssumption, StakeAssumption, MishapsAssumption, ReadyAssumption
<1> USE DEF TypeOK, RowState, JobState, Terminal, SubmitPC, TickPC, TaskPC, CancelPC
<1>1. ASSUME NEW j \in Jobs, SubmitDebit(j) PROVE TypeOK'
  BY <1>1 DEF SubmitDebit
<1>2. ASSUME NEW j \in Jobs, SubmitInsert(j) PROVE TypeOK'
  BY <1>2 DEF SubmitInsert, Nudge
<1>3. ASSUME NEW c \in Cancellers, NEW j \in Jobs, CancelRead(c, j) PROVE TypeOK'
  BY <1>3 DEF CancelRead
<1>4. ASSUME NEW c \in Cancellers, CancelUpdate(c) PROVE TypeOK'
  <2>1. canc[c].job \in Jobs /\ NoCancel \in [pc : CancelPC, job : Jobs, seen : JobState]
    BY DEF NoCancel, Jobs
  <2>2. state' \in [Jobs -> RowState]
    BY <1>4, <2>1 DEF CancelUpdate
  <2>3. canc' \in [Cancellers -> [pc : CancelPC, job : Jobs, seen : JobState]]
    BY <1>4, <2>1 DEF CancelUpdate
  <2>4. QED
    BY <1>4, <2>2, <2>3 DEF CancelUpdate
<1>5. ASSUME NEW c \in Cancellers, CancelCredit(c) PROVE TypeOK'
  <2>1. canc[c].job \in Jobs /\ NoCancel \in [pc : CancelPC, job : Jobs, seen : JobState]
    BY DEF NoCancel, Jobs
  <2>2. QED
    BY <1>5, <2>1 DEF CancelCredit
<1>6. ASSUME NEW t \in Ticks, Tick(t) PROVE TypeOK'
  <2>1. CASE TickSelectDue(t)
    BY <2>1 DEF TickSelectDue, DueRows, Queued
  <2>2. CASE TickExpire(t)
    BY <2>2 DEF TickExpire
  <2>3. CASE TickRefund(t)
    BY <2>3 DEF TickRefund, Credited
  <2>4. CASE TickPending(t)
    BY <2>4 DEF TickPending, Oldest, Queued
  <2>5. CASE TickDecide(t)
    BY <2>5 DEF TickDecide
  <2>6. CASE TickVisit(t)
    BY <2>6 DEF TickVisit
  <2>7. CASE TickEnd(t)
    BY <2>7 DEF TickEnd
  <2>8. CASE TickClaim(t)
    BY <2>8 DEF TickClaim
  <2>9. CASE TickLose(t)
    BY <2>9 DEF TickLose
  <2>10. CASE TickSpawn(t)
    BY <2>10 DEF TickSpawn
  <2>11. QED
    BY <1>6, <2>1, <2>2, <2>3, <2>4, <2>5, <2>6, <2>7, <2>8, <2>9, <2>10 DEF Tick
<1>7. ASSUME NEW j \in Jobs, Task(j) PROVE TypeOK'
  BY <1>7 DEF Task, TaskReturn, TaskDone, TaskFail, TaskRefund, TaskRequeue, Finish, Credited
<1>8. CASE Poll
  BY <1>8 DEF Poll
<1>9. CASE Stop
  BY <1>9 DEF Stop
<1>10. CASE Exit
  BY <1>10 DEF Exit, NoCancel, Jobs
<1>11. CASE Start
  BY <1>11 DEF Start
<1>12. ASSUME NEW j \in Jobs, Deadline(j) PROVE TypeOK'
  BY <1>12 DEF Deadline
<1>13. CASE Telemetry
  BY <1>13 DEF Telemetry
<1>14. CASE UNCHANGED vars
  BY <1>14
<1>15. ASSUME NEW j \in Jobs, SubmitFails(j) PROVE TypeOK'
  BY <1>15 DEF SubmitFails
<1>16. ASSUME NEW c \in Cancellers, CancelFails(c) PROVE TypeOK'
  <2>1. NoCancel \in [pc : CancelPC, job : Jobs, seen : JobState]
    BY DEF NoCancel, Jobs
  <2>2. QED
    BY <1>16, <2>1 DEF CancelFails
<1>17. ASSUME NEW t \in Ticks, TickFails(t) PROVE TypeOK'
  BY <1>17 DEF TickFails
<1>18. ASSUME NEW j \in Jobs, TaskFails(j) PROVE TypeOK'
  BY <1>18 DEF TaskFails
<1>19. QED
  BY <1>1, <1>2, <1>3, <1>4, <1>5, <1>6, <1>7, <1>8, <1>9, <1>10, <1>11, <1>12,
     <1>13, <1>14, <1>15, <1>16, <1>17, <1>18 DEF Next

\* The variables keep their types in every reachable state.
THEOREM TypeCorrect == Spec => []TypeOK
BY InitTypeOK, NextTypeOK, PTL DEF Spec

-----------------------------------------------------------------------------
(* A job is never executed twice at once.                                  *)

\* A row exists exactly for the submissions that were accepted.
RowIffAccepted == \A j \in Jobs : state[j] = "absent" <=> submit[j] # "accepted"

\* A tick works through ids it has read from the table.
KnownBatch == \A t \in Ticks : \A j \in batch[t] : state[j] # "absent"

\* A tick that claims, claims a job.
PickIsJob == \A t \in Ticks : tpc[t] \in {"claim", "won"} => pick[t] \in Jobs

\* A won claim is the only thing that holds its job.
WonAlone ==
    \A t \in Ticks, j \in Jobs :
        Won(t, j) => task[j] = "none" /\ \A u \in Ticks \ {t} : ~Won(u, j)

\* What is held has been taken out of the queue.
HeldTaken == \A j \in Jobs : Held(j) => state[j] \notin {"absent", "queued"}

\* Nothing is held while the process is down.
DownHoldsNothing == phase = "down" => \A j \in Jobs : ~Held(j)

IInv ==
    /\ TypeOK
    /\ RowIffAccepted
    /\ KnownBatch
    /\ PickIsJob
    /\ WonAlone
    /\ HeldTaken
    /\ DownHoldsNothing

LEMMA InitIInv == Init => IInv
BY InitTypeOK
   DEF Init, IInv, RowIffAccepted, KnownBatch, PickIsJob, WonAlone, HeldTaken,
       DownHoldsNothing, Won, Held

LEMMA NextIInv == IInv /\ [Next]_vars => IInv'
<1> SUFFICES ASSUME IInv, [Next]_vars PROVE IInv'
  OBVIOUS
<1> TypeOK'
  BY NextTypeOK DEF IInv
<1> USE DEF IInv, TypeOK, RowIffAccepted, KnownBatch, PickIsJob, WonAlone, HeldTaken,
            DownHoldsNothing, Won, Held, Terminal, JobState, RowState
<1>1. ASSUME NEW j \in Jobs, SubmitDebit(j) PROVE IInv'
  BY <1>1 DEF SubmitDebit
<1>2. ASSUME NEW j \in Jobs, SubmitInsert(j) PROVE IInv'
  BY <1>2 DEF SubmitInsert, Nudge
<1>3. ASSUME NEW c \in Cancellers, NEW j \in Jobs, CancelRead(c, j) PROVE IInv'
  BY <1>3 DEF CancelRead
<1>4. ASSUME NEW c \in Cancellers, CancelUpdate(c) PROVE IInv'
  BY <1>4 DEF CancelUpdate
<1>5. ASSUME NEW c \in Cancellers, CancelCredit(c) PROVE IInv'
  BY <1>5 DEF CancelCredit
<1>6. ASSUME NEW t \in Ticks, Tick(t) PROVE IInv'
  <2>1. CASE TickSelectDue(t)
    BY <2>1 DEF TickSelectDue, DueRows, Queued
  <2>2. CASE TickExpire(t)
    BY <2>2 DEF TickExpire
  <2>3. CASE TickRefund(t)
    BY <2>3 DEF TickRefund
  <2>4. CASE TickPending(t)
    BY <2>4 DEF TickPending, Oldest, Queued
  <2>5. CASE TickDecide(t)
    BY <2>5 DEF TickDecide
  <2>6. CASE TickVisit(t)
    BY <2>6 DEF TickVisit
  <2>7. CASE TickEnd(t)
    BY <2>7 DEF TickEnd
  <2>8. CASE TickClaim(t)
    BY <2>8 DEF TickClaim, Claimable
  <2>9. CASE TickLose(t)
    BY <2>9 DEF TickLose
  <2>10. CASE TickSpawn(t)
    BY <2>10 DEF TickSpawn
  <2>11. QED
    BY <1>6, <2>1, <2>2, <2>3, <2>4, <2>5, <2>6, <2>7, <2>8, <2>9, <2>10 DEF Tick
<1>7. ASSUME NEW j \in Jobs, Task(j) PROVE IInv'
  <2>1. CASE TaskReturn(j)
    BY <2>1 DEF TaskReturn
  <2>2. CASE TaskDone(j)
    BY <2>2 DEF TaskDone, Finish
  <2>3. CASE TaskFail(j)
    BY <2>3 DEF TaskFail, Finish
  <2>4. CASE TaskRefund(j)
    BY <2>4 DEF TaskRefund
  <2>5. CASE TaskRequeue(j)
    BY <2>5 DEF TaskRequeue
  <2>6. QED
    BY <1>7, <2>1, <2>2, <2>3, <2>4, <2>5 DEF Task
<1>8. CASE Poll
  BY <1>8 DEF Poll
<1>9. CASE Stop
  BY <1>9 DEF Stop
<1>10. CASE Exit
  BY <1>10 DEF Exit
<1>11. CASE Start
  BY <1>11 DEF Start
<1>12. ASSUME NEW j \in Jobs, Deadline(j) PROVE IInv'
  BY <1>12 DEF Deadline
<1>13. CASE Telemetry
  BY <1>13 DEF Telemetry
<1>14. CASE UNCHANGED vars
  BY <1>14
<1>15. ASSUME NEW j \in Jobs, SubmitFails(j) PROVE IInv'
  BY <1>15 DEF SubmitFails
<1>16. ASSUME NEW c \in Cancellers, CancelFails(c) PROVE IInv'
  BY <1>16 DEF CancelFails, NoCancel, Jobs
<1>17. ASSUME NEW t \in Ticks, TickFails(t) PROVE IInv'
  BY <1>17 DEF TickFails
<1>18. ASSUME NEW j \in Jobs, TaskFails(j) PROVE IInv'
  BY <1>18 DEF TaskFails
<1>19. QED
  BY <1>1, <1>2, <1>3, <1>4, <1>5, <1>6, <1>7, <1>8, <1>9, <1>10, <1>11, <1>12,
     <1>13, <1>14, <1>15, <1>16, <1>17, <1>18 DEF Next

LEMMA SpecIInv == Spec => []IInv
BY InitIInv, NextIInv, PTL DEF Spec

\* A job is held by at most one executor, and by none while it is queued:
\* what the guard inside claim's UPDATE is for.
THEOREM ExclusiveExecution == Spec => []OneExecutor
<1>1. IInv => OneExecutor
  BY DEF IInv, OneExecutor, WonAlone, HeldTaken, Queued
<1>2. QED
  BY SpecIInv, <1>1, PTL

-----------------------------------------------------------------------------
(* A job that has ended stays ended.                                       *)

LEMMA StepKeepsTerminal ==
    IInv /\ [Next]_vars =>
        \A j \in Jobs : state[j] \in Terminal => state'[j] \in Terminal
<1> SUFFICES ASSUME IInv, [Next]_vars, NEW i \in Jobs, state[i] \in Terminal
             PROVE  state'[i] \in Terminal
  OBVIOUS
<1> USE DEF IInv, TypeOK, Terminal
<1>1. ASSUME NEW j \in Jobs, SubmitDebit(j) \/ Deadline(j) PROVE state'[i] \in Terminal
  BY <1>1 DEF SubmitDebit, Deadline
<1>2. ASSUME NEW j \in Jobs, SubmitInsert(j) PROVE state'[i] \in Terminal
  BY <1>2 DEF SubmitInsert, Nudge, RowIffAccepted
<1>3. ASSUME NEW c \in Cancellers, (\E j \in Jobs : CancelRead(c, j)) \/ CancelCredit(c)
      PROVE  state'[i] \in Terminal
  BY <1>3 DEF CancelRead, CancelCredit
<1>4. ASSUME NEW c \in Cancellers, CancelUpdate(c) PROVE state'[i] \in Terminal
  BY <1>4 DEF CancelUpdate
<1>5. ASSUME NEW t \in Ticks, Tick(t) PROVE state'[i] \in Terminal
  <2>1. CASE TickExpire(t)
    BY <2>1 DEF TickExpire
  <2>2. CASE TickClaim(t)
    BY <2>2 DEF TickClaim, Claimable
  <2>3. CASE ~TickExpire(t) /\ ~TickClaim(t)
    BY <1>5, <2>3 DEF Tick, TickSelectDue, TickRefund, TickPending, TickDecide, TickVisit,
       TickEnd, TickLose, TickSpawn
  <2>4. QED
    BY <2>1, <2>2, <2>3
<1>6. ASSUME NEW j \in Jobs, Task(j) PROVE state'[i] \in Terminal
  BY <1>6 DEF Task, TaskReturn, TaskDone, TaskFail, TaskRefund, TaskRequeue, Finish
<1>7. CASE Start
  BY <1>7 DEF Start
<1>8. CASE Poll \/ Stop \/ Exit \/ Telemetry \/ UNCHANGED vars
  BY <1>8 DEF Poll, Stop, Exit, Telemetry
<1>9. ASSUME \/ \E j \in Jobs : SubmitFails(j) \/ TaskFails(j)
             \/ \E c \in Cancellers : CancelFails(c)
             \/ \E t \in Ticks : TickFails(t)
      PROVE  state'[i] \in Terminal
  BY <1>9 DEF SubmitFails, TaskFails, CancelFails, TickFails
<1>10. QED
  BY <1>1, <1>2, <1>3, <1>4, <1>5, <1>6, <1>7, <1>8, <1>9 DEF Next

\* No step of a handler, of a tick, of a task or of a restart takes a job out
\* of a terminal state: no answer is thrown away to run the job again.
THEOREM EndIsFinal == Spec => TerminalIsFinal
<1>1. IInv /\ [Next]_vars =>
        [\A j \in Jobs : state[j] \in Terminal => state'[j] \in Terminal]_vars
  BY StepKeepsTerminal
<1>2. QED
  BY SpecIInv, <1>1, PTL DEF Spec, TerminalIsFinal

-----------------------------------------------------------------------------
(* JobQueue implements JobLifecycle.                                       *)

LEMMA InitPromise == Init => Promise!Init
BY DEF Init, Promise!Init, Status, Active, Held, Won, Terminal

\* A step that ends the jobs of S and lets no one take a job.
LEMMA EndsPromise ==
    ASSUME NEW S \in SUBSET {j \in Jobs : state[j] # "absent"},
           TypeOK, Active' \subseteq Active,
           Status' = [j \in Jobs |-> IF j \in S THEN "ended" ELSE Status[j]]
    PROVE  Promise!EndJobs
BY DEF Promise!EndJobs, Status, TypeOK, Terminal

\* A step that only lets jobs go.
LEMMA ReleasePromise ==
    ASSUME TypeOK, Active' \subseteq Active, UNCHANGED Status
    PROVE  Promise!EndJobs
<1>1. Status' = [j \in Jobs |-> IF j \in {} THEN "ended" ELSE Status[j]]
  BY DEF Status
<1>2. {} \in SUBSET {j \in Jobs : state[j] # "absent"}
  OBVIOUS
<1>3. QED
  BY <1>1, <1>2, EndsPromise

LEMMA NextPromise == IInv /\ [Next]_vars => [Promise!Next]_<<Status, Active>>
<1> SUFFICES ASSUME IInv, [Next]_vars PROVE Promise!Next \/ UNCHANGED <<Status, Active>>
  OBVIOUS
<1> TypeOK'
  BY NextTypeOK DEF IInv
<1> USE DEF IInv
<1>1. ASSUME NEW j \in Jobs, SubmitDebit(j) \/ Deadline(j) PROVE UNCHANGED <<Status, Active>>
  BY <1>1 DEF SubmitDebit, Deadline, Status, Active, Held, Won
<1>2. ASSUME NEW j \in Jobs, SubmitInsert(j) PROVE Promise!Accept(j)
  <2>1. state[j] = "absent" /\ state' = [state EXCEPT ![j] = "queued"]
    BY <1>2 DEF SubmitInsert, Nudge, RowIffAccepted
  <2>2. Status' = [Status EXCEPT ![j] = "queued"] /\ Status[j] = "absent"
    BY <2>1 DEF Status, Terminal, TypeOK
  <2>3. UNCHANGED Active
    BY <1>2 DEF SubmitInsert, Nudge, Active, Held, Won, TypeOK
  <2>4. QED
    BY <2>2, <2>3 DEF Promise!Accept
<1>3. ASSUME NEW c \in Cancellers, (\E j \in Jobs : CancelRead(c, j)) \/ CancelCredit(c)
      PROVE  UNCHANGED <<Status, Active>>
  BY <1>3 DEF CancelRead, CancelCredit, Status, Active, Held, Won
<1>4. ASSUME NEW c \in Cancellers, CancelUpdate(c)
      PROVE  Promise!EndJobs \/ UNCHANGED <<Status, Active>>
  <2>1. UNCHANGED Active /\ canc[c].job \in Jobs
    BY <1>4 DEF CancelUpdate, Active, Held, Won, TypeOK
  <2>2. CASE state[canc[c].job] \in {"queued", "running"}
    <3>1. state' = [state EXCEPT ![canc[c].job] = "cancelled"]
      BY <1>4, <2>2 DEF CancelUpdate
    <3>2. Status' = [j \in Jobs |-> IF j \in {canc[c].job} THEN "ended" ELSE Status[j]]
      BY <3>1, <2>1 DEF Status, Terminal, TypeOK
    <3>3. QED
      BY <2>1, <2>2, <3>2, EndsPromise
  <2>3. CASE state[canc[c].job] \notin {"queued", "running"}
    BY <1>4, <2>1, <2>3 DEF CancelUpdate, Status
  <2>4. QED
    BY <2>2, <2>3
<1>5. ASSUME NEW t \in Ticks, Tick(t)
      PROVE  Promise!Next \/ UNCHANGED <<Status, Active>>
  <2>1. CASE TickExpire(t)
    <3>1. state' = [j \in Jobs |-> IF j \in batch[t] THEN "expired" ELSE state[j]]
      BY <2>1 DEF TickExpire
    <3>2. Status' = [j \in Jobs |-> IF j \in batch[t] THEN "ended" ELSE Status[j]]
      BY <3>1 DEF Status, Terminal, TypeOK
    <3>3. UNCHANGED Active
      BY <2>1 DEF TickExpire, Active, Held, Won, TypeOK
    <3>4. batch[t] \in SUBSET {j \in Jobs : state[j] # "absent"}
      BY DEF KnownBatch, TypeOK
    <3>5. Promise!EndJobs
      BY <3>2, <3>3, <3>4, EndsPromise
    <3>6. QED
      BY <3>5 DEF Promise!Next
  <2>2. CASE TickClaim(t)
    <3> DEFINE j == pick[t]
    <3>1. j \in Jobs /\ state[j] = "queued" /\ ~Held(j)
      BY <2>2 DEF TickClaim, Claimable, PickIsJob, HeldTaken
    <3>2. state' = [state EXCEPT ![j] = "running"]
      BY <2>2 DEF TickClaim
    <3>3. Status[j] = "queued" /\ Status' = [Status EXCEPT ![j] = "running"]
      BY <3>1, <3>2 DEF Status, Terminal, TypeOK
    <3>4. Active' = Active \cup {j}
      BY <2>2, <3>1 DEF TickClaim, Active, Held, Won, TypeOK
    <3>5. Promise!StartJob(j)
      BY <3>1, <3>3, <3>4 DEF Promise!StartJob, Active
    <3>6. QED
      BY <3>1, <3>5 DEF Promise!Next
  <2>3. CASE TickSpawn(t)
    <3>1. UNCHANGED Status
      BY <2>3 DEF TickSpawn, Status
    <3>2. UNCHANGED Active
      BY <2>3 DEF TickSpawn, Active, Held, Won, TypeOK, PickIsJob
    <3>3. QED
      BY <3>1, <3>2
  <2>4. CASE ~TickExpire(t) /\ ~TickClaim(t) /\ ~TickSpawn(t)
    <3>1. UNCHANGED Status
      BY <1>5, <2>4 DEF Tick, TickSelectDue, TickRefund, TickPending, TickDecide, TickVisit,
         TickEnd, TickLose, Status
    <3>2. UNCHANGED Active
      BY <1>5, <2>4 DEF Tick, TickSelectDue, TickRefund, TickPending, TickDecide, TickVisit,
         TickEnd, TickLose, Active, Held, Won, TypeOK
    <3>3. QED
      BY <3>1, <3>2
  <2>5. QED
    BY <2>1, <2>2, <2>3, <2>4
<1>6. ASSUME NEW j \in Jobs, Task(j)
      PROVE  Promise!Next \/ UNCHANGED <<Status, Active>>
  <2>1. CASE TaskReturn(j)
    BY <2>1 DEF TaskReturn, Status, Active, Held, Won, TypeOK
  <2>2. CASE TaskDone(j) \/ TaskFail(j)
    <3>1. state[j] # "absent"
      BY <2>2 DEF TaskDone, TaskFail, HeldTaken, Held
    <3>2. Status' = [k \in Jobs |-> IF k \in {j} THEN "ended" ELSE Status[k]]
      BY <2>2 DEF TaskDone, TaskFail, Finish, Status, Terminal, TypeOK
    <3>3. Active' \subseteq Active
      BY <2>2 DEF TaskDone, TaskFail, Active, Held, Won, TypeOK
    <3>4. Promise!EndJobs
      BY <3>1, <3>2, <3>3, EndsPromise
    <3>5. QED
      BY <3>4 DEF Promise!Next
  <2>3. CASE TaskRefund(j)
    <3>1. UNCHANGED Status
      BY <2>3 DEF TaskRefund, Status
    <3>2. Active' \subseteq Active
      BY <2>3 DEF TaskRefund, Active, Held, Won, TypeOK
    <3>3. Promise!EndJobs
      BY <3>1, <3>2, ReleasePromise
    <3>4. QED
      BY <3>3 DEF Promise!Next
  <2>4. CASE TaskRequeue(j)
    <3> DEFINE S == {k \in {j} : state[k] = "running"}
    <3>1. Active' \subseteq Active /\ j \notin Active'
      BY <2>4 DEF TaskRequeue, Active, Held, Won, TypeOK, WonAlone
    <3>2. Status' = [k \in Jobs |-> IF k \in S THEN "queued" ELSE Status[k]]
      BY <2>4 DEF TaskRequeue, Status, Terminal, TypeOK
    <3>3. S \in SUBSET {k \in Jobs \ Active' : Status[k] = "running"}
      BY <3>1 DEF Status, Terminal
    <3>4. Promise!Return
      BY <3>1, <3>2, <3>3 DEF Promise!Return
    <3>5. QED
      BY <3>4 DEF Promise!Next
  <2>5. QED
    BY <1>6, <2>1, <2>2, <2>3, <2>4 DEF Task
<1>7. CASE Poll \/ Telemetry \/ UNCHANGED vars
  BY <1>7 DEF Poll, Telemetry, Status, Active, Held, Won, TypeOK
<1>8. CASE Stop \/ Exit
  <2>1. Active' \subseteq Active
    BY <1>8 DEF Stop, Exit, Active, Held, Won, TypeOK
  <2>2. UNCHANGED Status
    BY <1>8 DEF Stop, Exit, Status
  <2>3. Promise!EndJobs
    BY <2>1, <2>2, ReleasePromise
  <2>4. QED
    BY <2>3 DEF Promise!Next
<1>9. CASE Start
  <2>1. PICK S \in SUBSET {j \in Jobs : state[j] = "running"} :
            state' = [j \in Jobs |-> IF j \in S THEN "queued" ELSE state[j]]
    BY <1>9 DEF Start
  <2>2. Active = {} /\ Active' = {}
    BY <1>9 DEF Start, DownHoldsNothing, Active, Held, Won
  <2>3. Status' = [j \in Jobs |-> IF j \in S THEN "queued" ELSE Status[j]]
    BY <2>1 DEF Status, Terminal, TypeOK
  <2>4. S \in SUBSET {j \in Jobs \ Active' : Status[j] = "running"}
    BY <2>1, <2>2 DEF Status, Terminal
  <2>5. Promise!Return
    BY <2>2, <2>3, <2>4 DEF Promise!Return
  <2>6. QED
    BY <2>5 DEF Promise!Next
<1>10. ASSUME \/ \E j \in Jobs : SubmitFails(j)
              \/ \E c \in Cancellers : CancelFails(c)
              \/ \E t \in Ticks : TickFails(t)
       PROVE  UNCHANGED <<Status, Active>>
  BY <1>10 DEF SubmitFails, CancelFails, TickFails, Status, Active, Held, Won, TypeOK
<1>11. ASSUME NEW j \in Jobs, TaskFails(j) PROVE Promise!Next
  <2>1. UNCHANGED Status
    BY <1>11 DEF TaskFails, Status
  <2>2. Active' \subseteq Active
    BY <1>11 DEF TaskFails, Active, Held, Won, TypeOK
  <2>3. Promise!EndJobs
    BY <2>1, <2>2, ReleasePromise
  <2>4. QED
    BY <2>3 DEF Promise!Next
<1>12. QED
  BY <1>1, <1>2, <1>3, <1>4, <1>5, <1>6, <1>7, <1>8, <1>9, <1>10, <1>11
     DEF Next, Promise!Next

\* The table, the scheduler and the handlers together keep the promise of
\* JobLifecycle, whatever interleaving, crash or restart they go through.
THEOREM ImplementsLifecycle == Spec => KeepsPromise
<1>1. Init => Promise!Init
  BY InitPromise
<1>2. IInv /\ [Next]_vars => [Promise!Next]_<<Status, Active>>
  BY NextPromise
<1>3. QED
  BY SpecIInv, <1>1, <1>2, PTL DEF Spec, KeepsPromise, Promise!Spec

-----------------------------------------------------------------------------
(* With one tick at a time and no cancel request, a stake is returned once *)
(* and never for an answer.                                                *)

\* Rows that a tick has selected for expiry are queued until it expires them,
\* and a tick refunds only what it has expired.
LoopOwnsBatch ==
    /\ tpc[Loop] = "expire" => \A j \in batch[Loop] : state[j] = "queued"
    /\ tpc[Loop] = "refund" => \A j \in batch[Loop] : state[j] = "expired"

\* The row of a held job says how far its executor is.
RowFollowsTask ==
    /\ \A j \in Jobs : task[j] \in {"exec", "done", "fail", "requeue"} => state[j] = "running"
    /\ \A j \in Jobs : task[j] = "refund" => state[j] = "failed"
    /\ \A j \in Jobs : Won(Loop, j) => state[j] = "running"

\* A stake that is back belongs to a job that nobody will refund again.
RefundedOnce ==
    \A j \in Jobs : refunds[j] # 0 =>
        /\ refunds[j] = 1
        /\ state[j] \in {"expired", "failed"}
        /\ task[j] = "none"
        /\ ~(tpc[Loop] = "refund" /\ j \in batch[Loop])

SInv == LoopOwnsBatch /\ RowFollowsTask /\ RefundedOnce

LEMMA NextSInv == Serial /\ IInv /\ SInv /\ [Next]_vars => SInv'
<1> SUFFICES ASSUME Serial, IInv, SInv, [Next]_vars PROVE SInv'
  OBVIOUS
<1>0. Ticks = {Loop} /\ Loop \in Ticks /\ Cancellers = {}
  BY DEF Serial
<1> USE DEF IInv, TypeOK, SInv, LoopOwnsBatch, RowFollowsTask, RefundedOnce, Won
<1>1. ASSUME NEW j \in Jobs, SubmitDebit(j) \/ Deadline(j) PROVE SInv'
  BY <1>1 DEF SubmitDebit, Deadline
<1>2. ASSUME NEW j \in Jobs, SubmitInsert(j) PROVE SInv'
  BY <1>0, <1>2 DEF SubmitInsert, Nudge, RowIffAccepted, KnownBatch, Serial
<1>3. ASSUME Tick(Loop) PROVE SInv'
  <2>1. CASE TickSelectDue(Loop)
    BY <1>0, <2>1 DEF TickSelectDue, DueRows, Queued
  <2>2. CASE TickExpire(Loop)
    BY <1>0, <2>2 DEF TickExpire
  <2>3. CASE TickRefund(Loop)
    <3>1. PICK j \in batch[Loop] :
            /\ Credited(j)
            /\ batch' = [batch EXCEPT ![Loop] = @ \ {j}]
            /\ tpc' = [tpc EXCEPT ![Loop] = IF batch[Loop] = {j} THEN "pending" ELSE @]
      BY <2>3 DEF TickRefund
    <3>2. j \in Jobs /\ state[j] = "expired" /\ task[j] = "none" /\ refunds[j] = 0
      BY <1>0, <2>3 DEF TickRefund, TaskPC
    <3>3. /\ \A i \in Jobs \ {j} : refunds'[i] = refunds[i]
          /\ refunds'[j] \in {0, 1}
      BY <3>1, <3>2 DEF Credited
    <3>4. batch'[Loop] = batch[Loop] \ {j} /\ tpc'[Loop] \in {"refund", "pending"}
      BY <1>0, <2>3, <3>1 DEF TickRefund
    <3>5. UNCHANGED <<state, pick, task>>
      BY <2>3 DEF TickRefund
    <3>6. QED
      BY <1>0, <2>3, <3>2, <3>3, <3>4, <3>5 DEF TickRefund
  <2>4. CASE TickPending(Loop)
    BY <1>0, <2>4 DEF TickPending
  <2>5. CASE TickDecide(Loop)
    BY <1>0, <2>5 DEF TickDecide
  <2>6. CASE TickVisit(Loop) \/ TickEnd(Loop)
    BY <1>0, <2>6 DEF TickVisit, TickEnd
  <2>7. CASE TickClaim(Loop)
    BY <1>0, <2>7 DEF TickClaim, Claimable, HeldTaken, Held
  <2>8. CASE TickLose(Loop)
    BY <1>0, <2>8 DEF TickLose
  <2>9. CASE TickSpawn(Loop)
    BY <1>0, <2>9 DEF TickSpawn
  <2>10. QED
    BY <1>3, <2>1, <2>2, <2>3, <2>4, <2>5, <2>6, <2>7, <2>8, <2>9 DEF Tick
<1>4. ASSUME NEW j \in Jobs, Task(j) PROVE SInv'
  <2>1. CASE TaskReturn(j)
    BY <2>1 DEF TaskReturn
  <2>2. CASE TaskDone(j)
    BY <1>0, <2>2 DEF TaskDone, Finish, WonAlone
  <2>3. CASE TaskFail(j)
    BY <1>0, <2>3 DEF TaskFail, Finish, WonAlone
  <2>4. CASE TaskRefund(j)
    BY <2>4 DEF TaskRefund, Credited
  <2>5. CASE TaskRequeue(j)
    BY <1>0, <2>5 DEF TaskRequeue, WonAlone
  <2>6. QED
    BY <1>4, <2>1, <2>2, <2>3, <2>4, <2>5 DEF Task
<1>5. CASE Poll
  BY <1>0, <1>5 DEF Poll
<1>6. CASE Stop
  BY <1>0, <1>6 DEF Stop
<1>7. CASE Exit
  BY <1>0, <1>7 DEF Exit
<1>8. CASE Start
  <2>1. PICK S \in SUBSET {j \in Jobs : state[j] = "running"} :
            state' = [j \in Jobs |-> IF j \in S THEN "queued" ELSE state[j]]
    BY <1>8 DEF Start
  <2>2. \A j \in Jobs : task[j] = "none" /\ ~Won(Loop, j)
    BY <1>0, <1>8 DEF Start, DownHoldsNothing, Held
  <2>3. QED
    BY <1>0, <1>8, <2>1, <2>2 DEF Start
<1>9. CASE Telemetry \/ UNCHANGED vars
  BY <1>9 DEF Telemetry
<1>10. ASSUME NEW j \in Jobs, SubmitFails(j) \/ TaskFails(j) PROVE SInv'
  BY <1>0, <1>10 DEF SubmitFails, TaskFails
<1>11. CASE TickFails(Loop)
  BY <1>0, <1>11 DEF TickFails
<1>12. QED
  BY <1>0, <1>1, <1>2, <1>3, <1>4, <1>5, <1>6, <1>7, <1>8, <1>9, <1>10, <1>11 DEF Next

\* The refunds of tick and _run agree as long as ticks do not overlap: a stake
\* comes back at most once, and not at all for a job that was answered.
THEOREM SerialRefundsOnce == Spec => []SerialRefund
<1>1. Init => SInv
  BY DEF Init, SInv, LoopOwnsBatch, RowFollowsTask, RefundedOnce, Won
<1>2. CASE Serial
  <2>1. SInv => SerialRefund
    BY DEF SInv, RefundedOnce, SerialRefund
  <2>2. IInv /\ SInv /\ [Next]_vars => SInv'
    BY <1>2, NextSInv
  <2>3. QED
    BY SpecIInv, <1>1, <2>1, <2>2, PTL DEF Spec
<1>3. CASE ~Serial
  <2>1. SerialRefund
    BY <1>3 DEF SerialRefund
  <2>2. QED
    BY <2>1, PTL
<1>4. QED
  BY <1>2, <1>3

-----------------------------------------------------------------------------
(* How far overlapping ticks can exceed max_concurrent.                    *)

\* Ticks that have passed the check and will create a task.
Claiming == {t \in Ticks : tpc[t] \in {"claim", "won"}}

Bounded == Cardinality(Running) + Cardinality(Claiming) <= MaxConcurrent + Cardinality(Nudges)

LEMMA Finite ==
    /\ IsFiniteSet(Ticks) /\ Cardinality(Ticks) = Cardinality(Nudges) + 1
    /\ IsFiniteSet(Running) /\ IsFiniteSet(Claiming)
    /\ Cardinality(Running) \in Nat /\ Cardinality(Claiming) \in Nat
    /\ Cardinality(Nudges) \in Nat
<1>1. IsFiniteSet(Ticks) /\ Cardinality(Ticks) = Cardinality(Nudges) + 1
  BY TicksAssumption, FS_AddElement
<1>2. IsFiniteSet(Jobs)
  BY NJobsAssumption, FS_Interval DEF Jobs
<1>3. IsFiniteSet(Running) /\ IsFiniteSet(Claiming)
  BY <1>1, <1>2, FS_Subset DEF Running, Claiming
<1>4. QED
  BY <1>1, <1>3, TicksAssumption, FS_CardinalityType

\* A step after which no more is running and no more is claiming.
LEMMA ShrinkBounded ==
    ASSUME Bounded, Running' \subseteq Running, Claiming' \subseteq Claiming
    PROVE  Bounded'
<1>1. /\ Cardinality(Running') <= Cardinality(Running) /\ Cardinality(Running') \in Nat
      /\ Cardinality(Claiming') <= Cardinality(Claiming) /\ Cardinality(Claiming') \in Nat
  BY Finite, FS_Subset, FS_CardinalityType
<1>2. QED
  BY <1>1, Finite, LimitAssumption DEF Bounded

LEMMA NextBounded == IInv /\ Bounded /\ [Next]_vars => Bounded'
<1> SUFFICES ASSUME IInv, Bounded, [Next]_vars PROVE Bounded'
  OBVIOUS
<1> USE DEF IInv, TypeOK
<1>1. ASSUME NEW t \in Ticks, TickVisit(t) PROVE Bounded'
  <2>1. Cardinality(Running) < MaxConcurrent
    BY <1>1, Finite, LimitAssumption DEF TickVisit, Busy
  <2>2. Running' = Running
    BY <1>1 DEF TickVisit, Running
  <2>3. Claiming' \subseteq Ticks
    BY DEF Claiming
  <2>4. Cardinality(Claiming') <= Cardinality(Nudges) + 1 /\ Cardinality(Claiming') \in Nat
    BY <2>3, Finite, FS_Subset, FS_CardinalityType
  <2>5. QED
    BY <2>1, <2>2, <2>4, Finite, LimitAssumption DEF Bounded
<1>2. ASSUME NEW t \in Ticks, TickSpawn(t) PROVE Bounded'
  <2>1. pick[t] \in Jobs /\ t \in Claiming
    BY <1>2 DEF TickSpawn, PickIsJob, Claiming
  <2>2. Running' = Running \cup {pick[t]} /\ Claiming' = Claiming \ {t}
    BY <1>2, <2>1 DEF TickSpawn, Running, Claiming
  <2>3. Cardinality(Running') <= Cardinality(Running) + 1 /\ Cardinality(Running') \in Nat
    <3>1. IsFiniteSet(Running)
      BY Finite
    <3>2. Cardinality(Running \cup {pick[t]}) =
            IF pick[t] \in Running THEN Cardinality(Running) ELSE Cardinality(Running) + 1
      BY <3>1, FS_AddElement
    <3>3. Cardinality(Running \cup {pick[t]}) \in {Cardinality(Running), Cardinality(Running) + 1}
      BY <3>2
    <3>4. QED
      BY <2>2, <3>3, Finite
  <2>4. Cardinality(Claiming') = Cardinality(Claiming) - 1
    BY <2>1, <2>2, Finite, FS_RemoveElement
  <2>5. QED
    BY <2>3, <2>4, Finite, LimitAssumption DEF Bounded
<1>3. ASSUME NEW t \in Ticks, Tick(t), ~TickVisit(t), ~TickSpawn(t) PROVE Bounded'
  <2>1. Running' = Running
    BY <1>3 DEF Tick, TickSelectDue, TickExpire, TickRefund, TickPending, TickDecide,
       TickEnd, TickClaim, TickLose, Running
  <2>2. Claiming' \subseteq Claiming
    BY <1>3 DEF Tick, TickSelectDue, TickExpire, TickRefund, TickPending, TickDecide,
       TickEnd, TickClaim, TickLose, Claiming
  <2>3. QED
    BY <2>1, <2>2, ShrinkBounded
<1>4. ASSUME NEW j \in Jobs, Task(j) PROVE Bounded'
  <2>1. Running' \subseteq Running
    BY <1>4 DEF Task, TaskReturn, TaskDone, TaskFail, TaskRefund, TaskRequeue, Running
  <2>2. Claiming' = Claiming
    BY <1>4 DEF Task, TaskReturn, TaskDone, TaskFail, TaskRefund, TaskRequeue, Claiming
  <2>3. QED
    BY <2>1, <2>2, ShrinkBounded
<1>5. ASSUME NEW j \in Jobs, SubmitDebit(j) \/ SubmitInsert(j) \/ Deadline(j) PROVE Bounded'
  <2>1. Running' = Running
    BY <1>5 DEF SubmitDebit, SubmitInsert, Nudge, Deadline, Running
  <2>2. Claiming' = Claiming
    BY <1>5 DEF SubmitDebit, SubmitInsert, Nudge, Deadline, Claiming
  <2>3. QED
    BY <2>1, <2>2, ShrinkBounded
<1>6. ASSUME NEW c \in Cancellers,
             (\E j \in Jobs : CancelRead(c, j)) \/ CancelUpdate(c) \/ CancelCredit(c)
      PROVE  Bounded'
  <2>1. Running' = Running /\ Claiming' = Claiming
    BY <1>6 DEF CancelRead, CancelUpdate, CancelCredit, Running, Claiming
  <2>2. QED
    BY <2>1, ShrinkBounded
<1>7. CASE Poll \/ Stop \/ Exit \/ Start \/ Telemetry \/ UNCHANGED vars
  <2>1. Running' \subseteq Running
    BY <1>7 DEF Poll, Stop, Exit, Start, Telemetry, Running
  <2>2. Claiming' \subseteq Claiming
    BY <1>7 DEF Poll, Stop, Exit, Start, Telemetry, Claiming
  <2>3. QED
    BY <2>1, <2>2, ShrinkBounded
<1>8. ASSUME \/ \E j \in Jobs : SubmitFails(j) \/ TaskFails(j)
             \/ \E c \in Cancellers : CancelFails(c)
             \/ \E t \in Ticks : TickFails(t)
      PROVE  Bounded'
  <2>1. Running' \subseteq Running
    BY <1>8 DEF SubmitFails, TaskFails, CancelFails, TickFails, Running
  <2>2. Claiming' \subseteq Claiming
    BY <1>8 DEF SubmitFails, TaskFails, CancelFails, TickFails, Claiming
  <2>3. QED
    BY <2>1, <2>2, ShrinkBounded
<1>9. QED
  BY <1>1, <1>2, <1>3, <1>4, <1>5, <1>6, <1>7, <1>8 DEF Next

\* However many ticks overlap, each exceeds max_concurrent by its own one task
\* at most.
THEOREM ConcurrencyBounded == Spec => []ConcurrencyBound
<1>1. Init => Bounded
  <2>1. SUFFICES ASSUME Init PROVE Bounded
    OBVIOUS
  <2>2. Running = {} /\ Claiming = {}
    BY <2>1 DEF Init, Running, Claiming
  <2>3. QED
    BY <2>2, Finite, FS_EmptySet, LimitAssumption DEF Bounded
<1>2. Bounded => ConcurrencyBound
  BY Finite, LimitAssumption DEF Bounded, ConcurrencyBound
<1>3. QED
  BY SpecIInv, NextBounded, <1>1, <1>2, PTL DEF Spec


-----------------------------------------------------------------------------
(* Until the first stop or crash, no claim and no stake is stranded but by *)
(* the failure of its own write.                                           *)

\* A task that is about to return the stake has written its job's end, which
\* an overlapping expiry may have overwritten with another.
RefundAfterEnd == \A j \in Jobs : task[j] = "refund" => state[j] \in Terminal

\* start() finds the table as a process that has ended left it.
DownAfterExit == phase = "down" => exits > 0

KInv == NothingStranded /\ RefundAfterEnd /\ DownAfterExit

LEMMA NextKInv == IInv /\ KInv /\ [Next]_vars => KInv'
<1> SUFFICES ASSUME IInv, KInv, [Next]_vars PROVE KInv'
  OBVIOUS
<1> TypeOK'
  BY NextTypeOK DEF IInv
<1> USE DEF IInv, TypeOK, Terminal, KInv, NothingStranded, ClaimIsHeld, StakeReturned,
            RefundPending, RefundAfterEnd, DownAfterExit, Held, Won
<1>1. ASSUME NEW j \in Jobs, SubmitDebit(j) PROVE KInv'
  BY <1>1 DEF SubmitDebit, RowIffAccepted
<1>2. ASSUME NEW j \in Jobs, SubmitInsert(j) PROVE KInv'
  BY <1>2 DEF SubmitInsert, Nudge, RowIffAccepted, HeldTaken
<1>3. ASSUME NEW c \in Cancellers, NEW j \in Jobs, CancelRead(c, j) PROVE KInv'
  BY <1>3 DEF CancelRead
<1>4. ASSUME NEW c \in Cancellers, CancelUpdate(c) PROVE KInv'
  BY <1>4 DEF CancelUpdate
<1>5. ASSUME NEW c \in Cancellers, CancelCredit(c) PROVE KInv'
  BY <1>5 DEF CancelCredit
<1>6. ASSUME NEW t \in Ticks, Tick(t) PROVE KInv'
  <2>1. CASE TickSelectDue(t)
    BY <2>1 DEF TickSelectDue
  <2>2. CASE TickExpire(t)
    BY <2>2 DEF TickExpire
  <2>3. CASE TickRefund(t)
    BY <2>3 DEF TickRefund, Credited
  <2>4. CASE TickPending(t)
    BY <2>4 DEF TickPending
  <2>5. CASE TickDecide(t)
    BY <2>5 DEF TickDecide
  <2>6. CASE TickVisit(t)
    BY <2>6 DEF TickVisit
  <2>7. CASE TickEnd(t)
    BY <2>7 DEF TickEnd
  <2>8. CASE TickClaim(t)
    BY <2>8 DEF TickClaim, Claimable, HeldTaken, PickIsJob
  <2>9. CASE TickLose(t)
    BY <2>9 DEF TickLose
  <2>10. CASE TickSpawn(t)
    BY <2>10 DEF TickSpawn, PickIsJob, WonAlone
  <2>11. QED
    BY <1>6, <2>1, <2>2, <2>3, <2>4, <2>5, <2>6, <2>7, <2>8, <2>9, <2>10 DEF Tick
<1>7. ASSUME NEW j \in Jobs, Task(j) PROVE KInv'
  <2>1. CASE TaskReturn(j)
    BY <2>1 DEF TaskReturn
  <2>2. CASE TaskDone(j)
    BY <2>2 DEF TaskDone, Finish
  <2>3. CASE TaskFail(j)
    BY <2>3 DEF TaskFail, Finish
  <2>4. CASE TaskRefund(j)
    BY <2>4 DEF TaskRefund, Credited
  <2>5. CASE TaskRequeue(j)
    BY <2>5 DEF TaskRequeue
  <2>6. QED
    BY <1>7, <2>1, <2>2, <2>3, <2>4, <2>5 DEF Task
<1>8. CASE Poll
  BY <1>8 DEF Poll
<1>9. CASE Stop
  BY <1>9 DEF Stop
<1>10. CASE Exit
  BY <1>10 DEF Exit
<1>11. CASE Start
  BY <1>11 DEF Start, DownHoldsNothing
<1>12. ASSUME NEW j \in Jobs, Deadline(j) PROVE KInv'
  BY <1>12 DEF Deadline
<1>13. CASE Telemetry
  BY <1>13 DEF Telemetry
<1>14. CASE UNCHANGED vars
  BY <1>14
<1>15. ASSUME NEW j \in Jobs, SubmitFails(j) PROVE KInv'
  BY <1>15 DEF SubmitFails
<1>16. ASSUME NEW c \in Cancellers, CancelFails(c) PROVE KInv'
  BY <1>16 DEF CancelFails, NoCancel, Jobs
<1>17. ASSUME NEW t \in Ticks, TickFails(t) PROVE KInv'
  BY <1>17 DEF TickFails
<1>18. ASSUME NEW j \in Jobs, TaskFails(j) PROVE KInv'
  BY <1>18 DEF TaskFails
<1>19. QED
  BY <1>1, <1>2, <1>3, <1>4, <1>5, <1>6, <1>7, <1>8, <1>9, <1>10, <1>11, <1>12,
     <1>13, <1>14, <1>15, <1>16, <1>17, <1>18 DEF Next

\* Until the process is first stopped or killed, every RUNNING row has an
\* executor, and the stake of a job that expired or failed is back or on its
\* way, whatever ticks, tasks and cancel requests overwrite of each other's and
\* whatever the database refuses them, but for the jobs whose own end or whose
\* own credit it refused: finish raises out of _run, and _refund does not try
\* again.
THEOREM NothingIsStranded == Spec => []NothingStranded
<1>1. Init => KInv
  BY DEF Init, KInv, NothingStranded, ClaimIsHeld, StakeReturned, RefundAfterEnd, DownAfterExit
<1>2. KInv => NothingStranded
  BY DEF KInv
<1>3. QED
  BY SpecIInv, NextKInv, <1>1, <1>2, PTL DEF Spec
=============================================================================
