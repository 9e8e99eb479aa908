------------------------------- MODULE Hyphae -------------------------------
(***************************************************************************)
(* The coding harness of examples/hyphae: one run of its engine.           *)
(*                                                                         *)
(* A request is planned into a graph of tasks.  All tasks whose            *)
(* prerequisites are done run at once: each generates files, has them      *)
(* validated, writes them into the one workspace and runs the test suite   *)
(* under a lock, has them reviewed without it, and takes them back when    *)
(* the tests or the review say no.  Critical tasks are generated by three  *)
(* devices that vote.                                                      *)
(***************************************************************************)
EXTENDS Naturals, FiniteSets

CONSTANTS
    Cards,          \* of the plan
    Depends,        \* a task's prerequisites
    Complexity,     \* "analysis", "simple", "medium", "critical"
    Files,          \* of the workspace
    Devices,        \* how many devices the roles are spread over
    Plans,          \* MAX_PLAN_ATTEMPTS
    Iterations,     \* max_iterations of a task
    Micros,         \* max_micro_iterations
    None

Kinds == {"analysis", "simple", "medium", "critical"}

ASSUME CardsAssumption == Complexity \in [Cards -> Kinds] /\ None \notin Cards
ASSUME BoundsAssumption == {Devices, Plans, Iterations} \subseteq Nat \ {0} /\ Micros \in Nat

VARIABLES
    stage,      \* "plan", "run", "ended", "raised"
    plans,      \* invalid plans so far
    batch,      \* the tasks that were started together
    at,         \* "blocked", "generate", "micro", "apply", "test", "review", "undo", "vote",
                \* "done", "failed"
    iteration, micro,
    files,      \* the paths a task's last output holds
    disk,       \* who wrote a path last, None for what was there before the run
    snapshot,   \* what a task found when it wrote
    lock,       \* _verify_lock
    drafts,     \* tasks the scout has drafted
    contested   \* two tasks in flight have written one path

attempts == <<iteration, micro>>
hyVars == <<stage, plans, batch, at, attempts, files, disk, snapshot, lock, drafts, contested>>

InFlight == {"generate", "micro", "apply", "test", "review", "undo", "vote"}
\* Its files are in the workspace, and may still be taken back.
Written == {"test", "review", "undo"}

HyTypeOK ==
    /\ stage \in {"plan", "run", "ended", "raised"} /\ plans \in 0 .. Plans
    /\ batch \subseteq Cards
    /\ at \in [Cards -> InFlight \cup {"blocked", "done", "failed"}]
    /\ iteration \in [Cards -> 0 .. Iterations] /\ micro \in [Cards -> 0 .. Micros]
    /\ files \in [Cards -> SUBSET Files] /\ disk \in [Files -> Cards \cup {None}]
    /\ snapshot \in [Cards -> UNION {[paths -> Cards \cup {None}] : paths \in SUBSET Files}]
    /\ lock \in Cards \cup {None} /\ drafts \subseteq Cards /\ contested \in BOOLEAN

Nothing == [f \in {} |-> None]

HyInit ==
    /\ stage = "plan" /\ plans = 0 /\ batch = {}
    /\ at = [t \in Cards |-> "blocked"]
    /\ iteration = [t \in Cards |-> 0] /\ micro = [t \in Cards |-> 0]
    /\ files = [t \in Cards |-> {}] /\ disk = [f \in Files |-> None]
    /\ snapshot = [t \in Cards |-> Nothing]
    /\ lock = None /\ drafts = {} /\ contested = FALSE

-----------------------------------------------------------------------------
(* The run.                                                                *)

\* An invalid plan is asked for again; the last one raises.
MakePlan ==
    /\ stage = "plan"
    /\ \/ stage' = "run" /\ UNCHANGED plans
       \/ /\ plans' = plans + 1
          /\ stage' = IF plans' = Plans THEN "raised" ELSE "plan"
    /\ UNCHANGED <<batch, at, attempts, files, disk, snapshot, lock, drafts, contested>>

Ready == {t \in Cards : at[t] = "blocked" /\ \A d \in Depends[t] : at[d] = "done"}

\* A critical task is voted on if there are two devices.
Voted(t) == Complexity[t] = "critical" /\ Devices >= 2

\* assign_speculative_next: a task that depends on this one alone.
Speculated(t) == {u \in Cards : Depends[u] = {t}}

\* The next tasks start when all of the last ones are done.  A failure ends the run.
NextBatch ==
    /\ stage = "run" /\ \A t \in batch : at[t] \in {"done", "failed"}
    /\ IF Ready = {} \/ \E t \in batch : at[t] = "failed"
       THEN stage' = "ended" /\ UNCHANGED <<batch, at, iteration, drafts>>
       ELSE /\ batch' = Ready
            /\ at' = [t \in Cards |-> IF t \notin Ready THEN at[t]
                                      ELSE IF Voted(t) THEN "vote" ELSE "generate"]
            /\ iteration' = [t \in Cards |-> IF t \in Ready THEN 1 ELSE iteration[t]]
            /\ drafts' = drafts \ {t \in Ready : ~Voted(t)}
            /\ UNCHANGED stage
    /\ UNCHANGED <<plans, micro, files, disk, snapshot, lock, contested>>

\* An exception in one task, such as an endpoint that does not answer, ends the process and the
\* other tasks with it.  Nothing is taken back; the files of a write may be there in part.
Raise(t) ==
    /\ stage = "run" /\ at[t] \in InFlight
    /\ stage' = "raised"
    /\ \E written \in SUBSET files[t] :
         /\ at[t] # "apply" => written = {}
         /\ disk' = [f \in Files |-> IF f \in written THEN t ELSE disk[f]]
    /\ UNCHANGED <<plans, batch, at, attempts, files, snapshot, lock, drafts, contested>>

-----------------------------------------------------------------------------
(* One task.                                                               *)

\* Mutant: an answer that is turned down does not use up an iteration.
RetryFree(t) ==
    /\ at' = [at EXCEPT ![t] = "generate"]
    /\ UNCHANGED iteration

\* The next iteration, if one is left.
Retry(t) ==
    IF iteration[t] < Iterations
    THEN iteration' = [iteration EXCEPT ![t] = @ + 1] /\ at' = [at EXCEPT ![t] = "generate"]
    ELSE at' = [at EXCEPT ![t] = "failed"] /\ UNCHANGED iteration

\* validate_files says whether the next step is the write or another micro-iteration.
Validated(t) ==
    \E paths \in SUBSET Files, valid \in BOOLEAN :
        /\ files' = [files EXCEPT ![t] = paths]
        /\ at' = [at EXCEPT ![t] = IF valid THEN "apply" ELSE "micro"]

\* An output that does not parse uses up an iteration; an analysis writes nothing, whatever files
\* it names; an output that is not valid is first put right by micro-iterations.
Generated(t) ==
    /\ stage = "run" /\ at[t] = "generate"
    /\ \/ Retry(t) /\ UNCHANGED files
       \/ Complexity[t] = "analysis" /\ at' = [at EXCEPT ![t] = "done"] /\ UNCHANGED <<iteration, files>>
       \/ Complexity[t] # "analysis" /\ Validated(t) /\ UNCHANGED iteration
    /\ micro' = [micro EXCEPT ![t] = 0]
    /\ UNCHANGED <<stage, plans, batch, disk, snapshot, lock, drafts, contested>>

\* _micro_iterate: an output that does not parse counts, and the last files stand.
Micro(t) ==
    /\ stage = "run" /\ at[t] = "micro" /\ micro[t] < Micros
    /\ micro' = [micro EXCEPT ![t] = @ + 1]
    /\ UNCHANGED <<at, files>> \/ Validated(t)
    /\ UNCHANGED <<stage, plans, batch, iteration, disk, snapshot, lock, drafts, contested>>

StillInvalid(t) ==
    /\ stage = "run" /\ at[t] = "micro" /\ micro[t] = Micros
    /\ Retry(t)
    /\ UNCHANGED <<stage, plans, batch, micro, files, disk, snapshot, lock, drafts, contested>>

\* Mutant: the whole workspace is remembered.
RememberAll(paths) == disk

\* Workspace.snapshot
Remember(paths) == [f \in paths |-> disk[f]]

\* Mutant: a path that was not there before is left behind.
RestoredLeaving(t) ==
    [f \in Files |-> IF f \in DOMAIN snapshot[t] /\ snapshot[t][f] # None
                     THEN snapshot[t][f] ELSE disk[f]]

\* Workspace.restore: what the task found, deleting what was not there.
Restored(t) == [f \in Files |-> IF f \in DOMAIN snapshot[t] THEN snapshot[t][f] ELSE disk[f]]

\* A task that wrote and whose verdict is out has written one of these paths too.
Contest(t) ==
    \E u \in Cards \ {t} : at[u] \in Written /\ files[u] \cap files[t] # {}

\* run_tests: a suite that is not there is not run, one that takes too long has failed.
TestRuns == {"none", "ok", "failed"}

\* The files are written under the lock, and stay locked while tests run, if there are any.
Apply(t) ==
    /\ stage = "run" /\ at[t] = "apply" /\ lock = None
    /\ snapshot' = [snapshot EXCEPT ![t] = Remember(files[t])]
    /\ disk' = [f \in Files |-> IF f \in files[t] THEN t ELSE disk[f]]
    /\ contested' = (contested \/ Contest(t))
    /\ \/ at' = [at EXCEPT ![t] = "test"] /\ lock' = t
       \/ at' = [at EXCEPT ![t] = IF Voted(t) THEN "done" ELSE "review"] /\ UNCHANGED lock
    /\ UNCHANGED <<stage, plans, batch, attempts, files, drafts>>

\* Tests that fail or take too long have the files taken back before the lock is free.  What was
\* voted on gets no second try, and no review.
Tested(t) ==
    /\ stage = "run" /\ at[t] = "test"
    /\ lock' = None
    /\ \E run \in TestRuns \ {"none"} :
         IF run = "ok"
         THEN /\ at' = [at EXCEPT ![t] = IF Voted(t) THEN "done" ELSE "review"]
              /\ UNCHANGED <<disk, iteration>>
         ELSE /\ disk' = Restored(t)
              /\ IF Voted(t) THEN at' = [at EXCEPT ![t] = "failed"] /\ UNCHANGED iteration
                 ELSE Retry(t)
    /\ UNCHANGED <<stage, plans, batch, micro, files, snapshot, drafts, contested>>

\* The review, while the scout drafts a successor unless it has, and may fail to; a verdict that does not parse approves, and
\* simple tasks are approved as they are.
Reviewed(t) ==
    /\ stage = "run" /\ at[t] = "review"
    /\ \E verdict \in IF Complexity[t] = "simple" THEN {"done"} ELSE {"done", "undo"} :
         at' = [at EXCEPT ![t] = verdict]
    /\ \/ UNCHANGED drafts
       \/ Speculated(t) \cap drafts = {} /\ \E u \in Speculated(t) : drafts' = drafts \cup {u}
    /\ UNCHANGED <<stage, plans, batch, attempts, files, disk, snapshot, lock, contested>>

\* What is rejected is taken back when the lock is free again.
Undo(t) ==
    /\ stage = "run" /\ at[t] = "undo" /\ lock = None
    /\ disk' = Restored(t)
    /\ Retry(t)
    /\ UNCHANGED <<stage, plans, batch, micro, files, snapshot, lock, drafts, contested>>

-----------------------------------------------------------------------------
(* Voting.                                                                 *)

DeviceRoles == {"architect", "builder", "scout"}
\* What a role's output is to the vote: not parseable, without the target file, a target that is
\* no program, or the shape of the program.
Shapes == {"shape1", "shape2", "shape3"}
Outputs == {"unparsed", "elsewhere", "broken"} \cup Shapes

\* _DETAIL_PRIORITY
First(roles) ==
    IF "architect" \in roles THEN "architect" ELSE IF "builder" \in roles THEN "builder" ELSE "scout"

\* structural_consensus among the candidates that parse: those that agree, else the first.
Winner(output, candidates) ==
    LET agreeing == {r \in candidates : \E q \in candidates \ {r} : output[q] = output[r]} IN
    IF agreeing # {} THEN First(agreeing) ELSE First(candidates)

\* The output that is taken: fewer than two candidates are not voted on.  None if there is no
\* output, and an exception if no candidate is a program.
Elected(output) ==
    LET parsed == {r \in DeviceRoles : output[r] # "unparsed"}
        candidates == {r \in parsed : output[r] # "elsewhere"}
        programs == {r \in candidates : output[r] # "broken"} IN
    IF parsed = {} THEN "none"
    ELSE IF Cardinality(candidates) < 2 THEN output[First(parsed)]
    ELSE IF programs = {} THEN "raises"
    ELSE output[Winner(output, programs)]

\* _execute_consensus up to the write: one try, no micro-iterations.
Vote(t) ==
    /\ stage = "run" /\ at[t] = "vote"
    /\ \E elected \in {Elected(output) : output \in [DeviceRoles -> Outputs]} \ {"raises"} :
         IF elected \in {"none", "broken"}
         THEN at' = [at EXCEPT ![t] = "failed"] /\ UNCHANGED files
         ELSE \E paths \in SUBSET Files, valid \in BOOLEAN :
                /\ files' = [files EXCEPT ![t] = paths]
                /\ at' = [at EXCEPT ![t] = IF valid THEN "apply" ELSE "failed"]
    /\ UNCHANGED <<stage, plans, batch, attempts, disk, snapshot, lock, drafts, contested>>

Step(t) ==
    \/ Raise(t) \/ Generated(t) \/ Micro(t) \/ StillInvalid(t) \/ Apply(t) \/ Tested(t)
    \/ Reviewed(t) \/ Undo(t) \/ Vote(t)

HyNext == MakePlan \/ NextBatch \/ \E t \in Cards : Step(t)

\* Endpoints, tests and the lock answer or time out.
HySpec == HyInit /\ [][HyNext]_hyVars /\ WF_hyVars(HyNext)

-----------------------------------------------------------------------------
(* Properties.                                                             *)

(* Unless two tasks in flight have written one path, or the run raised, the *)
(* files of a task that is done stay, whatever the tasks beside it take     *)
(* back: only a task that writes later may have put its own in their place  *)
(* (executor.py, snapshot and restore).                                     *)
DoneStands ==
    ~contested /\ stage # "raised" => \A t \in Cards : at[t] = "done" => \A p \in files[t] :
        disk[p] # None /\ at[disk[p]] \in Written \cup {"done"}

(* Unless two tasks in flight have written one path, or the run raised,     *)
(* what a task failed with, or was rejected with, is not left in the        *)
(* workspace (README.md, "a failure rolls the files back").                 *)
NoLeftovers ==
    ~contested /\ stage # "raised" => \A f \in Files : disk[f] # None =>
        at[disk[f]] \in Written \cup {"done"} /\ f \in files[disk[f]]

(* A run ends: every loop over generations is bounded.                      *)
RunEnds == <>(stage \in {"ended", "raised"})

(* One task's tests never observe what another task may still take back     *)
(* (executor.py:132, the comment on _verify_lock).                          *)
TestsSeeDone ==
    \A t \in Cards, p \in Files : at[t] = "test" /\ disk[p] \notin {None, t} => at[disk[p]] = "done"
=============================================================================
