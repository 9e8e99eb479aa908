---------------------------- MODULE JobLifecycle ----------------------------
(***************************************************************************)
(* What a node promises about each job it has accepted, whatever its       *)
(* handlers, its scheduler and its crashes do in between: a job waits,     *)
(* is executed by at most one executor at a time, may be put back, and     *)
(* once it has ended it is never executed again.                           *)
(***************************************************************************)
CONSTANT Jobs

VARIABLES
    status,     \* "absent", "queued", "running" or "ended"
    active      \* the jobs something is executing

Init == status = [j \in Jobs |-> "absent"] /\ active = {}

Accept(j) ==
    /\ status[j] = "absent"
    /\ status' = [status EXCEPT ![j] = "queued"]
    /\ UNCHANGED active

\* A job starts only from the queue, and only if nothing is executing it.
StartJob(j) ==
    /\ status[j] = "queued"
    /\ j \notin active
    /\ status' = [status EXCEPT ![j] = "running"]
    /\ active' = active \cup {j}

\* Some accepted jobs end, by an answer, an error, a deadline or a request.
EndJobs ==
    /\ \E S \in SUBSET {j \in Jobs : status[j] # "absent"} :
          status' = [j \in Jobs |-> IF j \in S THEN "ended" ELSE status[j]]
    /\ active' \in SUBSET active

\* Claims are given up: the jobs go back to the queue, and nobody is left
\* executing them.
Return ==
    /\ active' \in SUBSET active
    /\ \E S \in SUBSET {j \in Jobs \ active' : status[j] = "running"} :
          status' = [j \in Jobs |-> IF j \in S THEN "queued" ELSE status[j]]

Next ==
    \/ \E j \in Jobs : Accept(j) \/ StartJob(j)
    \/ EndJobs
    \/ Return

Spec == Init /\ [][Next]_<<status, active>>
=============================================================================
