------------------------------ MODULE Ensemble ------------------------------
(***************************************************************************)
(* A job of the model "mycellm/swarm": where its prompt may go             *)
(* (execution/policy.py), who proposes and who merges                      *)
(* (execution/planner.py), and how the proposals are collected, paid for,  *)
(* cancelled and merged into one answer (execution/coordinator.py), whole  *)
(* or streamed.  The proposers run concurrently; the caller may give up at *)
(* any moment.                                                             *)
(*                                                                         *)
(* Speed and size of the targets, by which equal choices are ordered, are  *)
(* left out: any of them is taken.                                         *)
(***************************************************************************)
EXTENDS Naturals, FiniteSets

CONSTANTS
    Targets,        \* everywhere a unit of work could run
    Kind,           \* [Targets -> {"local", "group", "peer"}]
    Model,          \* the model of a target
    Shared,         \* the targets that share a network with this node
    Roles,          \* the roles a target's model declares, {} if none
    Fanouts,        \* how many proposers jobs ask for, between 2 and MAX_FANOUT
    Budgets,        \* token budgets of jobs, 0 for none
    Tokens,         \* bound: tokens of one answer
    Nobody

ASSUME KindAssumption == Kind \in [Targets -> {"local", "group", "peer"}] /\ Shared \subseteq Targets
ASSUME RolesAssumption == Roles \in [Targets -> SUBSET {"proposer", "synthesizer", "critic"}]
ASSUME NumbersAssumption == Fanouts \subseteq Nat \ {0, 1} /\ Budgets \subseteq Nat /\ Tokens \in Nat \ {0}
ASSUME NobodyAssumption == Nobody \notin Targets

VARIABLES
    job,        \* what was asked
    phase,      \* where the coordinator is
    unit,       \* the task of a proposer, by its target
    read,       \* the proposers whose result as_completed handed out
    spent,      \* the tokens counted
    synth,      \* the target of the synthesis
    sent,       \* the targets that received the prompt
    cut,        \* the caller gave up while tasks settle
    result      \* how it ended, and what the answer is

vars == <<job, phase, unit, read, spent, synth, sent, cut, result>>

Levels == {"untrusted", "trusted", "local"}
Rank(l) == CASE l = "untrusted" -> 0 [] l = "trusted" -> 1 [] l = "local" -> 3

\* blocks: the trust levels the sensitive-data scan of this prompt blocks.
Jobs == [stream : BOOLEAN, trust : {"any", "trusted", "local"}, override : BOOLEAN,
         blocks : {{}, {"untrusted"}, {"untrusted", "trusted"}}, budget : Budgets, fanout : Fanouts]

Init ==
    /\ job \in Jobs
    /\ phase = "plan"
    /\ unit = [t \in Targets |-> "none"]
    /\ read = {} /\ spent = 0 /\ synth = Nobody /\ sent = {} /\ cut = FALSE
    /\ result = [end |-> "open", from |-> {}, degraded |-> FALSE]

-----------------------------------------------------------------------------
(* The policy and the plan.                                                *)

\* trust_for
Trust(t) == IF Kind[t] = "local" THEN "local" ELSE IF t \in Shared THEN "trusted" ELSE "untrusted"

\* Mutant: the caller's own ceiling is not compared.
AllowedByScan(t) == Trust(t) = "local" \/ job.override \/ Trust(t) \notin job.blocks

\* EgressPolicy.decide
Allowed(t) ==
    /\ job.trust = "any" \/ Rank(Trust(t)) >= Rank(job.trust)
    /\ Trust(t) = "local" \/ job.override \/ Trust(t) \notin job.blocks

Eligible == {t \in Targets : Allowed(t)}
Can(t, role) == Roles[t] = {} \/ role \in Roles[t]

\* Round-robin over the models, the local targets of a model first.
Of(m, ts) == {t \in ts : Model[t] = m}
Proposers ==
    LET can == {t \in Eligible : Can(t, "proposer")}
        size == IF Cardinality(can) < job.fanout THEN Cardinality(can) ELSE job.fanout IN
    {ps \in SUBSET can :
        /\ Cardinality(ps) = size
        /\ \A t, u \in can : Of(Model[u], can) \subseteq ps
                             \/ Cardinality(Of(Model[t], ps)) <= Cardinality(Of(Model[u], ps)) + 1
        /\ \A t \in ps, u \in can : Model[t] = Model[u] /\ Kind[t] # "local" /\ Kind[u] = "local" => u \in ps}

\* Prompts that stayed here are merged here; otherwise by a proposer, if one can.
Synthesizers(ps) ==
    LET can == {t \in Eligible : Can(t, "synthesizer")}
        pool == IF can = {} THEN Eligible ELSE can
        inside == {t \in pool : Kind[t] = "local"} IN
    IF (\A p \in ps : Kind[p] = "local") /\ inside # {} THEN inside
    ELSE IF pool \cap ps # {} THEN pool \cap ps ELSE pool

Ends(e, from, degraded) ==
    /\ phase' = "ended"
    /\ result' = [end |-> e, from |-> from, degraded |-> degraded]

\* A swarm of one is run directly, on any eligible target, local ones first.
Plan ==
    /\ phase = "plan"
    /\ \/ /\ Eligible = {}
          /\ Ends("error", {}, FALSE)
          /\ UNCHANGED <<unit, synth, sent>>
       \/ \E ps \in Proposers :
            /\ Cardinality(ps) >= 2
            /\ phase' = "propose"
            /\ unit' = [t \in Targets |-> IF t \in ps THEN "running" ELSE "none"]
            /\ sent' = ps
            /\ \E s \in Synthesizers(ps) : synth' = s
            /\ UNCHANGED result
       \/ /\ \A ps \in Proposers : Cardinality(ps) < 2
          /\ \E t \in Eligible :
               /\ Kind[t] # "local" => \A u \in Eligible : Kind[u] # "local"
               /\ synth' = t /\ sent' = {t}
          /\ phase' = "direct"
          /\ UNCHANGED <<unit, result>>
    /\ UNCHANGED <<job, read, spent, cut>>

-----------------------------------------------------------------------------
(* The proposers.                                                          *)

Started == {t \in Targets : unit[t] # "none"}
Good == {t \in read : unit[t] = "ok"}
Pending == {t \in Targets : unit[t] \in {"running", "cancelling"}}

Finish(t) ==
    /\ unit[t] = "running"
    /\ \E r \in {"ok", "failed"} : unit' = [unit EXCEPT ![t] = r]
    /\ UNCHANGED <<job, phase, read, spent, synth, sent, cut, result>>

\* _safe_run turns the cancellation into a result.
Cancelled(t) ==
    /\ unit[t] = "cancelling"
    /\ unit' = [unit EXCEPT ![t] = "cancelled"]
    /\ UNCHANGED <<job, phase, read, spent, synth, sent, cut, result>>

Cancelling == [t \in Targets |-> IF unit[t] = "running" THEN "cancelling" ELSE unit[t]]

\* run_work_unit reads token counts of a peer's response only: what runs through this node's
\* inference manager counts as none.
Counted(t, n) == IF Kind[t] = "peer" THEN n ELSE 0

\* as_completed hands out the next result.  When the budget is spent the others are cancelled,
\* and what has completed unread is dropped.
Read(t) ==
    /\ phase = "propose" /\ t \notin read /\ unit[t] \in {"ok", "failed"}
    /\ read' = read \cup {t}
    /\ \E n \in IF unit[t] = "ok" THEN 1 .. Tokens ELSE {0} : spent' = spent + Counted(t, n)
    /\ IF (job.budget > 0 /\ spent' >= job.budget) \/ read' = Started
       THEN phase' = "settle" /\ unit' = Cancelling
       ELSE UNCHANGED <<phase, unit>>
    /\ UNCHANGED <<job, synth, sent, cut, result>>

\* Mutant: the cancelled tasks are not waited for.
SettledAtOnce == TRUE

\* gather in the finally clause: no task outlives the job.
Settled == Pending = {}

\* What was collected decides how the job goes on.
Degraded == \E t \in Started : unit[t] \in {"failed", "cancelled"} /\ (t \in read \/ unit[t] = "cancelled")

\* A streamed synthesis at a peer goes to whichever peer routing finds for the model
\* (route_inference_stream), not to the one the plan names.
MergedAt == IF job.stream /\ Kind[synth] = "peer"
            THEN {t \in Targets : Kind[t] = "peer" /\ Model[t] = Model[synth]} ELSE {synth}

Collected ==
    /\ phase = "settle" /\ Settled
    /\ CASE cut -> Ends("aborted", {}, FALSE)
         [] ~cut /\ Good = {} -> Ends("error", {}, Degraded)
         [] ~cut /\ Cardinality(Good) = 1 -> Ends("answer", Good, TRUE)
         [] ~cut /\ Cardinality(Good) > 1 /\ job.budget > 0 /\ spent >= job.budget ->
              \* The answer that is not streamed says that it is degraded only if tasks were cancelled.
              \E best \in Good : Ends("answer", {best}, job.stream \/ Degraded)
         [] OTHER -> phase' = "synthesis" /\ UNCHANGED result
    /\ IF phase' # "synthesis" THEN UNCHANGED sent
       ELSE \E t \in MergedAt : sent' = sent \cup {t}
    /\ UNCHANGED <<job, unit, read, spent, synth, cut>>

-----------------------------------------------------------------------------
(* One target answers alone, or merges the proposals.                      *)

DirectDone ==
    /\ phase = "direct"
    /\ Ends("answer", {synth}, FALSE) \/ Ends("error", {}, FALSE)
    /\ UNCHANGED <<job, unit, read, spent, synth, sent, cut>>

\* Mutant: a synthesis that fails is an error of the job.
SynthesisLost == Ends("error", {}, TRUE)

\* The best proposal stands in for a synthesis that failed before its first fragment.
SynthesisFails == \E best \in Good : Ends("answer", {best}, TRUE)

\* The stream of a peer that breaks off just ends (route_inference_stream): what came of it is
\* the answer.  That of this node raises, and the answer says that it is degraded.
Broken == job.stream /\ Ends("answer", {synth}, Kind[synth] # "peer" \/ Degraded)

Synthesized ==
    /\ phase = "synthesis"
    /\ Ends("answer", {synth}, Degraded) \/ SynthesisFails \/ Broken
    /\ UNCHANGED <<job, unit, read, spent, synth, sent, cut>>

-----------------------------------------------------------------------------
\* The caller gives up.  While a single unit runs in the coordinator's own task _safe_run takes
\* the cancellation for the unit's: the job goes on without it.
Abort ==
    \/ /\ phase = "propose"
       /\ phase' = "settle" /\ unit' = Cancelling /\ cut' = TRUE
       /\ UNCHANGED <<job, read, spent, synth, sent, result>>
    \/ /\ phase = "settle" /\ ~cut
       /\ cut' = TRUE
       /\ UNCHANGED <<job, phase, unit, read, spent, synth, sent, result>>
    \/ /\ phase = "synthesis"
       /\ IF job.stream THEN Ends("aborted", {}, FALSE) ELSE SynthesisFails
       /\ UNCHANGED <<job, unit, read, spent, synth, sent, cut>>
    \/ /\ phase = "direct"
       /\ Ends("error", {}, FALSE)
       /\ UNCHANGED <<job, unit, read, spent, synth, sent, cut>>

Next ==
    \/ Plan \/ Collected \/ DirectDone \/ Synthesized \/ Abort
    \/ \E t \in Targets : Finish(t) \/ Cancelled(t) \/ Read(t)

Spec == Init /\ [][Next]_vars /\ WF_vars(Next)

-----------------------------------------------------------------------------
(* Properties.                                                             *)

(* The prompt goes nowhere the policy forbids: neither to a proposer nor,    *)
(* with all the proposals in it, to who merges them (planner.py, "a blocked *)
(* prompt is never partially sent"), unless a streamed synthesis is routed  *)
(* to whichever peer has the model.                                         *)
EgressKept == \A t \in sent :
    \/ job.stream /\ t \in MergedAt
    \/ /\ job.trust = "local" => Kind[t] = "local"
       /\ job.trust = "trusted" => Kind[t] = "local" \/ t \in Shared
       /\ \/ Kind[t] = "local" \/ job.override
          \/ (IF t \in Shared THEN "trusted" ELSE "untrusted") \notin job.blocks

(* An answer that was read is not lost: whatever fails, is cancelled or      *)
(* runs out of budget after it, a job that was not given up ends with an     *)
(* answer (coordinator.py, "Synthesis failure degrades to the best           *)
(* proposal").                                                               *)
WorkIsKept == result.end = "error" => Good = {}

(* No proposer outlives its job, given up or not (coordinator.py, "so no    *)
(* task outlives the job").                                                  *)
NoneOutlives == phase = "ended" => Pending = {}

(* "A degraded job says it degraded, in meta, every time."                  *)
SaysDegraded == result.end = "answer" /\ phase = "ended" /\ synth \notin result.from => result.degraded
=============================================================================
