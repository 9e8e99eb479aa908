--------------------------- MODULE EnsembleProofs ---------------------------
(***************************************************************************)
(* Proofs about Ensemble, for any targets, models, networks and budgets,   *)
(* and about Hyphae, for any tasks and files.                              *)
(***************************************************************************)
EXTENDS Ensemble, Hyphae, TLAPS

-----------------------------------------------------------------------------
(* The invariant.                                                          *)

Units == {"none", "running", "cancelling", "cancelled", "ok", "failed"}
Ended == {"open", "answer", "error", "aborted"}

\* Where everything is of its type.
TypeOK ==
    /\ job \in Jobs
    /\ phase \in {"plan", "propose", "settle", "synthesis", "direct", "ended"}
    /\ unit \in [Targets -> Units]
    /\ read \subseteq Targets /\ sent \subseteq Targets
    /\ spent \in Nat /\ cut \in BOOLEAN
    /\ synth \in Targets \cup {Nobody}
    /\ result \in [end : Ended, from : SUBSET Targets, degraded : BOOLEAN]

\* Tasks run while proposals are asked for; from then on they are cancelled at most.
Tasks ==
    /\ phase \notin {"propose", "settle"} => Pending = {}
    /\ phase = "settle" => \A t \in Targets : unit[t] # "running"

\* Before proposals are asked for nothing has been read, and what was read is done.
Reading ==
    /\ phase \in {"plan", "direct"} => read = {}
    /\ \A t \in read : unit[t] \in {"ok", "failed"}

\* A result is that of a job which has ended.
Resulting ==
    /\ phase # "ended" => result.end = "open"
    /\ result.end = "error" => Good = {}

\* The prompt goes to whom the policy allows it, and so do the proposals, unless they are routed.
Sending ==
    /\ synth \in Eligible \cup {Nobody}
    /\ phase = "plan" <=> synth = Nobody /\ phase # "ended"
    /\ \A t \in sent : Allowed(t) \/ (job.stream /\ t \in MergedAt)

IInv == TypeOK /\ Tasks /\ Reading /\ Resulting /\ Sending

-----------------------------------------------------------------------------
(* Who is chosen.                                                          *)

\* Proposers and synthesizers are targets the policy allows.
LEMMA ChosenEligible ==
    /\ \A ps \in Proposers : ps \subseteq Eligible
    /\ \A ps : Synthesizers(ps) \subseteq Eligible
  BY DEF Proposers, Synthesizers

\* A target the policy allows is one that EgressKept accepts.
LEMMA AllowedKept ==
    ASSUME TypeOK, NEW t \in Targets, Allowed(t)
    PROVE  /\ job.trust = "local" => Kind[t] = "local"
           /\ job.trust = "trusted" => Kind[t] = "local" \/ t \in Shared
           /\ \/ Kind[t] = "local" \/ job.override
              \/ (IF t \in Shared THEN "trusted" ELSE "untrusted") \notin job.blocks
<1>1. job.trust \in {"any", "trusted", "local"}
  BY DEF TypeOK, Jobs
<1>2. Trust(t) = IF Kind[t] = "local" THEN "local" ELSE IF t \in Shared THEN "trusted" ELSE "untrusted"
  BY DEF Trust
<1>3. Rank("untrusted") = 0 /\ Rank("trusted") = 1 /\ Rank("local") = 3
  BY DEF Rank
<1>4. job.trust = "local" => Kind[t] = "local"
  BY <1>2, <1>3 DEF Allowed
<1>5. job.trust = "trusted" => Kind[t] = "local" \/ t \in Shared
  BY <1>2, <1>3 DEF Allowed
<1>6. QED
  BY <1>2, <1>4, <1>5 DEF Allowed

-----------------------------------------------------------------------------
(* Steps.                                                                  *)

\* A job is what it was asked to be, and so is what the policy allows it.
LEMMA SameJob ==
    ASSUME [Next]_vars
    PROVE  job' = job /\ Eligible' = Eligible /\ \A t \in Targets : Allowed(t)' <=> Allowed(t)
<1>1. job' = job
  BY DEF Next, Plan, Collected, DirectDone, Synthesized, Abort, Finish, Cancelled, Read, vars
<1>2. QED
  BY <1>1 DEF Eligible, Allowed

\* How a job goes on once its tasks have settled.
LEMMA CollectedEnds ==
    ASSUME TypeOK, Collected
    PROVE  /\ UNCHANGED <<job, unit, read, spent, synth, cut>>
           /\ \/ phase' = "synthesis" /\ UNCHANGED result
              \/ /\ phase' = "ended" /\ UNCHANGED sent
                 /\ \E e \in {"answer", "error", "aborted"}, from \in SUBSET Good, d \in BOOLEAN :
                      result' = [end |-> e, from |-> from, degraded |-> d] /\ (e = "error" => Good = {})
<1>1. CASE cut /\ Ends("aborted", {}, FALSE)
  BY <1>1 DEF Collected, Ends
<1>2. CASE Good = {} /\ Ends("error", {}, Degraded)
  BY <1>2 DEF Collected, Ends, Degraded
<1>3. CASE Ends("answer", Good, TRUE)
  BY <1>3 DEF Collected, Ends
<1>4. CASE \E best \in Good : Ends("answer", {best}, job.stream \/ Degraded)
  <2>1. PICK best \in Good : Ends("answer", {best}, job.stream \/ Degraded)
    BY <1>4
  <2>2. (job.stream \/ Degraded) \in BOOLEAN
    BY DEF TypeOK, Jobs, Degraded
  <2>3. QED
    BY <2>1, <2>2 DEF Collected, Ends
<1>5. CASE phase' = "synthesis" /\ UNCHANGED result
  BY <1>5 DEF Collected
<1>6. QED
  BY <1>1, <1>2, <1>3, <1>4, <1>5 DEF Collected

\* A proposal stands in for the synthesis.
LEMMA FailsEnds ==
    ASSUME SynthesisFails
    PROVE  phase' = "ended" /\ \E best \in Good : result' = [end |-> "answer", from |-> {best}, degraded |-> TRUE]
  BY DEF SynthesisFails, Ends

LEMMA SynthesizedEnds ==
    ASSUME TypeOK, Synthesized
    PROVE  /\ phase' = "ended"
           /\ \E from \in SUBSET (Good \cup {synth}), d \in BOOLEAN :
                result' = [end |-> "answer", from |-> from, degraded |-> d]
<1>1. CASE Ends("answer", {synth}, Degraded)
  BY <1>1 DEF Ends, Degraded
<1>2. CASE SynthesisFails
  BY <1>2, FailsEnds
<1>3. CASE Broken
  <2>1. (Kind[synth] # "peer" \/ Degraded) \in BOOLEAN
    BY DEF Degraded
  <2>2. QED
    BY <1>3, <2>1 DEF Broken, Ends
<1>4. QED
  BY <1>1, <1>2, <1>3 DEF Synthesized

LEMMA CancellingUnits ==
    ASSUME TypeOK, unit' = Cancelling
    PROVE  /\ unit' \in [Targets -> Units]
           /\ \A t \in Targets : unit'[t] # "running" /\ (unit[t] # "running" => unit'[t] = unit[t])
  BY DEF TypeOK, Cancelling, Units

LEMMA ReadUnits ==
    ASSUME TypeOK, NEW t \in Targets, Read(t)
    PROVE  /\ unit' \in [Targets -> Units] /\ spent' \in Nat
           /\ phase' \in {"propose", "settle"}
           /\ phase' = "settle" => \A u \in Targets : unit'[u] # "running"
           /\ \A u \in Targets : unit[u] # "running" => unit'[u] = unit[u]
<1>1. spent' \in Nat
  <2>1. PICK n \in IF unit[t] = "ok" THEN 1 .. Tokens ELSE {0} : spent' = spent + Counted(t, n)
    BY DEF Read
  <2>2. n \in Nat
    BY <2>1, NumbersAssumption
  <2>3. QED
    BY <2>1, <2>2 DEF TypeOK, Counted
<1>2. CASE phase' = "settle" /\ unit' = Cancelling
  BY <1>1, <1>2, CancellingUnits
<1>3. CASE UNCHANGED <<phase, unit>>
  BY <1>1, <1>3 DEF Read, TypeOK
<1>4. QED
  BY <1>2, <1>3 DEF Read

LEMMA AbortCases ==
    ASSUME TypeOK, Abort
    PROVE  \/ /\ phase = "propose" /\ phase' = "settle" /\ unit' = Cancelling /\ cut' = TRUE
              /\ UNCHANGED <<job, read, spent, synth, sent, result>>
           \/ phase = "settle" /\ cut' = TRUE /\ UNCHANGED <<job, phase, unit, read, spent, synth, sent, result>>
           \/ /\ phase \in {"synthesis", "direct"} /\ phase' = "ended"
              /\ \E e \in {"answer", "error", "aborted"}, from \in SUBSET Good, d \in BOOLEAN :
                   result' = [end |-> e, from |-> from, degraded |-> d] /\ (e = "error" => phase = "direct")
              /\ UNCHANGED <<job, unit, read, spent, synth, sent, cut>>
  BY FailsEnds DEF Abort, Ends

-----------------------------------------------------------------------------
(* The invariant is kept.                                                  *)

LEMMA TypesStep == ASSUME IInv, [Next]_vars PROVE TypeOK'
<1>0. TypeOK /\ job' = job /\ Good \subseteq Targets
  BY SameJob DEF IInv, TypeOK, Good
<1>1. CASE Plan
  <2>1. CASE Eligible = {} /\ Ends("error", {}, FALSE) /\ UNCHANGED <<unit, synth, sent>>
    BY <1>0, <1>1, <2>1 DEF TypeOK, Plan, Ends, Ended
  <2>2. ASSUME NEW ps \in Proposers, phase' = "propose", sent' = ps, UNCHANGED result,
               unit' = [t \in Targets |-> IF t \in ps THEN "running" ELSE "none"],
               \E s \in Synthesizers(ps) : synth' = s
        PROVE  TypeOK'
    <3>1. ps \subseteq Targets /\ synth' \in Targets
      BY <2>2, ChosenEligible DEF Eligible
    <3>2. unit' \in [Targets -> Units]
      BY <2>2 DEF Units
    <3>3. QED
      BY <1>0, <1>1, <2>2, <3>1, <3>2 DEF TypeOK, Plan
  <2>3. ASSUME NEW t \in Eligible, synth' = t, sent' = {t}, phase' = "direct", UNCHANGED <<unit, result>>
        PROVE  TypeOK'
    BY <1>0, <1>1, <2>3 DEF TypeOK, Plan, Eligible
  <2>4. QED
    BY <1>1, <2>1, <2>2, <2>3 DEF Plan
<1>2. CASE Collected
  <2>1. sent' \subseteq Targets
    <3>1. MergedAt \subseteq Targets \cup {synth}
      BY DEF MergedAt
    <3>2. phase' = "synthesis" => \E t \in MergedAt : sent' = sent \cup {t}
      BY <1>2 DEF Collected
    <3>3. synth \in Targets
      BY <1>2, NobodyAssumption DEF IInv, TypeOK, Sending, Collected, Eligible
    <3>4. QED
      BY <1>0, <1>2, <3>1, <3>2, <3>3, CollectedEnds DEF TypeOK
  <2>2. result' \in [end : Ended, from : SUBSET Targets, degraded : BOOLEAN]
    BY <1>0, <1>2, CollectedEnds DEF TypeOK, Ended
  <2>3. QED
    BY <1>0, <1>2, <2>1, <2>2, CollectedEnds DEF TypeOK
<1>3. CASE DirectDone
  <2>1. synth \in Targets
    BY <1>3, NobodyAssumption DEF IInv, TypeOK, Sending, DirectDone, Eligible
  <2>2. result' \in [end : Ended, from : SUBSET Targets, degraded : BOOLEAN] /\ phase' = "ended"
    <3>1. CASE Ends("answer", {synth}, FALSE)
      BY <2>1, <3>1 DEF Ends, Ended
    <3>2. CASE Ends("error", {}, FALSE)
      BY <3>2 DEF Ends, Ended
    <3>3. QED
      BY <1>3, <3>1, <3>2 DEF DirectDone
  <2>3. QED
    BY <1>0, <1>3, <2>2 DEF TypeOK, DirectDone
<1>4. CASE Synthesized
  <2>1. synth \in Targets
    BY <1>4, NobodyAssumption DEF IInv, TypeOK, Sending, Synthesized, Eligible
  <2>2. result' \in [end : Ended, from : SUBSET Targets, degraded : BOOLEAN] /\ phase' = "ended"
    BY <1>0, <1>4, <2>1, SynthesizedEnds DEF Ended
  <2>3. QED
    BY <1>0, <1>4, <2>2 DEF TypeOK, Synthesized
<1>5. CASE Abort
  <2>1. CASE unit' = Cancelling /\ phase' = "settle" /\ cut' = TRUE /\ UNCHANGED <<job, read, spent, synth, sent, result>>
    BY <1>0, <2>1, CancellingUnits DEF TypeOK
  <2>2. CASE cut' = TRUE /\ UNCHANGED <<job, phase, unit, read, spent, synth, sent, result>>
    BY <1>0, <2>2 DEF TypeOK
  <2>3. CASE /\ phase' = "ended" /\ UNCHANGED <<job, unit, read, spent, synth, sent, cut>>
             /\ \E e \in {"answer", "error", "aborted"}, from \in SUBSET Good, d \in BOOLEAN :
                  result' = [end |-> e, from |-> from, degraded |-> d]
    BY <1>0, <2>3 DEF TypeOK, Ended
  <2>4. QED
    BY <1>0, <1>5, <2>1, <2>2, <2>3, AbortCases
<1>6. ASSUME NEW t \in Targets, Finish(t) \/ Cancelled(t) PROVE TypeOK'
  BY <1>0, <1>6 DEF TypeOK, Finish, Cancelled, Units
<1>7. ASSUME NEW t \in Targets, Read(t) PROVE TypeOK'
  BY <1>0, <1>7, ReadUnits DEF TypeOK, Read
<1>8. CASE UNCHANGED vars
  BY <1>0, <1>8 DEF TypeOK, vars
<1>9. QED
  BY <1>1, <1>2, <1>3, <1>4, <1>5, <1>6, <1>7, <1>8 DEF Next

LEMMA TasksStep == ASSUME IInv, [Next]_vars PROVE Tasks'
<1>0. TypeOK /\ Tasks
  BY DEF IInv
<1>1. CASE Plan
  BY <1>0, <1>1 DEF Tasks, Plan, Pending, Ends
<1>2. CASE Collected
  BY <1>0, <1>2, CollectedEnds DEF Tasks, Collected, Settled, Pending
<1>3. CASE DirectDone
  BY <1>0, <1>3 DEF Tasks, DirectDone, Pending, Ends
<1>4. CASE Synthesized
  BY <1>0, <1>4, SynthesizedEnds DEF Tasks, Synthesized, Pending
<1>5. CASE Abort
  BY <1>0, <1>5, AbortCases, CancellingUnits DEF Tasks, Pending
<1>6. ASSUME NEW t \in Targets, Finish(t) \/ Cancelled(t) PROVE Tasks'
  BY <1>0, <1>6 DEF Tasks, Finish, Cancelled, Pending, TypeOK
<1>7. ASSUME NEW t \in Targets, Read(t) PROVE Tasks'
  BY <1>0, <1>7, ReadUnits DEF Tasks
<1>8. CASE UNCHANGED vars
  BY <1>0, <1>8 DEF Tasks, Pending, vars
<1>9. QED
  BY <1>1, <1>2, <1>3, <1>4, <1>5, <1>6, <1>7, <1>8 DEF Next

\* What was read is done and stays as it is.
LEMMA ReadStays ==
    ASSUME IInv, [Next]_vars
    PROVE  \A t \in read : phase # "plan" => unit'[t] = unit[t]
<1>0. TypeOK /\ read \subseteq Targets /\ \A t \in read : unit[t] \in {"ok", "failed"}
  BY DEF IInv, Reading, TypeOK
<1>1. CASE Collected \/ DirectDone \/ Synthesized
  BY <1>1 DEF Collected, DirectDone, Synthesized
<1>2. CASE Abort
  BY <1>0, <1>2, AbortCases, CancellingUnits
<1>3. ASSUME NEW t \in Targets, Finish(t) \/ Cancelled(t) PROVE \A u \in read : unit'[u] = unit[u]
  BY <1>0, <1>3 DEF Finish, Cancelled, TypeOK
<1>4. ASSUME NEW t \in Targets, Read(t) PROVE \A u \in read : unit'[u] = unit[u]
  BY <1>0, <1>4, ReadUnits
<1>5. CASE UNCHANGED vars
  BY <1>5 DEF vars
<1>6. QED
  BY <1>1, <1>2, <1>3, <1>4, <1>5 DEF Next, Plan

LEMMA ReadingStep == ASSUME IInv, [Next]_vars PROVE Reading'
<1>0. TypeOK /\ Reading
  BY DEF IInv
<1>1. CASE Plan
  BY <1>0, <1>1 DEF Reading, Plan, Ends
<1>2. ASSUME NEW t \in Targets, Read(t) PROVE Reading'
  <2>1. phase' \in {"propose", "settle"} /\ read' = read \cup {t} /\ unit[t] \in {"ok", "failed"}
    BY <1>0, <1>2, ReadUnits DEF Read
  <2>2. \A u \in read' : unit[u] \in {"ok", "failed"} /\ u \in Targets
    BY <1>0, <2>1 DEF Reading, TypeOK
  <2>3. \A u \in read' : unit'[u] = unit[u]
    BY <1>0, <1>2, <2>2, ReadUnits
  <2>4. QED
    BY <2>1, <2>2, <2>3 DEF Reading
<1>3. CASE phase # "plan" /\ UNCHANGED read /\ phase' \notin {"plan", "direct"}
  BY <1>0, <1>3, ReadStays DEF Reading
<1>4. CASE UNCHANGED <<phase, read>> /\ phase # "plan"
  BY <1>0, <1>4, ReadStays DEF Reading
<1>5. CASE UNCHANGED vars
  BY <1>0, <1>5 DEF Reading, vars
<1>6. CASE phase = "plan" /\ ~Plan
  BY <1>0, <1>5, <1>6 DEF Next, Collected, DirectDone, Synthesized, Abort, Finish, Cancelled, Read, Reading,
                     IInv, Tasks, Pending
<1>7. CASE Collected \/ DirectDone \/ Synthesized \/ Abort
  <2>1. phase # "plan" /\ UNCHANGED read
    BY <1>7 DEF Collected, DirectDone, Synthesized, Abort
  <2>2. phase' \notin {"plan", "direct"}
    BY <1>0, <1>7, CollectedEnds, SynthesizedEnds, AbortCases DEF DirectDone, Ends
  <2>3. QED
    BY <1>3, <2>1, <2>2
<1>8. ASSUME NEW t \in Targets, Finish(t) \/ Cancelled(t) PROVE Reading'
  BY <1>1, <1>4, <1>6, <1>8 DEF Finish, Cancelled
<1>9. QED
  BY <1>1, <1>2, <1>5, <1>7, <1>8 DEF Next

LEMMA ResultingStep == ASSUME IInv, [Next]_vars PROVE Resulting'
<1>0. TypeOK /\ Tasks /\ Reading /\ Resulting
  BY DEF IInv
<1>1. UNCHANGED <<read, unit>> => Good' = Good
  BY DEF Good
<1>2. CASE Plan
  BY <1>0, <1>2 DEF Plan, Ends, Resulting, Reading, Good
<1>3. CASE Collected
  <2>1. Good' = Good /\ result.end = "open"
    BY <1>0, <1>1, <1>3, CollectedEnds DEF Resulting, Collected
  <2>2. CASE phase' = "synthesis" /\ UNCHANGED result
    BY <1>0, <2>1, <2>2 DEF Resulting
  <2>3. ASSUME phase' = "ended", NEW e, NEW from, NEW d, e = "error" => Good = {},
               result' = [end |-> e, from |-> from, degraded |-> d]
        PROVE  Resulting'
    <3>1. result'.end = e
      BY <2>3
    <3>2. QED
      BY <2>1, <2>3, <3>1 DEF Resulting
  <2>4. QED
    BY <1>0, <1>3, <2>2, <2>3, CollectedEnds
<1>4. CASE DirectDone
  <2>1. Good' = {}
    BY <1>0, <1>4 DEF DirectDone, Reading, Good
  <2>2. phase' = "ended"
    BY <1>4 DEF DirectDone, Ends
  <2>3. QED
    BY <2>1, <2>2 DEF Resulting
<1>5. CASE Synthesized
  BY <1>0, <1>5, SynthesizedEnds DEF Resulting
<1>6. CASE Abort
  <2>1. phase = "direct" => Good = {}
    BY <1>0 DEF Reading, Good
  <2>2. CASE phase \in {"propose", "settle"} /\ phase' = "settle" /\ UNCHANGED result
    BY <1>0, <2>2 DEF Resulting
  <2>3. ASSUME phase' = "ended", Good' = Good, NEW e, NEW from, NEW d, e = "error" => phase = "direct",
               result' = [end |-> e, from |-> from, degraded |-> d]
        PROVE  Resulting'
    <3>1. result'.end = e
      BY <2>3
    <3>2. QED
      BY <2>1, <2>3, <3>1 DEF Resulting
  <2>4. QED
    BY <1>0, <1>1, <1>6, <2>2, <2>3, AbortCases
<1>7. ASSUME NEW t \in Targets, Finish(t) \/ Cancelled(t) \/ Read(t) PROVE Resulting'
  <2>1. phase # "ended" /\ phase' # "ended" /\ UNCHANGED result
    BY <1>0, <1>7, ReadUnits DEF Tasks, Pending, Finish, Cancelled, Read
  <2>2. QED
    BY <1>0, <2>1 DEF Resulting
<1>8. CASE UNCHANGED vars
  BY <1>0, <1>1, <1>8 DEF Resulting, vars
<1>9. QED
  BY <1>2, <1>3, <1>4, <1>5, <1>6, <1>7, <1>8 DEF Next

LEMMA SendingStep == ASSUME IInv, [Next]_vars PROVE Sending'
<1>0. /\ TypeOK /\ Sending /\ job' = job /\ Eligible' = Eligible
      /\ \A t \in Targets : Allowed(t)' <=> Allowed(t)
  BY SameJob DEF IInv
<1>1. UNCHANGED <<job, synth>> => MergedAt' = MergedAt
  BY DEF MergedAt
<1>2. CASE Plan
  <2>0. phase = "plan" /\ synth = Nobody
    BY <1>0, <1>2 DEF Plan, Sending
  <2>1. CASE Ends("error", {}, FALSE) /\ UNCHANGED <<unit, synth, sent>>
    BY <1>0, <1>1, <1>2, <2>1 DEF Sending, Ends, TypeOK
  <2>2. ASSUME NEW ps \in Proposers, phase' = "propose", sent' = ps, \E s \in Synthesizers(ps) : synth' = s
        PROVE  Sending'
    <3>1. synth' \in Eligible /\ sent' \subseteq Eligible
      BY <2>2, ChosenEligible
    <3>2. synth' # Nobody /\ \A t \in sent' : Allowed(t)'
      BY <1>0, <3>1, NobodyAssumption DEF Eligible
    <3>3. QED
      BY <1>0, <2>2, <3>1, <3>2 DEF Sending
  <2>3. ASSUME NEW t \in Eligible, synth' = t, sent' = {t}, phase' = "direct" PROVE Sending'
    <3>1. t # Nobody /\ Allowed(t)'
      BY <1>0, NobodyAssumption DEF Eligible
    <3>2. QED
      BY <1>0, <2>3, <3>1 DEF Sending
  <2>4. QED
    BY <1>2, <2>1, <2>2, <2>3 DEF Plan
<1>3. CASE Collected
  <2>1. UNCHANGED synth /\ phase # "plan" /\ phase' \in {"synthesis", "ended"}
    BY <1>0, <1>3, CollectedEnds DEF Collected
  <2>2. synth # Nobody /\ synth \in Eligible
    BY <1>0, <1>3 DEF Sending, Collected
  <2>3. \A t \in sent' : t \in sent \/ t \in MergedAt
    BY <1>3, <1>0, CollectedEnds DEF Collected
  <2>4. \A t \in MergedAt : t = synth \/ (job.stream /\ t \in MergedAt)
    BY DEF MergedAt
  <2>5. \A t \in sent' : Allowed(t) \/ (job.stream /\ t \in MergedAt)
    BY <1>0, <2>2, <2>3, <2>4 DEF Sending, Eligible
  <2>6. \A t \in sent' : Allowed(t)' \/ (job'.stream /\ t \in MergedAt')
    <3>1. sent' \subseteq Targets
      BY TypesStep DEF TypeOK
    <3>2. QED
      BY <1>0, <1>1, <2>1, <2>5, <3>1
  <2>7. QED
    BY <1>0, <2>1, <2>2, <2>6 DEF Sending
<1>4. CASE phase # "plan" /\ phase' # "plan" /\ UNCHANGED <<synth, sent>> /\ (phase = "ended" <=> phase' = "ended")
  BY <1>0, <1>1, <1>4 DEF Sending, TypeOK
<1>5. CASE phase # "plan" /\ phase' = "ended" /\ UNCHANGED <<synth, sent>>
  BY <1>0, <1>1, <1>5 DEF Sending, TypeOK
<1>6. CASE UNCHANGED <<phase, synth, sent>>
  BY <1>0, <1>1, <1>6 DEF Sending, TypeOK
<1>7. CASE DirectDone \/ Synthesized \/ Abort
  <2>1. phase # "plan" /\ UNCHANGED <<synth, sent>>
    BY <1>7 DEF DirectDone, Synthesized, Abort
  <2>2. phase' \in {"settle", "ended"} /\ phase # "ended"
    BY <1>0, <1>7, SynthesizedEnds, AbortCases DEF DirectDone, Synthesized, Ends
  <2>3. QED
    BY <1>4, <1>5, <2>1, <2>2
<1>8. ASSUME NEW t \in Targets, Finish(t) \/ Cancelled(t) PROVE Sending'
  BY <1>6, <1>8 DEF Finish, Cancelled
<1>9. ASSUME NEW t \in Targets, Read(t) PROVE Sending'
  BY <1>0, <1>4, <1>9, ReadUnits DEF Read
<1>10. QED
  BY <1>2, <1>3, <1>6, <1>7, <1>8, <1>9 DEF Next, vars

-----------------------------------------------------------------------------
(* The theorems.                                                           *)

LEMMA Initially == Init => IInv
<1>1. SUFFICES ASSUME Init PROVE IInv
  OBVIOUS
<1>2. result \in [end : Ended, from : SUBSET Targets, degraded : BOOLEAN] /\ result.end = "open"
  BY <1>1 DEF Init, Ended
<1>3. unit \in [Targets -> Units] /\ \A t \in Targets : unit[t] = "none"
  BY <1>1 DEF Init, Units
<1>4. TypeOK /\ Tasks /\ Reading /\ Resulting /\ Sending
  BY <1>1, <1>2, <1>3 DEF Init, TypeOK, Tasks, Reading, Resulting, Sending, Pending
<1>5. QED
  BY <1>4 DEF IInv

\* IInv holds in every reachable state of Ensemble, for any number of proposers.
THEOREM Inductive == Spec => []IInv
<1>1. IInv /\ [Next]_vars => IInv'
  BY TypesStep, TasksStep, ReadingStep, ResultingStep, SendingStep DEF IInv
<1>2. QED
  BY Initially, <1>1, PTL DEF Spec

\* The prompt goes nowhere the policy forbids, whoever proposes and merges, unless a streamed
\* synthesis is routed to whichever peer has the model (EgressKept).
THEOREM PromptStaysInside == Spec => []EgressKept
<1>1. IInv => EgressKept
  BY AllowedKept DEF IInv, Sending, EgressKept, TypeOK
<1>2. QED
  BY Inductive, <1>1, PTL

\* A job of which a good answer has been read does not end in an error, whatever fails, is
\* cancelled or runs out of budget after it (WorkIsKept).
THEOREM AnswersAreKept == Spec => []WorkIsKept
<1>1. IInv => WorkIsKept
  BY DEF IInv, Resulting, WorkIsKept
<1>2. QED
  BY Inductive, <1>1, PTL

\* No proposer runs on after its job has ended or was given up (NoneOutlives).
THEOREM TasksEndWithTheJob == Spec => []NoneOutlives
<1>1. IInv => NoneOutlives
  BY DEF IInv, Tasks, NoneOutlives
<1>2. QED
  BY Inductive, <1>1, PTL

-----------------------------------------------------------------------------
(* The coding harness, for any task graph, any files and any bounds        *)
(* (module Hyphae).                                                        *)

Places    == InFlight \cup {"blocked", "done", "failed"}
Snapshots == UNION {[paths -> Cards \cup {None}] : paths \in SUBSET Files}

\* An analysis holds no files and is neither put right, written nor voted on.
AnalysesWriteNothing ==
    \A t \in Cards : Complexity[t] = "analysis" =>
        files[t] = {} /\ at[t] \in {"blocked", "generate", "done", "failed"}

\* While no two tasks in flight have written one path, a task is the last writer of all it wrote
\* until its verdict is out, and remembers what is there when it is taken back: nothing, or the
\* work of a task that is done, and something wherever such a task has a file.
Orderly ==
    /\ \A t, u \in Cards : t # u /\ at[t] \in Written /\ at[u] \in Written => files[t] \cap files[u] = {}
    /\ \A t \in Cards : at[t] \in Written => DOMAIN snapshot[t] = files[t] /\ \A f \in files[t] : disk[f] = t
    /\ \A t \in Cards : at[t] \in Written => \A f \in files[t] : snapshot[t][f] # None =>
          at[snapshot[t][f]] = "done" /\ f \in files[snapshot[t][f]]
    /\ \A t, u \in Cards : at[t] \in Written /\ at[u] = "done" =>
          \A f \in files[t] \cap files[u] : snapshot[t][f] # None
    /\ \A f \in Files : disk[f] # None => at[disk[f]] \in Written \cup {"done"} /\ f \in files[disk[f]]
    /\ \A t \in Cards : at[t] = "done" => \A f \in files[t] : disk[f] # None

HyInv == HyTypeOK /\ (stage = "plan" => plans < Plans) /\ AnalysesWriteNothing /\ (~contested /\ stage # "raised" => Orderly)

LEMMA HyFacts ==
  ASSUME HyInv
  PROVE  /\ at \in [Cards -> Places] /\ files \in [Cards -> SUBSET Files] /\ disk \in [Files -> Cards \cup {None}]
         /\ snapshot \in [Cards -> Snapshots]
         /\ iteration \in [Cards -> 0 .. Iterations] /\ micro \in [Cards -> 0 .. Micros] /\ plans \in 0 .. Plans
         /\ batch \subseteq Cards /\ lock \in Cards \cup {None} /\ drafts \subseteq Cards /\ contested \in BOOLEAN
         /\ None \notin Cards /\ stage \in {"plan", "run", "ended", "raised"}
BY CardsAssumption DEF HyInv, HyTypeOK, Places, Snapshots

\* What a task remembers is nothing or the work of another task, that is done.
LEMMA RemembersDone ==
  ASSUME HyInv, Orderly, NEW u \in Cards, at[u] \in Written, NEW f \in files[u], snapshot[u][f] # None
  PROVE  at[snapshot[u][f]] = "done" /\ f \in files[snapshot[u][f]] /\ snapshot[u][f] \in Cards
<1>1. at[snapshot[u][f]] = "done" /\ f \in files[snapshot[u][f]]
  BY DEF Orderly
<1>2. f \in DOMAIN snapshot[u] /\ snapshot[u] \in Snapshots
  BY HyFacts DEF Orderly
<1>3. snapshot[u][f] \in Cards \cup {None}
  BY <1>2 DEF Snapshots
<1>4. QED
  BY <1>1, <1>3

\* A task that has written nothing yet, or no longer, goes on.
LEMMA StillOrderly ==
  ASSUME HyInv, Orderly, NEW t \in Cards, at[t] \notin Written \cup {"done"}, UNCHANGED <<disk, snapshot>>,
         NEW place \in Places \ Written, at' = [at EXCEPT ![t] = place],
         NEW paths \in SUBSET Files, files' = [files EXCEPT ![t] = paths],
         place = "done" => paths = {}
  PROVE  Orderly'
<1>1. /\ at'[t] = place /\ files'[t] = paths
      /\ \A u \in Cards : u # t => at'[u] = at[u] /\ files'[u] = files[u]
  BY HyFacts
<1>2. "done" \notin Written
  BY DEF Written
<1>3. \A u \in Cards : at'[u] \in Written => u # t /\ at[u] \in Written
  BY <1>1
<1>4. \A f \in Files : disk[f] # None => disk[f] \in Cards /\ disk[f] # t
  BY HyFacts DEF Orderly
<1>5. ASSUME NEW u \in Cards, at[u] \in Written, NEW f \in files[u], snapshot[u][f] # None
      PROVE  at[snapshot[u][f]] = "done" /\ f \in files[snapshot[u][f]] /\ snapshot[u][f] \in Cards /\ snapshot[u][f] # t
  BY <1>5, RemembersDone
<1>6. QED
  BY <1>1, <1>2, <1>3, <1>4, <1>5 DEF Orderly

\* A task that has written goes on to its review or to its end.
LEMMA SettledOrderly ==
  ASSUME HyInv, Orderly, NEW t \in Cards, at[t] \in Written, UNCHANGED <<disk, snapshot, files>>,
         NEW place \in Written \cup {"done"}, at' = [at EXCEPT ![t] = place]
  PROVE  Orderly'
<1>1. at'[t] = place /\ \A u \in Cards : u # t => at'[u] = at[u]
  BY HyFacts
<1>2. "done" \notin Written
  BY DEF Written
<1>3. \A u \in Cards : (at'[u] \in Written => at[u] \in Written) /\ (at[u] \in Written \cup {"done"} => at'[u] \in Written \cup {"done"})
                       /\ (at[u] = "done" => at'[u] = "done" /\ u # t)
  BY <1>1, <1>2
<1>4. ASSUME NEW u \in Cards, at'[u] \in Written, NEW f \in files[u], snapshot[u][f] # None
      PROVE  at'[snapshot[u][f]] = "done" /\ f \in files[snapshot[u][f]]
  BY <1>3, <1>4, RemembersDone
<1>5. ASSUME NEW u \in Cards, NEW v \in Cards, at'[u] \in Written, at'[v] = "done", NEW f \in files[u] \cap files[v]
      PROVE  snapshot[u][f] # None
  <2>1. CASE v = t
    <3>1. u # t /\ at[u] \in Written
      BY <1>2, <1>3, <1>5, <2>1
    <3>2. QED
      BY <1>5, <2>1, <3>1 DEF Orderly
  <2>2. CASE v # t
    BY <1>1, <1>3, <1>5, <2>2 DEF Orderly
  <2>3. QED
    BY <2>1, <2>2
<1>6. ASSUME NEW u \in Cards, at'[u] = "done", NEW f \in files[u] PROVE disk[f] # None
  BY <1>1, <1>6, HyFacts DEF Orderly
<1>7. \A f \in Files : disk[f] # None => at'[disk[f]] \in Written \cup {"done"} /\ f \in files[disk[f]]
  BY <1>3, HyFacts DEF Orderly
<1>8. \A u, v \in Cards : u # v /\ at'[u] \in Written /\ at'[v] \in Written => files[u] \cap files[v] = {}
  BY <1>3 DEF Orderly
<1>9. \A u \in Cards : at'[u] \in Written => DOMAIN snapshot[u] = files[u] /\ \A f \in files[u] : disk[f] = u
  BY <1>3 DEF Orderly
<1>10. QED
  BY <1>4, <1>5, <1>6, <1>7, <1>8, <1>9 DEF Orderly

\* What a task wrote is taken back.
LEMMA TakenBackOrderly ==
  ASSUME HyInv, Orderly, NEW t \in Cards, at[t] \in Written, UNCHANGED <<snapshot, files>>, disk' = Restored(t),
         NEW place \in Places \ (Written \cup {"done"}), at' = [at EXCEPT ![t] = place]
  PROVE  Orderly'
<1>1. at'[t] = place /\ \A u \in Cards : u # t => at'[u] = at[u]
  BY HyFacts
<1>2. /\ \A u \in Cards : at'[u] \in Written \cup {"done"} => u # t /\ at'[u] = at[u]
      /\ \A u \in Cards : at[u] = "done" => at'[u] = "done" /\ u # t
  BY <1>1 DEF Written
<1>3. \A f \in Files : disk'[f] = IF f \in files[t] THEN snapshot[t][f] ELSE disk[f]
  BY DEF Restored, Orderly
<1>4. files[t] \subseteq Files /\ \A u \in Cards : files[u] \subseteq Files
  BY HyFacts
<1>5. ASSUME NEW u \in Cards, at'[u] \in Written, NEW f \in files[u] PROVE disk'[f] = u
  <2>1. u # t /\ at[u] \in Written /\ f \notin files[t]
    BY <1>2, <1>5 DEF Orderly
  <2>2. QED
    BY <1>3, <1>4, <1>5, <2>1 DEF Orderly
<1>6. ASSUME NEW u \in Cards, at'[u] \in Written, NEW f \in files[u], snapshot[u][f] # None
      PROVE  at'[snapshot[u][f]] = "done" /\ f \in files[snapshot[u][f]]
  BY <1>2, <1>6, RemembersDone
<1>7. ASSUME NEW f \in Files, disk'[f] # None PROVE at'[disk'[f]] \in Written \cup {"done"} /\ f \in files[disk'[f]]
  <2>1. CASE f \in files[t]
    <3>1. at[snapshot[t][f]] = "done" /\ f \in files[snapshot[t][f]] /\ snapshot[t][f] \in Cards
      BY <1>3, <1>7, <2>1, RemembersDone
    <3>2. QED
      BY <1>2, <1>3, <2>1, <3>1
  <2>2. CASE f \notin files[t]
    <3>1. disk'[f] = disk[f] /\ disk[f] \in Cards /\ at[disk[f]] \in Written \cup {"done"} /\ f \in files[disk[f]]
      BY <1>3, <1>7, <2>2, HyFacts DEF Orderly
    <3>2. disk[f] # t
      BY <2>2, <3>1
    <3>3. QED
      BY <1>1, <3>1, <3>2
  <2>3. QED
    BY <2>1, <2>2
<1>8. ASSUME NEW u \in Cards, at'[u] = "done", NEW f \in files[u] PROVE disk'[f] # None
  <2>1. at[u] = "done" /\ f \in Files
    BY <1>2, <1>4, <1>8
  <2>2. QED
    BY <1>3, <1>8, <2>1 DEF Orderly
<1>9. \A u, v \in Cards : u # v /\ at'[u] \in Written /\ at'[v] \in Written => files[u] \cap files[v] = {}
  BY <1>2 DEF Orderly
<1>10. \A u \in Cards : at'[u] \in Written => DOMAIN snapshot[u] = files[u]
  BY <1>2 DEF Orderly
<1>11. \A u, v \in Cards : at'[u] \in Written /\ at'[v] = "done" => \A f \in files[u] \cap files[v] : snapshot[u][f] # None
  BY <1>2 DEF Orderly
<1>12. QED
  BY <1>5, <1>6, <1>7, <1>8, <1>9, <1>10, <1>11 DEF Orderly

\* A task writes, and no other that may yet be taken back has written one of its paths.
LEMMA WrittenOrderly ==
  ASSUME HyInv, Orderly, NEW t \in Cards, at[t] = "apply", ~Contest(t), UNCHANGED files,
         snapshot' = [snapshot EXCEPT ![t] = Remember(files[t])],
         disk' = [f \in Files |-> IF f \in files[t] THEN t ELSE disk[f]],
         NEW place \in Written \cup {"done"}, at' = [at EXCEPT ![t] = place]
  PROVE  Orderly'
<1>1. at'[t] = place /\ \A u \in Cards : u # t => at'[u] = at[u]
  BY HyFacts
<1>2. /\ snapshot'[t] = [f \in files[t] |-> disk[f]] /\ \A u \in Cards : u # t => snapshot'[u] = snapshot[u]
      /\ \A f \in Files : disk'[f] = IF f \in files[t] THEN t ELSE disk[f]
  BY HyFacts DEF Remember
<1>3. "done" \notin Written /\ "apply" \notin Written /\ None \notin Cards
  BY HyFacts DEF Written
<1>4. \A u \in Cards : files[u] \subseteq Files
  BY HyFacts
<1>5. \A u \in Cards : u # t /\ at[u] \in Written => files[u] \cap files[t] = {}
  BY DEF Contest
<1>6. \A u \in Cards : (at[u] \in Written \cup {"done"} => u # t /\ at'[u] = at[u])
                       /\ (u # t /\ at'[u] \in Written \cup {"done"} => at[u] = at'[u])
  BY <1>1, <1>3
<1>7. \A u, v \in Cards : u # v /\ at'[u] \in Written /\ at'[v] \in Written => files[u] \cap files[v] = {}
  <2> SUFFICES ASSUME NEW u \in Cards, NEW v \in Cards, u # v, at'[u] \in Written, at'[v] \in Written
               PROVE  files[u] \cap files[v] = {}
    OBVIOUS
  <2>1. CASE u # t /\ v # t
    BY <1>6, <2>1 DEF Orderly
  <2>2. CASE u = t \/ v = t
    BY <1>5, <1>6, <2>2
  <2>3. QED
    BY <2>1, <2>2
<1>8. ASSUME NEW u \in Cards, at'[u] \in Written
      PROVE  DOMAIN snapshot'[u] = files[u] /\ \A f \in files[u] : disk'[f] = u
  <2>1. CASE u = t
    BY <1>2, <1>4, <2>1
  <2>2. CASE u # t
    <3>1. at[u] \in Written /\ files[u] \cap files[t] = {}
      BY <1>5, <1>6, <1>8, <2>2
    <3>2. QED
      BY <1>2, <1>4, <2>2, <3>1 DEF Orderly
  <2>3. QED
    BY <2>1, <2>2
<1>9. ASSUME NEW u \in Cards, at'[u] \in Written, NEW f \in files[u], snapshot'[u][f] # None
      PROVE  at'[snapshot'[u][f]] = "done" /\ f \in files[snapshot'[u][f]]
  <2>1. CASE u = t
    <3>1. f \in Files /\ snapshot'[u][f] = disk[f] /\ disk[f] \in Cards
      BY <1>2, <1>4, <1>9, <2>1, HyFacts
    <3>2. at[disk[f]] \in Written \cup {"done"} /\ f \in files[disk[f]]
      BY <1>9, <3>1 DEF Orderly
    <3>3. at[disk[f]] \notin Written
      BY <1>5, <1>6, <1>9, <2>1, <3>1, <3>2
    <3>4. QED
      BY <1>6, <3>1, <3>2, <3>3
  <2>2. CASE u # t
    <3>1. at[u] \in Written /\ snapshot'[u] = snapshot[u]
      BY <1>2, <1>6, <1>9, <2>2
    <3>2. QED
      BY <1>6, <1>9, <3>1, RemembersDone
  <2>3. QED
    BY <2>1, <2>2
<1>10. ASSUME NEW u \in Cards, NEW v \in Cards, at'[u] \in Written, at'[v] = "done", NEW f \in files[u] \cap files[v]
       PROVE  snapshot'[u][f] # None
  <2>1. CASE u = t
    <3>1. v # t /\ at[v] = "done"
      BY <1>3, <1>6, <1>10, <2>1
    <3>2. snapshot'[u][f] = disk[f] /\ disk[f] # None
      BY <1>2, <1>10, <2>1, <3>1 DEF Orderly
    <3>3. QED
      BY <3>2
  <2>2. CASE u # t
    <3>1. at[u] \in Written /\ snapshot'[u] = snapshot[u] /\ f \notin files[t]
      BY <1>2, <1>5, <1>6, <1>10, <2>2
    <3>2. v # t /\ at[v] = "done"
      BY <1>6, <1>10, <3>1
    <3>3. QED
      BY <1>10, <3>1, <3>2 DEF Orderly
  <2>3. QED
    BY <2>1, <2>2
<1>11. ASSUME NEW f \in Files, disk'[f] # None PROVE at'[disk'[f]] \in Written \cup {"done"} /\ f \in files[disk'[f]]
  <2>1. CASE f \in files[t]
    BY <1>1, <1>2, <2>1
  <2>2. CASE f \notin files[t]
    <3>1. disk'[f] = disk[f] /\ disk[f] \in Cards /\ at[disk[f]] \in Written \cup {"done"} /\ f \in files[disk[f]]
      BY <1>2, <1>11, <2>2, HyFacts DEF Orderly
    <3>2. QED
      BY <1>6, <3>1
  <2>3. QED
    BY <2>1, <2>2
<1>12. ASSUME NEW u \in Cards, at'[u] = "done", NEW f \in files[u] PROVE disk'[f] # None
  <2>1. CASE f \in files[t]
    BY <1>2, <1>3, <1>4, <2>1
  <2>2. CASE f \notin files[t]
    <3>1. u # t /\ at[u] = "done" /\ f \in Files
      BY <1>4, <1>6, <1>12, <2>2
    <3>2. QED
      BY <1>2, <1>12, <2>2, <3>1 DEF Orderly
  <2>3. QED
    BY <2>1, <2>2
<1>13. QED
  BY <1>7, <1>8, <1>9, <1>10, <1>11, <1>12 DEF Orderly

LEMMA NoneWroteOrderly ==
  ASSUME HyInv, Orderly, UNCHANGED <<disk, snapshot, files>>,
         \A u \in Cards : at'[u] = at[u] \/ (at[u] \notin Written \cup {"done"} /\ at'[u] \notin Written \cup {"done"})
  PROVE  Orderly'
<1>1. \A u \in Cards : /\ at[u] \in Written \cup {"done"} => at'[u] = at[u]
                       /\ at'[u] \in Written \cup {"done"} => at'[u] = at[u]
  OBVIOUS
<1>2. ASSUME NEW u \in Cards, at'[u] \in Written, NEW f \in files[u], snapshot[u][f] # None
      PROVE  at'[snapshot[u][f]] = "done" /\ f \in files[snapshot[u][f]]
  BY <1>1, <1>2, RemembersDone
<1>3. \A f \in Files : disk[f] # None => at'[disk[f]] \in Written \cup {"done"} /\ f \in files[disk[f]]
  BY <1>1, HyFacts DEF Orderly
<1>4. /\ \A t, u \in Cards : t # u /\ at'[t] \in Written /\ at'[u] \in Written => files[t] \cap files[u] = {}
      /\ \A t \in Cards : at'[t] \in Written => DOMAIN snapshot[t] = files[t] /\ \A f \in files[t] : disk[f] = t
  BY <1>1 DEF Orderly
<1>5. /\ \A t, u \in Cards : at'[t] \in Written /\ at'[u] = "done" => \A f \in files[t] \cap files[u] : snapshot[t][f] # None
      /\ \A t \in Cards : at'[t] = "done" => \A f \in files[t] : disk[f] # None
  BY <1>1 DEF Orderly
<1>6. QED
  BY <1>2, <1>3, <1>4, <1>5 DEF Orderly

\* A next iteration, or the end of them.
LEMMA RetryIs ==
  ASSUME HyInv, NEW t \in Cards, Retry(t)
  PROVE  /\ at' = [at EXCEPT ![t] = "generate"] \/ at' = [at EXCEPT ![t] = "failed"]
         /\ iteration' \in [Cards -> 0 .. Iterations]
<1>1. CASE iteration[t] < Iterations
  <2>1. iteration[t] + 1 \in 0 .. Iterations
    BY <1>1, HyFacts, BoundsAssumption
  <2>2. QED
    BY <1>1, <2>1, HyFacts DEF Retry
<1>2. CASE ~(iteration[t] < Iterations)
  BY <1>2, HyFacts DEF Retry
<1>3. QED
  BY <1>1, <1>2

\* What a task that moves may become.
Moves(t, place, paths) ==
    /\ at' = [at EXCEPT ![t] = place]
    /\ files' = [files EXCEPT ![t] = paths]
    /\ Complexity[t] = "analysis" => paths = {} /\ place \in {"generate", "done", "failed"}

LEMMA MovesTypes ==
  ASSUME HyInv, NEW t \in Cards, NEW place \in Places, NEW paths \in SUBSET Files, Moves(t, place, paths),
         disk' \in [Files -> Cards \cup {None}], snapshot' \in [Cards -> Snapshots],
         iteration' \in [Cards -> 0 .. Iterations], micro' \in [Cards -> 0 .. Micros],
         lock' \in Cards \cup {None}, drafts' \subseteq Cards, contested' \in BOOLEAN, UNCHANGED <<stage, plans, batch>>
  PROVE  HyTypeOK' /\ AnalysesWriteNothing' /\ (stage' = "plan" => plans' < Plans)
<1>1. at' \in [Cards -> Places] /\ files' \in [Cards -> SUBSET Files]
      /\ at'[t] = place /\ files'[t] = paths /\ \A u \in Cards : u # t => at'[u] = at[u] /\ files'[u] = files[u]
  BY HyFacts DEF Moves
<1>2. AnalysesWriteNothing'
  BY <1>1 DEF Moves, HyInv, AnalysesWriteNothing
<1>3. HyTypeOK'
  BY <1>1, HyFacts DEF HyTypeOK, Places, Snapshots
<1>4. QED
  BY <1>2, <1>3 DEF HyInv

LEMMA RestoredTypes ==
  ASSUME HyInv, NEW t \in Cards
  PROVE  Restored(t) \in [Files -> Cards \cup {None}]
<1>1. snapshot[t] \in Snapshots
  BY HyFacts
<1>2. \A f \in DOMAIN snapshot[t] : snapshot[t][f] \in Cards \cup {None}
  BY <1>1 DEF Snapshots
<1>3. QED
  BY <1>2, HyFacts DEF Restored

LEMMA RememberTypes ==
  ASSUME HyInv, NEW t \in Cards
  PROVE  [snapshot EXCEPT ![t] = Remember(files[t])] \in [Cards -> Snapshots]
<1>1. files[t] \in SUBSET Files
  BY HyFacts
<1>2. Remember(files[t]) \in [files[t] -> Cards \cup {None}]
  BY <1>1, HyFacts DEF Remember
<1>3. Remember(files[t]) \in Snapshots
  BY <1>1, <1>2 DEF Snapshots
<1>4. QED
  BY <1>3, HyFacts

\* The conclusion of every step of a task.
LEMMA TaskSteps ==
  ASSUME HyInv, NEW t \in Cards, NEW place \in Places, NEW paths \in SUBSET Files, Moves(t, place, paths),
         disk' \in [Files -> Cards \cup {None}], snapshot' \in [Cards -> Snapshots],
         iteration' \in [Cards -> 0 .. Iterations], micro' \in [Cards -> 0 .. Micros],
         lock' \in Cards \cup {None}, drafts' \subseteq Cards, contested' \in BOOLEAN, UNCHANGED <<stage, plans, batch>>,
         contested => contested', Orderly /\ ~contested' => Orderly'
  PROVE  HyInv'
<1>1. HyTypeOK' /\ AnalysesWriteNothing' /\ (stage' = "plan" => plans' < Plans)
  BY MovesTypes
<1>2. QED
  BY <1>1, HyFacts DEF HyInv

\* A task that has written nothing moves on: all but its place and its files is as it was.
LEMMA UnwrittenStep ==
  ASSUME HyInv, NEW t \in Cards, at[t] \notin Written \cup {"done"},
         NEW place \in Places \ Written, NEW paths \in SUBSET Files, Moves(t, place, paths), place = "done" => paths = {},
         iteration' \in [Cards -> 0 .. Iterations], micro' \in [Cards -> 0 .. Micros],
         UNCHANGED <<disk, snapshot, lock, drafts, contested, stage, plans, batch>>
  PROVE  HyInv'
<1>1. Orderly => Orderly'
  BY StillOrderly DEF Moves
<1>2. QED
  BY <1>1, TaskSteps, HyFacts

LEMMA SameFiles == ASSUME HyInv, NEW t \in Cards PROVE files = [files EXCEPT ![t] = files[t]] /\ files[t] \in SUBSET Files
BY HyFacts

LEMMA WorkingWrites ==
  ASSUME HyInv, NEW t \in Cards, at[t] \in {"micro", "apply", "test", "review", "undo", "vote"}
  PROVE  Complexity[t] # "analysis"
BY DEF HyInv, AnalysesWriteNothing

LEMMA GeneratedInv ==
  ASSUME HyInv, NEW t \in Cards, Generated(t)
  PROVE  HyInv'
<1>1. /\ at[t] = "generate" /\ micro' = [micro EXCEPT ![t] = 0]
      /\ UNCHANGED <<disk, snapshot, lock, drafts, contested, stage, plans, batch>>
  BY DEF Generated
<1>2. micro' \in [Cards -> 0 .. Micros] /\ at[t] \notin Written \cup {"done"}
  BY <1>1, HyFacts, BoundsAssumption DEF Written
<1>3. Complexity[t] = "analysis" => files[t] = {}
  BY DEF HyInv, AnalysesWriteNothing
<1>4. CASE Retry(t) /\ UNCHANGED files
  <2>1. PICK place \in {"generate", "failed"} : at' = [at EXCEPT ![t] = place]
    BY <1>4, RetryIs
  <2>2. Moves(t, place, files[t])
    BY <1>3, <1>4, <2>1, SameFiles DEF Moves
  <2>3. place \in Places \ Written /\ place # "done"
    BY DEF Places, Written, InFlight
  <2>4. QED
    BY <1>1, <1>2, <1>4, <2>2, <2>3, RetryIs, SameFiles, UnwrittenStep
<1>5. CASE Complexity[t] = "analysis" /\ at' = [at EXCEPT ![t] = "done"] /\ UNCHANGED <<iteration, files>>
  <2>1. Moves(t, "done", {})
    BY <1>3, <1>5, SameFiles DEF Moves
  <2>2. "done" \in Places \ Written
    BY DEF Places, Written
  <2>3. QED
    BY <1>1, <1>2, <1>5, <2>1, <2>2, HyFacts, UnwrittenStep
<1>6. CASE Complexity[t] # "analysis" /\ Validated(t) /\ UNCHANGED iteration
  <2>1. PICK paths \in SUBSET Files, place \in {"apply", "micro"} :
           files' = [files EXCEPT ![t] = paths] /\ at' = [at EXCEPT ![t] = place]
    BY <1>6 DEF Validated
  <2>2. Moves(t, place, paths)
    BY <1>6, <2>1 DEF Moves
  <2>3. place \in Places \ Written /\ place # "done"
    BY DEF Places, Written, InFlight
  <2>4. QED
    BY <1>1, <1>2, <1>6, <2>2, <2>3, HyFacts, UnwrittenStep
<1>7. QED
  BY <1>4, <1>5, <1>6 DEF Generated

LEMMA MicroInv ==
  ASSUME HyInv, NEW t \in Cards, Micro(t) \/ StillInvalid(t)
  PROVE  HyInv'
<1>1. /\ at[t] = "micro" /\ UNCHANGED <<disk, snapshot, lock, drafts, contested, stage, plans, batch>>
  BY DEF Micro, StillInvalid
<1>2. at[t] \notin Written \cup {"done"} /\ Complexity[t] # "analysis"
  BY <1>1, WorkingWrites DEF Written
<1>3. CASE Micro(t)
  <2>1. micro[t] + 1 \in 0 .. Micros
    BY <1>3, HyFacts, BoundsAssumption DEF Micro
  <2>2. micro' \in [Cards -> 0 .. Micros] /\ UNCHANGED iteration
    BY <1>3, <2>1, HyFacts DEF Micro
  <2>3. at = [at EXCEPT ![t] = "micro"]
    BY <1>1, HyFacts
  <2>4. PICK paths \in SUBSET Files, place \in {"apply", "micro"} :
           files' = [files EXCEPT ![t] = paths] /\ at' = [at EXCEPT ![t] = place]
    <3>1. CASE UNCHANGED <<at, files>>
      BY <2>3, <3>1, SameFiles
    <3>2. CASE Validated(t)
      BY <3>2 DEF Validated
    <3>3. QED
      BY <1>3, <3>1, <3>2 DEF Micro
  <2>5. Moves(t, place, paths)
    BY <1>2, <2>4 DEF Moves
  <2>6. place \in Places \ Written /\ place # "done"
    BY DEF Places, Written, InFlight
  <2>7. QED
    BY <1>1, <1>2, <2>2, <2>5, <2>6, HyFacts, UnwrittenStep
<1>4. CASE StillInvalid(t)
  <2>1. Retry(t) /\ UNCHANGED <<micro, files>>
    BY <1>4 DEF StillInvalid
  <2>2. PICK place \in {"generate", "failed"} : at' = [at EXCEPT ![t] = place]
    BY <2>1, RetryIs
  <2>3. Moves(t, place, files[t])
    BY <1>2, <2>1, <2>2, SameFiles DEF Moves
  <2>4. place \in Places \ Written /\ place # "done"
    BY DEF Places, Written, InFlight
  <2>5. QED
    BY <1>1, <1>2, <2>1, <2>3, <2>4, HyFacts, RetryIs, SameFiles, UnwrittenStep
<1>5. QED
  BY <1>3, <1>4

LEMMA VoteInv ==
  ASSUME HyInv, NEW t \in Cards, Vote(t)
  PROVE  HyInv'
<1>1. at[t] = "vote" /\ UNCHANGED <<iteration, micro, disk, snapshot, lock, drafts, contested, stage, plans, batch>>
  BY DEF Vote, attempts
<1>2. at[t] \notin Written \cup {"done"} /\ Complexity[t] # "analysis"
  BY <1>1, WorkingWrites DEF Written
<1>3. PICK paths \in SUBSET Files, place \in {"apply", "failed"} :
         files' = [files EXCEPT ![t] = paths] /\ at' = [at EXCEPT ![t] = place]
  <2>1. CASE at' = [at EXCEPT ![t] = "failed"] /\ UNCHANGED files
    BY <2>1, SameFiles
  <2>2. CASE \E paths \in SUBSET Files, valid \in BOOLEAN :
                /\ files' = [files EXCEPT ![t] = paths]
                /\ at' = [at EXCEPT ![t] = IF valid THEN "apply" ELSE "failed"]
    BY <2>2
  <2>3. QED
    BY <2>1, <2>2 DEF Vote
<1>4. Moves(t, place, paths)
  BY <1>2, <1>3 DEF Moves
<1>5. place \in Places \ Written /\ place # "done"
  BY DEF Places, Written, InFlight
<1>6. QED
  BY <1>1, <1>2, <1>4, <1>5, HyFacts, UnwrittenStep

\* Its verdict is out, or the next step towards it.
LEMMA SettledStep ==
  ASSUME HyInv, NEW t \in Cards, at[t] \in Written, NEW place \in Written \cup {"done"}, at' = [at EXCEPT ![t] = place],
         lock' \in Cards \cup {None}, drafts' \subseteq Cards,
         UNCHANGED <<iteration, micro, files, disk, snapshot, contested, stage, plans, batch>>
  PROVE  HyInv'
<1>1. Moves(t, place, files[t])
  BY SameFiles, WorkingWrites DEF Moves, Written
<1>2. Orderly => Orderly'
  BY SettledOrderly
<1>3. place \in Places
  BY DEF Places, Written, InFlight
<1>4. QED
  BY <1>1, <1>2, <1>3, HyFacts, SameFiles, TaskSteps

LEMMA TakenBackStep ==
  ASSUME HyInv, NEW t \in Cards, at[t] \in Written, NEW place \in {"generate", "failed"}, at' = [at EXCEPT ![t] = place],
         disk' = Restored(t), lock' \in Cards \cup {None}, iteration' \in [Cards -> 0 .. Iterations],
         UNCHANGED <<micro, files, snapshot, contested, stage, plans, batch, drafts>>
  PROVE  HyInv'
<1>1. Moves(t, place, files[t])
  BY SameFiles, WorkingWrites DEF Moves, Written
<1>2. place \in Places \ (Written \cup {"done"})
  BY DEF Places, Written, InFlight
<1>3. Orderly => Orderly'
  BY <1>2, TakenBackOrderly
<1>4. disk' \in [Files -> Cards \cup {None}]
  BY RestoredTypes
<1>5. QED
  BY <1>1, <1>2, <1>3, <1>4, HyFacts, SameFiles, TaskSteps

LEMMA ApplyInv ==
  ASSUME HyInv, NEW t \in Cards, Apply(t)
  PROVE  HyInv'
<1>1. /\ at[t] = "apply"
      /\ snapshot' = [snapshot EXCEPT ![t] = Remember(files[t])]
      /\ disk' = [f \in Files |-> IF f \in files[t] THEN t ELSE disk[f]]
      /\ contested' = (contested \/ Contest(t))
      /\ UNCHANGED <<stage, plans, batch, iteration, micro, files, drafts>>
  BY DEF Apply, attempts
<1>2. PICK place \in {"test", "review", "done"} : at' = [at EXCEPT ![t] = place] /\ lock' \in {t, lock}
  BY DEF Apply
<1>3. place \in Written \cup {"done"} /\ place \in Places
  BY DEF Places, Written, InFlight
<1>4. Moves(t, place, files[t])
  BY <1>1, <1>2, SameFiles, WorkingWrites DEF Moves
<1>5. Orderly /\ ~contested' => Orderly'
  BY <1>1, <1>2, <1>3, WrittenOrderly
<1>6. disk' \in [Files -> Cards \cup {None}] /\ snapshot' \in [Cards -> Snapshots]
  BY <1>1, HyFacts, RememberTypes
<1>7. contested' \in BOOLEAN /\ (contested => contested') /\ lock' \in Cards \cup {None}
  BY <1>1, <1>2, HyFacts
<1>8. QED
  BY <1>1, <1>3, <1>4, <1>5, <1>6, <1>7, HyFacts, SameFiles, TaskSteps

LEMMA TestedInv ==
  ASSUME HyInv, NEW t \in Cards, Tested(t)
  PROVE  HyInv'
<1>1. at[t] \in Written /\ lock' = None /\ UNCHANGED <<stage, plans, batch, micro, files, snapshot, drafts, contested>>
  BY DEF Tested, Written
<1>2. lock' \in Cards \cup {None} /\ drafts' \subseteq Cards
  BY <1>1, HyFacts
<1>3. CASE at' = [at EXCEPT ![t] = IF Voted(t) THEN "done" ELSE "review"] /\ UNCHANGED <<disk, iteration>>
  <2>1. PICK place \in Written \cup {"done"} : at' = [at EXCEPT ![t] = place]
    BY <1>3 DEF Written
  <2>2. QED
    BY <1>1, <1>2, <1>3, <2>1, SettledStep
<1>4. CASE disk' = Restored(t) /\ IF Voted(t) THEN at' = [at EXCEPT ![t] = "failed"] /\ UNCHANGED iteration ELSE Retry(t)
  <2>1. PICK place \in {"generate", "failed"} : at' = [at EXCEPT ![t] = place]
    BY <1>4, RetryIs
  <2>2. iteration' \in [Cards -> 0 .. Iterations]
    BY <1>4, HyFacts, RetryIs
  <2>3. QED
    BY <1>1, <1>2, <1>4, <2>1, <2>2, TakenBackStep
<1>5. QED
  BY <1>3, <1>4 DEF Tested

LEMMA ReviewedInv ==
  ASSUME HyInv, NEW t \in Cards, Reviewed(t)
  PROVE  HyInv'
<1>1. at[t] \in Written /\ UNCHANGED <<stage, plans, batch, iteration, micro, files, disk, snapshot, lock, contested>>
  BY DEF Reviewed, Written, attempts
<1>2. PICK place \in Written \cup {"done"} : at' = [at EXCEPT ![t] = place]
  BY DEF Reviewed, Written
<1>3. drafts' \subseteq Cards /\ lock' \in Cards \cup {None}
  BY <1>1, HyFacts DEF Reviewed, Speculated
<1>4. QED
  BY <1>1, <1>2, <1>3, SettledStep

LEMMA UndoInv ==
  ASSUME HyInv, NEW t \in Cards, Undo(t)
  PROVE  HyInv'
<1>1. /\ at[t] \in Written /\ disk' = Restored(t) /\ Retry(t)
      /\ UNCHANGED <<stage, plans, batch, micro, files, snapshot, lock, drafts, contested>>
  BY DEF Undo, Written
<1>2. PICK place \in {"generate", "failed"} : at' = [at EXCEPT ![t] = place]
  BY <1>1, RetryIs
<1>3. QED
  BY <1>1, <1>2, HyFacts, RetryIs, TakenBackStep

LEMMA RaiseInv ==
  ASSUME HyInv, NEW t \in Cards, Raise(t)
  PROVE  HyInv'
<1>1. /\ stage' = "raised" /\ UNCHANGED <<plans, batch, at, iteration, micro, files, snapshot, lock, drafts, contested>>
      /\ \E written \in SUBSET files[t] : disk' = [f \in Files |-> IF f \in written THEN t ELSE disk[f]]
  BY DEF Raise, attempts
<1>2. disk' \in [Files -> Cards \cup {None}]
  BY <1>1, HyFacts
<1>3. HyTypeOK'
  BY <1>1, <1>2, HyFacts DEF HyTypeOK, Places, Snapshots
<1>4. QED
  BY <1>1, <1>3 DEF HyInv, AnalysesWriteNothing

LEMMA PlanInv ==
  ASSUME HyInv, MakePlan
  PROVE  HyInv'
<1>1. UNCHANGED <<batch, at, iteration, micro, files, disk, snapshot, lock, drafts, contested>> /\ stage = "plan" /\ plans < Plans
  BY DEF MakePlan, attempts, HyInv
<1>2. Plans \in Nat \ {0} /\ plans \in 0 .. Plans
  BY HyFacts, BoundsAssumption
<1>3. plans' \in 0 .. Plans /\ stage' \in {"plan", "run", "raised"} /\ (stage' = "plan" => plans' < Plans)
  BY <1>1, <1>2 DEF MakePlan
<1>4. HyTypeOK'
  BY <1>1, <1>3, HyFacts DEF HyTypeOK, Places, Snapshots
<1>5. Orderly => Orderly'
  BY <1>1 DEF Orderly
<1>6. QED
  BY <1>1, <1>3, <1>4, <1>5 DEF HyInv, AnalysesWriteNothing

LEMMA NextBatchInv ==
  ASSUME HyInv, NextBatch
  PROVE  HyInv'
<1>1. UNCHANGED <<plans, micro, files, disk, snapshot, lock, contested>> /\ stage = "run" /\ stage' \in {"run", "ended"}
  BY DEF NextBatch
<1>2. CASE stage' = "ended" /\ UNCHANGED <<batch, at, iteration, drafts>>
  <2>1. HyTypeOK'
    BY <1>1, <1>2, HyFacts DEF HyTypeOK, Places, Snapshots
  <2>2. Orderly => Orderly'
    BY <1>1, <1>2 DEF Orderly
  <2>3. QED
    BY <1>1, <1>2, <2>1, <2>2 DEF HyInv, AnalysesWriteNothing
<1>3. CASE /\ batch' = Ready
           /\ at' = [u \in Cards |-> IF u \notin Ready THEN at[u] ELSE IF Voted(u) THEN "vote" ELSE "generate"]
           /\ iteration' = [u \in Cards |-> IF u \in Ready THEN 1 ELSE iteration[u]]
           /\ drafts' = drafts \ {u \in Ready : ~Voted(u)}
           /\ UNCHANGED stage
  <2>1. Ready \subseteq Cards /\ \A u \in Ready : at[u] = "blocked"
    BY DEF Ready
  <2>2. at' \in [Cards -> Places]
    BY <1>3, HyFacts DEF Places, InFlight
  <2>3. iteration' \in [Cards -> 0 .. Iterations]
    BY <1>3, HyFacts, BoundsAssumption
  <2>4. HyTypeOK'
    BY <1>1, <1>3, <2>1, <2>2, <2>3, HyFacts DEF HyTypeOK, Places, Snapshots
  <2>5. AnalysesWriteNothing'
    <3>1. ASSUME NEW u \in Cards, Complexity[u] = "analysis" PROVE at'[u] \in {at[u], "generate"}
      BY <1>3, <3>1 DEF Voted
    <3>2. QED
      BY <1>1, <3>1 DEF HyInv, AnalysesWriteNothing
  <2>6. \A u \in Cards : at'[u] = at[u] \/ (at[u] \notin Written \cup {"done"} /\ at'[u] \notin Written \cup {"done"})
    BY <1>3, <2>1 DEF Written
  <2>7. Orderly => Orderly'
    BY <1>1, <2>6, NoneWroteOrderly
  <2>8. QED
    BY <1>1, <1>3, <2>4, <2>5, <2>7 DEF HyInv
<1>4. QED
  BY <1>2, <1>3 DEF NextBatch

-----------------------------------------------------------------------------
(* The theorems about Hyphae.                                              *)

LEMMA HyInitially == HyInit => HyInv
<1> SUFFICES ASSUME HyInit PROVE HyInv
  OBVIOUS
<1>1. Nothing \in [{} -> Cards \cup {None}]
  BY DEF Nothing
<1>2. {} \in SUBSET Files
  OBVIOUS
<1>3. Nothing \in Snapshots
  BY <1>1, <1>2 DEF Snapshots
<1>4. 0 \in 0 .. Iterations /\ 0 \in 0 .. Micros /\ 0 \in 0 .. Plans /\ 0 < Plans
  BY BoundsAssumption
<1>5. /\ stage = "plan" /\ plans = 0 /\ batch = {} /\ lock = None /\ drafts = {} /\ contested = FALSE
      /\ at = [t \in Cards |-> "blocked"] /\ files = [t \in Cards |-> {}] /\ disk = [f \in Files |-> None]
      /\ iteration = [t \in Cards |-> 0] /\ micro = [t \in Cards |-> 0] /\ snapshot = [t \in Cards |-> Nothing]
  BY DEF HyInit
<1>6. at \in [Cards -> Places] /\ files \in [Cards -> SUBSET Files] /\ disk \in [Files -> Cards \cup {None}]
  BY <1>5 DEF Places
<1>7. iteration \in [Cards -> 0 .. Iterations] /\ micro \in [Cards -> 0 .. Micros] /\ snapshot \in [Cards -> Snapshots]
  BY <1>3, <1>4, <1>5
<1>8. HyTypeOK
  BY <1>4, <1>5, <1>6, <1>7 DEF HyTypeOK, Places, Snapshots
<1>9. AnalysesWriteNothing /\ Orderly
  BY <1>5 DEF AnalysesWriteNothing, Orderly, Written
<1>10. QED
  BY <1>4, <1>5, <1>8, <1>9 DEF HyInv

(* Whatever tasks generate, write, take back and vote on at once, the types *)
(* hold, an analysis writes nothing, and unless two tasks in flight have    *)
(* written one path the workspace is orderly (executor.py, workspace.py).   *)
THEOREM HyInductive == HySpec => []HyInv
<1>1. ASSUME HyInv, [HyNext]_hyVars PROVE HyInv'
  <2>1. CASE MakePlan \/ NextBatch
    BY <1>1, <2>1, PlanInv, NextBatchInv
  <2>2. ASSUME NEW t \in Cards, Step(t) PROVE HyInv'
    BY <1>1, <2>2, RaiseInv, GeneratedInv, MicroInv, ApplyInv, TestedInv, ReviewedInv, UndoInv, VoteInv DEF Step
  <2>3. CASE UNCHANGED hyVars
    <3>1. UNCHANGED <<stage, plans, batch, at, iteration, micro, files, disk, snapshot, lock, drafts, contested>>
      BY <2>3 DEF hyVars, attempts
    <3>2. HyTypeOK'
      BY <1>1, <3>1, HyFacts DEF HyTypeOK, Places, Snapshots
    <3>3. Orderly => Orderly'
      BY <3>1 DEF Orderly
    <3>4. QED
      BY <1>1, <3>1, <3>2, <3>3 DEF HyInv, AnalysesWriteNothing
  <2>4. QED
    BY <1>1, <2>1, <2>2, <2>3 DEF HyNext
<1>2. QED
  BY <1>1, HyInitially, PTL DEF HySpec

(* For any task graph and any number of tasks at once, what a task that is  *)
(* done has written is never lost to the taking back of another, unless two *)
(* tasks in flight have written one path or the run raised (executor.py,    *)
(* workspace.py snapshot and restore).                                      *)
THEOREM DoneWorkStands == HySpec => []DoneStands
<1>1. HyInv => DoneStands
  <2> SUFFICES ASSUME HyInv, ~contested, stage # "raised", NEW t \in Cards, at[t] = "done", NEW p \in files[t]
               PROVE  disk[p] # None /\ at[disk[p]] \in Written \cup {"done"}
    BY DEF DoneStands
  <2>1. Orderly /\ p \in Files
    BY HyFacts DEF HyInv
  <2>2. QED
    BY <2>1 DEF Orderly
<1>2. QED
  BY <1>1, HyInductive, PTL

(* Under the same conditions nothing that was rejected, or failed its       *)
(* tests, is left in the workspace (executor.py; README.md, "a failure      *)
(* rolls the files back").                                                  *)
THEOREM FailuresAreTakenBack == HySpec => []NoLeftovers
<1>1. HyInv => NoLeftovers
  BY DEF HyInv, Orderly, NoLeftovers
<1>2. QED
  BY <1>1, HyInductive, PTL
=============================================================================
