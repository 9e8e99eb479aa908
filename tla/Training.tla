------------------------------ MODULE Training ------------------------------
(***************************************************************************)
(* Rounds of federated training (training/session.py, round.py and         *)
(* aggregate.py).                                                          *)
(*                                                                         *)
(* A coordinator announces a round to its participants, waits until each   *)
(* has answered or its time is up, averages what is usable if a quorum     *)
(* answered, and hands the average to all of them.  Callers start rounds   *)
(* of one job as they please: a retry, or the next round, begins while     *)
(* participants still train for an earlier one.  An adapter is one number: *)
(* its norm is its absolute value.                                         *)
(***************************************************************************)
EXTENDS Integers, FiniteSets, Functions

CONSTANTS
    Participants,       \* the participants
    Rounds,             \* calls of run_round, all of one job
    MinParticipants,    \* min_participants
    MaxNorm,            \* max_delta_norm, 0 for no clipping
    Deltas, Samples,    \* what local trainers produce
    Useless,            \* an ERROR, a message of another type, one that does not parse, or an
                        \* adapter of other tensors
    Waiting, Failed, None

ASSUME RoundsAssumption == IsFiniteSet(Participants) /\ None \notin Rounds \cup Participants
ASSUME QuorumAssumption == MinParticipants \in Nat \ {0} /\ MaxNorm \in Nat
ASSUME UpdatesAssumption == Deltas \subseteq Int /\ Samples \subseteq Nat

\* An update, and the round it was trained for.
Updates == [round : Rounds, delta : Deltas, samples : Samples]
ASSUME NoUpdateAssumption == /\ Updates \cap {Useless, Waiting, Failed, None} = {}
                             /\ Waiting # Failed /\ Useless # None

VARIABLES
    round,      \* "new", "asking", "publishing", "done", "failed"
    ask,        \* the announcement to a participant: "no", "sent", "training", "replied", "over"
    reply,      \* the answer on its way
    heard,      \* what the coordinator has of a participant
    result,     \* the aggregate: who contributed, the weighted sum of deltas, the samples
    notice,     \* the result's announcement: "no", "sent", "over"
    held,       \* the round whose adapter a participant has adopted
    active      \* the participant's _active holds the job

trVars == <<round, ask, reply, heard, result, notice, held, active>>

NoResult == [from |-> {}, sum |-> 0, total |-> 0]

TrTypeOK ==
    /\ round \in [Rounds -> {"new", "asking", "publishing", "done", "failed"}]
    /\ ask \in [Rounds -> [Participants -> {"no", "sent", "training", "replied", "over"}]]
    /\ reply \in [Rounds -> [Participants -> Updates \cup {Useless, None}]]
    /\ heard \in [Rounds -> [Participants -> Updates \cup {Waiting, Failed}]]
    /\ result \in [Rounds -> [from : SUBSET Participants, sum : Int, total : Nat]]
    /\ notice \in [Rounds -> [Participants -> {"no", "sent", "over"}]]
    /\ held \in [Participants -> Rounds \cup {None}]
    /\ active \in [Participants -> BOOLEAN]

TrInit ==
    /\ round = [r \in Rounds |-> "new"]
    /\ ask = [r \in Rounds |-> [p \in Participants |-> "no"]]
    /\ reply = [r \in Rounds |-> [p \in Participants |-> None]]
    /\ heard = [r \in Rounds |-> [p \in Participants |-> Waiting]]
    /\ result = [r \in Rounds |-> NoResult]
    /\ notice = [r \in Rounds |-> [p \in Participants |-> "no"]]
    /\ held = [p \in Participants |-> None]
    /\ active = [p \in Participants |-> FALSE]

-----------------------------------------------------------------------------
(* The coordinator.                                                        *)

\* run_round: every participant is asked at once.  A connection that is closed does not take the
\* announcement.
Announce(r) ==
    /\ round[r] = "new"
    /\ \E reached \in SUBSET Participants :
         /\ ask' = [ask EXCEPT ![r] = [p \in Participants |-> IF p \in reached THEN "sent" ELSE "over"]]
         /\ heard' = [heard EXCEPT ![r] = [p \in Participants |-> IF p \in reached THEN Waiting ELSE Failed]]
    /\ round' = [round EXCEPT ![r] = "asking"]
    /\ UNCHANGED <<reply, result, notice, held, active>>

\* Mutant: an answer is taken for whatever round of the job still waits for the participant.
AnswersJob(r, q) == TRUE

\* An answer is matched by the id of the announcement that it echoes.
Answers(r, q) == r = q

\* What does not parse, or has tensors the base lacks, is a failure (validate_update).
Checked(update) == IF update = Useless THEN Failed ELSE update

\* _collect_update: the answer is taken if its round still waits for it.
Hear(r, p) ==
    /\ ask[r][p] = "replied"
    /\ ask' = [ask EXCEPT ![r][p] = "over"]
    /\ reply' = [reply EXCEPT ![r][p] = None]
    /\ LET takers == {q \in Rounds : Answers(r, q) /\ round[q] = "asking" /\ heard[q][p] = Waiting} IN
       \/ \E q \in takers : heard' = [heard EXCEPT ![q][p] = Checked(reply[r][p])]
       \/ takers = {} /\ UNCHANGED heard
    /\ UNCHANGED <<round, result, notice, held, active>>

\* The deadline passes.  The participant is not told.
TimeOut(r, p) ==
    /\ round[r] = "asking" /\ heard[r][p] = Waiting
    /\ heard' = [heard EXCEPT ![r][p] = Failed]
    /\ UNCHANGED <<round, ask, reply, result, notice, held, active>>

\* TrainingRound.has_quorum and aggregate: updates without samples do not count.
Usable(r) == {p \in Participants : heard[r][p] \in Updates /\ heard[r][p].samples > 0}

\* Mutant: only what is twice too long is cut.
ClipLong(d) == IF MaxNorm = 0 \/ d \in -2 * MaxNorm .. 2 * MaxNorm THEN d ELSE MaxNorm

\* clip_delta: the length of a delta is cut to MaxNorm.
Clip(d) ==
    IF MaxNorm = 0 \/ d \in -MaxNorm .. MaxNorm THEN d ELSE IF d < 0 THEN -MaxNorm ELSE MaxNorm

\* federated_average, before the division and the server's learning rate.
Sum(r, from) == SumFunction([p \in from |-> heard[r][p].samples * Clip(heard[r][p].delta)])
SampleTotal(r, from) == SumFunction([p \in from |-> heard[r][p].samples])
Averaged(r, from) == [from |-> from, sum |-> Sum(r, from), total |-> SampleTotal(r, from)]

\* All have answered or failed: a quorum is published, anything less raises.
Aggregate(r) ==
    /\ round[r] = "asking" /\ \A p \in Participants : heard[r][p] # Waiting
    /\ IF Cardinality(Usable(r)) >= MinParticipants
       THEN /\ round' = [round EXCEPT ![r] = "publishing"]
            /\ result' = [result EXCEPT ![r] = Averaged(r, Usable(r))]
       ELSE round' = [round EXCEPT ![r] = "failed"] /\ UNCHANGED result
    /\ UNCHANGED <<ask, reply, heard, notice, held, active>>

\* _publish_result: participants that failed are handed the adapter as well; a connection that is
\* closed does not take it.
Publish(r, p) ==
    /\ round[r] = "publishing" /\ notice[r][p] = "no"
    /\ \E got \in {"sent", "over"} : notice' = [notice EXCEPT ![r][p] = got]
    /\ UNCHANGED <<round, ask, reply, heard, result, held, active>>

Published(r) ==
    /\ round[r] = "publishing" /\ \A p \in Participants : notice[r][p] # "no"
    /\ round' = [round EXCEPT ![r] = "done"]
    /\ UNCHANGED <<ask, reply, heard, result, notice, held, active>>

-----------------------------------------------------------------------------
(* A participant.                                                          *)

\* _handle_round: an announcement that does not parse, or a node without a trainer, is answered
\* with an ERROR.
Refuse(r, p) ==
    /\ ask[r][p] = "sent"
    /\ ask' = [ask EXCEPT ![r][p] = "replied"]
    /\ reply' = [reply EXCEPT ![r][p] = Useless]
    /\ UNCHANGED <<round, heard, result, notice, held, active>>

Train(r, p) ==
    /\ ask[r][p] = "sent"
    /\ ask' = [ask EXCEPT ![r][p] = "training"]
    /\ active' = [active EXCEPT ![p] = TRUE]
    /\ UNCHANGED <<round, reply, heard, result, notice, held>>

\* Its end takes the job from _active, also when it trains for another round of it.
Trained(r, p) ==
    /\ ask[r][p] = "training"
    /\ ask' = [ask EXCEPT ![r][p] = "replied"]
    /\ active' = [active EXCEPT ![p] = FALSE]
    /\ \E update \in [round : {r}, delta : Deltas, samples : Samples] \cup {Useless} :
         reply' = [reply EXCEPT ![r][p] = update]
    /\ UNCHANGED <<round, heard, result, notice, held>>

\* _handle_result: whatever arrives as it was sent is adopted, in the order it arrives.
Adopt(r, p) ==
    /\ notice[r][p] = "sent"
    /\ notice' = [notice EXCEPT ![r][p] = "over"]
    /\ held' = [held EXCEPT ![p] = r]
    /\ UNCHANGED <<round, ask, reply, heard, result, active>>

-----------------------------------------------------------------------------
(* A connection breaks and what is on its way is lost.                     *)

Lose(r, p) ==
    \/ /\ ask[r][p] \in {"sent", "replied"}
       /\ ask' = [ask EXCEPT ![r][p] = "over"] /\ reply' = [reply EXCEPT ![r][p] = None]
       /\ UNCHANGED <<round, heard, result, notice, held, active>>
    \/ /\ notice[r][p] = "sent"
       /\ notice' = [notice EXCEPT ![r][p] = "over"]
       /\ UNCHANGED <<round, ask, reply, heard, result, held, active>>

TrNext ==
    \E r \in Rounds :
        \/ Announce(r) \/ Aggregate(r) \/ Published(r)
        \/ \E p \in Participants : \/ Hear(r, p) \/ TimeOut(r, p) \/ Publish(r, p)
                            \/ Refuse(r, p) \/ Train(r, p) \/ Trained(r, p) \/ Adopt(r, p)
                            \/ Lose(r, p)

TrSpec == TrInit /\ [][TrNext]_trVars

-----------------------------------------------------------------------------
(* Properties.                                                             *)

(* What a participant adopts is the average of at least MinParticipants     *)
(* updates, each of a participant that trained for that very round, also    *)
(* when rounds of the job overlap and answers come late (session.py,        *)
(* "rather than publish a global adapter shaped by one peer").              *)
QuorumOfOwn ==
    \A p \in Participants : held[p] # None =>
        LET res == result[held[p]] IN
        /\ Cardinality(res.from) >= MinParticipants
        /\ \A q \in res.from : heard[held[p]][q].round = held[p] /\ heard[held[p]][q].samples > 0

(* No set of participants moves the global adapter farther than MaxNorm,    *)
(* and a participant that trained on nothing does not move it (round.py,    *)
(* clipping before averaging).                                              *)
Influence ==
    \A r \in Rounds : round[r] \in {"publishing", "done"} =>
        LET res == result[r] IN
        /\ res.total > 0
        /\ MaxNorm > 0 => res.sum <= MaxNorm * res.total /\ -res.sum <= MaxNorm * res.total
=============================================================================
