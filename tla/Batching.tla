------------------------------- MODULE Batching -------------------------------
(***************************************************************************)
(* The continuous-batching backend (inference/mlx_batched.py): requests    *)
(* cross from the event loop to one worker thread by a queue, are decoded  *)
(* alone or in a batch, one token at a time, and come back chunk by chunk. *)
(* Stop strings are cut out of the text as it is streamed.                 *)
(*                                                                         *)
(* A worker that finds nothing to do looks again within a second at the    *)
(* latest, so its wake-up event decides nothing here.  A text is decoded   *)
(* again with each token: the token adds some characters to it or none,    *)
(* and may change the last of those before it, as when the bytes of one    *)
(* character, each a replacement character of its own, are complete.       *)
(***************************************************************************)
EXTENDS Naturals, Sequences, SequencesExt

CONSTANTS
    Jobs,           \* requests
    Characters,     \* what texts are made of
    Pieces,         \* what a token adds to its text, texts themselves
    Reach,          \* how many of the characters before it a token may change
    StopString,     \* the stop string; one stands for all
    MaxTokens,      \* max_tokens of a request
    SoloPath        \* a request alone is decoded alone: the option is set, or there is a draft model

ASSUME BatchingAssumption ==
    /\ Pieces \subseteq Seq(Characters) /\ Reach \in Nat /\ StopString \in Seq(Characters) \ {<<>>}
    /\ MaxTokens \in [Jobs -> Nat \ {0}] /\ SoloPath \in BOOLEAN

VARIABLES
    worker,     \* the thread: "off" (no such backend), "running", "crashed", "stopped"
    running,    \* _running
    admitted,   \* _admit
    job         \* the requests

btVars == <<worker, running, admitted, job>>

\* A request: where it is, what its tokens so far decode to and how many more it may have,
\* emitted_text, how much of that is sent, the text its consumer has, how its stream ended for the
\* consumer, and whether what was decoded was ever revised (see Revises).
Fresh(j) == [at |-> "new", text |-> <<>>, room |-> MaxTokens[j], emitted |-> <<>>, sent |-> 0, got |-> <<>>,
             end |-> "open", revised |-> FALSE]

BatchingTypeOK ==
    /\ worker \in {"off", "running", "crashed", "stopped"} /\ running \in BOOLEAN
    /\ admitted \in Seq(Jobs)
    /\ \A j \in Jobs : /\ job[j].at \in {"new", "queued", "solo", "batch", "finished"}
                       /\ {job[j].text, job[j].emitted, job[j].got} \subseteq Seq(Characters)
                       /\ job[j].room \in 0 .. MaxTokens[j] /\ job[j].sent \in Nat
                       /\ job[j].end \in {"open", "stop", "length", "error", "shut"}
                       /\ job[j].revised \in BOOLEAN

BtStarted(is) ==
    /\ worker = is /\ running = (is = "running")
    /\ admitted = <<>> /\ job = [j \in Jobs |-> Fresh(j)]
BtOff  == BtStarted("off")
BtInit == BtStarted("running")

-----------------------------------------------------------------------------
(* Text.                                                                   *)

\* What a text becomes by a token.
Decoded(text) == {SubSeq(text, 1, Len(text) - k) \o piece : k \in {k \in 0 .. Reach : k <= Len(text)}, piece \in Pieces}

StopsAt(text) == {i \in 0 .. Len(text) - Len(StopString) : SubSeq(text, i + 1, i + Len(StopString)) = StopString}
\* truncate_at_stops.
Cut(text) == IF StopsAt(text) = {} THEN text
             ELSE SubSeq(text, 1, CHOOSE i \in StopsAt(text) : \A k \in StopsAt(text) : i <= k)

\* Mutant: nothing is held back.
NoHoldback(text) == 0
\* stop_holdback_len: how long a beginning of the stop string the text ends in.
Holdback(text) ==
    LET fits == {k \in 0 .. Len(StopString) - 1 : k <= Len(text) /\ SubSeq(text, Len(text) - k + 1, Len(text)) = SubSeq(StopString, 1, k)}
    IN  CHOOSE k \in fits : \A l \in fits : l <= k

\* _finish flushes what was held back; the finish reason and the sentinel follow.
Finished(r, reason) ==
    [r EXCEPT !.at = "finished", !.end = reason, !.sent = Len(r.emitted),
              !.got = @ \o SubSeq(r.emitted, r.sent + 1, Len(r.emitted))]

\* _stream_progress, of a text that has grown.
Progress(r) ==
    IF StopsAt(r.emitted) # {}
    THEN Finished([r EXCEPT !.emitted = Cut(r.emitted)], "stop")
    ELSE LET upto == Len(r.emitted) - Holdback(r.emitted) IN
         IF upto > r.sent
         THEN [r EXCEPT !.sent = upto, !.got = @ \o SubSeq(r.emitted, r.sent + 1, upto)] ELSE r

-----------------------------------------------------------------------------
(* The worker.                                                             *)

\* generate_stream.
Submit(j) ==
    /\ worker # "off" /\ job[j].at = "new"
    /\ IF worker = "stopped"
       THEN job' = [job EXCEPT ![j].at = "finished", ![j].end = "error"] /\ UNCHANGED admitted
       ELSE job' = [job EXCEPT ![j].at = "queued"] /\ admitted' = Append(admitted, j)
    /\ UNCHANGED <<worker, running>>

Working == worker = "running" /\ running
Solo == {j \in Jobs : job[j].at = "solo"}
Batch == {j \in Jobs : job[j].at = "batch"}

\* _insert_job for some requests: where it fails, the request ends with the error.
Inserted(jobs, some, failed) ==
    [j \in Jobs |-> IF j \in failed THEN [jobs[j] EXCEPT !.at = "finished", !.end = "error"]
                   ELSE IF j \in some THEN [jobs[j] EXCEPT !.at = "batch"] ELSE jobs[j]]

\* One that comes alone is decoded alone if there is a way to; else all that wait are inserted.
Admit ==
    /\ Working /\ admitted # <<>> /\ Solo = {}
    /\ IF SoloPath /\ Batch = {} /\ Len(admitted) = 1
       THEN job' = [job EXCEPT ![Head(admitted)].at = "solo"]
       ELSE \E failed \in SUBSET ToSet(admitted) : job' = Inserted(job, ToSet(admitted), failed)
    /\ admitted' = <<>>
    /\ UNCHANGED <<worker, running>>

\* The last token a request has room for finishes it.
Closed(r) == IF r.at # "finished" /\ r.room = 0 THEN Finished(r, "length") ELSE r
\* What is decoded again is not what it was and more.
Revises(r, full) == r.revised \/ ~IsPrefix(r.text, full)

\* _handle_token: the text counts as grown only when it is longer than the one before.
Grown(r, full) ==
    LET next == [r EXCEPT !.text = full, !.room = @ - 1, !.revised = Revises(r, full)] IN
    IF Len(full) > Len(r.emitted) THEN Progress([next EXCEPT !.emitted = full]) ELSE next

BatchToken(j) ==
    /\ Working /\ j \in Batch
    /\ \E full \in Decoded(job[j].text) : job' = [job EXCEPT ![j] = Closed(Grown(@, full))]
    /\ UNCHANGED <<worker, running, admitted>>

\* _run_solo: the decoder of the stream says what to add.
Streamed(r, piece) == Progress([r EXCEPT !.text = @ \o piece, !.emitted = @ \o piece])
\* Another request has come: this one goes on in the batch, its tokens so far now part of the prompt.
\* They are decoded anew, and no stop string is looked for until that text grows.
Folded(r, full) ==
    [r EXCEPT !.text = full, !.emitted = full, !.sent = IF @ > Len(full) THEN Len(full) ELSE @,
              !.revised = Revises(r, full) \/ StopsAt(full) # {}]

SoloToken(j) ==
    /\ Working /\ j \in Solo
    /\ \E piece \in Pieces :
        LET r == Closed(Streamed([job[j] EXCEPT !.room = @ - 1], piece))
            some == ToSet(admitted) \cup {j} IN
        IF r.at = "finished" \/ admitted = <<>>
        THEN job' = [job EXCEPT ![j] = r] /\ UNCHANGED admitted
        ELSE /\ \E full \in Decoded(r.text), failed \in SUBSET some :
                    job' = Inserted([job EXCEPT ![j] = Folded(r, full)], some, failed)
             /\ admitted' = <<>>
    /\ UNCHANGED <<worker, running>>

\* The model ends its text.  Decoded alone, the rest of the text comes with that.
Eos(j) ==
    /\ Working /\ j \in Solo \cup Batch
    /\ \E piece \in IF j \in Solo THEN Pieces ELSE {<<>>} :
        LET r == IF j \in Solo THEN Streamed(job[j], piece) ELSE job[j] IN
        job' = [job EXCEPT ![j] = IF r.at = "finished" THEN r ELSE Finished(r, "stop")]
    /\ UNCHANGED <<worker, running, admitted>>

\* The thread dies of an error: the batch is told; a request decoded alone and those that wait for
\* admission are not.
ThreadDies ==
    /\ Working
    /\ worker' = "crashed"
    /\ job' = [j \in Jobs |-> IF j \in Batch THEN [job[j] EXCEPT !.at = "finished", !.end = "error"] ELSE job[j]]
    /\ UNCHANGED <<running, admitted>>

\* unload_model: the flag, and then the thread's end; it tells only a request decoded alone.
Unload ==
    /\ worker # "off" /\ running
    /\ running' = FALSE
    /\ UNCHANGED <<worker, admitted, job>>

Stopped ==
    /\ worker \in {"running", "crashed"} /\ ~running
    /\ worker' = "stopped"
    /\ job' = [j \in Jobs |-> IF j \in Solo /\ worker = "running" THEN [job[j] EXCEPT !.at = "finished", !.end = "shut"] ELSE job[j]]
    /\ UNCHANGED <<running, admitted>>

BtNext ==
    \/ \E j \in Jobs : Submit(j) \/ BatchToken(j) \/ SoloToken(j) \/ Eos(j)
    \/ Admit \/ ThreadDies \/ Unload \/ Stopped

\* The thread runs, and every step of the batch decodes a token of each request in it.
BtFairness ==
    /\ WF_btVars(Admit) /\ WF_btVars(Stopped)
    /\ \A j \in Jobs : WF_btVars(BatchToken(j) \/ SoloToken(j) \/ Eos(j))

BtSpec == BtInit /\ [][BtNext]_btVars /\ BtFairness

-----------------------------------------------------------------------------
(* Properties.                                                             *)

(* What a consumer has is the text decoded for it up to the stop string,   *)
(* nothing of that string, nothing twice and nothing missing, also across  *)
(* the move from decoding alone into the batch, and all of it when the     *)
(* stream ends (inference/mlx_batched.py _stream_progress, _finish,        *)
(* _run_solo); unless what was decoded before was revised: that is sent,   *)
(* and what follows is measured by it.                                     *)
StreamExact ==
    \A j \in Jobs :
        LET r == job[j] IN
        r.revised \/ (IsPrefix(r.got, Cut(r.text)) /\ (r.end \in {"stop", "length"} => r.got = Cut(r.text)))

(* The same without the exception, "so the batched delta math lines up at  *)
(* the seam" (inference/mlx_batched.py:382): the code does not keep it.    *)
EveryStreamExact ==
    \A j \in Jobs : IsPrefix(job[j].got, Cut(job[j].text))
                 /\ (job[j].end \in {"stop", "length"} => job[j].got = Cut(job[j].text))

(* A request that is submitted ends for its consumer while the worker      *)
(* lives, whatever others come and go (inference/mlx_batched.py            *)
(* _run_worker).  What is under way when the model is unloaded or the      *)
(* thread dies never ends: the code does not keep that.                    *)
StreamsEnd == \A j \in Jobs : []<>(job[j].at = "new" \/ job[j].end # "open" \/ ~Working)

(* "unblock the consumer on shutdown" (inference/mlx_batched.py:357), for  *)
(* every consumer.                                                         *)
Unblocked == \A j \in Jobs : worker = "stopped" /\ job[j].at # "new" => job[j].end # "open"
=============================================================================
