------------------------------ MODULE Sources ------------------------------
(***************************************************************************)
(* Where the models of a node come from: files and relays.                 *)
(*                                                                         *)
(* A relay is an OpenAI-compatible endpoint whose models are discovered,   *)
(* registered under this node's names and withdrawn when the endpoint      *)
(* fails or drops them (inference/relay.py).  What was loaded is saved,    *)
(* and restored one by one at the next start under a crash-loop guard      *)
(* (inference/manager.py).  Discoveries of the boot and polling task and   *)
(* those of API calls interleave, and the process may die at any moment.   *)
(***************************************************************************)
EXTENDS Naturals, FiniteSets

CONSTANTS
    Relays,         \* urls of endpoints
    Env,            \* those in the settings, added at every start
    Label,          \* of a url: the name it is given or its host's, as a slug
    Upstream,       \* models that endpoints serve
    Files,          \* local models
    MaxAttempts,    \* model_max_restore_attempts
    Kills,          \* bound: how often in a row a restore kills the process
    Calls,          \* bound: API calls of one run of the process
    None

Labels == {Label[r] : r \in Relays}
Group(r) == Label[r]        \* group_id

\* A label is neither of the two tags of a name.
ASSUME RelaysAssumption ==
    /\ Env \subseteq Relays /\ None \notin Relays \cup Upstream \cup Files
    /\ Label \in [Relays -> Labels] /\ {"file", "relay"} \cap Labels = {}
ASSUME SrcBounds == MaxAttempts \in Nat \ {0} /\ Kills \in Nat /\ Calls \in Nat

\* Registered names: of a file, relay:{model}, and relay:{label}:{model}.
Plain(m) == <<"relay", m>>
Qualified(r, m) == <<Label[r], m>>
Names == {<<"file", f>> : f \in Files} \cup {Plain(m) : m \in Upstream}
         \cup {Qualified(r, m) : r \in Relays, m \in Upstream}
IsFile(n) == n[1] = "file"
Lanes == {"task", "api"}    \* the boot and polling task, and an API call

VARIABLES
    \* on disk
    configured, \* whether a name has a saved configuration, enabled or not
    base,       \* the relay a name is, or was last, loaded from
    attempts,   \* restores of a name begun since it was last loaded
    \* in memory
    phase,      \* "down", "restore", "relays", "up"
    planned,    \* what base was when the restore read the saved configurations
    todo,       \* the names or relays the boot task still has before it
    restoring,
    loaded,     \* the names the inference manager serves
    known,      \* the urls in _relays
    owned,      \* the ownership record of the object of a known url
    task,       \* what a lane is doing; own is the record of an object that left _relays
    \* bookkeeping
    overlapped, \* two relay operations have been in flight together, or a restore has loaded or
                \* saved a name as it was read and not as it was last loaded
    killed,     \* restores of a name in a row that killed the process
    outrun,     \* the name being restored has been loaded by the API meanwhile
    calls       \* API calls since the start

disk == <<configured, base, attempts>>
boot == <<phase, planned, todo, restoring>>
srcVars == <<disk, boot, loaded, known, owned, task, overlapped, killed, outrun, calls>>

Resting == [at |-> "idle", r |-> None, dropped |-> FALSE, own |-> {}, left |-> {}, seen |-> {},
            names |-> {}, all |-> FALSE]

Called == calls < Calls /\ calls' = calls + 1

SrcTypeOK ==
    /\ configured \in [Names -> {"none", "on", "off"}] /\ base \in [Names -> Relays \cup {None}]
    /\ attempts \in [Names -> 0 .. MaxAttempts]
    /\ phase \in {"down", "restore", "relays", "up"} /\ planned \in [Names -> Relays \cup {None}] /\ todo \subseteq Names \cup Relays
    /\ restoring \in Names \cup {None} /\ loaded \subseteq Names
    /\ known \subseteq Relays /\ owned \in [Relays -> SUBSET Names]
    /\ task \in [Lanes -> [at : {"idle", "asked", "claim", "load", "withdraw"}, r : Relays \cup {None},
                           dropped : BOOLEAN, own : SUBSET Names, left : SUBSET Upstream,
                           seen : SUBSET Names, names : SUBSET Names, all : BOOLEAN]]
    /\ overlapped \in BOOLEAN /\ outrun \in BOOLEAN /\ calls \in 0 .. Calls /\ killed \in [Names -> 0 .. Kills]

SrcInit ==
    /\ configured = [n \in Names |-> "none"] /\ base = [n \in Names |-> None]
    /\ attempts = [n \in Names |-> 0] /\ planned = base
    /\ phase = "relays" /\ todo = Env /\ restoring = None
    /\ loaded = {} /\ known = {} /\ owned = [r \in Relays |-> {}]
    /\ task = [s \in Lanes |-> Resting]
    /\ overlapped = FALSE /\ outrun = FALSE /\ calls = 0 /\ killed = [n \in Names |-> 0]

-----------------------------------------------------------------------------
(* What loading and unloading a name changes.                              *)

\* A load that returns is saved and clears the crash-loop counter.
Load(n, r) ==
    /\ loaded' = loaded \cup {n}
    /\ base' = [base EXCEPT ![n] = r]
    /\ configured' = [configured EXCEPT ![n] = "on"]
    /\ attempts' = [attempts EXCEPT ![n] = 0]

Unload(n) ==
    /\ loaded' = loaded \ {n}
    /\ configured' = IF n \in loaded THEN [configured EXCEPT ![n] = "off"] ELSE configured
    /\ UNCHANGED <<base, attempts>>

-----------------------------------------------------------------------------
(* Relays.                                                                 *)

Asking(r) == [Resting EXCEPT !.at = "asked", !.r = r]

\* Withdrawing nothing ends the operation at once.
Withdrawing(t, names, all) ==
    IF names = {} THEN Resting
    ELSE [t EXCEPT !.at = "withdraw", !.names = names, !.all = all, !.left = {}, !.seen = {}]

\* The operations on the object of r go on with an object that is in no table.
Dropped(r) == [s \in Lanes |-> IF task[s].r = r /\ ~task[s].dropped
                               THEN [task[s] EXCEPT !.dropped = TRUE, !.own = owned[r]] ELSE task[s]]

AtWork(s) == task[s].at # "idle"
Begin(s, tasks, t) ==
    /\ ~AtWork(s)
    /\ task' = [tasks EXCEPT ![s] = t]
    /\ overlapped' = (overlapped \/ \E u \in Lanes : AtWork(u))
Go(s, t) == task' = [task EXCEPT ![s] = t] /\ UNCHANGED overlapped

\* The ownership record of the object a task works on.
Own(s) == IF task[s].dropped THEN task[s].own ELSE owned[task[s].r]

\* add(): a new object takes the url, whatever the old one has registered.
Add(s, r) ==
    /\ Begin(s, Dropped(r), Asking(r))
    /\ known' = known \cup {r}
    /\ owned' = [owned EXCEPT ![r] = {}]
    /\ UNCHANGED <<disk, loaded, killed, outrun>>

\* The settings' relays are added one after the other.
BootAdd ==
    /\ phase = "relays"
    /\ \E r \in todo : Add("task", r) /\ todo' = todo \ {r}
    /\ UNCHANGED <<phase, planned, restoring, calls>>

Booted ==
    /\ phase = "relays" /\ todo = {} /\ ~AtWork("task")
    /\ phase' = "up"
    /\ UNCHANGED <<disk, planned, todo, restoring, loaded, known, owned, task, overlapped, killed, outrun, calls>>

\* The API answers while models are being restored.
ApiAdd ==
    /\ phase # "down" /\ Called /\ \E r \in Relays : Add("api", r)
    /\ UNCHANGED boot

Ask(s, r) ==
    /\ r \in known /\ Begin(s, task, Asking(r))
    /\ UNCHANGED <<disk, boot, loaded, known, owned, killed, outrun>>

\* Polling is started at boot, and only if the settings name a relay.
Poll == phase = "up" /\ Env # {} /\ UNCHANGED calls /\ \E r \in Relays : Ask("task", r)
ApiRefresh == phase # "down" /\ Called /\ \E r \in Relays : Ask("api", r)

\* remove(): the object leaves _relays first, then its names are withdrawn.
Remove(r) ==
    /\ phase # "down" /\ r \in known /\ Called
    /\ known' = known \ {r}
    /\ owned' = [owned EXCEPT ![r] = {}]
    /\ Begin("api", Dropped(r),
             Withdrawing([Asking(r) EXCEPT !.dropped = TRUE, !.own = owned[r]], owned[r], TRUE))
    /\ UNCHANGED <<disk, boot, loaded, killed, outrun>>

\* An endpoint that is not reached, or answers with an error, has its models withdrawn.
Answered(s) ==
    /\ task[s].at = "asked"
    /\ \/ Go(s, Withdrawing(task[s], Own(s), TRUE))
       \/ \E models \in SUBSET Upstream : Go(s, [task[s] EXCEPT !.at = "claim", !.left = models])
    /\ UNCHANGED <<disk, boot, loaded, known, owned, killed, outrun, calls>>

\* _claim_name: the plain name, unless another relay of the manager owns it.
ClaimName(s, m) ==
    LET r == task[s].r IN
    IF \A q \in known : Plain(m) \in owned[q] => q = r /\ ~task[s].dropped
    THEN Plain(m) ELSE Qualified(r, m)

\* Mutant: a loaded model is adopted by its name.
NamedLikeOurs(s, n) == n \in loaded

\* What was loaded for the group of this endpoint, by it or by another of its label, is adopted.
\* Restored models carry their group; the saved url is asked only for what has none.
IsOurs(s, n) == base[n] # None /\ Group(base[n]) = Group(task[s].r)

\* The record of the object: in the table, or with the task and whoever else works on it.
Record(s, t, own) ==
    IF task[s].dropped
    THEN Go(s, [t EXCEPT !.own = own]) /\ UNCHANGED owned
    ELSE Go(s, t) /\ owned' = [owned EXCEPT ![task[s].r] = own]

\* What is registered is believed to be loaded; what is loaded from elsewhere is left alone.
Claim(s) ==
    /\ task[s].at = "claim"
    /\ \E m \in task[s].left :
         LET n == ClaimName(s, m)
             next == [task[s] EXCEPT !.left = @ \ {m}, !.seen = @ \cup {n}] IN
         IF n \in Own(s) \/ n \in loaded
         THEN Record(s, next, Own(s) \cup (IF n \in loaded /\ IsOurs(s, n) THEN {n} ELSE {}))
         ELSE Record(s, [next EXCEPT !.at = "load", !.names = {n}], Own(s))
    /\ UNCHANGED <<disk, boot, loaded, known, killed, outrun, calls>>

\* The load asks the endpoint again, and may fail; ownership is recorded when it has returned.
Loaded(s) ==
    /\ task[s].at = "load"
    /\ \E n \in task[s].names :
         LET next == [task[s] EXCEPT !.at = "claim", !.names = {}] IN
         \/ Load(n, task[s].r) /\ Record(s, next, Own(s) \cup {n})
         \/ Record(s, next, Own(s)) /\ UNCHANGED <<loaded, disk>>
    /\ UNCHANGED <<boot, known, killed, outrun, calls>>

\* Names that the endpoint no longer serves are withdrawn.
Reconcile(s) ==
    /\ task[s].at = "claim" /\ task[s].left = {}
    /\ Go(s, Withdrawing(task[s], Own(s) \ task[s].seen, FALSE))
    /\ UNCHANGED <<disk, boot, loaded, known, owned, killed, outrun, calls>>

\* One model after the other.  _deregister forgets everything at the end, what was registered
\* meanwhile included.
Withdraw(s) ==
    /\ task[s].at = "withdraw"
    /\ \E n \in task[s].names :
         LET rest == task[s].names \ {n} IN
         /\ Unload(n)
         /\ Record(s, Withdrawing(task[s], rest, task[s].all),
                   IF ~task[s].all THEN Own(s) \ {n} ELSE IF rest = {} THEN {} ELSE Own(s))
    /\ UNCHANGED <<boot, known, killed, outrun, calls>>

-----------------------------------------------------------------------------
(* Files, restoring and the crash-loop guard.                              *)

\* A load by the API.
LoadFile ==
    /\ phase # "down" /\ Called
    /\ \E n \in {x \in Names : IsFile(x)} :
         /\ n \notin loaded /\ Load(n, None)
         /\ killed' = [killed EXCEPT ![n] = 0]
         /\ outrun' = (outrun \/ n = restoring)
    /\ UNCHANGED <<boot, known, owned, task, overlapped>>

ApiUnload ==
    /\ phase # "down" /\ Called
    /\ \E n \in loaded : Unload(n)
    /\ UNCHANGED <<boot, known, owned, task, overlapped, killed, outrun>>

\* Mutant: the attempt is not counted before the load.
BumpedAfter(n) == attempts

\* _bump_attempt
Bumped(n) == [attempts EXCEPT ![n] = @ + 1]

\* A name that used up its attempts is disabled, as it was read, unless it is loaded.
Quarantine(n) ==
    /\ attempts[n] >= MaxAttempts
    /\ configured' = [configured EXCEPT ![n] = IF n \in loaded THEN "on" ELSE "off"]
    /\ base' = [base EXCEPT ![n] = IF n \in loaded THEN @ ELSE planned[n]]
    /\ overlapped' = (overlapped \/ base' # base)
    /\ attempts' = [attempts EXCEPT ![n] = 0]
    /\ UNCHANGED restoring

\* A file that is missing is skipped and a name that is loaded already is found so, their
\* attempts counted.
Attempt(n) ==
    /\ attempts[n] < MaxAttempts
    /\ attempts' = Bumped(n)
    /\ restoring' \in IF n \in loaded THEN {None} ELSE IF IsFile(n) THEN {n, None} ELSE {n}
    /\ UNCHANGED <<configured, base, overlapped>>

RestoreNext ==
    /\ phase = "restore" /\ restoring = None
    /\ \E n \in todo : todo' = todo \ {n} /\ (Quarantine(n) \/ Attempt(n))
    /\ outrun' = FALSE
    /\ UNCHANGED <<phase, planned, loaded, known, owned, task, killed, calls>>

\* What the restore loads is what it read at the start, whatever was loaded under the name since.
RestoreEnds ==
    /\ phase = "restore" /\ restoring # None
    /\ restoring' = None
    /\ \/ /\ Load(restoring, planned[restoring])
          /\ overlapped' = (overlapped \/ planned[restoring] # base[restoring])
          /\ killed' = [killed EXCEPT ![restoring] = 0]
       \/ UNCHANGED <<loaded, disk, overlapped, killed>>
    /\ outrun' = FALSE
    /\ UNCHANGED <<phase, planned, todo, known, owned, task, calls>>

RestoreDone ==
    /\ phase = "restore" /\ restoring = None /\ todo = {}
    /\ phase' = "relays" /\ todo' = Env
    /\ planned' = [n \in Names |-> None]
    /\ UNCHANGED <<disk, restoring, loaded, known, owned, task, overlapped, killed, outrun, calls>>

\* The process dies: by the local model it is restoring, or otherwise.
Die ==
    /\ phase # "down"
    /\ IF restoring # None /\ IsFile(restoring) /\ ~outrun
       THEN killed[restoring] < Kills /\ killed' = [killed EXCEPT ![restoring] = @ + 1]
       ELSE UNCHANGED killed
    /\ phase' = "down" /\ planned' = [n \in Names |-> None]
    /\ todo' = {} /\ restoring' = None /\ outrun' = FALSE
    /\ loaded' = {} /\ known' = {} /\ owned' = [r \in Relays |-> {}]
    /\ task' = [s \in Lanes |-> Resting] /\ overlapped' = FALSE /\ calls' = 0
    /\ UNCHANGED disk

Start ==
    /\ phase = "down"
    /\ phase' = "restore" /\ planned' = base /\ todo' = {n \in Names : configured[n] = "on"}
    /\ UNCHANGED <<disk, restoring, loaded, known, owned, task, overlapped, killed, outrun, calls>>

SrcNext ==
    \/ BootAdd \/ Booted \/ RestoreNext \/ RestoreEnds \/ RestoreDone \/ Start \/ Die
    \/ ApiAdd \/ ApiRefresh \/ LoadFile \/ ApiUnload \/ Poll
    \/ \E r \in Relays : Remove(r)
    \/ \E s \in Lanes : Answered(s) \/ Claim(s) \/ Loaded(s) \/ Reconcile(s) \/ Withdraw(s)

SrcSpec == SrcInit /\ [][SrcNext]_srcVars

-----------------------------------------------------------------------------
(* Properties.                                                             *)

(* Unless operations or a restore overlap (overlapped), what a relay has    *)
(* registered is served, if at all, from an endpoint of its own label, and from its own where no other  *)
(* has the label, also after a restart restored the models before the      *)
(* relays (relay.py, _claim_name, _is_ours and "Do not displace it").      *)
OwnEndpoint == ~overlapped =>
    \A r \in known : \A n \in owned[r] \cap loaded :
        \/ base[n] = r
        \/ \E q \in Relays \ {r} : base[n] = q /\ Label[q] = Label[r]

(* Not kept: two endpoints of one label (two ports of a host, relay.py's    *)
(* _label_from_url) serve each other's models: "Is this already-loaded      *)
(* model actually served by THIS relay?" (_is_ours).                        *)
ServedByThisRelay == ~overlapped => \A r \in known : \A n \in owned[r] \cap loaded : base[n] = r

(* No model kills the process more often than MaxAttempts times in a row    *)
(* while it is being restored (manager.py, the crash-loop guard).           *)
LoopEnds == \A n \in Names : killed[n] <= MaxAttempts
=============================================================================
