------------------------------- MODULE Downloads -------------------------------
(***************************************************************************)
(* Model downloads (api/models.py): one file fetched to a ".part" beside   *)
(* its destination, checked against a digest, renamed and loaded; a model  *)
(* directory fetched file by file into a staging directory and published   *)
(* by one rename; aborts, deletions, and the end of the node, orderly or   *)
(* not.  Downloads of one file name from several sources share the file's  *)
(* path; the tracker of the API knows each source by an id of its own.     *)
(* A request, and what a task does between two awaits, is one step.        *)
(***************************************************************************)
EXTENDS Naturals

CONSTANTS
    Sources,    \* where the one file may be downloaded from, each a download id
    Attested,   \* those that always state a digest: URLs; Hugging Face may be out of reach
    MaxTasks,   \* bound: the tasks of single downloads that are ever started
    Manifests,  \* contents the one model directory may be asked for, of the same sizes
    Files,      \* how many files a manifest lists
    Stops       \* bound: ends of the node

ASSUME DownloadsAssumption == /\ Attested \subseteq Sources
                              /\ "directory" \notin Sources
                              /\ MaxTasks \in Nat \ {0} /\ Files \in Nat \ {0} /\ Stops \in Nat

Tasks == 1 .. MaxTasks
Paths == 1 .. Files

VARIABLES
    process,    \* whether the node is "up", "down" or "off" (there is none), and its ends so far
    info,       \* _downloads: the status under an id
    current,    \* _download_tasks: the task under an id, 0 if none
    task,       \* the tasks of single downloads
    bytes,      \* what the file a task created holds: of which sources, and whether it is whole
    part, dest, \* the file under the two paths, named by the task that created it, 0 if none
    loaded,     \* the model is loaded
    deleting,   \* delete-file waits for the model to unload
    assembly,   \* the task of the directory: its manifest, the path it is at, and if that is open
    staged,     \* the files of the staging directory
    directory,  \* the published files
    finished,   \* history: the file reported complete, unless it was deleted since
    unmade,     \* history: downloads that are over because their directory could not be made
    spoilt      \* history: a download began before an earlier one of the file had ended, one that
                \* was over for want of its directory was aborted, or the node was stopped while
                \* it loaded what it had downloaded

fileVars == <<info, current, task, bytes, part, dest, loaded, deleting, finished, spoilt>>
dirVars  == <<assembly, staged, directory, unmade>>
dlVars   == <<process, info, current, task, bytes, part, dest, loaded, deleting, assembly, staged, directory, finished, unmade, spoilt>>

Dir == "directory"
DownloadIds == Sources \cup {Dir}
NoTask == [source |-> Dir, at |-> "none", file |-> 0, hash |-> FALSE, live |-> FALSE]
NoBytes == [of |-> {}, whole |-> FALSE]
Unassembled == [of |-> "none", at |-> 0, open |-> FALSE]
NoFiles == [p \in Paths |-> "absent"]
Contents == Manifests \cup {"absent", "partial"}

DownloadsTypeOK ==
    /\ process \in [is : {"off", "up", "down"}, ends : 0 .. Stops]
    /\ info \in [DownloadIds -> {"none", "downloading", "complete", "aborted", "failed"}]
    /\ current \in [Sources -> {0} \cup Tasks]
    /\ task \in [Tasks -> [source : DownloadIds, at : {"none", "begun", "writing", "written", "loading", "cancelled", "ended"},
                           file : {0} \cup Tasks, hash : BOOLEAN, live : BOOLEAN]]
    /\ bytes \in [Tasks -> [of : SUBSET Sources, whole : BOOLEAN]]
    /\ part \in {0} \cup Tasks /\ dest \in {0} \cup Tasks /\ finished \in {0} \cup Tasks
    /\ unmade \subseteq DownloadIds /\ loaded \in BOOLEAN /\ deleting \in BOOLEAN /\ spoilt \in BOOLEAN
    /\ assembly \in [of : Manifests \cup {"none"}, at : 0 .. Files + 1, open : BOOLEAN]
    /\ staged \in [Paths -> Contents] /\ directory \in [Paths -> Contents]

Forgotten ==
    /\ info' = [i \in DownloadIds |-> "none"] /\ current' = [s \in Sources |-> 0]
    /\ task' = [t \in Tasks |-> [task[t] EXCEPT !.at = IF @ = "none" THEN "none" ELSE "ended"]]
    /\ loaded' = FALSE /\ deleting' = FALSE /\ assembly' = Unassembled /\ unmade' = {}

DlStarted(is, there) ==
    /\ process = [is |-> is, ends |-> 0]
    /\ info = [i \in DownloadIds |-> "none"] /\ current = [s \in Sources |-> 0]
    /\ task = [t \in Tasks |-> [NoTask EXCEPT !.at = IF there = NoFiles THEN "ended" ELSE "none"]] /\ bytes = [t \in Tasks |-> NoBytes]
    /\ part = 0 /\ dest = 0 /\ loaded = FALSE /\ deleting = FALSE
    /\ assembly = Unassembled /\ staged = NoFiles /\ directory = there
    /\ finished = 0 /\ unmade = {} /\ spoilt = FALSE
DlOff  == DlStarted("off", NoFiles)
\* The directory is there and single files are still to be downloaded, or the other way round: the
\* two touch nothing in common but the node that ends.
DlInit == DlStarted("up", NoFiles) \/ \E m \in Manifests : DlStarted("up", [p \in Paths |-> m])

DlUp == process.is = "up"
Under(t) == task[t].at \in {"begun", "writing", "written", "loading", "cancelled"}

-----------------------------------------------------------------------------
(* One file.                                                               *)

Reported(t, status) == IF task[t].live THEN [info EXCEPT ![task[t].source] = status] ELSE info
\* The finally clause drops the task under its id, whichever it is by now.
Popped(t) == current' = [current EXCEPT ![task[t].source] = 0]

\* Mutant: an existing file is downloaded over.
NothingThereUnchecked == TRUE
NothingThere == dest = 0

\* download_model for a file: a new entry takes the place of an ended one of the same id.
Download(s, t) ==
    /\ DlUp /\ NothingThere /\ info[s] # "downloading"
    /\ task[t].at = "none" /\ \A u \in Tasks : u < t => task[u].at # "none"
    /\ info' = [info EXCEPT ![s] = "downloading"]
    /\ current' = [current EXCEPT ![s] = t]
    /\ task' = [u \in Tasks |-> IF u = t THEN [NoTask EXCEPT !.source = s, !.at = "begun", !.live = TRUE]
                                ELSE IF task[u].source = s THEN [task[u] EXCEPT !.live = FALSE] ELSE task[u]]
    /\ spoilt' = (spoilt \/ \E u \in Tasks : Under(u))
    /\ unmade' = unmade \ {s}
    /\ UNCHANGED <<bytes, part, dest, loaded, deleting, finished>>

\* The file's directory is made before anything handles an error: the task is over, the rest stays.
NoDirectory(t) ==
    /\ DlUp /\ task[t].at = "begun"
    /\ task' = [task EXCEPT ![t].at = "ended"]
    /\ unmade' = IF task[t].live THEN unmade \cup {task[t].source} ELSE unmade
    /\ UNCHANGED <<info, current, bytes, part, dest, loaded, deleting, finished, spoilt>>

\* The digest is looked up and the ".part" opened, emptied if it is there.
Open(t) ==
    /\ DlUp /\ task[t].at = "begun"
    /\ LET file == IF part = 0 THEN t ELSE part IN
       /\ part' = file
       /\ bytes' = [bytes EXCEPT ![file] = [of |-> {task[t].source}, whole |-> FALSE]]
       /\ \E hash \in BOOLEAN : /\ hash \/ task[t].source \notin Attested
                                /\ task' = [task EXCEPT ![t].at = "writing", ![t].file = file, ![t].hash = hash]
    /\ UNCHANGED <<info, current, dest, loaded, deleting, finished, spoilt>>

\* Chunks go to the file that was opened, whatever its name is now.
Chunk(t) ==
    /\ DlUp /\ task[t].at = "writing" /\ task[t].source \notin bytes[task[t].file].of
    /\ bytes' = [bytes EXCEPT ![task[t].file].of = @ \cup {task[t].source}]
    /\ UNCHANGED <<info, current, task, part, dest, loaded, deleting, finished, spoilt>>

Wrote(t) ==
    /\ DlUp /\ task[t].at = "writing"
    /\ bytes' = [bytes EXCEPT ![task[t].file] = [of |-> @.of \cup {task[t].source}, whole |-> TRUE]]
    /\ task' = [task EXCEPT ![t].at = "written"]
    /\ UNCHANGED <<info, current, part, dest, loaded, deleting, finished, spoilt>>

\* A failed or aborted download removes both paths.
Removed(t, status) ==
    /\ info' = Reported(t, status)
    /\ part' = 0 /\ dest' = 0
    /\ task' = [task EXCEPT ![t].at = "ended"] /\ Popped(t)
    /\ UNCHANGED <<bytes, loaded, deleting, finished, spoilt>>

\* verify_download reads what lies at the path; without a digest it passes anything.
Verified(t) == part # 0 /\ (task[t].hash => bytes[part] = [of |-> {task[t].source}, whole |-> TRUE])

Publish(t) ==
    /\ DlUp /\ task[t].at = "written" /\ Verified(t)
    /\ dest' = part /\ part' = 0 /\ finished' = part
    /\ info' = Reported(t, "complete")
    /\ task' = [task EXCEPT ![t].at = "loading"]
    /\ UNCHANGED <<current, bytes, loaded, deleting, spoilt>>

\* The lookup, the transfer or the check failed.
Fail(t) ==
    /\ DlUp /\ task[t].at \in {"begun", "writing", "written"}
    /\ task[t].at = "written" => ~Verified(t)
    /\ Removed(t, "failed")

\* The model is loaded and announced, or its error is noted.
Load(t) ==
    /\ DlUp /\ task[t].at = "loading"
    /\ loaded' \in {loaded, TRUE}
    /\ task' = [task EXCEPT ![t].at = "ended"] /\ Popped(t)
    /\ UNCHANGED <<info, bytes, part, dest, deleting, finished, spoilt>>

\* abort_download: the task under the id is cancelled, if it is not over; its handler runs later.
\* The file is removed in any case, who ever put it there.
Abort(s) ==
    /\ DlUp /\ info[s] = "downloading"
    /\ info' = [info EXCEPT ![s] = "aborted"]
    /\ task' = [t \in Tasks |-> IF t = current[s] /\ Under(t) THEN [task[t] EXCEPT !.at = "cancelled"] ELSE task[t]]
    /\ dest' = 0 /\ spoilt' = (spoilt \/ s \in unmade)
    /\ UNCHANGED <<current, bytes, part, loaded, deleting, finished>>

Cancelled(t) == DlUp /\ task[t].at = "cancelled" /\ Removed(t, "aborted")

\* delete_model_file: a loaded model is unloaded first, which is waited for.
Delete ==
    /\ DlUp /\ dest # 0 /\ ~deleting
    /\ IF loaded THEN deleting' = TRUE /\ UNCHANGED <<dest, finished>>
       ELSE dest' = 0 /\ finished' = 0 /\ UNCHANGED deleting
    /\ UNCHANGED <<info, current, task, bytes, part, loaded, spoilt>>

Unloaded ==
    /\ DlUp /\ deleting
    /\ deleting' = FALSE /\ loaded' = FALSE /\ dest' = 0 /\ finished' = 0
    /\ UNCHANGED <<info, current, task, bytes, part, spoilt>>

-----------------------------------------------------------------------------
(* A directory.                                                            *)

\* download_model for a manifest.  The staging directory is made before anything handles an error.
Assemble(m) ==
    /\ DlUp /\ directory = NoFiles /\ info[Dir] # "downloading"
    /\ info' = [info EXCEPT ![Dir] = "downloading"]
    /\ \/ assembly' = [of |-> m, at |-> 1, open |-> FALSE] /\ unmade' = unmade \ {Dir}
       \/ unmade' = unmade \cup {Dir} /\ UNCHANGED assembly
    /\ UNCHANGED <<process, current, task, bytes, part, dest, loaded, deleting, staged, directory, finished, spoilt>>

Assembling(p) == DlUp /\ assembly.of # "none" /\ assembly.at = p
AssemblyUnchanged == UNCHANGED <<process, current, task, bytes, part, dest, loaded, deleting, directory, finished, unmade, spoilt>>

\* Mutant: a staged file is taken whatever its size.
SkipsAny(p) == staged[p] # "absent"
\* A staged file of the size the manifest gives is taken for the file.
Skips(p) == staged[p] \in Manifests

SkipFile(p) ==
    /\ Assembling(p) /\ ~assembly.open /\ Skips(p)
    /\ assembly' = [assembly EXCEPT !.at = p + 1]
    /\ UNCHANGED <<info, staged>> /\ AssemblyUnchanged

\* It is fetched if it is not, or the manifest gives no size.
FetchFile(p) ==
    /\ Assembling(p) /\ ~assembly.open
    /\ staged' = [staged EXCEPT ![p] = "partial"]
    /\ assembly' = [assembly EXCEPT !.open = TRUE]
    /\ UNCHANGED info /\ AssemblyUnchanged

GotFile(p) ==
    /\ Assembling(p) /\ assembly.open
    /\ staged' = [staged EXCEPT ![p] = assembly.of]
    /\ assembly' = [assembly EXCEPT !.open = FALSE, !.at = p + 1]
    /\ UNCHANGED info /\ AssemblyUnchanged

\* Mutant: an assembly that is given up is not reported.
GivenUpUnreported == info
GivenUp == [info EXCEPT ![Dir] = "failed"]

\* A file that does not match its digest is removed; one whose transfer failed stays, and so does
\* all when a directory is not made or the last rename fails.
FailDirectory ==
    /\ DlUp /\ assembly.of # "none"
    /\ info' = GivenUp /\ assembly' = Unassembled
    /\ \/ UNCHANGED staged
       \/ assembly.open /\ staged' = [staged EXCEPT ![assembly.at] = "absent"]
    /\ AssemblyUnchanged

PublishDirectory ==
    /\ DlUp /\ assembly.of # "none" /\ assembly.at \notin Paths
    /\ directory' = staged /\ staged' = NoFiles
    /\ info' = [info EXCEPT ![Dir] = "complete"] /\ assembly' = Unassembled
    /\ UNCHANGED <<process, current, task, bytes, part, dest, loaded, deleting, finished, unmade, spoilt>>

\* abort_download: nothing of the directory's task handles the cancellation.
AbortDirectory ==
    /\ DlUp /\ info[Dir] = "downloading"
    /\ info' = [info EXCEPT ![Dir] = "aborted"] /\ assembly' = Unassembled
    /\ UNCHANGED staged /\ AssemblyUnchanged

-----------------------------------------------------------------------------
(* The node ends and starts again; files are all that stays.               *)

Ending == DlUp /\ process.ends < Stops /\ process' = [is |-> "down", ends |-> process.ends + 1]

\* The event loop cancels what runs: each download removes its paths, a finished one that loads
\* its model included.
Stop ==
    /\ Ending /\ Forgotten
    /\ IF \E t \in Tasks : Under(t)
       THEN part' = 0 /\ dest' = 0 /\ spoilt' = (spoilt \/ \E t \in Tasks : task[t].at = "loading")
       ELSE UNCHANGED <<part, dest, spoilt>>
    /\ UNCHANGED <<bytes, staged, directory, finished>>

Killed ==
    /\ Ending /\ Forgotten
    /\ UNCHANGED <<bytes, part, dest, staged, directory, finished, spoilt>>

StartAgain ==
    /\ process.is = "down" /\ process' = [process EXCEPT !.is = "up"]
    /\ UNCHANGED fileVars /\ UNCHANGED dirVars

FileStep ==
    \/ \E t \in Tasks : (\E s \in Sources : Download(s, t)) \/ NoDirectory(t)
    \/ /\ \/ \E t \in Tasks : Open(t) \/ Chunk(t) \/ Wrote(t) \/ Publish(t) \/ Fail(t) \/ Load(t) \/ Cancelled(t)
          \/ \E s \in Sources : Abort(s)
          \/ Delete \/ Unloaded
       /\ UNCHANGED unmade

DlNext ==
    \/ FileStep /\ UNCHANGED <<process, assembly, staged, directory>>
    \/ \E m \in Manifests : Assemble(m)
    \/ \E p \in Paths : SkipFile(p) \/ FetchFile(p) \/ GotFile(p)
    \/ FailDirectory \/ PublishDirectory \/ AbortDirectory \/ Stop \/ Killed \/ StartAgain

\* A transfer ends, at the latest by its read timeout; tasks that can run do.
DlFairness ==
    /\ \A t \in Tasks : WF_dlVars(/\ Open(t) \/ Wrote(t) \/ Publish(t) \/ Fail(t)
                                  /\ UNCHANGED <<process, assembly, staged, directory, unmade>>)
    /\ \A p \in Paths : WF_dlVars(SkipFile(p) \/ FetchFile(p) \/ GotFile(p) \/ FailDirectory)
    /\ WF_dlVars(PublishDirectory \/ FailDirectory)

DlSpec == DlInit /\ [][DlNext]_dlVars /\ DlFairness

-----------------------------------------------------------------------------
(* Properties.                                                             *)

(* What a finished download put in place is there until it is deleted, and *)
(* nothing else ever is: through failed and aborted tries, crashes and     *)
(* restarts (api/models.py download_model, _do_download, abort_download).  *)
(* Excepted, for the code does not keep it then, are a download begun      *)
(* before an aborted one of the file has cleaned up, the abort of one that *)
(* was over for want of its directory, and a node stopped while it loads   *)
(* the file.                                                               *)
FinishedStays == ~spoilt => dest = finished /\ (dest # 0 => bytes[dest].whole)

(* A model directory is published complete: no file of it is missing, or   *)
(* the rest of a transfer that was aborted, failed or died (api/models.py  *)
(* _do_manifest_download: "Publish atomically").                           *)
DirectoryWhole == directory # NoFiles => \A p \in Paths : directory[p] \in Manifests

(* What a finished download or assembly put in place is there, whole, and  *)
(* nothing else is.                                                        *)
FilesWhole == FinishedStays /\ DirectoryWhole

(* A download does not stay "downloading" while the node runs: it ends     *)
(* complete, failed or aborted, aborts and restarts of the same download   *)
(* between (api/models.py _do_download).  Excepted are downloads whose      *)
(* directory could not be made.                                            *)
DownloadsEnd == \A i \in DownloadIds : []<>(info[i] # "downloading" \/ i \in unmade)

(* Not kept: mkdir stands before the try of both tasks (models.py:488,     *)
(* 766), and what it raises leaves "Download already in progress" to every *)
(* later request, until an abort.                                          *)
AllDownloadsEnd == \A i \in DownloadIds : []<>(info[i] # "downloading")

(* Its files are those of one manifest, "the only evidence the bytes are   *)
(* right" (api/models.py:758).                                             *)
DirectoryOfOne == \E m \in Manifests : \A p \in Paths : directory[p] \in {m, "absent"}
=============================================================================
