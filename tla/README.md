# mycellm in TLA+

mycellm is a peer-to-peer network of nodes that run language models for each other. A node is one Python
process with one asyncio event loop; peers talk over QUIC, clients over HTTP, and what must outlive the process
is in SQLite or in files. This directory holds TLA+ modules of its parts, TLC configurations that check them on
small instances, and TLAPS proofs. Paths below are relative to `src/mycellm/`, the program's package, unless they start
with `examples/`. `PROJECT.json` says, for every definition, which lines of the source it translates, and lists
the hazards of the code with the properties that would notice them, and the disagreements found while modelling.

Contents: [inventory](#inventory), [plan](#plan), [the modules](#the-modules), [runs](#the-runs),
[fairness](#fairness), [proofs](#the-proofs), [findings](#what-the-code-does-not-keep),
[not modelled](#what-is-not-modelled).

## Inventory

Within one node nothing runs in parallel except threads that compute, but every `await` is a point where any
other coroutine runs: requests, peer messages, timers and background loops interleave there. So the
hard part of almost every component is state that is read before an await and used after it.

| component | state | operations | hard behaviour | what makes it correct | modules |
|---|---|---|---|---|---|
| Job queue and scheduler (`execution/queue.py`, `scheduler.py`, `api/jobs.py`) | `jobs` table (persistent), running tasks | submit, cancel, tick (expire, order, claim, spawn), finish, requeue, reclaim at start | overlapping ticks, cancellation during a claim or an execution, stakes in a second database, crash between commits | a job is run by one executor, ends once, its stake comes back at most once, no queued job is forgotten | JobQueue, JobLifecycle |
| Inference manager and backends (`inference/manager.py`, `llamacpp.py`, `mlx*.py`, `openai_compat.py`), memory watcher (`memory_watch.py`) | backends, locks, advertised models, queue depths, saved configurations | load, unload, evict, admit a request, release | loads and unloads under waiting requests, cancellation while a thread computes, queue timeout | one pass at a time on a serial backend, permits conserved, depths exact, what is offered is loaded | InferenceManager |
| Batching backend (`inference/mlx_batched.py`) | a thread's queue, its batch, the text sent so far | submit, admit, decode a token, finish, unload | hand-over from decoding alone to the batch, stop strings over several tokens, death of the thread | a consumer gets exactly its text, and an end | Batching |
| Relays and restoring (`inference/relay.py`, `inference/manager.py`) | endpoints, the names each has registered, saved configurations and attempts (persistent) | add, discover, refresh, remove; restore, count, quarantine | overlapping discoveries, crash in the middle of a load | a registered model has one owner, a model that kills the node is given up | Sources |
| Peer manager, registry, health checker (`transport/`, `router/`) | managed peers, connections, registry entries | dial, shake hands, beat, give up, ping, recover | both sides dial at once, three writers of an entry, a connection that ends while a ping waits on it | an answer comes back where the request went out, a lost connection is noticed and made again | Peering |
| Requests between nodes (`transport/connection.py`, `quic.py`, `node.py`) | pending requests, stream queues, slots of a connection | ask, serve, stream, relay, fail over | late, lost and overtaking messages, nodes that ask each other in a circle | one voice in an answer, slots given back, a client is told how its request ended | Serving |
| OpenAI-compatible API (`api/openai.py`, `router/model_resolver.py`) | one request | resolve, try local, peer and fleet sources in turn, stream | a source that fails after it began | a refusal is true, a constraint on trust is kept | Chat |
| Execution coordinator (`execution/coordinator.py`, `planner.py`, `policy.py`) | a plan's units and their results | choose, fan out, collect, cancel at budget, synthesise, fall back | units that end while they are cancelled, partial failure, a caller that leaves | the prompt stays where it may be, an answer whenever a proposer answered, no unit outlives the job | Ensemble |
| Federated training (`training/`) | a coordinator's rounds, a participant's jobs and adapters | announce, train, collect, aggregate, publish, adopt | late and lost updates, overlapping rounds | what is adopted is an average of a quorum of that round, clipped | Training |
| Fleet (`api/admin.py`, `storage/repositories.py`, `node.py`) | registry in memory and in a table, announce loops | announce, back off, approve, remove, sweep, restart | write-through races, crash between memory and table | only the approved are approved, a running node is listed again and again | Fleet |
| Federation of networks (`federation.py`, `cli/network.py`) | identity and membership files, what peers claimed | host, set a key, join, leave, shake hands, restart | two processes on one file, crash while writing | a keyed network admits only by its key, memberships survive | Federation |
| Downloads (`api/models.py`) | files, `.part` files, a staging directory, trackers | download, abort, delete, assemble, publish, end of the node | abort against cleanup, two sources of one path, crash | what is finished stays and is whole, a download ends | Downloads |
| Public gateway (`api/gateway.py`) | counts of an address, requests under way | admit, order candidates, fail over, charge | requests that overlap between admission and charge | all that are nearer are asked before one answers, and everyone before a refusal | Gateway |
| Credit ledger and settlement (`accounting/`, `storage/repositories.py`) | accounts, transactions, receipts (persistent), seen request ids, cache | ensure, debit, credit, settle a co-signed receipt, poll | receipts that arrive twice or at once, restart between debit and credit, lost updates, a cache filled while a commit happens | no overdraft, no credit without a debit, a receipt settles once, the books balance | Settlement, Accounts |
| Coding harness (`examples/hyphae/src/hyphae/`) | a task graph, one workspace | plan, generate, validate, apply, test, review, undo, vote | concurrent tasks that write one workspace and take files back | what is done stays, what failed is gone, a run ends | Hyphae |
| Watchdog, identity, NAT and DHT, knowledge tables, activity log, CLI | | | | | see [below](#what-is-not-modelled) |

Components interact by direct calls inside the node (the scheduler calls `execute_job`, which calls the
coordinator, which calls the inference manager or a peer connection), by shared dictionaries (the peer
manager, the health checker and message handlers all write the registry), by callbacks (a submission starts a
tick of the scheduler), by files and tables that a second process or a later start reads, and by messages between nodes.

## Plan

What is there: all modules of the table above, their runs, and proofs about every one of them. Each invariant and each action property
that a run checks is a theorem; the liveness properties are checked by TLC alone.

What is left, in order:

1. Composition: `JobQueue`'s executor refined by `Ensemble`, and `Ensemble`'s peer units by `Serving`.
2. Downloads to several paths at once, and the vision and embedding backends.

Eight modules hold all proofs. `SettlementProofs` holds those about `Training` too, `InferenceManagerProofs` those about `Sources`, `PeeringProofs` those about
`Chat`, `EnsembleProofs` those about `Hyphae`, `NodeProofs` those about the parts of `MCNode`, about `Federation` and about `Gateway`; such modules are about components that share no state.
`Sums` holds lemmas about sums over finite sets.

Every module is written for both tools: parameters are CONSTANTS with the weakest assumptions the code
justifies, an operation is an action of its own, sums are folds rather than RECURSIVE operators.

## The modules

Common conventions. A handler is cut into one action per stretch between two awaits that matter (a database
commit, a lock, a thread, a message), so TLC interleaves exactly what the event loop can interleave. Crashes are actions
that reset what is in memory and keep what is in files and tables. A CONSTANT whose comment says "bound" limits a
run and is not in the code. Operators preceded by a comment "Mutant" are deliberately wrong variants of the
definition after them. They are not used by any specification; put in the definition's place they break the property
`PROJECT.json` pairs them with, which shows that the property depends on that definition.

A variable called a history variable records what has happened for a property to speak of; no action of the
program depends on it.

### JobQueue

| code | module |
|---|---|
| a row of `jobs` | `state`, `stake`; `refunds` counts ledger credits of the stake |
| `submit_job`: debit, insert, nudge | `SubmitDebit`, `SubmitInsert` with `Nudge`; `SubmitFails` when the INSERT raises |
| `cancel_job`: read, guarded update, credit | `CancelRead`, `CancelUpdate`, `CancelCredit`, `CancelFails` |
| `JobScheduler.tick` and what it awaits | `TickSelectDue`, `TickExpire`, `TickRefund`, `TickPending`, `TickDecide`, `TickVisit`, `TickClaim`, `TickLose`, `TickSpawn`, `TickEnd`, and `TickFails` when an access raises; a tick belongs to the loop (`Loop`) or was started by a submission (`Nudges`) |
| `sort_key`, `pending(limit)` | `Before`, `First`, `Oldest` |
| `_run`: execute, finish, refund, requeue on cancellation | `TaskReturn`, `TaskDone`, `TaskFail`, `TaskRefund`, `TaskRequeue`; `TaskFails` when finish or requeue raises |
| `stop`, process end, `start` with `reclaim_stale_running` | `Stop`, `Exit`, `Start` with `Reclaimed` |
| `eligible` and the targets | `ready`, changed by `Telemetry`; the clock is `Deadline` |

`JobLifecycle` is what a client may rely on: a job waits, is executed by at most one executor at a time, may go
back to the queue, and never runs again once it has ended. `KeepsPromise` maps the four terminal states to
"ended" and the tasks and won claims to `active`.

Jobs are numbered by `created_at`. `attempts`, `waiting_reason`, results and timestamps are written and never
read by a step, so they are left out. An access to the database that raises has written nothing (`Fault`). The history variables `unwritten` and
`uncredited` name the jobs whose own end, or whose own refund, raised: the code loses those, and nothing else may be lost. All jobs have the node as owner because the API submits them so.

### InferenceManager

| code | module |
|---|---|
| `_backends`, `_model_locks`, `_model_info`, `_queue_depth`, `_saved_configs` | `backends`, `locks`, `info`, `depth`, `saved` |
| `node.capabilities.models`, which is announced | `offered`: a request to load or unload assigns it in the same step (`LoadDone`, `Unloaded`), the restore, the relays of the settings and a refresh at the end of their list (`ListEnd`), the poll of the relays never; `unsaid` is what a list or the poll has loaded since |
| `_load_status` | `tracked`; `ClearStatus` is `clear_load_status` |
| a backend object and its lock | the number of the load that made it: `owner`, `permits`, `worker` |
| `load_model` before and after the await of the backend | `LoadBegin`, `LoadDone`, `LoadFail`, `LoadLost` |
| `unload_model` before and after it | `UnloadBegin`, `UnloadEnd` (both through `UnloadStep`, `Forget`), `UnloadNone` |
| `evict_idle_models`, called by the memory-pressure watcher | `Idle`, `Evict`, `EvictNext` |
| `generate`, `generate_stream`, `embed` | `RequestBegin`, `RequestAcquire`, `RequestTimeout`, `RequestEnd`, `RequestCancel` |
| `_release_model`, which looks the lock up by name | `Release`, `Raises`, `Dec` |
| the thread that computes | `passes`; `PassEnd` when nobody waits for it any more |

The three kinds of backend differ in how many they admit, in whether closing them suspends, and in whether a pass
outlives the coroutine that asked for it; that is all the module keeps of them. Which of the idle models was used last is not kept:
`Evict` may choose any set of them. Request groups and speculative priority are left out, because no caller sets
them.

### Sources

Where a node's models come from. `Load` and `Unload` are what `InferenceManager` details.

| code | module |
|---|---|
| saved configurations, the relay a name was loaded from, attempt counters | `configured`, `base`, `attempts`: what a crash (`Die`) leaves |
| `_restore_models_bg`, `restore_models`, `_bump_attempt` | `Start`, `RestoreNext` (with `Attempt`, `Quarantine`, `Bumped`), `RestoreEnds`, `RestoreDone` |
| the relays of the settings, `add` | `BootAdd`, `Booted`, `ApiAdd` |
| `refresh`, `_poll_loop` | `Ask`, `Poll`, `ApiRefresh` |
| `_discover_models`: asked, each name claimed and loaded, what is gone withdrawn | `Answered`, `Claim` (with `ClaimName`, `IsOurs`), `Loaded`, `Reconcile`, `Withdraw` |
| `remove` | `Remove` |
| loads and unloads by the API meanwhile | `LoadFile`, `ApiUnload` |

Discoveries run in two lanes, the boot and polling task and an API call. `Label` is the label of a url, given or from its host, as the slug that goes
into group ids and qualified names; `base` stands for both the group and the url a name was loaded with, which are saved together, and `planned` for the
configurations a restore works from, which it has read at its start. `overlapped` says that two lanes were at work together, or that a restore brought back an endpoint
that something else had replaced meanwhile. A model that has the name of a relay's but no group (an API backend so named by hand) is left out.

### Batching

The thread of `mlx_batched.py`: `Submit`, `Admit`, `BatchToken`, `SoloToken`, `Eos`, `ThreadDies`, `Unload`, `Stopped`. Text is a sequence of characters. `Decoded` says
what one more token makes of it (the tokenizer's `decode`, external): it may change up to `Reach` of the last characters and adds a piece, so a text may become shorter, as when
the replacement characters of two bytes become the character they make. `Cut` (`truncate_at_stops`), `Holdback` (`stop_holdback_len`), `Progress` and `Finished` are what the
code computes; one stop string stands for all. `Inserted` puts requests into the batch, where any of them may fail; `Folded` is the hand-over of a request decoded alone, whose tokens are decoded anew. `revised`
says that what was decoded before was not what is decoded now, or that the text came into the batch with a stop string in it.

### Peering

| code | module |
|---|---|
| `_managed_peers` and the task of each | `managed`; `Manage`: `DialOk`, `DialFail`, `HelloOk`, `HelloFail`, `HelloCut`, `Beat`, `BackedOff` |
| `_peer_connections` of the node, the registry | `table`, `entry` |
| the hello of a peer that dials us, its ping, its announcement, the addresses it tells of others | `InboundHello`, `InboundPing`, `Announce`, `PeerExchange` (with `Tellable`, `AddPeer`) |
| connections that end; the dial that follows an address change; `stop` | `Terminated`, `SelfHeal`, `Shutdown` (with `ManagerStopped`) |
| `HealthChecker._check_all` | `Check`: `HealthBegin`, `HealthPing`, `HealthRefused`, `HealthAnswered`, `HealthOk`, `HealthMiss`, `HealthCut`, `HealthEnd` |

A connection is the pair of who made it and a name; names of connections that nobody refers to are used again.

### Serving

A request that one node puts to another is a task of that node. `Ask` is the client's; `Admit`, `Refuse`, `Generate`, `Generated`,
`GenerateFail` are `_handle_inference_request`; `Call`, `CallLost`, `CallFull`, `Exhausted` are `route_inference` and
`route_inference_stream` going from peer to peer; `DeliverFrame` and `DeliverLoose` are what QUIC delivers, in order
on one stream and in any order on several; `TakePiece`, `TakeDone`, `StreamOver`, `TakeResponse`, `TakeError`,
`TakeRelayed`, `TimeOut` are the waiting coroutine; `Cut` is a connection that closes, `Unload` a node that loses the model.

### Chat, Ensemble

`Chat` follows one `POST /v1/chat/completions`: `Resolved` and `ResolvedUnder` are the resolver, with the filter by balance (`Affordable`), `TryRanked`, `NoneRanked`,
`GenerateWhole`, `RouteWhole` the whole answer, `TryStream`, `StreamLocal`, `StreamPeers`, `StreamFleet`, `NoneStreamed` the
streamed one. What a source does when asked (works, breaks after a first piece, fails, is busy) is chosen at
the start.

`Ensemble` follows one job of the model "mycellm/swarm": `Allowed` is `EgressPolicy.decide`, `Plan` the planner with the
start of the coordinator, `Finish`, `Cancelled`, `Read` the proposers and `as_completed`, `Collected` the decision what to merge,
`DirectDone`, `Synthesized` and its failures the end, `Abort` a caller that leaves.

### Training

`Announce`, `Hear`, `TimeOut`, `Aggregate`, `Publish`, `Published` are `run_round` of the coordinator; `Refuse`, `Train`, `Trained`,
`Adopt` a participant; `Lose` drops a message. An adapter is one integer, so that clipping (`Clip`) and
averaging (`Averaged`, a weighted sum and its total) are exact.

### Fleet, Federation, Downloads, Gateway, Accounts

| module | code | actions |
|---|---|---|
| Fleet | the announce loop of a node | `Post`, `Skip`, `Refused`, `Served`, `AddressChange` (`Bump`, `Remaining`) |
| | the bootstrap's handlers | `Announce`, `Approve`, `RemoveNode`, `Sweep`, `Evict`; a write is under way in `write` until `Get` and `Commit` or `DbFails` |
| | its time, crash and restart | `Hour`, `Window`, `Crash`, `Restart` |
| Federation | `cli/network.py`, another process | `Host`, `SetKey`, `Drop`, each may tear the file it rewrites |
| | `api/node.py`, handshakes | `Join`, `Leave`, `Hello`, `Dialled` (`Accepted`, `DialledClaims`); a write or a removal of a file may fail after memory has changed (`Joins`) |
| | | `Die`, `Start` |
| Downloads | `_do_download` | `Download`, `NoDirectory` (the task dies where its directory cannot be made), `Open`, `Chunk`, `Wrote`, `Publish`, `Fail`, `Load`, `Cancelled`; `Abort`, `Delete`, `Unloaded` |
| | `_do_manifest_download` | `Assemble` (the staging directory may not be made), `SkipFile`, `FetchFile`, `GotFile`, `FailDirectory`, `PublishDirectory`, `AbortDirectory` |
| | | `Stop` (the loop cancels what runs), `Killed`, `StartAgain` |
| Gateway | `_get_candidates` | `Candidates`, a function of what is present and the round-robin counter: an offer has as many `Ahead` of it as it has in the list, those of a lower tier or a nearer hop (`Key`), and of its own group (`Alike`) those whose `Place`, once `Rotated`, is before its own |
| | `route_inference`, given a peer's model | `Asks`: the model of that name here (`Loaded`) and nobody else, or the peers that have it (`Connected`) |
| | `public_chat`, `_proxy_fleet`, `_stream_fleet` | `Ask`, `Answered`, `StreamBegins`, `CandidateFails`, `Exhausted`, `StreamEnds`, `StreamBreaks`; `Minute`, `Day` |
| Accounts | `route_inference` | `Consume`, `AskFails`, `PeerAnswers`, `DebitRow`, `DebitCommits`, `DebitFails` |
| | `_handle_inference_request` | `Serve`, `CreditRow`, `CreditCommits`, `CreditFails`, `SendReceipt` |
| | receipts, polls | `Receive`; `Refresh`, `RefreshReads`, `RefreshStores`, `RefreshDropped` |
| | | `Tick`, `NodeStarts`, `NodeEnds` |

`MCNode` composes `Fleet`, `Downloads` and `Accounts` with `Batching`. They share no state in memory, so in a behaviour one of them is at
work and the others are off: what they do independently of each other is not multiplied. `MCNetwork` does the same for `Federation`, `Training` and `Gateway`, of which no
liveness is checked, and `MCModels` for `InferenceManager` and `Sources`: a variable `part` says which of them moves.

In `Gateway` a request records who was asked in vain (`asked`), which candidates were not to be reached in their turn, being gone, overloaded or
of no network in common (`lost`), and who answered (`by`). The turn of a peer's candidate is one step: the router's list is made once, and while it asks one after
the other nothing else of the gateway depends on whom.

### Settlement

| code | module |
|---|---|
| `settle_cosigned_receipt`, step by step | `Submit` (signatures, rate), `Ensure`, `Open`, `Funds`, `Replay`, `DebitRead`, `DebitWrite`, `CreditRead`, `CreditWrite`, `Store` |
| accounts, transactions and receipts tables | `accounts`, `balance`, `debits`, `credits`, `served` |
| `ReceiptValidator` | `seen`, `rate`; `Minute` and `Expire` are the clock |
| start of the tracker, with `grant_treasury` | `Restart`, `Granted` |

`contended` is a history variable: the accounts that two settlements in flight have named at once. A receipt
with a bad or a missing signature changes nothing and is never submitted here. Every receipt has a request id of
its own: the code lets a receipt without one, a legacy format, pass the replay check always, and that case is left
out. Amounts are naturals where the code has floats.

### Hyphae

One run of the engine: `MakePlan` (and its retries), `NextBatch` (all tasks whose prerequisites are done), and for each task
`Generated`, `Micro`, `StillInvalid`, `Apply`, `Tested`, `Reviewed`, `Undo`, `Vote`. `disk` is who wrote a path last, `snapshot`
what a task found when it wrote, `lock` the lock of the test runs.

## The runs

| run | module | checks | shows |
|---|---|---|---|
| `jobs_interleaved` | MCJobQueue | OneExecutor, NothingStranded, KeepsPromise | a loop tick, a nudged tick and a cancel request over two jobs, and one crash, stop and restart, or failing access to the database: no job has two executors, none and no stake is left with nobody before the first stop unless its own write raised, and clients see `JobLifecycle` |
| `jobs_serial` | MCJobQueue | SerialRefund, ClaimEnds, QueueMoves | the loop alone, with changing telemetry and two crashes, shutdowns or failing accesses, under fairness: no stake comes back twice, claims end unless their finish raised, due jobs and jobs that are read and fit leave the queue |
| `models_served` | MCModels | OnePass, CountsHold (InferenceManager); LoopEnds (Sources) | two requests, two loaders, an unload and evictions over one model of each kind: one pass at a time on a serial backend, exact permits and depths. A file and a relay: a model that kills the node each time it is restored is given up, whatever API calls load and unload meanwhile |
| `models_offered` | MCModels | Registered (InferenceManager); OwnEndpoint (Sources) | one request, a request to load, a list and the poll, which loads and withdraws, an unload and evictions: what is served is locked, advertised, saved, and offered unless the poll or a list still at work loaded it. Three endpoints, two of one label, with a model of one name, through kills and restarts: no relay serves what one of another label registered |
| `peers_found` | MCPeering | AnswersReach, ConnectionsReturn, Recovers | one peer that is dialled at a bootstrap address and dials in as well: a request leaves where its answer is looked for, lost connections are noticed and made again, and a peer is offered again |
| `serving_ends` | MCServing | OneVoice, SlotsHeld, AskedEnds | three nodes that believe in each other, two requests between nodes at a time: an answer is of one node, slots are given back, the client is told |
| `chat_answered` | MCChat | NoneIsTrue, LocalStays, OneSource | all requests over three models here, at peers and in the fleet, whatever each source does and whichever tiers the balance opens |
| `ensemble_kept` | MCEnsemble | EgressKept, WorkIsKept, NoneOutlives | all jobs over a local model, a gateway, a trusted and an untrusted peer |
| `hyphae_kept` | MCHyphae | DoneStands, NoLeftovers, RunEnds | a reviewed and a voted task at once, then a simple one, over two files |
| `receipts_settled` | MCSettlement | CreditBacked, SettledOnce, BooksBalance | two settlements at once over receipts that share an account, one forgotten id, one restart |
| `node_parts` | MCNode | OnlyGranted, Listed (Fleet); FilesWhole (Downloads: FinishedStays, DirectoryWhole); StreamExact (Batching); AccountKept (Accounts: AccountHolds, PollsFresh); WorkEnds (Downloads: DownloadsEnd, Batching: StreamsEnd) | the fleet registry, downloads, the batching backend and the node's own account, which share no memory, each alone |
| `network_parts` | MCNetwork | Admitted, StaysJoined (Federation); QuorumOfOwn, Influence (Training); NearestFirst (Gateway) | the parts that deal with others of a network, each alone: one peer, a bootstrap, with the home network, one that may be hosted and one of others, handshakes and the command line between crashes, and writes that fail; two rounds of one job that overlap, two participants, messages lost and late; two requests of one address, a fleet node, two peers, and a model of this node that one of the peers has too |

Why these bounds.

- Jobs: every race the code has is between two coroutines over one row, or over the limit on running tasks. Two jobs give each
  of two ticks a job to claim and one to lose, and a cancel request meets both. `MaxConcurrent = 1` makes the
  limit bind with two jobs; in `jobs_interleaved` the nudge may exceed it by one (`ConcurrencyBound`, which is
  proved). `PendingLimit = 2` in `jobs_interleaved` keeps both jobs in sight; in `jobs_serial` it is 1, so that an older job keeps the other out of
  what a tick reads, as 200 do in the code: `Progress` speaks of a job that is among the rows read whenever it is queued, and the job that
  never is waits for ever (`PatienceWins`, a finding). `MaxMishaps` counts ends of the process and failures of the database together: two put a
  crash after a recovery, or a failure before or after a crash.
- Models: three loads are one of each kind, or a reload of one of them. One unload and the watcher's chain of
  evictions give two closers at once. `Slots = 2` is the smallest semaphore that is not a lock. `models_offered` has all three kinds of loader
  and one request, because what is offered does not depend on how requests queue. The properties
  exclude names that were loaded twice (`Reloaded`) and, where they say so, cancelled coroutines; what goes
  wrong there is a finding.
- Sources: a name is contested by two endpoints at most at a time, in two lanes; with three, two share a label and one does not.
  `models_offered` has them and no file, because what is restored is what endpoints contest. `models_served` has a file and one endpoint, and
  `Kills = 3` is one more than `MaxAttempts = 2`, so one kill too many would show.
- Peering: an entry has three writers and two connections that matter, the dialled and the inbound one; a third name is for
  the connection that replaces one still referred to. `MaxMisses` and `MaxHealthMisses` of 2 tell a first miss from the
  last; `MaxAttempts = 1` reaches the give-up that bootstrap addresses must not take. That three names are enough is
  proved (`ThreeNamesAreEnough`). A second address of the peer is a finding (`BeatingInTable`); `AnswersReach` is proved with it as well.
- Serving: a circle needs two nodes, a third makes failover go on; two requests between nodes suffice for a relayed one.
  A slot and a queue of 1 are at their limits at once; an answer of two pieces is the shortest that can break.
- Chat: one large model everywhere tells the sources apart, a small one is the alternative, an embedding one the
  trap; two fleet nodes are the failover, and the small model at one of them is what a small balance opens.
- Ensemble: fanouts of 2 and 4 are fewer and more than there are distinct models; a budget of 3 with 2 tokens an answer
  is exhausted by the second answer of a peer.
- Training: one delta is cut and one is not, and one participant may have no samples. `MinParticipants = 1` lets a round end
  with one, so that what the other sends late matters.
- Hyphae: two tasks at once over two files write one path or not; each may fail once and be tried again.
- Receipts: a pays b and b pays c all that b was opened with, so whether b can pay depends on which settlement comes first.
  `MaxRate = 2` lets a receipt be submitted again at once, and again after a `Minute`.
- Fleet: one node against the administrator and the sweep; an entry's races are with writes of that entry, and each has a
  handler of its own. Federation: one keyed network, the home network and one of another. Downloads: two sources
  of one path, one with a digest and one that may lack it; two files of a directory are one before and one behind the failure. Gateway: two hops
  of one tier, two of one hop, a larger tier, one model here and at a peer, one at a peer and in the fleet; a budget of 0 is used up by the first charge. Batching: a stop string of two
  characters can be cut between tokens, `Reach = 2` makes one character of two, and two requests make and end a batch. Accounts: one debit and one credit
  overlap, and a balance of 1 covers one of two attempts.

Deadlock is checked in the runs of the job queue and of settlement. The others model something that
ends (a request, a job, a run, a node that was shut down, loads that have all failed), where nothing is left to do.

## Fairness

- `jobs_serial` (`LiveSpec`): weak fairness of the loop's timer (`Poll`), of every tick and every task step: the event
  loop runs each coroutine that can run, each SQLite statement returns, and an execution ends because a
  generation stops at `max_tokens` and a peer's answer has a timeout. Weak fairness of `Exit` while stopping: the shutdown
  reaches its end. Weak fairness of `Start`: the operator starts the node again; exits are bounded, so
  from some time on the process stays up. Nothing is assumed of submissions, of cancel requests, of deadlines, or
  or of telemetry: `Progress` asks that a job be ready, and read while it is queued, from some time on and no more. `ClaimEnds` is conditional on
  the process never being stopped, because a row left RUNNING by a crash stays there (a finding). The database may raise in any step, but not for ever (`MaxMishaps`).
- `Peering`: weak fairness of the manager's task of each address and of the health checker's loop, as coroutines that can
  run do; strong fairness of a dial, a hello and an answered ping: a peer that is asked over and over answers in the end.
  Nothing is assumed of peers that dial in, announce, or ping, and connections may end at any time.
- `Serving`: weak fairness of every task: a waiting request takes what is in its queue or its timeout ends the wait. No
  message needs to arrive.
- `Hyphae`, `Chat`, `Ensemble`: weak fairness of the next step: a run that can go on does. Every wait in it has a timeout.
- `Fleet`: weak fairness of a running node's announce loop and of the bootstrap's restart (launchd, systemd or docker start it
  again); strong fairness of the announce that arrives and of its commit: a network and a database that fail let a try succeed now and then.
  Nothing of the administrator, the sweep or the clock, except that the window of the rate limit passes.
- `Downloads`: weak fairness of each download's next step; a transfer ends, at the latest by its read timeout. Nothing
  of chunks, aborts and deletions, nor that a directory is made. `Batching`: the thread admits, and decodes a token of each request in
  it. `StreamsEnd` is conditional on the thread living, because the code leaves consumers waiting when it dies (a finding).

## The proofs

`JobQueueProofs` proves, for every number of jobs, ticks and cancel requests and every bound on exits and failures of the database:

- `TypeCorrect`: `[]TypeOK`.
- `ExclusiveExecution`: `[]OneExecutor`. It is not inductive. The strengthening `IInv` adds that a row exists exactly
  when its submission was accepted, that ticks only work on rows that exist, that a tick that is claiming has
  picked a job, that a won claim is the only holder of its job, that a held job's row was taken out of the queue, and
  that a process that is down holds nothing. The row's leaving "queued" is never undone while the job is
  held: a requeue gives the job up in the same step, and `Start` happens when nothing is held.
- `EndIsFinal`: `TerminalIsFinal`, from `IInv`: a step that writes "queued" or "running" has a guard on the
  row's state, and `finish` writes terminal states only.
- `ImplementsLifecycle`: every step of `JobQueue` is a step or a stutter of `JobLifecycle` under the mapping.
- `SerialRefundsOnce`: `SerialRefund`. With one tick at a time and no cancel request (`Serial`), `SInv` links the row to the
  task that runs it and to the batch the loop is refunding: a stake still to be refunded has not been.
- `ConcurrencyBounded`: `ConcurrencyBound`. `Bounded` counts the ticks that have passed the test of `max_concurrent` together
  with the tasks; a tick that passes it sees fewer tasks than the limit, and at most the nudged ticks are ahead of it.

- `NothingIsStranded`: `[]NothingStranded`, until the process is first stopped or killed, but for jobs whose own end or credit the database refused. `KInv` adds to `IInv` that a task about to return a stake
  has written its job's end, which an overlapping expiry may replace by another end but not undo.

The assumptions are the ASSUMEs of `JobQueue` (bounds are naturals, limits positive, finitely many nudges, the loop is
none of them).

`SettlementProofs` proves, for any peers, receipts and amounts and any number of settlements, expired ids and
restarts:

- `TypeCorrect`: `[]TypeOK`.
- `NoOverdraft`: `[]NeverNegative`. It needs `ReadsCover`: between its read and its write a debit holds an amount that
  covers the cost. What other settlements write meanwhile does not matter, because the write is
  computed from what was read. This is the same fact that makes updates get lost (`Conserved`).
- `CreditsAreBacked`: `[]CreditBacked`, from `Backed`, which also counts the settlements that have credited and
  not stored their receipt.
- `SettlesOnce`: `[]SettledOnce`, from `Remembered`: the debits of a receipt, written or under way, are at most one, and none
  while its id is not among those seen. `StageChange` is the lemma both rest on: a step moves one settlement, so each
  count changes by what that settlement leaves and enters.
- `BooksAreBalanced`: `[]BooksBalance`. `BooksInv` adds to the books themselves that while an account is not contended one settlement at most is at work on it (`Alone`), that what this one
  has read is still the balance (`ReadsFresh`), so that it writes the balance and its amount, and that an account which was not opened yet has earned and spent nothing (`Opened`). `Entered` is the lemma that one debit or credit of a receipt adds its amount to one sum and to no other.

It proves about `Training`, for any participants, rounds, deltas, samples and limits:

- `AdoptedIsOfQuorum` (`[]QuorumOfOwn`) and `ResultStands`: no step changes the result of a round. `Sealed` says that an answer, and an update that was heard,
  names the round that asked for it, so updates of overlapping rounds are never mixed; `OfQuorum` and `AfterResult` carry the quorum from the aggregation
  to those who adopt.
- `InfluenceIsBounded` (`[]Influence`), from `Weighed`: a sum of clipped deltas times their samples is no greater than the bound times the sum of the samples
  (`AverageBounded`), and the weight of a quorum with samples is not zero. `TrainingTyped`: `[]TrTypeOK`.

`Sums` has what these need of the community modules' `SumFunction`, which takes the elements of a set in an order that CHOOSE picks: `SumAdds` (the sum is what a
recursive function over the subsets gives), `SumsDiffer` (functions that differ at one element have sums that differ by as much) and `SumsBounded`. Each is an
induction over finite sets, by a least counterexample: if a statement fails of a set, then of one with the fewest elements (`Least`, from the well-foundedness of the naturals),
which is neither empty nor one more element than a set of which the statement holds (`NoFailure`).

The assumptions are the ASSUMEs of `Settlement`: finitely many settlements at a time and receipts, at least one
receipt, whose consumer and seeder differ, and amounts that are naturals.

`InferenceManagerProofs` proves, for any models and kinds of backend, and any number of loads, unloads, requests and
cancellations:

- `TypeCorrect`: `[]TypeOK`.
- `NamesRegistered`: `[]Registered`. `Refs`, `Filling` and `Closing` say who may refer to a backend object: what a load is filling
  nobody else knows, what is being closed serves no name.
- `CountsAreHeld`: `[]CountsHold`. `Registered` finds the lock of a name; `Accounted` is the count for every load of it: permits and
  passes never exceed the capacity of a lock, and make it up while the lock is registered. A request releases
  the lock it finds under its model's name, which is why names that were loaded twice are excepted.
- `OnePassAtATime`: `[]OnePass`, from `Accounted` and `Computing` (without cancellations a backend computes only for a request that
  runs on it); the capacity of a serial lock is one.

It proves about `Sources`, for any relays, models and lanes, and any number of starts, kills and calls (`SrcInductive`: `[]SrcInv`):

- `EndpointsServeTheirOwn`: `[]OwnEndpoint`. `Undisturbed` says that while one operation is at work at a time, what an endpoint has registered carries a
  name for that endpoint and was last loaded from one of its label, and that what is being loaded no endpoint of another label has registered; so that after a restart, too, an endpoint
  registers a plain name only if the group it finds there is its own. `Endpointed` ties an operation to its endpoint.
- `CrashLoopsEnd`: `[]LoopEnds`. `Counted` says that a model that may be restored was counted at least as often as it killed the process, and once
  more while it is being restored: the count is written before the load.

`NodeProofs` proves about the four parts of `MCNode`, `Federation` and `Gateway`:

- `Fleet`: `FleetTypes` and `ApprovedByAdmin` (`[]OnlyGranted`). `Granted` extends the property to the writes under way: a write that would approve
  a node is of an approved node, and behind a removal under way there is none, unless the removal is excepted.
- `Federation`: `FederationTypes`, `KeyAdmits` (`[]Admitted`) and `MembershipsSurvive` (`[]StaysJoined`), from `HomeHosted` (a running node
  hosts its home network) and `FilesSay` (what the files, the history of joins and the memory of a running node say is the same,
  but for files that were last not written or removed).
- `Downloads`: `DownloadTypes` and `FilesStayWhole` (`[]FilesWhole`). While nothing is `spoilt`, `OneTask`: one task of the file is under way at most,
  it works on the path it opened, and nothing is at the destination until it has finished; an id may lead to a task that is over only for want of its directory (`unmade`). `Passed`: what the assembly has
  passed is staged.
- `Accounts`: `AccountTypes` and `AccountsKept` (`[]AccountKept`). `Within` bounds balances by the credits there were, `Opened` counts one debit for
  a delivered answer, `Alone` says that while no transactions overlapped the one under way has read the balance, `Polled` that a
  balance in the cache is one the account had since its refresh began.

- `Gateway`: `GatewayTypes`, `BudgetBounded` (`[]BudgetOverrun`), from `Charging`: every request under way may yet be charged its most, and `NearestAnswers` (`NearestFirst`).
  `CandidatesSorted` says that the list `Candidates` makes of any offers, at any turn, has each once and is in order: `Ahead` is a strict order of what is present
  (offers of one group are rotated to different places, `RotatedApart`), an offer's rank is how many are ahead of it, and ranks are all different and below the number of offers, so
  each is taken (`RanksTaken`). `InTurn` says that what is left of a request's candidates is in order, and that
  the turn of every other has passed in vain: whoever stands for it was asked, or it was not to be reached (`TurnPasses`), which no interleaving of requests spoils.
- `Batching`: `BatchingTypes` and `StreamsExact` (`[]StreamExact`), for any stop string, any characters and pieces, and however far a token reaches back. `BatchingInv` says of a request under
  way whose text was not revised (`Sending`) that its text has no stop string yet and is the one the worker has, that its consumer has a part of it, and that nothing was sent which may be the beginning of a stop
  string (`Clear`); and of any, that its consumer has what comes before the stop string, all of it if the stream ended by itself (`Told`). The lemmas are about the text: `Holdback` leaves what nothing that follows
  can turn into a stop string (`StopGrows`), `Cut` is what is before the first, and the pieces sent join to the text (`Joined`).

`PeeringProofs` proves, for any peers, addresses and limits and three or more names:

- `TypeCorrect` and `RequestsLeaveByTheTable`: `[]AnswersReach`, from `Agreeing`: table and entry of a peer change in the same
  step, or the table loses the connection. `Managing` and `Pings` say who holds a connection and whose it is.
- `ThreeNamesAreEnough`: a peer's connections are referred to by the manager, the entry and the checker at most, so the
  bound `Names` leaves out no behaviour.

It proves about `Chat`, for any models, embedding ones among them, any fleet and any constraints (`ChatInductive`: `[]ChatInv`):

- `TellsTheTruth`: `[]NoneIsTrue`. `AnswersWhole` says that a candidate that is no longer left was tried in vain, `AnswersStreamed` that a model that is no
  longer left, and not being tried, has no source that works. `FleetVain` and `EveryModel` are the lemmas about the resolver: when nobody in the
  fleet answers for a model no node that lists it works, what the balance leaves out is what `NoneIsTrue` excepts, and no model that somebody has is missing among the candidates.
- `LocalRequestsStay`: `[]LocalStays`, because such a request is ranked among candidates of this node only, and the first of them ends it.
- `StreamsAreOfOneSource`: `[]OneSource`, because only nodes of the fleet are asked after something was emitted.

`EnsembleProofs` proves, for any targets, networks, fanouts and budgets:

- `PromptStaysInside`: `[]EgressKept`. `Sending` says that whoever was sent the prompt was allowed it or is who a streamed synthesis is
  routed to; `AllowedKept` is the lemma that `EgressPolicy.decide` implies what the property asks for.
- `AnswersAreKept`: `[]WorkIsKept`, from `Resulting`: a job ends with an error only if no answer that was read is good.
- `TasksEndWithTheJob`: `[]NoneOutlives`, from `Tasks`: tasks run only while proposals are asked for, and are being cancelled only until
  the fan-out is settled.

It proves about `Hyphae`, for any tasks, files and numbers of attempts (`HyInductive`: `[]HyInv`):

- `DoneWorkStands` (`[]DoneStands`) and `FailuresAreTakenBack` (`[]NoLeftovers`). `Orderly` says that while no two tasks in flight wrote one path, a task is the
  last writer of all it wrote until its verdict is out, and remembers what to put back: nothing, or the work of a task that is done.

`ServingProofs` proves, for any nodes and any beliefs of theirs, any number of requests in flight, answers and queues of any length:

- `TypeCorrect` and `SlotsAreHeld`: `[]SlotsHeld`. `Shape` says what a task of each place may hold; the type of `active` needs the
  counts: a slot that is given back was held. An action changes one task's being among those that wait (`TakenSlot`, `GivenSlots`), a
  cut takes out a set of them.
- `OneVoiceIsHeard`: `[]OneVoice`. The pieces of one node travel through a chain of tasks, each of which may
  fail over. `Voice` gives every task a number, the last piece it handed on, and a node, whose pieces they are: what is on its way to a task
  are pieces of its node with greater numbers, in the order in which they will be taken (`Own`); a task whose answer is awaited has handed on at least
  as much as its listener and speaks of the same node (`Link`); the client has what its request handed on
  (`Client`). A task that has handed nothing on may be given any node (`Rename`), which is what a failover and the first piece
  of an answer need: `told > 0` is the test by which the code keeps a request from being put to another peer, and `Timed` ties it to the number.
  The numbers and nodes are bound by an existential quantifier in the invariant, so the model carries no history variable for them. Frames
  that were dropped leave gaps in the numbers and no disorder.

The assumptions are the ASSUMEs of the modules. The finiteness of the sets that are counted (`Hops`, `Requests` of `Serving` and of `Gateway`, `Consumed`, `Answers`,
`Settlers`, `Receipts`, `Participants`, `Nudges`) and that names differ (the handlers "admin" and "sweep" of `Fleet` are no nodes, "unknown" of `Federation` is no key, "directory" of
`Downloads` no source, what is no update of `Training` none, an address of `Peering` no peer,
"file" and "relay" of `Sources` no labels, what is no task of `Hyphae` none, `AnyModel` of `Chat` no model) are all they say beyond bounds and the
types of functions; the code's names are of different kinds.

Model-checked only: every liveness property (`ClaimEnds`, `QueueMoves`, `ConnectionsReturn`, `Recovers`, `AskedEnds`, `RunEnds`, `Listed`, `WorkEnds`), because
liveness under fairness, and ENABLED, are out of the prover's reach. No RECURSIVE operator is used in any module, since the prover has none; what the modules
compute of data of any size, sums and sorted lists, is proved by the least counterexamples above and by ranks.

## What the code does not keep

`PROJECT.json` lists under "findings" each disagreement between the code and what its comments, docs or tests say of it, with the line and the quotation.
Those that are a property stated in a module are these; each is violated by the model of the code, and replayed by taking the run's
configuration without its INVARIANT, PROPERTY and SYMMETRY lines, with the change in brackets, and that property alone.

| run | property | what happens |
|---|---|---|
| `jobs_interleaved` | `CancelSticks` (a PROPERTY) | a job cancelled while it runs becomes DONE or FAILED when its task ends, because `finish` does not look at the row's state |
| | `RecoveredAtStart` | `start` requeues only rows that were claimed more than an hour ago: after a quick restart the interrupted job stays RUNNING with nobody to run it |
| | `NoMint` | two ticks select the same overdue row and each refunds its stake |
| | `StakeSurvives` | a crash between the expiry and the refund loses the stake |
| | `StakeSurvivesFaults` | a refund that raises is logged and not tried again |
| | `ClaimSurvivesFaults` | a `finish` that raises leaves the row RUNNING with no task |
| | `PatienceWins` (`jobs_serial`, a PROPERTY) | a job behind `PendingLimit` older ones that fit nothing is never read |
| | `AnswerIsPaid` | a job claimed between the read and the update of a cancel request is refunded, and runs |
| | `ExpiredNeverRan` | a tick expires a row that another tick has claimed since it was selected |
| | `WithinMaxConcurrent` | two ticks pass the check of the limit before either has made its task |
| | `QueuedHasPosition` (PendingLimit = 1) | a job beyond the limit of rows that are read has position 0 |
| `models_served` | `OneForwardPass` | a streaming client that goes away releases the lock of a llama.cpp model while the thread still computes |
| | `NoneStranded` | unloading an mlx batch ends its worker without an end marker to the consumers of the batch |
| `models_served`, `models_offered` | `OfferedIsLoaded` | neither an eviction nor the poll of the relays changes what peers are offered |
| `models_offered` | `LoadedIsOffered` | what the poll of the relays has loaded is offered to nobody |
| `models_served` | `LoadedIsKept` | a load whose status was cleared raises when it is done: its backend is nobody's |
| | `EvictsIdle` (a PROPERTY) | the watcher's list is older than the requests that came since |
| `receipts_settled` | `SettlesAtMostOnce` | the ids of settled receipts are forgotten at a restart or after an hour, and the receipt itself has no use-by date |
| | `Conserved` | overlapping settlements that share an account overwrite each other's balance |
| | `BurntIsSettled` (consumer <- SamePayer, seeder <- SamePayee, MaxExpiries = 0, MaxExits = 0) | a receipt whose debit fails for want of funds has used its id up |
| `peers_found` | `BootstrapKept` | a connection that ends while the hello is unanswered cancels the dialling task of a bootstrap for good |
| | `BeatingInTable` (Addrs = {a1, a2}) | the end of one address's connection takes the peer out of the table although the other address still beats |
| `models_offered` | `ServedByThisRelay` | two endpoints of one label take each other's models for their own |
| `chat_answered` | `NeverBlocked` | an "auto" request whose affordable candidates fail is not tried at the other nodes of the fleet |
| `ensemble_kept` | `SaysDegraded` | when the last result exhausts the budget the best proposal is returned without "degraded" |
| `hyphae_kept` | `TestsSeeDone` | the tests of a task run over files that the review of another takes back |
| `network_parts` | `JoinedForGood` | a membership whose file was not written, or not removed, is lost or comes back at the next start |
| | `StartsAgain` | the home network's file, torn by a crash, keeps the node from starting |
| | `DroppedNotOffered` | a peer all of whose claims were dropped counts as of no network, and is offered everything |
| `node_parts` | `AllDownloadsEnd` (a PROPERTY) | a download whose directory cannot be made is in progress until it is aborted |
| | `EveryStreamExact` | a text that was revised, by a token or by the move into the batch, is sent with characters lost or twice, or with its stop string |
| | `Unblocked` | requests in the batch or waiting when the worker ends are never told |
| | `PaidIsDelivered` | the receipt of an answer that was thrown away, because its debit failed, settles |
| | `NothingLost` | overlapping transactions of the node's account lose one |
| | `DirectoryOfOne` (Manifests = {m1, "m2"}) | a staged file of the right size, of another manifest, is published |
| `network_parts` | `EveryoneAsked` (a PROPERTY) | a busy model here fails the turn of every peer that has it, and none of them is asked |
| | `AnsweredInWords` | what this node says at a peer's turn is thrown away, and a stream that no peer takes ends without a word |

Two more are stated and hold on demand: `BudgetOverrun` of `Gateway` (`network_parts`, with DailyBudget = 2) and `ApprovalKept` of `Fleet` (a PROPERTY, under `NodeSpec`);
so do the type invariants (`TypeOK` of each module, `FleetTypeOK` and its like), `TerminalIsFinal`, `ConcurrencyBound` and `NeverNegative`.

Several of the runs' properties name the case the code does not keep as an exception: `OnlyGranted` a removal whose write failed or met an
announce (`lost`), `NoneIsTrue` nodes of the fleet that the balance bars (`Barred`), `Registered` what the poll of the relays has loaded (`unsaid`), `FinishedStays` a download begun before an aborted one has cleaned up or the abort of one that is over for want of its directory (`spoilt`), `DownloadsEnd` downloads whose directory could not be made (`unmade`), `StreamsEnd` workers that have stopped, `StreamExact` texts that were revised (`revised`), `StaysJoined` networks whose file was last not written or removed (`cut`), `NearestFirst` candidates that were gone in their turn (`lost`) and peers whose model is loaded here, `OwnEndpoint` two
operations of the relay manager at once, restores that bring back an older endpoint (`overlapped`) and endpoints of one label, `DoneStands` and `NoLeftovers` two tasks that write one path (`contested`), `AccountHolds` transactions that overlap
(`overlapped`), `BooksBalance` settlements that share an account (`contended`), `NothingStranded` and `ClaimEnds` a job whose own write raised (`unwritten`, `uncredited`). Without its exception each of them is violated, but for
`NoLeftovers`: that takes two reviewed tasks at once, and `hyphae_kept` has one reviewed and one voted task.

## What is not modelled

- The resilience watchdog kills a stalled process: a crash to every module, and nothing else.
- Identity, certificates and envelopes: a signature is a fact about who made a message, and serialisation is the identity on what the modules keep.
- NAT probing, hole punching and the wrapper of an external DHT library: they supply addresses, which `Peering` takes as given.
- Memory estimates, catalogues, reasoning dialects: tables, arithmetic and text parsing without state.
- The activity log, metrics, privacy patterns and secrets: no protocol between them and the rest. What the privacy scan finds is `blocks` in `Ensemble`.
- The command line and the dashboards read state over HTTP; the commands that write network files are in `Federation`.
- Within modelled components: fleet commands, hardware detection and growth statistics of the node; the vision and embedding backends; the translation to
  Ollama's API, embeddings and model listings; LocalLedger's file and the reputation; revocation lists and the contents of invites; the tensors and
  the codec of training; the catalogue search of downloads. `PROJECT.json` has the reason for each.
