# A TLA+ model of GeoLang

GeoLang is an agent over geospatial tools: a FastAPI server streams an LLM
agent's events to a map viewer, each tool call goes to an executor service that
runs it in a worker process of its own, results are published as layers of a
shared live document, and tools that start workflows wait for the user's click.
This directory models the parts where several actors share state, and the pure
parts whose results other parts, or people, decide by. Paths below
are relative to the repository (`src/core/…` is `src/src/core/…` in
`PROJECT.json`).

    tlc -workers 2 -config plans.cfg MCPlannedManifests.tla
    tlc -workers 2 -config service_parts.cfg MCService.tla
    tlapm PlannedManifestsProofs.tla

`PROJECT.json` says which lines of the source each definition stands for, which
properties each run checks, and for each property a mistake in the code
(an alternative definition kept in the module) that the run would catch.

## 1. Inventory

For each part: its state, its operations, whom it talks to, what is hard about
it, what makes it correct.

**Plan records and user approval** (`core/planned_manifests.py`,
`agents/tools/{plan,approve,run}_workflow.py`). State: `_planned`, a dict of one
`OrderedDict` per caller, from the digest of a confined manifest to a
`PlannedManifest` with a mutable `approved` flag. Operations: `record plan`,
`record approval`, `plan exists`, `approval exists`, each after a sweep of
expired records. The tools run in worker processes and ask the executor for
these operations over their pipes; the executor's threads apply them without a
lock. Hard: dictionary operations of several threads interleave, objects outlive
their place in `_planned`, records expire or are evicted between two lookups, a
restart forgets everything. Correct when run_workflow posts only what its own
caller planned and approved, a record stays until it expires or is evicted, and
a click belongs to one plan.

**Tool worker pool** (`api/tool_worker_pool.py`). State: a count of runs under a
condition variable, a deque of idle workers, a refill lock, one process and one
pipe per worker. Operations: `run` (take a slot, take a worker, talk, stop it,
give the slot back), `_refill`, `shutdown`; in the worker, `_worker_main`. Hard:
waits that time out while being notified, newcomers that barge in, workers that
die at any byte, refills racing shutdown, late replies. Correct when the limit
holds, no wakeup is lost, a worker serves one run and is dead before the slot is
free, processes are bounded and every call is answered.

**Executor service** (`api/executor.py`). No state beyond the registry and the
pool. Checks the downstream token, looks the tool up, calls the pool, wraps the
failure in an HTTP status. The pool is started and shut down by its lifespan.

**Caller identity and tokens** (`core/auth.py`, `core/user_token.py`, the doors of
`api/server.py` and `api/mcp_server.py`). State: none that is kept; the signed
tokens are with whoever got them, and a context variable holds the caller's.
Operations: mint a token for the MCP endpoint, check a token at each of three
doors (`POST /tools/{name}`, `POST /workflow/approve`, `/mcp`), exchange it for a
short one with a tool's scopes, or for the publication's. Hard: one token is
looked at several times in a call, and may end between two looks. Correct when a
token that is derived is never wider, longer or somebody else's, and a tool runs
only through a door that offers it.

**Remote tool execution** (`core/tool_executor.py`). Exchanges the user's token for
a five-minute tool token, posts to the executor with a 900 s timeout. Hard: the
executor's own budget is 1 + 120 + 840 s; a token may run out while the tool
works. Correct when a caller is told why a run failed, and a run reads and
writes its caller's directory throughout.

**Tool run limits and daily budget** (`api/tool_run_limits.py`,
`api/daily_budget.py`). State: spent amounts per day and caller, running counts.
Operations: start, finish, rollover. Hard: midnight during a run, runs of one
caller that overlap and are charged by the growth of one directory. Correct when
counts return to zero, and no caller exceeds its limits in a day.

**Live document publication** (`api/live_document.py`, `core/bound_document.py`,
`core/layer_files.py`). State: layer data files by token, their tag files, the
shared document's layers. Operations: publish, reconcile, prune, refresh, expire,
sweep. Talks to Agora. Hard: two publishers and a sweeper over one directory,
crashes between a file and its tag, a document that others edit. Correct when no
document refers to data that was deleted, and unreferenced data goes in the end.

**Agora session** (`core/agora.py`). State: one websocket, a sequence number.
Operations: open, send batches of operations, await acknowledgements. Hard: an
error frame carries no sequence number, timeouts, multi-frame sends. Correct when
a publication is applied as a whole or reported as failed.

**Agent event streams** (`api/server.py`). State: a queue between the thread that
reads sibyl's answer and the response, and what was gathered of the answer so
far. Operations: native events and the AG-UI translation. Hard: errors after the
end, silence, clients that leave. Correct when each run has exactly one terminal
event, which says how it ended, message and tool-call brackets match, and a map
that was announced is sent however the run ends.

**Upload catalogue and limits** (`api/server.py`, `api/upload_limits.py`,
`core/utils.py`). State: a caller's catalogue file and directory. Operations:
upload, save a drawn area, list. Hard: requests interleave at every await, take
over each other's names, and a caller's token may end in between. Correct when
each stored dataset is listed while its files are there.

**Outputs retention** (`api/outputs_retention.py`). Looks at a file's age, then
removes it, then the empty directories, in a thread beside the event loop.
Correct when it leaves alone what the catalogue needs.

**Shares and saved state** (`api/server.py`, `core/utils.py`). State: one file for
each share, its `.partial` file, the old file of all shares. Operations: share,
`save_json`, the move of the old file at a start. Hard: a process that dies, or a
write that fails, between any two steps. Correct when a link that was given out
keeps working.

**External service pacing** (`core/external_pacing.py`). State: a file with the time
of the last turn, under a file lock. Hard: processes that are killed, a clock that
is set. Correct when turns are the spacing apart.

**QGIS session** (`core/qgis_session.py`, three tools). State: the session, the
remembered failure of its start, a lock; parameters are confined to the caller's
files without any state. Correct when QGIS is built once.

**MCP server** (`api/mcp_server.py`). Its gate looks at the token, `call_tool` looks
again, runs the tool and publishes the result with a second token. Correct when
the result of a tool that ran reaches its caller.

**Workflow manifests** (`agents/tools/_geodukt.py` and the workflow tools). Paths
are confined, looked up and rewritten; what is shown, posted and reported is made
of the same manifest at three times, while files come and go. Correct when a run
reads and writes what the plan showed.

**Site tools** (`batch_geocode`, `calculate_isochrones`, `trade_area`, `score_sites`,
`assess_environmental_risk`, `service_gap`). No state; sources fail one by one, and
results are put together by position. Correct when a figure is its own site's, and
better is never scored worse.

**Layer tools** (`aggregate_by_region`, `compare_layers`, `cluster_points`,
`voronoi`). No state; joins, groups and clips at boundaries. Correct when each
feature is counted, or drawn, in its place.

**Evaluations** (`evals/`). Pure scoring of manifests and viewer calls against golden
tasks, and a sweep over a running sibyl: its sessions, its active profile, the
answer read from a turn's events. Correct when a full score means the right
pipeline, or the right call to the viewer; when one profile is measured; and when
sibyl is left as it was found.

**Map exports, tool registry, agent manager, other geospatial tools, the viewer
page, the tool sweep**: not modelled (section 7).

How they interact: viewer → server (stream, uploads, approve) → agent → tool
executor client → executor → pool → worker → tool; a workflow tool → pipe →
pool's thread → plan records; the server or the MCP server → live document →
Agora; uploads, retention, manifests and the tools' results meet in the callers'
directories; the evaluations drive sibyl as a browser does.

## 2. Plan

Each module has an MC module or a place in `Service`, its runs and its mutants.

| modules | what for | state |
|-|-|-|
| `WorkflowApproval`, `PlannedManifests` | what may run, and the store that decides it; refinement | checked |
| `PlannedManifestsProofs` | safety, refinement, no run on an expired plan, what holds until operations overlap | proved |
| `ToolWorkerPool` | slots, workers, pipes, refill, shutdown; safety and liveness | checked |
| `ToolWorkerPoolProofs` | slots, wakeups, single use, shutdown, refill, number of processes, answers | proved, but for liveness |
| `ToolExecution` | limits over midnight and overlap, waits that are given up | checked |
| `ToolExecutionProofs` | counts, daily runs, growth charged, spent budgets refuse, directories | proved |
| `LiveDocument` | publish, prune, sweep and expiry over shared documents and one directory | checked |
| `LiveDocumentProofs` | what is in flight and what is drawn is kept, nothing is left behind | proved |
| `CallerTokens`, `AgentRun`, `WorkflowManifests`, together `AgentParts` | tokens at three doors, over the time of a call; the thread, the queue and the stream of a run; a manifest from the plan to the report | checked |
| `AgentProofs` | an inductive invariant of each, and what it promises | proved |
| `CallerFiles`, `QgisSession`, `Shares`, `ExternalPacing`, `EvalSweep`, together `SharedParts` | uploads, drawings, catalogue and sweep; one start for many threads; links over crashes; turns of several processes; a sweep over a sibyl in use | checked |
| `SharedProofs` | an inductive invariant of each, and what it promises | proved |
| `EvalScoring`, `SiteTools`, `LayerTools`, together `ResultParts` | what a score means; results put together from parts | checked |
| `ResultProofs` | what a full score means, of a viewer answer and of a manifest, what a layer says that is made of others, and what is saved for a site, and scored | proved |
| `Service`, `MCService`, `MCServiceInputs` | one specification, and one run, over the parts that share no state | checked |
| `ServiceProofs` | what is proved of a part, of the service it is one of | proved |

Open: order keys and batches of a publication against a reference definition; the
pool's slots behind `ToolExecution`; the confinement of a QGIS algorithm's
parameters, as a function.

## 3. Modules and their correspondence to the code

### WorkflowApproval (abstract)

What the three workflow tools promise together, without a store: `RecordPlan`,
`Approve`, `StartRun` (only with an approval of a plan of this caller and this
text), `EndRun`, `Restart`. An approval may attach to any plan of that caller and
text recorded so far; which one it is, is the concern of the store's own
properties.

### PlannedManifests

One thread of the executor per element of `Threads`, each between "idle" and one
store operation. An operation is translated step by step: list `_planned`
(`ListTables`), visit each dict (`VisitTable`), pop its expired digests
(`PopExpired`), test and drop the empty dict (`TestEmpty`, `DropCaller`), then
`setdefault` / `pop` / insert / trim for a plan, or `get` and `get` again for a
lookup, and the mark or the flag read. A dict is an object with an identity, so a
thread can hold one that `_planned` no longer has. `run_workflow` is two
operations, "plan exists" and "approval exists", and then the post to the
workflow engine, which is answered or not. `Restart` empties the store and ends
the threads.

Data: manifests are model values (equal texts have equal digests, the digest is
of the confined text), time is a counter, the approved flag is kept as the set of
approvals that set it, so that properties can tell whose click it was.
`issued`, `returned`, `born`, `overlapped` and the fields `stored` and `shown` of a
job are history and guard nothing. `overlapped` says whether two operations were
in the store at a time (`InStore`: all of `_forget_expired` to the last access, but
not the run that `run_workflow` posts) since the last restart. Until then the store
keeps promises that overlapping operations break (`KeptInTurn`, `ClickedInTurn`,
`ApprovedInTurn`), on any number of threads.

`calls`, `clock` and `restarts` are capped by MaxPlans, MaxClock, MaxRestarts.
A restart comes after the first plan, since before it there is nothing to lose.

### ToolWorkerPool

A call is a thread of the executor; a worker is a process with a pipe. Each
condition-variable step (`TakeSlot`, `WaitForSlot`, `AnswerBusy`, `ReleaseSlot`)
is atomic because the code holds the condition's lock. A notified or timed-out
waiter rechecks the count when it gets the lock, and a newcomer may be faster.
`Expire` says that the deadline of what a call waits for is past; clocks are not
otherwise modelled. `PollNothing`, the checks and `PollAgain` are the loop of
`_next_message`: a reply may arrive between the poll and the deadline check.

A worker loads, says ready, receives a run, may ask for record operations,
replies and leaves; `Exit` is its death at any step, in the middle of a message
("torn") included. What `recv` then finds is what the platform's pipes do: end of
file after a clean close, an `OSError` when the worker left a message unread or
its own unfinished. `ConversationRaises` is every way the conversation ends in an
exception that `run` does not turn into an answer: the slot is given back, the
pipe closed with its frame, the worker not stopped.

Merged or left out: taking a worker and starting the refill thread are one step;
the poll that precedes the is-alive test is not repeated, since the pipe of a
dead worker is at its end (a grandchild that holds the pipe open would delay the
same answer); a pipe holds at most one message each way, because each side waits
for the other. `MaxWorkers` caps the processes of a behaviour and `MaxAsks`
the record operations asked for in it.

`CallShutdown` needs every call to be answered or not yet to have come: the
server ends its requests before the lifespan's exit calls `shutdown`.

### ToolExecution

A run is a thread of the API in `execute_tool`. `Exchange` and `CallerOf` come
before the limits; `AskRuns`, `AskOutput` and `RecordRun` are `start`, one step for
each time it reads the clock, with the lock held from the first to the last;
`MeasureBefore`, `MeasureAfter` and `Finish` are what stands around the tool. Of the
deployments there are four: gated or not, tools here or in the executor. Whose
directory a tool writes to is what `current_caller_directory` answers at that
moment: here it verifies the token each time, in the executor it is told once, by
`Send`.

`TokenEnds`, `Midnight` and `Remove` (the retention sweep, or a caller who deletes a
file) may come between any two steps. A tool writes one byte at a time, ends or
hangs; the API waits for it, or gives up on one in the executor, which then works
on. The end of the wait and the measurement after it are one step, because nothing
that happens between them can be told from the same before the end. `caller`,
`before` and the like are locals; `began`, `settled`, `owed`, `writesTo` and
`removed` are history.

Left out: a restart of the API, which forgets the counts as README.md says
("kept in memory"), and the result a caller gets. A walk over a directory is one
step. Limits of 0 are no limits, as in the code. MaxDay, MaxWrites and MaxRemovals
bound the days, files and removals of a behaviour.

Not hidden by any property: a run left behind in the executor is
measured when the wait ends, so what it writes later is charged to nobody, and its
place among the caller's runs is free while it holds a slot of the executor. A run
in this process whose token ends writes the rest of its files to the anonymous
directory, which all share.

### LiveDocument

A publisher is a request that publishes a tool's layers; a document is a map from
layer ids to the published file its entry draws from (a token, or none for an
entry with its features inside). A published file is two files of one directory,
the data and the tag, each with its own time: the data's is the last use, the
tag's the publication.

The actions follow `publish`: `Open` takes the snapshot that everything later
relies on, `SkipLayer` / `InlineLayer` / `WriteData` + `WriteTag` read one layer
each, `SendFrame`, agora's `Apply` and `ReceiveAck` write the operations in one or
more frames, `Prune` deletes what the replaced entries named, `Fail` is every
error that is answered "nothing was written". Housekeeping follows: `Reconcile`
of the own document, `ChooseDocuments` and `Rejoin` of others, each with a
`Reconcile`, and `Expire`. Deletions are one file at a time (`UnlinkData`, then
`UnlinkTag`), since other requests' threads work on the same directory. `End` is
the end of the request at any step: the answer, a client that left, or a stop of
the server. A frame that a publisher gave up on stays on its wire and may still be
applied.

agora and the members of a document are external: a frame is applied as a whole,
members remove layers, copy entries (in `CopyingSpec` only), and viewers fetch what
is drawn.
A document that agora reports as gone is one that draws nothing, which is how the
sweep treats it. A snapshot is the whole of what the session knows.

Left out: the order, name and style of an entry, the camera (only its failure to
be sent matters), operations on the same layer twice in one publish, files of the
directory that cannot be read or removed. The clock ticks only while no publish is
under way, because a publish takes seconds and minutes and the ages are a day and
ninety days. Times of the tags decide which documents are swept first; ties are
broken either way.

### CallerTokens

`tokens` is everything that was signed: a token is the record of its claims, and
whoever got one may present it. `SignIn` is the platform (external), `MintMcp` is
`POST /mcp/token`. A call goes `Arrive` (the door's check), `LookUp` (the tool, and
what the door offers; at `/mcp` a second look at the token), `InvalidArguments`,
`Exchange` (the tool's token), `ToolReturns` or `ToolFails`; then `Note` at `/tools`,
or at `/mcp` `Publish` (the exchange for the live document and what comes of it). `Tick` may come between
any two of them. Without a platform secret (`gated` false) the same doors let
everybody through. Signatures are external: a token is what was signed.

### AgentRun

The thread (`Connect`, `ReadLine`, `ThreadFails`, `AnswerEnds`) puts events into
`queue`; the stream (`Start`, `TakeEvent`, `Keepalive`, `Close`, `CloseRaises`)
takes them out and appends AG-UI frames. `BrowserGone` may come at any time, and
the thread goes on. A line of sibyl's answer is one of a few records that say which
event it is, whether it names a layer file, tells a map or announces one that is
only planned. Whether a map is inferred from the trace is a choice, and may raise
(`CloseRaises`).

### CallerFiles

A request is an upload or a drawing; the routes run on one event loop, so what
lies between two awaits is one step (`Receive`, `Open`, `Save`, `Unpacked`,
`List`, `Draw`), and every refusal is a step of its own. `disk` maps a place
(directory, folder, stem, suffix) to what is there; the catalogue is the file
`catalogue.json` of the same directory, which a dataset called "catalogue" can
take the place of; then every load of that catalogue fails. What the runs say of
datasets that stay listed is therefore said of callers who never uploaded a file
called `catalogue.json`, and of bearers that last as long as their request: the two
cases that are left out are stated apart (`UploadsKeepTheirList`,
`ListedBesideItsFile`, section 4): the code loses the list, or puts an entry into
another one. `Dir` is worked out again at every use, as in the code, and
`TokenEnds` may come between two uses. The sweep is a thread: `LookAtAge`,
`RemoveSwept`, `RemoveIfEmpty`. `Age` makes everything old at once. Whether a
budget has room is one of two outcomes. What is under a name is told apart by the
request that wrote it last (`by`) and by whether another wrote into the same file,
or the copy broke off (`whole`).

### WorkflowManifests

One caller, and a record of plans that forgets nothing (what it forgets is
`PlannedManifests`'). `PlanWorkflow`, `ApproveWorkflow` and `RunWorkflow` confine
the manifest they are given, each at its own time, with `FileAppears` and
`FileGoes` between them. A path is the sequence of its parts; `ConfinePath`,
`ToolInputPath` and `LayerSearchDirs` are the code's lookups over the files that
exist, and `OrderSteps` is its stable sort. `shown`, `posted`, `wrote` and `report` are what the user saw, what geodukt
was sent, what it wrote, and what the tool then offers.

### QgisSession

Threads of one process ask for the session: `EnterLock` (with the checks that
follow it), `ImportFails`, `Build`, `InitFails`, `Start`, then what the three tools
do with it. `session` and `failure` are the module's two remembered values. Which
algorithms and parameters `run_qgis_algorithm` refuses, before QGIS starts or after,
depends on no state and is left open. QGIS is external: it may fail at three places,
and building it twice would kill the process.

### Shares

`CreateShare` and `SplitOne` each run `save_json`: `OpenPartial`, `WritePartial`,
`Replace`, or `WriteFails`. A start moves the keys of the old file one by one
(`Start`, `SplitOne`, `UnlinkOld`); `Crash` may come between any two steps, and
leaves the partial file behind. What a share holds is the id it was saved
under, whole or half written.

### ExternalPacing

Processes lock the file, wait, empty it and write the time (`Lock`, `Sleep`,
`Truncate`, `Record`), and may be killed at any step, which frees the lock.
Real time and the system's clock are apart by `offset`, which `SetClock` changes.
`turn`, `gap` and `misled` are history.

### EvalScoring, EvalSweep

`ScoreManifest` and `ScoreCalls` are the scorers, a check being a Boolean;
`ToolAccepts` and `ToolSends` are what `viewer_control` makes of the same call.
`Visited` is `depth()`, with the code's cache and its guard against cycles: what
it makes of the cache, as a function of the names that have been seen, since a
recursive function can be reasoned about and a recursive operator cannot
(`Visits`); `Depths` asks for each step in the order of declaration, and `SortedBy`
has a step after as many as come before it. What a format or an expected step uses up
is counted among those before it. `Upstream` is what a step reads, directly or through
others: all that is in every closed set. The sweep (`EvalSweep`) is
translated request by request: `CheckStack`, `PinActiveProfile`,
`AskActiveSession`, then for each run `CreateSession`, `ActivateSession`, `PostRun`,
the events of a turn (`ToolCall`, `ToolReturn`, `Leftover`, `EndOfStream`), for
viewer tasks a `FollowUp`, and at the end `Restore` and `Delete`. `Switch` is a
person who changes the session or the profile meanwhile, `Kill` the end of the
process. `named` and `allowCloud` are `--profile`, which the viewer tasks take, and
`--allow-cloud`. The profile is read for the check and again for the pin (`Seen`), and
sibyl may not tell it either time. A call of a turn is readable, that is it carries a
manifest, or it is not: then it is not queued, but its result is matched all the
same. The results of one tool come back in the order of its calls; those of the two
tools in any.

### SiteTools, LayerTools

Each tool is a function of a request, which says what is asked, what there is
and which sources answer; the action gives the answer. Batches, positions,
fallbacks, roundings and class boundaries are the code's; what a loop gathers is
written as what it gathers, for an order the i-th is the one that comes after i - 1
others (`InOrder`), so that both can be reasoned about. Of the addresses it could not
find `batch_geocode` gives the number and names the first five: `MAX_NAMED`, which the
proof takes to be any number. What a source did not give is 0 in a score. Scores are counted in
tenths, and a weight may be less than zero, as in the code. `BetterIsNeverScoredWorse`
is said of weights that are none less than zero, since for others less is better, and
of sites whose names tell them apart, since a row has nothing but its name. Geometry is reduced to what the results tell apart: sites and areas lie on
a line or in a plane of a few places, and Voronoi cells (external) are what their
definition says, for the points that `voronoi` adds of its own as well.

### Service, AgentParts, SharedParts, ResultParts, MCService

`Service` puts the eleven parts that share no state side by side, over variables
of their own; Init chooses the part that a behaviour is about. Their product would
show nothing more. It extends `AgentParts` (the door, the run behind it and the
manifests that runs plan and run),
`SharedParts` (the callers' files, the QGIS session, the shares, the pacing, sibyl
and its sweep) and `ResultParts` (the scores, the tools about sites and layers), each
with the constants, the variables and the instances of its parts and with what is
assumed of the constants: values that stand for nobody and for no file are not
names that are given, nobody is anonymous beside callers with a name (a deployment
has a secret or it has none), a file whose name is nothing but an extension is one
that the upload refuses, a person's session is not one of the numbers that a sweep's
own sessions have, manifests have the fields of a parsed one, the places of files
are finitely many, the path of a file that is there names no parent directory, a
shared set is flat (`natural_earth/<scale>/<file>`, as `download_natural_earth.py`
unpacks it), a golden task is about manifests or about the viewer, its arguments are
finitely many, sources, steps and sinks are lists, in tasks and in manifests, a call's `url` is not one of its plain fields, a feature has at most one
value and a region one label, the plane is finite and holds the boundaries, lines, sites,
criteria and samples are lists, what a source gives for a site is one whole number or
nothing, a pair of coordinates needs no geocoder, times and facilities are finitely many, lifetimes and bounds are
natural numbers. The three are apart from `Service`, and from each other, so that the proofs about a part see that part
and little else. `MCService` gives the inputs, which are in `MCServiceInputs`, each
chosen for a case that a property tells apart.

## 4. Runs

| run | instance | shows |
|-|-|-|
| `plans` | 1 caller, 2 texts, 2 threads, lifetime 0, 1 kept, 2 plans, a tick, a restart | no run rests on an expired plan; only what its caller planned and approved runs; until operations overlap, records are kept, no click carries over and an approval stands; refinement of `WorkflowApproval` |
| `pool_calls` | 3 calls, limit 1, 3 workers | exact count and limit, no lost wakeup, single use, bounded processes, answers agree with what ran, refill, shutdown |
| `pool_liveness` | 2 calls, limit 1, 2 workers, an ask | every call is answered |
| `tool_runs` | 3 runs, 1 subject, a midnight, 2 written files, 1 removed, limits of 2 runs and 1 byte | exact counts, daily limits, growth is charged, a spent budget refuses, one directory for a run in the executor |
| `live_publish` | 2 publishers, 2 documents, 1 layer, 2 files, 1 tick | what a document draws is there; files of a publish in flight are kept; nothing outlives the maximum age |
| `service_parts` | the parts of `Service`, 1.7 million states together | 18 properties, below |

`service_parts` by part:

| part | instance | shows |
|-|-|-|
| tokens | 1 subject, 1 call, 2 platform or MCP tokens, lifetimes 2 and 1, 2 ticks | `TokensNeverWiden`, `RunsByItsDoor` |
| run | 3 lines of the answer, 1 keepalive | `StreamWellFormed`, `MapOutlivesTheRun` |
| files | 2 callers, 2 requests | `StoredIsListed` |
| manifests | 1 caller, 2 plans shown | `RunsAsShown`, `ShownPlanIsItself` |
| qgis | 2 threads | `StartedOnce` |
| scoring | the listed tasks and answers | `PerfectIsThePipeline`, `PerfectIsWhatTheViewerRuns` |
| sweep | 2 sessions, 2 profiles, 2 runs, 2 calls each, 1 switch | `OneProfileMeasured`, `SibylLeftAsFound`, `AnswerWasAccepted` |
| sites | the listed requests, batches of 2, 1 address named, 30 cells | `EveryFigureIsItsOwn`, `BetterIsNeverScoredWorse` |
| shares | 3 ids, 3 old keys of which one is no id | `LinksKeepWorking` |
| pacing | 2 processes, spacing 2, real time to 4, clock set by 1 | `TurnsApart` |
| layers | the listed requests over a small plane | `EveryFeatureInItsPlace` |

Six runs must end in a counterexample, because the code does something its own
text denies:

| run | what the counterexample shows |
|-|-|
| `plans_lost_record` | a sweep drops a caller's empty dict between another call's `setdefault` and insert; the plan the user was just shown does not exist |
| `pool_raises` | a worker killed with a message unread or half written makes `recv` raise something other than `EOFError`; the caller gets a server error and no reason |
| `live_copied` | with entries that members copied (`CopyingSpec`), a republish or a reconcile deletes a file that another entry draws |
| `live_half_applied` | operations stand although the caller is told that nothing was written |
| `mcp_result_lost` | the caller's token ends while the tool runs; the exchange for the publication raises, and the tool's result is lost with it |
| `catalogue_swept` | the sweep of user data removes `catalogue.json` itself, which the design text says it leaves alone |

The first needs two overlapping operations of one caller, which the API permits.
The same race breaks two more of the store's promises, which the instance of
`plans_lost_record` shows when they are put in its place: a second plan of a text
lands in the dropped dict, so the run rests on the click made for the first
(`EarlierClickDoesNotCarryOver`), and an approval may mark a record that a
concurrent plan has just replaced and still answer that the run may go ahead
(`ApprovalStands`). `plans` shows, and `PlannedManifestsProofs` proves for any number
of threads, that all three hold until two operations overlap, so the interleaving
is the cause.

What the passing properties leave out is not left out because it is well. Four more
definitions say what the code's own texts promise there, and TLC finds each of them
violated when it is put in the place of `SweepLeavesTheCatalogue` in
`catalogue_swept.cfg`, the last two with `Parts = {"sweep"}`:

| property | the text | what TLC shows |
|-|-|-|
| `UploadsKeepTheirList` | `docs/architecture.md:65`: "`user_data/<caller>/catalogue.json` lists that caller's uploads" | `/upload` takes that name for a dataset too (`server.py:907`): it is written over the list, and each load of it fails from then on |
| `ListedBesideItsFile` | `docs/api_reference.md:67`: "into the caller's own directory, appended to their catalogue" | a token that ends while the body is read: the file is in the caller's directory, its entry in the catalogue of those without a token (`utils.py:376`) |
| `CloudIsOptIn` | `README.md:122`: "cloud profiles cost credits, so they are opt-in" | the check cannot read the profile, or somebody switches it after the check, and runs are on the cloud's without `--allow-cloud` (`runner.py:127`) |
| `OwnCallCounts` | `runner.py:255`: "Only a manifest whose own call came back without an error counts" | the result of a call whose arguments cannot be read is taken for that of the next of its tool, whose manifest is accepted or dropped by it (`runner.py:285`) |

`StoredIsListed` therefore speaks of callers who uploaded no `catalogue.json` and of
bearers that last, `OneProfileMeasured` of profiles that could be read, and
`AnswerWasAccepted` of turns whose calls all carried a manifest.

**Bounds.** Two threads suffice for the store because each race is between one
operation's two dictionary accesses and one foreign step; one kept record and a
lifetime of 0 make eviction and expiry happen with two plans. For the
pool, three calls with one slot are the least in which a newcomer takes the slot
that a waiter was just woken for. Three workers let every call of `pool_calls`
have one, or two calls have one with a spare; in `pool_liveness` the cap may
stop a refill, which no property of that run asks about. The ask of a record
operation is in `pool_liveness` and `pool_raises`. Starting a process is taken
to succeed. Symmetry over calls is used only in runs without liveness.

For the limits, three runs with limits of two are the least in which one is refused
while two overlap; two files let a run, or two, pass an output limit of one byte;
one subject is enough because nobody's runs are beside it, and the counts of
subjects do not touch each other.

For the documents, one tick makes every file of the epoch before old, and unused
unless something fetched or confirmed it since (ages of one and two ticks with
two ticks also hold, in 2.1 million states); two publishers give a stale snapshot and
housekeeping beside a publish in flight, and two files make one of them replace
the other. The publishes of `live_publish` join as members (`Joining`), and no
entry is copied, which `live_copied` shows to be a condition of `DrawnDataKept`.

For the parts of `service_parts`: calls of different tokens do not touch each other,
so one call is enough for the tokens, with a second token to be exchanged for the
wrong one; two ticks end either token before the other, or none. Three lines hold an
announced map, a tool bracket and an error. Two requests are the least that
interleave, and the two callers meet in the anonymous directory. Two plans shown let
one be taken for the other. Two turns of planning calls are the least in which a refused plan may be taken for an accepted one. Batches of two
and three sites give a batch that is full, one that is not, and one that fails
alone; with one address named, the second that is not found is only counted. Three shares give one in flight, one owed and one that the old file held.
With a spacing of two, real time up to four has three turns.

**Deadlock** is not checked: a behaviour ends when the bounded plans are used up
(store), when all calls are answered and shutdown is over (pool), when all runs are
over (limits), when a part of `service_parts` has given its answers, or never
(documents, where publishes come again; the setting is the same for all).

## 5. Fairness

Only the pool has a liveness property. `FairSpec` assumes weak fairness of each
call's own steps (a thread of the executor is scheduled), of the passing of each
deadline (clocks advance), and of the refill threads together. Nothing is assumed
of the workers: a tool may hang for ever. A waiting call is answered even if it is
overtaken every time, because its wait has a deadline.

## 6. Proofs

All theorems are about every value of the constants that the named assumption of
the module allows. Each rests on an inductive invariant: the property alone says
nothing of what a step relies on. One step of a proof treats one action.

**`PlannedManifestsProofs`**, from `StoreAssumption`:

- `TypeCorrect`: `Spec => []TypeOK`;
- `Safety`: `Spec => []RunsOnlyWhatItsCallerApproved`;
- `Refinement`: `Spec => ImplementsWorkflowApproval`;
- `NoExpiredRun`: `Spec => []NoRunOnAnExpiredPlan`;
- `KeptUntilItExpires`, `NoEarlierClick`, `ApprovedIsFound`: `Spec => []KeptInTurn`,
  `Spec => []ClickedInTurn`, `Spec => ApprovedInTurn`.

`Safety` needs `IInv`. `Located`: a thread that is not idle serves an operation, and
one that is storing a plan has a table of its caller. `Stocked`: what is in a
caller's dicts was stored for that caller since the last restart, one record to a
text; a record is known by its number; an approval is of a stored record, by its
caller and of its text. `Handled`: a thread past a successful lookup has one stored
record of its own caller and text in hand, and at the post its flag is set. The
refinement maps plans to `issued`, approvals to the flags that were set, and a
running post to the thread's own; all store steps that are neither an insert, a
mark nor a post are stutters of the abstract specification.

`NoExpiredRun` needs two more. `Fresh`: a dict that a `setdefault` has yet to place
is empty. `Looked`: what is in a dict that a call may still look in is timely, or
the call's own sweep has still to come to it; a call that looks does so after its
sweep, at the one time it read.

The last three need `InTurn`, which says until operations overlap that whoever is
in the store is alone there. It works on the dicts that `_planned` has (`InPlace`),
pops only what has expired, and what it found is still in place (`Grasped`). The
record in place is the newest of its text (`Newest`), every insertion goes last
(`Ordered`), an approval is over all that was stored of its text up to its plan
(`Covers`), and a record that is owed is in place (`Kept`): the record that eviction
takes has at least as many newer texts after it as are kept, which is an
injection from the rest of the dict into them. A run keeps the approval it found
over all that its user had been shown (`Rested`), however many calls come while it
lasts.

**`ToolWorkerPoolProofs`**, from `PoolAssumption`: `TypeCorrect`, `LimitHolds`,
`WakeupsKept` (`[]TypeOK`, `[]RunsWithinLimit`, `[]NoLostWakeup`); `SparesComeBack`
(`[]RefillOnItsWay`); `WorkersUsedOnce` (`[]WorkerUsedOnce`); `ShutdownMissesNone`
(`[]EarlyWorkersStopped`); `FewProcesses` (`[]ProcessesBounded`); `AnswersAreTrue`
(`[]AnswersMatchRuns`).

The first three share `IInv`. `Counted`: the calls that hold a slot are finitely
many and `running` is their number, without which a release could take it below
zero. `InLine`: a waiter stands once in the queue and is not also among the
notified, so that each notify adds one to the notified; `Woken`: the notified are
enough for the free slots. A call that takes a slot uses up one notified call at
most, and one that waits or gives up does so only when no slot is free.
`WorkersUsedOnce` needs `Once`: a worker is new, about to be appended, idle or a
call's and never two of these, and only a call's worker past "send" was sent a
run. `ShutdownMissesNone` needs `Locked`: only the holder of the refill lock has a
worker to append, and no call runs once shutdown has begun. `FewProcesses` needs
`Housed`: a worker whose pipe is open is with the refill thread, idle, with a call
past "take", or doomed; and `Roomy`: idle workers and the one that is being added
are no more than the slots, and so are the doomed, of which there are none before
the idle ones are cleared and no calls after. `AnswersAreTrue` needs `Working`: a
worker does, and says, only what follows from the run it was sent; and `Honest`:
from where a call is in its conversation it follows what its worker was sent and
may have done. Both rest on `Once`, by which the worker a call talks to is nobody
else's.

**`ToolExecutionProofs`**, from `ExecutionAssumption`: `TypeCorrect`, `CountsExact`
(`[]TypeOK`, `[]RunningExact`); `DaysKeepTheirLimits` (`[]DailyRunsWithinLimits`);
`FilesTogether` (`[]RemoteFilesTogether`); `OutputIsCharged` (`[]OutputCharged`);
`NoneOnceOver` (`NoRunOnceOver`).

`Exact` is `RunningExact` with what it counts finite: a count that is taken down
stays a natural number only because the run that takes it down was counted.
`Booked` carries the daily limits: the budget's day and amounts say what began
today (`Tallied`), and what the holder of the lock was told still holds unless the
day is over (`Admitted`), for which only one run may be between its check and its
record (`Guarded`). A run whose record falls on the next day finds an empty day.
`Filed`: a tool writes only once the executor has been told its directory.
`OutputIsCharged` needs `Awaited`: since the first measurement a directory has grown
by at least what an awaited run wrote to it, but for what was removed, and that is
what the second measurement finds; and `Charged`: the budget holds what the runs
that were settled on its day added, and a run that is about to be recorded was told
under the lock that it is not spent, from which `NoneOnceOver` follows. What was
added is counted as a set of pairs of a run and a number, so that no sum has to be
proved equal to another.

**`LiveDocumentProofs`**, from `DocumentAssumption`: `InFlightIsKept` (`[]InFlightDataKept`) and
`NothingIsLeftBehind` (`[]NothingLeftBehind`), and for members who remove entries but
copy none, `DrawnIsKept` (`[]DrawnDataKept`). The invariant is about whose a file is.
`Afloat`: a file in flight is of this tick, and nobody draws it, has it in a
snapshot or is to delete it, which needs that the tokens of tomorrow are not in use
(`Unminted`). A file belongs to one layer of one publish (`Unique`) and from then on
to one document (`Single`, `Snapshot`, `Located`). `InSession` says what a publish has
in hand at each of its steps, `Replacing` that what it replaced is drawn no more
once its frame is applied, and `Informed` that it knows of all its document draws
but for files too young to touch. So what a publish is to delete is drawn nowhere,
or at expiry not in its own document (`Condemned`), and expiry has in hand all that
was unused for too long (`Expiring`).

**`AgentProofs`**, from `AgentAssumption`, has an inductive invariant of each of its
parts. `CallerInv`: a token's claims follow from those of the token it was derived
from (`TokensSigned`), calls have the shape their phase says (`CallsTyped`), and a
call that was let in has a token for its door, a tool that the door offers and,
once it runs, a bearer of its own (`Admitted`). `RunInv`: what the frames, the queue
and the thread have between them is one run, open brackets included.
`ManifestsInv`: every text that a record of a plan is kept of has its paths under
the caller's directories or the shared sets (`Confined`) and was shown, in some
order of its steps, with those same paths (`ShownAs`), and what was posted has such
a record. A text is confined anew each time, over files that have changed, so that
what is kept is about the record of the confined text and never about the manifest
that was given; what `ToolInputPath` finds is under a root because each directory
that `LayerSearchDirs` names is (`SearchedIsUnder`, `ConfinedIsUnder`), and a sort or
an order that geodukt reports leaves the paths as they are (`StepsOfAManifest`,
`SortedPaths`). `StandsInv` is about confining a text a second time: each path on
record is settled (`SettledText`: no path but an empty one lies elsewhere than under a
root, and none has a `..` part), and files are where they can be (`FilesArePlaced`). A path under the
caller's own directories is kept by `ConfinePath` whatever the files are, a shared one
is looked up again, through directories of which the caller's come first, and is found
where it was when it is still there and no file of the caller's has its name
(`ConfineAgain`, `ManifestAgain`). That the order which geodukt reports lists no step
before what it reads (`InOrder`) is kept by the numbering of the steps
(`OrderedAsReported`).

**`SharedProofs`**, from `SharedAssumption`, does the same for five parts. `QgisInv`:
who starts QGIS holds the lock, found neither a session nor a failure, and leaves
one of them before it lets go. `LinksInv`: a share's file is never half written
(`NeverHalf`), what is owed is whole in its own file or still in the old one
(`Somewhere`), and the old file goes only when all its keys are moved (`Moved`), at
each phase of a start (`Phases`). `PacingInv`: one process is in the file's lock
(`OneInTheLock`), the record is of the last turn unless it was lost or the clock put
forward (`Recorded`), and who holds the lock sleeps until the spacing after what it
read (`Rested`). `FilesInv` is what it takes that a listed dataset, once its file is
gone or torn, cannot look untouched again, or it would have to be listed again:
nothing is in two places, only a catalogue is the server's and a folder holds
layers (`DiskOK`), what is on the disk was written by a request that has come that
far (`Known`), and what an answered request listed is in its place alone, under a
name that is not unpacked (`OnlyThere`). Every step either is one of those that the
lemma `NothingListed` describes by where the files come from (`ComesFrom`) and what
the requests go on to (`Onward`), or ends in `Listing`; there a replaced entry has
the name of a later dataset of the same caller, also when the bearer ended and the
dataset went to the anonymous directory. Of a sweep over sibyl, `StackInv` (`SweepTyped`, `Pinned`: runs are measured under the
profile that the report names; `SessionsListed`: a session that the sweep made is
listed once or just created, so that each is deleted; `UserKept`: the session to
restore is the one that the person last had), and `TurnInv`: the accepted answer is
the last call that returned without a refusal.

**`ResultProofs`**, from `ResultAssumption`, `LayerAssumption` and `SiteAssumption`: `ScoringInv` says that a result is the score
of the answer for the question, so that what is to be proved is about the scorer and the
tool. What `call_arguments` reads from a call that the tool accepts, and that writes
nothing twice, is what `viewer_control` sends to the viewer (`ReadIsSent`): the object may
be in `args` or in `url`, and a plain `url` is a parameter of its own. The checks of a call
all pass exactly when it has the task's name and every argument it asks for
(`CallIsScored`), which goes through the arguments one at a time (`KeysInTurn`), and of several calls the
one with the greatest share of passed checks is taken, so that a full score is that of
some call (`BestIsScored`).

Of a manifest it is longer, because the scorer sorts before it matches. `depth()` visits
names, and what it has not seen gets less with each visit, so that `Visits` is a
function and not a choice among none (`LeftGetsLess`, `VisitsHold`). In a graph that
can run, a visit adds to the cache only depths that are right, each more than what its
step reads, and keeps the ones that are there (`Cached`, `Keeps`, `VisitKeeps`); so a step
ends up deeper than all it reads, directly or not (`DepthsHold`,
`UpstreamIsLessDeep`), whatever the order of declaration. The sorted steps are the
declared ones in an order that goes deeper (`TopologicalHolds`), of which there is
one (`SameOrder`), and the pairs take a step of the right operation once
(`MatchesTake`). The checks all pass exactly when each group does
(`PipelinePasses`). Then a full score gives a step for each expected one, none before
what it reads (`PerfectHasCast`), and a chain of just those steps, each deeper than the
last, is sorted into the order that is expected (`ChainIsPerfect`).

`LayersInv` is the same for the tools that make layers, of which each answer is a
lemma: `RegionShowsItsOwn`, `ComparedIsBoth`, `EachIsCounted`, `CellsAreOfTheNearest`. A sum
is one element after another whichever is chosen first (`SumTakes`), so that sizes of
sets that do not overlap add up (`SumOfSizes`) and a mean lies between bounds
(`SumBetween`). Of `voronoi` that is what its mirror points rest on: the points lie
about their mean, no further than what is clipped to is long (`AboutTheCentre`), so
that the mirrors, three times as far, are further from any place in it than the points
are (`MirrorsAreFurther`), and from no point all of the others lie on one side
(`NoneIsInfinite`), which is why its fallback to the whole boundary is never taken.

`SitesInv` is that for the tools about sites. A batch gives each of its places what
was asked there or nothing (`BatchedHolds`), an order of finitely many things has each
of them once (`InOrderHolds`, `AscendingHolds`), a site's elevation is
asked for in one batch (`StartIsOne`), and sites keep their records when
they are resolved (`ResolvedSites`); from these follow `GeocodedOwn`, `IsochronesOwn`,
`TradedOwn` and `ScoredOwn`, one for each tool that saves a figure for a site. That
better is not scored worse goes through the rounding: half to even does not turn two
fractions of one divisor round (`HalfToEvenHolds`), so a normalised score and, sums
keeping the order of their parts (`SumsKeepOrder`), a weighted total do not
(`TotalsGrow`, `ScoredBetter`). `GapsBetter` says so of the cells, with what the coarser
grid leaves out (`CellsHold`, `ResolutionHolds`), and `RiskBetter` of the flood score, which grows with
each sample that gets lower and with nearer water (`FloodScoreGrows`, `HighGroundIsSafe`).

**`ServiceProofs`** carries these over: a step of `Service` is a step of one part and
leaves the others alone (`PartSteps`), so the part's invariant is one of the service.
`TokensAreNeverWidened`, `EveryRunCameByItsDoor`, `StreamIsWellFormed`,
`AnnouncedMapIsSent`, `RunsWereShown`, `ShownPlansStand`, `StoredStaysListed`,
`OneApplication`, `NoLinkIsLost`, `TurnsAreApart`, `OneProfileIsMeasured`,
`SibylIsLeftAsFound`, `AnswersWereAccepted`, `ViewerScoresAreTrue`,
`ManifestScoresAreTrue`, `FeaturesKeepTheirPlace`, `FiguresAreTheSitesOwn` and
`BetterSitesScoreNoWorse` state all of the properties that `service_parts` checks, for
any tools, events, manifests, uploads, threads, ids, processes, sessions, profiles,
tasks, calls, sites and layers. What they leave out is part of the property, and so
of the theorem: `TokensAreNeverWidened` bounds a tool's token by the one it came from
but an MCP token by no sign-in, since the code gives it a lifetime of its own;
`StoredStaysListed` has the two conditions of `StoredIsListed`; `AnswersWereAccepted`
is about turns whose calls all carried a manifest, and results that keep the order
of a tool's calls.

**Only model-checked.** Liveness under fairness (`EveryCallAnswered`) is outside the
prover's reach.

## 7. Not modelled

- The order keys, style and camera of a published entry, and agora's batching by
  size: what a frame draws is modelled, not how it looks or how it is cut. Two
  publishes into one document may so choose the same place in the order, which no
  property speaks of.
- The confinement of a QGIS algorithm's parameters: a function of the parameters and
  the files, by which a call is refused or goes on.
- The executor's bearer check and the registry of tools: they change no state
  after the start.
- The agent manager, the workflow inferred from a trace and the viewer's state:
  text put together from its inputs. That a map may be inferred, or its inference
  may raise, is a choice in `AgentRun`.
- Map exports: two slots in a set on one event loop, taken and given back by one
  context manager. Model downloads: reads.
- The sweep of `outputs/`: the loop of `CallerFiles`' sweep over files whose
  writers are in `ToolExecution` and `LiveDocument`.
- The other geospatial tools: sequential functions over files and remote
  services whose geometry TLC cannot compute. What they may do to the rest of the
  system (ask, write, hang, die) is in the pool and the stores.
- The viewer page: browser code, of which only the requests matter here.
- The tool sweep, the evaluations' tables and samples: harness output.
- HTTP, JSON, TOML, token signatures, sibyl, geodukt, agora, QGIS and the services
  that the tools ask are external: what they may answer is a choice.

`PROJECT.json` lists each part with its status, and the hazards with the
properties that cover them.
