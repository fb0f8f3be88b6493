# A verification project for robo-fleet

robo-fleet runs a software company of LLM agents. A FastAPI process keeps the company's tasks in
Postgres, an orchestrator in the same process starts agents as containers, and the agents act on
tasks only through a *gateway* of verbs (`i_will_work_on`, `open_pr`, `i_am_done`, `pass_review`,
`cell_pm_complete`, ...). GitHub holds the branches and pull requests, Redis Streams the events.
This directory holds TLA+ modules for the parts of it where order, concurrency and failure matter,
TLC configurations that check them, and proofs that TLAPS checks.

All paths below are relative to the repository's root; line numbers are those of the commit the
modules were written from. `PROJECT.json` maps every definition to its lines.

## The system

### Components, their state and their operations

| Component | State | Operations | Modelled by |
|---|---|---|---|
| Task lifecycle: `robofleet/services/task.py`, `services/gateway/choreographer/*.py`, `foundation/policy/lifecycle.py` | the `tasks` row: status, `assigned_to`, `claimed_by`, `active_claimant_id`, the pre-block snapshot, `pr_created`, `docs_complete`, branch | about forty verbs and routes, each a transaction | `TaskLifecycle` |
| Pull requests and merging: `services/git.py`, `services/work_session.py` | GitHub's pull request, the work session's `pr_status` | create, merge, close, rebase, "is it merged?" | `TaskLifecycle` |
| Stale-claim reaper: `runtime/orchestrator.py` | heartbeats | sweep, force-unclaim | `TaskLifecycle` (`Reap`) |
| Event bus: `robofleet/events/stream_bus.py` | Redis: the stream, the group's pending list, `bus:processed:*` markers; two coroutines | publish, read, reclaim, handle, acknowledge, park, stop | `StreamBus`, `AtLeastOnce` |
| Claims under concurrency: `db/base.py`, `services/gateway/claimant_lock.py`, `services/task.py` | sessions with identity maps, row locks, advisory locks per agent, per task and per parent | fetch, lock, guard, write, commit, cancel | `ClaimSessions`, `MidVerbCommits` |
| Dependency graph and sequencing of subtasks: `services/sequencing.py`, `services/task.py` | `dependency_ids`, `completed_dependency_ids`, `sequence` | delegate, wire, claim, prune, hand over, block, cancel | `CollisionDag` |
| Orchestrator's spawn, stop, health and probe loops, Cloud Run executor, rate-limit tracker: `runtime/orchestrator.py`, `llm/providers/cloudrun_jobs.py`, `services/gateway/rate_limit_tracker.py` | agent instances, waiting records, parked providers in Redis, executions | spawn, stop, health-check, park, probe, resume, restart | `AgentSpawns` |
| Release proposals and executor: `services/release_proposal.py`, `services/release_executor.py` | the proposal row, a Redis mutex, a clone, the production branch, the tag | approve, reject, execute, sweep | `ReleaseProposal` |
| X and video posts, PR gate, workspaces, notifications, panel, infrastructure, billing, knowledge stores, board programs, event handlers | | | not modelled |

### How they interact

An agent's verb is an HTTP call into the gateway. The choreographer checks the caller's role and
the task's status against `lifecycle.py`, runs the verb's guards, calls `TaskService` and
`GitService`, and the request's database session commits at the end. The CEO's panel calls routes
under `api/routes` that reach the same services with fewer guards. The orchestrator's loops read
the same rows: they start an agent for a task that waits for it, and take back the claim of an
agent that stopped breathing. GitHub is written inside verbs and no transaction covers it.

### What is hard

* **Sequences of legal calls.** Blocks, escalations, restores, releases, reworks and reassignments
  compose freely, and each one moves some of five ownership columns. Most of what went wrong in the
  repository's own history (F018, F043, H5, H7 in its comments) is a sequence nobody had thought of.
* **Crash between two systems.** GitHub merges, then the row is committed.
* **Stale state.** Snapshots, flags and locks that outlive the phase they belong to.
* **Interleaving.** Agents, the CEO and the reaper work on the same row, each in a session that
  goes on reading what it fetched first; a verb that commits in its middle gives its locks up there.
* **Awaits.** The orchestrator's coroutines spawn, stop and resume one agent over one another, and
  every await is a place where what was checked may have changed.
* **Delivery.** Two loops share a pending list, the idempotency guard decides before a handler runs
  what it means after, and the process may die or stop anywhere.

### What makes each part correct

* Lifecycle: nothing is completed that QA has not read and the base branch does not hold; whoever
  works on a task can write to it and nobody else can; a restore returns to where the block found
  the task; a finished task stays finished; whatever is in a queue can be picked up from it.
* Merging: GitHub's merge and the row agree in the end, through crashes and retries.
* Claims: one active task per agent, one claimant per task, whatever the interleaving; what a verb
  creates once (a pull request's milestone, a planning subtask) is created once.
* Dependencies: the plan has no cycle; subtasks that touch the same files are not at work together;
  a queue never stands still.
* Orchestrator: one execution per agent; what the registry calls stopped has stopped; a parked agent
  is resumed.
* Release: one version bump, a tag contains a release commit that was green, a closed proposal is a
  published one, a rejected one stays rejected, and the mutex is always freed.
* Event bus: an entry is acknowledged only when every handler has handled it; a handler that
  succeeded is not called again; what fails is retried until it succeeds.

`PROJECT.json` lists every hazard at its line, with the properties that would catch it.

## The modules

### TaskLifecycle

One leaf code task is one row, one pull request and one branch. `task` holds the columns of the
row the verbs read or write, `forge` the state of the pull request on GitHub. The branch is two
facts: `unread`, the tasks whose branch has developer commits no QA pass has read, and `unmerged`,
the tasks whose branch has commits its base lacks. `rest` is history: the status and owner a
blocked task had when it was blocked.

The module has two layers, as the code has. The *row operators* (`FinalizeClaim`, `Escalated`,
`Restored`, `SubmittedForQa`, ...) say what one `TaskService` method writes to a row. The *actions*
say who may call it when, and what else the verb does: `IAmDone` is the choreographer's `i_am_done`
with its status and pull-request gates, `submit_for_qa` and the best-effort hand-over to a QA
agent. A verb is one action because it runs in one transaction and takes the row `FOR UPDATE`; the
exception is a merge, where GitHub is written first: `CompleteCutShort` and `CeoMergeCutShort` are
the process dying between the two.

Thirteen entrances to the row are not needed by the agents' ordinary work, and the constant `Enabled`
switches each on. They are all code of the repository; they are switched so that a property the code
does keep under the agents' verbs can be stated, and a path that breaks it can be named. `HeadLeaves`
are the tasks whose pull request targets the CEO-only head branch.

| Path | What it is |
|---|---|
| `plain_unblock` | `POST /unblock`, or the verb with `restore=False` |
| `divert` | the main PM escalates above itself: the task goes to the pool with its snapshot |
| `http_start` | `POST /start` by the assignee |
| `http_create_pr` | `POST /git/pr/create`, which does not ask whether there is a pull request |
| `http_merge` | `POST /git/pr/merge`, or `POST /complete` of a task in PM review, by a PM |
| `merge_blip` | GitHub unreachable while a merge is verified |
| `http_submit_pm_review` | `POST /submit-pm-review` by the assignee, a developer too: past QA, nobody on record |
| `http_submit_qa` | `POST /verify` and `POST /submit-qa` by an assignee of any role, who is recorded as the developer |
| `http_docs_complete` | `POST /docs-complete` by any documenter, of claimed work and work in progress too |
| `http_qa` | `POST /pass-qa` and `POST /fail-qa` by any QA, whoever claimed the review |
| `http_complete` | `POST /complete` of a PM's own task in progress |
| `http_escalate` | `POST /escalate` of any task by a developer, QA or documenter |
| `http_claim_review` | `POST /claim` of a task in a reviewer's queue, which the doc dispatcher also calls |

Always on beside the agents' verbs: the reaper, the dispatcher's `assign_review_pm`, claims on a
developer's behalf, the CEO's decisions and cancel. The CEO's and the panel's pause and resume are
covered by the assignee's, as work at rest or under way always has one.

These writes of the row are *not* in the model, and nothing here speaks of them: those that go round
the status validator and the verbs (`PUT` and `PATCH /tasks/{id}`, `/substitute`, `admin_set_status`
by the CEO or the Secretary, `DELETE`, the budget sweep's block); everything about dependencies
(`POST /block` on one, the revival of dependents), as the task has none; claims of a pending, claimed
or rejected leaf by or for an agent who is not a developer, and a cell PM's `POST /claim` of a task in PM
review; activation from the backlog and approve-and-start, which makes a leaf the main PM's; the main
PM's own submission for PM review, which goes to the product owner; a merge on GitHub by number,
without its task; the waiver of a pull request. `POST /escalate-to-ceo` refuses subtasks, which leaves
are.

Abstracted away: plan, journal and self-verification gates, budgets, sequencing guards, the
documenter's own commits, heartbeat times (a claim may be found stale at any moment), the
oscillation breaker (round trips are unbounded here, which only adds behaviours). `backlog` and
`awaiting_pr_review` are not statuses of a leaf code task once it is activated.

Things the model shows and no run is kept for. A crash behind GitHub's merge leaves a task whose
pull request is merged and whose session was not told: `complete()` refuses it from then on, although
`cell_pm_complete` means to skip the merge call on a retry (`_impl.py:7929`); `CompleteCutShort` and a
pull request closed as superseded both end there. And with the optional entrances on, some properties
of `leaf_agents` are false ("The proofs" says which): `POST /git/pr/create` moves a reworked task whose
`docs_complete` is still set past QA (`http_create_pr`); `POST /submit-pm-review` takes a developer's
unread commits to PM review with the developer's lock still held, and nobody on record to send a rework
to; the main PM's divert lets a later restore skip QA; a plain unblock
re-owns the row and leaves the lock; two block and restore round trips of a task in `awaiting_qa`
give the PM the lock, which `docs/rag/workflows/qa-review.md` expects to be free. They are reachable
in the model by putting the path's name into `Enabled`.

Places where the code is at odds with itself, met while modelling and modelled as the code is:
`submit_for_pm_review` says "Only PM roles, QA, and Documenter can use this method (not developers)"
(`task.py:7181`) and checks no role, nor do the transition (`lifecycle.py:383-388`) and the route;
`self_review_block` compares the recorded developer's id with the caller's slug
(`lifecycle.py:1758`), so the verbs' self-review check never refuses, while the routes compare two ids
(`NotOwnWork`); `ceo_reject` leaves the reviewer's lock on a task it may give to nobody, which is why
`PoolIsUnlocked` sets rejected tasks aside; the doc dispatcher's claim (`_auto_assign_doc`) goes through
the route for work claims and moves `awaiting_documentation` to `claimed`.

`ReviewedDelivery` is the abstract specification: developers write, QA reads, and only what is read
lands on the base branch or is delivered, after which nothing happens to the task. `TaskLifecycle` maps
to it by `outcome <- "delivered", "dropped" or "open"`, from the status, and by its own `unread` and
`unmerged`; `DeliversReviewedWork` is the refinement.

`TaskLifecycleInv` states the inductive invariants, `MCTaskLifecycle` the instances for TLC.

### AtLeastOnce and StreamBus

`AtLeastOnce` is the promise of the bus's docstring: events are published, handled in any order,
and settled only after every handler. `StreamBus` is the code: one Redis stream with its consumer
group (`published`, `oldest`, `delivered`, `pending`, `idle`), the markers of the idempotency guard
(`marks`), and the two coroutines. `queue` is what a loop has read, `hand` the entry in
`_handle_message`, `step` how far it is, `phase` how far `asyncio.gather` is with each handler. An
`await` on Redis or on a handler is where the coroutines interleave, so each is an action of its
own. Redis ids grow, so an entry is the number of its publication and "in order" is "smallest
first". `done` and `lapsed` are history: which handlers returned, and which markers Redis could not
keep (expired, or never set because the guard failed open).

`Enabled` switches on `kill`, `slow`, `redis_down`, `expiry` and `cancelled`; failing handlers,
shutdowns, restarts and trimming are always on. `StreamBus` maps to `AtLeastOnce` by `handled <-
done, settled <- acked`. Two details a reader may stumble over: `recover_pending` at boot runs
before any handler is registered (`bootstrap.py:119-123`), looks at no stream and is therefore
absent from `Restart`; and an error of the XACK of an undecodable entry is outside any `try` of
`_handle_message`, so that it ends the whole batch (`GiveUpPass`).

Abstracted away: several streams (they share nothing but the two loops), the payloads, the retry
pauses, the re-creation of a deleted group.

### ClaimSessions

Where `TaskLifecycle` takes a verb as one step, `ClaimSessions` takes it apart. `row` is what is
committed; a request in `call` has `seen`, the row as its session fetched it first. Sessions are made
with `expire_on_commit=False` and no query asks for `populate_existing`, so a `SELECT ... FOR UPDATE`
waits for the other transaction and then hands the old attributes back; `Flushed` writes the columns
that differ from `seen` and no others. The row lock (write to commit) is the atomicity of
`CommitRow`; the advisory key of the claiming agent (`acquire_claim_lock`) is `key`, held to the end
of the request. `i_will_work_on` takes it after the fetch and before the guards; `resume`,
`claim_on_behalf` and `claim_review` take none. `unguarded` is history: the developers whom a request
without their key left with a task in progress. `needs_revision`, pull requests and blocks are left
out.

### MidVerbCommits

The two verbs that create something once under a transaction-scoped advisory lock and commit before
they are done. `open_pr` holds the task's key until `_record_pr_atomically` commits the number, and
reports its milestone after it; `delegate` holds the parent's key, and journals a decision, whose
commit (`journal.py:262`) gives the key up before the dedup read. `unguarded` are the parents this
happened to. Two delegates can then both find no planning subtask, and both create one, against
`task.py:4648-4652`, "held until the outer request transaction commits"; `OnePlan` is claimed of the
other parents. `Cancel` is `FlowVerbTimeoutMiddleware`, a `lock_timeout` or a lost connection, at any
step.

### VersionRelease and ReleaseProposal

One held proposal, its approve and reject calls, the Redis mutex and the executor. The forge is the
sequence `prod` of commits on the production branch, `green`, the positions whose CI succeeded, and
`tag`. `clone` is the one directory every execute uses. Each stage of `release_executor.execute` is an
action: find the tag, look for a release commit in `git log -n 50`, edit, gate, push, wait for CI,
publish; push and publish may succeed and lose the answer, and a call may be cancelled by its
heartbeat (`HeartbeatCancels`) or die with the process (`Restart`) at any of them. `Expire` is the TTL:
of a key nobody renews any more, or during a Redis outage at a stage in `MayOutlast`. The module
assumes that only waiting for CI and publishing outlast the 3000 seconds; the git commands before them
take seconds. If they could, a second approve would `rm -rf` the clone under the first one before its
heartbeat notices.

`VersionRelease` is the abstract specification: one release commit, its green run, one tag that is
never moved, and COMPLETED only over a tag. `ReleaseProposal` maps to it by the release commits on the
branch, those of them in `green`, `tag` and `row`. Declining is possible at any time there, as it is in
the code, even over COMPLETED: a reject that read the row before the approve closed it commits later.

Known and not held by a run: with fifty commits pushed by others between a release commit and its
retry the log window misses it and the version is bumped again; a `git log` that fails reads as "no
release commit"; the tag is put on the tip of the branch (`target_commitish=default_branch`), which
contains the green commit and need not be it; a process that dies after COMPLETED drafts no posts.
`x_post_service.reject` gives its mutex up before its route commits, as this one does.

### CollisionDag

The code subtasks of one cell task, in one repository. `siblings[n]` is the n-th delegated row with
its wave (`sequence`), declared surface, owner, and its two dependency lists; `in_review` stands for
everything from `awaiting_qa` to `awaiting_pm_review`. The analyzer is pure (`FileOverlapEdges`,
`SharedLastEdges`, `MigrationChainEdges`, `LaneEdges`, `Analyze`, `ExtendAcyclic`), `Delegate` writes
what it says of all siblings, as `wire_sibling_collision_dag` does, and `Claimable` is the three bars
of a claim: unmet dependencies, the wave barrier, the lane barrier. `upfront` is history: every
delegate found its siblings pending or cancelled, the way a PM fills a queue before work begins.
The proviso is needed. A subtask delegated after work began makes an earlier sibling that is in
progress depend on it, and both run, against `task.py:9487-9493`.

Other known deviations: the fourth delegate into one lane or overlap is refused with a ConflictError,
against `sequencing.py:346-357`; a shared-last edge against the lane order holds two subtasks behind
one another, as `dev_queue` shows for waves; migrations are chained pairwise only; wiring again re-adds
an edge to a completed sibling, so that a blocked dependent's list never empties and only the PM's
unblock revives it; a reassignment looks at no other task of its new developer. Left out: claimed rows
that were never started, edges across cells and root tasks, priorities, the auto-block of pending rows.

### AgentSpawns

The orchestrator's agents on the Cloud Run path. A spawn registers a new instance; `<<a, k>>` is one of
agent `a`, `inst` the registered one, `state` its `AgentState`, `run` its execution. `call` is a
`spawn_agent` coroutine of a dispatcher, of the health loop's crash retry or of the probe loop, `stop` a
`stop_agent` or an `i_am_blocked(rate_limited)`, `health` and `probe` the two loops, `confirm` the
sleeping liveness checks of a resume. An await is a step boundary, and what lies between two awaits
is one step: the check under the lock, the tracker's gate, the second check, the preparation under the
lock, the second gate, `run_job`, and the resolution of the execution's name. `record` and `durable`
are a parked agent's waiting record in memory and in the database, `limited` the providers the tracker
lists. Any write to Redis or to the waiting table may fail, as the code swallows it. `unwatched` is
history: executions let out of sight, because they were stopped while starting, not named by Cloud
Run, or running when the orchestrator died.

Some steps are merged where the merge loses nothing: a gate that passes with the recheck after it (the
gate fails open when Redis does not answer), a record with its row, activation and record of the health
loop's park. A pass over nothing is left out, and instance numbers are used again when nothing refers
to them (`IsHeld`). Left out: the docker providers, the Kimi cap, interactive agents, the reaper's
eviction, other reasons to wait, and the `error_count` cap of crash retries, which never bites as
every instance starts at zero.

Known and not held by a run:

* An execution's own limit report parks `gemini` (`orchestrator.py:11580`); the gate of the next spawn
  reads `adk_cloud_run`, and spawns.
* A cancellation that fails leaves the instance STOPPING for good, and its agent is never spawned
  again before a restart; the docstring at 6520 expects otherwise.
* `error_count` is per instance, so a crash loop never escalates, against `docs/architecture.md:19`.
* After a restart `_readopt_running_agents` asks `docker inspect` and finds no Cloud Run execution, so
  the agent is started a second time, against "no double-spawn" in `start()`.
* The reaper evicts an instance without cancelling its execution: `remove` of the provider does nothing.
* The orphan fallback is said to work "even when Redis is down" (11176-11178); `_on_probe_success`
  awaits `tracker.clear()` first, which raises then, and nothing is resumed until Redis answers.
* With the docker providers, `_remove_container` and `provider.remove` call one another
  (`orchestrator.py:3872`, `llm/providers/kimi.py:156`).

## The runs

| Run | Question | Result |
|---|---|---|
| `leaf_agents` | under the agents' verbs, the reaper, the CEO and crashes: reviewed before completion, merged before completion, lock with the worker, review frozen, restore exact, a developer to send a rework to; does the lifecycle implement `ReviewedDelivery`? | pass, 2,303 states |
| `leaf_all_paths` | a leaf that only the CEO may merge, with every modelled path: what none of them breaks | pass, 5,021,324 states |
| `bus` | failing handlers, a restart, trimming: is everything acknowledged handled, does the bus implement `AtLeastOnce`, is everything acknowledged in the end? | pass, 48,110 states |
| `bus_all_paths` | the same with kills, slow handlers, Redis failures, expiry and self-cancelled handlers: guard and pending list | pass, 1,050,093 states |
| `claims` | requests that claim, resume, submit, unclaim and reap on stale rows: can a developer get two tasks in progress past the key? | pass, 1,739,489 states |
| `mid_verb` | `open_pr` and `delegate` committing in their middle: is anything created twice, does any request wait for ever? | pass, 17,046 states |
| `release` | two approves, a reject, a restart, outages and lost answers: one bump, tags over green, honest closing, free mutex; does it implement `VersionRelease`? | pass, 277,120 states |
| `collisions` | three subtasks in every order of delegates, claims and reviews: acyclic plan, ordered overlaps, none at work together | pass, 487,163 states |
| `spawns` | one agent spawned, stopped, parked and resumed from four coroutines, with faults: one execution, nothing running unwatched, parked agents revived | pass, 728,859 states |
| `review_race` | does a second claimant of a review see the first one's claim? | no |
| `reject_race` | does a rejected release stay rejected? | no |
| `dev_queue` | does a queue of undeclared subtasks of one developer move? | no |

Each of the last three checks one statement that a docstring or a comment of the repository makes;
`PROJECT.json` quotes it under "findings". In `review_race` two QA agents fetch one unclaimed review,
and the second, having waited for the row, decides on the attributes it fetched before the wait. In
`reject_race` an approve passes its precheck, a reject flushes CANCELLED and frees the mutex, and the
approve takes it and publishes. In `dev_queue` the second subtask depends on the third by the order the
wiring saw, and the third waits for the second by lane.

Every property of a passing run has a mutant in `PROJECT.json`: a fault of one definition, written
beside it in the module, that makes TLC find the property violated.

### Bounds

A lifecycle run has one task, two developers, one or two QA agents, one documenter. The verbs of
one task read no other task except for the one-active-task guard, which `claims` checks. Two
developers are enough for a lock or a snapshot to point at the wrong one; they are interchangeable,
so the runs use symmetry. Nothing is counted, so no bound cuts a behaviour off: the state spaces are
finite and complete. `CHECK_DEADLOCK FALSE` is set for these runs because a completed or cancelled
task really is the end.

The bus runs publish three entries (one undecodable) or two, for two handlers: enough for a batch
larger than one, a reclaim window smaller than the pending list, a replay with one handler skipped
and one re-run, and a trim of a pending and of an undelivered entry. `MaxEvents` and `MaxRestarts`
(one shutdown or kill) are the only bounds; retries, ages and expiries are unbounded.
`CHECK_DEADLOCK FALSE`, because a bus with nothing left to deliver waits.

`claims` has two tasks, two developers and two requests, each running one verb after another without
end: a stale row takes two requests, a second active task two tasks, and a claim on behalf crossing a
claim two developers. `review_race` has one task, one developer and two QA agents. Both have
`CHECK_DEADLOCK FALSE`, as the verbs that would lead on from a reviewed task are not in the module.
`mid_verb` has one task and one parent, which share nothing, and three requests: one that holds the
key, one that waits for it and one that runs on without. Nothing is bounded there, and deadlock is
checked.

`release` has two approves and a reject, each sent once, one restart and one commit by others; the
window is two commits, so that a release commit followed by another's is still inside it (`MaxPushes <
LogWindow`, as fifty is to the few commits of a release day). `CHECK_DEADLOCK FALSE` there and in
`reject_race`, since calls end for good.

`collisions` has three subtasks, two developers, one file and every surface over it: three subtasks
are the fewest for a cycle through the tie-breaks and for an edge to be skipped by `ExtendAcyclic`.
Explicit `depends_on` is bounded to none in the run; the theorems cover it. `dev_queue` has one
developer and no surface declared. A parent whose subtasks are all finished is an end:
`CHECK_DEADLOCK FALSE`.

`spawns` has one agent, as agents share the lock and the tracker only, one dispatcher, one stopper, one
dispatch and two faults (an exit other than a clean one, a stop, a pushed limit, a refusal, a failed
preparation or launch, a restart). Three instance numbers suffice, since a number is free again when
nothing refers to it. A probe, a sweep, a lost write and a respawn are not counted. `CHECK_DEADLOCK
FALSE`: with dispatches and faults used up and nothing parked, nothing is left to do.

### Fairness

The lifecycle and the subtask queue state no liveness property. Every step there is taken by an LLM
agent or a human, and nothing in the code makes one of them act; a liveness claim would have to assume
what it claims. (`QueuesMove` is a state property: some step is possible.)

The bus does: `EventuallyAcked`, under the weak fairness of the two coroutines (the event loop runs
what is ready), of the passing of the idle time, and of a restart (`restart: unless-stopped` in
`docker-compose.yml`), and the strong fairness of each handler's return: a handler that is called
again and again for one entry does not raise every time. Without that last assumption an entry is
retried for ever, which is what the code intends; but 100 such entries fill the XPENDING window and
starve the others, a hazard listed and not yet a run. The run bounds the restarts, since a process
that is stopped for ever delivers nothing.

`CallsEnd` of `mid_verb` assumes strong fairness of each request: it runs on unless it waits for a
lock, and Postgres grants locks in the order they were asked for, so who waits is not passed over for
ever. `LockIsFreed` of `release` assumes weak fairness of a call that was sent (the event loop resumes
it, and every await of it carries a deadline) and of the key's expiry; of the forge and the CEO it
assumes nothing. `ParkedIsRevived` of `spawns` assumes weak fairness of the coroutines that have begun,
of the health and the probe loop, and strong fairness of a sweep that reads the tracker's list and of
the success of a probe: Redis answers again and again, and the elapsed time is all a probe waits for.
It excepts an agent whose execution could not be cancelled, which stays STOPPING.

## The proofs

The theorems hold for every value of the constants that the modules' own assumptions admit: agents
of different roles are different agents and `Nobody` is none of them; a stream has a finite,
non-empty set of handlers, and its batch, window and length are positive; the keys of tasks and parents
differ; approves and rejects are different calls, and only CI and publishing outlast the TTL; surfaces
are typed and owners of different kinds differ; callers, stoppers and agents are distinct. TLC
evaluates each of these assumptions.

`TaskLifecycleProofs` treats every choice of `Enabled`. The invariant is `IInv`: every row is
well typed and keeps four promises. The point of the strengthening is that *a snapshot is a promise
deferred*: a blocked task comes back to `pre_block_state`, so whatever a status promises (a branch,
a developer on record, a pull request) the row must already hold while only the snapshot names that
status. `docs_complete` is part of it because the flag outlives its phase. The proof has one lemma
per row operator (the row it returns keeps the promises if the row it was given does), one lemma
that a write of such a row keeps `IInv` (`LegalStepKeeps`), and one lemma per group of actions that
every action is such a write to a task that is not final. Type correctness, `PoolIsUnlocked`,
`WorkHasBranch`, `ReviewHasPullRequest` and `TerminalIsFinal` follow for every `Enabled`, and
`ReworkHasDeveloper` where no route puts a task under review without a developer on record (`ThroughQa`,
`DevOnRecord`).

`ReviewProofs` treats what some optional paths break, each theorem under all the others. Every exclusion
below is needed: on the instance of `leaf_agents`, TLC finds the property violated with that one path
switched on; only `http_submit_qa` breaks `ReworkOwned` in company, with a path that gives the work to
another than a developer, as `plain_unblock` does. The theorems speak of the modelled paths; of the
writes TaskLifecycle leaves out they say nothing.

| Theorem | Holds unless `Enabled` has |
|---|---|
| `ReworkOwned` | `http_submit_pm_review`, `http_docs_complete`, `http_submit_qa` |
| `ReviewedFirst` | `plain_unblock`, `divert`, `http_create_pr`, `http_submit_pm_review`, `http_docs_complete` |
| `MergedBeforeCompletion` | `plain_unblock`, `divert`, `http_merge`, `merge_blip` |
| `ReviewFrozen` | `plain_unblock`, `divert`, `http_submit_pm_review` |
| `RestoreExact`, `BaseInvariance` | `plain_unblock`, `divert` |
| `WorkersHoldLocks`, `WorkerInvariance` | `plain_unblock`, `http_start`, `http_claim_review`, `http_docs_complete` |
| `ImplementsReviewedDelivery` | any path but `http_start`, `http_submit_qa`, `http_qa`, `http_complete`, `http_escalate`, `http_claim_review` |

Two inductive invariants carry them. `WorkerInv` says of a task at work, and of a blocked one that
rests at work, that its owner holds all three ownership columns. `BaseInv` speaks of where a task
*rests* (its status, or its snapshot while blocked): in review, unless `POST /submit-pm-review` leaves
the developer with it (`SubmitHandsOver`), no developer may appear in any column an
unblock or a claim could take an owner from; only a blocked (or cancelled) task has a snapshot, the work
session is live, and, where only QA passes and only a merge ends a task (`OnlyQaPasses`,
`OnlyMergeEnds`), nothing past QA is unread and nothing completed unmerged. One lemma is worth a
reader's attention: `UnrecordedMergeRefused`, which says that under review `complete()` never accepts a
merge it was not told of. It is why completions are always merged, and it is also why a completion cut
short behind GitHub's merge cannot be retried.

`ImplementsReviewedDelivery` takes the steps by what they do to the branch. A commit writes, `PassReview`
reads, and a merge lands a task that rests past QA, hence read (`MergeEffects`). Every other step leaves
the branch alone, and what it does to the task's status is judged by the *next* state's invariant
(`QuietStepDelivers`): if it completes the task, then `BaseInv'` says the work was read and landed.

`StreamBusProofs` proves, for every `Enabled`, `TypeCorrectness`, `NothingIsForgotten`,
`HandlersRunAlone` and `HandledAtMostOnce`. The invariant is `GuardInv`: a handler at work has its
marker or it is known to have lapsed, and has not succeeded before. `TypeOK` alone is not
inductive (an entry that is acknowledged must be one that was read), hence `HandsKnown`. Under
handler failures, shutdowns, trimming and markers that may expire (`Enabled` within `{"expiry"}`) it proves
`AckedAfterHandling` and `ImplementsDelivery`, the refinement of `AtLeastOnce`. Each of the other four
paths breaks both, as TLC shows. There the heart is that a marker found set means a handler that *returned*: it could
also mean one at work, but an entry is never in two hands (`OwnEntry`), because `_claim_and_handle`
takes idle entries only. `kill` breaks the first half of that argument and `slow` the second.
The `bus` run itself has `expiry` off, as its liveness property would not finish with it on; TLC checked the
safety part with it on a smaller instance.
`EventuallyAcked` is liveness and only model-checked.

`ClaimSessionsProofs` proves `OneActiveTask` for any number of tasks, agents and requests. A
developer's key is held by one request at a time and from before the guards to the commit, so what the
guards found (`GuardsHold`: no other task of the developer is in progress) still holds when the claim
is written; only a request without the key could have changed it, and that one puts the developer into
`unguarded`. The write itself is the delicate part: `Flushed` mixes a stale row with the committed one.
`FreshClaimStartsOwn` shows that a fresh claim whose mixture ends in progress ends there with its own
agent, which is the agent whose key it holds.

`MidVerbProofs` proves `OneMilestone` and `OnePlan`. A request past its fetch holds the task's key
until the number is committed, so the one that gets there found no pull request and no other request
does; the milestone is reported after the key is gone, but only by the request that recorded
(`ReportedAfterRecord`). For delegate the same argument holds up to the journal's commit.

`ReleaseProposalProofs` proves `OneReleaseCommit`, `PublishedIsGreen` and `CompletedIsPublished` under
`MaxPushes < LogWindow`, and that the release implements `VersionRelease`. From its clone to its push an
execute holds the mutex, so the clone is its own (`OwnsClone`). A release commit is never followed by more than the commits others push
(`ReleaseIsRecent`), so the log window shows it, and an execute that found none works on a base without one
(`NotReleasedYet`); its push is accepted only as a fast-forward of that base. What it goes on with is
the position of a release commit, green before it publishes (`GoesOnWithRelease`), and the tip that the
tag is put on contains it. `ImplementsVersionRelease` reads the same facts step by step: all but four
steps of a call change nothing the abstract release sees (`StepIsUnseen`), a push is a bump of a branch
without a release commit (`PushBumps`), a publish tags what is green (`PublishTags`).

`CollisionDagProofs` proves `PlanIsAcyclic`, `OverlapsAreOrdered` and `NeverTogether`. Every edge of
the analyzer climbs in the order of (shared, wave, id), so a set of subtasks has a member that waits for
none of them; lane edges are added only where the graph stays acyclic. A delegate wires each
overlapping pair one way or the other, a completion removes the finished subtask only, and no other
action touches a dependency. In an upfront queue a subtask that was ever claimed has no unfinished
dependency left (`StartedIsClear`), so of two that overlap one has not started. The cycle check `After` is a
recursive function, and the proofs use what `Delegate` is guarded by, not what `After` computes.

`AgentSpawnsProofs` proves `RunIsWatched` and from it `OneRun`, for any number of agents, callers and
faults. The invariant says what each coroutine may rely on between two awaits: who prepares or cancels
holds the lock (`Prepares`, `Cancels`), a launch works for the registered instance, still STARTING, or for
one let out of sight (`Launches`), an ACTIVE instance was launched, and the health pass handles only what
has ended (`HealthLooks`). Numbers that are used again are the one subtlety: a preparation forgets only
what is not running and nothing refers to.

Liveness (`EventuallyAcked`, `CallsEnd`, `LockIsFreed`, `ParkedIsRevived`) is out of the prover's reach and
stays with TLC, as does what the recursive functions compute.

## What is not modelled

* **X and video posts.** A draft is one row, a Redis mutex and one external call. Their approve reads
  the row again under the mutex, which the release's approve lacks.
* **PR gate and PR review, root and cell tasks.** They act on coordination tasks, with the parsing of
  verdicts and a findings ledger at their core; `TaskLifecycle` has leaf tasks. The merge chain above a
  leaf and most admin overrides are left out with them.
* **The cancel cascade and dependency revivals across levels.** `CollisionDag` cancels one subtask at a
  time. `_unblock_dependents` (`task.py:8823-8880`) writes the dependency lists it read, so two
  completions at once may lose one, and `_revive_unblocked_dependent` (8895) puts a task in progress
  that nobody ever claimed, against 6294-6299; `block()` (6102) looks for no cycle. They are
  described here and in the hazards, without a run.
* **Oscillation and respawn breakers.** Round trips are unbounded in the models, which only adds
  behaviours; that the breakers count a loop out is not shown.
* **Whom the dispatcher spawns.** Some ninety handlers choose an agent for a task; `AgentSpawns` takes
  any choice.
* **Workspaces and sandboxes, LLM providers and billing.** File-system, container and service I/O.
* **Notifications, A2A, audit, telegram, event handlers, WebSocket bridge.** Best-effort side effects; the
  two that name a task's next assignee are part of `SubmitPmReview` and `HttpDocsComplete`.
* **Knowledge stores, board programs, panel, infrastructure, documentation.** Content, schedulers that
  create tasks through the modelled entrances, a web client and deployment.
