# A verification project for ainxt-cli

TLA+ models of the parts of ainxt-cli that are hard to test, checked with TLC
on small instances and proved with TLAPS for every value of the constants. Source paths below are relative to the repository; `session/`
stands for `crates/codegen/ainxt-shell/src/session/`.

## 1. Inventory

ainxt-cli is a coding agent. A terminal client (the pager) talks over ACP to a
session; the session queues prompts and runs one turn at a time; a turn samples
a model through the sampler and runs tools; uploads and other storage calls go
through a circuit breaker.

| Component | State | Operations | What is hard | What makes it correct |
|---|---|---|---|---|
| Sampler actor (`ainxt-sampler`) | active set by id, join set, default config | submit, collect, cancel, update config, shut down | biased select between joins and commands; a guard that sends Cancel after the answer | active set = tasks in flight; each caller gets an answer |
| Request task (same crate) | retry counters, token, images | build client, attempt, stream, retry, strip, resample, answer | cancellation noticed only at some awaits; three budgets | bounded sends, one terminal event, termination |
| Circuit breaker (`ainxt-circuit-breaker`) | state, stamps, probe count, mirror, window | check, record | lock-free: every store can interleave; lost probes | exact window, cool-down, limit on probes, no stranding |
| Prompt queue (`session/`) | queue, task slot, pin, buffers | prompt, interject, row commands, cancel, completion, drain | handlers with awaits, a turn and background tasks in between; stale completions | nothing lost or run twice, one terminal per turn |
| Turn loop | conversation, tool state | sample, call tools, compact | long, many exits | (planned) |
| Goals | goal tracker | plan, continue, pause | interplay with cancel | (planned) |
| Upload queue (`ainxt-file-utils`, recovery in `ainxt-workspace`) | pairs on disk, channel, permits, counters, in-flight guards | seven enqueue functions, dispatch, upload, park, fall back inline, drain, recover | crash between any two steps; torn temp files; permits held by parked items | what was accepted is stored, refused for a reason or still on disk; each caller answered |
| Auth refresh (`auth/`) | auth.json, its lock file, a cache and a verdict per process | refresh, recover after 401, enrich, log out | several processes, a lock that can be broken, a token that must not be sent twice | each refresh token spent once; newest grant kept; verdicts true |
| Leader (`leader/`, `agent/app.rs`) | flock, pid and socket files | connect or spawn, start, relaunch, exit | hand-over of the lock between processes, files removed by path, versions | the lock names its holder; one reachable leader; each client connected |
| Chat state, permissions, memory lock, MCP, subagents | one actor or lock each | | | candidates |
| Pager, rendering, telemetry, voice, update, file-system helpers | | | | not modelled: presentation and I/O |

How they interact: the session submits to the sampler by message and gets
events and a one-shot answer; a turn's task and the session share the state
lock, the pin (`current_prompt_id`) and a few atomics; tools and background
tasks send commands to the session; the storage client wraps each call in
`check` and `record`. Every turn's artifacts go to the upload queue, whose uploads
wait for credentials that the auth manager refreshes; all sessions of a machine
live in one leader process that clients find through its lock file.

## 2. Plan

1. *Done*: `Sampler`, `CircuitBreaker`, `PromptQueue`, `UploadQueue` with the
   abstract `Spool` it implements, `AuthRefresh`, `Leader`.
2. *Proofs*: done for every safety property that a passing run checks, the
   refinement of `Spool` included.
3. *Components to come*: the chat-state actor with its persistence, the
   permission manager's pending prompts, the memory's dream lock (a second
   protocol of lock files with stale holders, to compare with `AuthRefresh`), the
   leader's routing.
4. *Composition*: a turn of `PromptQueue` that samples through `Sampler`, so that
   the assumption "a turn ends" becomes a consequence of sampler liveness; uploads
   parked in `UploadQueue` woken by `AuthRefresh`.

Runs keep within a few million states; each new component gets one safety run
and, where it has progress to make, one liveness run.

## 3. Modules

### Sampler

Models `actor/mod.rs`, `actor/state.rs`, `actor/request_task.rs`, `handle.rs`
and `classify_error` of `retry.rs`.

* Callers (`Submit`, `Cancel`, `UpdateConfig`, `CollectReturns`,
  `CollectDropped`, `DropHandle`) put commands on the channel `cmds`. Leaving
  `submit_and_collect` always sends a Cancel, as the drop guard does.
* The actor's biased select is two phases: in `"select"` it joins a finished
  task if there is one (`JoinNext`), else goes to `"recv"` (`NothingToJoin`), where
  it takes one command or finishes another join. Shutdown cancels, aborts each task at whatever
  await it reached (`AbortTask`) and stops.
* A submit may bring its own configuration (`HandleSubmit`), else it takes the
  actor's default of that moment.
* A task's `pc` follows `run_request_task`: building, top, opening, connecting,
  streaming, sleeping, answering, done. The token is read at the top
  (`CheckToken`) and while streaming only; `SendRequest`, the call of
  `conversation_stream`, is a step of its own, so a cancel may fall between.
* `JoinNext` is the join of a task that returned or was aborted. The arm for a
  panicked task (`actor/mod.rs:73-79`), which leaves the entry in the active set,
  is left out: the workspace builds with `panic = "abort"` (`Cargo.toml`, profiles
  release and dev, and those that inherit from release); only the profile
  `x-prod`, for services, unwinds.
* An error is the set of predicates of `SamplingError` it meets, tested in the
  source's order. Left out: payloads, backoff lengths, event contents. The
  HTTP/1.1 rebuild cannot fail in a way that changes control.
* History: `sends`, `late_sends` (requests sent after the token fired), `strips`,
  `rate_retries`.

Bounds: `MaxTasks`, `MaxQueue` (length of the channel).

### CircuitBreaker

Models `breaker.rs` and `window.rs`, one atomic operation, one reading of the clock
or one critical section of the window per step, under sequential consistency. Any
number of calls overlap: between the stores of `trip` (`TripState`, then the clock,
`TripNow`, then `TripOpened`, ...) or of `close` any other thread may step. The code uses
acquire/release orderings on each cell; weaker behaviours of real hardware
across cells are not modelled. Timestamps are ages that saturate, so the clock
needs no bound; `CallTicks` bounds how long one call may take, which is what
makes "now" in a slow thread stale by at most that much. The threshold is the
fraction `RateNum / RateDen`; the probe counter wraps at `UsizeMod`. The
caller is the storage client: it records an outcome or, as for a 403 or a
dropped future, nothing (`Abandon`). `Monitors` are the threads that also read
`error_rate`, which evicts, too. `History` names the history variables a run
keeps: `probing` (the age of each thread's probe) and `open_for` (since when the breaker
is open); neither is read by an action.

### PromptQueue

Models `queue_input` and the row commands (`prompt_queue.rs`), promotion and the
drain (`notification_drain.rs`), cancel (`tasks_cancel.rs`), completion
(`turn_end.rs`), interjections (`interjection.rs`) and the arms of `run_loop.rs`
that call them.

Everything runs on one thread, so a step is what happens between two awaits.
`at` is where the actor's handler is and `job` its locals: Cancel goes
`"cancel"` (pin read), `CancelLock` (under the lock), `CancelEnd` (abort, clear pin,
terminal, answers), `Start`. A turn is a task of its own (`EmitEvent`, `SetGate`,
`drain_pending_interjections`, `ConsumeCompletion`, then `EndTurn`, `Unpin`,
`SendCompletion`) and moves between those steps, as do `McpInitialized` and
`ResumePlan`. A completion is taken before a command, as in the biased select.

A message is a number with a kind. Left out: texts (an edit changes nothing
else), versions and owners (a mismatch changes nothing), broadcasts, the cap on
notifications (the batch is one element), the Shutdown drain. A notification
routed to the mid-turn buffer is moved to the batch at the turn's end; it is
modelled as arriving there. A `"cron"` message stands for the scheduler's
prompts, synthetic in origin but awaited by a client.

History: `rewind_since_drain`, whether a cancel has rewound since the batch of
notifications was last looked at.

Bounds: `MaxMsgs` messages in all.

### Spool and UploadQueue

`Spool` is the promise: an accepted artifact stays in the spool until its object
is stored or the queue has refused it for a logged and counted reason; storage
never forgets; a power cut may lose what is not synced (`Lose`). `UploadQueue` models
`queue.rs` and `recovery.rs`, and `ImplementsSpool` maps it: `spool` is the accepted artifacts whose temp file and
sidecar are both on disk, `store` the artifacts stored whole. `Send` and a
re-enqueue accept, `WireStores` and `InlineFinish` deliver, `GiveUp` refuses,
`RemoveTemp` forgets, `Recover`, `CleanupOrphans` and `Purge` discard, `Crash` loses; all
other steps stutter. `lost` is the artifacts
whose sidecar a power cut took.

* A caller runs one of the seven enqueue functions. `Steps` is the order in which
  each creates and writes the temp file, checks budget or snapshot, writes the
  sidecar, counts and sends; one action per step, so that a crash or another
  caller may come between. A rejected send rolls the counters back and goes
  inline, or fails if the channel is closed.
* `upload_worker` is `Worker`: it receives, waits for a permit with the item in
  hand (and polls nothing meanwhile), cools down when the breaker trips, drains.
  It looks at the failures once per round (`WorkerTop`), before it receives.
* `process_item` is `Task`: attempts, backoff, one retry on 401, then parking
  without the permit until woken, too old or draining; then the files are
  removed in the code's order and the item settles. `WireStores` is separate from
  `WireOk`: an upload may be stored and its answer lost.
* `Crash` keeps disk and cloud, and may tear any temp file, since they are written
  without fsync. It may also take a sidecar written in this life: `write_atomic` syncs the
  file but not the directory after the rename, so its `entry` is `"cached"` until a
  crash spares it (then `"synced"`) or takes it (`"cut"`). `Restart`, `RecoverySnapshot`, `Recover` (one sidecar per step),
  `CleanupOrphans` or `Purge` follow. `Detached` lets callers run beside
  recovery.

`EnqueueRecovered` counts and sends in one step, which are two adjacent
statements of one thread. Left out: removals that a power cut undoes, which only deliver
again what is delivered, compression, the contents of a sidecar (its checks are one, the hash),
a leftover of the sidecar's own temporary name, which nothing reads, and two
processes sharing the directory. Attempts and failures saturate at their limits.
Files age only while the process is up. A drain that gives up an item parked on
401 removes its pair: that counts as refused.

### AuthRefresh

Models `refresh_chain` and what it calls (`auth/manager.rs`), the lock
(`manager/lock.rs`), recovery after a 401 (`recovery.rs`), the OIDC refresher and
its retries, and enrichment. A credential is the number of its grant. Callers
are placed in processes in every way. `call[c].pc` follows the chain: step 0,
refresh lock of the process, the three phases of the file lock, revalidation,
exchange, outcome.

The lock is modelled down to inodes: a flock is `"live"`, or `"dead"` when the
path no longer names its file. Breaking a stale holder (`TryLock`, then `Unlink`)
is two steps, as in the code. `InfoAges` lets a minute pass, while a
holder is at a stage of `Freezes`. The identity provider (`Redeem`, external)
rotates on each grant, repeats its grant for a retry of the same exchange (the
rotation grace the code names) and revokes the family when a spent token
comes back.

`excused` records that one of four things happened, each a named condition of the
state at the step:

* `LockBroken`: the lock file is unlinked under a call past its last check of it
  (a delay of a minute between that check and the write);
* a grant is lost before auth.json holds it: every answer lost, the write failed,
  or a crash in between;
* `StaleRewrite`: an enrichment that has no lock rewrites an entry that has
  changed since it read it. The code does this by itself after a lock
  timeout (`enrichment.rs:142-149`);
* `OrphanedCache`: a logout removes the newest entry while another process caches
  an older credential, to which it falls back (`refresh/mod.rs:77-84`). The code
  does this by itself, too.

`SpentOnce` and `NewestKept` say that a token is spent twice, or the newest grant
lost, in no other way; every other logout, crash, lost answer, lock that cannot
be taken (`LockFails`), timeout or unlocked enrichment is covered. The four are not
guards: the model takes these steps and runs on. Faults stop once one is met
(`MayFail`), which bounds the run. Section 6 says what they mean for the code.

Left out: login, the external-binary refresher, the proactive loop, devbox
recovery; the sleep gate is `Defer`. A budget of transient failures is a choice
in `Failed`. A waiter that times out leaves a thread that takes and drops the
flock by itself; that is not modelled.

### Leader

Models `connect_or_spawn` with what it calls (`leader/mod.rs`, `client.rs`,
`lock.rs`) against `run_leader` (`agent/app.rs`). Clients probe, connect, register,
take the lock, spawn, wait; leaders lock or start unlocked under their spawner's
lock, bind, take over the lock, get ready, close and exit. Lock handles know
whether the path still names their inode, because a `LeaderLock` removes both
files by path when dropped. A client of the managed install spawns the version
that is installed (`SpawnedVersion`), which `Install` (the link swap of
`auto_update.rs`) moves on. Initially any files of dead leaders may lie around; a file
that names a process that is gone says `Stale`, so that process ids can be
used again. Registration may time out (`RegisterTimeout`), and a request to vacate
is accepted, declined by a leader that was asked already, or lost (`Vacate`); the
signal to a leader too old for the request is the fault `Crash` together with
a lost request.

Nothing orders a starting leader before the others: while it starts, another client may
find the lock free and take it (`Acquire`), or its spawner may give up (`AwaitTimeout`).
Such a step *goes ahead* of the leader; `ahead` counts them and `MaxAhead` bounds them.

The branch of `connect_or_spawn` that finds a live leader under a free lock
(`mod.rs:1250-1280`) is left out because `LockNamesHolder` shows that it does not
occur, in any state; it is there for a process id that the system reuses for
another program, which is not modelled. A failing `spawn` call, a bounded reconnect
policy, the routing of messages and idle exit are left out too.

## 4. Runs

| Run | Instance | Shows |
|---|---|---|
| `sampler_request` | 1 request, 5 errors that meet several predicates each, 3 retries, 2 resamples, good and broken config | accounting, bounds, order, liveness |
| `sampler_registry` | 2 requests, 2 callers, distinct ids, symmetry | active set, answers |
| `breaker` | 2 threads whose calls overlap, 1 probe, window of 2, symmetry | window, stamps, cool-down |
| `breaker_live` | 2 threads, overlapping | no stranding, recovery |
| `breaker_overlap` | 3 threads, smallest that shows it | item 2 of section 6 |
| `queue` | 3 messages: user, wake, plan; all row commands, rewinding cancels, both background promotions | nothing lost, run twice or answered twice; turns overlap in a cancel only; one terminal per turn |
| `queue_live` | 2 messages: user, interjection, goal, notification | progress, drain |
| `upload` | 2 artifacts of one path, all 7 functions, channel of 1, 1 permit, 1 crash | nothing lost, nothing torn stored, counters, refinement of `Spool` |
| `upload_live` | 2 artifacts, 1 permit, inline budget below the larger one | items settle, callers answered, drains end |
| `auth` | 2 callers in 1 or 2 processes, 2 grants, 2 posts, all faults, one stage of delay, symmetry | single spending, newest grant, verdicts |
| `leader` | 2 clients of 2 versions, the old one managed, 2 leader ids used again, an update, 1 fault, 1 step ahead | the lock names its holder, one reachable leader, connection |
| `queue_cron` | smallest that shows it | item 1 of section 6 |

The specifications state further properties that hold in these instances and
can be added to a configuration: `NoInterjectionLost` (`MCQueueLive`), `SuccessIsTruthful`
and `GuardsExact` (`MCUpload`), and the `TypeOK` of every component but the
sampler, whose run checks it. Exceptions are part of the properties,
not of the configurations: no run switches off a step of the code in order to pass,
with three named restrictions that section 7 repeats: distinct ids
(`ReuseIds = FALSE`), recovery before callers (`Detached = FALSE`) and no scheduled
prompts beside auto-wakes outside of `queue_cron`.

Why the bounds are enough: retry and doom budgets of 3 and 2 exceed the cap of 2
on rate limits, so each budget runs out while another has something left. Two requests are
what a race over one active set needs, and the theorems remove the bound. Three
messages give a running turn, a queued one and a third that arrives at any
await between them; every ordering hazard listed involves at most a turn, its
successor and one message. Four are needed for the sweep of a scheduled prompt,
which is what `queue_cron` uses. Two threads and one probe
slot contain every pair of racing atomic operations, which is what stamps, window
and cool-down depend on, and the theorems remove the bound; the third thread of
`breaker_overlap` is the caller beside a probe and a trip.

For uploads, the second artifact meets the first one's guard, fills the channel
while the worker holds it, exceeds the budget and the inline permits; one crash
suffices for each single cut, since recovery ends in the states a first life
starts from plus a pair on disk. For auth, two callers give every pair of racing
holders; the second grant is the one whose loss or double spending matters. For
leaders, two ids, each used again once nobody talks to the process that had it,
allow one that goes and one that starts; one fault and one step ahead meet every
stage of the others.

`upload`, `upload_live`, `auth` and `leader` turn the deadlock check off because these
systems come to rest: nothing left to upload, no token expired, every client
connected. The others keep it: a stopped sampler stutters explicitly
(`Terminated`), and the queue's loop always accepts a cancel.

## 5. Fairness

* `Sampler!FairSpec`: tokio polls ready tasks and timers fire, nothing about the server.
  `EveryRequestEnds` has one more antecedent, `StreamFairness`: an open stream yields
  or meets its idle timeout. That the server answers the call that opens a stream is
  not assumed: `Unanswered(t)` is an outcome of the properties instead.
* `CircuitBreaker!FairSpec`: a call in progress proceeds, requests keep coming
  and end (recorded or not), time passes.
* `PromptQueue!FairSpec`: the local executor polls the actor, and turns end. A
  turn that waits on the user is not an exception the model allows: it is
  ended by the user's answer.

* `UploadQueue!FairSpec`: the runtime runs ready tasks, clocks advance and files
  age, a process that went down is started again. Neither a drain, nor its
  deadline, nor new credentials for a parked item need come.
* `Leader!FairSpec`: every process runs, so its polls and timeouts come; a leader
  asked to relaunch has a bounded grace. The client retries for ever
  (`ReconnectPolicy::Unbounded`).

Nothing is assumed of commands: callers may stop.

## 6. Disagreements between code and comments

`queue_cron` and `breaker_overlap` exhibit the first two; PROJECT.json quotes the
text. The properties of the passing runs name the exceptions 3 to 7 explicitly;
removing the exception from the property shows the behaviour. The rest are seen by the
change to a configuration that each names.

1. `queue_cron`: a user prompt that preempts an auto-wake also sweeps a queued
   scheduler prompt, whose RPC is then never answered (`NoPromptLost`).
2. `breaker_overlap`: two fresh probes in HalfOpen although the limit is one
   (`ProbeLimit`). `trip` publishes `Open` before it stamps the time and zeroes the
   counter, and a probe is stamped after its slot was taken; the comment in
   `check_open` says the counter "is already 0". `CoolDownBounded` gives the extent of
   the early HalfOpen: two calls' duration after the trip. `MCBreaker.cfg` with
   `MirrorAgrees` fails, too: `is_open_fast` may differ from the state at rest.
3. `CancelTakesEffect`, exception `Unanswered`: a cancel that lands while response
   headers are outstanding takes effect only when the server answers
   (`request_task.rs:430`), and never if it does not.
4. `OneTurnOutsideCancel`, exception `at = "cancel_end"`: a promotion by the
   MCP-initialisation or plan task in the middle of a cancel starts the new
   turn some awaits before the old one is aborted.
5. `WakeNotForgotten`, exception `"rewound"`, and `NotificationsDrained`, exception
   `rewind_since_drain`: a rewinding cancel returns (`tasks_cancel.rs:564`) before it
   un-marks the wake it took, under the comment "Un-mark cancelled synthetic
   IDs", and leaves an idle session with only an attempt to promote.
6. `SpentOnce`, the four excuses of section 3: `refresh_chain` says "only one
   participant ever spends a given refresh token". A holder delayed more than a minute after
   its last look at the lock (a slow exchange can itself exceed the minute), an enrichment
   without the lock, and a sibling that refreshes and then logs out each lead
   a second process to send a spent token.
7. `Reachable`, exception `ahead > 0`, and `ClientConnects`, exceptions `ahead > 0` and
   `Thrash`: a client that takes the lock before the leader it belongs to, or
   gives up at its timeout, leaves a ready leader whose files are gone or another's,
   against the module's first lines ("single-leader-per-machine"), and can leave a
   client retrying; and an older client that respawns its own version each time the new one has
   asked it to leave contradicts the comment on `should_evict` ("anti-thrash,
   converges to newest").
8. `MCSamplerRequest.cfg` with `Errors <- MCRetryErrors` and the invariant
   `RateLimitRetriesGranted`: the cap on rate limits is compared with the shared retry
   counter, and with `>=`, so fewer 429 retries are granted than `retry.rs:40` says.
9. `MCUpload.cfg` with `Detached = TRUE` and `PendingExact`: the shell's recovery may
   re-enqueue a pair whose own call is still in progress; one of the two then
   removes the file whose size the other reads to settle.
10. `NoSilentLoss`, exception `entry = "cut"`: `write_atomic` does not sync the directory,
   so a sidecar that was reported as durable can go with a power cut.

Smaller ones, kept as notes:

* `ReuseIds = TRUE` in `sampler_registry`: an id submitted again after a cancel
  loses its entry to the old task's join (`InFlightIsActive`).
* `retry.rs` says an image strip is "not counted against retry budget"; the
  strip advances `retry_count` (`RetryStripped`).
* An interjection that falls back to a prompt is inserted ahead of earlier
  send-now prompts, which `InputItem.send_now` says run FIFO.
* The comments on `InterjectQueuedPrompt` describe merging the row into the
  running turn; the code promotes the row and cancels the turn.

## 7. Proofs

Each component's theorems are in a module of their own, named after it. They
hold for every value of the constants that meets the component's named
assumption, so without the bounds of section 4. The assumptions only say what
kind of number or set a constant is; `BreakerAssumption` and `AuthAssumption` also
ask for finitely many threads and callers, because counting needs it, and
`CallTicks < OpenDuration`: a single `check` or `record` takes less time than the
cool-down.

| Theorem | Property | Given | Rests on |
|---|---|---|---|
| `SamplerProofs!TypeCorrect` | `TypeOK` | | itself inductive |
| `RequestsBounded` | `SendsBounded` | | `BudgetInv` |
| `AttemptsCounted` | `AttemptsAccounted` | | `BudgetInv` |
| `NoGhostEntry` | `ActiveIsInFlight` | | `RegistryInv` |
| `InFlightFound` | `InFlightIsActive` | `~ReuseIds` | `RegistryInv`, `DistinctIds`, `SpawnedIsActive` |
| `CancelStopsSending` | `OneSendAfterCancel` | | `TypeOK`, what `late_sends` is at each `pc` |
| `TerminalEventLast` | `TerminalIsLast` | | `BudgetInv` |
| `CallersAnswered` | `NoOrphanedCaller` | | `AwaitedInv`, `HandleInv` |
| `CircuitBreakerProofs!TypeCorrect` | `TypeOK` | | itself inductive |
| `FailureCountExact` | `WindowConsistent` | | itself inductive, the lemmas on the window |
| `StampsFollowTrips` | `StampFresh` | | `CoolDownInv` |
| `CoolDownHeld` | `CoolDownBounded` | | `CoolDownInv` |
| `PromptQueueProofs!TypeCorrect` | `TypeOK` | | `IInv` |
| `RunningAtFront` | `FrontIsRunning` | | `IInv` |
| `PromotedOnce` | `RunsOnce` | | `IInv` |
| `OneTerminalEach` | `TerminalExact` | | `IInv` |
| `UserPromptAnswered`, `InterjectionKept` | `UserPromptsKept`, `NoInterjectionLost` | | `IInv` |
| `PromptAwaitedKept` | `NoPromptLost` | not both `"cron"` and `"wake"` in `Kinds` | `IInv` |
| `NoWakeForgotten` | `WakeNotForgotten` | | `IInv` |
| `AnsweredOnce` | `SettledOnce` | | `IInv` |
| `TurnsExclude` | `OneTurnOutsideCancel` | | `IInv`, `DrainInv` |
| `NothingLeftBehind` | `NotificationsDrained` | | `IInv`, `DrainInv` |
| `UploadQueueProofs!TornFilesStayLocal` | `TornNeverStored` | | `IInv` |
| `AnswersTruthful`, `GuardsNeitherLeakNorVanish` | `SuccessIsTruthful`, `GuardsExact` | | `IInv` |
| `NothingLostSilently` | `NoSilentLoss` | `~Detached` | `IInv` |
| `QueueImplementsSpool` | `ImplementsSpool` | `~Detached` | `IInv`, one abstract step per action |
| `CountersExact` | `PendingExact` | `~Detached` | `IInv`, `CountInv` |
| `AuthRefreshProofs!NoTokenSpentTwice` | `SpentOnce` | | `IInv` |
| `NewestGrantKept` | `NewestKept` | | `IInv` |
| `StickyVerdictsTrue` | `VerdictTrue` | | `IInv` |
| `LeaderProofs!LockNamesItsHolder` | `LockNamesHolder` | | `IInv` |
| `LeaderReachable` | `Reachable` | | `LeaderInv` |

`AuthRefreshProofs` and `LeaderProofs` also prove `TypeCorrect`.

The hypotheses in the third column are those of the runs. Section 6 shows for
the two kinds of messages (`queue_cron`) and for `~ReuseIds` that the property fails without
them. The same is true of `~Detached`: a recovery that runs beside the callers may enqueue
the pair of a call that is between its sidecar and its send; if the channel is
then full the call removes both files and holds the data in its inline task only.
The workspace server runs recovery first; the shell does not.

*Sampler, budget.* `SendsBounded` is not inductive: that a request stays within its sends
depends on what each counter means at each point of the loop. `BudgetOf(t)` says it: before
the first attempt all are zero, at the top and in backoff `sends` equals the
counters, during an attempt it is one more; the counter exceeds the cap by
the strips only, and images and strips together are at most one, which is why
a strip cannot be granted twice. That a fresh task starts with zeros needs
`FreshInv` (unallocated tasks are free) and `QueueInv` (a queued submit names a
task that waits, and no two name the same), which carries through the channel.

*Sampler, registry.* `RegistryInv` is the property, that a cancelled task has no entry,
and what shutdown leaves behind. `InFlightFound` needs ids to be distinct: that
hypothesis is where the code relies on its callers' UUIDs. For `CallersAnswered`,
`HandleInv` says that a caller inside `submit_and_collect` keeps its handle, so
the actor cannot have seen the channel close, and `AwaitedInv` what the awaited
task has done at each `pc`.

*Breaker, window.* The counter is compared with the entries through four facts
about sequences: where the first live entry is (`FirstLiveRange`, by a least
element), that the failures of a window split at that place (`FailuresSplit`), and
what `push` and ageing do (`Pushed`, `AgedWindow`). They hold for every interleaving
because each critical section of the window is one step.

*Breaker, cool-down.* Calls overlap freely. `CoolDownInv` is `Typed`, `StampKept` and `LoadKept`.
`StampKept` says how old the stamp may be compared with the latest trip: a thread
between the state's store and the stamp's (`Stamping`) has started its call at most
`CallTicks` ago, and with nobody there the stamp is as fresh as the trip. `LoadKept`
says the same of the copy that a `check` has read: it is that of the latest trip, or
the trip is younger than two calls. Neither property is inductive alone: `trip`
publishes the state before the stamp, and a slow `check` uses a stamp of the past.

*Prompt queue.* None of the properties is inductive: that a completion pops the
right message, that a cancel answers the one it took and that a turn is not run
again depend on each other. `IInv` follows one message. `PlaceKept` says that
until it has a fate it is in one place (buffered, in the batch, falling back, queued,
or with a cancel); `HeldKept` that it is in one; `RunKept` what its task, runs and
terminals are there; `WakeKept` what its delivered mark means. `JobKept` and
`PinKept` tie the handler's locals and the pin to the slot at each label. A step leaves a
message alone (`SameKept`), lets it arrive (`Arrived`), moves it (`Entered`,
`Resolving`) or gives it its fate (`Left`), so the lemma of an action only says which
messages it moves. What the handlers do to a queue are lemmas about sequences
(`Retained`, `Inserted`, `Popped`, `Named`, ...); the recursion of `retain` is proved
through the least prefix at which it would fail. `DrainInv` adds which task is
live, what the loop leaves queued behind an empty slot, and that a send-now cancel
spares its message: `LiveKept`, `LoopKept`, `NowKept` and `IdleKept`. With them no path but a
rewind empties the session and skips `maybe_drain_notifications`.

For `AnsweredOnce` it is `PlaceKept` that counts: a message with a fate is in
nobody's hands, so no handler can reach it again. For `TurnsExclude`, `LiveKept`
says that a live turn is the one in the slot or the one a cancel holds between
taking it and aborting it, though a background task may fill the slot meanwhile.

*Upload queue.* `IInv` is local: `ArtInv(a)` says of one artifact, for each step of
its call and each state of its items, which files it has on disk, whether its
guard is held, what its waiter may have been told. `SameFor(b)` is the part of
the state that `ArtInv(b)` reads, so an action on one artifact leaves the others
alone. `ArtCore` holds however recovery is run, `ArtKept` only when it is run first;
the refinement is then one lemma per action: `Send` and a re-enqueue accept,
`WireStores` and `InlineFinish` deliver, and so on as section 3 lists. An artifact whose
entry was cut has no call in progress (a clause of `ArtCore`), so nothing is written for
it again.

*Upload counters.* `PendingExact` compares two counters with what is in flight.
Both sides are cardinalities (bytes are counted as pairs of an item and a number
up to its size), so the library's theorems on finite sets apply, and
the finiteness is carried in the invariant: no assumption was added. `Tally` is the
property with the sets it counts; it needs that a started item will settle the
size that was added for it (`BytesKept`) and that only functions that write a sidecar
leave something for recovery to enqueue (`KindKept`). Both fail under `Detached`: there
a second item of the same pair may start after the first has removed the file,
read the size 0 and settle that.

*Auth.* `OneHolder`, at most one live flock, is not enough: a holder whose lock
was broken goes on. `CallerInv` ties each stage past the last look at the lock to
either a live flock and the newest grant, or `excused`; `SharedInv` says which
grants are spent, and, after a logout, what the caches may still hold.

*Leader.* `LeaderInv` is `IInv`, which holds in every state and has `PidOwned` (the lock
file names a leader exactly when it holds the flock), and `ahead = 0 => SerialInv`: until
somebody goes ahead there is one live leader, never beside a client that holds the
lock in order to spawn, and it says which handle each stage of a leader and a client
holds. `AheadStays` is why the second part is inductive: `ahead` never falls.

Only model-checked: all liveness (fairness is beyond the prover).

## 8. Not modelled

The turn's conversation, tools and compaction; the decoding of the three
streaming formats; HTTP, file systems and git; the pager and all rendering;
telemetry; login flows; the cap on pending notifications (`run_loop.rs:400`); the leader's routing and relay. They are listed in PROJECT.json with the reason. Weak memory in the
breaker and clock steps backwards are outside the model (the code uses a
monotonic clock).

## 9. Running

    tlc -config MCQueue.cfg MCPromptQueue
    tlc -config MCUpload.cfg MCUploadQueue
    tlapm UploadQueueProofs.tla

Definitions whose names end in `_Something` below a "Mutant" comment are
deliberate mistakes; no specification uses them. Substituting one for the
definition it is named after makes the property listed with it in PROJECT.json
fail, which shows that the property depends on that code.
