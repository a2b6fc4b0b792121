---------------------------- MODULE UploadQueue ----------------------------
(***************************************************************************)
(* The spill-to-disk upload queue (ainxt-file-utils/src/queue.rs) and the  *)
(* startup recovery of what a crash left on disk                           *)
(* (ainxt-workspace/src/recovery.rs), over several lives of the process.   *)
(* Callers run one enqueue function each, step by step; the worker hands   *)
(* the channel's items to upload tasks under a semaphore; inline fallbacks *)
(* run beside it.  A crash may fall between any two steps and keeps only   *)
(* the disk and the cloud.                                                 *)
(***************************************************************************)
EXTENDS Integers, Sequences, FiniteSets, FiniteSetsExt, Functions

CONSTANTS
    Artifacts,         \* what the callers enqueue, one enqueue each
    SizeOf,            \* bytes of an artifact (in units of one inline permit)
    PathOf,            \* its gcs_path
    ContentAddressed,  \* the paths is_content_addressed accepts
    KindsOf,           \* the enqueue functions a caller may pick per artifact
    MaxQueueBytes,     \* max_queue_bytes, the disk budget
    ChannelCapacity,   \* CHANNEL_CAPACITY
    MaxConcurrent,     \* max_concurrent, the worker's permits
    MaxAttempts,       \* UploadRetryPolicy::max_attempts
    BreakerThreshold,  \* CIRCUIT_BREAKER_THRESHOLD
    InlinePermits,     \* INLINE_FALLBACK_TOTAL_PERMITS
    Detached,          \* TRUE: recovery runs beside the callers (the shell)
    MaxCrashes         \* bound: ends of a process life

Kinds == {"bytes", "durable", "blocking", "file", "fileBlocking",
          "reference", "reflink"}

ASSUME UploadAssumption ==
    /\ SizeOf \in [Artifacts -> Nat \ {0}]
    /\ DOMAIN PathOf = Artifacts
    /\ KindsOf \in [Artifacts -> SUBSET Kinds]
    /\ MaxQueueBytes \in Nat
    /\ {ChannelCapacity, MaxConcurrent, MaxAttempts, BreakerThreshold,
        InlinePermits} \subseteq Nat \ {0}
    /\ Detached \in BOOLEAN
    /\ MaxCrashes \in Nat

VARIABLES
    life,          \* "boot", "scan" (recovery runs), "up", "down"
    crashes,       \* ended lives so far
    scan,          \* sidecars of recovery's directory snapshot still to judge
    step,          \* caller: index into Steps[kind]; 0 before the call
    kind,          \* caller: the enqueue function it called
    waiter,        \* completion_rx of the blocking variants
    temp,          \* temp file: "none", "torn" (partly written), "whole"
    sidecar,       \* is <temp>.meta.json on disk
    entry,         \* its directory entry: "cached" until the disk has it, "cut" if lost
    old,           \* is the file's enqueued_at older than max_age
    guard,         \* artifacts holding an InFlightGuard on their path
    item,          \* UploadQueueItem by artifact and origin
    chan,          \* the mpsc channel
    worker,        \* where upload_worker is
    draining,      \* draining_flag
    stop,          \* "no", "signal" (drain called), "dropped" (no sender left)
    pending, pendingBytes,   \* stats.pending, stats.pending_bytes
    failures,      \* consecutive_failures
    inline,        \* inline fallback task: "none", "wait", "run"
    cloud,         \* stored objects, as <<artifact, whole or torn>>
    refused,       \* artifacts given up for a logged and counted reason
    accepted       \* artifacts the queue took over with a sidecar on disk

diskVars == <<temp, sidecar, old>>
callVars == <<step, kind>>
taskVars == <<item, chan, worker>>
statVars == <<pending, pendingBytes, failures>>
stopVars == <<draining, stop>>
ghostVars == <<cloud, refused, accepted>>
vars == <<life, crashes, entry, scan, callVars, waiter, diskVars, guard, taskVars,
          stopVars, statVars, inline, ghostVars>>

-----------------------------------------------------------------------------
(* Vocabulary                                                              *)

Items == Artifacts \X {"fresh", "recovered"}

NoItem == [st |-> "none", permit |-> FALSE, attempts |-> 0, auth |-> FALSE,
           ok |-> FALSE, bytes |-> 0, old |-> FALSE]

Settling == {"rmTemp", "rmSide", "settle"}
TaskStates == {"none", "queued", "held", "start", "wire", "backoff", "park", "wait",
               "woken", "reacquire"} \cup Settling

\* The order in which each enqueue function does its work.
Steps == [k \in Kinds |->
    CASE k = "bytes"     -> <<"create", "write", "budget", "account", "send">>
      [] k = "durable"   -> <<"create", "write", "budget", "sidecar",
                              "account", "send">>
      [] k = "blocking"  -> <<"create", "write", "sidecar", "account", "send">>
      [] k \in {"file", "fileBlocking"}
                         -> <<"budget", "create", "write", "account", "send">>
      [] k \in {"reference", "reflink"}
                         -> <<"create", "write", "check", "budget", "account",
                              "send">>]

HasSidecar(a) == kind[a] \in {"durable", "blocking"}
HasWaiter(a) == kind[a] \in {"blocking", "fileBlocking", "reference", "reflink"}
\* spawn_inline_upload_owned_snapshot: the task streams the temp file itself.
OwnsTemp(a) == kind[a] \in {"blocking", "reference", "reflink"}
Deduplicates(a, k) == PathOf[a] \in ContentAddressed /\ k # "blocking"

Returned == 7      \* the step of a call that is over
Calling(a) == step[a] \in 1 .. 6
At(a, s) == Calling(a) /\ Steps[kind[a]][step[a]] = s

\* UploadSource::disk_bytes: a reflink shares its blocks with the source.
DiskBytes(a) == IF kind[a] = "reflink" THEN 0 ELSE SizeOf[a]
FileSize(a) == IF temp[a] = "none" THEN 0 ELSE SizeOf[a]

(* Mutant: no upper clamp, so a large file asks for more than there is. *)
InlineNeed_NoClamp(a) == Max({SizeOf[a], 1})

\* inline_fallback_permits: floor of one, clamped to the semaphore's total.
InlineNeed(a) == Min({Max({SizeOf[a], 1}), InlinePermits})
InlineUsed ==
    MapThenSumSet(InlineNeed, {b \in Artifacts : inline[b] = "run"})

\* The pair recovery looks for, and the object in storage.
OnDisk(a) == sidecar[a] /\ temp[a] # "none"
Delivered(a) == <<a, "whole">> \in cloud

Live(i) == item[i].st # "none"
PermitFree == Cardinality({i \in Items : item[i].permit}) < MaxConcurrent
\* elapsed() > max_age: a recovered item counts from its re-enqueue.
Expired(i) == IF i[2] = "fresh" THEN old[i[1]] ELSE item[i].old
Closed == worker \in {"drain", "drainPermit", "join", "done", "aborted"}
Accepting == life = "up" \/ (Detached /\ life \in {"boot", "scan"})

\* The completion sender is taken when it is answered, so only once.
Answer(a, result) ==
    IF waiter[a] = "waiting" THEN [waiter EXCEPT ![a] = result] ELSE waiter

-----------------------------------------------------------------------------
(* The enqueue functions, one action per step                              *)

Advance(a) == step' = [step EXCEPT ![a] = @ + 1]
Return(a) == step' = [step EXCEPT ![a] = Returned]

\* The call: mark_in_flight first, where the function deduplicates.
Begin(a, k) ==
    /\ Accepting /\ stop # "dropped"
    /\ step[a] = 0
    /\ kind' = [kind EXCEPT ![a] = k]
    /\ IF Deduplicates(a, k) /\ \E b \in guard : PathOf[b] = PathOf[a]
       THEN /\ Return(a)
            /\ UNCHANGED guard
       ELSE /\ step' = [step EXCEPT ![a] = 1]
            /\ guard' = IF Deduplicates(a, k) THEN guard \cup {a} ELSE guard
    /\ UNCHANGED <<life, crashes, entry, scan, waiter, diskVars, taskVars, stopVars,
                   statVars, inline, ghostVars>>

\* write_temp_file, copy or reflink: not atomic, a crash leaves a part.
CreateTemp(a) ==
    /\ At(a, "create")
    /\ temp' = [temp EXCEPT ![a] = "torn"]
    /\ Advance(a)
    /\ UNCHANGED <<life, crashes, entry, scan, kind, waiter, sidecar, old,
                   guard, taskVars, stopVars, statVars, inline, ghostVars>>

\* Written, or the write failed and what was written stays behind.
WriteTemp(a) ==
    /\ At(a, "write")
    /\ \/ /\ temp' = [temp EXCEPT ![a] = "whole"]
          /\ Advance(a)
          /\ UNCHANGED guard
       \/ /\ Return(a)
          /\ guard' = guard \ {a}
          /\ UNCHANGED temp
    /\ UNCHANGED <<life, crashes, entry, scan, kind, waiter, sidecar, old, taskVars,
                   stopVars, statVars, inline, ghostVars>>

\* check_snapshot: a stale or unreadable snapshot is removed and answered.
CheckSnapshot(a) ==
    /\ At(a, "check")
    /\ \/ /\ Advance(a)
          /\ UNCHANGED <<temp, guard>>
       \/ /\ temp' = [temp EXCEPT ![a] = "none"]
          /\ Return(a)
          /\ guard' = guard \ {a}
    /\ UNCHANGED <<life, crashes, entry, scan, kind, waiter, sidecar, old, taskVars,
                   stopVars, statVars, inline, ghostVars>>

\* Leaving the queue for an inline task, which answers the caller's waiter.
GoInline(a) ==
    /\ Return(a)
    /\ inline' = [inline EXCEPT ![a] = "wait"]
    /\ waiter' = IF HasWaiter(a) THEN [waiter EXCEPT ![a] = "waiting"]
                 ELSE waiter
    /\ guard' = guard \ {a}

OverBudget(a) ==
    /\ pendingBytes + DiskBytes(a) > MaxQueueBytes
    /\ kind[a] # "reflink"

CheckBudget(a) ==
    /\ At(a, "budget")
    /\ \/ /\ OverBudget(a)
          /\ GoInline(a)
          /\ temp' = IF OwnsTemp(a) THEN temp ELSE [temp EXCEPT ![a] = "none"]
       \/ /\ ~OverBudget(a)
          /\ Advance(a)
          /\ UNCHANGED <<temp, inline, waiter, guard>>
    /\ UNCHANGED <<life, crashes, entry, scan, kind, sidecar, old, taskVars, stopVars,
                   statVars, ghostVars>>

\* write_sidecar_file: atomic by rename, but the directory is not synced; on an error the
\* temp is removed.
WriteSidecar(a) ==
    /\ At(a, "sidecar")
    /\ \/ /\ sidecar' = [sidecar EXCEPT ![a] = TRUE]
          /\ entry' = [entry EXCEPT ![a] = "cached"]
          /\ Advance(a)
          /\ UNCHANGED <<temp, guard>>
       \/ /\ temp' = [temp EXCEPT ![a] = "none"]
          /\ Return(a)
          /\ guard' = guard \ {a}
          /\ UNCHANGED <<sidecar, entry>>
    /\ UNCHANGED <<life, crashes, scan, kind, waiter, old, taskVars, stopVars,
                   statVars, inline, ghostVars>>

Account(a) ==
    /\ At(a, "account")
    /\ pending' = pending + 1
    /\ pendingBytes' = pendingBytes + DiskBytes(a)
    /\ Advance(a)
    /\ UNCHANGED <<life, crashes, entry, scan, kind, waiter, diskVars, guard,
                   taskVars, stopVars, failures, inline, ghostVars>>

\* try_send (send().await for "fileBlocking") finds room.
Send(a) ==
    /\ At(a, "send") /\ ~Closed /\ Len(chan) < ChannelCapacity
    /\ chan' = Append(chan, <<a, "fresh">>)
    /\ item' = [item EXCEPT ![<<a, "fresh">>] = [NoItem EXCEPT !.st = "queued"]]
    /\ Return(a)
    /\ waiter' = IF HasWaiter(a) THEN [waiter EXCEPT ![a] = "waiting"]
                 ELSE waiter
    /\ accepted' = IF HasSidecar(a) THEN accepted \cup {a} ELSE accepted
    /\ UNCHANGED <<life, crashes, entry, scan, kind, diskVars, guard, worker, stopVars,
                   statVars, inline, cloud, refused>>

(* Mutant: a rejected item's bytes stay in the budget. *)
RollBack_KeepsBytes(a) ==
    /\ pending' = pending - 1
    /\ sidecar' = [sidecar EXCEPT ![a] = FALSE]
    /\ UNCHANGED pendingBytes

\* The item comes back: the counters are rolled back and the files removed.
RollBack(a) ==
    /\ pending' = pending - 1
    /\ pendingBytes' = pendingBytes - DiskBytes(a)
    /\ sidecar' = [sidecar EXCEPT ![a] = FALSE]

SendFull(a) ==
    /\ At(a, "send") /\ ~Closed /\ Len(chan) = ChannelCapacity
    /\ kind[a] # "fileBlocking"
    /\ RollBack(a)
    /\ temp' = IF OwnsTemp(a) THEN temp ELSE [temp EXCEPT ![a] = "none"]
    /\ GoInline(a)
    /\ UNCHANGED <<life, crashes, entry, scan, kind, old, taskVars, stopVars, failures,
                   ghostVars>>

\* A closed channel: the plain and the reference variants still go inline.
SendClosed(a) ==
    /\ At(a, "send") /\ Closed
    /\ RollBack(a)
    /\ IF kind[a] \in {"durable", "blocking", "fileBlocking"}
       THEN /\ temp' = [temp EXCEPT ![a] = "none"]
            /\ Return(a)
            /\ guard' = guard \ {a}
            /\ UNCHANGED <<inline, waiter>>
       ELSE /\ temp' = IF OwnsTemp(a) THEN temp
                       ELSE [temp EXCEPT ![a] = "none"]
            /\ GoInline(a)
    /\ UNCHANGED <<life, crashes, entry, scan, kind, old, taskVars, stopVars, failures,
                   ghostVars>>

Caller(a) ==
    \/ CreateTemp(a) \/ WriteTemp(a) \/ CheckSnapshot(a) \/ CheckBudget(a)
    \/ WriteSidecar(a) \/ Account(a) \/ Send(a) \/ SendFull(a) \/ SendClosed(a)

-----------------------------------------------------------------------------
(* Inline fallback tasks                                                   *)

InlineAcquire(a) ==
    /\ inline[a] = "wait"
    /\ InlineUsed + InlineNeed(a) <= InlinePermits
    /\ inline' = [inline EXCEPT ![a] = "run"]
    /\ UNCHANGED <<life, crashes, entry, scan, callVars, waiter, diskVars, guard,
                   taskVars, stopVars, statVars, ghostVars>>

\* One attempt; an owned snapshot is removed whatever the result.
InlineFinish(a) ==
    /\ inline[a] = "run"
    /\ \/ /\ OwnsTemp(a) => temp[a] # "none"
          /\ cloud' = cloud \cup
                {<<a, IF OwnsTemp(a) THEN temp[a] ELSE "whole">>}
          /\ waiter' = Answer(a, "ok")
       \/ /\ waiter' = Answer(a, "error")
          /\ UNCHANGED cloud
    /\ temp' = IF OwnsTemp(a) THEN [temp EXCEPT ![a] = "none"] ELSE temp
    /\ inline' = [inline EXCEPT ![a] = "none"]
    /\ UNCHANGED <<life, crashes, entry, scan, callVars, sidecar, old, guard, taskVars,
                   stopVars, statVars, refused, accepted>>

-----------------------------------------------------------------------------
(* upload_worker                                                           *)

SetItem(i, st) == item' = [item EXCEPT ![i].st = st]

\* Top of the loop: the failures are looked at here and nowhere else.
WorkerTop ==
    /\ worker = "loop"
    /\ worker' = IF failures >= BreakerThreshold THEN "cooldown" ELSE "select"
    /\ UNCHANGED <<life, crashes, entry, scan, callVars, waiter, diskVars, guard, item,
                   chan, stopVars, statVars, inline, ghostVars>>

\* The loop takes the next item and then waits for a permit with it.
WorkerReceive ==
    /\ worker \in {"select", "drain"}
    /\ chan # <<>>
    /\ SetItem(Head(chan), "held")
    /\ chan' = Tail(chan)
    /\ worker' = IF worker = "select" THEN "permit" ELSE "drainPermit"
    /\ UNCHANGED <<life, crashes, entry, scan, callVars, waiter, diskVars, guard,
                   stopVars, statVars, inline, ghostVars>>

\* dispatch_item: while it waits the loop polls neither channel nor shutdown.
WorkerDispatch ==
    /\ worker \in {"permit", "drainPermit"}
    /\ PermitFree
    /\ \E i \in Items :
         /\ item[i].st = "held"
         /\ item' = [item EXCEPT ![i].st = "start", ![i].permit = TRUE]
    /\ worker' = IF worker = "permit" THEN "loop" ELSE "drain"
    /\ UNCHANGED <<life, crashes, entry, scan, callVars, waiter, diskVars, guard, chan,
                   stopVars, statVars, inline, ghostVars>>

WorkerCooled ==
    /\ worker = "cooldown"
    /\ worker' = "select"
    /\ failures' = 0
    /\ UNCHANGED <<life, crashes, entry, scan, callVars, waiter, diskVars, guard, item,
                   chan, stopVars, pending, pendingBytes, inline, ghostVars>>

\* The shutdown signal, polled by the loop's select and by the cooldown.
WorkerShutdown ==
    /\ stop = "signal"
    /\ worker \in {"cooldown", "select"}
    /\ worker' = "drain"
    /\ draining' = TRUE
    /\ UNCHANGED <<life, crashes, entry, scan, callVars, waiter, diskVars, guard, item,
                   chan, stop, statVars, inline, ghostVars>>

\* recv() returns None: every sender is gone and the buffer is empty.
WorkerSendersGone ==
    /\ stop = "dropped" /\ worker = "select"
    /\ chan = <<>>
    /\ worker' = "join"
    /\ draining' = TRUE
    /\ UNCHANGED <<life, crashes, entry, scan, callVars, waiter, diskVars, guard, item,
                   chan, stop, statVars, inline, ghostVars>>

(* Mutant: without rx.close() the drain ends only when no sender is left. *)
WorkerDrained_NoClose ==
    /\ worker = "drain" /\ chan = <<>> /\ stop = "dropped"
    /\ worker' = "join"
    /\ UNCHANGED <<life, crashes, entry, scan, callVars, waiter, diskVars, guard, item,
                   chan, stopVars, statVars, inline, ghostVars>>

WorkerDrained ==
    /\ worker = "drain" /\ chan = <<>>
    /\ worker' = "join"
    /\ UNCHANGED <<life, crashes, entry, scan, callVars, waiter, diskVars, guard, item,
                   chan, stopVars, statVars, inline, ghostVars>>

WorkerExit ==
    /\ worker = "join"
    /\ \A i \in Items : ~Live(i)
    /\ worker' = "done"
    /\ UNCHANGED <<life, crashes, entry, scan, callVars, waiter, diskVars, guard, item,
                   chan, stopVars, statVars, inline, ghostVars>>

Worker ==
    \/ WorkerTop \/ WorkerReceive \/ WorkerDispatch \/ WorkerCooled
    \/ WorkerShutdown \/ WorkerSendersGone \/ WorkerDrained \/ WorkerExit

-----------------------------------------------------------------------------
(* process_item and upload_with_retries                                    *)

\* The upload is given up: it is logged and counted, then the files go.
GiveUp(i, counts) ==
    /\ item' = [item EXCEPT ![i].st = "rmTemp", ![i].attempts = 0,
                            ![i].auth = FALSE]
    /\ refused' = refused \cup {i[1]}
    /\ failures' = IF counts THEN Min({failures + 1, BreakerThreshold})
                   ELSE failures

\* The size accounted for at settlement is read when the task starts.
TaskStart(i) ==
    /\ item[i].st = "start"
    /\ LET bytes == IF kind[i[1]] \in {"reference", "reflink"}
                    THEN DiskBytes(i[1]) ELSE FileSize(i[1])
       IN  item' = [item EXCEPT
               ![i].bytes = bytes,
               ![i].attempts = IF Expired(i) THEN 0 ELSE 1,
               ![i].st = IF Expired(i) THEN "rmTemp" ELSE "wire"]
    /\ refused' = IF Expired(i) THEN refused \cup {i[1]} ELSE refused
    /\ UNCHANGED <<life, crashes, entry, scan, callVars, waiter, diskVars, guard, chan,
                   worker, stopVars, statVars, inline, cloud, accepted>>

\* The request reaches storage, whatever becomes of its answer.
WireStores(i) ==
    /\ item[i].st = "wire" /\ temp[i[1]] # "none"
    /\ cloud' = cloud \cup {<<i[1], temp[i[1]]>>}
    /\ UNCHANGED <<life, crashes, entry, scan, callVars, waiter, diskVars, guard,
                   taskVars, stopVars, statVars, inline, refused, accepted>>

WireOk(i) ==
    /\ item[i].st = "wire" /\ temp[i[1]] # "none"
    /\ <<i[1], temp[i[1]]>> \in cloud
    /\ item' = [item EXCEPT ![i].st = "rmTemp", ![i].ok = TRUE,
                            ![i].attempts = 0, ![i].auth = FALSE]
    /\ failures' = 0
    /\ UNCHANGED <<life, crashes, entry, scan, callVars, waiter, diskVars, guard, chan,
                   worker, stopVars, pending, pendingBytes, inline, ghostVars>>

\* Disposition::Terminal (400, 403, 404).
WireTerminal(i) ==
    /\ item[i].st = "wire" /\ temp[i[1]] # "none"
    /\ GiveUp(i, FALSE)
    /\ UNCHANGED <<life, crashes, entry, scan, callVars, waiter, diskVars, guard, chan,
                   worker, stopVars, pending, pendingBytes, inline, cloud,
                   accepted>>

\* Disposition::Retryable; a missing file is one too.
WireRetryable(i) ==
    /\ item[i].st = "wire"
    /\ IF item[i].attempts >= MaxAttempts
       THEN GiveUp(i, TRUE)
       ELSE SetItem(i, "backoff") /\ UNCHANGED <<refused, failures>>
    /\ UNCHANGED <<life, crashes, entry, scan, callVars, waiter, diskVars, guard, chan,
                   worker, stopVars, pending, pendingBytes, inline, cloud,
                   accepted>>

Attempted(i) == Min({item[i].attempts + 1, MaxAttempts})

\* Disposition::AuthRefresh: one retry with fresh credentials, then the item
\* releases its permit and parks.
WireUnauthorized(i) ==
    /\ item[i].st = "wire" /\ temp[i[1]] # "none"
    /\ item' = [item EXCEPT ![i] =
          IF ~item[i].auth
          THEN [@ EXCEPT !.auth = TRUE, !.attempts = Attempted(i)]
          ELSE [@ EXCEPT !.st = "park", !.permit = FALSE]]
    /\ UNCHANGED <<life, crashes, entry, scan, callVars, waiter, diskVars, guard, chan,
                   worker, stopVars, statVars, inline, ghostVars>>

Backoff(i) ==
    /\ item[i].st = "backoff"
    /\ item' = [item EXCEPT ![i].st = "wire", ![i].attempts = Attempted(i)]
    /\ UNCHANGED <<life, crashes, entry, scan, callVars, waiter, diskVars, guard, chan,
                   worker, stopVars, statVars, inline, ghostVars>>

(* Mutant: a parked item never looks at its age. *)
Park_NoAge(i) ==
    /\ item[i].st = "park"
    /\ \/ /\ GiveUp(i, TRUE)
          /\ UNCHANGED waiter
       \/ /\ ~draining
          /\ waiter' = IF i[2] = "fresh" THEN Answer(i[1], "error") ELSE waiter
          /\ SetItem(i, "wait") /\ UNCHANGED <<refused, failures>>
    /\ UNCHANGED <<life, crashes, entry, scan, callVars, diskVars, guard, chan, worker,
                   stopVars, pending, pendingBytes, inline, cloud, accepted>>

\* Top of the park loop.  Draining gives up before anything else; then the
\* resolver may know that no recovery is possible; then the caller is told
\* and the age is checked.
Park(i) ==
    /\ item[i].st = "park"
    /\ \/ /\ GiveUp(i, TRUE)       \* draining, or no hook
          /\ UNCHANGED waiter
       \/ /\ ~draining
          /\ waiter' = IF i[2] = "fresh" THEN Answer(i[1], "error") ELSE waiter
          /\ IF Expired(i)
             THEN GiveUp(i, TRUE)
             ELSE SetItem(i, "wait") /\ UNCHANGED <<refused, failures>>
    /\ UNCHANGED <<life, crashes, entry, scan, callVars, diskVars, guard, chan, worker,
                   stopVars, pending, pendingBytes, inline, cloud, accepted>>

\* One wait slice: the credentials changed or a probe is due, or neither.
ParkSlice(i) ==
    /\ item[i].st = "wait"
    /\ \E st \in {"park", "woken"} : SetItem(i, st)
    /\ UNCHANGED <<life, crashes, entry, scan, callVars, waiter, diskVars, guard, chan,
                   worker, stopVars, statVars, inline, ghostVars>>

ParkWoken(i) ==
    /\ item[i].st = "woken"
    /\ IF draining THEN GiveUp(i, TRUE)
       ELSE IF Expired(i) THEN GiveUp(i, TRUE)
       ELSE SetItem(i, "reacquire") /\ UNCHANGED <<refused, failures>>
    /\ UNCHANGED <<life, crashes, entry, scan, callVars, waiter, diskVars, guard, chan,
                   worker, stopVars, pending, pendingBytes, inline, cloud,
                   accepted>>

Reacquire(i) ==
    /\ item[i].st = "reacquire"
    /\ PermitFree
    /\ item' = [item EXCEPT ![i].st = "wire", ![i].permit = TRUE,
                            ![i].auth = FALSE, ![i].attempts = Attempted(i)]
    /\ UNCHANGED <<life, crashes, entry, scan, callVars, waiter, diskVars, guard, chan,
                   worker, stopVars, statVars, inline, ghostVars>>

\* remove_item_files: the temp file first, then the sidecar.
RemoveTemp(i) ==
    /\ item[i].st = "rmTemp"
    /\ temp' = [temp EXCEPT ![i[1]] = "none"]
    /\ SetItem(i, "rmSide")
    /\ UNCHANGED <<life, crashes, entry, scan, callVars, waiter, sidecar, old, guard,
                   chan, worker, stopVars, statVars, inline, ghostVars>>

RemoveSidecar(i) ==
    /\ item[i].st = "rmSide"
    /\ sidecar' = [sidecar EXCEPT ![i[1]] = FALSE]
    /\ SetItem(i, "settle")
    /\ UNCHANGED <<life, crashes, entry, scan, callVars, waiter, temp, old, guard,
                   chan, worker, stopVars, statVars, inline, ghostVars>>

\* notify_completion and settle_pending; the task's end drops the permit and
\* the item's in-flight guard.
Settle(i) ==
    /\ item[i].st = "settle"
    /\ pending' = pending - 1
    /\ pendingBytes' = pendingBytes - item[i].bytes
    /\ waiter' = IF i[2] = "recovered" THEN waiter
                 ELSE Answer(i[1], IF item[i].ok THEN "ok" ELSE "error")
    /\ guard' = IF i[2] = "fresh" THEN guard \ {i[1]} ELSE guard
    /\ item' = [item EXCEPT ![i] = NoItem]
    /\ UNCHANGED <<life, crashes, entry, scan, callVars, diskVars, chan, worker,
                   stopVars, failures, inline, ghostVars>>

Task(i) ==
    \/ TaskStart(i) \/ WireStores(i) \/ WireOk(i) \/ WireTerminal(i) \/ WireRetryable(i)
    \/ WireUnauthorized(i) \/ Backoff(i) \/ Park(i) \/ ParkSlice(i)
    \/ ParkWoken(i) \/ Reacquire(i) \/ RemoveTemp(i) \/ RemoveSidecar(i)
    \/ Settle(i)

-----------------------------------------------------------------------------
(* drain, the end of a process life, and the next one                      *)

\* drain: takes the drain state, so a second call does nothing.
Drain ==
    /\ life = "up" /\ stop = "no"
    /\ stop' = "signal"
    /\ UNCHANGED <<life, crashes, entry, scan, callVars, waiter, diskVars, guard,
                   taskVars, draining, statVars, inline, ghostVars>>

(* Mutant: the aborted items' files are removed with them. *)
DrainTimeout_RemovesFiles ==
    /\ stop = "signal" /\ worker \notin {"done", "aborted"}
    /\ LET gone == {i \in Items : Live(i) /\ item[i].st \notin Settling}
           fresh == {a \in Artifacts : <<a, "fresh">> \in gone}
       IN  /\ item' = [i \in Items |-> IF i \in gone THEN NoItem ELSE item[i]]
           /\ waiter' = [a \in Artifacts |->
                  IF a \in fresh THEN Answer(a, "error")[a] ELSE waiter[a]]
           /\ guard' = guard \ fresh
           /\ temp' = [a \in Artifacts |->
                  IF a \in fresh THEN "none" ELSE temp[a]]
    /\ chan' = <<>>
    /\ worker' = "aborted"
    /\ UNCHANGED <<life, crashes, entry, scan, callVars, sidecar, old, stopVars,
                   statVars, inline, ghostVars>>

\* The deadline: the worker is aborted with its channel and its tasks, except
\* those already past their last await.  The files stay for the next life.
DrainTimeout ==
    /\ stop = "signal" /\ worker \notin {"done", "aborted"}
    /\ LET gone == {i \in Items : Live(i) /\ item[i].st \notin Settling}
           fresh == {a \in Artifacts : <<a, "fresh">> \in gone}
       IN  /\ item' = [i \in Items |-> IF i \in gone THEN NoItem ELSE item[i]]
           /\ waiter' = [a \in Artifacts |->
                  IF a \in fresh THEN Answer(a, "error")[a] ELSE waiter[a]]
           /\ guard' = guard \ fresh
    /\ chan' = <<>>
    /\ worker' = "aborted"
    /\ UNCHANGED <<life, crashes, entry, scan, callVars, diskVars, stopVars, statVars,
                   inline, ghostVars>>

\* The last clone of the handle is dropped without a drain.
DropHandles ==
    /\ life = "up" /\ stop = "no"
    /\ \A a \in Artifacts : ~Calling(a)
    /\ stop' = "dropped"
    /\ UNCHANGED <<life, crashes, entry, scan, callVars, waiter, diskVars, guard,
                   taskVars, draining, statVars, inline, ghostVars>>

\* The process ends.  Temp files are written without fsync, so with the machine going
\* down too any of them may come back torn; and a sidecar of this life may be missing.
Crash ==
    /\ life # "down" /\ crashes < MaxCrashes
    /\ crashes' = crashes + 1
    /\ life' = "down"
    /\ \E T \in SUBSET {a \in Artifacts : temp[a] = "whole"} :
          temp' = [a \in Artifacts |-> IF a \in T THEN "torn" ELSE temp[a]]
    /\ \E L \in SUBSET {a \in Artifacts : sidecar[a] /\ entry[a] = "cached"} :
          /\ sidecar' = [a \in Artifacts |-> sidecar[a] /\ a \notin L]
          /\ entry' = [a \in Artifacts |-> IF a \in L THEN "cut"
                                           ELSE IF entry[a] = "cut" THEN "cut" ELSE "synced"]
    /\ step' = [a \in Artifacts |-> IF Calling(a) THEN Returned ELSE step[a]]
    /\ waiter' = [a \in Artifacts |->
                      IF waiter[a] = "waiting" THEN "none" ELSE waiter[a]]
    /\ item' = [i \in Items |-> NoItem]
    /\ inline' = [a \in Artifacts |-> "none"]
    /\ guard' = {} /\ scan' = {} /\ chan' = <<>> /\ worker' = "loop"
    /\ draining' = FALSE /\ stop' = "no"
    /\ pending' = 0 /\ pendingBytes' = 0 /\ failures' = 0
    /\ UNCHANGED <<kind, old, ghostVars>>

Restart ==
    /\ life = "down"
    /\ life' = "boot"
    /\ UNCHANGED <<crashes, entry, scan, callVars, waiter, diskVars, guard, taskVars,
                   stopVars, statVars, inline, ghostVars>>

\* run_startup_recovery: the directory snapshot.
RecoverySnapshot ==
    /\ life = "boot"
    /\ life' = "scan"
    /\ scan' = {a \in Artifacts : sidecar[a]}
    /\ UNCHANGED <<crashes, entry, callVars, waiter, diskVars, guard, taskVars,
                   stopVars, statVars, inline, ghostVars>>

(* Mutant: a pair that cannot be enqueued again is removed. *)
EnqueueRecovered_RemovesRejected(a) ==
    LET fits == /\ pendingBytes + FileSize(a) <= MaxQueueBytes
                /\ ~Closed /\ Len(chan) < ChannelCapacity
        i == <<a, "recovered">>
    IN  /\ item' = IF fits THEN [item EXCEPT ![i] = [NoItem EXCEPT !.st = "queued"]]
                   ELSE item
        /\ chan' = IF fits THEN Append(chan, i) ELSE chan
        /\ pending' = IF fits THEN pending + 1 ELSE pending
        /\ pendingBytes' = IF fits THEN pendingBytes + FileSize(a)
                           ELSE pendingBytes
        /\ accepted' = IF fits THEN accepted \cup {a} ELSE accepted
        /\ temp' = IF fits THEN temp ELSE [temp EXCEPT ![a] = "none"]
        /\ sidecar' = IF fits THEN sidecar ELSE [sidecar EXCEPT ![a] = FALSE]
        /\ UNCHANGED <<old, refused>>

\* enqueue_recovered: no guard, no inline fallback; a refusal leaves the pair.
EnqueueRecovered(a) ==
    LET fits == /\ pendingBytes + FileSize(a) <= MaxQueueBytes
                /\ ~Closed /\ Len(chan) < ChannelCapacity
        i == <<a, "recovered">>
    IN  /\ item' = IF fits THEN [item EXCEPT ![i] = [NoItem EXCEPT !.st = "queued"]]
                   ELSE item
        /\ chan' = IF fits THEN Append(chan, i) ELSE chan
        /\ pending' = IF fits THEN pending + 1 ELSE pending
        /\ pendingBytes' = IF fits THEN pendingBytes + FileSize(a)
                           ELSE pendingBytes
        /\ accepted' = IF fits THEN accepted \cup {a} ELSE accepted
        /\ UNCHANGED <<diskVars, refused>>

\* delete_pair with a labelled "lost" or "expired" count.
DeletePair(a) ==
    /\ temp' = [temp EXCEPT ![a] = "none"]
    /\ sidecar' = [sidecar EXCEPT ![a] = FALSE]
    /\ refused' = refused \cup {a}
    /\ UNCHANGED <<item, chan, pending, pendingBytes, accepted, old>>

(* Mutant: the temp file's hash is not compared with the sidecar's. *)
Recover_NoHash(a) ==
    /\ life = "scan" /\ a \in scan
    /\ scan' = scan \ {a}
    /\ IF ~OnDisk(a) \/ old[a] THEN DeletePair(a) ELSE EnqueueRecovered(a)
    /\ UNCHANGED <<life, crashes, entry, callVars, waiter, guard, worker, stopVars,
                   failures, inline, cloud>>

\* One sidecar of the snapshot: unreadable, no temp, wrong hash, too old, or
\* good enough to enqueue again.
Recover(a) ==
    /\ life = "scan" /\ a \in scan
    /\ scan' = scan \ {a}
    /\ IF sidecar[a] /\ temp[a] = "whole" /\ ~old[a]
       THEN EnqueueRecovered(a)
       ELSE DeletePair(a)
    /\ UNCHANGED <<life, crashes, entry, callVars, waiter, guard, worker, stopVars,
                   failures, inline, cloud>>

\* cleanup_orphans: every file past max_age, pairs by their sidecar's time.
CleanupOrphans ==
    /\ life = "scan" /\ scan = {}
    /\ life' = "up"
    /\ temp' = [a \in Artifacts |-> IF old[a] THEN "none" ELSE temp[a]]
    /\ sidecar' = [a \in Artifacts |-> sidecar[a] /\ ~old[a]]
    /\ refused' = refused \cup {a \in Artifacts : old[a] /\ OnDisk(a)}
    /\ UNCHANGED <<crashes, entry, scan, callVars, waiter, old, guard, taskVars,
                   stopVars, statVars, inline, cloud, accepted>>

\* purge_spilled_items: a life with data collection disabled.
Purge ==
    /\ life = "boot" /\ ~Detached
    /\ life' = "up"
    /\ temp' = [a \in Artifacts |-> "none"]
    /\ sidecar' = [a \in Artifacts |-> FALSE]
    /\ refused' = refused \cup {a \in Artifacts : OnDisk(a)}
    /\ UNCHANGED <<crashes, entry, scan, callVars, waiter, old, guard, taskVars,
                   stopVars, statVars, inline, cloud, accepted>>

\* Time: max_age passes for a file, and for an item re-enqueued since.
Age(a) ==
    /\ life = "up" /\ ~old[a]
    /\ temp[a] # "none" \/ sidecar[a]
    /\ old' = [old EXCEPT ![a] = TRUE]
    /\ UNCHANGED <<life, crashes, entry, scan, callVars, waiter, temp, sidecar, guard,
                   taskVars, stopVars, statVars, inline, ghostVars>>

AgeRecovered(a) ==
    /\ life = "up" /\ old[a]
    /\ LET i == <<a, "recovered">>
       IN  /\ Live(i) /\ ~item[i].old
           /\ item' = [item EXCEPT ![i].old = TRUE]
    /\ UNCHANGED <<life, crashes, entry, scan, callVars, waiter, diskVars, guard, chan,
                   worker, stopVars, statVars, inline, ghostVars>>

-----------------------------------------------------------------------------
Init ==
    /\ life = "boot" /\ crashes = 0 /\ scan = {}
    /\ step = [a \in Artifacts |-> 0]
    /\ kind = [a \in Artifacts |-> "bytes"]
    /\ waiter = [a \in Artifacts |-> "none"]
    /\ temp = [a \in Artifacts |-> "none"]
    /\ sidecar = [a \in Artifacts |-> FALSE]
    /\ entry = [a \in Artifacts |-> "synced"]
    /\ old = [a \in Artifacts |-> FALSE]
    /\ guard = {}
    /\ item = [i \in Items |-> NoItem]
    /\ chan = <<>> /\ worker = "loop" /\ draining = FALSE /\ stop = "no"
    /\ pending = 0 /\ pendingBytes = 0 /\ failures = 0
    /\ inline = [a \in Artifacts |-> "none"]
    /\ cloud = {}
    /\ refused = {} /\ accepted = {}

Next ==
    \/ \E a \in Artifacts :
         \/ \E k \in KindsOf[a] : Begin(a, k)
         \/ Caller(a) \/ InlineAcquire(a) \/ InlineFinish(a)
         \/ Recover(a) \/ Age(a) \/ AgeRecovered(a)
    \/ Worker
    \/ \E i \in Items : Task(i)
    \/ Drain \/ DrainTimeout \/ DropHandles
    \/ Crash \/ Restart \/ RecoverySnapshot \/ CleanupOrphans \/ Purge

Spec == Init /\ [][Next]_vars

\* What is due for one artifact; each of these happens finitely often in a
\* life, so fairness to their disjunction is fairness to each.
Due(a) ==
    \/ Caller(a) \/ InlineAcquire(a) \/ InlineFinish(a)
    \/ Recover(a) \/ Age(a) \/ AgeRecovered(a)
Startup == Restart \/ RecoverySnapshot \/ Purge \/ CleanupOrphans

\* The runtime runs every ready task, clocks advance, and a process that went
\* down is started again.  Neither a call, nor a drain, nor its deadline, nor
\* a crash, nor the wake-up of a parked item need ever come.
FairSpec ==
    /\ Spec
    /\ \A a \in Artifacts : WF_vars(Due(a))
    /\ \A i \in Items : WF_vars(Task(i))
    /\ WF_vars(Worker) /\ WF_vars(Startup)

-----------------------------------------------------------------------------
TypeOK ==
    /\ life \in {"boot", "scan", "up", "down"} /\ crashes \in 0 .. MaxCrashes
    /\ scan \subseteq Artifacts /\ guard \subseteq Artifacts
    /\ step \in [Artifacts -> 0 .. Returned] /\ kind \in [Artifacts -> Kinds]
    /\ waiter \in [Artifacts -> {"none", "waiting", "ok", "error"}]
    /\ temp \in [Artifacts -> {"none", "torn", "whole"}]
    /\ sidecar \in [Artifacts -> BOOLEAN] /\ old \in [Artifacts -> BOOLEAN]
    /\ entry \in [Artifacts -> {"synced", "cached", "cut"}]
    /\ item \in [Items -> [st : TaskStates, permit : BOOLEAN,
                           attempts : 0 .. MaxAttempts, auth : BOOLEAN,
                           ok : BOOLEAN, bytes : Nat, old : BOOLEAN]]
    /\ chan \in Seq(Items) /\ Len(chan) <= ChannelCapacity
    /\ worker \in {"loop", "select", "permit", "cooldown", "drain", "drainPermit",
                   "join", "done", "aborted"}
    /\ draining \in BOOLEAN /\ stop \in {"no", "signal", "dropped"}
    /\ pending \in Nat /\ pendingBytes \in Nat /\ failures \in 0 .. BreakerThreshold
    /\ inline \in [Artifacts -> {"none", "wait", "run"}]
    /\ cloud \subseteq Artifacts \X {"torn", "whole"}
    /\ refused \subseteq Artifacts /\ accepted \subseteq Artifacts

-----------------------------------------------------------------------------
(* Properties                                                              *)


\* Once the queue has accepted an artifact with its sidecar (`Enqueued` from
\* enqueue_bytes_blocking or enqueue_blocking), it is in storage, or was given
\* up for a recorded reason, or its pair is still on disk for the worker or
\* the next startup's recovery, or a power cut took the sidecar before the
\* directory was written back: in no state, across crashes between any two
\* steps, drain timeouts and rejected re-enqueues, is it none of these.
NoSilentLoss ==
    \A a \in accepted :
      Delivered(a) \/ a \in refused \/ OnDisk(a) \/ entry[a] = "cut"

\* The queue, its callers, its crashes and its recovery implement the abstract
\* spool: an accepted artifact's pair leaves the disk only when it has been
\* delivered or refused, or by the power cut that took its sidecar; and what is
\* delivered stays delivered.
SpoolPromise == INSTANCE Spool WITH
    spool <- {a \in accepted : OnDisk(a)},
    store <- {a \in Artifacts : Delivered(a)},
    lost <- {a \in Artifacts : entry[a] = "cut"}
ImplementsSpool == SpoolPromise!Spec

\* A temp file torn by a crash or a failed write is never uploaded: recovery's
\* hash check stands between the unsynced temp and the worker.
TornNeverStored == \A a \in Artifacts : <<a, "torn">> \notin cloud

\* What the counters count: the live items, and the calls between the increment
\* and the send; one byte of each as a pair.
Counted ==
    {i \in Artifacts \X {"fresh", "recovered", "sending"} :
       IF i[2] = "sending" THEN At(i[1], "send") ELSE Live(i)}
CountedBytes == UNION {{i} \X (1 .. DiskBytes(i[1])) : i \in Counted}

\* stats.pending and stats.pending_bytes count exactly the live items and the
\* calls between the increment and the send, so that wait_idle's zero means
\* that every accepted item settled and the disk budget is not eaten up by
\* items long gone ("Total bytes of pending temp files on disk").
PendingExact ==
    worker # "aborted" =>
      /\ pending = Cardinality(Counted)
      /\ pendingBytes = Cardinality(CountedBytes)

\* A blocking caller that is told its upload succeeded finds the object, whole,
\* in storage, whichever of the worker and the inline fallback answered.
SuccessIsTruthful ==
    \A a \in Artifacts : waiter[a] = "ok" => Delivered(a)

\* An in-flight guard lives exactly as long as its call or its item: a leaked
\* one would deduplicate every later upload of that path into nothing, a lost
\* one would let two items spill the same object.
GuardsExact ==
    /\ guard = {a \in Artifacts :
                  /\ Deduplicates(a, kind[a])
                  /\ Calling(a) \/ Live(<<a, "fresh">>)}
    /\ \A a, b \in guard : PathOf[a] = PathOf[b] => a = b

\* Every item handed to the worker settles: uploaded, given up, or aborted
\* with the process; parking on 401 cannot outlast max_age, and permits held
\* by others cannot starve it.
ItemSettles ==
    \A a \in Artifacts :
      (\E i \in Items : i[1] = a /\ Live(i)) ~> \A i \in Items : i[1] = a => ~Live(i)

\* Every blocking caller is answered, also when its item parks, falls back to
\* the byte-gated inline path or is aborted by a drain deadline.
WaiterAnswered ==
    \A a \in Artifacts : waiter[a] = "waiting" ~> waiter[a] # "waiting"

\* A drain ends by itself, without its deadline, when the breaker is cooling
\* down, the permits are taken or items are parked.
DrainCompletes ==
    stop = "signal" ~> worker \in {"done", "aborted"} \/ life = "down"

=============================================================================
