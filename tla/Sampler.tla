------------------------------- MODULE Sampler -------------------------------
(***************************************************************************)
(* The sampler actor of crates/codegen/ainxt-sampler: a command loop that  *)
(* owns the table of in-flight requests, one spawned task per request that *)
(* runs the retry loop, and the callers that hold handles to the actor.    *)
(*                                                                         *)
(* A task is a number; it is allocated when its Submit command is sent.    *)
(* A sampling error is the set of the classifier's predicates that hold of *)
(* it (ErrorTraits), so one error may satisfy several of them and the      *)
(* order in which classify_error asks matters.  Streamed tokens, latency   *)
(* metrics, backoff lengths and the HTTP/1.1 client rebuild are data that  *)
(* no property tells apart and are left out; a backoff is the state        *)
(* "sleeping".  The queries IsActive and ActiveCount change no state.      *)
(***************************************************************************)
EXTENDS Integers, Sequences, FiniteSets

CONSTANTS
  Callers,             \* holders of a SamplerHandle
  Ids,                 \* the RequestIds callers use
  MaxTasks,            \* bound: number of Submit commands ever sent
  MaxQueue,            \* bound: commands waiting when a caller volunteers one
  MaxRetries,          \* resolve_max_retries(config, policy)
  RateLimitThreshold,  \* RetryPolicy.rate_limit_retry_threshold
  DoomMaxRetries,      \* DoomLoopRecoveryPolicy.max_retries, 0 without a policy
  Errors,              \* the sampling errors the server and transport produce
  Configs,             \* the actor's default configs: subset of {"valid", "broken"}
  ReuseIds             \* may a caller submit an id that was submitted before?

(* The predicates of SamplingError that the retry logic consults. *)
ErrorTraits == {"auth", "encrypted", "too_large", "image", "server_stop",
                "context_length", "rate_limited", "retryable", "body_rejected"}

ASSUME SamplerAssumption ==
  /\ MaxTasks \in Nat /\ MaxQueue \in Nat /\ MaxRetries \in Nat
  /\ RateLimitThreshold \in Nat /\ DoomMaxRetries \in Nat
  /\ Errors \subseteq SUBSET ErrorTraits
  /\ Configs \subseteq {"valid", "broken"} /\ "valid" \in Configs
  /\ ReuseIds \in BOOLEAN /\ Ids # {}
  /\ \A e \in Errors : "rate_limited" \in e => "retryable" \in e

Tasks == 1 .. MaxTasks
NoTask == 0
Gone == -1

VARIABLES
  phase,            \* the actor: polling its tasks, its channel, or shutting down
  cmds,             \* the unbounded command channel
  active_requests,  \* RequestId -> task whose cancel token is registered
  config,           \* the default SamplerConfig
  allocated,        \* number of Submits sent so far
  pc,               \* where each request task is
  request_id,       \* the id each task was submitted under
  cancelled,        \* the task's CancellationToken
  collect,          \* does the task carry a completion_tx?
  task_config,      \* effective_config, captured when the task is spawned
  images,           \* does the request still contain inline images?
  retry_count,      \* the transport budget spent
  doom_retry_count, \* the doom-loop budget spent
  rate_retries,     \* history: retries granted to a 429
  strips,           \* history: retries granted to an image strip
  sends,            \* history: HTTP requests sent
  late_sends,       \* history: of these, the ones sent after the token fired
  outcome,          \* the terminal event sent on event_tx
  answer,           \* what was sent on completion_tx
  caller            \* idle (NoTask), Gone, or the task it awaits

actorVars == <<phase, active_requests, config>>
budgetVars == <<retry_count, doom_retry_count, rate_retries, strips, sends, late_sends, images>>
submitVars == <<allocated, request_id, collect>>
vars == <<phase, cmds, active_requests, config, allocated, pc, request_id, cancelled,
          collect, task_config, images, retry_count, doom_retry_count, rate_retries,
          strips, sends, late_sends, outcome, answer, caller>>

Phases == {"select", "recv", "draining", "stopped"}
Running == {"building", "top", "opening", "connecting", "streaming", "sleeping", "answering"}
PcValues == Running \cup {"free", "queued", "done", "joined", "aborted"}
Outcomes == {"none", "completed", "failed", "exhausted", "rate_limited", "cancelled"}

Commands ==
       [op : {"submit"}, task : Tasks, config : Configs \cup {"default"}]
  \cup [op : {"cancel"}, id : Ids]
  \cup [op : {"update_config"}, config : Configs]

(* One invariant of types, shared by every run. *)
TypeOK ==
  /\ phase \in Phases
  /\ cmds \in Seq(Commands)
  /\ active_requests \in [Ids -> Tasks \cup {NoTask}]
  /\ config \in Configs
  /\ allocated \in 0 .. MaxTasks
  /\ pc \in [Tasks -> PcValues]
  /\ request_id \in [Tasks -> Ids]
  /\ cancelled \in [Tasks -> BOOLEAN]
  /\ collect \in [Tasks -> BOOLEAN]
  /\ task_config \in [Tasks -> Configs]
  /\ images \in [Tasks -> BOOLEAN]
  /\ retry_count \in [Tasks -> Nat]
  /\ doom_retry_count \in [Tasks -> Nat]
  /\ rate_retries \in [Tasks -> Nat]
  /\ strips \in [Tasks -> Nat]
  /\ sends \in [Tasks -> Nat]
  /\ late_sends \in [Tasks -> Nat]
  /\ outcome \in [Tasks -> Outcomes]
  /\ answer \in [Tasks -> {"none", "ok", "err"}]
  /\ caller \in [Callers -> Tasks \cup {NoTask, Gone}]

Init ==
  /\ phase = "select"
  /\ cmds = <<>>
  /\ active_requests = [i \in Ids |-> NoTask]
  /\ config \in Configs
  /\ allocated = 0
  /\ pc = [t \in Tasks |-> "free"]
  /\ \E i \in Ids : request_id = [t \in Tasks |-> i]   \* unread until allocated
  /\ cancelled = [t \in Tasks |-> FALSE]
  /\ collect = [t \in Tasks |-> FALSE]
  /\ task_config = [t \in Tasks |-> "valid"]
  /\ images = [t \in Tasks |-> FALSE]
  /\ retry_count = [t \in Tasks |-> 0]
  /\ doom_retry_count = [t \in Tasks |-> 0]
  /\ rate_retries = [t \in Tasks |-> 0]
  /\ strips = [t \in Tasks |-> 0]
  /\ sends = [t \in Tasks |-> 0]
  /\ late_sends = [t \in Tasks |-> 0]
  /\ outcome = [t \in Tasks |-> "none"]
  /\ answer = [t \in Tasks |-> "none"]
  /\ caller = [c \in Callers |-> NoTask]

-----------------------------------------------------------------------------
(* The handle: every method sends one command and returns at once. *)

Send(cmd) == cmds' = Append(cmds, cmd)

Volunteer(c) == caller[c] = NoTask /\ Len(cmds) < MaxQueue

UsedIds == {request_id[t] : t \in {u \in Tasks : u <= allocated}}

(* handle.submit and submit_with_config (collecting = FALSE) and the      *)
(* sending half of handle.submit_and_collect (collecting = TRUE, the       *)
(* caller then awaits the completion oneshot).  cfg is the request's own   *)
(* config, "default" without one.                                         *)
Submit(c, i, collecting, with_images, cfg) ==
  LET t == allocated + 1 IN
  /\ Volunteer(c)
  /\ allocated < MaxTasks
  /\ ReuseIds \/ i \notin UsedIds
  /\ collecting => cfg = "default"
  /\ allocated' = t
  /\ pc' = [pc EXCEPT ![t] = "queued"]
  /\ request_id' = [request_id EXCEPT ![t] = i]
  /\ collect' = [collect EXCEPT ![t] = collecting]
  /\ images' = [images EXCEPT ![t] = with_images]
  /\ caller' = [caller EXCEPT ![c] = IF collecting THEN t ELSE NoTask]
  /\ Send([op |-> "submit", task |-> t, config |-> cfg])
  /\ UNCHANGED <<actorVars, cancelled, task_config, retry_count, doom_retry_count,
                 rate_retries, strips, sends, late_sends, outcome, answer>>

Cancel(c, i) ==
  /\ Volunteer(c)
  /\ Send([op |-> "cancel", id |-> i])
  /\ UNCHANGED <<actorVars, submitVars, pc, cancelled, task_config, budgetVars,
                 outcome, answer, caller>>

UpdateConfig(c, cfg) ==
  /\ Volunteer(c)
  /\ Send([op |-> "update_config", config |-> cfg])
  /\ UNCHANGED <<actorVars, submitVars, pc, cancelled, task_config, budgetVars,
                 outcome, answer, caller>>

(* submit_and_collect leaves: its future returns the answer or is dropped *)
(* by the caller.  Either way CancelOnDrop sends Cancel for the same id.   *)
CollectReturns(c) ==
  /\ caller[c] \in Tasks
  /\ answer[caller[c]] # "none"
  /\ Send([op |-> "cancel", id |-> request_id[caller[c]]])
  /\ caller' = [caller EXCEPT ![c] = NoTask]
  /\ UNCHANGED <<actorVars, submitVars, pc, cancelled, task_config, budgetVars,
                 outcome, answer>>

CollectDropped(c) ==
  /\ caller[c] \in Tasks
  /\ answer[caller[c]] = "none"
  /\ Send([op |-> "cancel", id |-> request_id[caller[c]]])
  /\ caller' = [caller EXCEPT ![c] = NoTask]
  /\ UNCHANGED <<actorVars, submitVars, pc, cancelled, task_config, budgetVars,
                 outcome, answer>>

DropHandle(c) ==
  /\ caller[c] = NoTask
  /\ caller' = [caller EXCEPT ![c] = Gone]
  /\ UNCHANGED <<cmds, actorVars, submitVars, pc, cancelled, task_config, budgetVars,
                 outcome, answer>>

-----------------------------------------------------------------------------
(* The actor's loop: a biased select, tasks.join_next() before            *)
(* cmd_rx.recv().  "recv" is the instant after join_next was found pending. *)

Finished == {t \in Tasks : pc[t] = "done"}

(* Mutant: the finished task's id stays registered. *)
JoinNext_KeepsEntry(t) ==
  /\ phase = "select" \/ (phase = "recv" /\ cmds = <<>>)
  /\ pc[t] = "done"
  /\ phase' = "select"
  /\ pc' = [pc EXCEPT ![t] = "joined"]
  /\ UNCHANGED <<cmds, active_requests, config, submitVars, cancelled, task_config, budgetVars,
                 outcome, answer, caller>>

(* A finished task hands back its request id, and that id is removed.  The *)
(* Err arm needs a panic, which aborts the process (panic = "abort").     *)
JoinNext(t) ==
  /\ phase = "select" \/ (phase = "recv" /\ cmds = <<>>)
  /\ pc[t] = "done"
  /\ phase' = "select"
  /\ pc' = [pc EXCEPT ![t] = "joined"]
  /\ active_requests' = [active_requests EXCEPT ![request_id[t]] = NoTask]
  /\ UNCHANGED <<cmds, config, submitVars, cancelled, task_config, budgetVars,
                 outcome, answer, caller>>

NothingToJoin ==
  /\ phase = "select"
  /\ Finished = {}
  /\ phase' = "recv"
  /\ UNCHANGED <<cmds, active_requests, config, submitVars, pc, cancelled, task_config,
                 budgetVars, outcome, answer, caller>>

Received(op) ==
  /\ phase = "recv"
  /\ cmds # <<>>
  /\ Head(cmds).op = op
  /\ cmds' = Tail(cmds)
  /\ phase' = "select"

(* register() displaces an older entry of the same id, whose token is     *)
(* cancelled, and the task starts with the config of its Submit or, when   *)
(* that has none, with the one in force now.                              *)
HandleSubmit ==
  /\ Received("submit")
  /\ LET t == Head(cmds).task
         cfg == Head(cmds).config
         prev == active_requests[request_id[t]]
     IN /\ active_requests' = [active_requests EXCEPT ![request_id[t]] = t]
        /\ cancelled' = [u \in Tasks |-> cancelled[u] \/ u = prev]
        /\ task_config' = [task_config EXCEPT ![t] = IF cfg = "default" THEN config ELSE cfg]
        /\ pc' = [pc EXCEPT ![t] = "building"]
  /\ UNCHANGED <<config, submitVars, budgetVars, outcome, answer, caller>>

(* Mutant: the entry is removed, its token is not cancelled. *)
HandleCancel_TokenLost ==
  /\ Received("cancel")
  /\ active_requests' = [active_requests EXCEPT ![Head(cmds).id] = NoTask]
  /\ UNCHANGED <<config, submitVars, pc, cancelled, task_config, budgetVars, outcome, answer,
                 caller>>

HandleCancel ==
  /\ Received("cancel")
  /\ LET i == Head(cmds).id
     IN /\ cancelled' = [u \in Tasks |-> cancelled[u] \/ u = active_requests[i]]
        /\ active_requests' = [active_requests EXCEPT ![i] = NoTask]
  /\ UNCHANGED <<config, submitVars, pc, task_config, budgetVars, outcome, answer, caller>>

HandleUpdateConfig ==
  /\ Received("update_config")
  /\ config' = Head(cmds).config
  /\ UNCHANGED <<active_requests, submitVars, pc, cancelled, task_config, budgetVars,
                 outcome, answer, caller>>

(* recv() yields None once every handle is gone and the channel is empty; *)
(* the registered tokens are cancelled and the tasks are shut down.       *)
AllHandlesDropped == \A c \in Callers : caller[c] = Gone

BeginShutdown ==
  /\ phase = "recv"
  /\ cmds = <<>>
  /\ AllHandlesDropped
  /\ phase' = "draining"
  /\ cancelled' = [t \in Tasks |-> cancelled[t] \/ \E i \in Ids : active_requests[i] = t]
  /\ active_requests' = [i \in Ids |-> NoTask]
  /\ UNCHANGED <<cmds, config, submitVars, pc, task_config, budgetVars, outcome, answer, caller>>

(* tasks.shutdown(): an abort lands where the task is suspended (or was   *)
(* never polled), so a task between two awaits still runs to the next one. *)
AbortTask(t) ==
  /\ phase = "draining"
  /\ pc[t] \in {"building", "connecting", "streaming", "sleeping"}
  /\ pc' = [pc EXCEPT ![t] = "aborted"]
  /\ UNCHANGED <<cmds, actorVars, submitVars, cancelled, task_config, budgetVars,
                 outcome, answer, caller>>

(* Mutant: shutdown waits for the joins the loop no longer makes. *)
Stop_AwaitsJoins ==
  /\ phase = "draining"
  /\ \A t \in Tasks : pc[t] \notin Running
  /\ Finished = {}
  /\ phase' = "stopped"
  /\ UNCHANGED <<cmds, active_requests, config, submitVars, pc, cancelled, task_config,
                 budgetVars, outcome, answer, caller>>

Stop ==
  /\ phase = "draining"
  /\ \A t \in Tasks : pc[t] \notin Running
  /\ phase' = "stopped"
  /\ UNCHANGED <<cmds, active_requests, config, submitVars, pc, cancelled, task_config,
                 budgetVars, outcome, answer, caller>>

-----------------------------------------------------------------------------
(* The retry classifier.  The order of the tests is the source's. *)

EffectiveThreshold == IF RateLimitThreshold = 0 THEN 2 ELSE RateLimitThreshold

RateLimitCap == IF MaxRetries < EffectiveThreshold THEN MaxRetries ELSE EffectiveThreshold

classify_error(e, r) ==
  IF "auth" \in e \/ "encrypted" \in e THEN "emit_to_session"
  ELSE IF "too_large" \in e \/ "image" \in e THEN "image_strip"
  ELSE IF "server_stop" \in e \/ "context_length" \in e THEN "fatal"
  ELSE IF "rate_limited" \in e
       THEN IF r + 1 >= RateLimitCap THEN "fatal" ELSE "retry_with_backoff"
  ELSE IF "retryable" \in e
       THEN IF r + 1 >= MaxRetries THEN "fatal"
            ELSE IF r + 1 = 1 THEN "client_rebuild" ELSE "retry"
  ELSE "fatal"

(* budget_exhausted in the Fatal arm, which names the terminal event.     *)
FailureKind(e, r) ==
  IF classify_error(e, r) # "fatal" \/ "server_stop" \in e THEN "failed"
  ELSE IF "rate_limited" \in e
       THEN IF r + 1 >= RateLimitCap THEN "rate_limited" ELSE "failed"
  ELSE IF "retryable" \in e /\ r + 1 >= MaxRetries THEN "exhausted" ELSE "failed"

(* What drive_l2 makes of a response the stream completed: a loop while   *)
(* the abort is armed, then truncation, then emptiness.                   *)
Responses == [doom : BOOLEAN, stop : {"stop", "length", "content_filter"}, empty : BOOLEAN]

Truncated == {}
EmptyResponse == {"retryable"}

DoomArmed(t) == doom_retry_count[t] < DoomMaxRetries

-----------------------------------------------------------------------------
(* The request task. *)

(* The terminal event is sent first, then the completion oneshot. *)
Finish(t, o) ==
  /\ outcome' = [outcome EXCEPT ![t] = o]
  /\ pc' = [pc EXCEPT ![t] = "answering"]

taskFrame == <<cmds, actorVars, submitVars, cancelled, task_config, answer, caller>>

(* Mutant: a failure is reported on the event channel only. *)
SendCompletion_OkOnly(t) ==
  /\ pc[t] = "answering"
  /\ answer' = [answer EXCEPT ![t] =
                 IF collect[t] /\ outcome[t] = "completed" THEN "ok" ELSE "none"]
  /\ pc' = [pc EXCEPT ![t] = "done"]
  /\ UNCHANGED <<cmds, actorVars, submitVars, cancelled, task_config, budgetVars,
                 outcome, caller>>

(* Mutant: a task nobody collects from waits for a receiver. *)
SendCompletion_NeedsReceiver(t) ==
  /\ pc[t] = "answering"
  /\ collect[t]
  /\ answer' = [answer EXCEPT ![t] = IF outcome[t] = "completed" THEN "ok" ELSE "err"]
  /\ pc' = [pc EXCEPT ![t] = "done"]
  /\ UNCHANGED <<cmds, actorVars, submitVars, cancelled, task_config, budgetVars,
                 outcome, caller>>

SendCompletion(t) ==
  /\ pc[t] = "answering"
  /\ answer' = [answer EXCEPT ![t] =
                 IF ~collect[t] THEN "none"
                 ELSE IF outcome[t] = "completed" THEN "ok" ELSE "err"]
  /\ pc' = [pc EXCEPT ![t] = "done"]
  /\ UNCHANGED <<cmds, actorVars, submitVars, cancelled, task_config, budgetVars,
                 outcome, caller>>

(* Mutant: no return after a client that cannot be built. *)
BuildClient_FallsThrough(t) ==
  /\ pc[t] = "building"
  /\ pc' = [pc EXCEPT ![t] = "top"]
  /\ outcome' = [outcome EXCEPT ![t] = IF task_config[t] = "broken" THEN "failed" ELSE @]
  /\ UNCHANGED <<taskFrame, budgetVars>>

(* SamplingClient::new rejects a broken configuration. *)
BuildClient(t) ==
  /\ pc[t] = "building"
  /\ \/ /\ task_config[t] = "valid"
        /\ pc' = [pc EXCEPT ![t] = "top"]
        /\ UNCHANGED outcome
     \/ /\ task_config[t] = "broken"
        /\ Finish(t, "failed")
  /\ UNCHANGED <<taskFrame, budgetVars>>

(* Mutant: the stream's select has no cancellation branch. *)
NoticeCancel_TopOnly(t) ==
  /\ pc[t] = "top"
  /\ cancelled[t]
  /\ Finish(t, "cancelled")
  /\ UNCHANGED <<taskFrame, budgetVars>>

NoticeCancel(t) ==
  /\ pc[t] \in {"top", "streaming"}
  /\ cancelled[t]
  /\ Finish(t, "cancelled")
  /\ UNCHANGED <<taskFrame, budgetVars>>

(* Mutant: the token is not looked at before a retry. *)
CheckToken_Never(t) ==
  /\ pc[t] = "top"
  /\ pc' = [pc EXCEPT ![t] = "opening"]
  /\ UNCHANGED <<taskFrame, outcome, budgetVars>>

(* The loop's test of the token.  From here the attempt has no await      *)
(* until its request is out, but a Cancel handled on another thread can   *)
(* fire the token in between.                                             *)
CheckToken(t) ==
  /\ pc[t] = "top"
  /\ ~cancelled[t]
  /\ pc' = [pc EXCEPT ![t] = "opening"]
  /\ UNCHANGED <<taskFrame, outcome, budgetVars>>

(* conversation_stream sends the HTTP request. *)
SendRequest(t) ==
  /\ pc[t] = "opening"
  /\ pc' = [pc EXCEPT ![t] = "connecting"]
  /\ sends' = [sends EXCEPT ![t] = @ + 1]
  /\ late_sends' = [late_sends EXCEPT ![t] = @ + (IF cancelled[t] THEN 1 ELSE 0)]
  /\ UNCHANGED <<taskFrame, outcome, retry_count, doom_retry_count, rate_retries, strips,
                 images>>

(* apply_retry_decision.  A body rejected in mid-upload loses its images  *)
(* before the decision is carried out.                                    *)
ImagesLeft(t, e) == images[t] /\ "body_rejected" \notin e

RetryAfterSleep(t, e) ==
  /\ classify_error(e, retry_count[t]) \in {"retry", "retry_with_backoff", "client_rebuild"}
  /\ retry_count' = [retry_count EXCEPT ![t] = @ + 1]
  /\ rate_retries' = [rate_retries EXCEPT ![t] = @ + (IF "rate_limited" \in e THEN 1 ELSE 0)]
  /\ images' = [images EXCEPT ![t] = ImagesLeft(t, e)]
  /\ pc' = [pc EXCEPT ![t] = "sleeping"]
  /\ UNCHANGED <<outcome, strips>>

(* Mutant: the strip is refunded to the budget. *)
RetryStripped_Refunds(t, e) ==
  /\ classify_error(e, retry_count[t]) = "image_strip"
  /\ ImagesLeft(t, e)
  /\ retry_count' = [retry_count EXCEPT ![t] = @ - 1]
  /\ strips' = [strips EXCEPT ![t] = @ + 1]
  /\ images' = [images EXCEPT ![t] = FALSE]
  /\ pc' = [pc EXCEPT ![t] = "top"]
  /\ UNCHANGED <<outcome, rate_retries>>

(* Mutant: the strip's resend is not counted as an attempt. *)
RetryStripped_Uncounted(t, e) ==
  /\ classify_error(e, retry_count[t]) = "image_strip"
  /\ ImagesLeft(t, e)
  /\ strips' = [strips EXCEPT ![t] = @ + 1]
  /\ images' = [images EXCEPT ![t] = FALSE]
  /\ pc' = [pc EXCEPT ![t] = "top"]
  /\ UNCHANGED <<outcome, rate_retries, retry_count>>

(* Mutant: the images survive the strip. *)
RetryStripped_KeepsImages(t, e) ==
  /\ classify_error(e, retry_count[t]) = "image_strip"
  /\ ImagesLeft(t, e)
  /\ retry_count' = [retry_count EXCEPT ![t] = @ + 1]
  /\ strips' = [strips EXCEPT ![t] = @ + 1]
  /\ pc' = [pc EXCEPT ![t] = "top"]
  /\ UNCHANGED <<outcome, rate_retries, images>>

RetryStripped(t, e) ==
  /\ classify_error(e, retry_count[t]) = "image_strip"
  /\ ImagesLeft(t, e)
  /\ retry_count' = [retry_count EXCEPT ![t] = @ + 1]
  /\ strips' = [strips EXCEPT ![t] = @ + 1]
  /\ images' = [images EXCEPT ![t] = FALSE]
  /\ pc' = [pc EXCEPT ![t] = "top"]
  /\ UNCHANGED <<outcome, rate_retries>>

GiveUp(t, e) ==
  /\ \/ classify_error(e, retry_count[t]) \in {"emit_to_session", "fatal"}
     \/ classify_error(e, retry_count[t]) = "image_strip" /\ ~ImagesLeft(t, e)
  /\ Finish(t, FailureKind(e, retry_count[t]))
  /\ images' = [images EXCEPT ![t] = ImagesLeft(t, e)]
  /\ UNCHANGED <<retry_count, rate_retries, strips>>

apply_retry_decision(t, e) ==
  /\ RetryAfterSleep(t, e) \/ RetryStripped(t, e) \/ GiveUp(t, e)
  /\ UNCHANGED <<taskFrame, doom_retry_count, sends, late_sends>>

(* Opening the stream: no cancellation branch, and no timeout once the    *)
(* connection is up.                                                      *)
InitFailed(t, e) ==
  /\ pc[t] = "connecting"
  /\ apply_retry_decision(t, e)

StreamOpened(t) ==
  /\ pc[t] = "connecting"
  /\ pc' = [pc EXCEPT ![t] = "streaming"]
  /\ UNCHANGED <<taskFrame, outcome, budgetVars>>

(* Driving the stream: cancellation is polled before the next event. *)
StreamFailed(t, e) ==
  /\ pc[t] = "streaming"
  /\ ~cancelled[t]
  /\ apply_retry_decision(t, e)

(* A loop reported mid-stream or on the final response, while armed:      *)
(* resampled on its own budget.                                           *)
DoomLoopDetected(t) ==
  /\ pc[t] = "streaming"
  /\ ~cancelled[t]
  /\ DoomArmed(t)
  /\ doom_retry_count' = [doom_retry_count EXCEPT ![t] = @ + 1]
  /\ pc' = [pc EXCEPT ![t] = "sleeping"]
  /\ UNCHANGED <<taskFrame, outcome, retry_count, rate_retries, strips, sends, late_sends,
                 images>>

StreamCompleted(t, r) ==
  /\ pc[t] = "streaming"
  /\ ~cancelled[t]
  /\ ~(r.doom /\ DoomArmed(t))
  /\ \/ r.stop = "length" /\ apply_retry_decision(t, Truncated)
     \/ r.stop = "stop" /\ r.empty /\ apply_retry_decision(t, EmptyResponse)
     \/ /\ r.stop = "content_filter" \/ (r.stop = "stop" /\ ~r.empty)
        /\ Finish(t, "completed")
        /\ UNCHANGED <<taskFrame, budgetVars>>

WakeUp(t) ==
  /\ pc[t] = "sleeping"
  /\ pc' = [pc EXCEPT ![t] = "top"]
  /\ UNCHANGED <<taskFrame, outcome, budgetVars>>

-----------------------------------------------------------------------------
CallerNext(c) ==
  \/ \E i \in Ids, collecting, with_images \in BOOLEAN, cfg \in Configs \cup {"default"} :
       Submit(c, i, collecting, with_images, cfg)
  \/ \E i \in Ids : Cancel(c, i)
  \/ \E cfg \in Configs : UpdateConfig(c, cfg)
  \/ CollectReturns(c)
  \/ CollectDropped(c)
  \/ DropHandle(c)

ActorNext ==
  \/ \E t \in Tasks : JoinNext(t)
  \/ NothingToJoin
  \/ HandleSubmit
  \/ HandleCancel
  \/ HandleUpdateConfig
  \/ BeginShutdown
  \/ \E t \in Tasks : AbortTask(t)
  \/ Stop

(* What a task does on its own once it is scheduled ... *)
TaskStep(t) ==
  \/ BuildClient(t) \/ NoticeCancel(t) \/ CheckToken(t) \/ SendRequest(t)
  \/ WakeUp(t) \/ SendCompletion(t)

(* ... and what needs an answer from the server or the transport. *)
Connect(t) == StreamOpened(t) \/ \E e \in Errors : InitFailed(t, e)

Stream(t) ==
  \/ DoomLoopDetected(t)
  \/ \E e \in Errors : StreamFailed(t, e)
  \/ \E r \in Responses : StreamCompleted(t, r)

(* The actor's future has returned. *)
Terminated == phase = "stopped" /\ UNCHANGED vars

Next ==
  \/ \E c \in Callers : CallerNext(c)
  \/ ActorNext
  \/ \E t \in Tasks : TaskStep(t) \/ Connect(t) \/ Stream(t)
  \/ Terminated

Spec == Init /\ [][Next]_vars

-----------------------------------------------------------------------------
(* Fairness.  The tokio scheduler polls every ready task, the actor       *)
(* included, and timers fire.  Nothing is assumed of a connection attempt: *)
(* once connected, an opening stream has no timeout.                      *)
OwnFairness ==
  /\ WF_vars(ActorNext)
  /\ \A t \in Tasks : WF_vars(TaskStep(t))
  /\ \A c \in Callers : WF_vars(CollectReturns(c))

FairSpec == Spec /\ OwnFairness

(* An open stream ends: it completes, breaks, or meets the idle timeout. *)
StreamFairness == \A t \in Tasks : WF_vars(Stream(t))

-----------------------------------------------------------------------------
(* Properties. *)

Serving == phase \in {"select", "recv"}

InFlight(t) == pc[t] \in Running

(* handle.is_active and handle.cancel find a request by its id in          *)
(* active_requests (actor/mod.rs): every request in flight that was not    *)
(* cancelled must be there, whatever order submits, cancels, the guard's   *)
(* late Cancel and the joins of finished tasks came in.                    *)
InFlightIsActive ==
  Serving => \A t \in Tasks :
    InFlight(t) /\ ~cancelled[t] => active_requests[request_id[t]] = t

(* The converse: an entry of active_requests always stands for a spawned,  *)
(* unjoined, uncancelled task of that very id, so active_count never       *)
(* counts a ghost for longer than its join takes.                          *)
ActiveIsInFlight ==
  \A i \in Ids :
    LET t == active_requests[i] IN
    t # NoTask => /\ InFlight(t) \/ pc[t] = "done"
                  /\ ~cancelled[t]
                  /\ request_id[t] = i

(* metrics.attempts is computed as retry_count + doom_retry_count + 1       *)
(* (request_task.rs): that is the number of HTTP requests really sent.     *)
AttemptsAccounted ==
  \A t \in Tasks :
    pc[t] \in {"connecting", "streaming"} \/ outcome[t] = "completed" =>
      sends[t] = retry_count[t] + doom_retry_count[t] + 1

(* The retry loop ends: a request costs at most MaxRetries HTTP requests   *)
(* (one when MaxRetries is 0), one more for the single image strip, which  *)
(* no budget gates, and DoomMaxRetries resamples.                          *)
SendBound == (IF MaxRetries = 0 THEN 1 ELSE MaxRetries) + 1 + DoomMaxRetries

SendsBounded ==
  \A t \in Tasks : sends[t] <= SendBound /\ strips[t] <= 1

(* A caller inside submit_and_collect is never left with a dropped         *)
(* oneshot (handle.rs, "sampler actor dropped before completion"): its own *)
(* handle keeps the actor serving, and its task answers before it ends.    *)
NoOrphanedCaller ==
  \A c \in Callers : caller[c] \in Tasks =>
    LET t == caller[c] IN
    /\ Serving
    /\ pc[t] # "aborted"
    /\ pc[t] \in {"done", "joined"} =>
         answer[t] = (IF outcome[t] = "completed" THEN "ok" ELSE "err")

(* A cancel is worth at most one more HTTP request: the one whose token   *)
(* test the cancel just missed (request_task.rs:125, then 430).  A cancel  *)
(* that lands during connect, backoff or an image strip, which do not poll *)
(* the token, costs no retry and no resample afterwards.                   *)
OneSendAfterCancel == \A t \in Tasks : late_sends[t] <= 1

(* The terminal event is the last thing a request does: no retry, no       *)
(* resample, no second terminal event follows it on the event channel.     *)
TerminalIsLast ==
  [][\A t \in Tasks : outcome[t] # "none" =>
       /\ outcome'[t] = outcome[t]
       /\ sends'[t] = sends[t]
       /\ retry_count'[t] + doom_retry_count'[t] = retry_count[t] + doom_retry_count[t]]_vars

(* The request waits for a server that accepted the connection and never  *)
(* answers (request_task.rs:430): nothing in the task wakes it.           *)
Unanswered(t) == [](pc[t] = "connecting")

(* Every request that reaches the actor is answered, cancelled or aborted, *)
(* provided that open streams end, unless the server leaves it unanswered. *)
EveryRequestEnds ==
  StreamFairness =>
    \A t \in Tasks :
      (pc[t] = "queued") ~> (pc[t] \in {"done", "joined", "aborted"} \/ Unanswered(t))

(* Cancel takes effect whatever the server does: a request whose token     *)
(* fired stops, also in a stream that never yields another event, unless   *)
(* it is still unanswered, where the token is not polled.                  *)
CancelTakesEffect ==
  \A t \in Tasks : cancelled[t] ~> (~InFlight(t) \/ Unanswered(t))

(* Dropping the last handle stops the actor and every task of it. *)
ShutdownCompletes ==
  AllHandlesDropped ~> (phase = "stopped" /\ \A t \in Tasks : ~InFlight(t))

(* retry.rs: "After this many rate-limit (429) retries, escalate": a        *)
(* request that fails as rate limited was granted that many 429 retries.   *)
RateLimitRetriesGranted ==
  \A t \in Tasks : outcome[t] = "rate_limited" => rate_retries[t] >= RateLimitCap
=============================================================================
