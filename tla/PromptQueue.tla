---------------------------- MODULE PromptQueue ----------------------------
(***************************************************************************)
(* The prompt queue of a session (crates/codegen/ainxt-shell/src/session): *)
(* the actor loop that owns pending_inputs, the turn it promotes from the  *)
(* front of the queue, and the two background tasks that also promote.     *)
(*                                                                         *)
(* Everything runs on one thread, so a step is what happens between two    *)
(* awaits: a handler of the actor is a walk through the labels of "at",    *)
(* and the turn's task and the background tasks move in between.  The      *)
(* loop's select is biased: a completion is taken before a command.        *)
(*                                                                         *)
(* A message is a number, given when it is sent: a prompt, an              *)
(* interjection or a synthetic input.  Texts, versions, owners and the     *)
(* broadcasts are left out: a queue command with a stale version or a      *)
(* foreign owner changes nothing, and an edit changes only the text.       *)
(***************************************************************************)
EXTENDS Integers, Sequences, SequencesExt

CONSTANTS
  MaxMsgs,     \* bound: messages ever sent
  Kinds,       \* the kinds of messages sent to this session
  Background,  \* are MCP initialisation and a plan approval outstanding?
  Rewinds,     \* do clients cancel with rewind_if_pristine?
  QueueOps     \* do clients remove, clear, reorder and send now queued rows?

(* PromptOrigin, with the two ways a User item is made told apart: "user"  *)
(* is a client's session/prompt, "interject" a direct interjection.        *)
AllKinds == {"user", "interject", "cron", "wake", "goal", "plan", "drain"}

ASSUME QueueAssumption ==
  /\ MaxMsgs \in Nat
  /\ Kinds \subseteq AllKinds
  /\ Background \in BOOLEAN /\ Rewinds \in BOOLEAN /\ QueueOps \in BOOLEAN

Msgs == 1 .. MaxMsgs
None == 0

VARIABLES
  allocated,                \* messages sent so far
  kind,                     \* what each message is
  send_now,                 \* InputItem.send_now
  pending_inputs,           \* the queue; the running turn stays at its front
  running_task,             \* the prompt id of State.running_task
  current_prompt_id,        \* the pin, outside the state lock
  rewindable,
  pending_interjections,    \* texts to be merged into the running turn
  pending_notifications,    \* the batch of notifications waiting, if any
  notifications_suppressed,
  goal_active,              \* goal_loop_active_gate
  blocked_in_wait,          \* blocking_wait_depth > 0
  auto_wake_delivered,      \* completions not to be reported again
  turn,                     \* the task of each message that was promoted
  completions,              \* the completion channel
  at,                       \* where the actor's handler is
  job,                      \* the handler's local variables
  mcp, plan,                \* the background tasks
  runs,                     \* history: times promoted
  rewind_since_drain,       \* history: did a cancel rewind since the batch was last looked at?
  terminals,                \* history: TurnCompleted events emitted
  fate                      \* history: what became of the message

msgVars == <<allocated, kind>>
taskVars == <<running_task, current_prompt_id, rewindable, turn, runs>>
gateVars == <<goal_active, blocked_in_wait>>
noteVars == <<pending_notifications, notifications_suppressed, rewind_since_drain>>
histVars == <<terminals, fate>>
ctlVars == <<at, job>>
bgVars == <<mcp, plan>>
vars == <<msgVars, send_now, pending_inputs, taskVars, pending_interjections, noteVars,
          gateVars, auto_wake_delivered, completions, ctlVars, bgVars, histVars>>

NoJob == [kill |-> FALSE, rewind |-> FALSE, now |-> FALSE, pinned |-> None, taken |-> None,
          victims |-> <<>>, rewound |-> None, done |-> None]

Labels == {"loop", "fallback", "start", "send_now", "cancel", "cancel_end",
           "completion", "turn_end", "flush", "restart", "drain"}
TurnStates == {"none", "running", "final", "unpinned", "sent", "aborted"}
Live == {"running", "final", "unpinned"}
Fates == {"none", "completed", "cancelled", "rewound", "removed", "dropped", "consumed",
          "merged", "cleared"}

Synthetic(m) == kind[m] \in {"cron", "wake", "goal", "plan", "drain"}   \* is_synthetic
HasRow(m) == kind[m] = "user"                                           \* queue_meta
Awaited(m) == kind[m] \in {"user", "cron"}      \* a client's RPC waits on respond_to

TypeOK ==
  /\ allocated \in 0 .. MaxMsgs
  /\ kind \in [Msgs -> AllKinds]
  /\ send_now \in [Msgs -> BOOLEAN]
  /\ pending_inputs \in Seq(Msgs)
  /\ running_task \in Msgs \cup {None}
  /\ current_prompt_id \in Msgs \cup {None}
  /\ rewindable \in BOOLEAN
  /\ pending_interjections \in Seq(Msgs)
  /\ pending_notifications \in Msgs \cup {None}
  /\ notifications_suppressed \in BOOLEAN /\ rewind_since_drain \in BOOLEAN
  /\ goal_active \in BOOLEAN /\ blocked_in_wait \in BOOLEAN
  /\ auto_wake_delivered \in SUBSET Msgs
  /\ turn \in [Msgs -> TurnStates]
  /\ completions \in Seq(Msgs)
  /\ at \in Labels
  /\ job \in [kill : BOOLEAN, rewind : BOOLEAN, now : BOOLEAN, pinned : Msgs \cup {None},
              taken : Msgs \cup {None}, victims : Seq(Msgs), rewound : Msgs \cup {None},
              done : Msgs \cup {None}]
  /\ mcp \in {"pending", "done"} /\ plan \in {"pending", "queued", "done"}
  /\ runs \in [Msgs -> Nat] /\ terminals \in [Msgs -> Nat]
  /\ fate \in [Msgs -> Fates]

Init ==
  /\ allocated = 0
  /\ kind = [m \in Msgs |-> "user"]       \* unread until allocated
  /\ send_now = [m \in Msgs |-> FALSE]
  /\ pending_inputs = <<>>
  /\ running_task = None /\ current_prompt_id = None
  /\ rewindable = FALSE
  /\ pending_interjections = <<>>
  /\ pending_notifications = None /\ notifications_suppressed = FALSE
  /\ rewind_since_drain = FALSE
  /\ goal_active = FALSE /\ blocked_in_wait = FALSE
  /\ auto_wake_delivered = {}
  /\ turn = [m \in Msgs |-> "none"]
  /\ completions = <<>>
  /\ at = "loop" /\ job = NoJob
  /\ mcp = (IF Background THEN "pending" ELSE "done")
  /\ plan = (IF Background /\ "plan" \in Kinds THEN "pending" ELSE "done")
  /\ runs = [m \in Msgs |-> 0] /\ terminals = [m \in Msgs |-> 0]
  /\ fate = [m \in Msgs |-> "none"]

-----------------------------------------------------------------------------
(* Helpers. *)

(* The actor is in its select and the completion channel is empty. *)
TakesCommand == at = "loop" /\ completions = <<>>

Next1 == allocated + 1

Alloc(k) ==
  /\ k \in Kinds
  /\ allocated < MaxMsgs
  /\ allocated' = Next1
  /\ kind' = [kind EXCEPT ![Next1] = k]

Fate(S, f) == fate' = [m \in Msgs |-> IF m \in S THEN f ELSE fate[m]]

(* The first index a message may take without displacing a running front. *)
BehindRunning(q) == IF q # <<>> /\ q[1] = running_task THEN 2 ELSE 1

(* ... and behind the send-now messages already stacked there. *)
BehindSends(q) ==
  CHOOSE k \in BehindRunning(q) .. Len(q) + 1 :
    /\ \A j \in BehindRunning(q) .. k - 1 : send_now[q[j]]
    /\ k <= Len(q) => ~send_now[q[k]]

(* What is in K stays, in its order: VecDeque::retain, or the loop of a sweep. *)
Retain(q, K) ==
  LET kept[i \in 0 .. Len(q)] ==
        IF i = 0 THEN <<>>
        ELSE IF q[i] \in K THEN Append(kept[i - 1], q[i]) ELSE kept[i - 1]
  IN kept[Len(q)]

(* sweep_pending_inputs: the running turn's own slot is exempt. *)
Swept(q, S) == Retain(q, (Msgs \ S) \cup {running_task})

Queued == ToSet(pending_inputs)

(* The pin once the guard of turn m, or its completion, has released it. *)
PinAfter(m) == IF current_prompt_id = m THEN None ELSE current_prompt_id

(* Mutant: a withdrawn completion stays marked. *)
Unmarked_None(S) == auto_wake_delivered

(* Completions whose message is withdrawn may be reported again. *)
Unmarked(S) == auto_wake_delivered \ S

(* maybe_start_running_task on queue q: the front is promoted, not popped. *)
maybe_start_running_task(q) ==
  IF running_task # None \/ q = <<>>
  THEN UNCHANGED taskVars
  ELSE /\ running_task' = q[1]
       /\ current_prompt_id' = q[1]
       /\ rewindable' = TRUE
       /\ turn' = [turn EXCEPT ![q[1]] = "running"]
       /\ runs' = [runs EXCEPT ![q[1]] = @ + 1]

-----------------------------------------------------------------------------
(* Commands that add a message. *)

(* SessionCommand::Prompt and queue_input.  A user prompt preempts the     *)
(* waiting synthetic ones once a completion is among them; it is sent now  *)
(* when asked, or when the turn is blocked in a wait and no user message   *)
(* is held.                                                                *)
Preempted ==
  IF \E m \in Queued : kind[m] = "wake" /\ m # running_task
  THEN {m \in Queued : Synthetic(m) /\ m # running_task} ELSE {}

AutoSendNow ==
  /\ running_task # None
  /\ blocked_in_wait
  /\ \A m \in Queued : Synthetic(m) \/ m = running_task

queue_input(m, k, now) ==
  LET user == k = "user"
      dropped == IF user THEN Preempted ELSE {}
      q == Swept(pending_inputs, dropped)
      sends == user /\ (now \/ AutoSendNow)
  IN /\ pending_inputs' = IF sends THEN InsertAt(q, BehindSends(q), m) ELSE Append(q, m)
     /\ send_now' = [send_now EXCEPT ![m] = sends]
     /\ auto_wake_delivered' = Unmarked(dropped) \cup
                                 (IF k = "wake" THEN {m} ELSE {})
     /\ Fate(dropped, "dropped")

Prompt(k, now) ==
  LET cancels == k = "user" /\ (now \/ AutoSendNow) /\ running_task # None /\ ~goal_active IN
  /\ TakesCommand
  /\ k \in {"user", "cron", "wake"}
  /\ Alloc(k)
  /\ queue_input(Next1, k, now)
  /\ notifications_suppressed' = (notifications_suppressed /\ k # "user")
  /\ at' = IF cancels THEN "send_now" ELSE "start"
  /\ UNCHANGED <<taskVars, pending_interjections, pending_notifications, rewind_since_drain,
                 gateVars, completions, job, bgVars, terminals>>

(* SessionCommand::Interject looks at the pin only: a text is left for the *)
(* running turn to merge, or becomes a prompt of its own.                  *)
Interject ==
  /\ TakesCommand
  /\ Alloc("interject")
  /\ \/ /\ current_prompt_id # None
        /\ pending_interjections' = Append(pending_interjections, Next1)
        /\ UNCHANGED <<at, job>>
     \/ /\ current_prompt_id = None
        /\ at' = "fallback" /\ job' = [NoJob EXCEPT !.done = Next1]
        /\ UNCHANGED pending_interjections
  /\ UNCHANGED <<send_now, pending_inputs, taskVars, noteVars, gateVars, auto_wake_delivered,
                 completions, bgVars, histVars>>

(* queue_interjection_fallback_prompt(front = true), for texts in order.   *)
InsertFallbacks(texts) ==
  LET k == BehindRunning(pending_inputs) IN
  /\ pending_inputs' = SubSeq(pending_inputs, 1, k - 1) \o texts \o
                         SubSeq(pending_inputs, k, Len(pending_inputs))
  /\ send_now' = [m \in Msgs |-> send_now[m] \/ m \in ToSet(texts)]

Fallback ==
  /\ at = "fallback"
  /\ InsertFallbacks(<<job.done>>)
  /\ at' = "start" /\ job' = NoJob
  /\ UNCHANGED <<msgVars, taskVars, pending_interjections, noteVars, gateVars,
                 auto_wake_delivered, completions, bgVars, histVars>>

(* SessionCommand::GoalSummaryTurn. *)
GoalSummaryTurn ==
  /\ TakesCommand
  /\ Alloc("goal")
  /\ pending_inputs' = Append(pending_inputs, Next1)
  /\ at' = "start"
  /\ UNCHANGED <<send_now, taskVars, pending_interjections, noteVars, gateVars,
                 auto_wake_delivered, completions, job, bgVars, histVars>>

(* SessionCommand::InjectNotification, for one that is not routed into the *)
(* turn in progress: it joins the batch.                                   *)
InjectNotification ==
  /\ TakesCommand
  /\ \/ pending_notifications # None /\ UNCHANGED <<msgVars, pending_notifications>>
     \/ pending_notifications = None /\ Alloc("drain") /\ pending_notifications' = Next1
  /\ at' = "drain"
  /\ UNCHANGED <<send_now, pending_inputs, taskVars, pending_interjections,
                 notifications_suppressed, rewind_since_drain, gateVars, auto_wake_delivered,
                 completions, job, bgVars, histVars>>

(* The step that ends most handlers. *)
Start ==
  /\ at = "start"
  /\ maybe_start_running_task(pending_inputs)
  /\ at' = "loop"
  /\ UNCHANGED <<msgVars, send_now, pending_inputs, pending_interjections, noteVars, gateVars,
                 auto_wake_delivered, completions, job, bgVars, histVars>>

-----------------------------------------------------------------------------
(* Commands on queued rows.  They never touch the running turn. *)

(* Mutant: the running turn counts as a queued row. *)
Row_WithRunning(m) == m \in Queued /\ HasRow(m)

Row(m) == m \in Queued /\ HasRow(m) /\ m # running_task

queueFrame == <<msgVars, taskVars, pending_interjections, noteVars, gateVars,
                auto_wake_delivered, completions, job, bgVars, terminals>>

(* Mutant: the removed prompt is dropped unanswered. *)
RemoveQueuedPrompt_Unanswered(m) ==
  /\ TakesCommand /\ QueueOps
  /\ Row(m)
  /\ pending_inputs' = Retain(pending_inputs, Msgs \ {m})
  /\ UNCHANGED <<queueFrame, send_now, at, fate>>

RemoveQueuedPrompt(m) ==
  /\ TakesCommand /\ QueueOps
  /\ Row(m)
  /\ pending_inputs' = Retain(pending_inputs, Msgs \ {m})
  /\ Fate({m}, "removed")
  /\ UNCHANGED <<queueFrame, send_now, at>>

ClearQueue(mine) ==
  /\ TakesCommand /\ QueueOps
  /\ mine # {}
  /\ pending_inputs' = Retain(pending_inputs, Msgs \ mine)
  /\ Fate(mine, "removed")
  /\ UNCHANGED <<queueFrame, send_now, at>>

(* What has no row, and the running turn, is moved to the front; the rows  *)
(* named come next, then the other rows.                                   *)
ReorderQueue(ids) ==
  LET rows == {m \in Msgs : Row(m)} IN
  /\ TakesCommand /\ QueueOps
  /\ pending_inputs' = Retain(pending_inputs, Msgs \ rows) \o ids \o
                         Retain(pending_inputs, rows \ ToSet(ids))
  /\ UNCHANGED <<queueFrame, send_now, at, fate>>

(* The row is promoted to run next and the running turn is cancelled. *)
InterjectQueuedPrompt(m) ==
  LET q == Retain(pending_inputs, Msgs \ {m}) IN
  /\ TakesCommand /\ QueueOps
  /\ Row(m)
  /\ pending_inputs' = InsertAt(q, BehindSends(q), m)
  /\ send_now' = [send_now EXCEPT ![m] = TRUE]
  /\ at' = IF running_task # None /\ ~goal_active THEN "send_now" ELSE "start"
  /\ UNCHANGED <<queueFrame, fate>>

-----------------------------------------------------------------------------
(* Cancel. *)

(* Both callers clear the interjections before cancel_running_task, which  *)
(* first takes a snapshot of the pin.                                      *)
BeginCancel(kill, rewind, now) ==
  /\ pending_interjections' = <<>>
  /\ Fate(ToSet(pending_interjections), "cleared")
  /\ at' = "cancel"
  /\ job' = [NoJob EXCEPT !.kill = kill, !.rewind = rewind, !.now = now,
                           !.pinned = current_prompt_id]
  /\ UNCHANGED <<msgVars, send_now, pending_inputs, taskVars, noteVars, gateVars,
                 auto_wake_delivered, completions, bgVars, terminals>>

(* SessionCommand::Cancel. *)
Cancel(kill, rewind) ==
  /\ TakesCommand
  /\ rewind => Rewinds
  /\ BeginCancel(kill, rewind, FALSE)

cancel_turn_for_send_now == at = "send_now" /\ BeginCancel(FALSE, FALSE, TRUE)

(* Mutant: a turn past its last drain is left to end by itself. *)
Aborted_Started(t, m) == [t EXCEPT ![m] = IF @ = "running" THEN "aborted" ELSE @]

Aborted(t, m) == [t EXCEPT ![m] = IF @ \in Live THEN "aborted" ELSE @]

CancelRewinds == job.rewind /\ rewindable /\ pending_inputs # <<>>

(* The front is answered whether or not it has a task yet. *)
Resolved ==
  IF job.kill \/ pending_inputs = <<>> THEN pending_inputs ELSE <<Head(pending_inputs)>>

(* The section of cancel_running_task under the state lock. *)
CancelLock ==
  /\ at = "cancel"
  /\ at' = "cancel_end"
  /\ running_task' = None
  /\ rewindable' = (rewindable /\ ~job.rewind)
  /\ rewind_since_drain' = (rewind_since_drain \/ CancelRewinds)
  /\ \/ /\ CancelRewinds
        /\ pending_inputs' = Tail(pending_inputs)
        /\ notifications_suppressed' = FALSE
        /\ job' = [job EXCEPT !.rewound = Head(pending_inputs)]
        /\ turn' = IF running_task = None THEN turn ELSE Aborted(turn, running_task)
     \/ /\ ~CancelRewinds
        /\ job' = [job EXCEPT !.taken = running_task, !.victims = Resolved]
        /\ pending_inputs' = IF job.kill \/ pending_inputs = <<>> THEN <<>>
                             ELSE Tail(pending_inputs)
        /\ notifications_suppressed' = TRUE
        /\ UNCHANGED turn
  /\ pending_notifications' = IF job.kill THEN None ELSE pending_notifications
  /\ Fate(IF job.kill THEN {pending_notifications} ELSE {}, "cleared")
  /\ UNCHANGED <<msgVars, send_now, current_prompt_id, runs, pending_interjections, gateVars,
                 auto_wake_delivered, completions, bgVars, terminals>>

(* Mutant: the terminal is keyed on the pin alone. *)
CancelledId_PinOnly == job.pinned

(* The terminal is keyed on the task torn down, else on the pin. *)
CancelledId == IF job.taken # None THEN job.taken ELSE job.pinned

(* Its end, some awaits later: abort, clear the pin, emit the terminal and *)
(* answer the prompts that were taken off the queue.                       *)
CancelEnd ==
  /\ at = "cancel_end"
  /\ at' = "start" /\ job' = NoJob
  /\ turn' = IF job.taken = None THEN turn ELSE Aborted(turn, job.taken)
  /\ current_prompt_id' = None
  /\ goal_active' = FALSE /\ blocked_in_wait' = FALSE
  /\ terminals' = IF job.rewound = None /\ CancelledId # None
                  THEN [terminals EXCEPT ![CancelledId] = @ + 1] ELSE terminals
  /\ IF job.rewound # None THEN Fate({job.rewound}, "rewound")
                           ELSE Fate(ToSet(job.victims), "cancelled")
  /\ auto_wake_delivered' = Unmarked(ToSet(job.victims))
  /\ notifications_suppressed' = (notifications_suppressed /\ ~job.now)
  /\ UNCHANGED <<msgVars, send_now, pending_inputs, running_task, rewindable, runs,
                 pending_interjections, pending_notifications, rewind_since_drain, completions,
                 bgVars>>

-----------------------------------------------------------------------------
(* The completion arm of the loop. *)

CompletionUnpin ==
  /\ at = "loop" /\ completions # <<>>
  /\ completions' = Tail(completions)
  /\ job' = [NoJob EXCEPT !.done = Head(completions)]
  /\ at' = "completion"
  /\ current_prompt_id' = PinAfter(Head(completions))
  /\ goal_active' = (goal_active /\ current_prompt_id' # None)
  /\ UNCHANGED <<msgVars, send_now, pending_inputs, running_task, rewindable, turn, runs,
                 pending_interjections, noteVars, blocked_in_wait, auto_wake_delivered, bgVars,
                 histVars>>

(* Mutant: a completion pops whatever is in front. *)
OwnedCompletion_Any == pending_inputs # <<>>

OwnedCompletion == pending_inputs # <<>> /\ Head(pending_inputs) = job.done

(* Mutant: any completion clears the slot. *)
ClearsSlot_Always == TRUE

(* A stale completion leaves the promoted turn's slot alone. *)
ClearsSlot == running_task = job.done \/ OwnedCompletion

(* handle_completion under the lock: only the front's completion pops. *)
handle_completion ==
  /\ at = "completion"
  /\ at' = "turn_end" /\ job' = NoJob
  /\ IF OwnedCompletion
     THEN /\ pending_inputs' = Tail(pending_inputs)
          /\ Fate({job.done}, "completed")
          /\ terminals' = [terminals EXCEPT ![job.done] = @ + 1]
     ELSE UNCHANGED <<pending_inputs, fate, terminals>>
  /\ running_task' = IF ClearsSlot THEN None ELSE running_task
  /\ UNCHANGED <<msgVars, send_now, current_prompt_id, rewindable, turn, runs,
                 pending_interjections, noteVars, gateVars, auto_wake_delivered, completions,
                 bgVars>>

(* handle_turn_end: an active goal may queue its continuation, once. *)
handle_turn_end ==
  /\ at = "turn_end"
  /\ at' = "flush"
  /\ \/ UNCHANGED <<msgVars, pending_inputs>>
     \/ /\ \A m \in Queued : kind[m] # "goal"
        /\ Alloc("goal")
        /\ pending_inputs' = Append(pending_inputs, Next1)
  /\ UNCHANGED <<send_now, taskVars, pending_interjections, noteVars, gateVars,
                 auto_wake_delivered, completions, job, bgVars, histVars>>

(* Mutant: stranded texts are left in the buffer. *)
flush_stranded_interjections_Skipped ==
  /\ at = "flush"
  /\ at' = "restart"
  /\ UNCHANGED <<msgVars, send_now, pending_inputs, taskVars, pending_interjections, noteVars,
                 gateVars, auto_wake_delivered, completions, job, bgVars, histVars>>

flush_stranded_interjections ==
  /\ at = "flush"
  /\ at' = "restart"
  /\ InsertFallbacks(pending_interjections)
  /\ pending_interjections' = <<>>
  /\ UNCHANGED <<msgVars, taskVars, noteVars, gateVars, auto_wake_delivered, completions, job,
                 bgVars, histVars>>

(* Mutant: the completion arm forgets the notifications. *)
Restart_NoDrain ==
  /\ at = "restart"
  /\ maybe_start_running_task(pending_inputs)
  /\ at' = "loop"
  /\ UNCHANGED <<msgVars, send_now, pending_inputs, pending_interjections, noteVars, gateVars,
                 auto_wake_delivered, completions, job, bgVars, histVars>>

(* Mutant: the completion arm forgets to promote. *)
Restart_NoPromotion ==
  /\ at = "restart"
  /\ at' = "drain"
  /\ UNCHANGED <<msgVars, send_now, pending_inputs, taskVars, pending_interjections, noteVars,
                 gateVars, auto_wake_delivered, completions, job, bgVars, histVars>>

Restart ==
  /\ at = "restart"
  /\ maybe_start_running_task(pending_inputs)
  /\ at' = "drain"
  /\ UNCHANGED <<msgVars, send_now, pending_inputs, pending_interjections, noteVars, gateVars,
                 auto_wake_delivered, completions, job, bgVars, histVars>>

(* maybe_drain_notifications: when idle the batch becomes a prompt, unless *)
(* a goal suppresses it.                                                   *)
IdleForInjection ==
  /\ running_task = None
  /\ pending_inputs = <<>>
  /\ ~notifications_suppressed

BatchWaiting == pending_notifications # None

maybe_drain_notifications ==
  /\ at = "drain"
  /\ at' = "loop"
  /\ rewind_since_drain' = FALSE
  /\ \/ /\ ~(IdleForInjection /\ BatchWaiting)
        /\ UNCHANGED <<pending_inputs, taskVars, pending_notifications, fate>>
     \/ /\ IdleForInjection /\ BatchWaiting
        /\ pending_notifications' = None
        /\ \/ /\ pending_inputs' = <<pending_notifications>>
              /\ maybe_start_running_task(pending_inputs')
              /\ UNCHANGED fate
           \/ /\ "goal" \in Kinds
              /\ Fate({pending_notifications}, "dropped")
              /\ UNCHANGED <<pending_inputs, taskVars>>
  /\ UNCHANGED <<msgVars, send_now, pending_interjections, notifications_suppressed, gateVars,
                 auto_wake_delivered, completions, job, bgVars, terminals>>

-----------------------------------------------------------------------------
(* The turn's task. *)

turnFrame == <<msgVars, send_now, running_task, runs, noteVars, at, job, bgVars, terminals>>

(* The first outbound event of the prompt: close_rewind_window. *)
EmitEvent(m) ==
  /\ turn[m] = "running" /\ rewindable
  /\ rewindable' = FALSE
  /\ UNCHANGED <<turnFrame, pending_inputs, current_prompt_id, turn, pending_interjections,
                 gateVars, auto_wake_delivered, completions, fate>>

(* A blocking wait begins or ends, the goal loop's flag is set. *)
SetGate(m) ==
  /\ turn[m] = "running"
  /\ \/ blocked_in_wait' = ~blocked_in_wait /\ UNCHANGED goal_active
     \/ "goal" \in Kinds /\ goal_active' = ~goal_active /\ UNCHANGED blocked_in_wait
  /\ UNCHANGED <<turnFrame, pending_inputs, current_prompt_id, rewindable, turn,
                 pending_interjections, auto_wake_delivered, completions, fate>>

drain_pending_interjections(m) ==
  /\ turn[m] = "running" /\ pending_interjections # <<>>
  /\ pending_interjections' = <<>>
  /\ Fate(ToSet(pending_interjections), "merged")
  /\ UNCHANGED <<turnFrame, pending_inputs, current_prompt_id, rewindable, turn, gateVars,
                 auto_wake_delivered, completions>>

(* drop_pending_items_for_consumed_completions: a tool result told the     *)
(* model what the waiting auto-wake, or every notification of the batch,   *)
(* would.                                                                  *)
ConsumeCompletion(m, w) ==
  /\ turn[m] = "running"
  /\ \/ /\ w \in Queued /\ kind[w] = "wake" /\ w # running_task
        /\ pending_inputs' = Swept(pending_inputs, {w})
        /\ UNCHANGED pending_notifications
     \/ /\ w = pending_notifications
        /\ pending_notifications' = None
        /\ UNCHANGED pending_inputs
  /\ Fate({w}, "consumed")
  /\ UNCHANGED <<msgVars, send_now, taskVars, pending_interjections, notifications_suppressed,
                 rewind_since_drain, gateVars, auto_wake_delivered, completions, ctlVars, bgVars,
                 terminals>>

(* The turn is over: no later drain.  A turn that fails skips the last one. *)
EndTurn(m) ==
  /\ turn[m] = "running"
  /\ turn' = [turn EXCEPT ![m] = "final"]
  /\ UNCHANGED <<turnFrame, pending_inputs, current_prompt_id, rewindable,
                 pending_interjections, gateVars, auto_wake_delivered, completions, fate>>

(* TurnSubagentScopeGuard is dropped before the last awaits of the turn; a *)
(* turn that returned before it made the guard leaves the pin.             *)
Unpin(m) ==
  /\ turn[m] = "final"
  /\ turn' = [turn EXCEPT ![m] = "unpinned"]
  /\ current_prompt_id' \in {PinAfter(m), current_prompt_id}
  /\ UNCHANGED <<turnFrame, pending_inputs, rewindable, pending_interjections, gateVars,
                 auto_wake_delivered, completions, fate>>

SendCompletion(m) ==
  /\ turn[m] = "unpinned"
  /\ turn' = [turn EXCEPT ![m] = "sent"]
  /\ completions' = Append(completions, m)
  /\ UNCHANGED <<turnFrame, pending_inputs, current_prompt_id, rewindable,
                 pending_interjections, gateVars, auto_wake_delivered, fate>>

-----------------------------------------------------------------------------
(* Background tasks that promote on their own: MCP initialisation, and the *)
(* plan approval re-parked on resume, which queues a turn first.           *)

bgFrame == <<pending_interjections, noteVars, gateVars, completions, at, job, terminals>>

McpInitialized ==
  /\ mcp = "pending"
  /\ mcp' = "done"
  /\ maybe_start_running_task(pending_inputs)
  /\ UNCHANGED <<bgFrame, msgVars, send_now, pending_inputs, auto_wake_delivered, plan, fate>>

ResumePlan ==
  /\ plan = "pending"
  /\ plan' = "queued"
  /\ Alloc("plan")
  /\ queue_input(Next1, "plan", FALSE)
  /\ UNCHANGED <<bgFrame, taskVars, mcp>>

ResumePlanStart ==
  /\ plan = "queued"
  /\ plan' = "done"
  /\ maybe_start_running_task(pending_inputs)
  /\ UNCHANGED <<bgFrame, msgVars, send_now, pending_inputs, auto_wake_delivered, mcp, fate>>

-----------------------------------------------------------------------------
Command ==
  \/ \E k \in Kinds, now \in BOOLEAN : Prompt(k, now)
  \/ Interject
  \/ GoalSummaryTurn
  \/ InjectNotification
  \/ \E m \in Msgs : RemoveQueuedPrompt(m) \/ InterjectQueuedPrompt(m)
  \/ \E mine \in SUBSET {m \in Msgs : Row(m)} : ClearQueue(mine)
  \/ \E named \in SUBSET {m \in Msgs : Row(m)} :
       \E ids \in SetToSeqs(named) : ReorderQueue(ids)
  \/ \E kill, rewind \in BOOLEAN : Cancel(kill, rewind)

(* What the actor does once it took a command or a completion. *)
ActorStep ==
  \/ Fallback \/ Start \/ cancel_turn_for_send_now \/ CancelLock \/ CancelEnd
  \/ CompletionUnpin \/ handle_completion \/ handle_turn_end
  \/ flush_stranded_interjections \/ Restart \/ maybe_drain_notifications

FinishTurn(m) == EndTurn(m) \/ Unpin(m) \/ SendCompletion(m)

TurnStep(m) ==
  \/ EmitEvent(m) \/ SetGate(m) \/ drain_pending_interjections(m)
  \/ \E w \in Msgs : ConsumeCompletion(m, w)
  \/ FinishTurn(m)

BackgroundStep == McpInitialized \/ ResumePlan \/ ResumePlanStart

Next == Command \/ ActorStep \/ (\E m \in Msgs : TurnStep(m)) \/ BackgroundStep

Spec == Init /\ [][Next]_vars

(* The local executor polls every ready task, and a turn comes to an end.  *)
FairSpec ==
  /\ Spec
  /\ WF_vars(ActorStep)
  /\ \A m \in Msgs : WF_vars(FinishTurn(m))

-----------------------------------------------------------------------------
(* Properties. *)

(* The in-flight turn is always the front of pending_inputs, as            *)
(* handle_completion's pop and the cancel's resolve-front rule presume,    *)
(* through every insert, sweep, reorder and removal.                       *)
FrontIsRunning ==
  running_task # None => pending_inputs # <<>> /\ Head(pending_inputs) = running_task

(* A client that awaits its session/prompt is answered: the message is in  *)
(* the queue once, or with a cancel about to answer it, until it has a     *)
(* fate, and that fate is not being dropped unanswered.                    *)
InHand == Queued \cup ToSet(job.victims) \cup {job.rewound}

NoPromptLost ==
  /\ \A m \in Msgs : m <= allocated /\ Awaited(m) =>
       /\ fate[m] = "none" <=> m \in InHand
       /\ fate[m] # "dropped"
  /\ \A i, j \in DOMAIN pending_inputs : pending_inputs[i] = pending_inputs[j] => i = j

(* The same for an interjection, which nobody awaits: it is buffered, on   *)
(* its way into the queue, or queued, until it is merged, run or cleared.  *)
NoInterjectionLost ==
  \A m \in Msgs : m <= allocated /\ kind[m] = "interject" /\ fate[m] = "none" =>
    \/ m \in InHand \cup ToSet(pending_interjections)
    \/ at = "fallback" /\ job.done = m

(* A stale completion clears no promoted turn's task and a cancelled turn  *)
(* is never promoted again: each message runs at most once.                *)
RunsOnce == \A m \in Msgs : runs[m] <= 1

(* Whoever comes first answers a message, and it is then out of every      *)
(* hand: no later sweep, cancel, completion or merge answers it again,     *)
(* runs it or emits a terminal for it.                                     *)
SettledOnce ==
  [][\A m \in Msgs : fate[m] # "none" =>
       fate'[m] = fate[m] /\ runs'[m] = runs[m] /\ terminals'[m] = terminals[m]]_vars

(* Two turns work on the session at once only while a cancel is tearing    *)
(* one of them down: it empties the slot some awaits before it aborts the  *)
(* task, and MCP initialisation or a re-parked plan may promote the next   *)
(* turn in between.  Nothing else overlaps, and the overlap ends with the  *)
(* cancel.                                                                 *)
OneTurnOutsideCancel ==
  \A m, n \in Msgs : turn[m] \in Live /\ turn[n] \in Live /\ m # n =>
    at = "cancel_end" /\ job.taken \in {m, n}

(* Every turn that ran and was not rewound has exactly one durable         *)
(* TurnCompleted, whichever of cancel and completion came first, and a     *)
(* message that never ran has none.                                        *)
TerminalExact ==
  \A m \in Msgs :
    /\ terminals[m] <= runs[m]
    /\ fate[m] \in {"completed", "cancelled"} => terminals[m] = runs[m]

(* A completion marked as delivered is still on its way to the model, or   *)
(* reached it: else no reminder will ever report it.  The exception is the *)
(* message of a cancel that rewinds, which returns before it un-marks      *)
(* (tasks_cancel.rs:564): that completion is never reported.               *)
WakeNotForgotten ==
  \A m \in auto_wake_delivered :
    m \in InHand \/ fate[m] \in {"completed", "consumed", "rewound"}

(* "Drain only at end-of-turn or when idle": an idle session in its select *)
(* leaves no notification behind, whichever of completion, cancel, removal *)
(* and injection emptied it.  The exception is a cancel that rewinds: it   *)
(* lifts the suppression and is not followed by a drain, so the batch      *)
(* waits until the next one.                                               *)
NotificationsDrained ==
  TakesCommand /\ IdleForInjection /\ BatchWaiting => rewind_since_drain

(* A prompt that was queued is answered. *)
PromptAnswered ==
  \A m \in Msgs : (m <= allocated /\ kind[m] = "user") ~> (fate[m] # "none")

(* An interjection reaches the model, or is discarded by a cancel. *)
InterjectionHandled ==
  \A m \in Msgs : (m <= allocated /\ kind[m] = "interject") ~> (fate[m] # "none")
=============================================================================
