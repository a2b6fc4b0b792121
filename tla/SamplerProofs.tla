---------------------------- MODULE SamplerProofs ----------------------------
(* Theorems about Sampler, for every value of its constants. *)
EXTENDS Sampler, TLAPS

(* The fields of a command that its tag promises. *)
LEMMA CommandFields ==
  ASSUME NEW cmd \in Commands
  PROVE  /\ cmd.op = "submit" => cmd.task \in Tasks /\ cmd.config \in Configs \cup {"default"}
         /\ cmd.op = "cancel" => cmd.id \in Ids
         /\ cmd.op = "update_config" => cmd.config \in Configs
BY DEF Commands

(* Sending and receiving keep the channel a sequence of commands. *)
LEMMA SendType ==
  ASSUME cmds \in Seq(Commands), NEW cmd \in Commands, Send(cmd)
  PROVE  cmds' \in Seq(Commands)
BY DEF Send

LEMMA ReceiveType ==
  ASSUME cmds \in Seq(Commands), NEW op, Received(op)
  PROVE  /\ cmds' \in Seq(Commands)
         /\ Head(cmds) \in Commands
         /\ Head(cmds).op = op
         /\ phase' \in Phases
BY DEF Received, Phases

LEMMA CommandsBuilt ==
  /\ \A t \in Tasks, cfg \in Configs \cup {"default"} :
       [op |-> "submit", task |-> t, config |-> cfg] \in Commands
  /\ \A i \in Ids : [op |-> "cancel", id |-> i] \in Commands
  /\ \A cfg \in Configs : [op |-> "update_config", config |-> cfg] \in Commands
BY DEF Commands

LEMMA FailureKindType ==
  \A e, r : FailureKind(e, r) \in {"failed", "exhausted", "rate_limited"}
BY DEF FailureKind

(* The retry decision keeps the types, whatever the error. *)
LEMMA RetryType ==
  ASSUME TypeOK, NEW t \in Tasks, NEW e, apply_retry_decision(t, e)
  PROVE  TypeOK'
<1> USE DEF TypeOK, actorVars, submitVars, taskFrame, Running, PcValues, Outcomes
<1>1. CASE RetryAfterSleep(t, e)
  <2>1. retry_count' \in [Tasks -> Nat] /\ rate_retries' \in [Tasks -> Nat]
    BY <1>1 DEF RetryAfterSleep
  <2>2. images' \in [Tasks -> BOOLEAN] /\ pc' \in [Tasks -> PcValues]
    BY <1>1 DEF RetryAfterSleep, ImagesLeft
  <2> QED
    BY <1>1, <2>1, <2>2 DEF apply_retry_decision, RetryAfterSleep
<1>2. CASE RetryStripped(t, e)
  <2>1. retry_count' \in [Tasks -> Nat] /\ strips' \in [Tasks -> Nat]
    BY <1>2 DEF RetryStripped
  <2>2. images' \in [Tasks -> BOOLEAN] /\ pc' \in [Tasks -> PcValues]
    BY <1>2 DEF RetryStripped
  <2> QED
    BY <1>2, <2>1, <2>2 DEF apply_retry_decision, RetryStripped
<1>3. CASE GiveUp(t, e)
  <2>1. outcome' \in [Tasks -> Outcomes] /\ pc' \in [Tasks -> PcValues]
    BY <1>3, FailureKindType DEF GiveUp, Finish
  <2>2. images' \in [Tasks -> BOOLEAN]
    BY <1>3 DEF GiveUp, ImagesLeft
  <2> QED
    BY <1>3, <2>1, <2>2 DEF apply_retry_decision, GiveUp
<1> QED
  BY <1>1, <1>2, <1>3 DEF apply_retry_decision

(* Type correctness: TypeOK is inductive. *)
LEMMA TypeStep == TypeOK /\ [Next]_vars => TypeOK'
<1> SUFFICES ASSUME TypeOK, [Next]_vars PROVE TypeOK'
  OBVIOUS
<1> USE SamplerAssumption DEF TypeOK, vars, actorVars, submitVars, budgetVars, taskFrame,
                              Running, PcValues, Outcomes, Phases
<1>1. ASSUME NEW c \in Callers, NEW i \in Ids, NEW collecting \in BOOLEAN,
             NEW with_images \in BOOLEAN, NEW cfg \in Configs \cup {"default"},
             Submit(c, i, collecting, with_images, cfg)
      PROVE  TypeOK'
  <2>1. allocated + 1 \in Tasks /\ allocated' \in 0 .. MaxTasks
    BY <1>1 DEF Submit, Tasks
  <2>2. cmds' \in Seq(Commands)
    BY <1>1, <2>1, SendType, CommandsBuilt DEF Submit
  <2>3. /\ pc' \in [Tasks -> PcValues] /\ request_id' \in [Tasks -> Ids]
        /\ collect' \in [Tasks -> BOOLEAN] /\ images' \in [Tasks -> BOOLEAN]
    BY <1>1, <2>1 DEF Submit
  <2>4. caller' \in [Callers -> Tasks \cup {NoTask, Gone}]
    BY <1>1, <2>1 DEF Submit
  <2> QED
    BY <1>1, <2>1, <2>2, <2>3, <2>4 DEF Submit
<1>2. CASE \E c \in Callers, i \in Ids : Cancel(c, i)
  BY <1>2, SendType, CommandsBuilt DEF Cancel, Volunteer
<1>3. CASE \E c \in Callers, cfg \in Configs : UpdateConfig(c, cfg)
  BY <1>3, SendType, CommandsBuilt DEF UpdateConfig, Volunteer
<1>4. CASE \E c \in Callers : CollectReturns(c)
  BY <1>4, SendType, CommandsBuilt DEF CollectReturns
<1>5. CASE \E c \in Callers : CollectDropped(c)
  BY <1>5, SendType, CommandsBuilt DEF CollectDropped
<1>6. CASE \E c \in Callers : DropHandle(c)
  BY <1>6 DEF DropHandle
<1>7. CASE \E t \in Tasks : JoinNext(t)
  BY <1>7 DEF JoinNext
<1>8. CASE NothingToJoin
  BY <1>8 DEF NothingToJoin
<1>9. CASE HandleSubmit
  BY <1>9, ReceiveType, CommandFields DEF HandleSubmit, Received
<1>10. CASE HandleCancel
  BY <1>10, ReceiveType, CommandFields DEF HandleCancel, Received
<1>11. CASE HandleUpdateConfig
  BY <1>11, ReceiveType, CommandFields DEF HandleUpdateConfig, Received
<1>12. CASE BeginShutdown
  BY <1>12 DEF BeginShutdown
<1>13. CASE \E t \in Tasks : AbortTask(t)
  BY <1>13 DEF AbortTask
<1>14. CASE Stop
  BY <1>14 DEF Stop
<1>15. ASSUME NEW t \in Tasks, BuildClient(t)
       PROVE  TypeOK'
  <2>1. CASE pc' = [pc EXCEPT ![t] = "top"] /\ UNCHANGED outcome
    BY <1>15, <2>1 DEF BuildClient
  <2>2. CASE Finish(t, "failed")
    BY <1>15, <2>2 DEF BuildClient, Finish
  <2> QED
    <3> HIDE DEF TypeOK
    <3> QED BY <1>15, <2>1, <2>2 DEF BuildClient
<1>16. CASE \E t \in Tasks : NoticeCancel(t)
  BY <1>16 DEF NoticeCancel, Finish
<1>17. ASSUME NEW t \in Tasks, CheckToken(t) \/ SendRequest(t)
       PROVE  TypeOK'
  <2>1. CASE CheckToken(t)
    BY <2>1 DEF CheckToken
  <2>2. CASE SendRequest(t)
    <3>1. /\ pc' \in [Tasks -> PcValues] /\ sends' \in [Tasks -> Nat]
          /\ late_sends' \in [Tasks -> Nat]
      BY <2>2 DEF SendRequest
    <3> QED
      BY <2>2, <3>1 DEF SendRequest
  <2> QED
    BY <1>17, <2>1, <2>2
<1>18. CASE \E t \in Tasks : WakeUp(t)
  BY <1>18 DEF WakeUp
<1>19. CASE \E t \in Tasks : SendCompletion(t)
  BY <1>19 DEF SendCompletion
<1>20. CASE \E t \in Tasks : StreamOpened(t)
  BY <1>20 DEF StreamOpened
<1>21. CASE \E t \in Tasks, e \in Errors : InitFailed(t, e)
  BY <1>21, RetryType DEF InitFailed
<1>22. CASE \E t \in Tasks : DoomLoopDetected(t)
  BY <1>22 DEF DoomLoopDetected
<1>23. CASE \E t \in Tasks, e \in Errors : StreamFailed(t, e)
  BY <1>23, RetryType DEF StreamFailed
<1>24. ASSUME NEW t \in Tasks, NEW r \in Responses, StreamCompleted(t, r)
       PROVE  TypeOK'
  <2>1. CASE apply_retry_decision(t, Truncated)
    BY <2>1, RetryType
  <2>2. CASE apply_retry_decision(t, EmptyResponse)
    BY <2>2, RetryType
  <2>3. CASE Finish(t, "completed") /\ UNCHANGED <<taskFrame, budgetVars>>
    BY <2>3 DEF Finish
  <2> HIDE DEF TypeOK
  <2> QED
    BY <1>24, <2>1, <2>2, <2>3 DEF StreamCompleted
<1>25. CASE UNCHANGED vars
  BY <1>25
<1> HIDE DEF TypeOK
<1> QED
  BY <1>1, <1>2, <1>3, <1>4, <1>5, <1>6, <1>7, <1>8, <1>9, <1>10, <1>11, <1>12,
     <1>13, <1>14, <1>15, <1>16, <1>17, <1>18, <1>19, <1>20, <1>21, 
     <1>22, <1>23, <1>24, <1>25
     DEF Next, CallerNext, ActorNext, TaskStep, Connect, Stream, Terminated

(* Every state of the sampler is well typed. *)
THEOREM TypeCorrect == Spec => []TypeOK
<1>1. Init => TypeOK
  BY SamplerAssumption DEF Init, TypeOK, Phases, PcValues, Running, Outcomes, NoTask
<1> QED
  BY <1>1, TypeStep, PTL DEF Spec

-----------------------------------------------------------------------------
(* The command channel. *)

(* A Submit in the channel stands for a task that is still queued, and no *)
(* two of them for the same task.                                         *)
IsSubmit(k) == cmds[k].op = "submit"

QueueInv ==
  /\ \A k \in 1 .. Len(cmds) : IsSubmit(k) => pc[cmds[k].task] = "queued"
  /\ \A j, k \in 1 .. Len(cmds) :
       IsSubmit(j) /\ IsSubmit(k) /\ cmds[j].task = cmds[k].task => j = k

FreshInv == \A t \in Tasks : t > allocated => pc[t] = "free"

(* A step that keeps the channel and every queued task keeps QueueInv. *)
LEMMA QueueKept ==
  ASSUME TypeOK, QueueInv, cmds' = cmds, NEW t \in Tasks, NEW p,
         pc[t] # "queued", pc' = [pc EXCEPT ![t] = p]
  PROVE  QueueInv'
BY DEF QueueInv, IsSubmit, TypeOK

(* Appending any other command keeps it. *)
LEMMA QueueAppend ==
  ASSUME TypeOK, QueueInv, NEW cmd \in Commands, cmd.op # "submit",
         cmds' = Append(cmds, cmd), pc' = pc
  PROVE  QueueInv'
<1>1. \A k \in 1 .. Len(cmds') :
        (k \in 1 .. Len(cmds) /\ cmds'[k] = cmds[k]) \/ cmds'[k] = cmd
  BY DEF TypeOK
<1> QED
  BY <1>1 DEF QueueInv, IsSubmit, TypeOK

(* Receiving a command that is not a Submit keeps it. *)
LEMMA QueueTail ==
  ASSUME TypeOK, QueueInv, cmds # <<>>, cmds' = Tail(cmds), pc' = pc
  PROVE  QueueInv'
<1>1. \A k \in 1 .. Len(cmds') : k + 1 \in 1 .. Len(cmds) /\ cmds'[k] = cmds[k + 1]
  BY DEF TypeOK
<1>2. \A k \in 1 .. Len(cmds') : k \in Int
  BY DEF TypeOK
<1> QED
  BY <1>1, <1>2 DEF QueueInv, IsSubmit

(* The received Submit names a queued task that no other Submit names. *)
LEMMA QueueSubmit ==
  ASSUME TypeOK, QueueInv, Received("submit"),
         pc' = [pc EXCEPT ![Head(cmds).task] = "building"]
  PROVE  /\ Head(cmds).task \in Tasks
         /\ pc[Head(cmds).task] = "queued"
         /\ QueueInv'
<1> DEFINE t == Head(cmds).task
<1>1. cmds # <<>> /\ Head(cmds) = cmds[1] /\ 1 \in 1 .. Len(cmds) /\ IsSubmit(1)
  BY DEF Received, TypeOK, IsSubmit
<1>2. t \in Tasks
  BY <1>1, ReceiveType, CommandFields DEF Received, TypeOK
<1>3. pc[t] = "queued"
  BY <1>1 DEF QueueInv
<1>4. \A k \in 1 .. Len(cmds') : /\ k \in Int /\ k # 0
                                 /\ k + 1 \in 1 .. Len(cmds) /\ cmds'[k] = cmds[k + 1]
  BY <1>1 DEF TypeOK, Received
<1>5. \A k \in 1 .. Len(cmds') : IsSubmit(k)' => IsSubmit(k + 1) /\ cmds'[k].task # t
  BY <1>1, <1>4 DEF QueueInv, IsSubmit
<1>6. \A k \in 1 .. Len(cmds) : IsSubmit(k) => cmds[k].task \in Tasks
  BY CommandFields DEF IsSubmit, TypeOK
<1>7. \A k \in 1 .. Len(cmds') : IsSubmit(k)' => pc'[cmds'[k].task] = "queued"
  <2>1. SUFFICES ASSUME NEW k \in 1 .. Len(cmds'), IsSubmit(k)'
                 PROVE  pc'[cmds'[k].task] = "queued"
    OBVIOUS
  <2>2. cmds'[k].task \in Tasks /\ cmds'[k].task # t
    BY <1>4, <1>5, <1>6, <2>1
  <2>3. pc[cmds'[k].task] = "queued"
    BY <1>4, <1>5, <2>1 DEF QueueInv
  <2>4. \A u \in Tasks \ {t} : pc'[u] = pc[u]
    BY DEF TypeOK
  <2> QED
    BY <2>2, <2>3, <2>4
<1>8. \A j, k \in 1 .. Len(cmds') :
        IsSubmit(j)' /\ IsSubmit(k)' /\ cmds'[j].task = cmds'[k].task => j = k
  <2>1. SUFFICES ASSUME NEW j \in 1 .. Len(cmds'), NEW k \in 1 .. Len(cmds'),
                        IsSubmit(j)', IsSubmit(k)', cmds'[j].task = cmds'[k].task
                 PROVE  j = k
    OBVIOUS
  <2>2. /\ j + 1 \in 1 .. Len(cmds) /\ IsSubmit(j + 1) /\ cmds'[j] = cmds[j + 1]
        /\ k + 1 \in 1 .. Len(cmds) /\ IsSubmit(k + 1) /\ cmds'[k] = cmds[k + 1]
    BY <1>4, <1>5, <2>1
  <2>3. cmds[j + 1].task = cmds[k + 1].task
    BY <2>1, <2>2
  <2>4. j + 1 = k + 1
    BY <2>2, <2>3 DEF QueueInv
  <2>5. j \in Int /\ k \in Int
    BY <1>4
  <2> QED
    BY <2>4, <2>5
<1> QED
  BY <1>2, <1>3, <1>7, <1>8 DEF QueueInv

(* The retry decision moves a running task to another running state. *)
LEMMA RetryMoves ==
  ASSUME TypeOK, NEW t \in Tasks, NEW e, apply_retry_decision(t, e)
  PROVE  /\ UNCHANGED taskFrame
         /\ \E p \in {"sleeping", "top", "answering"} : pc' = [pc EXCEPT ![t] = p]
BY DEF apply_retry_decision, RetryAfterSleep, RetryStripped, GiveUp, Finish

(* What a spawned task does by itself: it stays spawned, and leaves the   *)
(* registry, its token and the channel alone.                             *)
Spawned == Running \cup {"done"}

RunMove(t) ==
  /\ pc[t] \in Running
  /\ \E p \in Spawned : pc' = [pc EXCEPT ![t] = p]
  /\ UNCHANGED <<phase, cmds, active_requests, cancelled, allocated, request_id>>

(* What a task or its abort does: one task leaves a state other than free *)
(* and queued, the channel and the handles' side stay as they are.        *)
TaskMove(t) ==
  /\ pc[t] \notin {"free", "queued"}
  /\ \E p \in PcValues \ {"free", "queued"} : pc' = [pc EXCEPT ![t] = p]
  /\ UNCHANGED <<cmds, allocated, request_id>>

LEMMA RunMoves ==
  ASSUME TypeOK, NEW t \in Tasks,
         TaskStep(t) \/ Connect(t) \/ Stream(t)
  PROVE  RunMove(t)
<1> USE DEF RunMove, taskFrame, actorVars, submitVars, Running, Spawned
<1>1. CASE BuildClient(t)
  BY <1>1 DEF BuildClient, Finish
<1>2. CASE NoticeCancel(t)
  BY <1>2 DEF NoticeCancel, Finish
<1>3. CASE \/ CheckToken(t) \/ SendRequest(t) \/ WakeUp(t)
            \/ SendCompletion(t) \/ StreamOpened(t)
  BY <1>3 DEF CheckToken, SendRequest, WakeUp, SendCompletion, StreamOpened
<1>4. CASE \E e \in Errors : InitFailed(t, e)
  BY <1>4, RetryMoves DEF InitFailed
<1>5. CASE \E e \in Errors : StreamFailed(t, e)
  BY <1>5, RetryMoves DEF StreamFailed
<1>6. CASE DoomLoopDetected(t)
  BY <1>6 DEF DoomLoopDetected
<1>7. CASE \E r \in Responses : StreamCompleted(t, r)
  <2>1. pc[t] = "streaming"
    BY <1>7 DEF StreamCompleted
  <2>2. CASE \E e : apply_retry_decision(t, e)
    BY <2>1, <2>2, RetryMoves
  <2>3. CASE Finish(t, "completed") /\ UNCHANGED taskFrame
    BY <2>1, <2>3 DEF Finish
  <2> QED
    BY <1>7, <2>2, <2>3 DEF StreamCompleted
<1> QED
  BY <1>1, <1>2, <1>3, <1>4, <1>5, <1>6, <1>7 DEF TaskStep, Connect, Stream

LEMMA TaskMoves ==
  ASSUME TypeOK, NEW t \in Tasks,
         TaskStep(t) \/ Connect(t) \/ Stream(t) \/ JoinNext(t) \/ AbortTask(t)
  PROVE  TaskMove(t)
<1>1. CASE RunMove(t)
  BY <1>1 DEF RunMove, TaskMove, Spawned, Running, PcValues
<1>2. CASE JoinNext(t) \/ AbortTask(t)
  BY <1>2 DEF JoinNext, AbortTask, TaskMove, submitVars, Running, PcValues
<1> QED
  BY <1>1, <1>2, RunMoves

(* The channel and the numbering of tasks: an inductive invariant. *)
LEMMA QueueStep ==
  TypeOK /\ QueueInv /\ FreshInv /\ [Next]_vars => QueueInv' /\ FreshInv'
<1> SUFFICES ASSUME TypeOK, QueueInv, FreshInv, [Next]_vars PROVE QueueInv' /\ FreshInv'
  OBVIOUS
<1>1. ASSUME NEW c \in Callers, NEW i \in Ids, NEW collecting \in BOOLEAN,
             NEW with_images \in BOOLEAN, NEW cfg \in Configs \cup {"default"},
             Submit(c, i, collecting, with_images, cfg)
      PROVE  QueueInv' /\ FreshInv'
  <2> DEFINE t == allocated + 1
             cmd == [op |-> "submit", task |-> t, config |-> cfg]
  <2>1. t \in Tasks /\ t > allocated
    BY <1>1, SamplerAssumption DEF Submit, Tasks, TypeOK
  <2>2. pc[t] = "free"
    BY <2>1 DEF FreshInv
  <2>3. cmds' = Append(cmds, cmd) /\ pc' = [pc EXCEPT ![t] = "queued"] /\ allocated' = t
    BY <1>1 DEF Submit, Send
  <2>4. \A k \in 1 .. Len(cmds') : \/ k \in 1 .. Len(cmds) /\ cmds'[k] = cmds[k]
                                   \/ k = Len(cmds) + 1 /\ cmds'[k] = cmd
    BY <2>3 DEF TypeOK
  <2>5. \A k \in 1 .. Len(cmds) : IsSubmit(k) => cmds[k].task # t /\ cmds[k].task \in Tasks
    <3>1. \A k \in 1 .. Len(cmds) : cmds[k] \in Commands
      BY DEF TypeOK
    <3>2. \A k \in 1 .. Len(cmds) : IsSubmit(k) => cmds[k].task \in Tasks
      BY <3>1, CommandFields DEF IsSubmit
    <3>3. \A k \in 1 .. Len(cmds) : IsSubmit(k) => cmds[k].task # t
      BY <2>2 DEF QueueInv
    <3> QED
      BY <3>2, <3>3
  <2>6. QueueInv'
    <3>1. \A k \in 1 .. Len(cmds') : IsSubmit(k)' => pc'[cmds'[k].task] = "queued"
      BY <2>1, <2>3, <2>4, <2>5 DEF QueueInv, IsSubmit, TypeOK
    <3>2. \A j, k \in 1 .. Len(cmds') :
            IsSubmit(j)' /\ IsSubmit(k)' /\ cmds'[j].task = cmds'[k].task => j = k
      BY <2>4, <2>5 DEF QueueInv, IsSubmit
    <3> QED
      BY <3>1, <3>2 DEF QueueInv
  <2>7. FreshInv'
    <3> SUFFICES ASSUME NEW u \in Tasks, u > allocated + 1 PROVE pc'[u] = "free"
      BY <2>3 DEF FreshInv
    <3>1. u > allocated /\ u # allocated + 1
      BY SamplerAssumption DEF TypeOK, Tasks
    <3> QED
      BY <2>3, <3>1 DEF FreshInv, TypeOK
  <2> QED
    BY <2>6, <2>7
<1>2. CASE \E c \in Callers :
             \/ \E i \in Ids : Cancel(c, i)
             \/ \E cfg \in Configs : UpdateConfig(c, cfg)
             \/ CollectReturns(c) \/ CollectDropped(c)
  <2>1. \E cmd \in Commands : cmd.op # "submit" /\ cmds' = Append(cmds, cmd)
    BY <1>2, CommandsBuilt
       DEF Cancel, UpdateConfig, CollectReturns, CollectDropped, Send, TypeOK
  <2>2. UNCHANGED <<pc, allocated>>
    BY <1>2 DEF Cancel, UpdateConfig, CollectReturns, CollectDropped, submitVars
  <2> QED
    BY <2>1, <2>2, QueueAppend DEF FreshInv
<1>3. CASE HandleSubmit
  <2>1. pc[Head(cmds).task] = "queued" /\ Head(cmds).task \in Tasks /\ QueueInv'
    BY <1>3, QueueSubmit DEF HandleSubmit
  <2>2. FreshInv'
    BY <1>3, <2>1 DEF HandleSubmit, FreshInv, TypeOK, submitVars
  <2> QED
    BY <2>1, <2>2
<1>4. CASE HandleCancel \/ HandleUpdateConfig
  BY <1>4, QueueTail DEF HandleCancel, HandleUpdateConfig, Received, FreshInv, submitVars
<1>5. CASE \E t \in Tasks : TaskMove(t)
  <2>1. PICK t \in Tasks : TaskMove(t)
    BY <1>5
  <2>2. QueueInv'
    BY <2>1, QueueKept DEF TaskMove
  <2>3. FreshInv'
    BY <2>1 DEF TaskMove, FreshInv, TypeOK
  <2> QED
    BY <2>2, <2>3
<1>6. CASE UNCHANGED <<cmds, pc, allocated>>
  BY <1>6 DEF QueueInv, IsSubmit, FreshInv
<1>7. (\E c \in Callers : DropHandle(c)) \/ NothingToJoin \/ BeginShutdown \/ Stop
        \/ UNCHANGED vars => UNCHANGED <<cmds, pc, allocated>>
  BY DEF DropHandle, NothingToJoin, BeginShutdown, Stop, vars, submitVars
<1> QED
  BY <1>1, <1>2, <1>3, <1>4, <1>5, <1>6, <1>7, TaskMoves
     DEF Next, CallerNext, ActorNext, Terminated

-----------------------------------------------------------------------------
(* The retry budget. *)

(* Where the task stands in its loop fixes the attempts it has begun; an  *)
(* image strip is paid for by the images it removes.                      *)
RetryCap == IF MaxRetries = 0 THEN 0 ELSE MaxRetries - 1

BudgetOf(t) ==
  /\ strips[t] + (IF images[t] THEN 1 ELSE 0) <= 1
  /\ retry_count[t] <= RetryCap + strips[t]
  /\ doom_retry_count[t] <= DoomMaxRetries
  /\ pc[t] \in {"free", "queued", "building"} =>
       /\ sends[t] = 0 /\ retry_count[t] = 0
       /\ doom_retry_count[t] = 0 /\ strips[t] = 0
  /\ pc[t] \in {"top", "opening", "sleeping"} => sends[t] = retry_count[t] + doom_retry_count[t]
  /\ pc[t] \in {"connecting", "streaming"} \/ outcome[t] = "completed" =>
       sends[t] = retry_count[t] + doom_retry_count[t] + 1
  /\ sends[t] <= retry_count[t] + doom_retry_count[t] + 1
  /\ outcome[t] # "none" => pc[t] \in {"answering", "done", "joined"}

BudgetInv == \A t \in Tasks : BudgetOf(t)

(* A retry after a pause is granted only below the request's budget. *)
LEMMA RetryWithinCap ==
  ASSUME NEW e, NEW r \in Nat,
         classify_error(e, r) \in {"retry", "retry_with_backoff", "client_rebuild"}
  PROVE  r + 1 <= RetryCap
BY SamplerAssumption DEF classify_error, RateLimitCap, EffectiveThreshold, RetryCap

(* BudgetOf(t) reads only these components. *)
LEMMA BudgetFrame ==
  ASSUME NEW t \in Tasks, BudgetOf(t),
         pc'[t] = pc[t], outcome'[t] = outcome[t], images'[t] = images[t],
         sends'[t] = sends[t], strips'[t] = strips[t],
         retry_count'[t] = retry_count[t], doom_retry_count'[t] = doom_retry_count[t]
  PROVE  BudgetOf(t)'
BY DEF BudgetOf

BudgetTypes(t) ==
  /\ retry_count[t] \in Nat /\ doom_retry_count[t] \in Nat
  /\ strips[t] \in Nat /\ sends[t] \in Nat /\ images[t] \in BOOLEAN

(* Everything the retry decision may do to a task whose attempt failed. *)
LEMMA RetryBudget ==
  ASSUME TypeOK, NEW t \in Tasks, BudgetOf(t), NEW e,
         pc[t] \in {"connecting", "streaming"}, apply_retry_decision(t, e)
  PROVE  BudgetOf(t)'
<1> USE SamplerAssumption DEF BudgetOf
<1>1. BudgetTypes(t) /\ outcome[t] = "none"
  BY DEF TypeOK, BudgetTypes
<1>2. RetryCap \in Nat
  BY DEF RetryCap
<1>3. CASE RetryAfterSleep(t, e)
  <2>1. retry_count[t] + 1 <= RetryCap
    BY <1>1, <1>3, RetryWithinCap DEF RetryAfterSleep, BudgetTypes
  <2>2. /\ retry_count'[t] = retry_count[t] + 1 /\ pc'[t] = "sleeping"
        /\ outcome'[t] = outcome[t] /\ strips'[t] = strips[t] /\ sends'[t] = sends[t]
        /\ doom_retry_count'[t] = doom_retry_count[t]
    BY <1>3 DEF RetryAfterSleep, apply_retry_decision, TypeOK
  <2>3. images'[t] \in BOOLEAN /\ (images'[t] => images[t])
    BY <1>3 DEF RetryAfterSleep, TypeOK, ImagesLeft
  <2> QED
    BY <1>1, <1>2, <2>1, <2>2, <2>3 DEF BudgetTypes
<1>4. CASE RetryStripped(t, e)
  <2>1. images[t]
    BY <1>4 DEF RetryStripped, ImagesLeft
  <2>2. /\ retry_count'[t] = retry_count[t] + 1 /\ pc'[t] = "top"
        /\ outcome'[t] = outcome[t] /\ strips'[t] = strips[t] + 1 /\ sends'[t] = sends[t]
        /\ doom_retry_count'[t] = doom_retry_count[t] /\ images'[t] = FALSE
    BY <1>4 DEF RetryStripped, apply_retry_decision, TypeOK
  <2> QED
    BY <1>1, <1>2, <2>1, <2>2 DEF BudgetTypes
<1>5. CASE GiveUp(t, e)
  <2>1. /\ retry_count'[t] = retry_count[t] /\ pc'[t] = "answering"
        /\ strips'[t] = strips[t] /\ sends'[t] = sends[t]
        /\ doom_retry_count'[t] = doom_retry_count[t]
    BY <1>5 DEF GiveUp, Finish, apply_retry_decision, TypeOK
  <2>2. images'[t] \in BOOLEAN /\ (images'[t] => images[t])
    BY <1>5 DEF GiveUp, TypeOK, ImagesLeft
  <2>3. outcome'[t] # "completed"
    BY <1>5, FailureKindType DEF GiveUp, Finish, TypeOK
  <2> QED
    BY <1>1, <1>2, <2>1, <2>2, <2>3 DEF BudgetTypes
<1> QED
  BY <1>3, <1>4, <1>5 DEF apply_retry_decision

(* The retry decision about one task touches no other. *)
LEMMA RetryElsewhere ==
  ASSUME TypeOK, NEW t \in Tasks, NEW u \in Tasks, u # t, BudgetOf(u), NEW e,
         apply_retry_decision(t, e)
  PROVE  BudgetOf(u)'
<1>1. UNCHANGED <<pc[u], outcome[u], images[u], sends[u], strips[u], retry_count[u],
                  doom_retry_count[u]>>
  BY DEF apply_retry_decision, RetryAfterSleep, RetryStripped, GiveUp, Finish, TypeOK
<1> QED
  BY <1>1, BudgetFrame

(* One step of one task. *)
LEMMA TaskBudget ==
  ASSUME TypeOK, BudgetInv, NEW t \in Tasks, TaskStep(t) \/ Connect(t) \/ Stream(t)
  PROVE  BudgetInv'
<1> SUFFICES ASSUME NEW u \in Tasks PROVE BudgetOf(u)'
  BY DEF BudgetInv
<1>1. BudgetOf(u) /\ BudgetOf(t) /\ BudgetTypes(u)
  BY DEF BudgetInv, BudgetTypes, TypeOK
<1>2. CASE \E e : pc[t] \in {"connecting", "streaming"} /\ apply_retry_decision(t, e)
  BY <1>1, <1>2, RetryBudget, RetryElsewhere
<1>3. CASE BuildClient(t)
  <2>1. UNCHANGED budgetVars /\ pc[t] = "building"
    BY <1>3 DEF BuildClient
  <2>2. CASE u # t
    <3>1. pc'[u] = pc[u] /\ outcome'[u] = outcome[u]
      BY <1>3, <2>2 DEF BuildClient, Finish, TypeOK
    <3> QED
      BY <1>1, <2>1, <3>1, BudgetFrame DEF budgetVars
  <2>3. CASE u = t
    <3>1. \/ pc'[t] = "top" /\ outcome'[t] = outcome[t]
          \/ pc'[t] = "answering" /\ outcome'[t] = "failed"
      BY <1>3 DEF BuildClient, Finish, TypeOK
    <3> QED
      BY <1>1, <2>1, <2>3, <3>1 DEF budgetVars, BudgetOf, BudgetTypes
  <2> QED
    BY <2>2, <2>3
<1>4. CASE NoticeCancel(t)
  BY <1>1, <1>4 DEF NoticeCancel, Finish, budgetVars, BudgetOf, BudgetTypes, TypeOK
<1>5. CASE SendRequest(t)
  <2>1. CASE u # t
    <3>1. UNCHANGED <<pc[u], outcome[u], images[u], sends[u], strips[u], retry_count[u],
                      doom_retry_count[u]>>
      BY <1>5, <2>1 DEF SendRequest, TypeOK
    <3> QED
      BY <1>1, <3>1, BudgetFrame
  <2>2. CASE u = t
    <3>1. /\ pc[t] = "opening" /\ pc'[t] = "connecting"
          /\ sends'[t] = sends[t] + 1 /\ doom_retry_count'[t] = doom_retry_count[t]
      BY <1>5 DEF SendRequest, TypeOK
    <3>2. UNCHANGED <<outcome, strips, images, retry_count>>
      BY <1>5 DEF SendRequest
    <3> QED
      BY <1>1, <2>2, <3>1, <3>2, SamplerAssumption DEF BudgetOf, BudgetTypes
  <2> QED
    BY <2>1, <2>2
<1>6. CASE CheckToken(t) \/ WakeUp(t) \/ StreamOpened(t)
  BY <1>1, <1>6 DEF CheckToken, WakeUp, StreamOpened, budgetVars, BudgetOf, BudgetTypes, TypeOK
<1>7. CASE SendCompletion(t)
  BY <1>1, <1>7 DEF SendCompletion, budgetVars, BudgetOf, BudgetTypes, TypeOK
<1>8. CASE DoomLoopDetected(t)
  <2>1. CASE u # t
    <3>1. UNCHANGED <<pc[u], outcome[u], images[u], sends[u], strips[u], retry_count[u],
                      doom_retry_count[u]>>
      BY <1>8, <2>1 DEF DoomLoopDetected, TypeOK
    <3> QED
      BY <1>1, <3>1, BudgetFrame
  <2>2. CASE u = t
    <3>1. /\ pc[t] = "streaming" /\ pc'[t] = "sleeping"
          /\ doom_retry_count[t] < DoomMaxRetries
          /\ sends'[t] = sends[t] /\ doom_retry_count'[t] = doom_retry_count[t] + 1
      BY <1>8 DEF DoomLoopDetected, DoomArmed, TypeOK
    <3>2. UNCHANGED <<outcome, strips, images, retry_count>>
      BY <1>8 DEF DoomLoopDetected
    <3> QED
      BY <1>1, <2>2, <3>1, <3>2, SamplerAssumption DEF BudgetOf, BudgetTypes
  <2> QED
    BY <2>1, <2>2
<1>9. CASE pc[t] = "streaming" /\ Finish(t, "completed") /\ UNCHANGED budgetVars
  BY <1>1, <1>9 DEF Finish, budgetVars, BudgetOf, BudgetTypes, TypeOK
<1>10. Connect(t) \/ Stream(t) =>
         \/ \E e : pc[t] \in {"connecting", "streaming"} /\ apply_retry_decision(t, e)
         \/ StreamOpened(t) \/ DoomLoopDetected(t)
         \/ pc[t] = "streaming" /\ Finish(t, "completed") /\ UNCHANGED budgetVars
  BY DEF Connect, Stream, InitFailed, StreamFailed, StreamCompleted
<1> QED
  BY <1>2, <1>3, <1>4, <1>5, <1>6, <1>7, <1>8, <1>9, <1>10 DEF TaskStep

BudgetIInv == TypeOK /\ QueueInv /\ FreshInv /\ BudgetInv

LEMMA BudgetStep == BudgetIInv /\ [Next]_vars => BudgetIInv'
<1> SUFFICES ASSUME TypeOK, QueueInv, FreshInv, BudgetInv, [Next]_vars PROVE BudgetInv'
  BY TypeStep, QueueStep DEF BudgetIInv
<1>1. ASSUME NEW c \in Callers, NEW i \in Ids, NEW collecting \in BOOLEAN,
             NEW with_images \in BOOLEAN, NEW cfg \in Configs \cup {"default"},
             Submit(c, i, collecting, with_images, cfg)
      PROVE  BudgetInv'
  <2> DEFINE t == allocated + 1
  <2>1. t \in Tasks /\ pc[t] = "free"
    BY <1>1, SamplerAssumption DEF Submit, Tasks, TypeOK, FreshInv
  <2> SUFFICES ASSUME NEW u \in Tasks PROVE BudgetOf(u)'
    BY DEF BudgetInv
  <2>2. BudgetOf(u) /\ BudgetTypes(u)
    BY DEF BudgetInv, BudgetTypes, TypeOK
  <2>3. UNCHANGED <<sends[u], strips[u], retry_count[u], doom_retry_count[u], outcome[u]>>
    BY <1>1 DEF Submit
  <2>4. CASE u = t
    <3>1. pc'[u] = "queued" /\ images'[u] \in BOOLEAN
      BY <1>1, <2>1, <2>4 DEF Submit, TypeOK
    <3> QED
      BY <2>1, <2>2, <2>3, <2>4, <3>1 DEF BudgetOf, BudgetTypes
  <2>5. CASE u # t
    <3>1. pc'[u] = pc[u] /\ images'[u] = images[u]
      BY <1>1, <2>5 DEF Submit, TypeOK
    <3> QED
      BY <2>2, <2>3, <3>1, BudgetFrame
  <2> QED
    BY <2>4, <2>5
<1>2. CASE HandleSubmit
  <2>1. pc[Head(cmds).task] = "queued"
    BY <1>2, QueueSubmit DEF HandleSubmit
  <2> SUFFICES ASSUME NEW u \in Tasks PROVE BudgetOf(u)'
    BY DEF BudgetInv
  <2>2. BudgetOf(u) /\ UNCHANGED <<outcome, budgetVars>>
    BY <1>2 DEF HandleSubmit, BudgetInv
  <2>3. pc'[u] = pc[u] \/ (pc[u] = "queued" /\ pc'[u] = "building")
    BY <1>2, <2>1 DEF HandleSubmit, TypeOK
  <2> QED
    BY <2>2, <2>3 DEF BudgetOf, budgetVars
<1>3. CASE \E t \in Tasks : JoinNext(t)
  BY <1>3 DEF JoinNext, BudgetInv, BudgetOf, budgetVars, TypeOK
<1>4. CASE \E t \in Tasks : AbortTask(t)
  <2> SUFFICES ASSUME NEW t \in Tasks, AbortTask(t), NEW u \in Tasks PROVE BudgetOf(u)'
    BY <1>4 DEF BudgetInv
  <2>1. BudgetOf(u) /\ BudgetTypes(u) /\ UNCHANGED <<outcome, budgetVars>>
    BY DEF BudgetInv, BudgetTypes, TypeOK, AbortTask
  <2>2. CASE u # t
    BY <2>1, <2>2, BudgetFrame DEF AbortTask, TypeOK, budgetVars
  <2>3. CASE u = t
    <3>1. pc'[t] = "aborted" /\ outcome[t] = "none"
      BY <2>1, <2>3 DEF AbortTask, BudgetOf, TypeOK
    <3> QED
      BY <2>1, <2>3, <3>1 DEF BudgetOf, BudgetTypes, budgetVars
  <2> QED
    BY <2>2, <2>3
<1>5. CASE UNCHANGED <<pc, outcome, budgetVars>>
  BY <1>5 DEF BudgetInv, BudgetOf, budgetVars
<1>6. \/ \E c \in Callers : \/ \E i \in Ids : Cancel(c, i)
                            \/ \E cfg \in Configs : UpdateConfig(c, cfg)
                            \/ CollectReturns(c) \/ CollectDropped(c) \/ DropHandle(c)
      \/ NothingToJoin \/ HandleCancel \/ HandleUpdateConfig \/ BeginShutdown \/ Stop
      \/ UNCHANGED vars
      => UNCHANGED <<pc, outcome, budgetVars>>
  BY DEF Cancel, UpdateConfig, CollectReturns, CollectDropped, DropHandle, NothingToJoin,
         HandleCancel, HandleUpdateConfig, BeginShutdown, Stop, vars, budgetVars
<1> QED
  BY <1>1, <1>2, <1>3, <1>4, <1>5, <1>6, TaskBudget
     DEF Next, CallerNext, ActorNext, Terminated

LEMMA BudgetAlways == Spec => []BudgetIInv
<1>1. Init => TypeOK
  BY SamplerAssumption DEF Init, TypeOK, Phases, PcValues, Running, Outcomes, NoTask
<1>2. Init => QueueInv /\ FreshInv
  BY DEF Init, QueueInv, FreshInv
<1>3. Init => BudgetInv
  BY SamplerAssumption DEF Init, BudgetInv, BudgetOf, RetryCap
<1> QED
  BY <1>1, <1>2, <1>3, BudgetStep, PTL DEF Spec, BudgetIInv

(* No request costs more HTTP requests than its budgets allow, whatever   *)
(* errors the server answers with.                                        *)
THEOREM RequestsBounded == Spec => []SendsBounded
<1>1. ASSUME BudgetIInv PROVE SendsBounded
  <2> SUFFICES ASSUME NEW t \in Tasks PROVE sends[t] <= SendBound /\ strips[t] <= 1
    BY DEF SendsBounded
  <2>1. BudgetTypes(t) /\ BudgetOf(t)
    BY <1>1 DEF BudgetIInv, BudgetInv, BudgetTypes, TypeOK
  <2>2. strips[t] <= 1
    BY <2>1 DEF BudgetOf, BudgetTypes
  <2> QED
    BY <2>1, <2>2, SamplerAssumption DEF BudgetOf, BudgetTypes, RetryCap, SendBound
<1> QED
  BY <1>1, BudgetAlways, PTL

(* The attempts the metrics report are the HTTP requests that were sent. *)
THEOREM AttemptsCounted == Spec => []AttemptsAccounted
<1>1. BudgetIInv => AttemptsAccounted
  BY DEF BudgetIInv, BudgetInv, BudgetOf, AttemptsAccounted
<1> QED
  BY <1>1, BudgetAlways, PTL

-----------------------------------------------------------------------------
(* The registry of in-flight requests. *)

CancelInv == \A t \in Tasks : pc[t] \in {"free", "queued"} => ~cancelled[t]

ShutdownInv == ~Serving => \A i \in Ids : active_requests[i] = NoTask

RegistryInv == ActiveIsInFlight /\ CancelInv /\ ShutdownInv

(* The task an entry stands for. *)
LEMMA EntryIsTask ==
  ASSUME TypeOK, ActiveIsInFlight, NEW i \in Ids, active_requests[i] # NoTask
  PROVE  /\ active_requests[i] \in Tasks
         /\ pc[active_requests[i]] \in Spawned
         /\ ~cancelled[active_requests[i]]
         /\ request_id[active_requests[i]] = i
BY DEF ActiveIsInFlight, TypeOK, InFlight, Spawned

LEMMA RegistryStep ==
  TypeOK /\ QueueInv /\ FreshInv /\ RegistryInv /\ [Next]_vars => RegistryInv'
<1> SUFFICES ASSUME TypeOK, QueueInv, FreshInv, ActiveIsInFlight, CancelInv, ShutdownInv,
                    [Next]_vars
             PROVE  RegistryInv'
  BY DEF RegistryInv
<1> USE DEF RegistryInv
<1>1. ASSUME NEW c \in Callers, NEW i \in Ids, NEW collecting \in BOOLEAN,
             NEW with_images \in BOOLEAN, NEW cfg \in Configs \cup {"default"},
             Submit(c, i, collecting, with_images, cfg)
      PROVE  RegistryInv'
  <2> DEFINE t == allocated + 1
  <2>1. t \in Tasks /\ pc[t] = "free"
    BY <1>1, SamplerAssumption DEF Submit, Tasks, TypeOK, FreshInv
  <2>2. /\ pc' = [pc EXCEPT ![t] = "queued"] /\ request_id' = [request_id EXCEPT ![t] = i]
        /\ UNCHANGED <<phase, active_requests, cancelled>>
    BY <1>1 DEF Submit, actorVars
  <2>3. \A j \in Ids : active_requests[j] # t
    BY <2>1, EntryIsTask DEF Spawned, Running, Tasks, NoTask
  <2>4. ActiveIsInFlight'
    BY <2>2, <2>3 DEF ActiveIsInFlight, InFlight, TypeOK
  <2> QED
    BY <2>1, <2>2, <2>4 DEF CancelInv, ShutdownInv, Serving, TypeOK
<1>2. CASE HandleSubmit
  <2> DEFINE t == Head(cmds).task
             prev == active_requests[request_id[t]]
  <2>1. t \in Tasks /\ pc[t] = "queued"
    BY <1>2, QueueSubmit DEF HandleSubmit
  <2>2. /\ active_requests' = [active_requests EXCEPT ![request_id[t]] = t]
        /\ cancelled' = [u \in Tasks |-> cancelled[u] \/ u = prev]
        /\ pc' = [pc EXCEPT ![t] = "building"] /\ request_id' = request_id
        /\ phase = "recv" /\ phase' = "select"
    BY <1>2 DEF HandleSubmit, submitVars, Received
  <2>3. request_id[t] \in Ids /\ ~cancelled[t]
    BY <2>1 DEF TypeOK, CancelInv
  <2>4. \A j \in Ids : active_requests[j] # t
    BY <2>1, EntryIsTask DEF Spawned, Running, Tasks, NoTask
  <2>5. ActiveIsInFlight'
    <3> SUFFICES ASSUME NEW j \in Ids, active_requests'[j] # NoTask
                 PROVE  /\ pc'[active_requests'[j]] \in Spawned
                        /\ ~cancelled'[active_requests'[j]]
                        /\ request_id'[active_requests'[j]] = j
      BY DEF ActiveIsInFlight, InFlight, Spawned
    <3>1. CASE j = request_id[t]
      BY <2>1, <2>2, <2>3, <2>4, <3>1 DEF TypeOK, Spawned, Running
    <3>2. CASE j # request_id[t]
      <4>1. active_requests'[j] = active_requests[j]
        BY <2>2, <3>2 DEF TypeOK
      <4>2. active_requests[j] # t /\ active_requests[j] # prev /\ active_requests[j] \in Tasks
        BY <2>3, <2>4, <3>2, <4>1, EntryIsTask DEF TypeOK
      <4> QED
        BY <2>2, <4>1, <4>2, EntryIsTask DEF TypeOK
    <3> QED
      BY <3>1, <3>2
  <2>6. CancelInv'
    <3> SUFFICES ASSUME NEW u \in Tasks, pc'[u] \in {"free", "queued"} PROVE ~cancelled'[u]
      BY DEF CancelInv
    <3>1. u # t /\ pc[u] \in {"free", "queued"}
      BY <2>1, <2>2 DEF TypeOK
    <3>2. u # prev
      BY <2>3, <3>1, EntryIsTask DEF Spawned, Running, Tasks, NoTask
    <3> QED
      BY <2>2, <3>1, <3>2 DEF CancelInv
  <2>7. ShutdownInv'
    BY <2>2 DEF ShutdownInv, Serving
  <2> QED
    BY <2>5, <2>6, <2>7
<1>3. CASE HandleCancel
  <2> DEFINE i == Head(cmds).id
  <2>1. i \in Ids
    BY <1>3, ReceiveType, CommandFields DEF HandleCancel, TypeOK
  <2>2. /\ cancelled' = [u \in Tasks |-> cancelled[u] \/ u = active_requests[i]]
        /\ active_requests' = [active_requests EXCEPT ![i] = NoTask]
        /\ UNCHANGED <<pc, request_id>> /\ phase' = "select"
    BY <1>3 DEF HandleCancel, submitVars, Received
  <2>3. ActiveIsInFlight'
    <3> SUFFICES ASSUME NEW j \in Ids, active_requests'[j] # NoTask
                 PROVE  /\ pc'[active_requests'[j]] \in Spawned
                        /\ ~cancelled'[active_requests'[j]]
                        /\ request_id'[active_requests'[j]] = j
      BY DEF ActiveIsInFlight, InFlight, Spawned
    <3>1. j # i /\ active_requests'[j] = active_requests[j]
      BY <2>1, <2>2 DEF TypeOK
    <3>2. active_requests[j] # active_requests[i] /\ active_requests[j] \in Tasks
      BY <2>1, <3>1, EntryIsTask
    <3> QED
      BY <2>2, <3>1, <3>2, EntryIsTask
  <2>4. CancelInv'
    <3> SUFFICES ASSUME NEW u \in Tasks, pc[u] \in {"free", "queued"} PROVE ~cancelled'[u]
      BY <2>2 DEF CancelInv
    <3>1. u # active_requests[i]
      BY <2>1, EntryIsTask DEF Spawned, Running, Tasks, NoTask
    <3> QED
      BY <2>2, <3>1 DEF CancelInv
  <2>5. ShutdownInv'
    BY <2>2 DEF ShutdownInv, Serving
  <2> QED
    BY <2>3, <2>4, <2>5
<1>4. CASE BeginShutdown
  <2>1. active_requests' = [i \in Ids |-> NoTask] /\ pc' = pc
    BY <1>4 DEF BeginShutdown
  <2>2. CancelInv'
    <3> SUFFICES ASSUME NEW u \in Tasks, pc[u] \in {"free", "queued"} PROVE ~cancelled'[u]
      BY <2>1 DEF CancelInv
    <3>1. \A i \in Ids : active_requests[i] # u
      BY EntryIsTask DEF Spawned, Running, Tasks, NoTask
    <3> QED
      BY <1>4, <3>1 DEF BeginShutdown, CancelInv
  <2> QED
    BY <2>1, <2>2 DEF ActiveIsInFlight, ShutdownInv
<1>5. CASE \E t \in Tasks : JoinNext(t)
  <2>1. PICK t \in Tasks : JoinNext(t)
    BY <1>5
  <2>2. /\ pc[t] = "done" /\ pc' = [pc EXCEPT ![t] = "joined"] /\ phase' = "select"
        /\ active_requests' = [active_requests EXCEPT ![request_id[t]] = NoTask]
        /\ UNCHANGED <<cancelled, request_id>>
    BY <2>1 DEF JoinNext, submitVars
  <2>3. ActiveIsInFlight'
    <3> SUFFICES ASSUME NEW j \in Ids, active_requests'[j] # NoTask
                 PROVE  /\ pc'[active_requests'[j]] \in Spawned
                        /\ ~cancelled'[active_requests'[j]]
                        /\ request_id'[active_requests'[j]] = j
      BY DEF ActiveIsInFlight, InFlight, Spawned
    <3>1. j # request_id[t] /\ active_requests'[j] = active_requests[j]
      BY <2>2 DEF TypeOK
    <3>2. active_requests[j] # t
      BY <3>1, EntryIsTask
    <3> QED
      BY <2>2, <3>1, <3>2, EntryIsTask DEF TypeOK
  <2> QED
    BY <2>2, <2>3 DEF CancelInv, ShutdownInv, Serving, TypeOK
<1>6. CASE \E t \in Tasks : AbortTask(t)
  <2>1. \A i \in Ids : active_requests'[i] = NoTask
    BY <1>6 DEF AbortTask, ShutdownInv, Serving, actorVars
  <2> QED
    BY <1>6, <2>1 DEF AbortTask, ActiveIsInFlight, ShutdownInv, CancelInv, TypeOK
<1>7. CASE \E t \in Tasks : RunMove(t)
  <2>1. PICK t \in Tasks : RunMove(t)
    BY <1>7
  <2>2. \A u \in Tasks : /\ pc[u] \in Spawned => pc'[u] \in Spawned
                         /\ pc'[u] \in {"free", "queued"} => pc[u] \in {"free", "queued"}
    BY <2>1 DEF RunMove, TypeOK, Spawned, Running
  <2>3. ActiveIsInFlight'
    BY <2>1, <2>2, EntryIsTask DEF RunMove, ActiveIsInFlight, InFlight, Spawned
  <2> QED
    BY <2>1, <2>2, <2>3 DEF RunMove, CancelInv, ShutdownInv, Serving
<1>8. CASE UNCHANGED <<pc, active_requests, cancelled, request_id>> /\ (Serving => Serving')
  BY <1>8 DEF ActiveIsInFlight, InFlight, CancelInv, ShutdownInv
<1>9. CASE Stop
  BY <1>9 DEF Stop, ActiveIsInFlight, InFlight, CancelInv, ShutdownInv, Serving, submitVars
<1>10. \/ \E c \in Callers : \/ \E i \in Ids : Cancel(c, i)
                             \/ \E cfg \in Configs : UpdateConfig(c, cfg)
                             \/ CollectReturns(c) \/ CollectDropped(c) \/ DropHandle(c)
       \/ NothingToJoin \/ HandleUpdateConfig \/ UNCHANGED vars
       => UNCHANGED <<pc, active_requests, cancelled, request_id>> /\ (Serving => Serving')
  BY DEF Cancel, UpdateConfig, CollectReturns, CollectDropped, DropHandle, NothingToJoin,
         HandleUpdateConfig, Received, Serving, vars, submitVars, actorVars
<1> QED
  BY <1>1, <1>2, <1>3, <1>4, <1>5, <1>6, <1>7, <1>8, <1>9, <1>10, RunMoves
     DEF Next, CallerNext, ActorNext, Terminated

RegistryIInv == TypeOK /\ QueueInv /\ FreshInv /\ RegistryInv

LEMMA RegistryAlways == Spec => []RegistryIInv
<1>1. Init => TypeOK
  BY SamplerAssumption DEF Init, TypeOK, Phases, PcValues, Running, Outcomes, NoTask
<1>2. Init => QueueInv /\ FreshInv
  BY DEF Init, QueueInv, FreshInv
<1>3. Init => RegistryInv
  BY DEF Init, RegistryInv, ActiveIsInFlight, CancelInv, ShutdownInv, Serving
<1>4. RegistryIInv /\ [Next]_vars => RegistryIInv'
  BY TypeStep, QueueStep, RegistryStep DEF RegistryIInv
<1> QED
  BY <1>1, <1>2, <1>3, <1>4, PTL DEF Spec, RegistryIInv

(* An entry of active_requests stands for a spawned, unjoined, uncancelled *)
(* task of that id, even when callers submit an id again.                  *)
THEOREM NoGhostEntry == Spec => []ActiveIsInFlight
<1>1. RegistryIInv => ActiveIsInFlight
  BY DEF RegistryIInv, RegistryInv
<1> QED
  BY <1>1, RegistryAlways, PTL

(* The converse needs distinct ids, and reaches one state further than    *)
(* InFlightIsActive: up to the join of a finished task.                   *)
DistinctIds ==
  \A t, u \in Tasks :
    t <= allocated /\ u <= allocated /\ request_id[t] = request_id[u] => t = u

SpawnedIsActive ==
  Serving => \A t \in Tasks :
    pc[t] \in Spawned /\ ~cancelled[t] => active_requests[request_id[t]] = t

(* A caller that submits no id twice keeps the ids distinct. *)
LEMMA DistinctStep ==
  ASSUME ~ReuseIds, TypeOK, DistinctIds, [Next]_vars
  PROVE  DistinctIds'
<1>1. ASSUME NEW c \in Callers, NEW i \in Ids, NEW collecting \in BOOLEAN,
             NEW with_images \in BOOLEAN, NEW cfg \in Configs \cup {"default"},
             Submit(c, i, collecting, with_images, cfg)
      PROVE  DistinctIds'
  <2>1. /\ allocated' = allocated + 1 /\ allocated \in Nat
        /\ request_id' = [request_id EXCEPT ![allocated + 1] = i]
        /\ \A t \in Tasks : t \in Int
    BY <1>1, SamplerAssumption DEF Submit, TypeOK, Tasks
  <2>2. \A t \in Tasks : t <= allocated => request_id[t] # i
    BY <1>1 DEF Submit, UsedIds
  <2> SUFFICES ASSUME NEW t \in Tasks, NEW u \in Tasks, t <= allocated + 1,
                      u <= allocated + 1, request_id'[t] = request_id'[u]
               PROVE  t = u
    BY <2>1 DEF DistinctIds
  <2>3. \A v \in Tasks : v # allocated + 1 => request_id'[v] = request_id[v]
    BY <2>1 DEF TypeOK
  <2>4. \A v \in Tasks : v = allocated + 1 => request_id'[v] = i
    BY <2>1 DEF TypeOK
  <2>5. \A v \in Tasks : v <= allocated + 1 /\ v # allocated + 1 => v <= allocated
    BY <2>1
  <2> QED
    BY <2>2, <2>3, <2>4, <2>5 DEF DistinctIds
<1>2. CASE UNCHANGED <<allocated, request_id>>
  BY <1>2 DEF DistinctIds
<1>3. (\E t \in Tasks : TaskMove(t)) => UNCHANGED <<allocated, request_id>>
  BY DEF TaskMove
<1>4. \/ \E c \in Callers : \/ \E i \in Ids : Cancel(c, i)
                            \/ \E cfg \in Configs : UpdateConfig(c, cfg)
                            \/ CollectReturns(c) \/ CollectDropped(c) \/ DropHandle(c)
      \/ NothingToJoin \/ HandleSubmit \/ HandleCancel \/ HandleUpdateConfig
      \/ BeginShutdown \/ Stop \/ UNCHANGED vars
      => UNCHANGED <<allocated, request_id>>
  BY DEF Cancel, UpdateConfig, CollectReturns, CollectDropped, DropHandle, NothingToJoin,
         HandleSubmit, HandleCancel, HandleUpdateConfig, BeginShutdown, Stop, vars, submitVars
<1> QED
  BY <1>1, <1>2, <1>3, <1>4, TaskMoves DEF Next, CallerNext, ActorNext, Terminated

LEMMA SpawnedStep ==
  ASSUME RegistryIInv, DistinctIds, SpawnedIsActive, [Next]_vars
  PROVE  SpawnedIsActive'
<1> USE DEF RegistryIInv, RegistryInv
<1>1. \A t \in Tasks : pc[t] # "free" => t <= allocated
  BY SamplerAssumption DEF FreshInv, TypeOK, Tasks
<1>2. ASSUME NEW c \in Callers, NEW i \in Ids, NEW collecting \in BOOLEAN,
             NEW with_images \in BOOLEAN, NEW cfg \in Configs \cup {"default"},
             Submit(c, i, collecting, with_images, cfg)
      PROVE  SpawnedIsActive'
  <2> DEFINE t == allocated + 1
  <2>1. /\ pc' = [pc EXCEPT ![t] = "queued"] /\ request_id' = [request_id EXCEPT ![t] = i]
        /\ UNCHANGED <<phase, active_requests, cancelled>>
    BY <1>2 DEF Submit, actorVars
  <2> QED
    BY <2>1 DEF SpawnedIsActive, Serving, Spawned, Running, TypeOK
<1>3. CASE HandleSubmit
  <2> DEFINE t == Head(cmds).task
  <2>1. t \in Tasks /\ pc[t] = "queued" /\ request_id[t] \in Ids
    BY <1>3, QueueSubmit DEF HandleSubmit, TypeOK
  <2>2. /\ active_requests' = [active_requests EXCEPT ![request_id[t]] = t]
        /\ pc' = [pc EXCEPT ![t] = "building"] /\ request_id' = request_id
        /\ phase = "recv" /\ \A u \in Tasks : cancelled[u] => cancelled'[u]
    BY <1>3 DEF HandleSubmit, submitVars, Received
  <2> SUFFICES ASSUME NEW u \in Tasks, pc'[u] \in Spawned, ~cancelled'[u]
               PROVE  active_requests'[request_id'[u]] = u
    BY DEF SpawnedIsActive
  <2>3. CASE u = t
    BY <2>1, <2>2, <2>3 DEF TypeOK
  <2>4. CASE u # t
    <3>1. pc[u] \in Spawned /\ ~cancelled[u]
      BY <2>2, <2>4 DEF TypeOK
    <3>2. request_id[u] # request_id[t]
      BY <1>1, <2>1, <2>4, <3>1 DEF DistinctIds, Spawned, Running
    <3> QED
      BY <2>1, <2>2, <3>1, <3>2 DEF SpawnedIsActive, Serving, TypeOK
  <2> QED
    BY <2>3, <2>4
<1>4. CASE HandleCancel
  <2> DEFINE i == Head(cmds).id
  <2>1. i \in Ids
    BY <1>4, ReceiveType, CommandFields DEF HandleCancel, TypeOK
  <2>2. /\ cancelled' = [u \in Tasks |-> cancelled[u] \/ u = active_requests[i]]
        /\ active_requests' = [active_requests EXCEPT ![i] = NoTask]
        /\ UNCHANGED <<pc, request_id>> /\ phase = "recv"
    BY <1>4 DEF HandleCancel, submitVars, Received
  <2> SUFFICES ASSUME NEW u \in Tasks, pc[u] \in Spawned, ~cancelled'[u]
               PROVE  active_requests'[request_id[u]] = u
    BY <2>2 DEF SpawnedIsActive
  <2>3. ~cancelled[u] /\ u # active_requests[i]
    BY <2>2
  <2>4. active_requests[request_id[u]] = u
    BY <2>2, <2>3 DEF SpawnedIsActive, Serving
  <2> QED
    BY <2>1, <2>2, <2>3, <2>4 DEF TypeOK
<1>5. CASE BeginShutdown
  BY <1>5 DEF BeginShutdown, SpawnedIsActive, Serving
<1>6. CASE \E t \in Tasks : JoinNext(t)
  <2>1. PICK t \in Tasks : JoinNext(t)
    BY <1>6
  <2>2. /\ pc[t] = "done" /\ pc' = [pc EXCEPT ![t] = "joined"] /\ Serving
        /\ active_requests' = [active_requests EXCEPT ![request_id[t]] = NoTask]
        /\ UNCHANGED <<cancelled, request_id>>
    BY <2>1 DEF JoinNext, submitVars, Serving
  <2> SUFFICES ASSUME NEW u \in Tasks, pc'[u] \in Spawned, ~cancelled[u]
               PROVE  active_requests'[request_id[u]] = u
    BY <2>2 DEF SpawnedIsActive
  <2>3. u # t /\ pc[u] \in Spawned
    BY <2>2 DEF TypeOK, Spawned, Running
  <2>4. request_id[u] # request_id[t]
    BY <1>1, <2>2, <2>3 DEF DistinctIds, Spawned, Running
  <2> QED
    BY <2>2, <2>3, <2>4 DEF SpawnedIsActive, TypeOK
<1>7. CASE \E t \in Tasks : AbortTask(t)
  BY <1>7 DEF AbortTask, SpawnedIsActive, Serving, actorVars
<1>8. CASE \E t \in Tasks : RunMove(t)
  BY <1>8 DEF RunMove, SpawnedIsActive, Serving, Spawned, TypeOK
<1>9. CASE Stop
  BY <1>9 DEF Stop, SpawnedIsActive, Serving
<1>10. CASE UNCHANGED <<pc, active_requests, cancelled, request_id>> /\ (Serving' => Serving)
  BY <1>10 DEF SpawnedIsActive
<1>11. \/ \E c \in Callers : \/ \E i \in Ids : Cancel(c, i)
                             \/ \E cfg \in Configs : UpdateConfig(c, cfg)
                             \/ CollectReturns(c) \/ CollectDropped(c) \/ DropHandle(c)
       \/ NothingToJoin \/ HandleUpdateConfig \/ UNCHANGED vars
       => UNCHANGED <<pc, active_requests, cancelled, request_id>> /\ (Serving' => Serving)
  BY DEF Cancel, UpdateConfig, CollectReturns, CollectDropped, DropHandle, NothingToJoin,
         HandleUpdateConfig, Received, Serving, vars, submitVars, actorVars
<1> QED
  BY <1>2, <1>3, <1>4, <1>5, <1>6, <1>7, <1>8, <1>9, <1>10, <1>11, RunMoves
     DEF Next, CallerNext, ActorNext, Terminated

(* When callers never submit an id twice, every request in flight that    *)
(* was not cancelled can be found, and so cancelled, by its id.           *)
THEOREM InFlightFound == ~ReuseIds => (Spec => []InFlightIsActive)
<1> SUFFICES ASSUME ~ReuseIds PROVE Spec => []InFlightIsActive
  OBVIOUS
<1>1. Init => DistinctIds /\ SpawnedIsActive
  <2> SUFFICES ASSUME Init PROVE DistinctIds /\ SpawnedIsActive
    OBVIOUS
  <2>1. \A t \in Tasks : ~(t <= allocated) /\ pc[t] = "free"
    BY SamplerAssumption DEF Init, Tasks
  <2> QED
    BY <2>1 DEF DistinctIds, SpawnedIsActive, Spawned, Running
<1>2. RegistryIInv /\ DistinctIds /\ SpawnedIsActive /\ [Next]_vars
        => DistinctIds' /\ SpawnedIsActive'
  BY DistinctStep, SpawnedStep DEF RegistryIInv
<1>3. SpawnedIsActive => InFlightIsActive
  BY DEF SpawnedIsActive, InFlightIsActive, InFlight, Spawned
<1> QED
  BY <1>1, <1>2, <1>3, RegistryAlways, PTL DEF Spec

-----------------------------------------------------------------------------
(* Action properties. *)

(* A request sent late is sent by a task that passed its test of the token *)
(* before the token fired, and a token stays fired: the next test ends it. *)
LateOf(t) ==
  /\ late_sends[t] <= 1
  /\ late_sends[t] = 1 => cancelled[t] /\ pc[t] # "opening"
  /\ pc[t] \in {"free", "queued", "building"} => late_sends[t] = 0

LateInv == \A t \in Tasks : LateOf(t)

LEMMA LateStep == TypeOK /\ QueueInv /\ FreshInv /\ LateInv /\ [Next]_vars => LateInv'
<1> SUFFICES ASSUME TypeOK, QueueInv, FreshInv, LateInv, [Next]_vars, NEW u \in Tasks
             PROVE  LateOf(u)'
  BY DEF LateInv
<1>1. LateOf(u) /\ late_sends[u] \in Nat
  BY DEF LateInv, TypeOK
<1>2. CASE \E t \in Tasks : SendRequest(t)
  <2>1. PICK t \in Tasks : SendRequest(t)
    BY <1>2
  <2>2. CASE u = t
    <3>1. /\ pc[u] = "opening" /\ pc'[u] = "connecting" /\ cancelled' = cancelled
          /\ late_sends'[u] = late_sends[u] + (IF cancelled[u] THEN 1 ELSE 0)
      BY <2>1, <2>2 DEF SendRequest, taskFrame, TypeOK
    <3>2. late_sends[u] = 0
      BY <1>1, <3>1 DEF LateOf
    <3> QED BY <3>1, <3>2 DEF LateOf
  <2>3. CASE u # t
    BY <1>1, <2>1, <2>3 DEF SendRequest, taskFrame, TypeOK, LateOf
  <2> QED BY <2>2, <2>3
<1>3. CASE \E t \in Tasks : CheckToken(t)
  BY <1>1, <1>3 DEF CheckToken, taskFrame, budgetVars, TypeOK, LateOf
<1>4. ASSUME NEW t \in Tasks, TaskStep(t) \/ Connect(t) \/ Stream(t),
             ~CheckToken(t), ~SendRequest(t)
      PROVE  LateOf(u)'
  <2>1. late_sends' = late_sends /\ cancelled' = cancelled
    BY <1>4 DEF TaskStep, Connect, Stream, BuildClient, NoticeCancel, WakeUp, SendCompletion,
           StreamOpened, InitFailed, StreamFailed, DoomLoopDetected, StreamCompleted,
           apply_retry_decision, budgetVars, taskFrame
  <2>2. \E p \in Running \cup {"done"} : p # "opening" /\ p # "building" /\ pc' = [pc EXCEPT ![t] = p]
    <3>1. CASE BuildClient(t) \/ NoticeCancel(t) \/ Finish(t, "completed")
      BY <3>1 DEF BuildClient, NoticeCancel, Finish, Running
    <3>2. CASE WakeUp(t) \/ SendCompletion(t) \/ StreamOpened(t) \/ DoomLoopDetected(t)
      BY <3>2 DEF WakeUp, SendCompletion, StreamOpened, DoomLoopDetected, Running
    <3>3. CASE \E e : apply_retry_decision(t, e)
      BY <3>3, RetryMoves DEF Running
    <3> QED BY <1>4, <3>1, <3>2, <3>3
            DEF TaskStep, Connect, Stream, InitFailed, StreamFailed, StreamCompleted
  <2> QED BY <1>1, <2>1, <2>2 DEF LateOf, TypeOK, Running
<1>5. CASE HandleSubmit
  <2>1. Head(cmds).task \in Tasks /\ pc[Head(cmds).task] = "queued"
    BY <1>5, QueueSubmit DEF HandleSubmit
  <2> QED BY <1>1, <1>5, <2>1 DEF HandleSubmit, budgetVars, TypeOK, LateOf
<1>6. ASSUME NEW c \in Callers, NEW i \in Ids, NEW collecting \in BOOLEAN,
             NEW with_images \in BOOLEAN, NEW cfg \in Configs \cup {"default"},
             Submit(c, i, collecting, with_images, cfg)
      PROVE  LateOf(u)'
  <2>1. allocated + 1 \in Tasks /\ pc[allocated + 1] = "free"
    BY <1>6, SamplerAssumption DEF Submit, Tasks, TypeOK, FreshInv
  <2> QED BY <1>1, <1>6, <2>1 DEF Submit, TypeOK, LateOf
<1>7. CASE \E t \in Tasks : JoinNext(t) \/ AbortTask(t)
  BY <1>1, <1>7 DEF JoinNext, AbortTask, budgetVars, TypeOK, LateOf
<1>8. CASE HandleCancel \/ BeginShutdown
  BY <1>1, <1>8 DEF HandleCancel, BeginShutdown, budgetVars, TypeOK, LateOf
<1>9. CASE UNCHANGED <<pc, cancelled, late_sends>>
  BY <1>1, <1>9 DEF LateOf
<1>10. \/ \E c \in Callers : \/ \E i \in Ids : Cancel(c, i)
                             \/ \E cfg \in Configs : UpdateConfig(c, cfg)
                             \/ CollectReturns(c) \/ CollectDropped(c) \/ DropHandle(c)
       \/ NothingToJoin \/ HandleUpdateConfig \/ Stop \/ UNCHANGED vars
       => UNCHANGED <<pc, cancelled, late_sends>>
  BY DEF Cancel, UpdateConfig, CollectReturns, CollectDropped, DropHandle, NothingToJoin,
         HandleUpdateConfig, Stop, vars, budgetVars
<1> QED
  BY <1>2, <1>3, <1>4, <1>5, <1>6, <1>7, <1>8, <1>9, <1>10
     DEF Next, CallerNext, ActorNext, Terminated

(* A token that fires, at whatever point of the request's life, is worth  *)
(* at most one more HTTP request (request_task.rs:125, 430).              *)
THEOREM CancelStopsSending == Spec => []OneSendAfterCancel
<1>1. Init => TypeOK /\ QueueInv /\ FreshInv /\ LateInv
  <2>1. Init => TypeOK
    BY SamplerAssumption DEF Init, TypeOK, Phases, PcValues, Running, Outcomes, NoTask
  <2> QED BY <2>1 DEF Init, QueueInv, FreshInv, LateInv, LateOf
<1>2. LateInv => OneSendAfterCancel
  BY DEF LateInv, LateOf, OneSendAfterCancel
<1> QED
  BY <1>1, <1>2, TypeStep, QueueStep, LateStep, PTL DEF Spec

(* A task that has sent its terminal event only answers and is joined. *)
THEOREM TerminalEventLast == Spec => TerminalIsLast
<1> DEFINE Ledger(t) == <<outcome[t], sends[t], retry_count[t], doom_retry_count[t]>>
<1>1. BudgetIInv /\ [Next]_vars
        => [\A t \in Tasks : outcome[t] # "none" => UNCHANGED Ledger(t)]_vars
  <2> SUFFICES ASSUME TypeOK, BudgetInv, Next, NEW u \in Tasks, outcome[u] # "none"
               PROVE  UNCHANGED Ledger(u)
    BY DEF BudgetIInv
  <2>1. pc[u] \in {"answering", "done", "joined"}
    BY DEF BudgetInv, BudgetOf
  <2>2. \A t \in Tasks : TaskStep(t) \/ Connect(t) \/ Stream(t) => UNCHANGED Ledger(u)
    <3> SUFFICES ASSUME NEW t \in Tasks, TaskStep(t) \/ Connect(t) \/ Stream(t)
                 PROVE  UNCHANGED Ledger(u)
      OBVIOUS
    <3>1. CASE SendCompletion(t)
      BY <3>1 DEF SendCompletion, budgetVars
    <3>2. CASE u # t /\ (\/ BuildClient(t) \/ NoticeCancel(t) \/ CheckToken(t)
                         \/ SendRequest(t) \/ WakeUp(t))
      BY <3>2 DEF BuildClient, NoticeCancel, CheckToken, SendRequest, WakeUp, Finish, budgetVars, TypeOK
    <3>3. CASE u # t /\ (StreamOpened(t) \/ DoomLoopDetected(t))
      BY <3>3 DEF StreamOpened, DoomLoopDetected, budgetVars, TypeOK
    <3>4. CASE u # t /\ \E e : apply_retry_decision(t, e)
      BY <3>4 DEF apply_retry_decision, RetryAfterSleep, RetryStripped, GiveUp, Finish, TypeOK
    <3>5. CASE u # t /\ Finish(t, "completed") /\ UNCHANGED budgetVars
      BY <3>5 DEF Finish, budgetVars, TypeOK
    <3>6. Connect(t) \/ Stream(t) =>
            /\ u # t
            /\ \/ StreamOpened(t) \/ DoomLoopDetected(t)
               \/ \E e : apply_retry_decision(t, e)
               \/ Finish(t, "completed") /\ UNCHANGED budgetVars
      BY <2>1 DEF Connect, Stream, InitFailed, StreamFailed, StreamCompleted, StreamOpened,
                  DoomLoopDetected
    <3>7. \/ BuildClient(t) \/ NoticeCancel(t) \/ CheckToken(t) \/ SendRequest(t)
          \/ WakeUp(t)
          => u # t
      BY <2>1 DEF BuildClient, NoticeCancel, CheckToken, SendRequest, WakeUp
    <3> QED
      BY <3>1, <3>2, <3>3, <3>4, <3>5, <3>6, <3>7 DEF TaskStep
  <2>3. (\E c \in Callers : CallerNext(c)) \/ ActorNext \/ Terminated => UNCHANGED Ledger(u)
    BY DEF CallerNext, Submit, Cancel, UpdateConfig, CollectReturns, CollectDropped,
           DropHandle, ActorNext, JoinNext, NothingToJoin, HandleSubmit, HandleCancel,
           HandleUpdateConfig, BeginShutdown, AbortTask, Stop, Terminated, vars, budgetVars
  <2> QED
    BY <2>2, <2>3 DEF Next
<1>2. [\A t \in Tasks : outcome[t] # "none" => UNCHANGED Ledger(t)]_vars
        => [\A t \in Tasks : outcome[t] # "none" =>
              /\ outcome'[t] = outcome[t]
              /\ sends'[t] = sends[t]
              /\ retry_count'[t] + doom_retry_count'[t]
                   = retry_count[t] + doom_retry_count[t]]_vars
  OBVIOUS
<1> QED
  BY <1>1, <1>2, BudgetAlways, PTL DEF Spec, TerminalIsLast

-----------------------------------------------------------------------------
(* Callers inside submit_and_collect. *)

AnswerDue(t) ==
  pc[t] \in {"done", "joined"} => answer[t] = (IF outcome[t] = "completed" THEN "ok" ELSE "err")

(* The task somebody awaits carries a oneshot and was not aborted. *)
AwaitedInv ==
  \A c \in Callers : caller[c] \in Tasks =>
    /\ collect[caller[c]]
    /\ pc[caller[c]] \notin {"free", "aborted"}
    /\ AnswerDue(caller[c])

(* The actor leaves its loop only when nobody holds a handle, and nobody gets *)
(* one back.                                                              *)
HandleInv == ~Serving => AllHandlesDropped

(* A step of task t does not disturb another task, and t itself ends only by *)
(* answering.                                                             *)
LEMMA RunAnswers ==
  ASSUME TypeOK, NEW t \in Tasks, TaskStep(t) \/ Connect(t) \/ Stream(t), NEW u \in Tasks,
         collect[u], pc[u] \notin {"free", "aborted"}, AnswerDue(u)
  PROVE  pc'[u] \notin {"free", "aborted"} /\ AnswerDue(u)'
<1>1. RunMove(t)
  BY RunMoves
<1>2. CASE SendCompletion(t)
  BY <1>2 DEF SendCompletion, AnswerDue, TypeOK
<1>3. CASE ~SendCompletion(t)
  <2>1. pc' = [pc EXCEPT ![t] = pc'[t]] /\ pc'[t] \in Running /\ pc[t] \in Running
    <3>1. CASE BuildClient(t) \/ NoticeCancel(t)
      BY <3>1 DEF BuildClient, NoticeCancel, Finish, TypeOK, Running
    <3>2. CASE \/ CheckToken(t) \/ SendRequest(t) \/ WakeUp(t)
              \/ StreamOpened(t) \/ DoomLoopDetected(t)
      BY <3>2 DEF CheckToken, SendRequest, WakeUp, StreamOpened, DoomLoopDetected, TypeOK, Running
    <3>3. CASE \E e : apply_retry_decision(t, e)
      BY <1>1, <3>3, RetryMoves DEF RunMove, TypeOK, Running
    <3>4. CASE Finish(t, "completed")
      BY <1>1, <3>4 DEF RunMove, Finish, TypeOK, Running
    <3> QED BY <1>3, <3>1, <3>2, <3>3, <3>4
            DEF TaskStep, Connect, Stream, InitFailed, StreamFailed, StreamCompleted
  <2>2. CASE u = t
    BY <2>1, <2>2 DEF AnswerDue, Running
  <2>3. CASE u # t
    <3>1. pc'[u] = pc[u]
      BY <2>1, <2>3 DEF TypeOK
    <3>2. outcome'[u] = outcome[u] /\ answer'[u] = answer[u]
      <4>1. CASE BuildClient(t) \/ NoticeCancel(t)
        BY <2>3, <4>1 DEF BuildClient, NoticeCancel, Finish, TypeOK, taskFrame
      <4>2. CASE \/ CheckToken(t) \/ SendRequest(t) \/ WakeUp(t)
              \/ StreamOpened(t) \/ DoomLoopDetected(t)
        BY <4>2 DEF CheckToken, SendRequest, WakeUp, StreamOpened, DoomLoopDetected, taskFrame
      <4>3. CASE \E e : apply_retry_decision(t, e)
        BY <2>3, <4>3 DEF apply_retry_decision, RetryAfterSleep, RetryStripped, GiveUp, Finish,
                          TypeOK, taskFrame
      <4>4. CASE Finish(t, "completed") /\ UNCHANGED taskFrame
        BY <2>3, <4>4 DEF Finish, TypeOK, taskFrame
      <4> QED BY <1>3, <4>1, <4>2, <4>3, <4>4
              DEF TaskStep, Connect, Stream, InitFailed, StreamFailed, StreamCompleted
    <3> QED BY <3>1, <3>2 DEF AnswerDue
  <2> QED BY <2>2, <2>3
<1> QED BY <1>2, <1>3

LEMMA AwaitedStep ==
  TypeOK /\ QueueInv /\ FreshInv /\ AwaitedInv /\ HandleInv /\ [Next]_vars
    => AwaitedInv' /\ HandleInv'
<1> SUFFICES ASSUME TypeOK, QueueInv, FreshInv, AwaitedInv, HandleInv, [Next]_vars
             PROVE  AwaitedInv' /\ HandleInv'
  OBVIOUS
<1>1. ASSUME NEW c \in Callers, NEW i \in Ids, NEW collecting \in BOOLEAN,
             NEW with_images \in BOOLEAN, NEW cfg \in Configs \cup {"default"},
             Submit(c, i, collecting, with_images, cfg)
      PROVE  AwaitedInv' /\ HandleInv'
  <2> DEFINE t == allocated + 1
  <2>1. t \in Tasks /\ pc[t] = "free" /\ caller[c] = NoTask
    BY <1>1, SamplerAssumption DEF Submit, Volunteer, Tasks, TypeOK, FreshInv
  <2>2. /\ pc' = [pc EXCEPT ![t] = "queued"] /\ collect' = [collect EXCEPT ![t] = collecting]
        /\ caller' = [caller EXCEPT ![c] = IF collecting THEN t ELSE NoTask]
        /\ UNCHANGED <<phase, outcome, answer>>
    BY <1>1 DEF Submit, actorVars
  <2>3. Serving /\ Serving'
    BY <2>1, <2>2 DEF HandleInv, AllHandlesDropped, NoTask, Gone, Serving
  <2>4. ASSUME NEW d \in Callers, NEW u \in Tasks, caller'[d] = u
        PROVE  collect'[u] /\ pc'[u] \notin {"free", "aborted"} /\ AnswerDue(u)'
    <3>1. CASE u = t /\ collecting
      BY <2>1, <2>2, <3>1 DEF TypeOK, AnswerDue
    <3>2. CASE ~(u = t /\ collecting)
      <4>1. d # c /\ u = caller[d]
        BY <2>1, <2>2, <2>4, <3>2 DEF TypeOK, Tasks, NoTask
      <4>2. u # t /\ collect[u] /\ pc[u] \notin {"free", "aborted"} /\ AnswerDue(u)
        BY <2>1, <2>4, <4>1 DEF AwaitedInv
      <4>3. pc'[u] = pc[u] /\ collect'[u] = collect[u]
        BY <2>2, <2>4, <4>2 DEF TypeOK
      <4> QED BY <2>2, <4>2, <4>3 DEF AnswerDue
    <3> QED BY <3>1, <3>2
  <2> QED BY <2>3, <2>4 DEF AwaitedInv, HandleInv
<1>2. CASE /\ UNCHANGED <<phase, pc, collect, outcome, answer>>
           /\ \A c \in Callers : caller'[c] \in Tasks => caller'[c] = caller[c]
           /\ \A c \in Callers : caller[c] = Gone => caller'[c] = Gone
  BY <1>2 DEF AwaitedInv, HandleInv, AnswerDue, AllHandlesDropped, Serving
<1>3. ASSUME NEW t \in Tasks, TaskStep(t) \/ Connect(t) \/ Stream(t)
      PROVE  AwaitedInv' /\ HandleInv'
  <2>1. UNCHANGED <<phase, collect, caller>>
    BY <1>3 DEF TaskStep, Connect, Stream, BuildClient, NoticeCancel, CheckToken, SendRequest, WakeUp,
                SendCompletion, StreamOpened, InitFailed, StreamFailed, DoomLoopDetected,
                StreamCompleted, apply_retry_decision, taskFrame, actorVars, submitVars
  <2> QED BY <1>3, <2>1, RunAnswers DEF AwaitedInv, HandleInv, AllHandlesDropped, Serving
<1>4. CASE HandleSubmit
  <2>1. /\ Head(cmds).task \in Tasks /\ pc[Head(cmds).task] = "queued"
        /\ pc' = [pc EXCEPT ![Head(cmds).task] = "building"]
        /\ UNCHANGED <<collect, outcome, answer, caller>> /\ Serving
    BY <1>4, QueueSubmit DEF HandleSubmit, submitVars, Received, Serving
  <2> QED BY <1>4, <2>1 DEF HandleSubmit, Received, AwaitedInv, HandleInv, AnswerDue, Serving, TypeOK
<1>5. CASE HandleCancel \/ HandleUpdateConfig \/ NothingToJoin
  BY <1>5 DEF HandleCancel, HandleUpdateConfig, NothingToJoin, Received, submitVars, AwaitedInv,
              HandleInv, AnswerDue, Serving
<1>6. CASE \E t \in Tasks : JoinNext(t)
  BY <1>6 DEF JoinNext, submitVars, AwaitedInv, HandleInv, AnswerDue, Serving, TypeOK
<1>7. CASE BeginShutdown \/ (\E t \in Tasks : AbortTask(t)) \/ Stop
  <2>1. AllHandlesDropped /\ UNCHANGED caller
    BY <1>7 DEF BeginShutdown, AbortTask, Stop, HandleInv, Serving
  <2>2. \A c \in Callers : caller'[c] \notin Tasks
    BY <2>1 DEF AllHandlesDropped, Gone, Tasks
  <2> QED BY <2>1, <2>2 DEF AwaitedInv, HandleInv, AllHandlesDropped
<1>8. ASSUME NEW c \in Callers,
             \/ \E i \in Ids : Cancel(c, i)
             \/ \E cfg \in Configs : UpdateConfig(c, cfg)
             \/ CollectReturns(c) \/ CollectDropped(c) \/ DropHandle(c)
      PROVE  AwaitedInv' /\ HandleInv'
  <2>1. UNCHANGED <<phase, pc, collect, outcome, answer>>
    BY <1>8 DEF Cancel, UpdateConfig, CollectReturns, CollectDropped, DropHandle, actorVars,
                submitVars
  <2>2. \/ caller' = caller
        \/ caller[c] # Gone /\ caller' = [caller EXCEPT ![c] = NoTask]
        \/ caller[c] # Gone /\ caller' = [caller EXCEPT ![c] = Gone]
    <3>1. caller[c] \in Tasks \/ caller[c] = NoTask => caller[c] # Gone
      BY DEF Tasks, NoTask, Gone
    <3> QED
      BY <1>8, <3>1 DEF Cancel, UpdateConfig, CollectReturns, CollectDropped, DropHandle
  <2>3. /\ \A d \in Callers : caller'[d] \in Tasks => caller'[d] = caller[d]
        /\ \A d \in Callers : caller[d] = Gone => caller'[d] = Gone
    BY <2>2 DEF TypeOK, Tasks, NoTask, Gone
  <2> QED BY <1>2, <2>1, <2>3
<1>9. CASE UNCHANGED vars
  BY <1>2, <1>9 DEF vars
<1> QED BY <1>1, <1>3, <1>4, <1>5, <1>6, <1>7, <1>8, <1>9
        DEF Next, CallerNext, ActorNext, Terminated

(* A caller inside submit_and_collect keeps the actor serving by its own  *)
(* handle, and the task it awaits ends only after it has sent the answer  *)
(* that its terminal event calls for (handle.rs, request_task.rs).        *)
THEOREM CallersAnswered == Spec => []NoOrphanedCaller
<1> DEFINE Inv == TypeOK /\ QueueInv /\ FreshInv /\ AwaitedInv /\ HandleInv
<1>1. Init => Inv
  <2>1. Init => TypeOK
    BY SamplerAssumption DEF Init, TypeOK, Phases, PcValues, Running, Outcomes, NoTask
  <2>2. Init => QueueInv /\ FreshInv
    BY DEF Init, QueueInv, FreshInv
  <2>3. Init => AwaitedInv /\ HandleInv
    BY DEF Init, AwaitedInv, HandleInv, Serving, Tasks, NoTask
  <2> QED BY <2>1, <2>2, <2>3
<1>2. Inv /\ [Next]_vars => Inv'
  BY TypeStep, QueueStep, AwaitedStep
<1>3. Inv => NoOrphanedCaller
  BY DEF AwaitedInv, HandleInv, AllHandlesDropped, NoOrphanedCaller, AnswerDue, Tasks, Gone
<1> QED BY <1>1, <1>2, <1>3, PTL DEF Spec

=============================================================================
