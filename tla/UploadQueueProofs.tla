------------------------- MODULE UploadQueueProofs -------------------------
(***************************************************************************)
(* Theorems about UploadQueue, for every value of its constants: any       *)
(* number of artifacts, crashes, permits and attempts.                     *)
(*                                                                         *)
(* The invariant is local: ArtInv(a) speaks of one artifact's call, inline *)
(* task, items and files, and SameFor(b) is the part of the state that it  *)
(* reads, so an action that touches one artifact leaves the others alone.  *)
(* ArtCore holds however recovery is run; ArtKept is what recovery running *)
(* before the callers (~Detached) adds.                                    *)
(***************************************************************************)
EXTENDS UploadQueue, FiniteSetTheorems, TLAPS

Fresh(a) == <<a, "fresh">>
Recovered(a) == <<a, "recovered">>

ItemType == [st : TaskStates, permit : BOOLEAN, attempts : 0 .. MaxAttempts,
             auth : BOOLEAN, ok : BOOLEAN, bytes : Nat, old : BOOLEAN]

\* The typing the proofs need; the counters are PendingExact's business.
Typing ==
    /\ step \in [Artifacts -> 0 .. 7] /\ kind \in [Artifacts -> Kinds]
    /\ waiter \in [Artifacts -> {"none", "waiting", "ok", "error"}]
    /\ temp \in [Artifacts -> {"none", "torn", "whole"}]
    /\ sidecar \in [Artifacts -> BOOLEAN] /\ old \in [Artifacts -> BOOLEAN]
    /\ entry \in [Artifacts -> {"synced", "cached", "cut"}]
    /\ item \in [Items -> ItemType] /\ chan \in Seq(Items)
    /\ inline \in [Artifacts -> {"none", "wait", "run"}]
    /\ scan \subseteq Artifacts /\ guard \subseteq Artifacts
    /\ refused \subseteq Artifacts /\ accepted \subseteq Artifacts
    /\ cloud \subseteq Artifacts \X {"torn", "whole"}

\* The call is past write_temp_file, or past write_sidecar_file.
TempWritten(a) ==
    \/ At(a, "check") \/ At(a, "sidecar") \/ At(a, "account") \/ At(a, "send")
    \/ At(a, "budget") /\ kind[a] \notin {"file", "fileBlocking"}
SidecarWritten(a) == HasSidecar(a) /\ (At(a, "account") \/ At(a, "send"))
\* The artifact has not been written: no file of it can name a good object.
Early(a) == step[a] = 0 \/ (Calling(a) /\ ~TempWritten(a))

ArtCore(a) ==
    /\ Calling(a) => /\ step[a] <= Len(Steps[kind[a]])
                     /\ inline[a] = "none" /\ ~Live(Fresh(a))
                     /\ TempWritten(a) => temp[a] # "torn"
    /\ Early(a) => /\ ~sidecar[a] /\ a \notin scan
                   /\ ~Live(Fresh(a)) /\ ~Live(Recovered(a))
                   /\ inline[a] = "none"
    /\ inline[a] # "none" => /\ step[a] = 7
                             /\ OwnsTemp(a) => temp[a] # "torn"
    /\ Live(Fresh(a)) =>
         step[a] = 7 /\ temp[a] # "torn" /\ (item[Fresh(a)].ok => Delivered(a))
    /\ Live(Recovered(a)) =>
         /\ life \in {"scan", "up"} /\ a \notin scan /\ temp[a] # "torn"
         /\ item[Recovered(a)].ok => Delivered(a)
    /\ <<a, "torn">> \notin cloud
    /\ waiter[a] = "ok" => Delivered(a)
    /\ entry[a] = "cut" => step[a] = 7
    /\ a \in guard <=> /\ Deduplicates(a, kind[a])
                       /\ Calling(a) \/ Live(Fresh(a))

\* A live item: its temp file is whole until its fate is recorded.
Kept(i) ==
    Live(i) =>
      /\ life \in {"scan", "up"} /\ step[i[1]] = 7
      /\ life = "scan" => i[1] \notin scan /\ ~old[i[1]]
      /\ item[i].st \in Settling => Delivered(i[1]) \/ i[1] \in refused
      /\ item[i].st \notin Settling => temp[i[1]] = "whole"

ArtKept(a) ==
    /\ Calling(a) => /\ life = "up" /\ a \notin accepted /\ ~Live(Recovered(a))
                     /\ TempWritten(a) => temp[a] = "whole"
                     /\ SidecarWritten(a) => sidecar[a]
    /\ step[a] = 0 => a \notin accepted
    /\ inline[a] # "none" => /\ life = "up" /\ a \notin accepted
                             /\ ~Live(Fresh(a)) /\ ~Live(Recovered(a))
    /\ Kept(Fresh(a)) /\ Kept(Recovered(a))
    /\ ~(Live(Fresh(a)) /\ Live(Recovered(a)))
    /\ a \in accepted =>
         Delivered(a) \/ a \in refused \/ OnDisk(a) \/ entry[a] = "cut"

ArtInv(a) == ArtCore(a) /\ (~Detached => ArtKept(a))

\* The channel holds each queued item once, and nothing else.
ChanInv ==
    /\ \A m \in 1 .. Len(chan) : item[chan[m]].st = "queued"
    /\ \A m, n \in 1 .. Len(chan) : chan[m] = chan[n] => m = n

Global ==
    /\ scan # {} => life = "scan"
    /\ \A a, b \in guard : PathOf[a] = PathOf[b] => a = b

IInv == Typing /\ ChanInv /\ Global /\ \A a \in Artifacts : ArtInv(a)

\* What ArtInv(b) reads is as it was, or has only grown where it may.
SameFor(b) ==
    /\ step'[b] = step[b] /\ kind'[b] = kind[b] /\ waiter'[b] = waiter[b]
    /\ temp'[b] = temp[b] /\ sidecar'[b] = sidecar[b] /\ old'[b] = old[b]
    /\ inline'[b] = inline[b]
    /\ item'[Fresh(b)] = item[Fresh(b)]
    /\ item'[Recovered(b)] = item[Recovered(b)]
    /\ entry'[b] = entry[b]
    /\ b \in scan' <=> b \in scan
    /\ b \in guard' <=> b \in guard
    /\ b \in accepted' <=> b \in accepted
    /\ b \in refused => b \in refused'
    /\ <<b, "whole">> \in cloud => <<b, "whole">> \in cloud'
    /\ <<b, "torn">> \in cloud' => <<b, "torn">> \in cloud

-----------------------------------------------------------------------------
(* The order of the steps and the types of the vocabulary                  *)

FileKinds == {"file", "fileBlocking"}
SidecarKinds == {"durable", "blocking"}

(* The five orders, without the CASE. *)
LEMMA StepsOf ==
  /\ Steps["bytes"] = <<"create", "write", "budget", "account", "send">>
  /\ Steps["durable"] =
       <<"create", "write", "budget", "sidecar", "account", "send">>
  /\ Steps["blocking"] = <<"create", "write", "sidecar", "account", "send">>
  /\ \A k \in FileKinds :
       Steps[k] = <<"budget", "create", "write", "account", "send">>
  /\ \A k \in {"reference", "reflink"} :
       Steps[k] = <<"create", "write", "check", "budget", "account", "send">>
BY DEF Steps, Kinds, FileKinds

LEMMA FirstStep ==
  ASSUME NEW k \in Kinds
  PROVE  /\ Len(Steps[k]) \in 1 .. 6
         /\ Steps[k][1] \in {"create", "budget"}
         /\ Steps[k][1] = "budget" => k \in FileKinds
BY StepsOf DEF FileKinds, Kinds

(* What each step of an enqueue function is followed by: the temp file is
   written before anything that relies on it, the sidecar before the send. *)
LEMMA StepOrder ==
  ASSUME NEW k \in Kinds, NEW n \in 1 .. Len(Steps[k])
  PROVE  /\ Steps[k][n] \in {"create", "write", "check", "budget", "sidecar",
                             "account", "send"}
         /\ Steps[k][n] # "send" =>
              n + 1 \in 1 .. Len(Steps[k]) /\ n + 1 \in 1 .. 6
         /\ Steps[k][n] = "create" => Steps[k][n + 1] = "write"
         /\ Steps[k][n] = "write" =>
              /\ Steps[k][n + 1] \in {"check", "budget", "sidecar", "account"}
              /\ Steps[k][n + 1] = "budget" => k \notin FileKinds
              /\ Steps[k][n + 1] = "account" => k \notin SidecarKinds
         /\ Steps[k][n] = "check" =>
              Steps[k][n + 1] = "budget" /\ k \notin FileKinds
         /\ Steps[k][n] = "budget" =>
              IF k \in FileKinds THEN Steps[k][n + 1] = "create"
              ELSE /\ Steps[k][n + 1] \in {"sidecar", "account"}
                   /\ Steps[k][n + 1] = "account" => k \notin SidecarKinds
         /\ Steps[k][n] = "sidecar" => Steps[k][n + 1] = "account"
         /\ Steps[k][n] = "account" => Steps[k][n + 1] = "send"
<1> USE DEF FileKinds, SidecarKinds
<1>1. CASE k = "bytes"
  BY <1>1, StepsOf
<1>2. CASE k = "durable"
  BY <1>2, StepsOf
<1>3. CASE k = "blocking"
  BY <1>3, StepsOf
<1>4. CASE k \in FileKinds
  <2>1. Steps[k] = <<"budget", "create", "write", "account", "send">>
    BY <1>4, StepsOf
  <2> QED BY <1>4, <2>1
<1>5. CASE k \in {"reference", "reflink"}
  <2>1. Steps[k] = <<"create", "write", "check", "budget", "account", "send">>
    BY <1>5, StepsOf
  <2> QED BY <1>5, <2>1
<1> QED BY <1>1, <1>2, <1>3, <1>4, <1>5 DEF Kinds

LEMMA ItemShape ==
  /\ \A i \in Items : /\ i[1] \in Artifacts
                      /\ i = Fresh(i[1]) \/ i = Recovered(i[1])
  /\ \A a \in Artifacts : Fresh(a) \in Items /\ Recovered(a) \in Items
BY DEF Items, Fresh, Recovered

LEMMA NoItemType == NoItem \in ItemType
BY UploadAssumption DEF NoItem, ItemType, TaskStates

(* An action that leaves what ArtInv(b) reads alone keeps ArtInv(b). *)
LEMMA FrameArt ==
  ASSUME NEW b \in Artifacts, ArtInv(b), life' = life, SameFor(b)
  PROVE  ArtInv(b)'
<1> USE DEF SameFor, Early, TempWritten, SidecarWritten, Calling, At, Live,
            HasSidecar, OwnsTemp, Delivered, OnDisk, Deduplicates
<1>1. ArtCore(b)'
  BY DEF ArtInv, ArtCore
<1>2. ASSUME ~Detached PROVE ArtKept(b)'
  BY <1>2 DEF ArtInv, ArtKept, Kept, Fresh, Recovered
<1> QED BY <1>1, <1>2 DEF ArtInv

-----------------------------------------------------------------------------
(* The steps of a call                                                     *)

(* An action on one artifact keeps the invariant of all the others. *)
LEMMA OthersKept ==
  ASSUME IInv, NEW a \in Artifacts, life' = life,
         \A b \in Artifacts \ {a} : SameFor(b),
         Typing', ChanInv', Global', ArtInv(a)'
  PROVE  IInv'
<1>1. ASSUME NEW b \in Artifacts \ {a} PROVE ArtInv(b)'
  BY <1>1, FrameArt DEF IInv
<1> QED BY <1>1 DEF IInv

LEMMA BeginStep ==
  ASSUME IInv, NEW a \in Artifacts, NEW k \in Kinds, Begin(a, k)
  PROVE  IInv'
<1> USE DEF diskVars, taskVars, statVars, stopVars, ghostVars
<1>1. Typing'
  <2>1. /\ step' \in [Artifacts -> 0 .. 7] /\ kind' \in [Artifacts -> Kinds]
        /\ guard' \subseteq Artifacts
    BY DEF IInv, Typing, Begin, Return, Returned
  <2>2. UNCHANGED <<waiter, temp, sidecar, entry, old, item, chan, inline, scan,
                    refused, accepted, cloud>>
    BY DEF Begin
  <2> QED BY <2>1, <2>2 DEF IInv, Typing
<1>2. ChanInv' /\ Global'
  BY DEF IInv, ChanInv, Global, Begin, Deduplicates
<1>3. \A b \in Artifacts \ {a} : SameFor(b)
  BY DEF IInv, Typing, SameFor, Begin, Return, Fresh, Recovered
<1>4. ArtCore(a) /\ (~Detached => ArtKept(a))
  BY DEF IInv, ArtInv
<1>5. /\ step'[a] = 7 \/ (step'[a] = 1 /\ 1 <= Len(Steps[kind'[a]]))
      /\ ~TempWritten(a)' /\ ~SidecarWritten(a)' /\ Early(a) /\ ~Calling(a)
      /\ a \in guard' <=> Deduplicates(a, k) /\ step'[a] = 1
  <2>1. step[a] = 0 /\ a \notin guard
    BY <1>4 DEF Begin, ArtCore, Early, Calling
  <2> QED
    BY <1>4, <2>1, FirstStep
       DEF IInv, Typing, Begin, Return, Returned, FileKinds, Early, Calling,
           TempWritten, SidecarWritten, At, HasSidecar
<1>6. ArtCore(a)'
  BY <1>4, <1>5 DEF IInv, Typing, ArtCore, Begin, Early, Calling, Live,
                    OwnsTemp, Delivered, Deduplicates
<1>7. ASSUME ~Detached PROVE ArtKept(a)'
  BY <1>4, <1>5, <1>7 DEF IInv, Typing, ArtCore, ArtKept, Begin, Early,
     Calling, Live, Delivered, OnDisk, Accepting, Kept, Fresh, Recovered
<1> QED
  BY <1>1, <1>2, <1>3, <1>6, <1>7, OthersKept DEF ArtInv, Begin

(* Where a call is, in terms of what it has written. *)
LEMMA StageFacts ==
  ASSUME NEW a \in Artifacts
  PROVE  /\ At(a, "create") \/ At(a, "write") =>
              /\ Calling(a) /\ ~At(a, "send") /\ Early(a)
              /\ ~TempWritten(a) /\ ~SidecarWritten(a)
         /\ At(a, "check") \/ At(a, "sidecar") =>
              /\ Calling(a) /\ ~At(a, "send") /\ ~Early(a)
              /\ TempWritten(a) /\ ~SidecarWritten(a)
         /\ At(a, "account") =>
              /\ Calling(a) /\ ~At(a, "send") /\ ~Early(a) /\ TempWritten(a)
              /\ HasSidecar(a) => SidecarWritten(a)
         /\ At(a, "send") => /\ Calling(a) /\ ~Early(a) /\ TempWritten(a)
                             /\ HasSidecar(a) => SidecarWritten(a)
         /\ At(a, "budget") =>
              Calling(a) /\ ~At(a, "send") /\ ~SidecarWritten(a)
         /\ At(a, "check") \/ At(a, "budget") \/ At(a, "account") =>
              ~At(a, "sidecar")
BY DEF At, Calling, TempWritten, SidecarWritten, Early

LEMMA AdvanceFacts ==
  ASSUME Typing, NEW a \in Artifacts, ArtCore(a), Calling(a), ~At(a, "send"),
         Advance(a), kind' = kind
  PROVE  /\ step' \in [Artifacts -> 0 .. 7] /\ step'[a] # 0 /\ step'[a] # 7
         /\ Calling(a)' /\ step'[a] <= Len(Steps[kind'[a]])
         /\ At(a, "create") => ~TempWritten(a)'
         /\ At(a, "write") \/ At(a, "check") \/ At(a, "sidecar") \/ At(a, "account")
              => TempWritten(a)'
         /\ At(a, "budget") => (TempWritten(a)' <=> TempWritten(a))
         /\ SidecarWritten(a)' => At(a, "sidecar") \/ SidecarWritten(a)
         /\ TempWritten(a) => TempWritten(a)'
         /\ Early(a)' <=> ~TempWritten(a)'
         /\ Early(a) <=> ~TempWritten(a)
<1> DEFINE k == kind[a]
           n == step[a]
<1>1. /\ k \in Kinds /\ n \in 1 .. Len(Steps[k]) /\ n \in 1 .. 6
      /\ Steps[k][n] # "send"
  BY FirstStep DEF Typing, At, Calling, ArtCore
<1>2. /\ n + 1 \in 1 .. Len(Steps[k]) /\ n + 1 \in 1 .. 6
      /\ step'[a] = n + 1 /\ kind'[a] = k
      /\ step' \in [Artifacts -> 0 .. 7]
  <2>1. n + 1 \in 1 .. Len(Steps[k]) /\ n + 1 \in 1 .. 6
    BY <1>1, StepOrder
  <2>2. n + 1 \in 0 .. 7
    BY <2>1
  <2>3. step'[a] = n + 1 /\ step' \in [Artifacts -> 0 .. 7]
    BY <2>2 DEF Typing, Advance
  <2> QED BY <2>1, <2>2, <2>3
<1>3. Calling(a)' /\ Calling(a)
  BY <1>1, <1>2 DEF Calling
<1>4. \A r : /\ At(a, r) <=> Steps[k][n] = r
             /\ At(a, r)' <=> Steps[k][n + 1] = r
  BY <1>1, <1>2, <1>3 DEF At
<1>5. /\ At(a, "create") => ~TempWritten(a)'
      /\ At(a, "write") \/ At(a, "check") \/ At(a, "sidecar") \/ At(a, "account")
           => TempWritten(a)'
      /\ At(a, "budget") => (TempWritten(a)' <=> TempWritten(a))
  BY <1>1, <1>2, <1>4, StepOrder DEF TempWritten, FileKinds
<1>6. SidecarWritten(a)' => At(a, "sidecar") \/ SidecarWritten(a)
  <2> SUFFICES ASSUME SidecarWritten(a)', ~At(a, "sidecar")
               PROVE  SidecarWritten(a)
    OBVIOUS
  <2>1. /\ k \in SidecarKinds /\ Steps[k][n] # "sidecar"
        /\ Steps[k][n + 1] \in {"account", "send"}
    BY <1>2, <1>4 DEF SidecarWritten, HasSidecar, SidecarKinds
  <2>2. Steps[k][n] = "account"
    BY <1>1, <2>1, StepOrder DEF SidecarKinds, FileKinds
  <2> QED BY <1>4, <2>1, <2>2 DEF SidecarWritten, HasSidecar, SidecarKinds
<1>7. TempWritten(a) => TempWritten(a)'
  BY <1>5 DEF TempWritten
<1>8. step[a] # 0 /\ step'[a] # 0 /\ step'[a] # 7
  BY <1>1, <1>2
<1>9. (Early(a)' <=> ~TempWritten(a)') /\ (Early(a) <=> ~TempWritten(a))
  BY <1>3, <1>8 DEF Early
<1> QED BY <1>2, <1>3, <1>5, <1>6, <1>7, <1>8, <1>9

LEMMA ReturnFacts ==
  ASSUME Typing, NEW a \in Artifacts, Return(a)
  PROVE  /\ step' \in [Artifacts -> 0 .. 7] /\ step'[a] = 7
         /\ ~Calling(a)' /\ ~TempWritten(a)' /\ ~SidecarWritten(a)'
         /\ ~Early(a)'
BY DEF Typing, Return, Returned, Calling, TempWritten, SidecarWritten, At,
       Early

\* What no step of a call before its send touches.
CallFrame ==
    /\ UNCHANGED <<life, scan, kind, old, item, chan, cloud, refused, accepted>>
    /\ \A b \in Artifacts : entry[b] # "cut" => entry'[b] # "cut"

(* A call goes to its next step. *)
LEMMA CallAdvances ==
  ASSUME IInv, NEW a \in Artifacts, Calling(a), ~At(a, "send"), Advance(a),
         CallFrame, UNCHANGED <<inline, waiter, guard>>,
         TempWritten(a)' =>
           temp'[a] = "whole" \/ (TempWritten(a) /\ temp'[a] = temp[a]),
         sidecar'[a] = sidecar[a] \/ TempWritten(a)',
         SidecarWritten(a)' =>
           sidecar'[a] \/ (SidecarWritten(a) /\ sidecar'[a] = sidecar[a]),
         Live(Recovered(a)) => temp'[a] = temp[a]
  PROVE  ArtInv(a)'
<1>1. /\ Typing /\ ArtCore(a) /\ (~Detached => ArtKept(a)) /\ kind' = kind
      /\ life' = life /\ scan' = scan /\ item' = item /\ cloud' = cloud
      /\ refused' = refused /\ accepted' = accepted /\ waiter' = waiter
      /\ entry[a] # "cut" /\ entry'[a] # "cut"
      /\ inline' = inline /\ guard' = guard
  BY DEF IInv, ArtInv, ArtCore, Calling, CallFrame
<1>2. /\ step'[a] # 0 /\ step'[a] # 7 /\ Calling(a)'
      /\ step'[a] <= Len(Steps[kind'[a]])
      /\ Early(a)' <=> ~TempWritten(a)'
      /\ Early(a) <=> ~TempWritten(a)
      /\ TempWritten(a) => TempWritten(a)'
  BY <1>1, AdvanceFacts
<1>3. ArtCore(a)'
  BY <1>1, <1>2 DEF ArtCore, Live, OwnsTemp, Delivered, Deduplicates
<1>4. ASSUME ~Detached PROVE ArtKept(a)'
  BY <1>1, <1>2, <1>4 DEF ArtCore, ArtKept, Kept, Live, Delivered, OnDisk
<1> QED BY <1>3, <1>4 DEF ArtInv

(* A call returns, with its temp file as it was or removed, to nothing or to
   an inline task. *)
LEMMA CallReturns ==
  ASSUME IInv, NEW a \in Artifacts, Calling(a), Return(a), CallFrame,
         a \notin guard', waiter'[a] = "ok" => waiter[a] = "ok",
         temp'[a] \in {temp[a], "none"},
         inline'[a] # "none" => TempWritten(a) \/ ~OwnsTemp(a)
  PROVE  ArtInv(a)'
<1>1. /\ Typing /\ ArtCore(a) /\ (~Detached => ArtKept(a)) /\ kind' = kind
      /\ life' = life /\ scan' = scan /\ item' = item /\ cloud' = cloud
      /\ refused' = refused /\ accepted' = accepted
      /\ entry[a] # "cut" /\ entry'[a] # "cut"
  BY DEF IInv, ArtInv, ArtCore, Calling, CallFrame
<1>2. step'[a] = 7 /\ ~Calling(a)' /\ ~Early(a)'
  BY <1>1, ReturnFacts
<1>3. ArtCore(a)'
  BY <1>1, <1>2 DEF ArtCore, Live, OwnsTemp, Delivered, Deduplicates
<1>4. ASSUME ~Detached PROVE ArtKept(a)'
  BY <1>1, <1>2, <1>4 DEF ArtCore, ArtKept, Kept, Live, Delivered, OnDisk
<1> QED BY <1>3, <1>4 DEF ArtInv

LEMMA CreateTempStep ==
  ASSUME IInv, NEW a \in Artifacts, CreateTemp(a)
  PROVE  IInv'
<1> USE DEF CreateTemp, diskVars, taskVars, statVars, stopVars, ghostVars
<1>1. Typing /\ ArtCore(a) /\ At(a, "create") /\ CallFrame
  BY DEF IInv, ArtInv, CallFrame
<1>2. ArtInv(a)' /\ step' \in [Artifacts -> 0 .. 7]
  <2>1. /\ Calling(a) /\ ~At(a, "send")
        /\ step' \in [Artifacts -> 0 .. 7]
        /\ ~TempWritten(a)'
        /\ SidecarWritten(a)' => SidecarWritten(a)
        /\ ~Live(Recovered(a))
    BY <1>1, StageFacts, AdvanceFacts DEF CallFrame, ArtCore
  <2> QED
    BY <1>1, <2>1, CallAdvances DEF Typing
<1>3. Typing'
  BY <1>1, <1>2 DEF Typing
<1>4. ChanInv' /\ Global'
  BY DEF IInv, ChanInv, Global
<1>5. \A b \in Artifacts \ {a} : SameFor(b)
  BY <1>1 DEF Typing, SameFor, Advance, Return
<1> QED
  BY <1>2, <1>3, <1>4, <1>5, OthersKept

LEMMA WriteTempStep ==
  ASSUME IInv, NEW a \in Artifacts, WriteTemp(a)
  PROVE  IInv'
<1> USE DEF WriteTemp, diskVars, taskVars, statVars, stopVars, ghostVars
<1>1. Typing /\ ArtCore(a) /\ At(a, "write") /\ CallFrame
  BY DEF IInv, ArtInv, CallFrame
<1>2. ArtInv(a)' /\ step' \in [Artifacts -> 0 .. 7]
  <2>1. CASE temp' = [temp EXCEPT ![a] = "whole"] /\ Advance(a) /\ UNCHANGED guard
    <3>1. /\ Calling(a) /\ ~At(a, "send")
          /\ step' \in [Artifacts -> 0 .. 7]
          /\ TempWritten(a)'
          /\ SidecarWritten(a)' => SidecarWritten(a)
          /\ ~Live(Recovered(a))
      BY <1>1, <2>1, StageFacts, AdvanceFacts DEF CallFrame, ArtCore
    <3> QED
      BY <1>1, <2>1, <3>1, CallAdvances DEF Typing
  <2>2. CASE Return(a) /\ guard' = guard \ {a} /\ UNCHANGED temp
    <3>1. /\ Calling(a)
          /\ TempWritten(a) \/ ~OwnsTemp(a) \/ inline'[a] = "none"
          /\ step' \in [Artifacts -> 0 .. 7]
      BY <1>1, <2>2, StageFacts, ReturnFacts DEF ArtCore
    <3> QED
      BY <1>1, <2>2, <3>1, CallReturns DEF Typing, HasWaiter
  <2> QED BY <2>1, <2>2
<1>3. Typing'
  BY <1>1, <1>2 DEF Typing
<1>4. ChanInv' /\ Global'
  BY DEF IInv, ChanInv, Global
<1>5. \A b \in Artifacts \ {a} : SameFor(b)
  BY <1>1 DEF Typing, SameFor, Advance, Return
<1> QED
  BY <1>2, <1>3, <1>4, <1>5, OthersKept

LEMMA CheckSnapshotStep ==
  ASSUME IInv, NEW a \in Artifacts, CheckSnapshot(a)
  PROVE  IInv'
<1> USE DEF CheckSnapshot, diskVars, taskVars, statVars, stopVars, ghostVars
<1>1. Typing /\ ArtCore(a) /\ At(a, "check") /\ CallFrame
  BY DEF IInv, ArtInv, CallFrame
<1>2. ArtInv(a)' /\ step' \in [Artifacts -> 0 .. 7]
  <2>1. CASE Advance(a) /\ UNCHANGED <<temp, guard>>
    <3>1. /\ Calling(a) /\ ~At(a, "send")
          /\ step' \in [Artifacts -> 0 .. 7]
          /\ TempWritten(a) /\ TempWritten(a)'
          /\ SidecarWritten(a)' => SidecarWritten(a)
      BY <1>1, <2>1, StageFacts, AdvanceFacts DEF CallFrame
    <3> QED
      BY <1>1, <2>1, <3>1, CallAdvances DEF Typing
  <2>2. CASE /\ temp' = [temp EXCEPT ![a] = "none"]
           /\ Return(a) /\ guard' = guard \ {a}
    <3>1. /\ Calling(a)
          /\ TempWritten(a) \/ ~OwnsTemp(a) \/ inline'[a] = "none"
          /\ step' \in [Artifacts -> 0 .. 7]
      BY <1>1, <2>2, StageFacts, ReturnFacts DEF ArtCore
    <3> QED
      BY <1>1, <2>2, <3>1, CallReturns DEF Typing, HasWaiter
  <2> QED BY <2>1, <2>2
<1>3. Typing'
  BY <1>1, <1>2 DEF Typing
<1>4. ChanInv' /\ Global'
  BY DEF IInv, ChanInv, Global
<1>5. \A b \in Artifacts \ {a} : SameFor(b)
  BY <1>1 DEF Typing, SameFor, Advance, Return
<1> QED
  BY <1>2, <1>3, <1>4, <1>5, OthersKept

LEMMA CheckBudgetStep ==
  ASSUME IInv, NEW a \in Artifacts, CheckBudget(a)
  PROVE  IInv'
<1> USE DEF CheckBudget, GoInline, diskVars, taskVars, statVars, stopVars, ghostVars
<1>1. Typing /\ ArtCore(a) /\ At(a, "budget") /\ CallFrame
  BY DEF IInv, ArtInv, CallFrame
<1>2. ArtInv(a)' /\ step' \in [Artifacts -> 0 .. 7]
  <2>1. CASE Advance(a) /\ UNCHANGED <<temp, inline, waiter, guard>>
    <3>1. /\ Calling(a) /\ ~At(a, "send")
          /\ step' \in [Artifacts -> 0 .. 7]
          /\ (TempWritten(a)' => TempWritten(a))
          /\ SidecarWritten(a)' => SidecarWritten(a)
      BY <1>1, <2>1, StageFacts, AdvanceFacts DEF CallFrame
    <3> QED
      BY <1>1, <2>1, <3>1, CallAdvances DEF Typing
  <2>2. CASE /\ GoInline(a)
           /\ temp' = IF OwnsTemp(a) THEN temp ELSE [temp EXCEPT ![a] = "none"]
    <3>1. /\ Calling(a)
          /\ TempWritten(a) \/ ~OwnsTemp(a) \/ inline'[a] = "none"
          /\ step' \in [Artifacts -> 0 .. 7]
      BY <1>1, <2>2, StageFacts, ReturnFacts DEF ArtCore, TempWritten, OwnsTemp
    <3> QED
      BY <1>1, <2>2, <3>1, CallReturns DEF Typing, HasWaiter
  <2> QED BY <2>1, <2>2
<1>3. Typing'
  <2>1. /\ temp' \in [Artifacts -> {"none", "torn", "whole"}]
        /\ waiter' \in [Artifacts -> {"none", "waiting", "ok", "error"}]
        /\ inline' \in [Artifacts -> {"none", "wait", "run"}]
        /\ guard' \subseteq Artifacts
    BY <1>1 DEF Typing
  <2>2. UNCHANGED <<kind, sidecar, entry, old, item, chan, scan, refused,
                    accepted, cloud>>
    OBVIOUS
  <2> QED BY <1>1, <1>2, <2>1, <2>2 DEF Typing
<1>4. ChanInv' /\ Global'
  BY DEF IInv, ChanInv, Global
<1>5. \A b \in Artifacts \ {a} : SameFor(b)
  BY <1>1 DEF Typing, SameFor, Advance, Return
<1> QED
  BY <1>2, <1>3, <1>4, <1>5, OthersKept

LEMMA WriteSidecarStep ==
  ASSUME IInv, NEW a \in Artifacts, WriteSidecar(a)
  PROVE  IInv'
<1> USE DEF WriteSidecar, diskVars, taskVars, statVars, stopVars, ghostVars
<1>1. Typing /\ ArtCore(a) /\ At(a, "sidecar") /\ CallFrame
  <2>1. Typing /\ ArtCore(a)
    BY DEF IInv, ArtInv
  <2> QED BY <2>1 DEF Typing, CallFrame
<1>2. ArtInv(a)' /\ step' \in [Artifacts -> 0 .. 7]
  <2>1. CASE /\ sidecar' = [sidecar EXCEPT ![a] = TRUE] /\ Advance(a)
           /\ entry' = [entry EXCEPT ![a] = "cached"] /\ UNCHANGED <<temp, guard>>
    <3>1. /\ Calling(a) /\ ~At(a, "send")
          /\ step' \in [Artifacts -> 0 .. 7]
          /\ TempWritten(a) /\ TempWritten(a)'
      BY <1>1, <2>1, StageFacts, AdvanceFacts DEF CallFrame
    <3> QED
      BY <1>1, <2>1, <3>1, CallAdvances DEF Typing
  <2>2. CASE /\ temp' = [temp EXCEPT ![a] = "none"] /\ Return(a)
           /\ guard' = guard \ {a} /\ UNCHANGED <<sidecar, entry>>
    <3>1. /\ Calling(a)
          /\ TempWritten(a) \/ ~OwnsTemp(a) \/ inline'[a] = "none"
          /\ step' \in [Artifacts -> 0 .. 7]
      BY <1>1, <2>2, StageFacts, ReturnFacts DEF ArtCore
    <3> QED
      BY <1>1, <2>2, <3>1, CallReturns DEF Typing, HasWaiter
  <2> QED BY <2>1, <2>2
<1>3. Typing'
  BY <1>1, <1>2 DEF Typing
<1>4. ChanInv' /\ Global'
  BY DEF IInv, ChanInv, Global
<1>5. \A b \in Artifacts \ {a} : SameFor(b)
  BY <1>1 DEF Typing, SameFor, Advance, Return
<1> QED
  BY <1>2, <1>3, <1>4, <1>5, OthersKept

LEMMA AccountStep ==
  ASSUME IInv, NEW a \in Artifacts, Account(a)
  PROVE  IInv'
<1> USE DEF Account, diskVars, taskVars, statVars, stopVars, ghostVars
<1>1. Typing /\ ArtCore(a) /\ At(a, "account") /\ CallFrame
  BY DEF IInv, ArtInv, CallFrame
<1>2. ArtInv(a)' /\ step' \in [Artifacts -> 0 .. 7]
  <2>1. /\ Calling(a) /\ ~At(a, "send")
        /\ step' \in [Artifacts -> 0 .. 7]
        /\ TempWritten(a) /\ TempWritten(a)'
        /\ SidecarWritten(a)' => SidecarWritten(a)
    BY <1>1, StageFacts, AdvanceFacts DEF CallFrame
  <2> QED
    BY <1>1, <2>1, CallAdvances DEF Typing
<1>3. Typing'
  BY <1>1, <1>2 DEF Typing
<1>4. ChanInv' /\ Global'
  BY DEF IInv, ChanInv, Global
<1>5. \A b \in Artifacts \ {a} : SameFor(b)
  BY <1>1 DEF Typing, SameFor, Advance, Return
<1> QED
  BY <1>2, <1>3, <1>4, <1>5, OthersKept

LEMMA SendFullStep ==
  ASSUME IInv, NEW a \in Artifacts, SendFull(a)
  PROVE  IInv'
<1> USE DEF SendFull, RollBack, GoInline, diskVars, taskVars, statVars, stopVars, ghostVars
<1>1. Typing /\ ArtCore(a) /\ At(a, "send") /\ CallFrame
  BY DEF IInv, ArtInv, CallFrame
<1>2. ArtInv(a)' /\ step' \in [Artifacts -> 0 .. 7]
  <2>1. /\ Calling(a)
        /\ TempWritten(a) \/ ~OwnsTemp(a) \/ inline'[a] = "none"
        /\ step' \in [Artifacts -> 0 .. 7]
    BY <1>1, StageFacts, ReturnFacts DEF ArtCore
  <2> QED
    BY <1>1, <2>1, CallReturns DEF Typing, HasWaiter
<1>3. Typing'
  BY <1>1, <1>2 DEF Typing
<1>4. ChanInv' /\ Global'
  BY DEF IInv, ChanInv, Global
<1>5. \A b \in Artifacts \ {a} : SameFor(b)
  BY <1>1 DEF Typing, SameFor, Advance, Return
<1> QED
  BY <1>2, <1>3, <1>4, <1>5, OthersKept

LEMMA SendClosedStep ==
  ASSUME IInv, NEW a \in Artifacts, SendClosed(a)
  PROVE  IInv'
<1> USE DEF SendClosed, RollBack, GoInline, diskVars, taskVars, statVars, stopVars, ghostVars
<1>1. Typing /\ ArtCore(a) /\ At(a, "send") /\ CallFrame
  BY DEF IInv, ArtInv, CallFrame
<1>2. ArtInv(a)' /\ step' \in [Artifacts -> 0 .. 7]
  <2>1. /\ Calling(a)
        /\ TempWritten(a) \/ ~OwnsTemp(a) \/ inline'[a] = "none"
        /\ step' \in [Artifacts -> 0 .. 7]
    BY <1>1, StageFacts, ReturnFacts DEF ArtCore
  <2> QED
    BY <1>1, <2>1, CallReturns DEF Typing, HasWaiter
<1>3. Typing'
  BY <1>1, <1>2 DEF Typing
<1>4. ChanInv' /\ Global'
  BY DEF IInv, ChanInv, Global
<1>5. \A b \in Artifacts \ {a} : SameFor(b)
  BY <1>1 DEF Typing, SameFor, Advance, Return
<1> QED
  BY <1>2, <1>3, <1>4, <1>5, OthersKept

-----------------------------------------------------------------------------
(* The channel                                                             *)

LEMMA ChanAppend ==
  ASSUME Typing, ChanInv, NEW i \in Items, item[i].st # "queued",
         chan' = Append(chan, i), item'[i].st = "queued",
         \A j \in Items \ {i} : item'[j] = item[j]
  PROVE  ChanInv' /\ chan' \in Seq(Items)
<1>1. chan \in Seq(Items) /\ chan' \in Seq(Items) /\ Len(chan) \in Nat
  BY DEF Typing
<1>2. /\ Len(chan') = Len(chan) + 1 /\ chan'[Len(chan) + 1] = i
      /\ \A m \in 1 .. Len(chan) : chan'[m] = chan[m] /\ chan[m] \in Items
  BY <1>1
<1>3. \A m \in 1 .. Len(chan) : chan[m] # i
  BY DEF ChanInv
<1>4. \A m \in 1 .. Len(chan') : m \in 1 .. Len(chan) \/ m = Len(chan) + 1
  BY <1>1, <1>2
<1>5. \A m \in 1 .. Len(chan') : item'[chan'[m]].st = "queued"
  BY <1>2, <1>3, <1>4 DEF ChanInv
<1>6. \A m, n \in 1 .. Len(chan') : chan'[m] = chan'[n] => m = n
  BY <1>2, <1>3, <1>4 DEF ChanInv
<1> QED BY <1>1, <1>5, <1>6 DEF ChanInv

LEMMA ChanTail ==
  ASSUME Typing, ChanInv, chan # <<>>
  PROVE  /\ Head(chan) \in Items /\ item[Head(chan)].st = "queued"
         /\ Tail(chan) \in Seq(Items)
         /\ chan' = Tail(chan)
              /\ (\A j \in Items \ {Head(chan)} : item'[j] = item[j]) => ChanInv'
<1>1. chan \in Seq(Items) /\ Len(chan) \in Nat /\ Len(chan) # 0
  BY DEF Typing
<1>2. Head(chan) = chan[1] /\ Head(chan) \in Items /\ Tail(chan) \in Seq(Items)
  BY <1>1
<1>3. item[Head(chan)].st = "queued"
  BY <1>1, <1>2 DEF ChanInv
<1>4. ASSUME chan' = Tail(chan),
             \A j \in Items \ {Head(chan)} : item'[j] = item[j]
      PROVE  ChanInv'
  <2>1. /\ Len(chan') = Len(chan) - 1
        /\ \A m \in 1 .. Len(chan') :
             /\ m + 1 \in 1 .. Len(chan) /\ chan'[m] = chan[m + 1]
             /\ chan[m + 1] \in Items /\ chan[m + 1] # Head(chan)
    BY <1>1, <1>2, <1>4 DEF ChanInv
  <2>2. \A m \in 1 .. Len(chan') : item'[chan'[m]].st = "queued"
    BY <1>4, <2>1 DEF ChanInv
  <2>3. \A m, n \in 1 .. Len(chan') : chan'[m] = chan'[n] => m = n
    BY <1>1, <2>1 DEF ChanInv
  <2> QED BY <2>2, <2>3 DEF ChanInv
<1> QED BY <1>2, <1>3, <1>4

LEMMA ChanSame ==
  ASSUME Typing, ChanInv, chan' = chan,
         \A i \in Items : item[i].st = "queued" => item'[i].st = "queued"
  PROVE  ChanInv'
<1>1. \A m \in 1 .. Len(chan) : chan[m] \in Items
  BY DEF Typing
<1> QED BY <1>1 DEF ChanInv

LEMMA SendStep ==
  ASSUME IInv, NEW a \in Artifacts, Send(a)
  PROVE  IInv'
<1> USE DEF Send, diskVars, stopVars, statVars
<1> DEFINE i == Fresh(a)
<1>1. /\ Typing /\ ChanInv /\ ArtCore(a) /\ (~Detached => ArtKept(a))
      /\ At(a, "send") /\ i \in Items /\ Recovered(a) \in Items
      /\ Recovered(a) # i
  BY ItemShape DEF IInv, ArtInv, Fresh, Recovered
<1>2. /\ Calling(a) /\ ~Early(a) /\ TempWritten(a) /\ ~Live(i)
      /\ HasSidecar(a) => SidecarWritten(a)
  BY <1>1, StageFacts DEF ArtCore
<1>3. /\ step' \in [Artifacts -> 0 .. 7] /\ step'[a] = 7
      /\ ~Calling(a)' /\ ~Early(a)'
  BY <1>1, ReturnFacts
<1>4. /\ item'[i] = [NoItem EXCEPT !.st = "queued"]
      /\ item' \in [Items -> ItemType]
      /\ \A j \in Items \ {i} : item'[j] = item[j]
      /\ item'[i].st = "queued" /\ item'[i].ok = FALSE
  <2>1. [NoItem EXCEPT !.st = "queued"] \in ItemType
    BY NoItemType DEF NoItem, ItemType, TaskStates
  <2>2. /\ [NoItem EXCEPT !.st = "queued"].st = "queued"
        /\ [NoItem EXCEPT !.st = "queued"].ok = FALSE
    BY DEF NoItem
  <2> QED BY <1>1, <2>1, <2>2 DEF Typing, Fresh
<1>5. ChanInv' /\ chan' \in Seq(Items)
  BY <1>1, <1>2, <1>4, ChanAppend DEF Live, Fresh
<1>6. Typing'
  BY <1>1, <1>3, <1>4, <1>5 DEF Typing
<1>7. Global'
  BY DEF IInv, Global
<1>8. \A b \in Artifacts \ {a} : SameFor(b)
  BY <1>1, <1>4, ItemShape DEF Typing, SameFor, Return, Fresh, Recovered
<1>9. /\ ~Live(Recovered(a))' <=> ~Live(Recovered(a))
      /\ item'[Recovered(a)] = item[Recovered(a)]
      /\ Live(i)' /\ item'[i].st \notin Settling
  BY <1>1, <1>4 DEF Live, Settling
<1>10. ArtCore(a)'
  BY <1>1, <1>2, <1>3, <1>4, <1>9
     DEF Typing, ArtCore, OwnsTemp, Delivered, Deduplicates
<1>11. ASSUME ~Detached PROVE ArtKept(a)'
  BY <1>1, <1>2, <1>3, <1>4, <1>9, <1>11
     DEF Typing, ArtCore, ArtKept, Kept, Delivered, OnDisk, Fresh, Recovered
<1> QED
  BY <1>5, <1>6, <1>7, <1>8, <1>10, <1>11, OthersKept DEF ArtInv

-----------------------------------------------------------------------------
(* Inline tasks, the worker and the upload tasks                           *)

LEMMA InlineAcquireStep ==
  ASSUME IInv, NEW a \in Artifacts, InlineAcquire(a)
  PROVE  IInv'
<1> USE DEF InlineAcquire, callVars, diskVars, taskVars, statVars, stopVars,
            ghostVars
<1>1. Typing /\ ArtCore(a) /\ (~Detached => ArtKept(a))
  BY DEF IInv, ArtInv
<1>2. Typing' /\ ChanInv' /\ Global'
  BY <1>1 DEF IInv, Typing, ChanInv, Global
<1>3. \A b \in Artifacts \ {a} : SameFor(b)
  BY <1>1 DEF Typing, SameFor
<1>4. ArtCore(a)'
  BY <1>1 DEF Typing, ArtCore, Early, Calling, TempWritten, At, Live, OwnsTemp,
              Delivered, Deduplicates
<1>5. ASSUME ~Detached PROVE ArtKept(a)'
  BY <1>1, <1>5
     DEF Typing, ArtKept, Kept, Calling, TempWritten, SidecarWritten, At,
         HasSidecar, Live, Delivered, OnDisk
<1> QED
  BY <1>2, <1>3, <1>4, <1>5, OthersKept DEF ArtInv

LEMMA InlineFinishStep ==
  ASSUME IInv, NEW a \in Artifacts, InlineFinish(a)
  PROVE  IInv'
<1> USE DEF InlineFinish, callVars, taskVars, statVars, stopVars
<1>1. Typing /\ ArtCore(a) /\ (~Detached => ArtKept(a)) /\ inline[a] = "run"
  BY DEF IInv, ArtInv
<1>2. OwnsTemp(a) => temp[a] # "torn"
  BY <1>1 DEF ArtCore
<1>3. /\ cloud \subseteq cloud' /\ <<a, "torn">> \notin cloud'
      /\ cloud' \subseteq cloud \cup {<<a, "whole">>}
      /\ waiter'[a] = "ok" => Delivered(a)'
      /\ waiter' \in [Artifacts -> {"none", "waiting", "ok", "error"}]
      /\ \A b \in Artifacts \ {a} : waiter'[b] = waiter[b]
      /\ temp'[a] = IF OwnsTemp(a) THEN "none" ELSE temp[a]
  BY <1>1, <1>2 DEF Typing, ArtCore, Answer, Delivered
<1>4. Typing' /\ ChanInv' /\ Global'
  BY <1>1, <1>3 DEF IInv, Typing, ChanInv, Global
<1>5. \A b \in Artifacts \ {a} : SameFor(b)
  BY <1>1, <1>3 DEF Typing, SameFor
<1>6. ~Calling(a) /\ ~Calling(a)' /\ ~Early(a)' /\ inline'[a] = "none"
  BY <1>1 DEF Typing, ArtCore, Calling, Early
<1>7. ArtCore(a)'
  BY <1>1, <1>3, <1>6 DEF Typing, ArtCore, Live, Delivered, Deduplicates
<1>8. ASSUME ~Detached PROVE ArtKept(a)'
  BY <1>1, <1>3, <1>6, <1>8 DEF Typing, ArtKept, Kept, Live, Delivered, OnDisk
<1> QED
  BY <1>4, <1>5, <1>7, <1>8, OthersKept DEF ArtInv

\* A step of the worker or of a task that writes no file and stores nothing:
\* one item moves on, and if its fate is now settled that has been recorded.
QuietTask(i) ==
    /\ UNCHANGED <<life, scan, step, kind, temp, sidecar, old, entry, guard,
                   inline, cloud, accepted>>
    /\ item' \in [Items -> ItemType]
    /\ Live(i) /\ item[i].st \notin Settling
    /\ item'[i].st \notin {"none", "queued"}
    /\ \A j \in Items \ {i} : item'[j] = item[j]
    /\ item'[i].st \in Settling => Delivered(i[1]) \/ i[1] \in refused'
    /\ item'[i].ok => item[i].ok \/ Delivered(i[1])
    /\ refused' = refused \/ refused' = refused \cup {i[1]}
    /\ waiter' \in [Artifacts -> {"none", "waiting", "ok", "error"}]
    /\ \A b \in Artifacts : waiter'[b] = waiter[b] \/ b = i[1]
    /\ waiter'[i[1]] = "ok" => waiter[i[1]] = "ok"

LEMMA QuietTaskStep ==
  ASSUME IInv, NEW i \in Items, QuietTask(i), ChanInv', chan' \in Seq(Items)
  PROVE  IInv'
<1> USE DEF QuietTask
<1> DEFINE a == i[1]
<1>1. /\ a \in Artifacts /\ (i = Fresh(a) \/ i = Recovered(a))
      /\ Fresh(a) \in Items /\ Recovered(a) \in Items
      /\ \A b \in Artifacts \ {a} : Fresh(b) \in Items \ {i}
                                    /\ Recovered(b) \in Items \ {i}
      /\ Fresh(a) # Recovered(a)
  BY ItemShape DEF Fresh, Recovered
<1>2. Typing /\ ArtCore(a) /\ (~Detached => ArtKept(a))
  BY <1>1 DEF IInv, ArtInv
<1>3. Typing' /\ Global'
  BY <1>1, <1>2 DEF IInv, Typing, Global
<1>4. \A b \in Artifacts \ {a} : SameFor(b)
  BY <1>1 DEF SameFor
<1>5. /\ Calling(a)' <=> Calling(a)
      /\ TempWritten(a)' <=> TempWritten(a)
      /\ SidecarWritten(a)' <=> SidecarWritten(a)
      /\ Early(a)' <=> Early(a)
      /\ Delivered(a)' <=> Delivered(a)
      /\ Live(Fresh(a))' <=> Live(Fresh(a))
      /\ Live(Recovered(a))' <=> Live(Recovered(a))
  BY <1>1 DEF Calling, TempWritten, SidecarWritten, HasSidecar, Early, At,
              Delivered, Live
<1>6. ArtCore(a)'
  <2>1. /\ item'[Fresh(a)].ok => item[Fresh(a)].ok \/ Delivered(a)
        /\ item'[Recovered(a)].ok => item[Recovered(a)].ok \/ Delivered(a)
    BY <1>1
  <2> QED
    BY <1>1, <1>2, <1>5, <2>1 DEF ArtCore, OwnsTemp, Deduplicates
<1>7. ASSUME ~Detached PROVE ArtKept(a)'
  <2>1. ArtKept(a)
    BY <1>2, <1>7
  <2>2. Kept(Fresh(a))' /\ Kept(Recovered(a))'
    BY <1>1, <1>5, <2>1 DEF ArtKept, Kept, Fresh, Recovered, Live, Delivered
  <2> QED
    BY <1>1, <1>5, <2>1, <2>2 DEF ArtKept, OnDisk
<1> QED
  BY <1>1, <1>3, <1>4, <1>6, <1>7, OthersKept DEF ArtInv

\* The actions of a task that QuietTask describes.
Quiet(i) ==
    \/ TaskStart(i) \/ WireOk(i) \/ WireTerminal(i) \/ WireRetryable(i)
    \/ WireUnauthorized(i) \/ Backoff(i) \/ Park(i) \/ ParkSlice(i)
    \/ ParkWoken(i) \/ Reacquire(i)

LEMMA SetItemType ==
  ASSUME Typing, NEW i \in Items, NEW st \in TaskStates, SetItem(i, st)
  PROVE  /\ item' \in [Items -> ItemType] /\ item'[i].st = st
         /\ item'[i].ok = item[i].ok
         /\ \A j \in Items \ {i} : item'[j] = item[j]
BY ZenonT(60) DEF Typing, ItemType, SetItem

LEMMA AttemptRange ==
  MaxAttempts \in Nat /\ 0 \in 0 .. MaxAttempts /\ 1 \in 0 .. MaxAttempts
<1>1. MaxAttempts \in Nat \ {0}
  BY UploadAssumption
<1> QED BY <1>1

LEMMA GiveUpType ==
  ASSUME Typing, NEW i \in Items, NEW counts \in BOOLEAN, GiveUp(i, counts)
  PROVE  /\ item' \in [Items -> ItemType] /\ item'[i].st = "rmTemp"
         /\ item'[i].ok = item[i].ok
         /\ \A j \in Items \ {i} : item'[j] = item[j]
         /\ refused' = refused \cup {i[1]} /\ i[1] \in refused'
<1>1. /\ item' = [item EXCEPT ![i].st = "rmTemp", ![i].attempts = 0,
                              ![i].auth = FALSE]
      /\ refused' = refused \cup {i[1]}
  BY DEF GiveUp
<1>2. item \in [Items -> ItemType] /\ "rmTemp" \in TaskStates
  BY DEF Typing, TaskStates, Settling
<1>3. item' \in [Items -> ItemType]
  BY <1>1, <1>2, AttemptRange, ZenonT(60) DEF ItemType
<1> QED BY <1>1, <1>2, <1>3 DEF ItemType

LEMMA AttemptedType ==
  ASSUME Typing, NEW i \in Items
  PROVE  Attempted(i) \in 0 .. MaxAttempts
<1>1. /\ item[i].attempts \in Nat /\ item[i].attempts <= MaxAttempts
      /\ MaxAttempts \in Nat
  BY AttemptRange DEF Typing, ItemType
<1> DEFINE S == {item[i].attempts + 1, MaxAttempts}
<1>2. \E x \in S : \A y \in S : x <= y
  BY <1>1
<1>3. Min(S) \in S /\ \A y \in S : Min(S) <= y
  BY <1>2 DEF Min
<1> QED BY <1>1, <1>3 DEF Attempted

LEMMA QuietIsQuiet ==
  ASSUME IInv, NEW i \in Items, Quiet(i)
  PROVE  QuietTask(i) /\ chan' = chan
<1> USE DEF callVars, diskVars, statVars, stopVars, ghostVars
<1> DEFINE a == i[1]
<1>1. /\ Typing /\ a \in Artifacts /\ ArtCore(a) /\ i \in Items
      /\ (i = Fresh(a) \/ i = Recovered(a)) /\ item[i] \in ItemType
  BY ItemShape DEF IInv, ArtInv, Typing
<1>2. \A r \in {"ok", "error"} :
        /\ Answer(a, r) \in [Artifacts -> {"none", "waiting", "ok", "error"}]
        /\ \A b \in Artifacts : Answer(a, r)[b] = waiter[b] \/ b = a
        /\ Answer(a, "error")[a] = "ok" => waiter[a] = "ok"
  BY <1>1 DEF Typing, Answer
<1> USE DEF QuietTask, Live, Settling
<1>3. CASE TaskStart(i)
  <2>1. Expired(i) \in BOOLEAN
    BY <1>1 DEF Expired, Typing, ItemType
  <2> DEFINE bytes == IF kind[i[1]] \in {"reference", "reflink"}
                      THEN DiskBytes(i[1]) ELSE FileSize(i[1])
  <2>2. bytes \in Nat
    BY <1>1, UploadAssumption DEF DiskBytes, FileSize
  <2>3. item' \in [Items -> ItemType] /\ item'[i].ok = item[i].ok
        /\ item'[i].st = (IF Expired(i) THEN "rmTemp" ELSE "wire")
        /\ \A j \in Items \ {i} : item'[j] = item[j]
    BY <1>1, <1>3, <2>1, <2>2, AttemptRange
       DEF TaskStart, Typing, ItemType, TaskStates
  <2> QED BY <1>1, <1>3, <2>1, <2>3 DEF TaskStart, Typing
<1>4. CASE WireOk(i)
  <2>1. Delivered(a)
    BY <1>1, <1>4 DEF WireOk, Delivered, ArtCore, Typing
  <2>2. /\ item' \in [Items -> ItemType] /\ item'[i].st = "rmTemp"
        /\ \A j \in Items \ {i} : item'[j] = item[j]
    BY <1>1, <1>4, AttemptRange DEF WireOk, Typing, ItemType, TaskStates
  <2> QED BY <1>1, <1>4, <2>1, <2>2 DEF WireOk, Typing
<1>5. CASE WireTerminal(i)
  BY <1>1, <1>5, GiveUpType DEF WireTerminal, Typing
<1>6. CASE WireRetryable(i)
  <2>1. CASE GiveUp(i, TRUE)
    BY <1>1, <1>6, <2>1, GiveUpType DEF WireRetryable, Typing
  <2>2. CASE SetItem(i, "backoff") /\ UNCHANGED <<refused, failures>>
    BY <1>1, <1>6, <2>2, SetItemType DEF WireRetryable, Typing, TaskStates
  <2> QED BY <1>6, <2>1, <2>2 DEF WireRetryable
<1>7. CASE WireUnauthorized(i)
  <2>1. item' \in [Items -> ItemType] /\ item'[i].ok = item[i].ok
        /\ item'[i].st \in {"wire", "park"}
        /\ \A j \in Items \ {i} : item'[j] = item[j]
    BY <1>1, <1>7, AttemptedType
       DEF WireUnauthorized, Typing, ItemType, TaskStates
  <2> QED BY <1>1, <1>7, <2>1 DEF WireUnauthorized, Typing
<1>8. CASE Backoff(i)
  <2>1. item' \in [Items -> ItemType] /\ item'[i].ok = item[i].ok
        /\ item'[i].st = "wire" /\ \A j \in Items \ {i} : item'[j] = item[j]
    BY <1>1, <1>8, AttemptedType DEF Backoff, Typing, ItemType, TaskStates
  <2> QED BY <1>1, <1>8, <2>1 DEF Backoff, Typing
<1>9. CASE Park(i)
  <2>1. waiter' \in {waiter, Answer(a, "error")}
    BY <1>9 DEF Park
  <2>2. CASE GiveUp(i, TRUE)
    BY <1>1, <1>2, <1>9, <2>1, <2>2, GiveUpType, ZenonT(60) DEF Park, Typing
  <2>3. CASE SetItem(i, "wait") /\ UNCHANGED <<refused, failures>>
    BY <1>1, <1>2, <1>9, <2>1, <2>3, SetItemType DEF Park, Typing, TaskStates
  <2> QED BY <1>9, <2>2, <2>3 DEF Park
<1>10. CASE ParkSlice(i)
  BY <1>1, <1>10, SetItemType DEF ParkSlice, Typing, TaskStates
<1>11. CASE ParkWoken(i)
  <2>1. CASE GiveUp(i, TRUE)
    BY <1>1, <1>11, <2>1, GiveUpType DEF ParkWoken, Typing
  <2>2. CASE SetItem(i, "reacquire") /\ UNCHANGED <<refused, failures>>
    BY <1>1, <1>11, <2>2, SetItemType DEF ParkWoken, Typing, TaskStates
  <2> QED BY <1>11, <2>1, <2>2 DEF ParkWoken
<1>12. CASE Reacquire(i)
  <2>1. item' \in [Items -> ItemType] /\ item'[i].ok = item[i].ok
        /\ item'[i].st = "wire" /\ \A j \in Items \ {i} : item'[j] = item[j]
    BY <1>1, <1>12, AttemptedType DEF Reacquire, Typing, ItemType, TaskStates
  <2> QED BY <1>1, <1>12, <2>1 DEF Reacquire, Typing
<1> QED
  BY <1>3, <1>4, <1>5, <1>6, <1>7, <1>8, <1>9, <1>10, <1>11, <1>12 DEF Quiet

LEMMA QuietStep ==
  ASSUME IInv, NEW i \in Items, Quiet(i)
  PROVE  IInv'
<1>1. QuietTask(i) /\ chan' = chan /\ Typing /\ ChanInv
  BY QuietIsQuiet DEF IInv
<1>2. item[i].st # "queued"
  BY DEF Quiet, TaskStart, WireOk, WireTerminal, WireRetryable,
         WireUnauthorized, Backoff, Park, ParkSlice, ParkWoken, Reacquire
<1>3. ChanInv'
  BY <1>1, <1>2, ChanSame DEF QuietTask
<1> QED BY <1>1, <1>3, QuietTaskStep DEF Typing

LEMMA WorkerReceiveStep ==
  ASSUME IInv, WorkerReceive
  PROVE  IInv'
<1> USE DEF WorkerReceive, callVars, diskVars, statVars, stopVars, ghostVars
<1> DEFINE i == Head(chan)
<1>1. Typing /\ ChanInv /\ chan # <<>> /\ chan' = Tail(chan) /\ SetItem(i, "held")
  BY DEF IInv
<1>2. i \in Items /\ item[i].st = "queued" /\ chan' \in Seq(Items)
  BY <1>1, ChanTail
<1>3. /\ item' \in [Items -> ItemType] /\ item'[i].st = "held"
      /\ item'[i].ok = item[i].ok
      /\ \A j \in Items \ {i} : item'[j] = item[j]
  BY <1>1, <1>2, SetItemType DEF TaskStates
<1>4. ChanInv'
  BY <1>1, <1>3, ChanTail
<1>5. QuietTask(i)
  BY <1>1, <1>2, <1>3, ItemShape DEF QuietTask, Typing, Live, Settling
<1> HIDE DEF i
<1> QED BY <1>2, <1>4, <1>5, QuietTaskStep

LEMMA WorkerDispatchStep ==
  ASSUME IInv, WorkerDispatch
  PROVE  IInv'
<1> USE DEF callVars, diskVars, statVars, stopVars, ghostVars
<1>1. PICK i \in Items :
        /\ item[i].st = "held"
        /\ item' = [item EXCEPT ![i].st = "start", ![i].permit = TRUE]
  BY DEF WorkerDispatch
<1>2. Typing /\ ChanInv /\ chan' = chan
  BY DEF IInv, WorkerDispatch
<1>3. /\ item' \in [Items -> ItemType] /\ item'[i].st = "start"
      /\ item'[i].ok = item[i].ok
      /\ \A j \in Items \ {i} : item'[j] = item[j]
  <2>1. item \in [Items -> ItemType] /\ "start" \in TaskStates
    BY <1>2 DEF Typing, TaskStates
  <2>2. item' \in [Items -> ItemType]
    BY <1>1, <2>1 DEF ItemType
  <2> QED BY <1>1, <2>1, <2>2 DEF ItemType
<1>4. ChanInv'
  BY <1>1, <1>2, <1>3, ChanSame
<1>5. QuietTask(i)
  BY <1>1, <1>2, <1>3, ItemShape
     DEF WorkerDispatch, QuietTask, Typing, Live, Settling
<1> QED BY <1>2, <1>4, <1>5, QuietTaskStep DEF Typing

\* What IInv reads.
ReadVars == <<life, scan, step, kind, waiter, temp, sidecar, old, entry, guard,
              item, chan, inline, cloud, refused, accepted>>

LEMMA Unread ==
  ASSUME IInv, UNCHANGED ReadVars
  PROVE  IInv'
<1>1. Typing' /\ ChanInv' /\ Global' /\ life' = life
  BY DEF IInv, ReadVars, Typing, ChanInv, Global
<1>2. ASSUME NEW b \in Artifacts PROVE ArtInv(b)'
  BY <1>1, <1>2, FrameArt DEF IInv, SameFor, ReadVars
<1> QED BY <1>1, <1>2 DEF IInv

LEMMA WorkerStep ==
  ASSUME IInv, Worker
  PROVE  IInv'
<1> USE DEF callVars, diskVars, statVars, stopVars, ghostVars, ReadVars
<1>1. CASE WorkerTop
  BY <1>1, Unread DEF WorkerTop
<1>2. CASE WorkerCooled
  BY <1>2, Unread DEF WorkerCooled
<1>3. CASE WorkerShutdown
  BY <1>3, Unread DEF WorkerShutdown
<1>4. CASE WorkerSendersGone
  BY <1>4, Unread DEF WorkerSendersGone
<1>5. CASE WorkerDrained
  BY <1>5, Unread DEF WorkerDrained
<1>6. CASE WorkerExit
  BY <1>6, Unread DEF WorkerExit
<1> QED
  BY <1>1, <1>2, <1>3, <1>4, <1>5, <1>6, WorkerReceiveStep, WorkerDispatchStep
     DEF Worker

(* What the task's own artifact is, for the steps below. *)
LEMMA TaskArt ==
  ASSUME IInv, NEW i \in Items
  PROVE  /\ Typing /\ ChanInv /\ Global
         /\ i[1] \in Artifacts /\ ArtCore(i[1])
         /\ ~Detached => ArtKept(i[1])
         /\ i = Fresh(i[1]) \/ i = Recovered(i[1])
         /\ Fresh(i[1]) \in Items /\ Recovered(i[1]) \in Items
         /\ Fresh(i[1]) # Recovered(i[1])
         /\ \A b \in Artifacts \ {i[1]} :
              Fresh(b) \in Items \ {i} /\ Recovered(b) \in Items \ {i}
BY ItemShape DEF IInv, ArtInv, Fresh, Recovered

LEMMA WireStoresStep ==
  ASSUME IInv, NEW i \in Items, WireStores(i)
  PROVE  IInv'
<1> USE DEF WireStores, callVars, diskVars, taskVars, statVars, stopVars
<1> DEFINE a == i[1]
<1>1. /\ Typing /\ a \in Artifacts /\ ArtCore(a) /\ (~Detached => ArtKept(a))
      /\ i = Fresh(a) \/ i = Recovered(a)
  BY TaskArt
<1>2. temp[a] = "whole" /\ cloud' = cloud \cup {<<a, "whole">>}
  BY <1>1 DEF ArtCore, Live, Typing
<1>3. Typing' /\ ChanInv' /\ Global'
  BY <1>1, <1>2 DEF IInv, Typing, ChanInv, Global
<1>4. ASSUME NEW b \in Artifacts PROVE SameFor(b)
  BY <1>2, <1>4 DEF SameFor
<1>5. ASSUME NEW b \in Artifacts PROVE ArtInv(b)'
  BY <1>4, <1>5, FrameArt DEF IInv
<1> QED BY <1>3, <1>5 DEF IInv

(* The temp file goes, then the sidecar. *)
LEMMA RemoveFileStep ==
  ASSUME IInv, NEW i \in Items, RemoveTemp(i) \/ RemoveSidecar(i)
  PROVE  IInv'
<1> USE DEF RemoveTemp, RemoveSidecar, callVars, statVars, stopVars, ghostVars
<1> DEFINE a == i[1]
<1>1. /\ Typing /\ ChanInv /\ a \in Artifacts /\ ArtCore(a)
      /\ ~Detached => ArtKept(a)
      /\ i = Fresh(a) \/ i = Recovered(a)
      /\ Fresh(a) \in Items /\ Recovered(a) \in Items /\ Fresh(a) # Recovered(a)
      /\ \A b \in Artifacts \ {a} :
           Fresh(b) \in Items \ {i} /\ Recovered(b) \in Items \ {i}
  BY TaskArt
<1>2. /\ item' \in [Items -> ItemType] /\ item'[i].st \in {"rmSide", "settle"}
      /\ item'[i].ok = item[i].ok
      /\ \A j \in Items \ {i} : item'[j] = item[j]
  BY <1>1, SetItemType DEF TaskStates, Settling
<1>3. /\ Typing' /\ Global' /\ temp'[a] \in {temp[a], "none"}
      /\ sidecar'[a] => sidecar[a]
  BY <1>1, <1>2 DEF IInv, Typing, Global
<1>4. ChanInv'
  BY <1>1, <1>2, ChanSame
<1>5. \A b \in Artifacts \ {a} : SameFor(b)
  BY <1>1, <1>2 DEF SameFor, Typing
<1>6. /\ Calling(a)' <=> Calling(a)
      /\ TempWritten(a)' <=> TempWritten(a)
      /\ SidecarWritten(a)' <=> SidecarWritten(a)
      /\ Early(a)' <=> Early(a)
      /\ Delivered(a)' <=> Delivered(a)
      /\ Live(Fresh(a))' <=> Live(Fresh(a))
      /\ Live(Recovered(a))' <=> Live(Recovered(a))
      /\ item'[Fresh(a)].ok = item[Fresh(a)].ok
      /\ item'[Recovered(a)].ok = item[Recovered(a)].ok
  BY <1>1, <1>2 DEF Calling, TempWritten, SidecarWritten, HasSidecar, Early,
                    At, Delivered, Live
<1>7. ArtCore(a)'
  BY <1>1, <1>3, <1>6 DEF ArtCore, OwnsTemp, Deduplicates
<1>8. ASSUME ~Detached PROVE ArtKept(a)'
  <2>1. ArtKept(a) /\ Live(i) /\ Live(i)' /\ (Delivered(a) \/ a \in refused)
    BY <1>1, <1>2, <1>8 DEF ArtKept, Kept, Live, Settling
  <2>2. Kept(Fresh(a))' /\ Kept(Recovered(a))'
    BY <1>1, <1>2, <1>6, <2>1
       DEF ArtKept, Kept, Fresh, Recovered, Live, Delivered, Settling
  <2>3. step[a] = 7 /\ ~Calling(a)
    BY <1>1, <2>1 DEF ArtKept, Kept, Calling
  <2> QED
    BY <1>1, <1>6, <2>1, <2>2, <2>3 DEF ArtKept
<1> QED
  BY <1>1, <1>3, <1>4, <1>5, <1>7, <1>8, OthersKept DEF ArtInv

LEMMA SettleStep ==
  ASSUME IInv, NEW i \in Items, Settle(i)
  PROVE  IInv'
<1> USE DEF Settle, callVars, diskVars, stopVars, ghostVars
<1> DEFINE a == i[1]
<1>1. /\ Typing /\ ChanInv /\ a \in Artifacts /\ ArtCore(a)
      /\ ~Detached => ArtKept(a)
      /\ i = Fresh(a) \/ i = Recovered(a)
      /\ Fresh(a) \in Items /\ Recovered(a) \in Items /\ Fresh(a) # Recovered(a)
      /\ \A b \in Artifacts \ {a} :
           Fresh(b) \in Items \ {i} /\ Recovered(b) \in Items \ {i}
  BY TaskArt
<1>2. /\ item' \in [Items -> ItemType] /\ item'[i].st = "none"
      /\ \A j \in Items \ {i} : item'[j] = item[j]
  BY <1>1, NoItemType DEF Typing, NoItem
<1>3. /\ waiter' \in [Artifacts -> {"none", "waiting", "ok", "error"}]
      /\ \A b \in Artifacts \ {a} : waiter'[b] = waiter[b]
      /\ waiter'[a] = "ok" => Delivered(a)
  BY <1>1 DEF Typing, Answer, ArtCore, Live, Fresh, Recovered
<1>4. Typing' /\ Global'
  BY <1>1, <1>2, <1>3 DEF IInv, Typing, Global
<1>5. ChanInv'
  BY <1>1, <1>2, ChanSame
<1>6. \A b \in Artifacts \ {a} : SameFor(b)
  BY <1>1, <1>2, <1>3 DEF SameFor, Typing
<1>7. /\ Calling(a)' <=> Calling(a)
      /\ TempWritten(a)' <=> TempWritten(a)
      /\ SidecarWritten(a)' <=> SidecarWritten(a)
      /\ Early(a)' <=> Early(a)
      /\ Delivered(a)' <=> Delivered(a)
      /\ i = Fresh(a) => ~Live(Fresh(a))' /\ a \notin guard'
      /\ i = Recovered(a) => ~Live(Recovered(a))' /\ guard' = guard
      /\ i # Fresh(a) => item'[Fresh(a)] = item[Fresh(a)]
      /\ i # Recovered(a) => item'[Recovered(a)] = item[Recovered(a)]
      /\ i = Fresh(a) => ~Calling(a)
  BY <1>1, <1>2 DEF Calling, TempWritten, SidecarWritten, HasSidecar, Early,
                    At, Delivered, Live, ArtCore, Fresh, Recovered
<1>8. ArtCore(a)'
  BY <1>1, <1>3, <1>7 DEF ArtCore, OwnsTemp, Deduplicates, Live
<1>9. ASSUME ~Detached PROVE ArtKept(a)'
  <2>1. ArtKept(a)
    BY <1>1, <1>9
  <2>2. Kept(Fresh(a))' /\ Kept(Recovered(a))'
    BY <1>1, <1>7, <2>1 DEF ArtKept, Kept, Live, Delivered
  <2> QED
    BY <1>1, <1>7, <2>1, <2>2 DEF ArtKept, Live, OnDisk
<1> QED
  BY <1>1, <1>4, <1>5, <1>6, <1>8, <1>9, OthersKept DEF ArtInv

-----------------------------------------------------------------------------
(* Drain, crash, restart and recovery                                      *)

LEMMA DrainTimeoutStep ==
  ASSUME IInv, DrainTimeout
  PROVE  IInv'
<1> USE DEF callVars, diskVars, statVars, stopVars, ghostVars
<1> DEFINE gone == {i \in Items : Live(i) /\ item[i].st \notin Settling}
           fresh == {a \in Artifacts : Fresh(a) \in gone}
<1>1. /\ item' = [i \in Items |-> IF i \in gone THEN NoItem ELSE item[i]]
      /\ waiter' = [a \in Artifacts |->
                      IF a \in fresh THEN Answer(a, "error")[a] ELSE waiter[a]]
      /\ guard' = guard \ fresh /\ chan' = <<>>
      /\ UNCHANGED <<life, scan, step, kind, temp, sidecar, old, entry, inline,
                     cloud, refused, accepted>>
  BY DEF DrainTimeout, Fresh
<1>2. Typing /\ NoItem.st = "none" /\ NoItem \in ItemType
  BY NoItemType DEF IInv, NoItem
<1>3. item' \in [Items -> ItemType]
      /\ \A i \in Items : item'[i] = item[i] \/ item'[i].st = "none"
  BY <1>1, <1>2 DEF Typing
<1>4. /\ waiter' \in [Artifacts -> {"none", "waiting", "ok", "error"}]
      /\ \A a \in Artifacts : waiter'[a] = "ok" => waiter[a] = "ok"
  BY <1>1, <1>2 DEF Typing, Answer
<1>5. Typing' /\ ChanInv' /\ Global'
  BY <1>1, <1>2, <1>3, <1>4 DEF IInv, Typing, ChanInv, Global
<1>6. ASSUME NEW a \in Artifacts PROVE ArtInv(a)'
  <2>1. /\ ArtCore(a) /\ (~Detached => ArtKept(a))
        /\ Fresh(a) \in Items /\ Recovered(a) \in Items
    BY <1>6, ItemShape DEF IInv, ArtInv
  <2>2. /\ Calling(a)' <=> Calling(a)
        /\ TempWritten(a)' <=> TempWritten(a)
        /\ SidecarWritten(a)' <=> SidecarWritten(a)
        /\ Early(a)' <=> Early(a)
        /\ Delivered(a)' <=> Delivered(a)
        /\ Live(Fresh(a))' => item'[Fresh(a)] = item[Fresh(a)]
        /\ Live(Recovered(a))' => item'[Recovered(a)] = item[Recovered(a)]
        /\ Live(Fresh(a))' => Live(Fresh(a))
        /\ Live(Recovered(a))' => Live(Recovered(a))
    BY <1>1, <1>3, <2>1 DEF Calling, TempWritten, SidecarWritten, HasSidecar,
                            Early, At, Delivered, Live
  <2>3. a \in guard' <=> a \in guard /\ (Calling(a) \/ Live(Fresh(a))')
    <3>1. Fresh(a) \in gone <=> Live(Fresh(a)) /\ ~Live(Fresh(a))'
      BY <1>1, <1>2, <2>1 DEF Live
    <3>2. Calling(a) => ~Live(Fresh(a))
      BY <2>1 DEF ArtCore
    <3>3. a \in guard => Calling(a) \/ Live(Fresh(a))
      BY <2>1 DEF ArtCore
    <3> QED BY <1>1, <1>6, <2>2, <3>1, <3>2, <3>3
  <2>4. ArtCore(a)'
    BY <1>1, <1>4, <1>6, <2>1, <2>2, <2>3 DEF ArtCore, OwnsTemp, Deduplicates
  <2>5. ASSUME ~Detached PROVE ArtKept(a)'
    <3>1. ArtKept(a)
      BY <2>1, <2>5
    <3>2. Kept(Fresh(a))' /\ Kept(Recovered(a))'
      BY <1>1, <2>2, <3>1 DEF ArtKept, Kept, Delivered
    <3> QED BY <1>1, <2>2, <3>1, <3>2 DEF ArtKept, OnDisk
  <2> QED BY <2>4, <2>5 DEF ArtInv
<1> HIDE DEF gone, fresh
<1> QED BY <1>5, <1>6 DEF IInv

LEMMA CrashStep ==
  ASSUME IInv, Crash
  PROVE  IInv'
<1>1. /\ life' = "down" /\ guard' = {} /\ scan' = {} /\ chan' = <<>>
      /\ step' = [a \in Artifacts |-> IF Calling(a) THEN Returned ELSE step[a]]
      /\ waiter' = [a \in Artifacts |->
                      IF waiter[a] = "waiting" THEN "none" ELSE waiter[a]]
      /\ item' = [i \in Items |-> NoItem]
      /\ inline' = [a \in Artifacts |-> "none"]
      /\ UNCHANGED <<kind, old, cloud, refused, accepted>>
  BY DEF Crash, ghostVars
<1>2. PICK T \in SUBSET {a \in Artifacts : temp[a] = "whole"} :
        temp' = [a \in Artifacts |-> IF a \in T THEN "torn" ELSE temp[a]]
  BY DEF Crash
<1>6. PICK L \in SUBSET {a \in Artifacts : sidecar[a] /\ entry[a] = "cached"} :
        /\ sidecar' = [a \in Artifacts |-> sidecar[a] /\ a \notin L]
        /\ entry' = [a \in Artifacts |->
                       IF a \in L THEN "cut"
                       ELSE IF entry[a] = "cut" THEN "cut" ELSE "synced"]
  BY DEF Crash
<1>3. Typing /\ NoItem.st = "none" /\ NoItem \in ItemType
  BY NoItemType DEF IInv, NoItem
<1>4. Typing' /\ ChanInv' /\ Global'
  BY <1>1, <1>2, <1>3, <1>6 DEF Typing, ChanInv, Global, Returned
<1>5. ASSUME NEW a \in Artifacts PROVE ArtInv(a)'
  <2>1. /\ ArtCore(a) /\ (~Detached => ArtKept(a))
        /\ Fresh(a) \in Items /\ Recovered(a) \in Items
    BY <1>5, ItemShape DEF IInv, ArtInv
  <2>2. /\ ~Calling(a)' /\ ~Live(Fresh(a))' /\ ~Live(Recovered(a))'
        /\ step'[a] = IF Calling(a) THEN 7 ELSE step[a]
        /\ inline'[a] = "none" /\ a \notin guard' /\ a \notin scan'
        /\ Delivered(a)' <=> Delivered(a)
        /\ waiter'[a] = "ok" => waiter[a] = "ok"
    BY <1>1, <1>3, <1>5, <2>1
       DEF Typing, Calling, Returned, Live, Delivered
  <2>6. /\ OnDisk(a)' <=> OnDisk(a) /\ a \notin L
        /\ sidecar'[a] => sidecar[a]
        /\ entry'[a] = "cut" <=> entry[a] = "cut" \/ a \in L
        /\ a \in L => sidecar[a]
    BY <1>2, <1>3, <1>5, <1>6 DEF Typing, OnDisk
  <2>3. /\ Early(a)' => step[a] = 0 /\ Early(a)
        /\ a \in L => step'[a] = 7
    BY <1>3, <1>5, <2>1, <2>2, <2>6 DEF Early, ArtCore, Calling, Typing
  <2>4. ArtCore(a)'
    BY <1>1, <2>1, <2>2, <2>3, <2>6 DEF ArtCore
  <2>5. ASSUME ~Detached PROVE ArtKept(a)'
    BY <1>1, <2>1, <2>2, <2>5, <2>6 DEF ArtKept, Kept
  <2> QED BY <2>4, <2>5 DEF ArtInv
<1> QED BY <1>4, <1>5 DEF IInv

(* Restart and the directory snapshot change life and scan only. *)
LEMMA LifeStep ==
  ASSUME IInv, Restart \/ RecoverySnapshot
  PROVE  IInv'
<1> USE DEF callVars, diskVars, taskVars, statVars, stopVars, ghostVars
<1>1. /\ \/ life = "down" /\ life' = "boot" /\ scan' = scan
         \/ /\ life = "boot" /\ life' = "scan"
            /\ scan' = {a \in Artifacts : sidecar[a]}
      /\ UNCHANGED <<step, kind, waiter, temp, sidecar, old, entry, guard, item,
                     chan, inline, cloud, refused, accepted>>
  BY DEF Restart, RecoverySnapshot
<1>2. Typing' /\ ChanInv' /\ Global'
  BY <1>1 DEF IInv, Typing, ChanInv, Global
<1>3. ASSUME NEW a \in Artifacts PROVE ArtInv(a)'
  <2>1. ArtCore(a) /\ (~Detached => ArtKept(a)) /\ Typing
    BY <1>3 DEF IInv, ArtInv
  <2>2. ~Live(Recovered(a)) /\ (a \in scan' => a \in scan \/ sidecar[a])
    BY <1>1, <2>1 DEF ArtCore
  <2>3. /\ Calling(a)' <=> Calling(a)
        /\ TempWritten(a)' <=> TempWritten(a)
        /\ SidecarWritten(a)' <=> SidecarWritten(a)
        /\ Early(a)' <=> Early(a)
        /\ Delivered(a)' <=> Delivered(a)
        /\ Live(Fresh(a))' <=> Live(Fresh(a))
        /\ Live(Recovered(a))' <=> Live(Recovered(a))
    BY <1>1 DEF Calling, TempWritten, SidecarWritten, HasSidecar, Early, At,
                Delivered, Live
  <2>4. ArtCore(a)'
    BY <1>1, <2>1, <2>2, <2>3 DEF ArtCore, OwnsTemp, Deduplicates
  <2>5. ASSUME ~Detached PROVE ArtKept(a)'
    <3>1. ArtKept(a) /\ ~Live(Fresh(a)) /\ ~Calling(a) /\ inline[a] = "none"
      BY <1>1, <2>1, <2>5 DEF ArtKept, Kept
    <3> QED BY <1>1, <2>2, <2>3, <3>1 DEF ArtKept, Kept, OnDisk
  <2> QED BY <2>4, <2>5 DEF ArtInv
<1> QED BY <1>2, <1>3 DEF IInv

LEMMA RecoverStep ==
  ASSUME IInv, NEW a \in Artifacts, Recover(a)
  PROVE  IInv'
<1> USE DEF callVars, diskVars, stopVars
<1> DEFINE i == Recovered(a)
<1>1. /\ Typing /\ ChanInv /\ ArtCore(a) /\ (~Detached => ArtKept(a))
      /\ life = "scan" /\ a \in scan /\ scan' = scan \ {a}
      /\ i \in Items /\ Fresh(a) \in Items /\ Fresh(a) # i
      /\ UNCHANGED <<life, step, kind, waiter, old, entry, guard, inline, cloud>>
  BY ItemShape
     DEF IInv, ArtInv, Recover, EnqueueRecovered, DeletePair, Fresh, Recovered
<1>2. ~Live(i) /\ ~Early(a)
  BY <1>1 DEF ArtCore
<1>3. /\ Calling(a)' <=> Calling(a)
      /\ TempWritten(a)' <=> TempWritten(a)
      /\ SidecarWritten(a)' <=> SidecarWritten(a)
      /\ Early(a)' <=> Early(a)
      /\ Delivered(a)' <=> Delivered(a)
  BY <1>1 DEF Calling, TempWritten, SidecarWritten, HasSidecar, Early, At,
              Delivered
<1>4. ASSUME ~Detached
      PROVE  ArtKept(a) /\ ~Calling(a) /\ step[a] = 7 /\ inline[a] = "none"
             /\ ~Live(Fresh(a))
  BY <1>1, <1>2, <1>4 DEF ArtKept, Kept, Early, Calling, Typing, Fresh
<1>5. CASE item' = item /\ chan' = chan /\ UNCHANGED <<temp, sidecar, refused, accepted>>
  <2>1. Typing' /\ ChanInv' /\ Global'
    BY <1>1, <1>5 DEF IInv, Typing, ChanInv, Global
  <2>2. \A b \in Artifacts \ {a} : SameFor(b)
    BY <1>1, <1>5 DEF SameFor
  <2>3. ArtCore(a)'
    BY <1>1, <1>3, <1>5 DEF ArtCore, OwnsTemp, Deduplicates, Live
  <2>4. ASSUME ~Detached PROVE ArtKept(a)'
    BY <1>1, <1>2, <1>3, <1>4, <1>5, <2>4 DEF ArtKept, Kept, Live, OnDisk
  <2> QED BY <1>1, <2>1, <2>2, <2>3, <2>4, OthersKept DEF ArtInv
<1>6. CASE DeletePair(a)
  <2>1. /\ temp'[a] = "none" /\ ~sidecar'[a] /\ a \in refused' /\ item' = item
        /\ Typing' /\ ChanInv' /\ Global'
    BY <1>1, <1>6 DEF IInv, Typing, ChanInv, Global, DeletePair
  <2>2. \A b \in Artifacts \ {a} : SameFor(b)
    BY <1>1, <1>6 DEF SameFor, DeletePair, Typing
  <2>3. ArtCore(a)'
    BY <1>1, <1>3, <2>1 DEF ArtCore, OwnsTemp, Deduplicates, Live
  <2>4. ASSUME ~Detached PROVE ArtKept(a)'
    BY <1>1, <1>2, <1>3, <1>4, <2>1, <2>4 DEF ArtKept, Kept, Live
  <2> QED BY <1>1, <2>1, <2>2, <2>3, <2>4, OthersKept DEF ArtInv
<1>7. CASE /\ sidecar[a] /\ temp[a] = "whole" /\ ~old[a]
           /\ item' = [item EXCEPT ![i] = [NoItem EXCEPT !.st = "queued"]]
           /\ chan' = Append(chan, i) /\ accepted' = accepted \cup {a}
           /\ UNCHANGED <<temp, sidecar, refused>>
  <2>1. /\ item' \in [Items -> ItemType]
        /\ \A j \in Items \ {i} : item'[j] = item[j]
        /\ item'[i].st = "queued" /\ item'[i].ok = FALSE
    <3>1. [NoItem EXCEPT !.st = "queued"] \in ItemType
      BY NoItemType DEF NoItem, ItemType, TaskStates
    <3>2. /\ [NoItem EXCEPT !.st = "queued"].st = "queued"
          /\ [NoItem EXCEPT !.st = "queued"].ok = FALSE
      BY DEF NoItem
    <3> QED BY <1>1, <1>7, <3>1, <3>2 DEF Typing
  <2>2. ChanInv' /\ chan' \in Seq(Items)
    BY <1>1, <1>2, <1>7, <2>1, ChanAppend DEF Live
  <2>3. Typing' /\ Global'
    BY <1>1, <1>7, <2>1, <2>2 DEF IInv, Typing, Global
  <2>4. \A b \in Artifacts \ {a} : SameFor(b)
    BY <1>1, <1>7, <2>1, ItemShape DEF SameFor, Fresh, Recovered
  <2>5. /\ item'[Fresh(a)] = item[Fresh(a)]
        /\ Live(i)' /\ item'[i].st \notin Settling /\ a \notin scan'
    BY <1>1, <2>1 DEF Live, Settling
  <2>6. ArtCore(a)'
    BY <1>1, <1>2, <1>3, <1>7, <2>1, <2>5
       DEF ArtCore, OwnsTemp, Deduplicates, Live
  <2>7. ASSUME ~Detached PROVE ArtKept(a)'
    <3>1. ~Live(Fresh(a))' /\ OnDisk(a)'
      BY <1>4, <1>7, <2>5, <2>7 DEF Live, OnDisk
    <3>2. Kept(Fresh(a))' /\ Kept(i)'
      BY <1>1, <1>4, <1>7, <2>5, <2>7, <3>1 DEF Kept, Recovered
    <3> QED
      BY <1>1, <1>3, <1>4, <1>7, <2>7, <3>1, <3>2 DEF ArtKept
  <2> QED BY <1>1, <2>2, <2>3, <2>4, <2>6, <2>7, OthersKept DEF ArtInv
<1> QED
  BY <1>5, <1>6, <1>7 DEF Recover, EnqueueRecovered, Recovered

(* Cleaning up old files and purging: no call, inline task or item of this
   life has a file that goes. *)
LEMMA CleanStep ==
  ASSUME IInv, NEW S \in SUBSET Artifacts, life' = "up",
         life \in {"boot", "scan"}, scan = {},
         life = "scan" => \A a \in S : old[a],
         temp' = [a \in Artifacts |-> IF a \in S THEN "none" ELSE temp[a]],
         sidecar' = [a \in Artifacts |-> sidecar[a] /\ a \notin S],
         refused' = refused \cup {a \in S : OnDisk(a)},
         UNCHANGED <<scan, step, kind, waiter, old, entry, guard, item, chan,
                     inline, cloud, accepted>>
  PROVE  IInv'
<1>1. Typing /\ Typing' /\ ChanInv' /\ Global'
  BY DEF IInv, Typing, ChanInv, Global
<1>2. ASSUME NEW a \in Artifacts PROVE ArtInv(a)'
  <2>1. ArtCore(a) /\ (~Detached => ArtKept(a))
    BY <1>2 DEF IInv, ArtInv
  <2>2. /\ Calling(a)' <=> Calling(a)
        /\ TempWritten(a)' <=> TempWritten(a)
        /\ SidecarWritten(a)' <=> SidecarWritten(a)
        /\ Early(a)' <=> Early(a)
        /\ Delivered(a)' <=> Delivered(a)
        /\ Live(Fresh(a))' <=> Live(Fresh(a))
        /\ Live(Recovered(a))' <=> Live(Recovered(a))
        /\ temp'[a] = IF a \in S THEN "none" ELSE temp[a]
        /\ sidecar'[a] => sidecar[a]
    BY <1>2 DEF Calling, TempWritten, SidecarWritten, HasSidecar, Early, At,
                Delivered, Live
  <2>3. ArtCore(a)'
    BY <1>2, <2>1, <2>2 DEF ArtCore, OwnsTemp, Deduplicates
  <2>4. ASSUME ~Detached PROVE ArtKept(a)'
    <3>1. ArtKept(a) /\ ~Calling(a) /\ inline[a] = "none"
      BY <2>1, <2>4 DEF ArtKept
    <3>2. /\ Live(Fresh(a)) => a \notin S
          /\ Live(Recovered(a)) => a \notin S
      BY <3>1 DEF ArtKept, Kept, Fresh, Recovered
    <3>3. Kept(Fresh(a))' /\ Kept(Recovered(a))'
      BY <1>2, <2>2, <3>1, <3>2 DEF ArtKept, Kept, Delivered, Fresh, Recovered
    <3>4. a \in accepted' =>
            \/ Delivered(a)' \/ a \in refused' \/ OnDisk(a)'
            \/ entry'[a] = "cut"
      BY <1>1, <1>2, <2>2, <3>1 DEF ArtKept, OnDisk, Typing
    <3> QED BY <2>2, <3>1, <3>3, <3>4 DEF ArtKept
  <2> QED BY <2>3, <2>4 DEF ArtInv
<1> QED BY <1>1, <1>2 DEF IInv

LEMMA CleanupStep ==
  ASSUME IInv, CleanupOrphans \/ Purge
  PROVE  IInv'
<1> USE DEF callVars, taskVars, statVars, stopVars
<1>1. CASE CleanupOrphans
  <2> DEFINE S == {a \in Artifacts : old[a]}
  <2>1. /\ temp' = [a \in Artifacts |-> IF a \in S THEN "none" ELSE temp[a]]
        /\ sidecar' = [a \in Artifacts |-> sidecar[a] /\ a \notin S]
        /\ refused' = refused \cup {a \in S : OnDisk(a)}
    BY <1>1 DEF CleanupOrphans
  <2>2. S \in SUBSET Artifacts /\ \A a \in S : old[a]
    OBVIOUS
  <2> HIDE DEF S
  <2> QED BY <1>1, <2>1, <2>2, CleanStep DEF CleanupOrphans
<1>2. CASE Purge
  <2> DEFINE S == Artifacts
  <2>1. /\ temp' = [a \in Artifacts |-> IF a \in S THEN "none" ELSE temp[a]]
        /\ sidecar' = [a \in Artifacts |-> sidecar[a] /\ a \notin S]
        /\ refused' = refused \cup {a \in S : OnDisk(a)}
        /\ life = "boot" /\ scan = {}
    BY <1>2 DEF Purge, IInv, Global
  <2> QED BY <1>2, <2>1, CleanStep DEF Purge
<1> QED BY <1>1, <1>2

LEMMA AgeStep ==
  ASSUME IInv, NEW a \in Artifacts, Age(a)
  PROVE  IInv'
<1> USE DEF Age, callVars, taskVars, statVars, stopVars, ghostVars
<1>1. Typing /\ ArtCore(a) /\ (~Detached => ArtKept(a))
  BY DEF IInv, ArtInv
<1>2. Typing' /\ ChanInv' /\ Global'
  BY <1>1 DEF IInv, Typing, ChanInv, Global
<1>3. \A b \in Artifacts \ {a} : SameFor(b)
  BY <1>1 DEF Typing, SameFor
<1>4. ArtCore(a)'
  BY <1>1 DEF ArtCore, Early, Calling, TempWritten, At, Live, OwnsTemp,
              Delivered, Deduplicates
<1>5. ASSUME ~Detached PROVE ArtKept(a)'
  BY <1>1, <1>5
     DEF ArtKept, Kept, Calling, TempWritten, SidecarWritten, At, HasSidecar,
         Live, Delivered, OnDisk
<1> QED
  BY <1>2, <1>3, <1>4, <1>5, OthersKept DEF ArtInv

LEMMA AgeRecoveredStep ==
  ASSUME IInv, NEW a \in Artifacts, AgeRecovered(a)
  PROVE  IInv'
<1> USE DEF callVars, diskVars, statVars, stopVars, ghostVars
<1> DEFINE i == Recovered(a)
<1>1. /\ Typing /\ i \in Items /\ Fresh(a) \in Items /\ Fresh(a) # i
      /\ item' = [item EXCEPT ![i].old = TRUE]
      /\ UNCHANGED <<life, scan, step, kind, waiter, temp, sidecar, old, entry,
                     guard, chan, inline, cloud, refused, accepted>>
  BY ItemShape DEF IInv, AgeRecovered, Fresh, Recovered
<1>2. /\ item' \in [Items -> ItemType]
      /\ item'[i].st = item[i].st /\ item'[i].ok = item[i].ok
      /\ \A j \in Items \ {i} : item'[j] = item[j]
  BY <1>1, ZenonT(60) DEF Typing, ItemType
<1>3. Typing' /\ Global'
  BY <1>1, <1>2 DEF IInv, Typing, Global
<1>4. ChanInv'
  BY <1>1, <1>2, ChanSame DEF IInv
<1>5. \A b \in Artifacts \ {a} : SameFor(b)
  BY <1>1, <1>2, ItemShape DEF SameFor, Fresh, Recovered
<1>6. ArtCore(a) /\ (~Detached => ArtKept(a)) /\ item'[Fresh(a)] = item[Fresh(a)]
  BY <1>1, <1>2 DEF IInv, ArtInv
<1>7. ArtCore(a)'
  BY <1>1, <1>2, <1>6 DEF ArtCore, Early, Calling, TempWritten, At, Live,
                          OwnsTemp, Delivered, Deduplicates
<1>8. ASSUME ~Detached PROVE ArtKept(a)'
  BY <1>1, <1>2, <1>6, <1>8
     DEF ArtKept, Kept, Calling, TempWritten, SidecarWritten, At, HasSidecar,
         Live, Delivered, OnDisk
<1> QED
  BY <1>1, <1>3, <1>4, <1>5, <1>7, <1>8, OthersKept DEF ArtInv

-----------------------------------------------------------------------------
(* The invariant, and what it gives                                        *)

LEMMA InvInit == Init => IInv
<1> SUFFICES ASSUME Init PROVE IInv
  OBVIOUS
<1>1. NoItem \in ItemType /\ NoItem.st = "none" /\ "bytes" \in Kinds
  BY NoItemType DEF NoItem, Kinds
<1>2. Typing
  BY <1>1 DEF Init, Typing
<1>3. ChanInv /\ Global
  BY DEF Init, ChanInv, Global
<1>4. ASSUME NEW a \in Artifacts PROVE ArtInv(a)
  <2>1. /\ ~Live(Fresh(a)) /\ ~Live(Recovered(a)) /\ ~Calling(a)
        /\ inline[a] = "none" /\ waiter[a] = "none" /\ cloud = {}
        /\ guard = {} /\ scan = {} /\ accepted = {} /\ ~sidecar[a]
        /\ entry[a] = "synced"
    BY <1>1, <1>4, ItemShape DEF Init, Live, Calling
  <2> QED
    BY <2>1 DEF ArtInv, ArtCore, ArtKept, Kept, Delivered
<1> QED BY <1>2, <1>3, <1>4 DEF IInv

LEMMA InvNext == IInv /\ [Next]_vars => IInv'
<1> SUFFICES ASSUME IInv, [Next]_vars PROVE IInv'
  OBVIOUS
<1> USE DEF callVars, diskVars, taskVars, statVars, stopVars, ghostVars,
            ReadVars
<1>1. ASSUME NEW a \in Artifacts, NEW k \in KindsOf[a], Begin(a, k)
      PROVE  IInv'
  BY <1>1, BeginStep, UploadAssumption
<1>2. ASSUME NEW a \in Artifacts, Caller(a)
      PROVE  IInv'
  BY <1>2, CreateTempStep, WriteTempStep, CheckSnapshotStep, CheckBudgetStep,
     WriteSidecarStep, AccountStep, SendStep, SendFullStep, SendClosedStep
     DEF Caller
<1>3. ASSUME NEW a \in Artifacts,
             \/ InlineAcquire(a) \/ InlineFinish(a) \/ Recover(a) \/ Age(a)
             \/ AgeRecovered(a)
      PROVE  IInv'
  BY <1>3, InlineAcquireStep, InlineFinishStep, RecoverStep, AgeStep,
     AgeRecoveredStep
<1>4. ASSUME NEW i \in Items, Task(i)
      PROVE  IInv'
  BY <1>4, QuietStep, WireStoresStep, RemoveFileStep, SettleStep
     DEF Task, Quiet
<1>5. CASE Drain \/ DropHandles
  BY <1>5, Unread DEF Drain, DropHandles
<1>6. CASE DrainTimeout \/ Crash \/ Restart \/ RecoverySnapshot
           \/ CleanupOrphans \/ Purge
  BY <1>6, DrainTimeoutStep, CrashStep, LifeStep, CleanupStep
<1>7. CASE Worker
  BY <1>7, WorkerStep
<1>8. CASE UNCHANGED vars
  BY <1>8, Unread DEF vars
<1> QED
  BY <1>1, <1>2, <1>3, <1>4, <1>5, <1>6, <1>7, <1>8 DEF Next

(* The invariant of the queue, its callers, its crashes and its recovery. *)
THEOREM QueueInvariant == Spec => []IInv
BY InvInit, InvNext, PTL DEF Spec

(* TornNeverStored, however recovery is run: a file torn by a crash or a
   failed write has no live item and no inline task, and recovery's hash check
   gives it none. *)
THEOREM TornFilesStayLocal == Spec => []TornNeverStored
<1>1. IInv => TornNeverStored
  BY DEF IInv, ArtInv, ArtCore, TornNeverStored
<1> QED BY <1>1, QueueInvariant, PTL

(* SuccessIsTruthful: the caller's `ok` means that the whole object is in
   storage, whichever of the worker and the inline fallback answered it. *)
THEOREM AnswersTruthful == Spec => []SuccessIsTruthful
<1>1. IInv => SuccessIsTruthful
  BY DEF IInv, ArtInv, ArtCore, SuccessIsTruthful
<1> QED BY <1>1, QueueInvariant, PTL

(* GuardsExact: the in-flight set is neither leaked nor lost. *)
THEOREM GuardsNeitherLeakNorVanish == Spec => []GuardsExact
<1>1. IInv => GuardsExact
  <2> SUFFICES ASSUME IInv PROVE GuardsExact
    OBVIOUS
  <2>1. \A a \in Artifacts :
          a \in guard <=> /\ Deduplicates(a, kind[a])
                          /\ Calling(a) \/ Live(<<a, "fresh">>)
    BY DEF IInv, ArtInv, ArtCore, Fresh
  <2> QED BY <2>1 DEF IInv, Typing, Global, GuardsExact
<1> QED BY <1>1, QueueInvariant, PTL

(* NoSilentLoss, where recovery runs before the callers: an artifact accepted
   with its sidecar is stored, refused, on disk or lost with its directory
   entry in a power cut, in every state. *)
THEOREM NothingLostSilently ==
  ASSUME ~Detached
  PROVE  Spec => []NoSilentLoss
<1>1. IInv => NoSilentLoss
  BY DEF IInv, ArtInv, ArtKept, NoSilentLoss, Typing
<1> QED BY <1>1, QueueInvariant, PTL

-----------------------------------------------------------------------------
(* The queue implements the spool                                          *)

\* No directory entry is lost, and none comes back.
NoCut == \A b \in Artifacts : entry'[b] = "cut" <=> entry[b] = "cut"

(* A step that records, stores and accepts nothing, and leaves the accepted
   pairs on disk as they were, is a stutter of the spool. *)
LEMMA SpoolStutters ==
  ASSUME Typing, NoCut, accepted' = accepted, refused' = refused, cloud' = cloud,
         \A b \in accepted : OnDisk(b)' <=> OnDisk(b)
  PROVE  UNCHANGED SpoolPromise!vars
BY DEF SpoolPromise!vars, Delivered, NoCut

(* The calls: an artifact is accepted with both its files on disk. *)
LEMMA SpoolCall ==
  ASSUME ~Detached, IInv, NEW a \in Artifacts, Calling(a),
         UNCHANGED <<refused, cloud>>, NoCut,
         \A b \in Artifacts \ {a} : SameFor(b),
         accepted' = accepted \/ (accepted' = accepted \cup {a} /\ OnDisk(a)')
  PROVE  [SpoolPromise!Next]_SpoolPromise!vars
<1>1. /\ Typing /\ a \notin accepted
      /\ \A b \in accepted : OnDisk(b)' <=> OnDisk(b)
  BY DEF IInv, ArtInv, ArtKept, Typing, SameFor, OnDisk
<1>2. CASE accepted' = accepted
  BY <1>1, <1>2, SpoolStutters
<1>3. CASE accepted' = accepted \cup {a} /\ OnDisk(a)'
  <2>1. SpoolPromise!Accept(a)
    BY <1>1, <1>3 DEF SpoolPromise!Accept, Delivered, NoCut
  <2> QED BY <2>1 DEF SpoolPromise!Next
<1> QED BY <1>2, <1>3

LEMMA SpoolCaller ==
  ASSUME ~Detached, IInv, NEW a \in Artifacts, Caller(a)
  PROVE  [SpoolPromise!Next]_SpoolPromise!vars
<1> USE DEF diskVars, taskVars, statVars, stopVars, ghostVars
<1>1. Typing /\ ArtCore(a) /\ ArtKept(a)
  BY DEF IInv, ArtInv
<1>2. Calling(a)
  BY DEF Caller, CreateTemp, WriteTemp, CheckSnapshot, CheckBudget,
         WriteSidecar, Account, Send, SendFull, SendClosed, At
<1>3. CASE Send(a)
  <2>1. \A b \in Artifacts \ {a} : SameFor(b)
    BY <1>1, <1>3, ItemShape DEF Typing, SameFor, Send, Return, Fresh, Recovered
  <2>2. HasSidecar(a) => OnDisk(a) /\ OnDisk(a)'
    BY <1>1, <1>2, <1>3, StageFacts DEF Send, ArtKept, OnDisk
  <2>3. accepted' = accepted \/ (accepted' = accepted \cup {a} /\ OnDisk(a)')
    BY <1>3, <2>2 DEF Send
  <2>4. NoCut
    BY <1>3 DEF Send, NoCut
  <2> QED BY <1>2, <1>3, <2>1, <2>3, <2>4, SpoolCall DEF Send
<1>4. CASE ~Send(a)
  <2>1. UNCHANGED <<refused, cloud, accepted>>
    BY <1>4 DEF Caller, CreateTemp, WriteTemp, CheckSnapshot, CheckBudget,
                WriteSidecar, Account, SendFull, SendClosed
  <2>2. \A b \in Artifacts \ {a} : SameFor(b)
    <3> USE DEF Typing, SameFor, Advance, Return, RollBack, GoInline
    <3>1. CASE CreateTemp(a) \/ WriteTemp(a) \/ CheckSnapshot(a)
      BY <1>1, <3>1 DEF CreateTemp, WriteTemp, CheckSnapshot
    <3>2. CASE CheckBudget(a) \/ WriteSidecar(a) \/ Account(a)
      BY <1>1, <3>2 DEF CheckBudget, WriteSidecar, Account
    <3>3. CASE SendFull(a) \/ SendClosed(a)
      BY <1>1, <3>3 DEF SendFull, SendClosed
    <3> QED BY <1>4, <3>1, <3>2, <3>3 DEF Caller
  <2>3. NoCut
    <3>1. CASE WriteSidecar(a)
      BY <1>1, <1>2, <3>1 DEF WriteSidecar, NoCut, Typing, ArtCore, Calling
    <3>2. CASE entry' = entry
      BY <3>2 DEF NoCut
    <3> QED
      BY <1>4, <3>1, <3>2 DEF Caller, CreateTemp, WriteTemp, CheckSnapshot,
         CheckBudget, Account, SendFull, SendClosed
  <2> QED BY <1>2, <2>1, <2>2, <2>3, SpoolCall
<1> QED BY <1>3, <1>4

(* The worker's quiet steps refuse or change nothing the spool sees. *)
LEMMA SpoolQuiet ==
  ASSUME IInv, NEW i \in Items, QuietTask(i)
  PROVE  [SpoolPromise!Next]_SpoolPromise!vars
<1>1. i[1] \in Artifacts /\ Typing
  BY ItemShape DEF IInv
<1>2. CASE refused' = refused
  BY <1>1, <1>2, SpoolStutters DEF QuietTask, OnDisk, NoCut
<1>3. CASE refused' = refused \cup {i[1]}
  <2>1. SpoolPromise!Refuse(i[1])
    BY <1>3 DEF SpoolPromise!Refuse, QuietTask, OnDisk, Delivered
  <2> QED BY <1>1, <2>1 DEF SpoolPromise!Next
<1> QED BY <1>2, <1>3 DEF QuietTask

(* A file of a live item goes only when its fate is recorded. *)
LEMMA SpoolRemove ==
  ASSUME ~Detached, IInv, NEW i \in Items, RemoveTemp(i) \/ RemoveSidecar(i)
  PROVE  [SpoolPromise!Next]_SpoolPromise!vars
<1> USE DEF ghostVars
<1> DEFINE a == i[1]
<1>1. /\ Typing /\ a \in Artifacts /\ ArtKept(a)
      /\ i = Fresh(a) \/ i = Recovered(a)
  BY TaskArt
<1>2. Delivered(a) \/ a \in refused
  BY <1>1 DEF ArtKept, Kept, Live, Settling, RemoveTemp, RemoveSidecar
<1>3. /\ accepted' = accepted /\ refused' = refused /\ cloud' = cloud
      /\ ~OnDisk(a)' /\ entry' = entry
      /\ \A b \in Artifacts \ {a} : OnDisk(b)' <=> OnDisk(b)
  BY <1>1 DEF Typing, OnDisk, RemoveTemp, RemoveSidecar
<1>4. CASE a \in accepted /\ OnDisk(a)
  <2>1. SpoolPromise!Forget(a)
    BY <1>1, <1>2, <1>3, <1>4 DEF SpoolPromise!Forget, Delivered, Typing
  <2> QED BY <1>1, <2>1 DEF SpoolPromise!Next
<1>5. CASE ~(a \in accepted /\ OnDisk(a))
  BY <1>1, <1>3, <1>5, SpoolStutters DEF Typing, NoCut
<1> QED BY <1>4, <1>5

(* An object reaches storage. *)
LEMMA SpoolDeliver ==
  ASSUME Typing, NEW a \in Artifacts, accepted' = accepted, refused' = refused,
         entry' = entry, cloud' = cloud \/ cloud' = cloud \cup {<<a, "whole">>},
         \A b \in accepted : OnDisk(b)' <=> OnDisk(b)
  PROVE  [SpoolPromise!Next]_SpoolPromise!vars
<1>1. CASE Delivered(a) \/ cloud' = cloud
  BY <1>1, SpoolStutters DEF Delivered, NoCut
<1>2. CASE ~Delivered(a) /\ cloud' = cloud \cup {<<a, "whole">>}
  <2>1. SpoolPromise!Deliver(a)
    BY <1>2 DEF SpoolPromise!Deliver, Delivered
  <2> QED BY <2>1 DEF SpoolPromise!Next
<1> QED BY <1>1, <1>2

LEMMA SpoolTask ==
  ASSUME ~Detached, IInv, NEW i \in Items, Task(i)
  PROVE  [SpoolPromise!Next]_SpoolPromise!vars
<1> USE DEF callVars, diskVars, taskVars, statVars, stopVars, ghostVars
<1>1. /\ Typing /\ i[1] \in Artifacts /\ ArtCore(i[1])
      /\ i = Fresh(i[1]) \/ i = Recovered(i[1])
  BY TaskArt
<1>2. CASE Quiet(i)
  BY <1>2, QuietIsQuiet, SpoolQuiet
<1>3. CASE WireStores(i)
  <2>1. cloud' = cloud \cup {<<i[1], "whole">>}
    BY <1>1, <1>3 DEF WireStores, ArtCore, Live, Typing
  <2> QED BY <1>1, <1>3, <2>1, SpoolDeliver DEF WireStores, OnDisk
<1>4. CASE RemoveTemp(i) \/ RemoveSidecar(i)
  BY <1>4, SpoolRemove
<1>5. CASE Settle(i)
  BY <1>1, <1>5, SpoolStutters DEF Settle, OnDisk, NoCut
<1> QED BY <1>2, <1>3, <1>4, <1>5 DEF Task, Quiet

LEMMA SpoolRecover ==
  ASSUME IInv, NEW a \in Artifacts, Recover(a)
  PROVE  [SpoolPromise!Next]_SpoolPromise!vars
<1> USE DEF diskVars
<1>1. Typing /\ cloud' = cloud /\ entry' = entry
  BY DEF IInv, Recover
<1>2. CASE DeletePair(a)
  <2>1. SpoolPromise!Discard({a})
    BY <1>1, <1>2 DEF SpoolPromise!Discard, DeletePair, OnDisk, Delivered, Typing
  <2> QED BY <2>1 DEF SpoolPromise!Next
<1>3. CASE /\ accepted' \in {accepted, accepted \cup {a}} /\ OnDisk(a)
           /\ UNCHANGED <<temp, sidecar, refused>>
  <2>1. CASE accepted' = accepted
    BY <1>1, <1>3, <2>1, SpoolStutters DEF OnDisk, NoCut
  <2>2. CASE accepted' = accepted \cup {a} /\ a \notin accepted
    <3>1. SpoolPromise!Accept(a)
      BY <1>1, <1>3, <2>2 DEF SpoolPromise!Accept, OnDisk, Delivered
    <3> QED BY <3>1 DEF SpoolPromise!Next
  <2> QED BY <1>3, <2>1, <2>2
<1> QED BY <1>2, <1>3 DEF Recover, EnqueueRecovered, OnDisk

LEMMA SpoolClean ==
  ASSUME IInv, CleanupOrphans \/ Purge
  PROVE  [SpoolPromise!Next]_SpoolPromise!vars
<1>1. Typing
  BY DEF IInv
<1>2. CASE CleanupOrphans
  <2> DEFINE S == {a \in Artifacts : old[a] /\ OnDisk(a)}
  <2>1. \A a \in accepted : OnDisk(a)' <=> OnDisk(a) /\ a \notin S
    BY <1>1, <1>2 DEF CleanupOrphans, OnDisk, Typing
  <2>2. SpoolPromise!Discard(S)
    BY <1>1, <1>2, <2>1 DEF SpoolPromise!Discard, CleanupOrphans, Delivered
  <2> QED BY <2>2 DEF SpoolPromise!Next
<1>3. CASE Purge
  <2> DEFINE S == {a \in Artifacts : OnDisk(a)}
  <2>1. \A a \in accepted : ~OnDisk(a)' /\ (OnDisk(a) => a \in S)
    BY <1>1, <1>3 DEF Purge, OnDisk, Typing
  <2>2. SpoolPromise!Discard(S)
    BY <1>1, <1>3, <2>1 DEF SpoolPromise!Discard, Purge, Delivered
  <2> QED BY <2>2 DEF SpoolPromise!Next
<1> QED BY <1>2, <1>3

LEMMA SpoolInlineFinish ==
  ASSUME ~Detached, IInv, NEW a \in Artifacts, InlineFinish(a)
  PROVE  [SpoolPromise!Next]_SpoolPromise!vars
<1>1. Typing /\ ArtCore(a) /\ ArtKept(a)
  BY DEF IInv, ArtInv
<1>2. /\ accepted' = accepted /\ refused' = refused /\ a \notin accepted
      /\ entry' = entry
      /\ cloud' = cloud \/ cloud' = cloud \cup {<<a, "whole">>}
  BY <1>1 DEF InlineFinish, ArtCore, ArtKept, Typing
<1>3. \A b \in accepted : OnDisk(b)' <=> OnDisk(b)
  BY <1>1, <1>2 DEF InlineFinish, Typing, OnDisk
<1> QED BY <1>1, <1>2, <1>3, SpoolDeliver

LEMMA SpoolStep ==
  ASSUME ~Detached, IInv, [Next]_vars
  PROVE  [SpoolPromise!Next]_SpoolPromise!vars
<1> USE DEF callVars, diskVars, taskVars, statVars, stopVars, ghostVars
<1>1. Typing
  BY DEF IInv
<1>2. ASSUME NEW a \in Artifacts, NEW k \in KindsOf[a], Begin(a, k)
      PROVE  [SpoolPromise!Next]_SpoolPromise!vars
  BY <1>1, <1>2, SpoolStutters DEF Begin, OnDisk, NoCut
<1>3. ASSUME NEW a \in Artifacts,
             InlineAcquire(a) \/ Age(a) \/ AgeRecovered(a)
      PROVE  [SpoolPromise!Next]_SpoolPromise!vars
  BY <1>1, <1>3, SpoolStutters
     DEF InlineAcquire, Age, AgeRecovered, OnDisk, NoCut
<1>4. CASE Worker
  <2>1. UNCHANGED <<accepted, refused, cloud, temp, sidecar, entry>>
    BY <1>4 DEF Worker, WorkerReceive, WorkerDispatch, WorkerTop,
                WorkerCooled, WorkerShutdown, WorkerSendersGone,
                WorkerDrained, WorkerExit
  <2> QED BY <1>1, <2>1, SpoolStutters DEF OnDisk, NoCut
<1>5. CASE Drain \/ DropHandles \/ DrainTimeout \/ Restart \/ RecoverySnapshot
  <2>1. UNCHANGED <<accepted, refused, cloud, temp, sidecar, entry>>
    BY <1>5 DEF Drain, DropHandles, DrainTimeout, Restart, RecoverySnapshot
  <2> QED BY <1>1, <2>1, SpoolStutters DEF OnDisk, NoCut
<1>6. CASE Crash
  <2>1. \A b \in Artifacts : temp'[b] = "none" <=> temp[b] = "none"
    BY <1>1, <1>6 DEF Crash, Typing
  <2>2. PICK L \in SUBSET {a \in Artifacts : sidecar[a] /\ entry[a] = "cached"} :
          /\ sidecar' = [a \in Artifacts |-> sidecar[a] /\ a \notin L]
          /\ entry' = [a \in Artifacts |->
                         IF a \in L THEN "cut"
                         ELSE IF entry[a] = "cut" THEN "cut" ELSE "synced"]
    BY <1>6 DEF Crash
  <2>3. \A b \in Artifacts :
          /\ OnDisk(b)' <=> OnDisk(b) /\ b \notin L
          /\ entry'[b] = "cut" <=> entry[b] = "cut" \/ b \in L
    BY <1>1, <2>1, <2>2 DEF OnDisk, Typing
  <2>4. SpoolPromise!Lose(L)
    BY <1>1, <1>6, <2>2, <2>3 DEF Crash, SpoolPromise!Lose, Delivered, Typing
  <2> QED BY <2>4 DEF SpoolPromise!Next
<1>7. CASE UNCHANGED vars
  BY <1>1, <1>7, SpoolStutters DEF vars, OnDisk, NoCut
<1> QED
  BY <1>2, <1>3, <1>4, <1>5, <1>6, <1>7, SpoolCaller, SpoolTask, SpoolRecover,
     SpoolClean, SpoolInlineFinish DEF Next

(* ImplementsSpool, where recovery runs before the callers: with the accepted
   pairs on disk as the spool, every behaviour of the queue over crashes,
   drains and recoveries is a behaviour of the abstract spool. *)
THEOREM QueueImplementsSpool ==
  ASSUME ~Detached
  PROVE  Spec => ImplementsSpool
<1>1. Init => SpoolPromise!Init
  BY DEF Init, SpoolPromise!Init, Delivered
<1>2. IInv /\ [Next]_vars => [SpoolPromise!Next]_SpoolPromise!vars
  BY SpoolStep
<1> QED
  BY <1>1, <1>2, QueueInvariant, PTL DEF Spec, ImplementsSpool, SpoolPromise!Spec


-----------------------------------------------------------------------------
(* The counters                                                            *)

(* One byte of x's n, as pairs: as many as n says, and nobody else's. *)
LEMMA Slice ==
  ASSUME NEW x, NEW n \in Nat
  PROVE  IsFiniteSet({x} \X (1 .. n)) /\ Cardinality({x} \X (1 .. n)) = n
<1>1. IsFiniteSet({x}) /\ Cardinality({x}) = 1
  BY FS_Singleton
<1>2. IsFiniteSet(1 .. n) /\ Cardinality(1 .. n) = n
  BY FS_Interval
<1>3. /\ IsFiniteSet({x} \X (1 .. n))
      /\ Cardinality({x} \X (1 .. n)) = Cardinality({x}) * Cardinality(1 .. n)
  BY <1>1, <1>2, FS_Product, Zenon
<1> QED BY <1>1, <1>2, <1>3

(* A set gains what was not in it, or loses a part of it. *)
LEMMA Gained ==
  ASSUME NEW S, IsFiniteSet(S), NEW T, IsFiniteSet(T), S \cap T = {}
  PROVE  /\ IsFiniteSet(S \cup T)
         /\ Cardinality(S \cup T) = Cardinality(S) + Cardinality(T)
<1>1. Cardinality(S) \in Nat /\ Cardinality(T) \in Nat
  BY FS_CardinalityType
<1>2. Cardinality(S \cap T) = 0
  BY FS_EmptySet, Zenon
<1>3. /\ IsFiniteSet(S \cup T)
      /\ Cardinality(S \cup T) = Cardinality(S) + Cardinality(T) - Cardinality(S \cap T)
  BY FS_Union, Zenon
<1> QED BY <1>1, <1>2, <1>3

LEMMA Lost ==
  ASSUME NEW S, IsFiniteSet(S), NEW T, T \subseteq S
  PROVE  /\ IsFiniteSet(S \ T)
         /\ Cardinality(S \ T) = Cardinality(S) - Cardinality(T)
<1>1. S \cap T = T
  OBVIOUS
<1> QED BY <1>1, FS_Difference

\* The bytes of a set of counted things, n of each as w says.
BytesOf(S, w) == UNION {{i} \X (1 .. w[i]) : i \in S}

Weight == [i \in Artifacts \X {"fresh", "recovered", "sending"} |-> DiskBytes(i[1])]

(* What one more, or one less, of the counted changes. *)
LEMMA BytesGained ==
  ASSUME NEW S, NEW w, NEW x, x \notin S, w[x] \in Nat, IsFiniteSet(BytesOf(S, w))
  PROVE  /\ IsFiniteSet(BytesOf(S \cup {x}, w))
         /\ Cardinality(BytesOf(S \cup {x}, w)) = Cardinality(BytesOf(S, w)) + w[x]
<1> DEFINE B == BytesOf(S, w)
           X == {x} \X (1 .. w[x])
<1>1. BytesOf(S \cup {x}, w) = B \cup X
  BY DEF BytesOf
<1>2. B \cap X = {}
  BY DEF BytesOf
<1>3. IsFiniteSet(X) /\ Cardinality(X) = w[x]
  BY Slice
<1> HIDE DEF B, X
<1>4. IsFiniteSet(B)
  BY DEF B
<1>5. /\ IsFiniteSet(B \cup X)
      /\ Cardinality(B \cup X) = Cardinality(B) + Cardinality(X)
  BY <1>2, <1>3, <1>4, Gained
<1> QED BY <1>1, <1>3, <1>5 DEF B

LEMMA BytesLost ==
  ASSUME NEW S, NEW w, NEW x \in S, w[x] \in Nat, IsFiniteSet(BytesOf(S, w))
  PROVE  /\ IsFiniteSet(BytesOf(S \ {x}, w))
         /\ Cardinality(BytesOf(S \ {x}, w)) = Cardinality(BytesOf(S, w)) - w[x]
<1> DEFINE B == BytesOf(S, w)
           X == {x} \X (1 .. w[x])
<1>1. BytesOf(S \ {x}, w) = B \ X
  BY DEF BytesOf
<1>2. X \subseteq B
  BY DEF BytesOf
<1>3. IsFiniteSet(X) /\ Cardinality(X) = w[x]
  BY Slice
<1> HIDE DEF B, X
<1>4. IsFiniteSet(B)
  BY DEF B
<1>5. /\ IsFiniteSet(B \ X)
      /\ Cardinality(B \ X) = Cardinality(B) - Cardinality(X)
  BY <1>2, <1>4, Lost
<1> QED BY <1>1, <1>3, <1>5 DEF B


Sending(a) == <<a, "sending">>
Keys == Artifacts \X {"fresh", "recovered", "sending"}

\* The counters are exact; that what they count is finite is part of it.
Tally ==
    worker # "aborted" =>
      /\ IsFiniteSet(Counted) /\ IsFiniteSet(CountedBytes)
      /\ pending = Cardinality(Counted)
      /\ pendingBytes = Cardinality(CountedBytes)

\* What recovery enqueues again was enqueued by a function with a sidecar.
KindKept ==
    \A a \in Artifacts : sidecar[a] \/ Live(Recovered(a)) => HasSidecar(a)

\* A started task will settle the bytes that were accounted for it.
Unstarted == {"none", "queued", "held", "start"}
BytesKept ==
    \A i \in Items :
      item[i].st \notin Unstarted => item[i].bytes = DiskBytes(i[1])

CountInv == KindKept /\ BytesKept /\ Tally

LEMMA KeyShape ==
  /\ \A a \in Artifacts : /\ Fresh(a) \in Keys /\ Recovered(a) \in Keys
                          /\ Sending(a) \in Keys
  /\ \A i \in Keys : /\ i[1] \in Artifacts
                     /\ \/ i = Fresh(i[1]) \/ i = Recovered(i[1])
                        \/ i = Sending(i[1])
  /\ \A a, b \in Artifacts : /\ Fresh(a) # Recovered(b) /\ Fresh(a) # Sending(b)
                             /\ Recovered(a) # Sending(b)
                             /\ Fresh(a) = Fresh(b) => a = b
                             /\ Recovered(a) = Recovered(b) => a = b
                             /\ Sending(a) = Sending(b) => a = b
BY DEF Keys, Fresh, Recovered, Sending

LEMMA CountedIs ==
  /\ Counted \subseteq Keys
  /\ \A a \in Artifacts : /\ Fresh(a) \in Counted <=> Live(Fresh(a))
                          /\ Recovered(a) \in Counted <=> Live(Recovered(a))
                          /\ Sending(a) \in Counted <=> At(a, "send")
BY DEF Counted, Keys, Fresh, Recovered, Sending

LEMMA WeightIs ==
  ASSUME Typing
  PROVE  /\ Weight \in [Keys -> Nat] /\ CountedBytes = BytesOf(Counted, Weight)
         /\ \A i \in Keys : Weight[i] = DiskBytes(i[1])
<1>1. \A a \in Artifacts : DiskBytes(a) \in Nat
  BY UploadAssumption DEF DiskBytes
<1>2. Weight \in [Keys -> Nat] /\ \A i \in Keys : Weight[i] = DiskBytes(i[1])
  BY <1>1 DEF Weight, Keys
<1>3. \A i \in Counted : Weight[i] = DiskBytes(i[1])
  BY <1>2, CountedIs
<1>4. CountedBytes = BytesOf(Counted, Weight)
  BY <1>3 DEF CountedBytes, BytesOf
<1> QED BY <1>2, <1>4

(* Whether two states count the same is a matter of each artifact's own. *)
LEMMA CountedChange ==
  ASSUME NEW S, S \subseteq Keys,
         \A a \in Artifacts : /\ Fresh(a) \in S <=> Live(Fresh(a))'
                              /\ Recovered(a) \in S <=> Live(Recovered(a))'
                              /\ Sending(a) \in S <=> At(a, "send")'
  PROVE  Counted' = S
<1>1. /\ Counted' \subseteq Keys
      /\ \A a \in Artifacts : /\ Fresh(a) \in Counted' <=> Live(Fresh(a))'
                              /\ Recovered(a) \in Counted' <=> Live(Recovered(a))'
                              /\ Sending(a) \in Counted' <=> At(a, "send")'
  BY DEF Counted, Keys, Fresh, Recovered, Sending, Live, At, Calling
<1>2. ASSUME NEW i \in Keys PROVE i \in Counted' <=> i \in S
  BY <1>1, KeyShape
<1> QED BY <1>1, <1>2

\* A step that leaves a counted thing its weight.
Weighs == \A i \in Counted : DiskBytes(i[1])' = DiskBytes(i[1])

LEMMA TallyKeeps ==
  ASSUME Typing, Typing', Tally, Weighs, Counted' = Counted,
         UNCHANGED <<pending, pendingBytes>>,
         worker' # "aborted" => worker # "aborted"
  PROVE  Tally'
<1>1. CountedBytes' = CountedBytes
  BY DEF CountedBytes, Weighs
<1> QED BY <1>1 DEF Tally

LEMMA TallyGains ==
  ASSUME Typing, Typing', Tally, kind' = kind, NEW x \in Keys, x \notin Counted,
         Counted' = Counted \cup {x}, pending' = pending + 1,
         pendingBytes' = pendingBytes + DiskBytes(x[1]),
         worker' # "aborted" => worker # "aborted"
  PROVE  Tally'
<1>1. SUFFICES ASSUME worker # "aborted"
               PROVE  /\ IsFiniteSet(Counted') /\ IsFiniteSet(CountedBytes')
                      /\ pending' = Cardinality(Counted')
                      /\ pendingBytes' = Cardinality(CountedBytes')
  BY DEF Tally
<1>2. /\ IsFiniteSet(Counted) /\ IsFiniteSet(BytesOf(Counted, Weight))
      /\ pending = Cardinality(Counted)
      /\ pendingBytes = Cardinality(BytesOf(Counted, Weight))
      /\ Weight[x] = DiskBytes(x[1]) /\ Weight[x] \in Nat
  BY <1>1, WeightIs DEF Tally
<1>3. /\ IsFiniteSet(Counted') /\ Cardinality(Counted') = Cardinality(Counted) + 1
  BY <1>2, FS_AddElement
<1>4. CountedBytes' = BytesOf(Counted \cup {x}, Weight)
  <2>1. Weight' = Weight
    BY DEF Weight, DiskBytes
  <2>2. CountedBytes' = BytesOf(Counted', Weight')
    <3>1. \A i \in Counted' : Weight'[i] = DiskBytes(i[1])'
      BY CountedIs DEF Weight, Keys
    <3> QED BY <3>1 DEF CountedBytes, BytesOf
  <2> QED BY <2>1, <2>2
<1>5. /\ IsFiniteSet(BytesOf(Counted \cup {x}, Weight))
      /\ Cardinality(BytesOf(Counted \cup {x}, Weight)) =
           Cardinality(BytesOf(Counted, Weight)) + Weight[x]
  BY <1>2, BytesGained
<1> QED BY <1>2, <1>3, <1>4, <1>5

LEMMA TallyLoses ==
  ASSUME Typing, Typing', Tally, kind' = kind, NEW x \in Counted,
         Counted' = Counted \ {x}, pending' = pending - 1,
         pendingBytes' = pendingBytes - DiskBytes(x[1]),
         worker' # "aborted" => worker # "aborted"
  PROVE  Tally'
<1>1. SUFFICES ASSUME worker # "aborted"
               PROVE  /\ IsFiniteSet(Counted') /\ IsFiniteSet(CountedBytes')
                      /\ pending' = Cardinality(Counted')
                      /\ pendingBytes' = Cardinality(CountedBytes')
  BY DEF Tally
<1>2. /\ IsFiniteSet(Counted) /\ IsFiniteSet(BytesOf(Counted, Weight))
      /\ pending = Cardinality(Counted)
      /\ pendingBytes = Cardinality(BytesOf(Counted, Weight))
      /\ Weight[x] = DiskBytes(x[1]) /\ Weight[x] \in Nat
  BY <1>1, WeightIs, CountedIs DEF Tally
<1>3. /\ IsFiniteSet(Counted') /\ Cardinality(Counted') = Cardinality(Counted) - 1
  BY <1>2, FS_RemoveElement
<1>4. CountedBytes' = BytesOf(Counted \ {x}, Weight)
  <2>1. Weight' = Weight
    BY DEF Weight, DiskBytes
  <2>2. CountedBytes' = BytesOf(Counted', Weight')
    <3>1. \A i \in Counted' : Weight'[i] = DiskBytes(i[1])'
      BY CountedIs DEF Weight, Keys
    <3> QED BY <3>1 DEF CountedBytes, BytesOf
  <2> QED BY <2>1, <2>2
<1>5. /\ IsFiniteSet(BytesOf(Counted \ {x}, Weight))
      /\ Cardinality(BytesOf(Counted \ {x}, Weight)) =
           Cardinality(BytesOf(Counted, Weight)) - Weight[x]
  BY <1>2, BytesLost
<1> QED BY <1>2, <1>3, <1>4, <1>5

(* The send: the call's place is taken over by its item. *)
LEMMA TallySwaps ==
  ASSUME Typing, Typing', Tally, kind' = kind, NEW x \in Counted,
         NEW y \in Keys, y \notin Counted, x[1] = y[1],
         Counted' = (Counted \ {x}) \cup {y},
         UNCHANGED <<pending, pendingBytes>>,
         worker' # "aborted" => worker # "aborted"
  PROVE  Tally'
<1>1. SUFFICES ASSUME worker # "aborted"
               PROVE  /\ IsFiniteSet(Counted') /\ IsFiniteSet(CountedBytes')
                      /\ pending' = Cardinality(Counted')
                      /\ pendingBytes' = Cardinality(CountedBytes')
  BY DEF Tally
<1> DEFINE S == Counted \ {x}
<1>2. /\ IsFiniteSet(Counted) /\ IsFiniteSet(BytesOf(Counted, Weight))
      /\ pending = Cardinality(Counted)
      /\ pendingBytes = Cardinality(BytesOf(Counted, Weight))
      /\ Weight[x] = Weight[y] /\ Weight[x] \in Nat
  BY <1>1, WeightIs, CountedIs DEF Tally
<1>3. /\ IsFiniteSet(S) /\ Cardinality(S) = Cardinality(Counted) - 1
      /\ Cardinality(Counted) \in Nat
  BY <1>2, FS_RemoveElement, FS_CardinalityType
<1>4. /\ IsFiniteSet(BytesOf(S, Weight))
      /\ Cardinality(BytesOf(S, Weight)) =
           Cardinality(BytesOf(Counted, Weight)) - Weight[x]
      /\ Cardinality(BytesOf(Counted, Weight)) \in Nat
  BY <1>2, BytesLost, FS_CardinalityType
<1>5. CountedBytes' = BytesOf(S \cup {y}, Weight) /\ y \notin S
  <2>1. Weight' = Weight
    BY DEF Weight, DiskBytes
  <2>2. CountedBytes' = BytesOf(Counted', Weight')
    <3>1. \A i \in Counted' : Weight'[i] = DiskBytes(i[1])'
      BY CountedIs DEF Weight, Keys
    <3> QED BY <3>1 DEF CountedBytes, BytesOf
  <2> QED BY <2>1, <2>2
<1> HIDE DEF S
<1>6. IsFiniteSet(S \cup {y}) /\ Cardinality(S \cup {y}) = Cardinality(S) + 1
  BY <1>3, <1>5, FS_AddElement
<1>7. /\ IsFiniteSet(BytesOf(S \cup {y}, Weight))
      /\ Cardinality(BytesOf(S \cup {y}, Weight)) =
           Cardinality(BytesOf(S, Weight)) + Weight[y]
  BY <1>2, <1>4, <1>5, BytesGained
<1>8. Counted' = S \cup {y}
  BY DEF S
<1>9. Cardinality(Counted') = Cardinality(Counted)
  <2> DEFINE c == Cardinality(Counted)
             d == Cardinality(S)
             e == Cardinality(S \cup {y})
  <2>1. c \in Nat /\ d = c - 1 /\ e = d + 1
    BY <1>3, <1>6
  <2>2. e = c
    <3> HIDE DEF c, d, e
    <3> QED BY <2>1
  <2> QED BY <1>8, <2>2
<1>10. /\ IsFiniteSet(CountedBytes')
       /\ Cardinality(CountedBytes') = Cardinality(BytesOf(Counted, Weight))
  <2> DEFINE old1 == Cardinality(BytesOf(Counted, Weight))
             mid == Cardinality(BytesOf(S, Weight))
             new1 == Cardinality(BytesOf(S \cup {y}, Weight))
             w == Weight[x]
  <2>1. /\ old1 \in Nat /\ w \in Nat /\ mid = old1 - w /\ new1 = mid + w
    BY <1>2, <1>4, <1>7
  <2>2. new1 = old1
    <3> HIDE DEF old1, mid, new1, w
    <3> QED BY <2>1
  <2> QED BY <1>5, <1>7, <2>2
<1>11. pending' = pending /\ pendingBytes' = pendingBytes
  OBVIOUS
<1> QED BY <1>2, <1>6, <1>8, <1>9, <1>10, <1>11

(* A step of one artifact's call, away from the send, or of its inline task. *)
LEMMA SameCounted ==
  ASSUME \A a \in Artifacts : /\ Live(Fresh(a))' <=> Live(Fresh(a))
                              /\ Live(Recovered(a))' <=> Live(Recovered(a))
                              /\ At(a, "send")' <=> At(a, "send")
  PROVE  Counted' = Counted
BY CountedChange, CountedIs

\* Nothing the counters or their bytes depend on has changed.
Uncounted == UNCHANGED <<step, kind, item, pending, pendingBytes>>

LEMMA UncountedKeeps ==
  ASSUME CountInv, Typing, Typing', Uncounted,
         \A a \in Artifacts : sidecar'[a] => sidecar[a],
         worker' # "aborted" => worker # "aborted"
  PROVE  CountInv'
<1> USE DEF Uncounted
<1>1. Counted' = Counted /\ Weighs
  BY DEF Counted, At, Calling, Live, Weighs, DiskBytes
<1>2. Tally'
  BY <1>1, TallyKeeps DEF CountInv
<1>3. KindKept'
  BY DEF CountInv, KindKept, HasSidecar, Live, Recovered
<1>4. BytesKept'
  BY DEF CountInv, BytesKept, DiskBytes
<1> QED BY <1>2, <1>3, <1>4 DEF CountInv

(* The send follows the increment, and only it. *)
LEMMA SendFollows ==
  ASSUME Typing, NEW a \in Artifacts, ArtCore(a), Calling(a), ~At(a, "send"),
         Advance(a), kind' = kind
  PROVE  At(a, "send")' <=> At(a, "account")
<1> DEFINE k == kind[a]
           n == step[a]
<1>1. /\ k \in Kinds /\ n \in 1 .. Len(Steps[k]) /\ n \in 1 .. 6
      /\ Steps[k][n] # "send"
  BY FirstStep DEF Typing, At, Calling, ArtCore
<1>2. /\ n + 1 \in 1 .. 6 /\ step'[a] = n + 1 /\ kind'[a] = k
  BY <1>1, StepOrder, AdvanceFacts DEF Typing, Advance
<1>3. /\ At(a, "account") <=> Steps[k][n] = "account"
      /\ At(a, "send")' <=> Steps[k][n + 1] = "send"
  BY <1>1, <1>2 DEF At, Calling
<1>4. Steps[k][n + 1] = "send" <=> Steps[k][n] = "account"
  BY <1>1, StepOrder DEF FileKinds
<1> QED BY <1>3, <1>4

LEMMA SidecarCall ==
  ASSUME Typing, NEW a \in Artifacts, ArtCore(a), At(a, "sidecar")
  PROVE  HasSidecar(a)
<1>1. /\ kind[a] \in Kinds /\ step[a] \in 1 .. Len(Steps[kind[a]])
      /\ Steps[kind[a]][step[a]] = "sidecar"
  BY DEF Typing, At, Calling, ArtCore
<1> DEFINE k == kind[a]
           n == step[a]
<1>2. k \in Kinds /\ n \in 1 .. Len(Steps[k]) /\ Steps[k][n] = "sidecar"
  BY <1>1
<1> HIDE DEF k, n
<1>3. k \notin {"bytes", "file", "fileBlocking", "reference", "reflink"}
  <2>1. CASE k = "bytes"
    BY <1>2, <2>1, StepsOf
  <2>2. CASE k \in FileKinds
    BY <1>2, <2>2, StepsOf
  <2>3. CASE k \in {"reference", "reflink"}
    BY <1>2, <2>3, StepsOf
  <2> QED BY <2>1, <2>2, <2>3 DEF FileKinds
<1> QED BY <1>2, <1>3 DEF Kinds, HasSidecar, k

\* The steps of a call that neither count nor send.
EarlyStep(a) ==
    \/ CreateTemp(a) \/ WriteTemp(a) \/ CheckSnapshot(a) \/ CheckBudget(a)
    \/ WriteSidecar(a)

LEMMA EarlyCounts ==
  ASSUME IInv, IInv', CountInv, NEW a \in Artifacts, EarlyStep(a)
  PROVE  CountInv'
<1> USE DEF diskVars, taskVars, statVars, stopVars, ghostVars
<1>1. Typing /\ Typing' /\ ArtCore(a)
  BY DEF IInv, ArtInv
<1>2. /\ UNCHANGED <<kind, item, worker, pending, pendingBytes>>
      /\ Advance(a) \/ Return(a)
      /\ Calling(a) /\ ~At(a, "send") /\ ~At(a, "account")
      /\ \A b \in Artifacts : sidecar'[b] => sidecar[b] \/ (b = a /\ At(a, "sidecar"))
  <2>1. CASE CreateTemp(a) \/ WriteTemp(a) \/ CheckSnapshot(a)
    BY <2>1 DEF CreateTemp, WriteTemp, CheckSnapshot, At
  <2>2. CASE CheckBudget(a)
    BY <2>2 DEF CheckBudget, GoInline, At
  <2>3. CASE WriteSidecar(a)
    BY <1>1, <2>3 DEF WriteSidecar, At, Typing
  <2> QED BY <2>1, <2>2, <2>3 DEF EarlyStep
<1>3. ~At(a, "send")'
  BY <1>1, <1>2, SendFollows, ReturnFacts DEF At
<1>4. \A b \in Artifacts : At(b, "send")' <=> At(b, "send")
  BY <1>1, <1>2, <1>3 DEF At, Calling, Advance, Return, Typing
<1>5. Counted' = Counted /\ Weighs
  BY <1>2, <1>4, SameCounted DEF Live, Weighs, DiskBytes
<1>6. Tally'
  BY <1>1, <1>2, <1>5, TallyKeeps DEF CountInv
<1>7. KindKept'
  BY <1>1, <1>2, SidecarCall DEF CountInv, KindKept, HasSidecar, Live, Recovered
<1>8. BytesKept'
  BY <1>2 DEF CountInv, BytesKept, DiskBytes
<1> QED BY <1>6, <1>7, <1>8 DEF CountInv

LEMMA BeginCounts ==
  ASSUME IInv, IInv', CountInv, NEW a \in Artifacts, NEW k \in Kinds, Begin(a, k)
  PROVE  CountInv'
<1> USE DEF diskVars, taskVars, statVars, stopVars, ghostVars
<1>1. Typing /\ Typing' /\ ArtCore(a)
  BY DEF IInv, ArtInv
<1>2. /\ UNCHANGED <<item, worker, pending, pendingBytes, sidecar>>
      /\ step[a] = 0 /\ step'[a] \in {1, 7} /\ kind'[a] = k
      /\ \A b \in Artifacts \ {a} : step'[b] = step[b] /\ kind'[b] = kind[b]
  BY <1>1 DEF Begin, Return, Returned, Typing
<1>3. /\ ~At(a, "send") /\ ~At(a, "send")' /\ ~sidecar[a]
      /\ ~Live(Fresh(a)) /\ ~Live(Recovered(a))
  BY <1>1, <1>2, FirstStep DEF At, Calling, ArtCore, Early
<1>4. \A b \in Artifacts : At(b, "send")' <=> At(b, "send")
  BY <1>2, <1>3 DEF At, Calling
<1>5. Counted' = Counted
  BY <1>2, <1>4, SameCounted DEF Live
<1>6. Weighs
  <2>1. ASSUME NEW i \in Counted PROVE i[1] \in Artifacts \ {a}
    BY <1>3, CountedIs, KeyShape
  <2> QED BY <1>2, <2>1 DEF Weighs, DiskBytes
<1>7. Tally'
  BY <1>1, <1>2, <1>5, <1>6, TallyKeeps DEF CountInv
<1>8. KindKept'
  BY <1>2, <1>3 DEF CountInv, KindKept, HasSidecar, Live, Recovered
<1>9. BytesKept'
  <2>1. \A i \in Items : item[i].st \notin Unstarted => i[1] \in Artifacts \ {a}
    BY <1>3, ItemShape DEF Live, Unstarted
  <2> QED BY <1>2, <2>1 DEF CountInv, BytesKept, DiskBytes
<1> QED BY <1>7, <1>8, <1>9 DEF CountInv

LEMMA AccountCounts ==
  ASSUME IInv, IInv', CountInv, NEW a \in Artifacts, Account(a)
  PROVE  CountInv'
<1> USE DEF diskVars, taskVars, stopVars, ghostVars
<1>1. Typing /\ Typing' /\ ArtCore(a)
  BY DEF IInv, ArtInv
<1>2. /\ UNCHANGED <<kind, item, worker, sidecar>> /\ Advance(a)
      /\ pending' = pending + 1 /\ pendingBytes' = pendingBytes + DiskBytes(a)
      /\ Calling(a) /\ ~At(a, "send") /\ At(a, "account")
  BY DEF Account, At
<1>3. At(a, "send")'
  BY <1>1, <1>2, SendFollows
<1>4. \A b \in Artifacts \ {a} : At(b, "send")' <=> At(b, "send")
  BY <1>1, <1>2 DEF At, Calling, Advance, Typing
<1>5. /\ Sending(a) \in Keys /\ Sending(a) \notin Counted /\ Sending(a)[1] = a
      /\ Counted' = Counted \cup {Sending(a)}
  <2>1. Sending(a) \in Keys /\ Sending(a) \notin Counted /\ Sending(a)[1] = a
    BY <1>2, CountedIs, KeyShape DEF Sending
  <2>2. /\ Counted \cup {Sending(a)} \subseteq Keys
        /\ \A b \in Artifacts :
             /\ Fresh(b) \in Counted \cup {Sending(a)} <=> Live(Fresh(b))'
             /\ Recovered(b) \in Counted \cup {Sending(a)} <=> Live(Recovered(b))'
             /\ Sending(b) \in Counted \cup {Sending(a)} <=> At(b, "send")'
    BY <1>2, <1>3, <1>4, <2>1, CountedIs, KeyShape DEF Live
  <2> QED BY <2>1, <2>2, CountedChange
<1>6. Tally'
  BY <1>1, <1>2, <1>5, TallyGains DEF CountInv
<1>7. KindKept' /\ BytesKept'
  BY <1>2 DEF CountInv, KindKept, BytesKept, HasSidecar, Live, Recovered, DiskBytes
<1> QED BY <1>6, <1>7 DEF CountInv

LEMMA SendCounts ==
  ASSUME IInv, IInv', CountInv, NEW a \in Artifacts, Send(a)
  PROVE  CountInv'
<1> USE DEF diskVars, statVars, stopVars, ghostVars
<1>1. Typing /\ Typing' /\ ArtCore(a)
  BY DEF IInv, ArtInv
<1>2. /\ UNCHANGED <<kind, worker, sidecar, pending, pendingBytes>> /\ Return(a)
      /\ At(a, "send") /\ ~Live(Fresh(a))
      /\ item'[Fresh(a)].st = "queued"
      /\ \A j \in Items \ {Fresh(a)} : item'[j] = item[j]
  BY <1>1, ItemShape DEF Send, At, ArtCore, Fresh, Typing, NoItem
<1>3. ~At(a, "send")'
  BY <1>1, <1>2, ReturnFacts DEF At
<1>4. \A b \in Artifacts \ {a} : At(b, "send")' <=> At(b, "send")
  BY <1>1, <1>2 DEF At, Calling, Return, Typing
<1>5. /\ Live(Fresh(a))' /\ \A b \in Artifacts \ {a} : Live(Fresh(b))' <=> Live(Fresh(b))
      /\ \A b \in Artifacts : Live(Recovered(b))' <=> Live(Recovered(b))
  BY <1>2, ItemShape, KeyShape DEF Live
<1> DEFINE S == (Counted \ {Sending(a)}) \cup {Fresh(a)}
<1>6. /\ Sending(a) \in Counted /\ Fresh(a) \in Keys /\ Fresh(a) \notin Counted
      /\ Sending(a)[1] = Fresh(a)[1] /\ Counted' = S
  <2>1. /\ Sending(a) \in Counted /\ Fresh(a) \in Keys /\ Fresh(a) \notin Counted
        /\ Sending(a)[1] = Fresh(a)[1]
    BY <1>2, CountedIs, KeyShape DEF Sending, Fresh
  <2>2. /\ S \subseteq Keys
        /\ \A b \in Artifacts : /\ Fresh(b) \in S <=> Live(Fresh(b))'
                                /\ Recovered(b) \in S <=> Live(Recovered(b))'
                                /\ Sending(b) \in S <=> At(b, "send")'
    BY <1>2, <1>3, <1>4, <1>5, <2>1, CountedIs, KeyShape
  <2> QED BY <2>1, <2>2, CountedChange
<1>7. Tally'
  BY <1>1, <1>2, <1>6, TallySwaps DEF CountInv
<1>8. KindKept'
  BY <1>2, <1>5 DEF CountInv, KindKept, HasSidecar
<1>9. BytesKept'
  BY <1>2 DEF CountInv, BytesKept, DiskBytes, Unstarted
<1> QED BY <1>7, <1>8, <1>9 DEF CountInv

LEMMA SendFailsCounts ==
  ASSUME IInv, IInv', CountInv, NEW a \in Artifacts, SendFull(a) \/ SendClosed(a)
  PROVE  CountInv'
<1> USE DEF taskVars, stopVars, ghostVars
<1>1. Typing /\ Typing' /\ ArtCore(a)
  BY DEF IInv, ArtInv
<1>2. /\ UNCHANGED <<kind, item, worker>> /\ Return(a) /\ At(a, "send")
      /\ pending' = pending - 1 /\ pendingBytes' = pendingBytes - DiskBytes(a)
      /\ \A b \in Artifacts : sidecar'[b] => sidecar[b]
  BY <1>1 DEF SendFull, SendClosed, RollBack, GoInline, Typing
<1>3. ~At(a, "send")'
  BY <1>1, <1>2, ReturnFacts DEF At
<1>4. \A b \in Artifacts \ {a} : At(b, "send")' <=> At(b, "send")
  BY <1>1, <1>2 DEF At, Calling, Return, Typing
<1>5. /\ Sending(a) \in Counted /\ Sending(a)[1] = a
      /\ Counted' = Counted \ {Sending(a)}
  <2>1. Sending(a) \in Counted /\ Sending(a)[1] = a
    BY <1>2, CountedIs DEF Sending
  <2>2. /\ Counted \ {Sending(a)} \subseteq Keys
        /\ \A b \in Artifacts :
             /\ Fresh(b) \in Counted \ {Sending(a)} <=> Live(Fresh(b))'
             /\ Recovered(b) \in Counted \ {Sending(a)} <=> Live(Recovered(b))'
             /\ Sending(b) \in Counted \ {Sending(a)} <=> At(b, "send")'
    BY <1>2, <1>3, <1>4, <2>1, CountedIs, KeyShape DEF Live
  <2> QED BY <2>1, <2>2, CountedChange
<1>6. Tally'
  BY <1>1, <1>2, <1>5, TallyLoses DEF CountInv
<1>7. KindKept' /\ BytesKept'
  BY <1>2 DEF CountInv, KindKept, BytesKept, HasSidecar, Live, Recovered, DiskBytes
<1> QED BY <1>6, <1>7 DEF CountInv

\* Item i takes a step and stays live, with the bytes it had or, from its
\* start on, those of its artifact.
ItemMoves(i) ==
    /\ UNCHANGED <<step, kind, pending, pendingBytes>>
    /\ item[i].st # "none" /\ item'[i].st # "none"
    /\ \A j \in Items \ {i} : item'[j] = item[j]
    /\ item'[i].st \notin Unstarted =>
         \/ item[i].st \notin Unstarted /\ item'[i].bytes = item[i].bytes
         \/ item'[i].bytes = DiskBytes(i[1])
    /\ worker' # "aborted" => worker # "aborted"

LEMMA ItemMovesCounts ==
  ASSUME IInv, IInv', CountInv, NEW i \in Items, ItemMoves(i),
         \A a \in Artifacts : sidecar'[a] => sidecar[a]
  PROVE  CountInv'
<1> USE DEF ItemMoves
<1>1. Typing /\ Typing'
  BY DEF IInv
<1>2. \A j \in Items : Live(j)' <=> Live(j)
  BY DEF Live
<1>3. Counted' = Counted /\ Weighs
  BY <1>2, ItemShape, SameCounted DEF At, Calling, Weighs, DiskBytes
<1>4. Tally'
  BY <1>1, <1>3, TallyKeeps DEF CountInv
<1>5. KindKept'
  BY <1>2, ItemShape DEF CountInv, KindKept, HasSidecar
<1>6. BytesKept'
  BY DEF CountInv, BytesKept, DiskBytes
<1> QED BY <1>4, <1>5, <1>6 DEF CountInv

(* The size a task reads when it starts is the one accounted for. *)
LEMMA StartBytes ==
  ASSUME IInv, CountInv, ~Detached, NEW i \in Items, item[i].st = "start"
  PROVE  (IF kind[i[1]] \in {"reference", "reflink"} THEN DiskBytes(i[1])
          ELSE FileSize(i[1])) = DiskBytes(i[1])
<1>1. ArtKept(i[1]) /\ (i = Fresh(i[1]) \/ i = Recovered(i[1]))
  BY TaskArt
<1>2. Kept(i)
  BY <1>1 DEF ArtKept
<1>3. temp[i[1]] = "whole"
  BY <1>2 DEF Kept, Live, Settling
<1> QED BY <1>3 DEF FileSize, DiskBytes

LEMMA TaskCounts ==
  ASSUME IInv, IInv', CountInv, ~Detached, NEW i \in Items, Task(i)
  PROVE  CountInv'
<1> USE DEF callVars, diskVars, taskVars, statVars, stopVars, ghostVars
<1>1. Typing /\ Typing' /\ item \in [Items -> ItemType] /\ i[1] \in Artifacts
  BY TaskArt DEF IInv, Typing
<1>2. CASE TaskStart(i)
  <2> DEFINE bytes == IF kind[i[1]] \in {"reference", "reflink"}
                      THEN DiskBytes(i[1]) ELSE FileSize(i[1])
  <2>1. bytes = DiskBytes(i[1])
    <3>1. item[i].st = "start"
      BY <1>2 DEF TaskStart
    <3> QED BY <3>1, StartBytes, Zenon
  <2>2. /\ item' = [item EXCEPT ![i].bytes = bytes,
                       ![i].attempts = IF Expired(i) THEN 0 ELSE 1,
                       ![i].st = IF Expired(i) THEN "rmTemp" ELSE "wire"]
        /\ item[i].st = "start" /\ UNCHANGED <<step, kind, pending, pendingBytes, worker, sidecar>>
    BY <1>2 DEF TaskStart
  <2> HIDE DEF bytes
  <2>3. /\ item'[i].st # "none" /\ item'[i].bytes = bytes
        /\ \A j \in Items \ {i} : item'[j] = item[j]
    BY <1>1, <2>2 DEF ItemType
  <2>4. ItemMoves(i)
    <3>1. item'[i].bytes = DiskBytes(i[1])
      BY <2>1, <2>3
    <3> QED BY <2>2, <2>3, <3>1, Zenon DEF ItemMoves
  <2> QED BY <2>2, <2>4, ItemMovesCounts
<1>3. CASE WireStores(i)
  BY <1>1, <1>3, UncountedKeeps DEF WireStores, Uncounted
<1>4. CASE \/ WireOk(i) \/ WireTerminal(i) \/ WireRetryable(i) \/ WireUnauthorized(i)
           \/ Backoff(i) \/ Park(i) \/ ParkSlice(i) \/ ParkWoken(i) \/ Reacquire(i)
           \/ RemoveTemp(i) \/ RemoveSidecar(i)
  <2>1. /\ UNCHANGED <<step, kind, pending, pendingBytes, worker>>
        /\ \A a \in Artifacts : sidecar'[a] => sidecar[a]
    <3>1. CASE RemoveTemp(i) \/ RemoveSidecar(i)
      BY <1>1, <3>1 DEF RemoveTemp, RemoveSidecar, Typing
    <3>2. CASE ~(RemoveTemp(i) \/ RemoveSidecar(i))
      BY <1>4, <3>2 DEF WireOk, WireTerminal, WireRetryable, WireUnauthorized,
         Backoff, Park, ParkSlice, ParkWoken, Reacquire
    <3> QED BY <3>1, <3>2
  <2>2. item[i].st \in {"wire", "backoff", "park", "wait", "woken", "reacquire", "rmTemp", "rmSide"}
    BY <1>4 DEF WireOk, WireTerminal, WireRetryable, WireUnauthorized, Backoff,
       Park, ParkSlice, ParkWoken, Reacquire, RemoveTemp, RemoveSidecar
  <2>3. \/ GiveUp(i, TRUE) \/ GiveUp(i, FALSE)
        \/ \E st \in {"backoff", "wait", "park", "woken", "reacquire", "rmSide", "settle"} :
             SetItem(i, st)
        \/ WireOk(i) \/ WireUnauthorized(i) \/ Backoff(i) \/ Reacquire(i)
    BY <1>4 DEF WireTerminal, WireRetryable, Park, ParkSlice, ParkWoken, RemoveTemp,
       RemoveSidecar
  <2>4. /\ item'[i].st # "none" /\ item'[i].bytes = item[i].bytes
        /\ \A j \in Items \ {i} : item'[j] = item[j]
    <3>1. CASE GiveUp(i, TRUE) \/ GiveUp(i, FALSE)
      BY <1>1, <3>1 DEF GiveUp, ItemType
    <3>2. CASE \E st \in {"backoff", "wait", "park", "woken", "reacquire", "rmSide", "settle"} :
                 SetItem(i, st)
      BY <1>1, <3>2 DEF SetItem, ItemType
    <3>3. CASE WireOk(i)
      BY <1>1, <3>3 DEF WireOk, ItemType
    <3>4. CASE WireUnauthorized(i)
      BY <1>1, <3>4 DEF WireUnauthorized, ItemType
    <3>5. CASE Backoff(i)
      BY <1>1, <3>5 DEF Backoff, ItemType
    <3>6. CASE Reacquire(i)
      BY <1>1, <3>6 DEF Reacquire, ItemType
    <3> QED BY <2>3, <3>1, <3>2, <3>3, <3>4, <3>5, <3>6
  <2>5. ItemMoves(i)
    BY <2>1, <2>2, <2>4 DEF ItemMoves, Unstarted
  <2> QED BY <2>1, <2>5, ItemMovesCounts
<1>5. CASE Settle(i)
  <2>1. /\ UNCHANGED <<step, kind, sidecar, worker>>
        /\ item[i].st = "settle" /\ item'[i].st = "none"
        /\ \A j \in Items \ {i} : item'[j] = item[j]
        /\ pending' = pending - 1 /\ pendingBytes' = pendingBytes - item[i].bytes
    BY <1>1, <1>5 DEF Settle, NoItem
  <2>2. item[i].bytes = DiskBytes(i[1])
    BY <2>1 DEF CountInv, BytesKept, Unstarted
  <2>3. Live(i) /\ ~Live(i)' /\ \A j \in Items \ {i} : Live(j)' <=> Live(j)
    BY <2>1 DEF Live
  <2>4. i \in Counted /\ Counted' = Counted \ {i}
    <3>1. /\ i \in Counted /\ \A b \in Artifacts : Sending(b) # i
      BY <2>3, ItemShape, CountedIs, KeyShape
    <3>2. \A b \in Artifacts : At(b, "send")' <=> At(b, "send")
      BY <2>1 DEF At, Calling
    <3>3. /\ Counted \ {i} \subseteq Keys
          /\ \A b \in Artifacts :
               /\ Fresh(b) \in Counted \ {i} <=> Live(Fresh(b))'
               /\ Recovered(b) \in Counted \ {i} <=> Live(Recovered(b))'
               /\ Sending(b) \in Counted \ {i} <=> At(b, "send")'
      BY <2>3, <3>1, <3>2, CountedIs, ItemShape
    <3> QED BY <3>1, <3>3, CountedChange
  <2>5. Tally'
    BY <1>1, <2>1, <2>2, <2>4, TallyLoses DEF CountInv
  <2>6. KindKept'
    BY <2>1, <2>3, ItemShape DEF CountInv, KindKept, HasSidecar
  <2>7. BytesKept'
    BY <2>1 DEF CountInv, BytesKept, DiskBytes, Unstarted
  <2> QED BY <2>5, <2>6, <2>7 DEF CountInv
<1> QED BY <1>2, <1>3, <1>4, <1>5 DEF Task

LEMMA WorkerCounts ==
  ASSUME IInv, IInv', CountInv, Worker
  PROVE  CountInv'
<1> USE DEF callVars, diskVars, statVars, stopVars, ghostVars
<1>1. Typing /\ Typing' /\ ChanInv /\ item \in [Items -> ItemType]
  BY DEF IInv, Typing
<1>2. CASE WorkerReceive
  <2> DEFINE i == Head(chan)
  <2>1. i \in Items /\ item[i].st = "queued" /\ SetItem(i, "held")
    BY <1>1, <1>2, ChanTail DEF WorkerReceive
  <2>2. ItemMoves(i) /\ sidecar' = sidecar
    <3> HIDE DEF i
    <3>1. item'[i].st = "held" /\ \A j \in Items \ {i} : item'[j] = item[j]
      BY <1>1, <2>1 DEF SetItem, ItemType
    <3> QED BY <1>2, <2>1, <3>1 DEF WorkerReceive, ItemMoves, Unstarted
  <2> HIDE DEF i
  <2> QED BY <2>1, <2>2, ItemMovesCounts
<1>3. CASE WorkerDispatch
  <2>1. PICK i \in Items :
          /\ item[i].st = "held"
          /\ item' = [item EXCEPT ![i].st = "start", ![i].permit = TRUE]
    BY <1>3 DEF WorkerDispatch
  <2>2. item'[i].st = "start" /\ \A j \in Items \ {i} : item'[j] = item[j]
    BY <1>1, <2>1 DEF ItemType
  <2>3. ItemMoves(i) /\ sidecar' = sidecar
    BY <1>3, <2>1, <2>2 DEF WorkerDispatch, ItemMoves, Unstarted
  <2> QED BY <2>3, ItemMovesCounts
<1>4. CASE \/ WorkerTop \/ WorkerCooled \/ WorkerShutdown \/ WorkerSendersGone
           \/ WorkerDrained \/ WorkerExit
  <2>1. Uncounted /\ sidecar' = sidecar /\ worker # "aborted"
    BY <1>4 DEF WorkerTop, WorkerCooled, WorkerShutdown, WorkerSendersGone,
       WorkerDrained, WorkerExit, Uncounted
  <2> QED BY <1>1, <2>1, UncountedKeeps
<1> QED BY <1>2, <1>3, <1>4 DEF Worker

(* A pair enqueued again is one item more, with the bytes of its temp file. *)
LEMMA RecoverCounts ==
  ASSUME IInv, IInv', CountInv, NEW a \in Artifacts, Recover(a)
  PROVE  CountInv'
<1> USE DEF callVars, diskVars, stopVars
<1> DEFINE i == Recovered(a)
<1>1. /\ Typing /\ Typing' /\ item \in [Items -> ItemType]
      /\ UNCHANGED <<step, kind, worker>> /\ ~Live(i) /\ i \in Items
  BY ItemShape DEF IInv, ArtInv, ArtCore, Recover, Typing
<1>2. CASE /\ UNCHANGED <<item, pending, pendingBytes>>
           /\ \A b \in Artifacts : sidecar'[b] => sidecar[b]
  BY <1>1, <1>2, UncountedKeeps DEF Uncounted
<1>3. CASE /\ item' = [item EXCEPT ![i] = [NoItem EXCEPT !.st = "queued"]]
           /\ pending' = pending + 1 /\ pendingBytes' = pendingBytes + FileSize(a)
           /\ sidecar' = sidecar /\ sidecar[a] /\ temp[a] = "whole"
  <2>1. HasSidecar(a) /\ FileSize(a) = DiskBytes(a)
    BY <1>3 DEF CountInv, KindKept, HasSidecar, FileSize, DiskBytes
  <2>2. item'[i].st = "queued" /\ \A j \in Items \ {i} : item'[j] = item[j]
    BY <1>1, <1>3 DEF NoItem
  <2>3. Live(i)' /\ \A j \in Items \ {i} : Live(j)' <=> Live(j)
    BY <2>2 DEF Live
  <2>4. i \in Keys /\ i \notin Counted /\ i[1] = a /\ Counted' = Counted \cup {i}
    <3>1. i \in Keys /\ i \notin Counted /\ i[1] = a
      BY <1>1, CountedIs, KeyShape DEF Recovered
    <3>2. \A b \in Artifacts : At(b, "send")' <=> At(b, "send")
      BY <1>1 DEF At, Calling
    <3>3. /\ Counted \cup {i} \subseteq Keys
          /\ \A b \in Artifacts :
               /\ Fresh(b) \in Counted \cup {i} <=> Live(Fresh(b))'
               /\ Recovered(b) \in Counted \cup {i} <=> Live(Recovered(b))'
               /\ Sending(b) \in Counted \cup {i} <=> At(b, "send")'
      BY <2>3, <3>1, <3>2, CountedIs, KeyShape, ItemShape
    <3> QED BY <3>1, <3>3, CountedChange
  <2>5. Tally'
    BY <1>1, <1>3, <2>1, <2>4, TallyGains DEF CountInv
  <2>6. KindKept'
    BY <1>1, <1>3, <2>1, <2>3, ItemShape, KeyShape DEF CountInv, KindKept, HasSidecar
  <2>7. BytesKept'
    BY <1>1, <2>2 DEF CountInv, BytesKept, DiskBytes, Unstarted
  <2> QED BY <2>5, <2>6, <2>7 DEF CountInv
<1>4. CASE DeletePair(a)
  BY <1>1, <1>2, <1>4 DEF DeletePair, Typing
<1>5. CASE EnqueueRecovered(a) /\ sidecar[a] /\ temp[a] = "whole"
  BY <1>2, <1>3, <1>5 DEF EnqueueRecovered, Recovered
<1> QED BY <1>4, <1>5 DEF Recover

(* The process ends and everything the counters count with it. *)
LEMMA CrashCounts ==
  ASSUME IInv, IInv', CountInv, Crash
  PROVE  CountInv'
<1>1. /\ Typing /\ pending' = 0 /\ pendingBytes' = 0 /\ UNCHANGED kind
      /\ \A b \in Artifacts : sidecar'[b] => sidecar[b]
      /\ \A j \in Items : item'[j].st = "none"
      /\ \A b \in Artifacts : ~At(b, "send")'
  BY DEF IInv, Typing, Crash, NoItem, At, Calling, Returned
<1>2. Counted' = {}
  <2> DEFINE S == {}
  <2>1. \A b \in Artifacts : ~Live(Fresh(b))' /\ ~Live(Recovered(b))'
    BY <1>1, ItemShape DEF Live
  <2>2. /\ S \subseteq Keys
        /\ \A b \in Artifacts : /\ Fresh(b) \in S <=> Live(Fresh(b))'
                                /\ Recovered(b) \in S <=> Live(Recovered(b))'
                                /\ Sending(b) \in S <=> At(b, "send")'
    BY <1>1, <2>1
  <2> HIDE DEF S
  <2>3. Counted' = S
    BY <2>2, CountedChange
  <2> QED BY <2>3 DEF S
<1>3. CountedBytes' = {}
  BY <1>2 DEF CountedBytes
<1>4. Tally'
  BY <1>1, <1>2, <1>3, FS_EmptySet DEF Tally
<1>5. KindKept' /\ BytesKept'
  BY <1>1, ItemShape DEF CountInv, KindKept, BytesKept, HasSidecar, Live, Unstarted
<1> QED BY <1>4, <1>5 DEF CountInv

LEMMA TimeoutCounts ==
  ASSUME IInv, CountInv, DrainTimeout
  PROVE  CountInv'
<1> USE DEF callVars, diskVars, ghostVars
<1>1. /\ Typing /\ worker' = "aborted" /\ UNCHANGED <<kind, sidecar>>
      /\ \A j \in Items : item'[j] = item[j] \/ item'[j].st = "none"
  BY DEF IInv, DrainTimeout, NoItem
<1>2. Tally'
  BY <1>1 DEF Tally
<1>3. KindKept' /\ BytesKept'
  BY <1>1, ItemShape
     DEF CountInv, KindKept, BytesKept, HasSidecar, Live, Unstarted, DiskBytes
<1> QED BY <1>2, <1>3 DEF CountInv

LEMMA AgeRecoveredCounts ==
  ASSUME IInv, IInv', CountInv, NEW a \in Artifacts, AgeRecovered(a)
  PROVE  CountInv'
<1> USE DEF callVars, diskVars, statVars, stopVars, ghostVars
<1> DEFINE i == Recovered(a)
<1>1. /\ i \in Items /\ item \in [Items -> ItemType] /\ item[i].st # "none"
      /\ item' = [item EXCEPT ![i].old = TRUE]
      /\ UNCHANGED <<step, kind, pending, pendingBytes, worker, sidecar>>
  BY ItemShape DEF IInv, Typing, AgeRecovered, Live, Recovered
<1> HIDE DEF i
<1>2. /\ item'[i].st = item[i].st /\ item'[i].bytes = item[i].bytes
      /\ \A j \in Items \ {i} : item'[j] = item[j]
  BY <1>1 DEF ItemType
<1>3. ItemMoves(i)
  BY <1>1, <1>2 DEF ItemMoves
<1> QED BY <1>1, <1>3, ItemMovesCounts

LEMMA CountInit == Init => CountInv
<1> SUFFICES ASSUME Init PROVE CountInv
  OBVIOUS
<1>1. /\ \A i \in Items : item[i].st = "none"
      /\ \A a \in Artifacts : ~At(a, "send") /\ ~sidecar[a]
  BY DEF Init, NoItem, At, Calling
<1>2. Counted = {}
  BY <1>1, CountedIs, KeyShape, ItemShape DEF Live
<1>3. CountedBytes = {}
  BY <1>2 DEF CountedBytes
<1>4. Tally
  BY <1>2, <1>3, FS_EmptySet DEF Init, Tally
<1> QED BY <1>1, <1>4, ItemShape DEF CountInv, KindKept, BytesKept, Live, Unstarted

LEMMA CountNext ==
  ASSUME ~Detached, IInv, IInv', CountInv, [Next]_vars
  PROVE  CountInv'
<1> USE DEF callVars, diskVars, taskVars, statVars, stopVars, ghostVars
<1>1. Typing /\ Typing'
  BY DEF IInv
<1>2. ASSUME NEW a \in Artifacts, NEW k \in KindsOf[a], Begin(a, k)
      PROVE  CountInv'
  BY <1>2, BeginCounts, UploadAssumption
<1>3. ASSUME NEW a \in Artifacts, Caller(a)
      PROVE  CountInv'
  BY <1>3, EarlyCounts, AccountCounts, SendCounts, SendFailsCounts
     DEF Caller, EarlyStep
<1>4. ASSUME NEW a \in Artifacts, InlineAcquire(a) \/ InlineFinish(a) \/ Age(a)
      PROVE  CountInv'
  BY <1>1, <1>4, UncountedKeeps DEF InlineAcquire, InlineFinish, Age, Uncounted
<1>5. ASSUME NEW a \in Artifacts, Recover(a) \/ AgeRecovered(a)
      PROVE  CountInv'
  BY <1>5, RecoverCounts, AgeRecoveredCounts
<1>6. CASE Worker \/ DrainTimeout \/ Crash \/ \E i \in Items : Task(i)
  BY <1>6, WorkerCounts, TimeoutCounts, CrashCounts, TaskCounts
<1>7. CASE Drain \/ DropHandles \/ Restart \/ RecoverySnapshot
  BY <1>1, <1>7, UncountedKeeps
     DEF Drain, DropHandles, Restart, RecoverySnapshot, Uncounted
<1>8. CASE CleanupOrphans \/ Purge
  <2>1. Uncounted /\ worker' = worker /\ \A a \in Artifacts : sidecar'[a] => sidecar[a]
    BY <1>1, <1>8 DEF CleanupOrphans, Purge, Uncounted, Typing
  <2> QED BY <1>1, <2>1, UncountedKeeps
<1>9. CASE UNCHANGED vars
  BY <1>1, <1>9, UncountedKeeps DEF vars, Uncounted
<1> QED
  BY <1>2, <1>3, <1>4, <1>5, <1>6, <1>7, <1>8, <1>9 DEF Next

(* PendingExact, where recovery runs before the callers: in every state of the
   queue stats.pending is the number of live items and of calls between the
   increment and the send, and stats.pending_bytes the sum of their sizes, with
   crashes, rejected sends, refused re-enqueues and give-ups in any order. *)
THEOREM CountersExact ==
  ASSUME ~Detached
  PROVE  Spec => []PendingExact
<1>1. Init => CountInv
  BY CountInit
<1>2. IInv /\ IInv' /\ CountInv /\ [Next]_vars => CountInv'
  BY CountNext
<1>3. CountInv => PendingExact
  BY DEF CountInv, Tally, PendingExact
<1> QED BY <1>1, <1>2, <1>3, QueueInvariant, PTL DEF Spec
=============================================================================
