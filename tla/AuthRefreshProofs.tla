------------------------- MODULE AuthRefreshProofs -------------------------
(***************************************************************************)
(* Theorems about AuthRefresh, for any number of callers and processes,    *)
(* any placement of the callers, any set of faults and of stages at which  *)
(* a lock holder may be delayed.                                           *)
(***************************************************************************)
EXTENDS AuthRefresh, TLAPS

CallType(m) ==
  [pc : Stages, why : Reasons, goal : Goals, pre : 0 .. m, phase : 1 .. 4,
   lock : {"no", "live", "dead"}, tried : 0 .. m, got : 0 .. m,
   posts : 0 .. MaxPosts, again : BOOLEAN]

\* TypeOK, with the disk's credential among those that were granted, and the
\* shapes that an update of one entry relies on.
Types ==
  /\ home \in [Callers -> Procs]
  /\ minted \in 1 .. MaxMint
  /\ disk \in 0 .. minted
  /\ file \in {"absent", "fresh", "old"}
  /\ spent \subseteq 1 .. minted
  /\ dead \subseteq 1 .. minted
  /\ expired \subseteq 1 .. minted
  /\ mem \in [Procs -> 0 .. minted]
  /\ verdict \in [Procs -> [key : 0 .. minted, sticky : BOOLEAN]]
  /\ chain \in [Procs -> Callers \cup {NoCaller}]
  /\ \A p \in Procs : chain[p] # NoCaller => home[chain[p]] = p
  /\ todo \in [Procs -> SUBSET (1 .. minted)]
  /\ call \in [Callers -> CallType(minted)]
  /\ reused \in BOOLEAN
  /\ excused \in BOOLEAN

\* The flock on the file that the path names has at most one holder.
OneHolder ==
  \A c, d \in Callers : call[c].lock = "live" /\ call[d].lock = "live" => c = d

Exchanging == {"wire", "granted", "denied", "client", "failed", "adopted"}
Sent == {"wire", "granted", "denied", "client", "failed"}

\* One call.  Until an excuse is met, a call past its last check holds the
\* lock, sends the newest credential, and has what was granted for it.
CallerInv(c) ==
  /\ call[c].got # 0 => call[c].pc \in Exchanging
  /\ call[c].pc \in {"granted", "adopted"} => call[c].got # 0
  /\ call[c].pc \in Sent => call[c].tried # 0
  /\ call[c].pc # "failed" => call[c].posts < MaxPosts
  /\ call[c].pc = "denied" => call[c].tried \in dead
  /\ ~excused =>
       /\ PastLastCheck(c) => call[c].lock = "live"
       /\ call[c].pc # "denied"
       /\ call[c].pc \in Sent /\ call[c].got = 0 => call[c].tried = minted
       /\ call[c].pc = "adopted" => call[c].got = disk
       /\ call[c].got # 0 /\ call[c].pc # "adopted" => call[c].got = minted
       /\ call[c].pc = "enrichWrite" /\ call[c].lock = "live" =>
            call[c].tried = disk

\* The provider, auth.json and the verdicts.
SharedInv ==
  /\ \A k \in spent : k < minted
  /\ \A p \in Procs : verdict[p].sticky => verdict[p].key \in dead
  /\ ~excused => dead = {} /\ ~reused

IInv ==
  /\ Types /\ OneHolder /\ SharedInv /\ NewestKept
  /\ \A c \in Callers : CallerInv(c)

-----------------------------------------------------------------------------
(* Types of the building blocks                                            *)

LEMMA Bounds ==
  /\ MaxMint \in Nat /\ MaxPosts \in Nat /\ 0 < MaxMint /\ 0 < MaxPosts
BY AuthAssumption

LEMMA IdleType ==
  ASSUME NEW m \in Nat
  PROVE  /\ Idle \in CallType(m) /\ Idle.pc = "idle" /\ Idle.got = 0
         /\ Idle.lock = "no"
BY Bounds DEF Idle, CallType, Stages, Reasons, Goals

(* A returned call holds nothing and promises nothing. *)
LEMMA IdleInv ==
  ASSUME NEW c \in Callers, call'[c] = Idle
  PROVE  CallerInv(c)'
BY IdleType, Bounds DEF CallerInv, PastLastCheck, Exchanging, Sent, Idle

LEMMA FinishFacts ==
  ASSUME Types, NEW c \in Callers, Finish(c)
  PROVE  /\ call'[c] = Idle /\ \A d \in Callers \ {c} : call'[d] = call[d]
         /\ call' \in [Callers -> CallType(minted)]
         /\ chain' \in [Procs -> Callers \cup {NoCaller}]
         /\ \A p \in Procs : chain'[p] # NoCaller => home[chain'[p]] = p
<1>1. Idle \in CallType(minted)
  BY IdleType DEF Types
<1> QED BY <1>1 DEF Types, Finish

-----------------------------------------------------------------------------
(* Steps that touch one call and leave the provider and auth.json alone    *)

\* While auth.json has no entry, no cache takes up another credential.
NoCacheGrows == disk = 0 => \A p \in Procs : mem'[p] \in {0, mem[p]}

QuietCall(c) ==
  /\ UNCHANGED <<home, disk, idp, expired, verdict, excused>>
  /\ call' \in [Callers -> CallType(minted)]
  /\ \A d \in Callers \ {c} : call'[d] = call[d]
  /\ call'[c].lock = "live" => call[c].lock = "live" \/ Free
  /\ call[c].got # 0 => call'[c].got = call[c].got
  /\ NoCacheGrows

LEMMA QuietCallStep ==
  ASSUME IInv, NEW c \in Callers, QuietCall(c), CallerInv(c)', Types'
  PROVE  IInv'
<1> USE DEF QuietCall, idp
<1>1. OneHolder'
  BY DEF IInv, OneHolder, Free
<1>2. SharedInv'
  BY DEF IInv, SharedInv
<1>3. NewestKept'
  <2>1. minted' = minted /\ minted # 0
    BY DEF IInv, Types
  <2>2. CASE \E d \in Callers : call[d].got = minted
    BY <2>1, <2>2 DEF NewestKept
  <2>3. CASE disk = 0 /\ \A p \in Procs : mem[p] \in {0, minted}
    BY <2>1, <2>3 DEF NewestKept, NoCacheGrows
  <2> QED BY <2>1, <2>2, <2>3 DEF IInv, NewestKept
<1>4. ASSUME NEW d \in Callers PROVE CallerInv(d)'
  BY <1>4 DEF IInv, CallerInv, PastLastCheck
<1> QED BY <1>1, <1>2, <1>3, <1>4 DEF IInv

\* What Types asks of the variables that a quiet step may also change.
QuietTypes ==
  /\ file' \in {"absent", "fresh", "old"}
  /\ mem' \in [Procs -> 0 .. minted]
  /\ chain' \in [Procs -> Callers \cup {NoCaller}]
  /\ \A p \in Procs : chain'[p] # NoCaller => home[chain'[p]] = p
  /\ todo' \in [Procs -> SUBSET (1 .. minted)]

LEMMA QuietFrame ==
  ASSUME IInv, NEW c \in Callers, QuietCall(c), CallerInv(c)', QuietTypes
  PROVE  IInv'
<1>1. Types'
  BY DEF IInv, Types, QuietTypes, QuietCall, idp
<1> QED BY <1>1, QuietCallStep

(* A call that has no grant in hand may return. *)
LEMMA QuietFinish ==
  ASSUME IInv, NEW c \in Callers, Finish(c), call[c].pc \notin Exchanging,
         UNCHANGED <<home, disk, idp, expired, verdict, excused>>,
         file' \in {"absent", "fresh", "old"},
         mem' \in [Procs -> 0 .. minted], NoCacheGrows, todo' = todo
  PROVE  IInv'
<1>1. /\ Types /\ call'[c] = Idle /\ \A d \in Callers \ {c} : call'[d] = call[d]
      /\ call' \in [Callers -> CallType(minted)]
      /\ chain' \in [Procs -> Callers \cup {NoCaller}]
      /\ \A p \in Procs : chain'[p] # NoCaller => home[chain'[p]] = p
  BY FinishFacts DEF IInv
<1>2. QuietCall(c) /\ QuietTypes
  BY <1>1, IdleType DEF IInv, Types, CallerInv, QuietCall, QuietTypes, Idle
<1> QED BY <1>1, <1>2, IdleInv, QuietFrame

LEMMA AdoptType ==
  ASSUME Types, NEW c \in Callers, Adopt(c)
  PROVE  mem' \in [Procs -> 0 .. minted] /\ (disk # 0 => NoCacheGrows)
BY DEF Types, Adopt, NoCacheGrows

LEMMA CacheSame ==
  ASSUME Types, UNCHANGED mem
  PROVE  mem' \in [Procs -> 0 .. minted] /\ NoCacheGrows
BY DEF Types, NoCacheGrows

\* What the record of a call before its exchange must be.
EarlyRec(c, r) ==
  /\ r \in CallType(minted)
  /\ r.pc \notin Exchanging
  /\ r.got = 0
  /\ r.posts \in {0, call[c].posts}
  /\ r.lock = "live" => call[c].lock = "live" \/ Free
  /\ r.pc = "claim" \/ (r.pc = "locked" /\ r.goal = "relock") =>
       r.lock = "live" \/ excused
  /\ r.pc = "enrichWrite" => r.tried = disk

(* A call before its exchange moves to another stage before its exchange. *)
LEMMA EarlyMove ==
  ASSUME IInv, NEW c \in Callers, NEW r, EarlyRec(c, r),
         call' = [call EXCEPT ![c] = r], call[c].pc \notin Exchanging,
         UNCHANGED <<home, disk, idp, expired, verdict, excused>>, QuietTypes,
         UNCHANGED mem
  PROVE  IInv'
<1> USE DEF EarlyRec
<1>1. /\ Types /\ call'[c] = r /\ \A d \in Callers \ {c} : call'[d] = call[d]
      /\ call' \in [Callers -> CallType(minted)]
  BY DEF IInv, Types
<1>2. QuietCall(c) /\ call[c].got = 0
  BY <1>1, CacheSame DEF IInv, Types, CallerInv, QuietCall
<1>3. r.posts < MaxPosts
  BY Bounds DEF IInv, CallerInv, Exchanging
<1>4. CallerInv(c)'
  BY <1>1, <1>2, <1>3 DEF CallerInv, PastLastCheck, Exchanging, Sent
<1> QED BY <1>2, <1>4, QuietFrame

-----------------------------------------------------------------------------
(* The steps before the exchange                                           *)

\* A caller's record has its fields, and no grant before the exchange.
LEMMA CallFields ==
  ASSUME IInv, NEW c \in Callers
  PROVE  /\ Types /\ call[c] \in CallType(minted) /\ CallerInv(c)
         /\ minted \in Nat /\ home[c] \in Procs
         /\ disk \in 0 .. minted /\ mem[home[c]] \in 0 .. minted
         /\ call[c].pc \notin Exchanging => call[c].got = 0
BY Bounds DEF IInv, Types, CallerInv, Exchanging

LEMMA QuietSame ==
  ASSUME Types, UNCHANGED <<home, file, mem, chain, todo>>
  PROVE  QuietTypes
BY DEF Types, QuietTypes

LEMMA BeginInv ==
  ASSUME IInv, UNCHANGED home, NEW c \in Callers,
         BeginAuth(c) \/ BeginRecovery(c)
  PROVE  IInv'
<1> USE CallFields
<1> USE DEF CallType, Stages, Reasons, Goals, Exchanging, At, Goto, manager
<1>1. CASE BeginAuth(c)
  <2> DEFINE r == [call[c] EXCEPT !.pc = "step0"]
  <2>1. call' = [call EXCEPT ![c] = r] /\ EarlyRec(c, r)
    BY <1>1 DEF BeginAuth, EarlyRec
  <2> HIDE DEF r
  <2> QED BY <1>1, <2>1, QuietSame, EarlyMove DEF BeginAuth
<1>2. CASE BeginRecovery(c)
  <2> DEFINE r == [call[c] EXCEPT !.pc = "try", !.why = "rejected", !.goal = "reload",
                                  !.tried = mem[home[c]]]
  <2>1. call' = [call EXCEPT ![c] = r] /\ EarlyRec(c, r)
    BY <1>2, ZenonT(60) DEF BeginRecovery, EarlyRec
  <2> HIDE DEF r
  <2> QED BY <1>2, <2>1, QuietSame, EarlyMove DEF BeginRecovery
<1> QED BY <1>1, <1>2

LEMMA BeginEnrichmentInv ==
  ASSUME IInv, UNCHANGED home, NEW c \in Callers, BeginEnrichment(c)
  PROVE  IInv'
<1> USE CallFields
<1> USE DEF CallType, Stages, Reasons, Goals, Exchanging, At
<1>1. PICK k \in todo[home[c]] :
        /\ At(c, "idle")
        /\ todo' = [todo EXCEPT ![home[c]] = @ \ {k}]
        /\ call' = [call EXCEPT ![c].pc = "try", ![c].goal = "enrich", ![c].tried = k]
        /\ UNCHANGED <<disk, file, idp, expired, mem, verdict, chain, excused>>
  BY DEF BeginEnrichment
<1> DEFINE r == [call[c] EXCEPT !.pc = "try", !.goal = "enrich", !.tried = k]
<1>2. k \in 0 .. minted
  BY DEF Types
<1>3. call' = [call EXCEPT ![c] = r] /\ EarlyRec(c, r)
  BY <1>1, <1>2, ZenonT(60) DEF EarlyRec
<1> HIDE DEF r
<1>4. QuietTypes
  BY <1>1 DEF Types, QuietTypes
<1> QED BY <1>1, <1>3, <1>4, EarlyMove

LEMMA Step0Inv ==
  ASSUME IInv, UNCHANGED home, NEW c \in Callers, Step0(c)
  PROVE  IInv'
<1> USE CallFields
<1> USE DEF CallType, Stages, Reasons, Goals, Exchanging, At
<1>1. CASE Blocked(home[c])
  <2>1. /\ mem' \in [Procs -> 0 .. minted] /\ NoCacheGrows /\ Finish(c)
        /\ file' \in {"absent", "fresh", "old"}
    BY <1>1, AdoptType, CacheSame DEF Step0, Types, Adoptable
  <2> QED BY <2>1, QuietFinish DEF Step0
<1>2. CASE ~Blocked(home[c])
  <2> DEFINE r == [call[c] EXCEPT !.pc = "chain", !.pre = Current(home[c])]
  <2>1. Current(home[c]) \in 0 .. minted
    BY DEF Current
  <2>2. call' = [call EXCEPT ![c] = r] /\ EarlyRec(c, r)
    BY <1>2, <2>1, ZenonT(60) DEF Step0, EarlyRec
  <2> HIDE DEF r
  <2> QED BY <1>2, <2>2, QuietSame, EarlyMove DEF Step0
<1> QED BY <1>1, <1>2

LEMMA EnterChainInv ==
  ASSUME IInv, UNCHANGED home, NEW c \in Callers, EnterChain(c)
  PROVE  IInv'
<1> USE CallFields
<1> USE DEF CallType, Stages, Reasons, Goals, Exchanging, At, manager
<1>1. CASE Finish(c)
  <2>1. mem' \in [Procs -> 0 .. minted] /\ NoCacheGrows /\ file' \in {"absent", "fresh", "old"}
    BY CacheSame DEF EnterChain, Types
  <2> QED BY <1>1, <2>1, QuietFinish DEF EnterChain
<1>2. CASE ~Finish(c)
  <2> DEFINE r == [call[c] EXCEPT !.pc = "try", !.goal = "refresh", !.pre = 0]
  <2>1. /\ call' = [call EXCEPT ![c] = r] /\ EarlyRec(c, r)
        /\ chain' = [chain EXCEPT ![home[c]] = c]
    BY <1>2, ZenonT(60) DEF EnterChain, EarlyRec
  <2> HIDE DEF r
  <2>2. QuietTypes
    BY <2>1 DEF Types, QuietTypes, EnterChain
  <2> QED BY <2>1, <2>2, EarlyMove DEF EnterChain
<1> QED BY <1>1, <1>2

\* Updates of the fields that the lock protocol changes.
InPhase(r, s, h) == [r EXCEPT !.pc = s, !.phase = h]
WithoutLock(r, s, h) == [r EXCEPT !.lock = "no", !.phase = h, !.pc = s]

\* What both keep of the record, and what they do to the lock.
KeepsGrant(u, r, s) ==
  u.pc = s /\ u.got = r.got /\ u.posts = r.posts /\ u.goal = r.goal
SameLock(u, r) == u.lock = r.lock
HasNoLock(u) == u.lock = "no"

LEMMA LockUpdates ==
  ASSUME NEW m, NEW r \in CallType(m), NEW s \in Stages, NEW h \in 1 .. 4
  PROVE  /\ InPhase(r, s, h) \in CallType(m)
         /\ KeepsGrant(InPhase(r, s, h), r, s) /\ SameLock(InPhase(r, s, h), r)
         /\ WithoutLock(r, s, h) \in CallType(m)
         /\ KeepsGrant(WithoutLock(r, s, h), r, s) /\ HasNoLock(WithoutLock(r, s, h))
BY DEF CallType, InPhase, WithoutLock, KeepsGrant, SameLock, HasNoLock

(* The lock file after any open of the path. *)
LEMMA OpenedType ==
  ASSUME Types
  PROVE  Opened \in {"absent", "fresh", "old"}
BY DEF Types, Opened

(* A missed attempt leaves a call without a lock, at a stage before its     *)
(* exchange and before its last check.                                      *)
NoGrant(c) == call[c].got = 0

LEMMA MissedRec ==
  ASSUME IInv, NEW c \in Callers, NEW u \in BOOLEAN, NoGrant(c)
  PROVE  EarlyRec(c, Missed(call[c], u))
<1>1. call[c] \in CallType(minted)
  BY DEF IInv, Types
<1> DEFINE h == CASE call[c].phase \in {1, 2} -> 2 [] OTHER -> 4
           s == CASE call[c].phase \in {1, 2} -> "block"
                  [] call[c].phase = 3 /\ u -> "try"
                  [] OTHER -> "nolock"
           r == WithoutLock(call[c], s, h)
<1>2. h \in 1 .. 4 /\ s \in {"block", "try", "nolock"}
  OBVIOUS
<1>3. Missed(call[c], u) = r
  BY DEF Missed, WithoutLock
<1> HIDE DEF h, s
<1>4. r \in CallType(minted) /\ KeepsGrant(r, call[c], s) /\ HasNoLock(r)
  <2>1. h \in 1 .. 4 /\ s \in Stages
    BY <1>2 DEF Stages
  <2> QED BY <1>1, <2>1, LockUpdates
<1> HIDE DEF r
<1>5. EarlyRec(c, r)
  BY <1>2, <1>4 DEF EarlyRec, KeepsGrant, HasNoLock, NoGrant, Exchanging
<1> QED BY <1>3, <1>5

LEMMA TryLockInv ==
  ASSUME IInv, UNCHANGED home, NEW c \in Callers, TryLock(c)
  PROVE  IInv'
<1>1. /\ Types /\ minted \in Nat /\ call[c] \in CallType(minted) /\ call[c].got = 0
      /\ call[c].pc = "try" /\ call[c].pc \notin Exchanging
  BY CallFields DEF TryLock, At, Exchanging
<1> DEFINE r == CASE Free -> [call[c] EXCEPT !.pc = "info", !.lock = "live"]
                  [] ~Free /\ file = "old" -> [call[c] EXCEPT !.pc = "unlink"]
                  [] OTHER -> Missed(call[c], FALSE)
<1>2. EarlyRec(c, r)
  <2>1. CASE Free
    BY <1>1, <2>1, ZenonT(60) DEF EarlyRec, CallType, Stages, Reasons, Goals, Exchanging
  <2>2. CASE ~Free /\ file = "old"
    BY <1>1, <2>2 DEF EarlyRec, CallType, Stages, Reasons, Goals, Exchanging
  <2>3. CASE ~Free /\ file # "old"
    <3>1. r = Missed(call[c], FALSE)
      BY <2>3
    <3> QED BY <1>1, <3>1, MissedRec DEF NoGrant
  <2> QED BY <2>1, <2>2, <2>3
<1>3. call' = [call EXCEPT ![c] = r]
  BY <1>1 DEF TryLock
<1>4. QuietTypes
  BY <1>1, OpenedType DEF TryLock, Types, QuietTypes, manager
<1> HIDE DEF r
<1> QED BY <1>1, <1>2, <1>3, <1>4, EarlyMove DEF TryLock, manager

LEMMA LockFailsInv ==
  ASSUME IInv, UNCHANGED home, NEW c \in Callers, LockFails(c)
  PROVE  IInv'
<1>0. call[c].got = 0
  BY CallFields DEF LockFails, At, Exchanging
<1>1. /\ Types /\ call[c] \in CallType(minted)
      /\ call[c].pc = "try" /\ call[c].pc \notin Exchanging
  BY CallFields DEF LockFails, At, Exchanging
<1> DEFINE r == InPhase(call[c], "nolock", 4)
<1>2. call' = [call EXCEPT ![c] = r]
  BY <1>1 DEF LockFails, InPhase
<1>3. EarlyRec(c, r)
  <2>1. call[c] \in CallType(minted) /\ "nolock" \in Stages /\ 4 \in 1 .. 4
    BY DEF IInv, Types, Stages
  <2>2. r \in CallType(minted) /\ KeepsGrant(r, call[c], "nolock") /\ SameLock(r, call[c])
    BY <2>1, LockUpdates
  <2> HIDE DEF r
  <2> QED BY <1>0, <2>2 DEF EarlyRec, KeepsGrant, SameLock, Exchanging
<1>4. QuietTypes
  BY <1>1, OpenedType DEF LockFails, Types, QuietTypes, manager
<1> HIDE DEF r
<1> QED BY <1>1, <1>2, <1>3, <1>4, EarlyMove DEF LockFails, manager

LEMMA WriteInfoInv ==
  ASSUME IInv, UNCHANGED home, NEW c \in Callers, WriteInfo(c)
  PROVE  IInv'
<1>0. call[c].got = 0
  BY CallFields DEF WriteInfo, At, Exchanging
<1>1. /\ Types /\ minted \in Nat /\ call[c] \in CallType(minted)
      /\ call[c].pc = "info" /\ call[c].pc \notin Exchanging
  BY CallFields DEF WriteInfo, At, Exchanging
<1>2. QuietTypes
  BY <1>1 DEF WriteInfo, Types, QuietTypes, manager
<1>3. CASE call[c].lock = "live"
  <2> DEFINE r == InPhase(call[c], "locked", 1)
  <2>2. EarlyRec(c, r)
    <3>1. call[c] \in CallType(minted) /\ "locked" \in Stages /\ 1 \in 1 .. 4
      BY DEF IInv, Types, Stages
    <3>2. r \in CallType(minted) /\ KeepsGrant(r, call[c], "locked") /\ SameLock(r, call[c])
      BY <3>1, LockUpdates
    <3> HIDE DEF r
    <3> QED BY <1>0, <1>3, <3>2 DEF EarlyRec, KeepsGrant, SameLock, Exchanging
  <2>3. call' = [call EXCEPT ![c] = r]
    BY <1>1, <1>3 DEF WriteInfo, InPhase
  <2> HIDE DEF r
  <2> QED BY <1>1, <1>2, <2>2, <2>3, EarlyMove DEF WriteInfo, manager
<1>4. CASE call[c].lock # "live"
  <2>1. EarlyRec(c, Missed(call[c], TRUE))
    BY <1>0, MissedRec DEF NoGrant
  <2>2. call' = [call EXCEPT ![c] = Missed(call[c], TRUE)]
    BY <1>1, <1>4 DEF WriteInfo
  <2> QED BY <1>1, <1>2, <2>1, <2>2, EarlyMove DEF WriteInfo, manager
<1> QED BY <1>3, <1>4

LEMMA FlockInv ==
  ASSUME IInv, UNCHANGED home, NEW c \in Callers, Flock(c)
  PROVE  IInv'
<1>1. /\ Types /\ minted \in Nat /\ call[c] \in CallType(minted) /\ call[c].got = 0
      /\ call[c].pc = "block" /\ call[c].pc \notin Exchanging
  BY CallFields DEF Flock, At, Exchanging
<1> DEFINE r == [call[c] EXCEPT !.pc = "info", !.lock = "live"]
<1>2. call' = [call EXCEPT ![c] = r] /\ Free
  BY <1>1 DEF Flock
<1>4. EarlyRec(c, r)
  BY <1>1, <1>2, ZenonT(60) DEF EarlyRec, CallType, Stages, Exchanging
<1>3. QuietTypes
  BY <1>1, OpenedType DEF Flock, Types, QuietTypes, manager
<1> HIDE DEF r
<1> QED BY <1>1, <1>2, <1>3, <1>4, EarlyMove DEF Flock, manager

LEMMA BlockTimeoutInv ==
  ASSUME IInv, UNCHANGED home, NEW c \in Callers, BlockTimeout(c)
  PROVE  IInv'
<1>0. call[c].got = 0
  BY CallFields DEF BlockTimeout, At, Exchanging
<1>1. /\ Types /\ minted \in Nat /\ call[c] \in CallType(minted)
      /\ call[c].pc = "block" /\ call[c].pc \notin Exchanging
  BY CallFields DEF BlockTimeout, At, Exchanging
<1> DEFINE r == InPhase(call[c], "try", 3)
<1>2. call' = [call EXCEPT ![c] = r]
  BY <1>1 DEF BlockTimeout, InPhase
<1>4. EarlyRec(c, r)
  <2>1. call[c] \in CallType(minted) /\ "try" \in Stages /\ 3 \in 1 .. 4
    BY DEF IInv, Types, Stages
  <2>2. r \in CallType(minted) /\ KeepsGrant(r, call[c], "try") /\ SameLock(r, call[c])
    BY <2>1, LockUpdates
  <2> HIDE DEF r
  <2> QED BY <1>0, <2>2 DEF EarlyRec, KeepsGrant, SameLock, Exchanging
<1> HIDE DEF r
<1> QED BY <1>1, <1>2, <1>4, QuietSame, EarlyMove DEF BlockTimeout, manager

LEMMA NoLockInv ==
  ASSUME IInv, UNCHANGED home, NEW c \in Callers, NoLock(c)
  PROVE  IInv'
<1>0. call[c].got = 0
  BY CallFields DEF NoLock, At, Exchanging
<1>1. /\ Types /\ minted \in Nat /\ call[c] \in CallType(minted)
      /\ call[c].pc = "nolock" /\ call[c].pc \notin Exchanging
  BY CallFields DEF NoLock, At, Exchanging
<1>2. CASE call[c].goal \in {"refresh", "relock"}
  <2>1. mem' \in [Procs -> 0 .. minted] /\ NoCacheGrows /\ Finish(c)
    BY <1>1, <1>2, AdoptType, CacheSame DEF NoLock, Adoptable
  <2> QED BY <1>1, <2>1, QuietFinish DEF NoLock, Types
<1>3. CASE call[c].goal \notin {"refresh", "relock"}
  <2> DEFINE r == InPhase(call[c], "locked", 1)
  <2>2. EarlyRec(c, r)
    <3>1. call[c] \in CallType(minted) /\ "locked" \in Stages /\ 1 \in 1 .. 4
      BY DEF IInv, Types, Stages
    <3>2. r \in CallType(minted) /\ KeepsGrant(r, call[c], "locked") /\ SameLock(r, call[c])
      BY <3>1, LockUpdates
    <3> HIDE DEF r
    <3> QED BY <1>0, <1>3, <3>2 DEF EarlyRec, KeepsGrant, SameLock, Exchanging
  <2>3. call' = [call EXCEPT ![c] = r] /\ UNCHANGED <<mem, chain>>
    BY <1>1, <1>3 DEF NoLock, InPhase
  <2> HIDE DEF r
  <2> QED BY <1>1, <2>2, <2>3, QuietSame, EarlyMove DEF NoLock
<1> QED BY <1>2, <1>3

LEMMA LockedInv ==
  ASSUME IInv, UNCHANGED home, NEW c \in Callers, Locked(c)
  PROVE  IInv'
<1>1. /\ Types /\ minted \in Nat /\ call[c] \in CallType(minted) /\ call[c].got = 0
      /\ call[c].pc = "locked" /\ call[c].pc \notin Exchanging
      /\ call[c].goal \in {"refresh", "relock"}
      /\ call[c].goal = "relock" => call[c].lock = "live" \/ excused
  BY CallFields DEF Locked, At, Exchanging, CallerInv, PastLastCheck
<1>2. CASE Adoptable(home[c], call[c].why)
  <2>1. mem' \in [Procs -> 0 .. minted] /\ NoCacheGrows /\ Finish(c)
    BY <1>1, <1>2, AdoptType DEF Locked, Adoptable
  <2> QED BY <1>1, <2>1, QuietFinish DEF Locked, Types
<1>3. CASE ~Adoptable(home[c], call[c].why)
  <2> DEFINE r == [call[c] EXCEPT !.pc = IF call[c].goal = "refresh" THEN "live" ELSE "claim"]
  <2>1. EarlyRec(c, r)
    BY <1>1, <1>3 DEF EarlyRec, CallType, Stages, Reasons, Goals, Exchanging
  <2>2. call' = [call EXCEPT ![c] = r] /\ UNCHANGED <<mem, chain>>
    BY <1>1, <1>3 DEF Locked, Goto
  <2> HIDE DEF r
  <2> QED BY <1>1, <2>1, <2>2, QuietSame, EarlyMove DEF Locked
<1> QED BY <1>2, <1>3

LEMMA ReloadInv ==
  ASSUME IInv, UNCHANGED home, NEW c \in Callers, Reload(c)
  PROVE  IInv'
<1>1. /\ Types /\ minted \in Nat /\ call[c] \in CallType(minted) /\ call[c].got = 0
      /\ call[c].pc = "locked" /\ call[c].pc \notin Exchanging
  BY CallFields DEF Reload, At, Exchanging
<1>2. CASE Finish(c)
  <2>1. mem' \in [Procs -> 0 .. minted] /\ NoCacheGrows
    BY <1>1, AdoptType, CacheSame DEF Reload
  <2> QED BY <1>1, <1>2, <2>1, QuietFinish DEF Reload, Types
<1>3. CASE ~Finish(c)
  <2> DEFINE r == [Idle EXCEPT !.pc = "step0", !.why = "rejected"]
  <2>1. /\ Idle \in CallType(minted) /\ Idle.got = 0 /\ Idle.lock = "no"
        /\ Idle.posts = 0
    BY <1>1, IdleType DEF Types, Idle
  <2>2. EarlyRec(c, r)
    BY <2>1 DEF EarlyRec, CallType, Stages, Reasons, Goals, Exchanging
  <2>3. call' = [call EXCEPT ![c] = r] /\ UNCHANGED <<mem, chain>>
    BY <1>1, <1>3 DEF Reload
  <2> HIDE DEF r
  <2> QED BY <1>1, <2>2, <2>3, QuietSame, EarlyMove DEF Reload
<1> QED BY <1>2, <1>3

LEMMA EnrichReadInv ==
  ASSUME IInv, UNCHANGED home, NEW c \in Callers, EnrichRead(c)
  PROVE  IInv'
<1>1. /\ Types /\ minted \in Nat /\ call[c] \in CallType(minted) /\ call[c].got = 0
      /\ call[c].pc = "locked" /\ call[c].pc \notin Exchanging
  BY CallFields DEF EnrichRead, At, Exchanging
<1>2. CASE disk # call[c].tried
  BY <1>1, <1>2, CacheSame, QuietFinish DEF EnrichRead, manager, Types
<1>3. CASE disk = call[c].tried
  <2> DEFINE r == [call[c] EXCEPT !.pc = "enrichWrite"]
  <2>1. EarlyRec(c, r) /\ call' = [call EXCEPT ![c] = r] /\ UNCHANGED chain
    BY <1>1, <1>3 DEF EnrichRead, Goto, EarlyRec, CallType, Stages, Reasons, Goals, Exchanging
  <2> HIDE DEF r
  <2> QED BY <1>1, <2>1, QuietSame, EarlyMove DEF EnrichRead, manager
<1> QED BY <1>2, <1>3

LEMMA DeferInv ==
  ASSUME IInv, UNCHANGED home, NEW c \in Callers, Defer(c)
  PROVE  IInv'
<1>1. Types /\ call[c].pc \notin Exchanging
  BY DEF IInv, Defer, Exchanging
<1> QED BY <1>1, CacheSame, QuietFinish DEF Defer, manager, Types

LEMMA RevalidateInv ==
  ASSUME IInv, UNCHANGED home, NEW c \in Callers, Revalidate(c)
  PROVE  IInv'
<1>1. /\ Types /\ minted \in Nat /\ call[c] \in CallType(minted) /\ call[c].got = 0
      /\ call[c].pc = "live" /\ call[c].pc \notin Exchanging
  BY CallFields DEF Revalidate, At, Exchanging
<1>2. CASE call[c].lock = "live"
  <2> DEFINE r == [call[c] EXCEPT !.pc = "claim"]
  <2>1. EarlyRec(c, r) /\ call' = [call EXCEPT ![c] = r]
    BY <1>1, <1>2 DEF Revalidate, Goto, EarlyRec, CallType, Stages, Reasons, Goals, Exchanging
  <2> HIDE DEF r
  <2> QED BY <1>1, <2>1, QuietSame, EarlyMove DEF Revalidate, manager
<1>3. CASE call[c].lock # "live"
  <2> DEFINE r == [call[c] EXCEPT !.pc = "try", !.goal = "relock", !.lock = "no"]
  <2>1. call' = [call EXCEPT ![c] = r]
    BY <1>1, <1>3 DEF Revalidate
  <2>2. r \in CallType(minted) /\ r.pc = "try" /\ r.lock = "no" /\ r.got = 0
    BY <1>1 DEF CallType, Stages, Goals
  <2>3. EarlyRec(c, r)
    BY <2>2 DEF EarlyRec, Exchanging
  <2> HIDE DEF r
  <2> QED BY <1>1, <2>1, <2>3, QuietSame, EarlyMove DEF Revalidate, manager
<1> QED BY <1>2, <1>3

-----------------------------------------------------------------------------
(* The steps of the exchange                                               *)

(* Short of a fault, the calls past their last check are one call: any other *)
(* call has no grant, has sent nothing and is not about to rewrite the entry *)
(* that it has read under the lock.                                          *)
LEMMA Alone ==
  ASSUME IInv, ~excused, NEW c \in Callers, PastLastCheck(c),
         NEW d \in Callers, d # c
  PROVE  /\ call[c].lock = "live" /\ call[d].lock # "live" /\ ~PastLastCheck(d)
         /\ call[d].pc \notin Exchanging /\ call[d].got = 0
<1>1. CallerInv(c) /\ CallerInv(d)
  BY DEF IInv
<1>2. call[c].lock = "live" /\ call[d].lock # "live"
  BY <1>1 DEF CallerInv, IInv, OneHolder
<1>3. ~PastLastCheck(d)
  BY <1>1, <1>2 DEF CallerInv
<1> QED BY <1>1, <1>2, <1>3 DEF CallerInv, PastLastCheck, Exchanging

LEMMA Exchange ==
  ASSUME NEW c \in Callers, call[c].pc \in Exchanging
  PROVE  PastLastCheck(c)
BY DEF Exchanging, PastLastCheck

LEMMA RefreshInv ==
  ASSUME IInv, UNCHANGED home, NEW c \in Callers, Refresh(c)
  PROVE  IInv'
<1>1. /\ Types /\ minted \in Nat /\ call[c] \in CallType(minted) /\ CallerInv(c)
      /\ call[c].pc = "claim" /\ call[c].pc \notin Exchanging /\ call[c].got = 0
      /\ call[c].posts < MaxPosts /\ (~excused => call[c].lock = "live")
      /\ disk \in 0 .. minted /\ mem[home[c]] \in 0 .. minted /\ home[c] \in Procs
      /\ PastLastCheck(c)
  BY CallFields DEF Refresh, At, Exchanging, CallerInv, PastLastCheck
<1> DEFINE k == Resolve(home[c], call[c].why)
<1>2. /\ k \in 0 .. minted /\ (disk # 0 => k = disk)
      /\ disk = 0 => k \in {0, mem[home[c]]}
  BY <1>1 DEF Resolve
<1>0. ~excused /\ k # 0 => k = minted
  <2>1. SUFFICES ASSUME ~excused, k # 0 PROVE k = minted
    OBVIOUS
  <2> HIDE DEF k
  <2>2. \A d \in Callers : call[d].got = 0
    BY <1>1, <2>1, Alone
  <2>3. minted # 0
    BY <1>1 DEF Types
  <2>4. disk = minted \/ (disk = 0 /\ \A p \in Procs : mem[p] \in {0, minted})
    BY <2>1, <2>2, <2>3 DEF IInv, NewestKept
  <2> QED BY <1>1, <1>2, <2>1, <2>4
<1>3. CASE Finish(c)
  BY <1>1, <1>3, CacheSame, QuietFinish DEF Refresh, manager, Types
<1>4. CASE ~Finish(c)
  <2>1. UNCHANGED chain
    BY <1>1, <1>4 DEF Refresh
  <2>2. QuietTypes
    BY <1>1, <2>1, QuietSame DEF Refresh, manager
  <2>3. \/ disk # 0 /\ call' = [call EXCEPT ![c].pc = "adopted", ![c].got = disk]
        \/ k # 0 /\ call' = [call EXCEPT ![c].pc = "wire", ![c].tried = k]
    BY <1>1, <1>4 DEF Refresh
  <2> HIDE DEF k
  <2>4. /\ call' \in [Callers -> CallType(minted)]
        /\ \A d \in Callers \ {c} : call'[d] = call[d]
        /\ call'[c].lock = call[c].lock /\ call'[c].posts = call[c].posts
        /\ \/ call'[c].pc = "adopted" /\ call'[c].got = disk /\ disk # 0
           \/ call'[c].pc = "wire" /\ call'[c].got = 0 /\ call'[c].tried = k /\ k # 0
    <3>1. CASE disk # 0 /\ call' = [call EXCEPT ![c].pc = "adopted", ![c].got = disk]
      BY <1>1, <3>1 DEF Types, CallType, Stages
    <3>2. CASE k # 0 /\ call' = [call EXCEPT ![c].pc = "wire", ![c].tried = k]
      BY <1>1, <1>2, <3>2, ZenonT(60) DEF Types, CallType, Stages
    <3> QED BY <2>3, <3>1, <3>2
  <2>5. QuietCall(c)
    BY <1>1, <2>4, CacheSame DEF QuietCall, Refresh, manager
  <2>6. CallerInv(c)'
    <3>1. UNCHANGED <<disk, minted, dead, excused>>
      BY DEF Refresh, idp
    <3> QED BY <1>1, <1>0, <2>4, <3>1 DEF CallerInv, PastLastCheck, Exchanging, Sent
  <2> QED BY <2>2, <2>5, <2>6, QuietFrame
<1> QED BY <1>3, <1>4

LEMMA PostInv ==
  ASSUME IInv, UNCHANGED home, NEW c \in Callers, RejectClient(c) \/ PostFails(c)
  PROVE  IInv'
<1>1. /\ Types /\ call[c] \in CallType(minted) /\ CallerInv(c)
  BY CallFields
<1>2. call[c].pc \in Sent \ {"failed"} /\ call[c].posts < MaxPosts /\ call[c].posts \in Nat
  BY <1>1 DEF RejectClient, PostFails, At, Sent, CallerInv, CallType
<1>3. UNCHANGED <<home, disk, file, idp, expired, mem, verdict, todo, chain, excused>>
  BY DEF RejectClient, PostFails, manager
<1>4. /\ call' \in [Callers -> CallType(minted)]
      /\ \A d \in Callers \ {c} : call'[d] = call[d]
      /\ call'[c].lock = call[c].lock /\ call'[c].got = call[c].got
      /\ call'[c].tried = call[c].tried
      /\ call'[c].pc \in {"client", "wire", "failed"}
      /\ call'[c].pc # "failed" => call'[c].posts < MaxPosts
  <2>1. CASE RejectClient(c)
    BY <1>1, <1>2, <2>1 DEF RejectClient, Goto, Types, CallType, Stages
  <2>2. CASE PostFails(c)
    <3> DEFINE n == call[c].posts + 1
               s == IF n < MaxPosts THEN "wire" ELSE "failed"
    <3>1. n \in 0 .. MaxPosts /\ (s # "failed" => n < MaxPosts) /\ s \in {"wire", "failed"}
      BY <1>2, Bounds
    <3>2. call' = [call EXCEPT ![c].pc = s, ![c].posts = n]
      BY <2>2 DEF PostFails
    <3> HIDE DEF n, s
    <3>3. s \in Stages
      BY <3>1 DEF Stages
    <3>4. call' \in [Callers -> CallType(minted)]
      BY <1>1, <3>1, <3>2, <3>3 DEF Types, CallType
    <3>5. /\ \A d \in Callers \ {c} : call'[d] = call[d]
          /\ call'[c].lock = call[c].lock /\ call'[c].got = call[c].got
          /\ call'[c].tried = call[c].tried /\ call'[c].pc = s
      BY <1>1, <3>2 DEF Types, CallType
    <3>6. call'[c].posts = n
      BY <1>1, <3>2 DEF Types, CallType
    <3> QED BY <3>1, <3>4, <3>5, <3>6
  <2> QED BY <2>1, <2>2
<1>5. QuietCall(c) /\ QuietTypes
  BY <1>1, <1>3, <1>4, QuietSame, CacheSame DEF QuietCall
<1>6. CallerInv(c)'
  BY <1>1, <1>2, <1>3, <1>4 DEF CallerInv, PastLastCheck, Exchanging, Sent, idp
<1> QED BY <1>5, <1>6, QuietFrame

(* A call returns: nothing is lost, or the fault is recorded. *)
LEMMA ReturnStep ==
  ASSUME IInv, NEW c \in Callers, Finish(c),
         UNCHANGED <<home, idp, expired>>, excused' \in BOOLEAN,
         ~excused' => ~excused /\ disk' = disk /\ call[c].got = 0 /\ NoCacheGrows,
         disk' \in 0 .. minted,
         file' \in {"absent", "fresh", "old"},
         mem' \in [Procs -> 0 .. minted],
         todo' \in [Procs -> SUBSET (1 .. minted)],
         verdict' \in [Procs -> [key : 0 .. minted, sticky : BOOLEAN]],
         \A p \in Procs : verdict'[p].sticky => verdict'[p].key \in dead
  PROVE  IInv'
<1>1. /\ Types /\ call'[c] = Idle /\ \A d \in Callers \ {c} : call'[d] = call[d]
      /\ call' \in [Callers -> CallType(minted)]
      /\ chain' \in [Procs -> Callers \cup {NoCaller}]
      /\ \A p \in Procs : chain'[p] # NoCaller => home[chain'[p]] = p
  BY FinishFacts DEF IInv
<1>2. Types'
  BY <1>1 DEF Types, idp
<1>3. OneHolder'
  BY <1>1, IdleType DEF IInv, OneHolder, Idle
<1>4. SharedInv'
  BY <1>1 DEF IInv, SharedInv, idp
<1>5. NewestKept'
  <2>1. SUFFICES ASSUME ~excused' PROVE NewestKept'
    BY DEF NewestKept
  <2>2. /\ ~excused /\ disk' = disk /\ call[c].got = 0 /\ NoCacheGrows
        /\ minted' = minted /\ minted # 0
    BY <1>1, <2>1 DEF idp, Types
  <2>3. CASE \E d \in Callers : call[d].got = minted
    BY <1>1, <2>2, <2>3 DEF NewestKept
  <2>4. CASE disk = 0 /\ \A p \in Procs : mem[p] \in {0, minted}
    BY <2>2, <2>4 DEF NewestKept, NoCacheGrows
  <2> QED BY <2>2, <2>3, <2>4 DEF IInv, NewestKept
<1>6. ASSUME NEW d \in Callers PROVE CallerInv(d)'
  <2>1. CASE d = c
    BY <1>1, <2>1, IdleInv
  <2>2. CASE d # c
    BY <1>1, <2>2 DEF IInv, CallerInv, PastLastCheck, idp
  <2> QED BY <2>1, <2>2
<1> QED BY <1>2, <1>3, <1>4, <1>5, <1>6 DEF IInv

LEMMA RecordFacts ==
  ASSUME IInv, NEW c \in Callers, NEW sticky \in BOOLEAN, Record(c, sticky),
         sticky => call[c].tried \in dead
  PROVE  /\ Finish(c) /\ mem' \in [Procs -> 0 .. minted] /\ NoCacheGrows
         /\ verdict' \in [Procs -> [key : 0 .. minted, sticky : BOOLEAN]]
         /\ \A p \in Procs : verdict'[p].sticky => verdict'[p].key \in dead
<1>1. /\ Types /\ call[c] \in CallType(minted) /\ home[c] \in Procs
      /\ \A p \in Procs : verdict[p].sticky => verdict[p].key \in dead
  BY CallFields DEF IInv, SharedInv
<1> DEFINE v == [key |-> call[c].tried, sticky |-> sticky]
<1>2. v \in [key : 0 .. minted, sticky : BOOLEAN] /\ (v.sticky => v.key \in dead)
  BY <1>1 DEF CallType
<1>3. \/ UNCHANGED verdict /\ ((disk # 0 /\ Adopt(c)) \/ UNCHANGED mem)
      \/ verdict' = [verdict EXCEPT ![home[c]] = v] /\ UNCHANGED mem
  BY DEF Record, Adoptable
<1>4. mem' \in [Procs -> 0 .. minted] /\ NoCacheGrows
  BY <1>1, <1>3, AdoptType, CacheSame
<1> HIDE DEF v
<1>5. verdict \in [Procs -> [key : 0 .. minted, sticky : BOOLEAN]]
  BY <1>1 DEF Types
<1>6. CASE UNCHANGED verdict
  BY <1>1, <1>4, <1>5, <1>6 DEF Record
<1>7. CASE verdict' = [verdict EXCEPT ![home[c]] = v]
  <2>1. verdict' \in [Procs -> [key : 0 .. minted, sticky : BOOLEAN]]
    BY <1>1, <1>2, <1>5, <1>7
  <2>2. ASSUME NEW p \in Procs PROVE verdict'[p] = v \/ verdict'[p] = verdict[p]
    BY <1>5, <1>7
  <2>3. \A p \in Procs : verdict'[p].sticky => verdict'[p].key \in dead
    BY <1>1, <1>2, <2>2
  <2> QED BY <1>4, <2>1, <2>3 DEF Record
<1> QED BY <1>3, <1>6, <1>7

LEMMA EnrichWriteInv ==
  ASSUME IInv, UNCHANGED home, NEW c \in Callers, EnrichWrite(c)
  PROVE  IInv'
<1>1. /\ Types /\ call[c] \in CallType(minted) /\ CallerInv(c) /\ call[c].pc = "enrichWrite"
      /\ call[c].got = 0 /\ excused \in BOOLEAN
      /\ \A p \in Procs : verdict[p].sticky => verdict[p].key \in dead
  BY CallFields DEF EnrichWrite, At, Exchanging, IInv, SharedInv, Types
<1>2. call[c].tried \in 0 .. minted
  BY <1>1 DEF CallType
<1>3. /\ disk' \in 0 .. minted /\ mem' \in [Procs -> 0 .. minted]
      /\ excused' \in BOOLEAN
  BY <1>1, <1>2 DEF EnrichWrite, Types, Excuse
<1>4. ~excused' => ~excused /\ disk' = disk /\ call[c].got = 0 /\ NoCacheGrows
  <2>1. SUFFICES ASSUME ~excused' PROVE ~excused /\ disk' = disk /\ NoCacheGrows
    BY <1>1
  <2>2. ~excused /\ disk = call[c].tried /\ disk' = disk
    BY <1>1, <2>1 DEF EnrichWrite, CallerInv, Excuse, StaleRewrite
  <2>3. mem' = [mem EXCEPT ![home[c]] = disk]
    BY <2>2 DEF EnrichWrite
  <2> QED BY <1>1, <2>2, <2>3 DEF NoCacheGrows, Types
<1> QED BY <1>1, <1>3, <1>4, ReturnStep DEF EnrichWrite, Types

LEMMA FailedInv ==
  ASSUME IInv, UNCHANGED home, NEW c \in Callers, Failed(c) \/ ClientDenied(c)
  PROVE  IInv'
<1>1. /\ Types /\ excused \in BOOLEAN /\ disk \in 0 .. minted
      /\ file \in {"absent", "fresh", "old"}
      /\ todo \in [Procs -> SUBSET (1 .. minted)]
      /\ mem \in [Procs -> 0 .. minted]
      /\ verdict \in [Procs -> [key : 0 .. minted, sticky : BOOLEAN]]
      /\ \A p \in Procs : verdict[p].sticky => verdict[p].key \in dead
  BY DEF IInv, SharedInv, Types
<1>2. /\ excused' = (excused \/ call[c].got # 0)
      /\ UNCHANGED <<disk, file, idp, expired, todo>>
      /\ \/ Finish(c) /\ UNCHANGED <<mem, verdict>>
         \/ Record(c, FALSE)
  BY DEF Failed, ClientDenied, Excuse
<1>3. /\ Finish(c) /\ mem' \in [Procs -> 0 .. minted] /\ NoCacheGrows
      /\ verdict' \in [Procs -> [key : 0 .. minted, sticky : BOOLEAN]]
      /\ \A p \in Procs : verdict'[p].sticky => verdict'[p].key \in dead
  <2>1. CASE Finish(c) /\ UNCHANGED <<mem, verdict>>
    BY <1>1, <2>1, CacheSame
  <2>2. CASE Record(c, FALSE)
    BY <2>2, RecordFacts
  <2> QED BY <1>2, <2>1, <2>2
<1> QED BY <1>1, <1>2, <1>3, ReturnStep

LEMMA DeniedInv ==
  ASSUME IInv, UNCHANGED home, NEW c \in Callers, Denied(c)
  PROVE  IInv'
<1>1. /\ Types /\ minted \in Nat /\ call[c] \in CallType(minted) /\ CallerInv(c)
      /\ call[c].pc = "denied" /\ call[c].tried \in dead /\ excused
      /\ disk \in 0 .. minted /\ excused' = excused /\ call[c].posts < MaxPosts
      /\ file \in {"absent", "fresh", "old"}
      /\ todo \in [Procs -> SUBSET (1 .. minted)]
  BY CallFields DEF Denied, At, CallerInv, Types
<1>2. UNCHANGED <<disk, file, idp, expired, todo, excused>>
  BY DEF Denied
<1>3. CASE Record(c, TRUE)
  <2>1. /\ Finish(c) /\ mem' \in [Procs -> 0 .. minted]
        /\ verdict' \in [Procs -> [key : 0 .. minted, sticky : BOOLEAN]]
        /\ \A p \in Procs : verdict'[p].sticky => verdict'[p].key \in dead
    BY <1>1, <1>3, RecordFacts
  <2> QED BY <1>1, <1>2, <2>1, ReturnStep
<1>4. CASE ~Record(c, TRUE)
  <2>1. /\ UNCHANGED <<mem, verdict, chain>>
        /\ \/ disk # 0 /\ call' = [call EXCEPT ![c].pc = "adopted", ![c].got = disk]
           \/ /\ disk \in expired
              /\ call' = [call EXCEPT ![c].pc = "wire", ![c].tried = disk, ![c].got = 0,
                                      ![c].posts = 0, ![c].again = TRUE]
    BY <1>4 DEF Denied
  <2>2. QuietTypes
    BY <1>1, <1>2, <2>1, QuietSame
  <2>3. disk \in expired => disk # 0
    BY <1>1 DEF Types
  <2>4. /\ call' \in [Callers -> CallType(minted)]
        /\ \A d \in Callers \ {c} : call'[d] = call[d]
        /\ call'[c].lock = call[c].lock
        /\ \/ /\ call'[c].pc = "adopted" /\ call'[c].got = disk /\ disk # 0
              /\ call'[c].posts = call[c].posts
           \/ /\ call'[c].pc = "wire" /\ call'[c].got = 0 /\ call'[c].tried = disk
              /\ disk # 0 /\ call'[c].posts = 0
    <3>1. CASE disk # 0 /\ call' = [call EXCEPT ![c].pc = "adopted", ![c].got = disk]
      BY <1>1, <3>1 DEF Types, CallType, Stages
    <3>2. CASE /\ disk \in expired
               /\ call' = [call EXCEPT ![c].pc = "wire", ![c].tried = disk, ![c].got = 0,
                                       ![c].posts = 0, ![c].again = TRUE]
      <4>1. 0 \in 0 .. minted /\ 0 \in 0 .. MaxPosts
        BY <1>1, Bounds
      <4> QED BY <1>1, <2>3, <3>2, <4>1 DEF Types, CallType, Stages
    <3> QED BY <2>1, <3>1, <3>2
  <2>5. ASSUME NEW d \in Callers PROVE CallerInv(d)'
    <3>1. CASE d = c
      BY <1>1, <2>4, <3>1, Bounds DEF CallerInv, Exchanging, Sent
    <3>2. CASE d # c
      BY <1>1, <1>2, <2>4, <3>2 DEF IInv, CallerInv, PastLastCheck, idp
    <3> QED BY <3>1, <3>2
  <2>6. Types'
    BY <1>1, <1>2, <2>1, <2>4 DEF Types, idp
  <2>7. OneHolder'
    BY <2>4 DEF IInv, OneHolder
  <2>8. SharedInv' /\ NewestKept'
    BY <1>1, <1>2, <2>1 DEF IInv, SharedInv, NewestKept, idp
  <2> QED BY <2>5, <2>6, <2>7, <2>8 DEF IInv
<1> QED BY <1>3, <1>4

LEMMA PersistInv ==
  ASSUME IInv, UNCHANGED home, NEW c \in Callers, Persist(c)
  PROVE  IInv'
<1> DEFINE k == call[c].got
<1>1. /\ Types /\ minted \in Nat /\ call[c] \in CallType(minted) /\ CallerInv(c)
      /\ call[c].pc \in {"granted", "adopted"} /\ home[c] \in Procs
  BY CallFields DEF Persist
<1>2. k \in 0 .. minted /\ k # 0
  BY <1>1 DEF CallerInv, CallType
<1>3. k \in 1 .. minted
  BY <1>1, <1>2
<1>4. /\ UNCHANGED <<file, idp, expired, verdict>> /\ Finish(c)
      /\ mem' = [mem EXCEPT ![home[c]] = k]
      /\ todo' = [todo EXCEPT ![home[c]] = @ \cup {k}]
      /\ \/ disk' = k /\ UNCHANGED excused
         \/ excused' = TRUE /\ UNCHANGED disk
  BY DEF Persist, Excuse
<1> HIDE DEF k
<1>5. /\ mem' \in [Procs -> 0 .. minted] /\ todo' \in [Procs -> SUBSET (1 .. minted)]
      /\ disk' \in 0 .. minted /\ excused' \in BOOLEAN
  BY <1>1, <1>2, <1>3, <1>4 DEF Types
<1>6. CASE excused'
  <2>1. /\ verdict' \in [Procs -> [key : 0 .. minted, sticky : BOOLEAN]]
        /\ file' \in {"absent", "fresh", "old"}
        /\ \A p \in Procs : verdict'[p].sticky => verdict'[p].key \in dead
    BY <1>1, <1>4 DEF Types, IInv, SharedInv
  <2> QED BY <1>4, <1>5, <1>6, <2>1, ReturnStep
<1>7. CASE ~excused'
  <2>1. ~excused /\ disk' = k
    BY <1>4, <1>7
  <2>2. /\ call'[c] = Idle /\ \A d \in Callers \ {c} : call'[d] = call[d]
        /\ call' \in [Callers -> CallType(minted)]
        /\ chain' \in [Procs -> Callers \cup {NoCaller}]
        /\ \A p \in Procs : chain'[p] # NoCaller => home[chain'[p]] = p
    BY <1>1, <1>4, FinishFacts
  <2>3. ASSUME NEW d \in Callers \ {c}
        PROVE  /\ call[d].lock # "live" /\ ~PastLastCheck(d)
               /\ call[d].pc \notin Exchanging /\ call[d].got = 0
    BY <1>1, <2>1, Alone, Exchange DEF Exchanging
  <2>4. k = minted
    <3>1. CASE call[c].pc = "granted"
      BY <1>1, <1>2, <2>1, <3>1 DEF CallerInv, k
    <3>2. CASE call[c].pc = "adopted"
      <4>1. minted # 0 /\ k = disk
        BY <1>1, <2>1, <3>2 DEF CallerInv, Types, k
      <4>2. disk = minted \/ \E d \in Callers : call[d].got = minted
        BY <1>2, <2>1, <4>1 DEF IInv, NewestKept
      <4> QED BY <2>3, <4>1, <4>2 DEF k
    <3> QED BY <1>1, <3>1, <3>2
  <2>5. Types'
    BY <1>1, <1>4, <1>5, <2>2 DEF Types, idp
  <2>6. OneHolder'
    BY <2>2, IdleType DEF IInv, OneHolder, Idle
  <2>7. SharedInv' /\ NewestKept'
    BY <1>2, <1>4, <2>1, <2>4 DEF IInv, SharedInv, NewestKept, idp
  <2>8. ASSUME NEW d \in Callers PROVE CallerInv(d)'
    <3>1. CASE d = c
      BY <2>2, <3>1, IdleInv
    <3>2. CASE d # c
      BY <1>4, <2>2, <2>3, <3>2
      DEF IInv, CallerInv, PastLastCheck, Exchanging, Sent, idp
    <3> QED BY <3>1, <3>2
  <2> QED BY <2>5, <2>6, <2>7, <2>8 DEF IInv
<1> QED BY <1>6, <1>7

(* Short of an excuse, the token that an exchange first presents            *)
(* is the newest grant and has not been spent.                              *)
LEMMA FirstUse ==
  ASSUME IInv, ~excused, NEW c \in Callers, call[c].pc = "wire", call[c].got = 0
  PROVE  call[c].tried = minted /\ call[c].tried \notin spent
<1>1. CallerInv(c) /\ minted \in 1 .. MaxMint
  BY DEF IInv, Types
<1>2. call[c].tried = minted
  BY <1>1 DEF CallerInv, Sent
<1> QED BY <1>1, <1>2, Bounds DEF IInv, SharedInv

LEMMA RedeemInv ==
  ASSUME IInv, UNCHANGED home, NEW c \in Callers, Redeem(c)
  PROVE  IInv'
<1> DEFINE k == call[c].tried
<1>1. /\ Types /\ minted \in Nat /\ call[c] \in CallType(minted) /\ CallerInv(c)
      /\ call[c].pc = "wire" /\ home[c] \in Procs
  BY CallFields DEF Redeem, At
<1>2. k \in 0 .. minted /\ k # 0 /\ call[c].posts < MaxPosts
  BY <1>1 DEF CallerInv, CallType, Sent
<1>3. UNCHANGED <<disk, file, expired, mem, verdict, todo, chain, excused>>
  BY DEF Redeem, manager
<1>4. ASSUME NEW s \in {"granted", "denied"}, call' = [call EXCEPT ![c].pc = s]
      PROVE  /\ call' \in [Callers -> CallType(minted)]
             /\ \A d \in Callers \ {c} : call'[d] = call[d]
             /\ call'[c].lock = call[c].lock /\ call'[c].posts = call[c].posts
             /\ call'[c].pc = s /\ call'[c].got = call[c].got /\ call'[c].tried = k
  BY <1>1, <1>4 DEF Types, CallType, Stages
<1>5. CASE k \in dead
  <2>1. call' = [call EXCEPT ![c].pc = "denied"] /\ UNCHANGED idp
    BY <1>5 DEF Redeem, Goto
  <2>2. excused
    BY <1>5 DEF IInv, SharedInv
  <2>3. CallerInv(c)'
    BY <1>1, <1>2, <1>3, <1>4, <1>5, <2>1, <2>2
    DEF CallerInv, Exchanging, Sent, idp
  <2>4. QuietCall(c) /\ QuietTypes
    BY <1>1, <1>3, <1>4, <2>1, QuietSame, CacheSame DEF QuietCall
  <2> QED BY <2>3, <2>4, QuietFrame
<1>6. CASE k \notin dead /\ call[c].got # 0
  <2>1. call' = [call EXCEPT ![c].pc = "granted"] /\ UNCHANGED idp
    BY <1>6 DEF Redeem, Goto
  <2>3. CallerInv(c)'
    BY <1>1, <1>2, <1>3, <1>4, <1>6, <2>1
    DEF CallerInv, PastLastCheck, Exchanging, Sent, idp
  <2>4. QuietCall(c) /\ QuietTypes
    BY <1>1, <1>3, <1>4, <2>1, QuietSame, CacheSame DEF QuietCall
  <2> QED BY <2>3, <2>4, QuietFrame
<1>7. CASE k \notin dead /\ call[c].got = 0 /\ k \in spent
  <2>1. /\ call' = [call EXCEPT ![c].pc = "denied"] /\ reused' = TRUE
        /\ dead' = 1 .. minted /\ UNCHANGED <<minted, spent>>
    BY <1>7 DEF Redeem, Goto
  <2>2. excused
    BY <1>1, <1>7, FirstUse
  <2>3. k \in dead'
    BY <1>1, <1>2, <2>1
  <2>4. dead \subseteq dead'
    BY <1>1, <2>1 DEF Types
  <2>5. Types'
    BY <1>1, <1>3, <1>4, <2>1 DEF Types
  <2>6. OneHolder'
    BY <1>4, <2>1 DEF IInv, OneHolder
  <2>7. SharedInv' /\ NewestKept'
    BY <1>3, <2>1, <2>2, <2>4 DEF IInv, SharedInv, NewestKept
  <2>8. ASSUME NEW d \in Callers PROVE CallerInv(d)'
    <3>1. CASE d = c
      BY <1>1, <1>2, <1>3, <1>4, <1>7, <2>1, <2>2, <2>3, <3>1
      DEF CallerInv, Exchanging, Sent
    <3>2. CASE d # c
      BY <1>3, <1>4, <2>1, <2>2, <2>4, <3>2 DEF IInv, CallerInv
    <3> QED BY <3>1, <3>2
  <2> QED BY <2>5, <2>6, <2>7, <2>8 DEF IInv
<1>8. CASE k \notin dead /\ call[c].got = 0 /\ k \notin spent
  <2>1. /\ minted < MaxMint /\ minted' = minted + 1 /\ spent' = spent \cup {k}
        /\ call' = [call EXCEPT ![c].pc = "granted", ![c].got = minted + 1]
        /\ UNCHANGED <<dead, reused>>
    BY <1>8 DEF Redeem
  <2>2. /\ 0 .. minted \subseteq 0 .. minted' /\ 1 .. minted \subseteq 1 .. minted'
        /\ minted' \in 1 .. MaxMint /\ minted' \in 0 .. minted' /\ minted' # 0
        /\ k \in 1 .. minted' /\ k < minted'
    BY <1>1, <1>2, <2>1, Bounds
  <2>3. call' \in [Callers -> CallType(minted')]
    BY <1>1, <2>1, <2>2 DEF Types, CallType, Stages
  <2>4. /\ \A d \in Callers \ {c} : call'[d] = call[d]
        /\ call'[c].lock = call[c].lock /\ call'[c].posts = call[c].posts
        /\ call'[c].pc = "granted" /\ call'[c].got = minted' /\ call'[c].tried = k
    BY <1>1, <2>1 DEF Types, CallType
  <2>5. Types'
    <3>1. /\ home' \in [Callers -> Procs] /\ minted' \in 1 .. MaxMint
          /\ disk' \in 0 .. minted' /\ file' \in {"absent", "fresh", "old"}
          /\ spent' \subseteq 1 .. minted' /\ dead' \subseteq 1 .. minted'
          /\ expired' \subseteq 1 .. minted' /\ reused' \in BOOLEAN /\ excused' \in BOOLEAN
      BY <1>1, <1>3, <2>1, <2>2 DEF Types
    <3>2. mem' \in [Procs -> 0 .. minted'] /\ todo' \in [Procs -> SUBSET (1 .. minted')]
      BY <1>1, <1>3, <2>2 DEF Types
    <3>3. verdict' \in [Procs -> [key : 0 .. minted', sticky : BOOLEAN]]
      BY <1>1, <1>3, <2>2 DEF Types
    <3> QED BY <1>1, <1>3, <2>3, <3>1, <3>2, <3>3 DEF Types
  <2>6. OneHolder'
    BY <2>4 DEF IInv, OneHolder
  <2>7. \A j \in spent' : j < minted'
    BY <1>1, <2>1, <2>2 DEF IInv, SharedInv, Types
  <2>8. SharedInv' /\ NewestKept'
    BY <1>3, <2>1, <2>4, <2>7 DEF IInv, SharedInv, NewestKept
  <2>9. ASSUME NEW d \in Callers PROVE CallerInv(d)'
    <3>1. CASE d = c
      BY <1>1, <1>2, <1>3, <2>1, <2>2, <2>4, <3>1
      DEF CallerInv, PastLastCheck, Exchanging, Sent
    <3>2. CASE d # c
      <4>1. CallerInv(d) /\ call'[d] = call[d]
        BY <2>4, <3>2 DEF IInv
      <4>2. ~excused => call[d].got = 0 /\ call[d].pc \notin Sent
        BY <1>1, <3>2, Alone, Exchange DEF Exchanging, Sent
      <4>3. excused' = excused /\ disk' = disk /\ dead' = dead /\ PastLastCheck(d)' = PastLastCheck(d)
        BY <1>3, <2>1, <4>1 DEF PastLastCheck
      <4> QED BY <4>1, <4>2, <4>3 DEF CallerInv
    <3> QED BY <3>1, <3>2
  <2> QED BY <2>5, <2>6, <2>8, <2>9 DEF IInv
<1> QED BY <1>5, <1>6, <1>7, <1>8

-----------------------------------------------------------------------------
(* Breaking the lock, and the steps around the calls                       *)

LEMMA UnlinkInv ==
  ASSUME IInv, UNCHANGED home, NEW c \in Callers, Unlink(c)
  PROVE  IInv'
<1> DEFINE u == file # "absent"
<1>1. /\ Types /\ CallerInv(c) /\ call[c].pc = "unlink" /\ call[c].got = 0
      /\ call[c].posts < MaxPosts
  BY CallFields DEF Unlink, At, Exchanging, CallerInv
<1>2. UNCHANGED <<disk, idp, expired, mem, verdict, todo, chain>> /\ file' = "absent"
  BY DEF Unlink, manager
<1>3. EarlyRec(c, Missed(call[c], u))
  BY <1>1, MissedRec DEF NoGrant
<1>4. Missed(call[c], u).lock = "no" /\ Missed(call[c], u).pc \in {"block", "try", "nolock"}
  BY <1>1 DEF Missed, IInv, Types, CallType
<1>5. call'[c] = Missed(call[c], u)
  BY DEF Unlink
<1>6. ASSUME NEW d \in Callers \ {c}
      PROVE  call'[d] = IF call[d].lock = "live" THEN [call[d] EXCEPT !.lock = "dead"]
                                                 ELSE call[d]
  BY DEF Unlink
<1>7. ASSUME NEW d \in Callers \ {c}
      PROVE  /\ call'[d] \in CallType(minted) /\ call'[d].lock # "live"
             /\ call'[d].pc = call[d].pc /\ call'[d].goal = call[d].goal
             /\ call'[d].got = call[d].got /\ call'[d].tried = call[d].tried
             /\ call'[d].posts = call[d].posts
  <2>1. call[d] \in CallType(minted)
    BY <1>1 DEF Types
  <2> QED BY <1>6, <2>1 DEF CallType
<1>8. call' \in [Callers -> CallType(minted)]
  <2>1. call' = [d \in Callers |-> call'[d]]
    BY DEF Unlink
  <2> QED BY <2>1, <1>3, <1>5, <1>7 DEF EarlyRec
<1>9. /\ excused' \in BOOLEAN
      /\ ~excused' => ~excused /\ \A h \in Callers : call[h].lock = "live" => ~PastLastCheck(h)
  BY <1>1 DEF Unlink, Types, Excuse, LockBroken
<1>10. Types'
  BY <1>1, <1>2, <1>8, <1>9 DEF Types, idp
<1>11. OneHolder'
  BY <1>4, <1>5, <1>7 DEF OneHolder
<1>12. SharedInv'
  BY <1>2, <1>9 DEF IInv, SharedInv, idp
<1>13. NewestKept'
  <2>1. \A d \in Callers : call'[d].got = call[d].got
    BY <1>1, <1>3, <1>5, <1>7 DEF EarlyRec
  <2> QED BY <1>2, <1>9, <2>1 DEF IInv, NewestKept, idp
<1>14. ASSUME NEW d \in Callers PROVE CallerInv(d)'
  <2>1. CASE d = c
    <3>1. call'[c].posts < MaxPosts /\ call'[c].got = 0
      BY <1>1, <1>3, <1>5, Bounds DEF EarlyRec
    <3>2. call'[c].pc \in {"block", "try", "nolock"}
      BY <1>4, <1>5
    <3> QED BY <2>1, <3>1, <3>2 DEF CallerInv, PastLastCheck, Exchanging, Sent
  <2>2. CASE d # c
    <3>1. CallerInv(d) /\ PastLastCheck(d)' = PastLastCheck(d)
      BY <1>7, <2>2 DEF IInv, PastLastCheck
    <3>2. ~excused' => ~PastLastCheck(d)
      BY <1>9, <3>1 DEF CallerInv
    <3> QED BY <1>2, <1>7, <1>9, <2>2, <3>1, <3>2 DEF CallerInv, idp
  <2> QED BY <2>1, <2>2
<1> QED BY <1>10, <1>11, <1>12, <1>13, <1>14 DEF IInv

LEMMA AmbientInv ==
  ASSUME IInv, UNCHANGED home,
         \/ InfoAges
         \/ \E p \in Procs : VerdictLapses(p)
         \/ \E k \in Creds : Expire(k)
  PROVE  IInv'
<1>1. Types /\ minted \in 1 .. MaxMint
  BY DEF IInv, Types
<1> DEFINE Quiet ==
             /\ UNCHANGED <<disk, idp, mem, todo, chain, call, excused>>
             /\ file' \in {"absent", "fresh", "old"} /\ expired' \subseteq 1 .. minted
             /\ verdict' \in [Procs -> [key : 0 .. minted, sticky : BOOLEAN]]
             /\ \A p \in Procs : verdict'[p].sticky => verdict[p].sticky /\ verdict'[p] = verdict[p]
<1>2. Quiet
  <2>1. CASE InfoAges
    BY <1>1, <2>1 DEF InfoAges, Types, manager
  <2>2. ASSUME NEW p \in Procs, VerdictLapses(p) PROVE Quiet
    <3>1. NoVerdict \in [key : 0 .. minted, sticky : BOOLEAN] /\ ~NoVerdict.sticky
      BY <1>1, Bounds DEF NoVerdict
    <3>2. verdict' = [verdict EXCEPT ![p] = NoVerdict]
      BY <2>2 DEF VerdictLapses
    <3> HIDE DEF NoVerdict
    <3>3. /\ verdict' \in [Procs -> [key : 0 .. minted, sticky : BOOLEAN]]
          /\ \A q \in Procs : verdict'[q] = verdict[q] \/ verdict'[q] = NoVerdict
      BY <1>1, <3>1, <3>2 DEF Types
    <3> QED BY <1>1, <2>2, <3>1, <3>3 DEF VerdictLapses, Types
  <2>3. ASSUME NEW k \in Creds, Expire(k) PROVE Quiet
    BY <1>1, <2>3 DEF Expire, Types, manager
  <2> QED BY <2>1, <2>2, <2>3
<1>3. Types'
  BY <1>1, <1>2 DEF Types, idp
<1>4. OneHolder' /\ NewestKept'
  BY <1>2 DEF IInv, OneHolder, NewestKept, idp
<1>5. SharedInv'
  BY <1>2 DEF IInv, SharedInv, idp
<1>6. ASSUME NEW d \in Callers PROVE CallerInv(d)'
  BY <1>2 DEF IInv, CallerInv, PastLastCheck, idp
<1> QED BY <1>3, <1>4, <1>5, <1>6 DEF IInv

LEMMA LogoutInv ==
  ASSUME IInv, UNCHANGED home, NEW p \in Procs, Logout(p)
  PROVE  IInv'
<1>1. Types /\ minted \in 1 .. MaxMint /\ 0 \in 0 .. minted /\ ~excused
  BY Bounds DEF IInv, Types, Logout, MayFail
<1>2. /\ UNCHANGED <<idp, expired, verdict, todo, chain, call>>
      /\ mem' = [mem EXCEPT ![p] = 0] /\ disk' = IF Free THEN 0 ELSE disk
      /\ excused' = (excused \/ OrphanedCache(p))
  BY DEF Logout, Excuse
<1>3. mem' \in [Procs -> 0 .. minted] /\ disk' \in 0 .. minted /\ excused' \in BOOLEAN
  <2>1. (excused \/ OrphanedCache(p)) \in BOOLEAN
    OBVIOUS
  <2> QED BY <1>1, <1>2, <2>1 DEF Types
<1>4. file' \in {"absent", "fresh", "old"}
  BY <1>1, OpenedType DEF Logout
<1>5. Types'
  BY <1>1, <1>2, <1>3, <1>4 DEF Types, idp
<1>6. OneHolder' /\ SharedInv'
  BY <1>1, <1>2 DEF IInv, OneHolder, SharedInv, idp
<1>7. ASSUME Free, NEW d \in Callers
      PROVE  call[d].got = 0 /\ call[d].pc \notin Exchanging
  BY <1>1, <1>7, Exchange DEF Free, IInv, CallerInv
<1>8. NewestKept'
  <2>1. CASE ~Free
    BY <1>1, <1>2, <2>1 DEF IInv, NewestKept, idp, Types
  <2>2. CASE Free
    <3>1. disk = minted \/ (disk = 0 /\ \A q \in Procs : mem[q] \in {0, minted})
      BY <1>1, <1>7, <2>2 DEF IInv, NewestKept
    <3>2. ~excused' => disk = 0 \/ \A q \in Procs \ {p} : mem[q] \in {0, disk}
      BY <1>2, <2>2 DEF OrphanedCache
    <3>3. ~excused' => \A q \in Procs : mem'[q] \in {0, minted}
      BY <1>1, <1>2, <3>1, <3>2 DEF Types
    <3> QED BY <1>2, <2>2, <3>3 DEF NewestKept, idp
  <2> QED BY <2>1, <2>2
<1>9. ASSUME NEW d \in Callers PROVE CallerInv(d)'
  <2>1. CASE ~Free
    BY <1>1, <1>2, <2>1 DEF IInv, CallerInv, PastLastCheck, idp
  <2>2. CASE Free
    <3>1. call[d].lock # "live" /\ CallerInv(d)
      BY <2>2 DEF Free, IInv
    <3> QED BY <1>1, <1>2, <1>7, <2>2, <3>1 DEF CallerInv, PastLastCheck, Exchanging, idp
  <2> QED BY <2>1, <2>2
<1> QED BY <1>5, <1>6, <1>8, <1>9 DEF IInv

LEMMA CrashInv ==
  ASSUME IInv, UNCHANGED home, NEW p \in Procs, Crash(p)
  PROVE  IInv'
<1>1. Types /\ minted \in 1 .. MaxMint /\ minted \in Nat /\ 0 \in 0 .. minted /\ ~excused
  BY Bounds DEF IInv, Types, Crash, MayFail
<1>2. /\ UNCHANGED <<disk, file, idp, expired>> /\ excused' \in BOOLEAN
      /\ mem' = [mem EXCEPT ![p] = disk] /\ todo' = [todo EXCEPT ![p] = {}]
      /\ verdict' = [verdict EXCEPT ![p] = NoVerdict]
      /\ chain' = [chain EXCEPT ![p] = NoCaller]
      /\ ~excused' => \A c \in Callers : home[c] = p => call[c].got \in {0, disk}
  BY <1>1 DEF Crash, Excuse
<1>3. ASSUME NEW c \in Callers
      PROVE  call'[c] = IF home[c] = p THEN Idle ELSE call[c]
  BY DEF Crash
<1>4. call' \in [Callers -> CallType(minted)]
  <2>1. Idle \in CallType(minted) /\ call \in [Callers -> CallType(minted)]
    BY <1>1, IdleType DEF Types
  <2> QED BY <2>1 DEF Crash
<1>5. NoVerdict \in [key : 0 .. minted, sticky : BOOLEAN] /\ ~NoVerdict.sticky
  BY <1>1 DEF NoVerdict
<1>6. /\ verdict' \in [Procs -> [key : 0 .. minted, sticky : BOOLEAN]]
      /\ \A q \in Procs : verdict'[q] = verdict[q] \/ verdict'[q] = NoVerdict
  BY <1>1, <1>2, <1>5 DEF Types
<1>7. Types'
  <2>1. /\ mem' \in [Procs -> 0 .. minted] /\ todo' \in [Procs -> SUBSET (1 .. minted)]
    BY <1>1, <1>2 DEF Types
  <2>2. /\ chain' \in [Procs -> Callers \cup {NoCaller}]
        /\ \A q \in Procs : chain'[q] # NoCaller => home'[chain'[q]] = q
    BY <1>1, <1>2 DEF Types
  <2> QED BY <1>1, <1>2, <1>4, <1>6, <2>1, <2>2 DEF Types, idp
<1>8. OneHolder'
  BY <1>3, IdleType DEF IInv, OneHolder
<1>9. SharedInv'
  BY <1>1, <1>2, <1>5, <1>6 DEF IInv, SharedInv, idp
<1>10. NewestKept'
  BY <1>1, <1>2, <1>3, Bounds DEF IInv, NewestKept, idp, Types
<1>11. ASSUME NEW d \in Callers PROVE CallerInv(d)'
  <2>1. CASE home[d] = p
    BY <1>3, <2>1, IdleInv
  <2>2. CASE home[d] # p
    BY <1>1, <1>2, <1>3, <2>2 DEF IInv, CallerInv, PastLastCheck, idp
  <2> QED BY <2>1, <2>2
<1> QED BY <1>7, <1>8, <1>9, <1>10, <1>11 DEF IInv

-----------------------------------------------------------------------------
(* The invariant                                                           *)

LEMMA InvInit == Init => IInv
<1> SUFFICES ASSUME Init PROVE IInv
  OBVIOUS
<1>1. /\ minted = 1 /\ 1 \in 1 .. MaxMint /\ 0 \in 0 .. 1 /\ 1 \in 0 .. 1 /\ 1 \in 1 .. 1
  BY Bounds DEF Init
<1>2. \A c \in Callers : call[c] = Idle
  BY DEF Init
<1>3. Types
  <2>1. call \in [Callers -> CallType(minted)]
    BY <1>1, IdleType DEF Init
  <2>2. verdict \in [Procs -> [key : 0 .. minted, sticky : BOOLEAN]]
    BY <1>1 DEF Init, NoVerdict
  <2>3. todo \in [Procs -> SUBSET (1 .. minted)]
    BY <1>1 DEF Init
  <2> QED BY <1>1, <2>1, <2>2, <2>3 DEF Init, Types
<1>4. OneHolder
  BY <1>2, IdleType DEF OneHolder
<1>5. SharedInv /\ NewestKept
  BY <1>1 DEF Init, SharedInv, NewestKept, NoVerdict
<1>6. \A c \in Callers : CallerInv(c)
  BY <1>2, IdleType, Bounds DEF CallerInv, PastLastCheck, Exchanging, Sent, Idle
<1> QED BY <1>3, <1>4, <1>5, <1>6 DEF IInv

LEMMA InvNext == IInv /\ [Next]_vars => IInv'
<1> SUFFICES ASSUME IInv, [Next]_vars PROVE IInv'
  OBVIOUS
<1>1. CASE Next
  <2>1. UNCHANGED home
    BY <1>1 DEF Next
  <2>2. ASSUME NEW c \in Callers, BeginAuth(c) \/ BeginRecovery(c) \/ BeginEnrichment(c)
        PROVE  IInv'
    BY <2>1, <2>2, BeginInv, BeginEnrichmentInv
  <2>3. ASSUME NEW c \in Callers, LockStep(c) PROVE IInv'
    BY <2>1, <2>3, TryLockInv, LockFailsInv, WriteInfoInv, UnlinkInv, FlockInv, BlockTimeoutInv,
       NoLockInv DEF LockStep
  <2>4. ASSUME NEW c \in Callers, ChainStep(c) PROVE IInv'
    BY <2>1, <2>4, Step0Inv, EnterChainInv, LockedInv, ReloadInv, EnrichReadInv,
       EnrichWriteInv, DeferInv, RevalidateInv, RefreshInv, RedeemInv, PostInv,
       FailedInv, DeniedInv, PersistInv DEF ChainStep
  <2>5. ASSUME NEW p \in Procs, VerdictLapses(p) \/ Logout(p) \/ Crash(p) PROVE IInv'
    BY <2>1, <2>5, AmbientInv, LogoutInv, CrashInv
  <2>6. CASE InfoAges \/ \E k \in Creds : Expire(k)
    BY <2>1, <2>6, AmbientInv
  <2> QED BY <1>1, <2>2, <2>3, <2>4, <2>5, <2>6 DEF Next
<1>2. CASE UNCHANGED vars
  <2>1. Types'
    BY <1>2 DEF IInv, Types, vars
  <2>2. OneHolder' /\ SharedInv' /\ NewestKept'
    BY <1>2 DEF IInv, OneHolder, SharedInv, NewestKept, vars
  <2>3. ASSUME NEW c \in Callers PROVE CallerInv(c)'
    BY <1>2 DEF IInv, CallerInv, PastLastCheck, vars
  <2> QED BY <2>1, <2>2, <2>3 DEF IInv
<1> QED BY <1>1, <1>2

(* The inductive invariant: one live holder of auth.json.lock, and, until   *)
(* one of the four excuses is met, the holder past its last check presents  *)
(* the newest grant and carries what it got for it.                         *)
THEOREM RefreshInvariant == Spec => []IInv
BY InvInit, InvNext, PTL DEF Spec

-----------------------------------------------------------------------------
(* What follows                                                            *)

(* Every variable keeps its type: no step stores a credential that was never *)
(* granted, posts more often than refresh_retry_policy allows, or leaves     *)
(* refresh_lock with a task of another process.                              *)
THEOREM TypeCorrect == Spec => []TypeOK
<1>1. IInv => TypeOK
  <2> SUFFICES ASSUME Types PROVE TypeOK
    BY DEF IInv
  <2>1. disk \in Creds
    BY Bounds DEF Types, Creds
  <2>2. call \in [Callers -> [pc : Stages, why : Reasons, goal : Goals, pre : 0..minted,
                              phase : 1..4, lock : {"no", "live", "dead"},
                              tried : 0..minted, got : 0..minted, posts : 0..MaxPosts,
                              again : BOOLEAN]]
    BY DEF Types, CallType
  <2> QED BY <2>1, <2>2 DEF Types, TypeOK
<1> QED BY <1>1, RefreshInvariant, PTL

(* A refresh token is spent by two exchanges only after the lock was broken   *)
(* under a call past its last check, a grant was lost before auth.json held   *)
(* it, an enrichment without the lock wrote over a newer entry, or a logout   *)
(* removed the newest entry while another process cached an older one.        *)
THEOREM NoTokenSpentTwice == Spec => []SpentOnce
<1>1. IInv => SpentOnce
  BY DEF IInv, SharedInv, SpentOnce
<1> QED BY <1>1, RefreshInvariant, PTL

(* Short of those four, the newest grant is in auth.json, or with the call    *)
(* that is about to write it, or a logout has removed it and no process       *)
(* caches any other credential.                                               *)
THEOREM NewestGrantKept == Spec => []NewestKept
<1>1. IInv => NewestKept
  BY DEF IInv
<1> QED BY <1>1, RefreshInvariant, PTL

(* A sticky permanent_failure verdict blocks only a token that the identity   *)
(* provider has revoked, whatever faults happened.                            *)
THEOREM StickyVerdictsTrue == Spec => []VerdictTrue
<1>1. IInv => VerdictTrue
  BY DEF IInv, SharedInv, VerdictTrue, Blocked
<1> QED BY <1>1, RefreshInvariant, PTL

=============================================================================
