---------------------------- MODULE AuthRefresh ----------------------------
(* Token refresh shared by several processes (ainxt-shell/src/auth).  Every   *)
(* process has an AuthManager with a cached credential; all of them share     *)
(* auth.json and refresh it under auth.json.lock.  The identity provider      *)
(* rotates the refresh token on every grant and revokes the whole family when *)
(* a spent one is presented again, so the protocol must never let two         *)
(* exchanges spend the same refresh token.                                    *)
(*                                                                            *)
(* A credential is the number of its grant: key and refresh token change      *)
(* together.  0 is "no credential".                                           *)
EXTENDS Integers, FiniteSets, FiniteSetsExt

CONSTANTS
  Callers,    \* tasks that ask for a token
  Procs,      \* processes
  MaxMint,    \* bound: grants of the identity provider
  MaxPosts,   \* POSTs of one exchange (1 + the retries of refresh_retry_policy)
  Freezes,    \* stages at which a lock holder may be delayed past the stale bound
  Faults      \* subset of {"lost", "nowrite", "noflock", "crash", "logout"}

ASSUME AuthAssumption ==
  /\ IsFiniteSet(Callers)
  /\ {MaxMint, MaxPosts} \subseteq Nat \ {0}

VARIABLES
  home,       \* the process of each caller, fixed from the start
  disk,       \* the credential in auth.json
  file,       \* auth.json.lock: absent, or the age of the PID:TIMESTAMP in it (or of the file)
  minted,     \* IdP: number of grants
  spent,      \* IdP: refresh tokens redeemed
  dead,       \* IdP: refresh tokens of a revoked family
  expired,    \* credentials whose access token is past its early invalidation
  mem,        \* per process: AuthManager.inner
  verdict,    \* per process: permanent_failure
  chain,      \* per process: the caller in refresh_lock, or NoCaller
  todo,       \* per process: enrichments spawned by update()
  call,       \* per caller: where its call stands
  reused,     \* history: the IdP has seen a refresh token spent twice
  excused     \* history: one of the four excuses below has been met

vars == <<home, disk, file, minted, spent, dead, expired, mem, verdict,
          chain, todo, call, reused, excused>>
idp == <<minted, spent, dead, reused>>
manager == <<mem, verdict, todo>>

NoCaller == "none"
NoVerdict == [key |-> 0, sticky |-> FALSE]
Creds == 0..MaxMint

Idle == [pc |-> "idle", why |-> "pre", goal |-> "refresh", pre |-> 0, phase |-> 1,
         lock |-> "no", tried |-> 0, got |-> 0, posts |-> 0, again |-> FALSE]

Reasons == {"pre", "rejected"}
Goals == {"refresh", "relock", "reload", "enrich"}
Stages == {"idle", "step0", "chain", "try", "info", "unlink", "block",
           "nolock", "locked", "live", "claim", "wire", "granted", "denied",
           "client", "failed", "adopted", "enrichWrite"}

\* The holder has made its last check of the lock: still_live before the exchange, or
\* inodes_match after a re-acquire, which is not validated again.
PastLastCheck(h) ==
  \/ call[h].pc \in {"claim", "wire", "granted", "denied", "client", "failed", "adopted"}
  \/ call[h].pc = "locked" /\ call[h].goal = "relock"

TypeOK ==
  /\ home \in [Callers -> Procs]
  /\ disk \in Creds
  /\ file \in {"absent", "fresh", "old"}
  /\ minted \in 1..MaxMint
  /\ spent \subseteq 1..minted
  /\ dead \subseteq 1..minted
  /\ expired \subseteq 1..minted
  /\ mem \in [Procs -> 0..minted]
  /\ verdict \in [Procs -> [key : 0..minted, sticky : BOOLEAN]]
  /\ \A p \in Procs : chain[p] \in {c \in Callers : home[c] = p} \cup {NoCaller}
  /\ todo \in [Procs -> SUBSET (1..minted)]
  /\ call \in [Callers -> [pc : Stages, why : Reasons, goal : Goals, pre : 0..minted,
                           phase : 1..4, lock : {"no", "live", "dead"},
                           tried : 0..minted, got : 0..minted, posts : 0..MaxPosts,
                           again : BOOLEAN]]
  /\ reused \in BOOLEAN
  /\ excused \in BOOLEAN

Init ==
  /\ home \in [Callers -> Procs]
  /\ disk = 1
  /\ file = "absent"
  /\ minted = 1
  /\ spent = {}
  /\ dead = {}
  /\ expired = {}
  /\ mem = [p \in Procs |-> 1]
  /\ verdict = [p \in Procs |-> NoVerdict]
  /\ chain = [p \in Procs |-> NoCaller]
  /\ \E c \in Callers : todo = [p \in Procs |-> IF p = home[c] THEN {1} ELSE {}]
  /\ call = [c \in Callers |-> Idle]
  /\ reused = FALSE
  /\ excused = FALSE

-----------------------------------------------------------------------------
(* Reading the manager and the disk.                                         *)

\* current(): the cached credential unless expired.
Current(p) == IF mem[p] \in expired THEN 0 ELSE mem[p]

(* Mutant: the cached credential before the one on disk. *)
Resolve_CacheFirst(p, why) ==
  IF mem[p] \in expired \/ why = "rejected" THEN mem[p] ELSE disk

\* resolve_refresh_credential: disk first, then the expired bearer, then (on a 401) the
\* live one.
Resolve(p, why) ==
  IF disk # 0 THEN disk
  ELSE IF mem[p] \in expired \/ why = "rejected" THEN mem[p] ELSE 0

\* permanent_failure(): the verdict counts while it names the credential a refresh would
\* send.  A recoverable one is forgotten by VerdictLapses.
Blocked(p) == verdict[p] # NoVerdict /\ verdict[p].key = Resolve(p, "rejected")

\* try_use_disk_token: may the disk's credential be adopted?
Adoptable(p, why) ==
  /\ disk # 0
  /\ disk \notin expired
  /\ why = "rejected" => disk # mem[p]

\* sibling_has_different_refresh_token: compares with the in-memory bearer only when
\* that one has expired.
SiblingDiffers(p) ==
  /\ disk # 0
  /\ disk \notin expired
  /\ disk # IF mem[p] \in expired THEN mem[p] ELSE 0

-----------------------------------------------------------------------------
(* What the protocol does not withstand.  A grant is lost (every answer lost, *)
(* a crash, a failed write) by a fault; the lock is broken under a call by a   *)
(* delay; the other two the code does by itself.                               *)

Free == \A d \in Callers : call[d].lock # "live"

\* auth.json.lock is unlinked under a call past its last check of it.
LockBroken == \E h \in Callers : call[h].lock = "live" /\ PastLastCheck(h)

\* An enrichment that never got the lock, or lost it, rewrites an entry that has changed
\* since it read it.
StaleRewrite(c) == disk # call[c].tried /\ call[c].lock # "live"

\* A logout removes the newest entry while another process caches an older credential,
\* to which that process will fall back (Resolve).
OrphanedCache(p) == Free /\ disk # 0 /\ \E q \in Procs \ {p} : mem[q] \notin {0, disk}

Excuse(met) == excused' = (excused \/ met)

-----------------------------------------------------------------------------
(* Steps of one call.                                                        *)

\* Bound: faults strike until an excuse is met.
MayFail(f) == f \in Faults /\ ~excused

At(c, s) == call[c].pc = s
Goto(c, s) == call' = [call EXCEPT ![c].pc = s]

\* Return from the call: both guards are dropped.
Finish(c) ==
  /\ call' = [call EXCEPT ![c] = Idle]
  /\ chain' = [p \in Procs |-> IF chain[p] = c THEN NoCaller ELSE chain[p]]

Adopt(c) == mem' = [mem EXCEPT ![home[c]] = disk]

\* auth(): an expired credential is refreshed before a request.
BeginAuth(c) ==
  /\ At(c, "idle")
  /\ mem[home[c]] # 0
  /\ mem[home[c]] \in expired
  /\ Goto(c, "step0")
  /\ UNCHANGED <<disk, file, idp, expired, manager, chain, excused>>

\* UnauthorizedRecovery: a 401 first re-reads auth.json under the lock.
BeginRecovery(c) ==
  /\ At(c, "idle")
  /\ mem[home[c]] # 0
  /\ call' = [call EXCEPT ![c].pc = "try", ![c].why = "rejected", ![c].goal = "reload",
                          ![c].tried = mem[home[c]]]
  /\ UNCHANGED <<disk, file, idp, expired, manager, chain, excused>>

\* run_user_info_enrichment: after the /user answer, take the lock to rewrite the entry.
BeginEnrichment(c) ==
  \E k \in todo[home[c]] :
    /\ At(c, "idle")
    /\ todo' = [todo EXCEPT ![home[c]] = @ \ {k}]
    /\ call' = [call EXCEPT ![c].pc = "try", ![c].goal = "enrich", ![c].tried = k]
    /\ UNCHANGED <<disk, file, idp, expired, mem, verdict, chain, excused>>

\* refresh_chain step 0: a verdict ends the call unless a sibling's token can be adopted.
Step0(c) ==
  LET p == home[c] IN
  /\ At(c, "step0")
  /\ IF Blocked(p)
       THEN /\ IF Adoptable(p, call[c].why) THEN Adopt(c) ELSE UNCHANGED mem
            /\ Finish(c)
       ELSE /\ call' = [call EXCEPT ![c].pc = "chain", ![c].pre = Current(p)]
            /\ UNCHANGED <<mem, chain>>
  /\ UNCHANGED <<disk, file, idp, expired, verdict, todo, excused>>

\* Steps 1 and 1b, under refresh_lock: another task may have refreshed or failed.
EnterChain(c) ==
  LET p == home[c] IN
  /\ At(c, "chain")
  /\ chain[p] = NoCaller
  /\ IF \/ Current(p) # 0 /\ (call[c].why = "pre" \/ call[c].pre # Current(p))
        \/ Blocked(p)
       THEN Finish(c)
       ELSE /\ call' = [call EXCEPT ![c].pc = "try", ![c].goal = "refresh",
                                    ![c].pre = 0]
            /\ chain' = [chain EXCEPT ![p] = c]
  /\ UNCHANGED <<disk, file, idp, expired, manager, excused>>

-----------------------------------------------------------------------------
(* auth.json.lock (manager/lock.rs): flock on an inode, PID:TIMESTAMP in the  *)
(* file, and unlink to break a stale holder.  An inode matters only through   *)
(* whether the path still names it: a flock is "live" or, once the file was   *)
(* unlinked, "dead", and a dead one stops nobody.  Releasing closes the file; *)
(* what was written in it stays.  Opening is one step with the flock: a       *)
(* waiter on an unlinked inode opens the path again in any case.  A phase-2   *)
(* waiter that times out leaves a thread behind that takes and drops the      *)
(* flock by itself; it is left out.                                           *)

\* open(O_CREAT): an empty file has an age too, its mtime.
Opened == IF file = "absent" THEN "fresh" ELSE file

\* What follows an attempt that did not get the lock: phase 1 and 2 go on to (another)
\* blocking wait, phase 3 tries once more only after it unlinked a stale file.
Missed(r, unlinked) ==
  [r EXCEPT !.lock = "no",
            !.phase = CASE @ \in {1, 2} -> 2 [] OTHER -> 4,
            !.pc = CASE r.phase \in {1, 2} -> "block"
                     [] r.phase = 3 /\ unlinked -> "try"
                     [] OTHER -> "nolock"]

\* try_acquire_once: open and try the flock; is_holder_stale reads the holder's age.
TryLock(c) ==
  /\ At(c, "try")
  /\ file' = Opened
  /\ call' = [call EXCEPT ![c] =
                CASE Free -> [@ EXCEPT !.pc = "info", !.lock = "live"]
                  [] ~Free /\ file = "old" -> [@ EXCEPT !.pc = "unlink"]
                  [] OTHER -> Missed(@, FALSE)]
  /\ UNCHANGED <<disk, idp, expired, manager, chain, excused>>

\* LockAttempt::Failed: the open or the flock fails other than by waiting, which ends the
\* acquisition in every phase.
LockFails(c) ==
  /\ MayFail("noflock")
  /\ At(c, "try")
  /\ file' \in {file, Opened}
  /\ call' = [call EXCEPT ![c].pc = "nolock", ![c].phase = 4]
  /\ UNCHANGED <<disk, idp, expired, manager, chain, excused>>

\* write_holder_info, then inodes_match: the flock counts only if the path still names
\* the inode.
WriteInfo(c) ==
  /\ At(c, "info")
  /\ IF call[c].lock = "live"
       THEN /\ file' = "fresh"
            /\ call' = [call EXCEPT ![c].pc = "locked", ![c].phase = 1]
       ELSE /\ call' = [call EXCEPT ![c] = Missed(@, TRUE)]
            /\ UNCHANGED file
  /\ UNCHANGED <<disk, idp, expired, manager, chain, excused>>

\* remove_file(lock_path) removes whatever file the path names by now.
Unlink(c) ==
  /\ At(c, "unlink")
  /\ file' = "absent"
  /\ call' = [d \in Callers |->
                CASE d = c -> Missed(call[d], file # "absent")
                  [] d # c /\ call[d].lock = "live" -> [call[d] EXCEPT !.lock = "dead"]
                  [] OTHER -> call[d]]
  /\ Excuse(LockBroken)
  /\ UNCHANGED <<disk, idp, expired, manager, chain>>

\* blocking_acquire: the kernel's queue hands over the flock.
Flock(c) ==
  /\ At(c, "block")
  /\ Free
  /\ file' = Opened
  /\ call' = [call EXCEPT ![c].pc = "info", ![c].lock = "live"]
  /\ UNCHANGED <<disk, idp, expired, manager, chain, excused>>

BlockTimeout(c) ==
  /\ At(c, "block")
  /\ ~Free
  /\ call' = [call EXCEPT ![c].pc = "try", ![c].phase = 3]
  /\ UNCHANGED <<disk, file, idp, expired, manager, chain, excused>>

\* More than STALE_LOCK_TIMEOUT_SECS pass since the holder info was written: after a
\* release, or with a holder delayed (suspended, or in a slow exchange) at a stage of
\* Freezes.
InfoAges ==
  /\ file = "fresh"
  /\ \A h \in Callers : call[h].lock = "live" => call[h].pc \in Freezes
  /\ file' = "old"
  /\ UNCHANGED <<disk, idp, expired, manager, chain, call, excused>>

-----------------------------------------------------------------------------
(* With or without the lock.                                                 *)

\* acquire_refresh_lock_or_adopt and its callers without the lock: a refresh only adopts, a
\* re-acquire gives up, recovery and enrichment proceed unlocked.
NoLock(c) ==
  LET p == home[c] IN
  /\ At(c, "nolock")
  /\ CASE call[c].goal = "refresh" ->
            /\ IF Adoptable(p, call[c].why) THEN Adopt(c) ELSE UNCHANGED mem
            /\ Finish(c)
       [] call[c].goal = "relock" -> Finish(c) /\ UNCHANGED mem
       [] OTHER ->
            /\ call' = [call EXCEPT ![c].pc = "locked", ![c].phase = 1]
            /\ UNCHANGED <<mem, chain>>
  /\ UNCHANGED <<disk, file, idp, expired, verdict, todo, excused>>

\* Under the lock a refresh first looks for a sibling's token.
Locked(c) ==
  LET p == home[c] IN
  /\ At(c, "locked")
  /\ call[c].goal \in {"refresh", "relock"}
  /\ IF Adoptable(p, call[c].why)
       THEN Adopt(c) /\ Finish(c)
       ELSE /\ Goto(c, IF call[c].goal = "refresh" THEN "live" ELSE "claim")
            /\ UNCHANGED <<mem, chain>>
  /\ UNCHANGED <<disk, file, idp, expired, verdict, todo, excused>>

\* try_reload_from_disk: accept a live disk token other than the rejected one, else go
\* on to the refresh chain; the fresh-mint guard may hand back the live token instead.
Reload(c) ==
  LET p == home[c] IN
  /\ At(c, "locked")
  /\ call[c].goal = "reload"
  /\ IF disk # 0 /\ disk \notin expired /\ disk # call[c].tried
       THEN Adopt(c) /\ Finish(c)
       ELSE /\ UNCHANGED mem
            /\ \/ Current(p) # 0 /\ Finish(c)
               \/ /\ call' = [call EXCEPT ![c] = [Idle EXCEPT !.pc = "step0", !.why = "rejected"]]
                  /\ UNCHANGED chain
  /\ UNCHANGED <<disk, file, idp, expired, verdict, todo, excused>>

(* Mutant: the entry is rewritten without reading it first. *)
EnrichRead_NoGuard(c) ==
  /\ At(c, "locked")
  /\ call[c].goal = "enrich"
  /\ Goto(c, "enrichWrite")
  /\ UNCHANGED <<disk, file, idp, expired, manager, chain, excused>>

\* The sibling-stomp guard reads the entry; the rewrite follows.
EnrichRead(c) ==
  /\ At(c, "locked")
  /\ call[c].goal = "enrich"
  /\ IF disk = call[c].tried THEN Goto(c, "enrichWrite") /\ UNCHANGED chain ELSE Finish(c)
  /\ UNCHANGED <<disk, file, idp, expired, manager, excused>>

\* The rewrite, of whatever is there by now: unlocked, the entry may have changed since
\* it was read.
EnrichWrite(c) ==
  /\ At(c, "enrichWrite")
  /\ disk' = call[c].tried
  /\ mem' = [mem EXCEPT ![home[c]] = call[c].tried]
  /\ Excuse(StaleRewrite(c))
  /\ Finish(c)
  /\ UNCHANGED <<file, idp, expired, verdict, todo>>

\* check_refresh_deferral and the last sleep-gate check: nothing has been sent yet.
Defer(c) ==
  /\ call[c].pc \in {"live", "claim"}
  /\ Finish(c)
  /\ UNCHANGED <<disk, file, idp, expired, manager, excused>>

\* revalidate_lock_or_reacquire: still_live compares inodes.
Revalidate(c) ==
  /\ At(c, "live")
  /\ IF call[c].lock = "live"
       THEN Goto(c, "claim")
       ELSE call' = [call EXCEPT ![c].pc = "try", ![c].goal = "relock", ![c].lock = "no"]
  /\ UNCHANGED <<disk, file, idp, expired, manager, chain, excused>>

-----------------------------------------------------------------------------
(* The exchange (OidcRefresher.refresh, oidc_token_exchange).                *)

\* refresh(): adopt a sibling's live token, or choose the credential to send.
Refresh(c) ==
  LET p == home[c]  k == Resolve(p, call[c].why) IN
  /\ At(c, "claim")
  /\ CASE disk # 0 /\ disk \notin expired /\ Current(p) # disk ->
            call' = [call EXCEPT ![c].pc = "adopted", ![c].got = disk] /\ UNCHANGED chain
       [] OTHER ->
            IF k = 0
              THEN Finish(c)
              ELSE call' = [call EXCEPT ![c].pc = "wire", ![c].tried = k] /\ UNCHANGED chain
  /\ UNCHANGED <<disk, file, idp, expired, manager, excused>>

\* External: the identity provider redeems a refresh token.  A retry of the same exchange
\* is inside the rotation grace and gets the same grant; a spent token presented by
\* another exchange revokes the family.
Redeem(c) ==
  LET k == call[c].tried IN
  /\ At(c, "wire")
  /\ CASE k \in dead ->
            Goto(c, "denied") /\ UNCHANGED idp
       [] k \notin dead /\ call[c].got # 0 ->
            Goto(c, "granted") /\ UNCHANGED idp
       [] k \notin dead /\ call[c].got = 0 /\ k \in spent ->
            /\ reused' = TRUE
            /\ dead' = 1..minted
            /\ Goto(c, "denied")
            /\ UNCHANGED <<minted, spent>>
       [] OTHER ->
            /\ minted < MaxMint
            /\ minted' = minted + 1
            /\ spent' = spent \cup {k}
            /\ call' = [call EXCEPT ![c].pc = "granted", ![c].got = minted + 1]
            /\ UNCHANGED <<dead, reused>>
  /\ UNCHANGED <<disk, file, expired, manager, chain, excused>>

\* External: invalid_client.
RejectClient(c) ==
  /\ At(c, "wire")
  /\ Goto(c, "client")
  /\ UNCHANGED <<disk, file, idp, expired, manager, chain, excused>>

\* A POST fails, or its answer is lost: refresh_tokens sends the same token again, up to
\* its attempts, then the exchange has Failed.
PostFails(c) ==
  /\ \/ At(c, "wire")
     \/ MayFail("lost") /\ call[c].pc \in {"granted", "denied", "client"}
  /\ LET n == call[c].posts + 1 IN
       call' = [call EXCEPT ![c].pc = IF n < MaxPosts THEN "wire" ELSE "failed",
                            ![c].posts = n]
  /\ UNCHANGED <<disk, file, idp, expired, manager, chain, excused>>

\* apply_refresh_outcome, Success: update() writes auth.json, then the cache in any case,
\* and spawns the enrichment.
Persist(c) ==
  LET p == home[c]  k == call[c].got IN
  /\ call[c].pc \in {"granted", "adopted"}
  /\ \/ disk' = k /\ UNCHANGED excused
     \/ /\ MayFail("nowrite")
        /\ Excuse(TRUE)
        /\ UNCHANGED disk
  /\ mem' = [mem EXCEPT ![p] = k]
  /\ todo' = [todo EXCEPT ![p] = @ \cup {k}]
  /\ Finish(c)
  /\ UNCHANGED <<file, idp, expired, verdict>>

\* apply_refresh_outcome, PermanentFailure: adopt, or demote to transient when a sibling
\* rotated, or record the verdict for the credential that was sent.
Record(c, sticky) ==
  LET p == home[c] IN
  /\ CASE Adoptable(p, call[c].why) -> Adopt(c) /\ UNCHANGED verdict
       [] ~Adoptable(p, call[c].why) /\ SiblingDiffers(p) -> UNCHANGED <<mem, verdict>>
       [] OTHER ->
            /\ verdict' = [verdict EXCEPT ![p] = [key |-> call[c].tried, sticky |-> sticky]]
            /\ UNCHANGED mem
  /\ Finish(c)

(* Mutant: a run of transient failures is taken for a revoked token. *)
Failed_Sticky(c) ==
  /\ At(c, "failed")
  /\ Excuse(call[c].got # 0)
  /\ \/ Finish(c) /\ UNCHANGED <<mem, verdict>>
     \/ ~call[c].again /\ Record(c, TRUE)
  /\ UNCHANGED <<disk, file, idp, expired, todo>>

\* OidcRefreshResult::Failed: a transient failure, which leaves no trace, until the
\* process's budget of consecutive ones (abstracted to a choice) makes
\* record_transient_failure escalate it.  A failure of the disk retry does not count.
Failed(c) ==
  /\ At(c, "failed")
  /\ Excuse(call[c].got # 0)
  /\ \/ Finish(c) /\ UNCHANGED <<mem, verdict>>
     \/ ~call[c].again /\ Record(c, FALSE)
  /\ UNCHANGED <<disk, file, idp, expired, todo>>

\* invalid_grant: retry_with_fresh_disk_token once, when the disk has moved on.
Denied(c) ==
  LET k == call[c].tried IN
  /\ At(c, "denied")
  /\ CASE ~call[c].again /\ disk \notin expired \cup {0, k} ->
            /\ call' = [call EXCEPT ![c].pc = "adopted", ![c].got = disk]
            /\ UNCHANGED <<mem, verdict, chain>>
       [] ~call[c].again /\ disk \in expired \ {k} ->
            /\ call' = [call EXCEPT ![c].pc = "wire", ![c].tried = disk, ![c].got = 0,
                                    ![c].posts = 0, ![c].again = TRUE]
            /\ UNCHANGED <<mem, verdict, chain>>
       [] OTHER -> Record(c, TRUE)
  /\ UNCHANGED <<disk, file, idp, expired, todo, excused>>

\* invalid_client is terminal without a disk retry.
ClientDenied(c) ==
  /\ At(c, "client")
  /\ Excuse(call[c].got # 0)
  /\ Record(c, FALSE)
  /\ UNCHANGED <<disk, file, idp, expired, todo>>

-----------------------------------------------------------------------------
(* Around the calls.                                                         *)

\* PERMANENT_FAILURE_TTL passes for a recoverable verdict.
VerdictLapses(p) ==
  /\ verdict[p] # NoVerdict
  /\ ~verdict[p].sticky
  /\ verdict' = [verdict EXCEPT ![p] = NoVerdict]
  /\ UNCHANGED <<disk, file, idp, expired, mem, todo, chain, call, excused>>

\* Access tokens have one lifetime, so they expire in the order of their grants.
Expire(k) ==
  /\ k \in 1..minted \ expired
  /\ 1..(k - 1) \subseteq expired
  /\ expired' = expired \cup {k}
  /\ UNCHANGED <<disk, file, idp, manager, chain, call, excused>>

\* remove_scope: a non-blocking try of the lock; without it only the cache is cleared.
\* Bound: no call of the same process is in progress.
Logout(p) ==
  /\ MayFail("logout")
  /\ \A c \in Callers : home[c] = p => At(c, "idle")
  /\ mem[p] # 0
  /\ mem' = [mem EXCEPT ![p] = 0]
  /\ file' = IF Free THEN "fresh" ELSE Opened
  /\ disk' = IF Free THEN 0 ELSE disk
  /\ Excuse(OrphanedCache(p))
  /\ UNCHANGED <<idp, expired, verdict, todo, chain, call>>

\* The process dies and starts again: AuthManager::new reads auth.json.
Crash(p) ==
  /\ MayFail("crash")
  /\ Excuse(\E c \in Callers : home[c] = p /\ call[c].got \notin {0, disk})
  /\ call' = [c \in Callers |-> IF home[c] = p THEN Idle ELSE call[c]]
  /\ chain' = [chain EXCEPT ![p] = NoCaller]
  /\ mem' = [mem EXCEPT ![p] = disk]
  /\ verdict' = [verdict EXCEPT ![p] = NoVerdict]
  /\ todo' = [todo EXCEPT ![p] = {}]
  /\ UNCHANGED <<disk, file, idp, expired>>

LockStep(c) ==
  \/ TryLock(c) \/ LockFails(c) \/ WriteInfo(c) \/ Unlink(c) \/ Flock(c) \/ BlockTimeout(c) \/ NoLock(c)

ChainStep(c) ==
  \/ Step0(c) \/ EnterChain(c) \/ Locked(c) \/ Reload(c) \/ EnrichRead(c)
  \/ EnrichWrite(c) \/ Defer(c) \/ Revalidate(c) \/ Refresh(c) \/ Redeem(c)
  \/ RejectClient(c) \/ PostFails(c) \/ Failed(c) \/ Denied(c) \/ ClientDenied(c)
  \/ Persist(c)

Next ==
  /\ \/ \E c \in Callers : \/ BeginAuth(c) \/ BeginRecovery(c) \/ BeginEnrichment(c)
                             \/ LockStep(c) \/ ChainStep(c)
     \/ \E p \in Procs : VerdictLapses(p) \/ Logout(p) \/ Crash(p)
     \/ InfoAges
     \/ \E k \in Creds : Expire(k)
  /\ UNCHANGED home

Spec == Init /\ [][Next]_vars

-----------------------------------------------------------------------------
(* Properties.                                                               *)

(* A refresh token is presented by two exchanges only after one of these: the *)
(* lock was broken under a call past its last check (LockBroken), a grant was *)
(* lost before auth.json held it, an enrichment wrote without the lock over a *)
(* newer entry (StaleRewrite), or a logout removed the newest entry while     *)
(* another process cached an older one (OrphanedCache).  Any other logout,    *)
(* crash, lost answer, lock timeout, stale lock or unlocked enrichment is no  *)
(* excuse.                                                                    *)
SpentOnce == reused => excused

(* Short of those four, the newest grant is in auth.json or in the hands of   *)
(* the call that is about to write it; and when a logout has removed it, no   *)
(* process caches any other credential to fall back to.                       *)
NewestKept ==
  ~excused =>
    \/ disk = minted
    \/ \E c \in Callers : call[c].got = minted
    \/ disk = 0 /\ \A p \in Procs : mem[p] \in {0, minted}

(* A sticky verdict stops a process only from sending a refresh token that    *)
(* the identity provider will never accept again.                             *)
VerdictTrue ==
  \A p \in Procs : Blocked(p) /\ verdict[p].sticky => Resolve(p, "rejected") \in dead
=============================================================================
