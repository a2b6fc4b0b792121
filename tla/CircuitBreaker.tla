--------------------------- MODULE CircuitBreaker ---------------------------
(***************************************************************************)
(* The circuit breaker of crates/common/ainxt-circuit-breaker, at the      *)
(* granularity of its atomic operations: each step of a thread is one      *)
(* load, store, fetch_add, fetch_sub or compare_exchange, or one critical  *)
(* section of the window mutex.                                            *)
(*                                                                         *)
(* Time is kept as ages: a cell that holds a timestamp holds here how long *)
(* ago it was, counted up by Tick and saturated where no comparison can    *)
(* tell the difference.  Hence the clock itself needs no bound.            *)
(***************************************************************************)
EXTENDS Integers, Sequences, FiniteSets

CONSTANTS
  Threads,        \* callers: each has at most one request in flight
  Monitors,       \* those that also call error_rate(), which only tests do so far
  OpenDuration,   \* BreakerConfig.open_duration, also the probe lease
  WindowDuration, \* BreakerConfig.window_duration
  MinSamples,     \* BreakerConfig.min_samples
  RateNum,        \* error_rate_threshold = RateNum / RateDen
  RateDen,
  MaxProbes,      \* BreakerConfig.half_open_max_probes (clamped to >= 1)
  WindowCap,      \* MAX_WINDOW_ENTRIES
  UsizeMod,       \* 2^64 in the code: the counter wraps
  CallTicks,      \* bound: ticks one check(), record() or error_rate() may take
  History         \* the history variables that are kept

ASSUME BreakerAssumption ==
  /\ IsFiniteSet(Threads)
  /\ OpenDuration \in Nat \ {0} /\ WindowDuration \in Nat
  /\ MinSamples \in Nat /\ RateNum \in Nat /\ RateDen \in Nat \ {0}
  /\ MaxProbes \in Nat \ {0} /\ WindowCap \in Nat \ {0}
  /\ UsizeMod \in Nat /\ UsizeMod > MaxProbes + 1
  /\ CallTicks \in Nat /\ CallTicks < OpenDuration
  /\ History \subseteq {"probing", "open_for"}

VARIABLES
  state,          \* AtomicU8
  opened_age,     \* age of opened_at_millis
  probes,         \* half_open_probes
  claimed_age,    \* age of probe_claimed_at_millis
  is_open_fast,   \* the mirror read by is_open()
  window,         \* the sliding window's entries, oldest pushed first
  failures,       \* its incremental failure count
  pc,             \* where each thread is
  failed,         \* the outcome a thread is recording
  my_opened,      \* local: the opened_at it loaded
  my_now,         \* local: the clock value it read
  my_claimed,     \* local: the probe_claimed_at it loaded
  call_age,       \* bound: ticks since the call began
  probing,        \* history: age of the half-open probe in flight, or NotProbing
  open_for,       \* history: ticks since a trip last stored Open
  healthy         \* environment: requests no longer fail or get lost

shared == <<state, opened_age, probes, claimed_age, is_open_fast, window, failures>>
locals == <<failed, my_opened, my_now, my_claimed>>
vars == <<state, opened_age, probes, claimed_age, is_open_fast, window, failures, pc,
          failed, my_opened, my_now, my_claimed, call_age, probing, open_for, healthy>>

LeaseAge == OpenDuration + CallTicks
EntryAge == WindowDuration + CallTicks + 1
NotProbing == -1

Between == {"idle", "admitted"}
InCheck == {"load_opened", "cas_state", "clear_mirror", "reload", "probe", "fetch_add",
            "claim", "fetch_sub", "lease", "lease_cas"}
InRecord == {"record", "push_closed", "push_open", "trip_state", "trip_now", "trip_opened",
             "trip_probes", "trip_mirror",
             "close_state", "close_window", "close_probes", "close_mirror"}
InErrorRate == {"evict"}

HoldsNow == {"fetch_add", "claim", "fetch_sub", "lease", "lease_cas",
             "record", "push_closed", "push_open", "trip_opened", "evict"}

MidCall(th) == pc[th] \notin Between
Quiet == \A th \in Threads : ~MidCall(th)

TypeOK ==
  /\ state \in {"Closed", "Open", "HalfOpen"}
  /\ opened_age \in 0 .. OpenDuration
  /\ probes \in 0 .. UsizeMod - 1
  /\ claimed_age \in 0 .. LeaseAge
  /\ is_open_fast \in BOOLEAN
  /\ window \in Seq([age : 0 .. EntryAge, failed : BOOLEAN])
  /\ failures \in Int
  /\ pc \in [Threads -> Between \cup InCheck \cup InRecord \cup InErrorRate]
  /\ failed \in [Threads -> BOOLEAN]
  /\ my_opened \in [Threads -> 0 .. OpenDuration]
  /\ my_now \in [Threads -> 0 .. CallTicks]
  /\ my_claimed \in [Threads -> 0 .. LeaseAge]
  /\ call_age \in [Threads -> 0 .. CallTicks]
  /\ probing \in [Threads -> {NotProbing} \cup 0 .. OpenDuration]
  /\ open_for \in 0 .. OpenDuration
  /\ healthy \in BOOLEAN

(* with_clock.  Both timestamps are 0, the construction instant; the      *)
(* breaker may have been built long ago.                                  *)
Init ==
  /\ state = "Closed"
  /\ opened_age \in {0, OpenDuration} /\ claimed_age = opened_age
  /\ probes = 0
  /\ is_open_fast = FALSE
  /\ window = <<>> /\ failures = 0
  /\ pc = [th \in Threads |-> "idle"]
  /\ failed = [th \in Threads |-> FALSE]
  /\ my_opened = [th \in Threads |-> 0]
  /\ my_now = [th \in Threads |-> 0]
  /\ my_claimed = [th \in Threads |-> 0]
  /\ call_age = [th \in Threads |-> 0]
  /\ probing = [th \in Threads |-> NotProbing]
  /\ open_for = OpenDuration
  /\ healthy = FALSE

-----------------------------------------------------------------------------
(* Control flow of a thread.  Locals that are dead are forgotten: on       *)
(* entering trip(), close() or the probe path, and on return.             *)

Goto(th, label) ==
  /\ pc' = [pc EXCEPT ![th] = label]
  /\ UNCHANGED <<call_age, probing, healthy>>

Forget(th) ==
  /\ failed' = [failed EXCEPT ![th] = FALSE]
  /\ my_opened' = [my_opened EXCEPT ![th] = 0]
  /\ my_now' = [my_now EXCEPT ![th] = 0]
  /\ my_claimed' = [my_claimed EXCEPT ![th] = 0]

Enter(th, label) == Goto(th, label) /\ Forget(th)

(* check() returns Err(BreakerOpen), or record() or error_rate() returns. *)
Return(th) ==
  /\ pc' = [pc EXCEPT ![th] = "idle"]
  /\ probing' = [probing EXCEPT ![th] = NotProbing]
  /\ call_age' = [call_age EXCEPT ![th] = 0]
  /\ Forget(th)
  /\ UNCHANGED healthy

(* check() returns Ok; age is that of the probe claim it holds, if any. *)
Admit(th, age) ==
  /\ pc' = [pc EXCEPT ![th] = "admitted"]
  /\ probing' = [probing EXCEPT ![th] = IF "probing" \in History THEN age ELSE NotProbing]
  /\ call_age' = [call_age EXCEPT ![th] = 0]
  /\ Forget(th)
  /\ UNCHANGED healthy

-----------------------------------------------------------------------------
(* check() *)

Check(th) ==
  /\ pc[th] = "idle"
  /\ \/ state = "Closed" /\ Admit(th, NotProbing)
     \/ state = "Open" /\ Goto(th, "load_opened") /\ UNCHANGED locals
     \/ state = "HalfOpen" /\ Goto(th, "probe") /\ UNCHANGED locals
  /\ UNCHANGED <<shared, open_for>>

LoadOpened(th) ==
  /\ pc[th] = "load_opened"
  /\ my_opened' = [my_opened EXCEPT ![th] = opened_age]
  /\ Goto(th, "cas_state")
  /\ UNCHANGED <<shared, failed, my_now, my_claimed, open_for>>

(* Mutant: the elapsed time is not compared with open_duration. *)
CasState_NoWait(th) ==
  /\ pc[th] = "cas_state"
  /\ \/ state = "Open" /\ state' = "HalfOpen" /\ Enter(th, "clear_mirror")
     \/ state # "Open" /\ Enter(th, "reload") /\ UNCHANGED state
  /\ UNCHANGED <<opened_age, probes, claimed_age, is_open_fast, window, failures, open_for>>

(* elapsed >= open_duration, then compare_exchange(Open, HalfOpen).  The   *)
(* clock is read just before the exchange: read earlier, it could only     *)
(* turn this call's exchange into a rejection, which shares no state.      *)
CasState(th) ==
  /\ pc[th] = "cas_state"
  /\ \/ my_opened[th] < OpenDuration /\ Return(th) /\ UNCHANGED state
     \/ /\ my_opened[th] >= OpenDuration /\ state = "Open"
        /\ state' = "HalfOpen"
        /\ Enter(th, "clear_mirror")
     \/ /\ my_opened[th] >= OpenDuration /\ state # "Open"
        /\ Enter(th, "reload") /\ UNCHANGED state
  /\ UNCHANGED <<opened_age, probes, claimed_age, is_open_fast, window, failures, open_for>>

ClearMirror(th) ==
  /\ pc[th] = "clear_mirror"
  /\ is_open_fast' = FALSE
  /\ Goto(th, "probe")
  /\ UNCHANGED <<state, opened_age, probes, claimed_age, window, failures, locals, open_for>>

(* The loser of the race looks at the state once more. *)
Reload(th) ==
  /\ pc[th] = "reload"
  /\ \/ state = "Closed" /\ Admit(th, NotProbing)
     \/ state = "HalfOpen" /\ Goto(th, "probe") /\ UNCHANGED locals
     \/ state = "Open" /\ Return(th)
  /\ UNCHANGED <<shared, open_for>>

(* try_half_open_probe() *)
ReadNow(th) ==
  /\ pc[th] = "probe"
  /\ my_now' = [my_now EXCEPT ![th] = 0]
  /\ Goto(th, "fetch_add")
  /\ UNCHANGED <<shared, failed, my_opened, my_claimed, open_for>>

FetchAdd(th) ==
  /\ pc[th] = "fetch_add"
  /\ probes' = (probes + 1) % UsizeMod
  /\ Goto(th, IF probes < MaxProbes THEN "claim" ELSE "fetch_sub")
  /\ UNCHANGED <<state, opened_age, claimed_age, is_open_fast, window, failures, locals, open_for>>

Claim(th) ==
  /\ pc[th] = "claim"
  /\ claimed_age' = my_now[th]
  /\ Admit(th, my_now[th])
  /\ UNCHANGED <<state, opened_age, probes, is_open_fast, window, failures, open_for>>

FetchSub(th) ==
  /\ pc[th] = "fetch_sub"
  /\ probes' = (probes + UsizeMod - 1) % UsizeMod
  /\ Goto(th, "lease")
  /\ UNCHANGED <<state, opened_age, claimed_age, is_open_fast, window, failures, locals, open_for>>

(* Mutant: a claim is held until it is recorded. *)
Lease_Never(th) ==
  /\ pc[th] = "lease"
  /\ Return(th)
  /\ UNCHANGED <<shared, open_for>>

(* now.saturating_sub(claimed) >= lease: the claim counts as abandoned. *)
Lease(th) ==
  /\ pc[th] = "lease"
  /\ \/ /\ claimed_age - my_now[th] >= OpenDuration
        /\ my_claimed' = [my_claimed EXCEPT ![th] = claimed_age]
        /\ Goto(th, "lease_cas") /\ UNCHANGED <<failed, my_opened, my_now>>
     \/ /\ claimed_age - my_now[th] < OpenDuration
        /\ Return(th)
  /\ UNCHANGED <<shared, open_for>>

LeaseCas(th) ==
  /\ pc[th] = "lease_cas"
  /\ \/ /\ claimed_age = my_claimed[th]
        /\ claimed_age' = my_now[th]
        /\ Admit(th, my_now[th])
     \/ /\ claimed_age # my_claimed[th]
        /\ Return(th) /\ UNCHANGED claimed_age
  /\ UNCHANGED <<state, opened_age, probes, is_open_fast, window, failures, open_for>>

-----------------------------------------------------------------------------
(* The sliding window.  Entries carry the record()'s own clock reading, so *)
(* they need not be in order of time; evict() stops at the first live one. *)

Expired(entry, now) == entry.age > now + WindowDuration

FirstLive(w, now) ==
  CHOOSE k \in 1 .. Len(w) + 1 :
    /\ \A j \in 1 .. k - 1 : Expired(w[j], now)
    /\ k <= Len(w) => ~Expired(w[k], now)

FailuresIn(w) == Cardinality({k \in DOMAIN w : w[k].failed})

Popped(w) == IF Len(w) >= WindowCap THEN 1 ELSE 0

push(w, entry) == Append(SubSeq(w, 1 + Popped(w), Len(w)), entry)

(* Mutant: a failure popped at the cap stays counted. *)
pushed_failures_Kept(w, n, entry) == n + (IF entry.failed THEN 1 ELSE 0)

pushed_failures(w, n, entry) ==
  n - FailuresIn(SubSeq(w, 1, Popped(w))) + (IF entry.failed THEN 1 ELSE 0)

evict(w, now) == SubSeq(w, FirstLive(w, now), Len(w))

evicted_failures(w, n, now) == n - FailuresIn(SubSeq(w, 1, FirstLive(w, now) - 1))

(* sample_count() >= min_samples && error_rate() >= error_rate_threshold, *)
(* where the rate of an empty window is 0.                                *)
ShouldTrip(w, n) ==
  /\ Len(w) >= MinSamples
  /\ IF w = <<>> THEN RateNum = 0 ELSE n * RateDen >= RateNum * Len(w)

PushSample(th) ==
  LET entry == [age |-> my_now[th], failed |-> failed[th]]
      w == push(window, entry)
  IN /\ window' = evict(w, my_now[th])
     /\ failures' = evicted_failures(w, pushed_failures(window, failures, entry), my_now[th])

-----------------------------------------------------------------------------
(* record() *)

Record(th, fails) ==
  /\ pc[th] = "admitted"
  /\ healthy => ~fails
  /\ failed' = [failed EXCEPT ![th] = fails]
  /\ my_now' = [my_now EXCEPT ![th] = 0]
  /\ Goto(th, "record")
  /\ UNCHANGED <<shared, my_opened, my_claimed, open_for>>

(* Mutant: a successful probe is only pushed to the window. *)
LoadState_NoClose(th) ==
  /\ pc[th] = "record"
  /\ \/ state = "Closed" /\ Goto(th, "push_closed") /\ UNCHANGED locals
     \/ state = "Open" /\ Goto(th, "push_open") /\ UNCHANGED locals
     \/ state = "HalfOpen" /\ failed[th] /\ Enter(th, "trip_state")
     \/ state = "HalfOpen" /\ ~failed[th] /\ Goto(th, "push_open") /\ UNCHANGED locals
  /\ UNCHANGED <<shared, open_for>>

LoadState(th) ==
  /\ pc[th] = "record"
  /\ \/ state = "Closed" /\ Goto(th, "push_closed") /\ UNCHANGED locals
     \/ state = "Open" /\ Goto(th, "push_open") /\ UNCHANGED locals
     \/ state = "HalfOpen" /\ Enter(th, IF failed[th] THEN "trip_state" ELSE "close_state")
  /\ UNCHANGED <<shared, open_for>>

PushClosed(th) ==
  /\ pc[th] = "push_closed"
  /\ PushSample(th)
  /\ \/ ShouldTrip(window', failures') /\ Enter(th, "trip_state")
     \/ ~ShouldTrip(window', failures') /\ Return(th)
  /\ UNCHANGED <<state, opened_age, probes, claimed_age, is_open_fast, open_for>>

PushOpen(th) ==
  /\ pc[th] = "push_open"
  /\ PushSample(th)
  /\ Return(th)
  /\ UNCHANGED <<state, opened_age, probes, claimed_age, is_open_fast, open_for>>

(* trip(): four stores, the authoritative one first.  The clock is read     *)
(* between the first and the second.                                       *)
TripState(th) ==
  /\ pc[th] = "trip_state"
  /\ state' = "Open"
  /\ open_for' = IF "open_for" \in History THEN 0 ELSE OpenDuration
  /\ Goto(th, "trip_now")
  /\ UNCHANGED <<opened_age, probes, claimed_age, is_open_fast, window, failures, locals>>

TripNow(th) ==
  /\ pc[th] = "trip_now"
  /\ my_now' = [my_now EXCEPT ![th] = 0]
  /\ Goto(th, "trip_opened")
  /\ UNCHANGED <<shared, failed, my_opened, my_claimed, open_for>>

(* Mutant: a later trip keeps the first one's timestamp. *)
TripOpened_Kept(th) ==
  /\ pc[th] = "trip_opened"
  /\ Goto(th, "trip_probes")
  /\ UNCHANGED <<shared, locals, open_for>>

TripOpened(th) ==
  /\ pc[th] = "trip_opened"
  /\ opened_age' = my_now[th]
  /\ Goto(th, "trip_probes")
  /\ UNCHANGED <<state, probes, claimed_age, is_open_fast, window, failures, locals, open_for>>

TripProbes(th) ==
  /\ pc[th] = "trip_probes"
  /\ probes' = 0
  /\ Goto(th, "trip_mirror")
  /\ UNCHANGED <<state, opened_age, claimed_age, is_open_fast, window, failures, locals, open_for>>

TripMirror(th) ==
  /\ pc[th] = "trip_mirror"
  /\ is_open_fast' = TRUE
  /\ Return(th)
  /\ UNCHANGED <<state, opened_age, probes, claimed_age, window, failures, open_for>>

(* close(): the state, the window under its lock, the probes, the mirror. *)
CloseState(th) ==
  /\ pc[th] = "close_state"
  /\ state' = "Closed"
  /\ Goto(th, "close_window")
  /\ UNCHANGED <<opened_age, probes, claimed_age, is_open_fast, window, failures, locals, open_for>>

CloseWindow(th) ==
  /\ pc[th] = "close_window"
  /\ window' = <<>> /\ failures' = 0
  /\ Goto(th, "close_probes")
  /\ UNCHANGED <<state, opened_age, probes, claimed_age, is_open_fast, locals, open_for>>

CloseProbes(th) ==
  /\ pc[th] = "close_probes"
  /\ probes' = 0
  /\ Goto(th, "close_mirror")
  /\ UNCHANGED <<state, opened_age, claimed_age, is_open_fast, window, failures, locals, open_for>>

CloseMirror(th) ==
  /\ pc[th] = "close_mirror"
  /\ is_open_fast' = FALSE
  /\ Return(th)
  /\ UNCHANGED <<state, opened_age, probes, claimed_age, window, failures, open_for>>

(* An admitted request may end without record(): its future is dropped,   *)
(* or its status counts neither way (storage_client records only some).   *)
Abandon(th) ==
  /\ pc[th] = "admitted"
  /\ ~healthy
  /\ Return(th)
  /\ UNCHANGED <<shared, open_for>>

(* error_rate(): the clock is read before the window's lock is taken, and *)
(* entries too old by that reading are evicted.                           *)
ErrorRate(th) ==
  /\ pc[th] = "idle" /\ th \in Monitors
  /\ my_now' = [my_now EXCEPT ![th] = 0]
  /\ Goto(th, "evict")
  /\ UNCHANGED <<shared, failed, my_opened, my_claimed, open_for>>

Evict(th) ==
  /\ pc[th] = "evict"
  /\ window' = evict(window, my_now[th])
  /\ failures' = evicted_failures(window, failures, my_now[th])
  /\ Return(th)
  /\ UNCHANGED <<state, opened_age, probes, claimed_age, is_open_fast, open_for>>

-----------------------------------------------------------------------------
(* The environment: time passes, and the upstream may recover for good. *)

Older(age, cap) == IF age < cap THEN age + 1 ELSE cap

Tick ==
  /\ \A th \in Threads : MidCall(th) => call_age[th] < CallTicks
  /\ opened_age' = Older(opened_age, OpenDuration)
  /\ claimed_age' = Older(claimed_age, LeaseAge)
  /\ window' = [k \in DOMAIN window |-> [window[k] EXCEPT !.age = Older(@, EntryAge)]]
  /\ open_for' = Older(open_for, OpenDuration)
  /\ my_opened' = [th \in Threads |-> IF pc[th] = "cas_state"
                                     THEN Older(my_opened[th], OpenDuration) ELSE my_opened[th]]
  /\ my_now' = [th \in Threads |-> IF pc[th] \in HoldsNow
                                  THEN Older(my_now[th], CallTicks) ELSE my_now[th]]
  /\ my_claimed' = [th \in Threads |-> IF pc[th] = "lease_cas"
                                      THEN Older(my_claimed[th], LeaseAge) ELSE my_claimed[th]]
  /\ call_age' = [th \in Threads |-> IF MidCall(th) THEN call_age[th] + 1 ELSE 0]
  /\ probing' = [th \in Threads |-> IF probing[th] = NotProbing THEN NotProbing
                                   ELSE Older(probing[th], OpenDuration)]
  /\ UNCHANGED <<state, probes, is_open_fast, failures, pc, failed, healthy>>

Recover ==
  /\ ~healthy
  /\ healthy' = TRUE
  /\ UNCHANGED <<shared, pc, locals, call_age, probing, open_for>>

-----------------------------------------------------------------------------
CheckStep(th) ==
  LoadOpened(th) \/ CasState(th) \/ ClearMirror(th) \/ Reload(th) \/ ReadNow(th)
    \/ FetchAdd(th) \/ Claim(th) \/ FetchSub(th) \/ Lease(th) \/ LeaseCas(th)

RecordStep(th) ==
  LoadState(th) \/ PushClosed(th) \/ PushOpen(th)
    \/ TripState(th) \/ TripNow(th) \/ TripOpened(th) \/ TripProbes(th) \/ TripMirror(th)
    \/ CloseState(th) \/ CloseWindow(th) \/ CloseProbes(th) \/ CloseMirror(th)

Next ==
  \/ \E th \in Threads :
       \/ Check(th) \/ CheckStep(th)
       \/ \E fails \in BOOLEAN : Record(th, fails)
       \/ RecordStep(th)
       \/ Abandon(th) \/ ErrorRate(th) \/ Evict(th)
  \/ Tick \/ Recover

Spec == Init /\ [][Next]_vars

-----------------------------------------------------------------------------
(* Fairness: calls in progress return, a caller that stays idle makes a    *)
(* request, admitted requests end and time passes.                         *)
Fairness ==
  /\ \A th \in Threads :
       /\ WF_vars(CheckStep(th) \/ RecordStep(th) \/ Evict(th))
       /\ WF_vars(Check(th))
       /\ WF_vars(Abandon(th) \/ \E fails \in BOOLEAN : Record(th, fails))
  /\ WF_vars(Tick)

FairSpec == Spec /\ Fairness

-----------------------------------------------------------------------------
(* Properties. *)

(* failures is decremented on every pop (window.rs); were it ever out of   *)
(* step with the entries it would wrap below zero and the rate with it.    *)
WindowConsistent ==
  /\ failures = FailuresIn(window)
  /\ Len(window) <= WindowCap

(* Threads that have stored Open and not yet the stamp that belongs to it. *)
Stamping == {th \in Threads : pc[th] \in {"trip_now", "trip_opened"}}

(* trip() publishes Open before it stamps opened_at_millis, and a delayed  *)
(* trip() may overwrite a newer stamp with its own.  Once no stamp is      *)
(* outstanding the stamp is not older than the latest trip by more than    *)
(* the time one call takes: no overlap leaves a breaker that is open with  *)
(* the stamp of an earlier opening, which would void its cool-down.        *)
StampFresh == Stamping = {} => opened_age <= open_for + CallTicks

(* The cool-down under overlap: Open gives way to HalfOpen when            *)
(* open_duration, less the time one call takes, has passed since the trip; *)
(* earlier only while the trip itself is under way, that is within the     *)
(* duration of the trip and of a check() that read the stamp before it.    *)
CoolDownBounded ==
  [][state = "Open" /\ state' = "HalfOpen" =>
       open_for + CallTicks >= OpenDuration \/ open_for <= 2 * CallTicks]_vars

(* At most half_open_max_probes requests younger than the lease are out    *)
(* while half open: check_open() leaves the counter alone, because another *)
(* reset would be "admitting two probes instead of one" (breaker.rs).      *)
ProbeLimit ==
  state = "HalfOpen" =>
    Cardinality({th \in Threads : probing[th] \in 0 .. OpenDuration - 1}) <= MaxProbes

(* is_open_fast is a "mirror of `state == Open`" (breaker.rs): it may lag   *)
(* while a call is in progress, never once every call has returned.        *)
MirrorAgrees == Quiet => is_open_fast = (state = "Open")

(* No lost probe, wrapped counter or race strands the breaker: as long as  *)
(* callers keep asking, some caller is admitted again.                     *)
NeverStranded == []<>(\E th \in Threads : pc[th] = "admitted")

(* Once the upstream is healthy the breaker closes for good, failures left *)
(* in the window and slow recorders notwithstanding.                       *)
HealthyCloses == healthy ~> [](state = "Closed")
=============================================================================
