------------------------ MODULE CircuitBreakerProofs ------------------------
(***************************************************************************)
(* Theorems about CircuitBreaker, for any number of threads, any durations *)
(* and thresholds and any cap of the window, and for every interleaving of *)
(* the atomic operations of overlapping calls.                             *)
(***************************************************************************)
EXTENDS CircuitBreaker, SequenceTheorems, FiniteSetTheorems, WellFoundedInduction, TLAPS

Entry == [age : 0 .. EntryAge, failed : BOOLEAN]

FailedAt(w) == {k \in DOMAIN w : w[k].failed}

-----------------------------------------------------------------------------
(* The window's operators. *)

\* Either every entry is expired or there is a first one that is not.
LEMMA FirstLiveRange ==
  ASSUME NEW w \in Seq(Entry), NEW now
  PROVE  FirstLive(w, now) \in 1 .. Len(w) + 1
<1> DEFINE Live == {k \in 1 .. Len(w) : ~Expired(w[k], now)}
<1> DEFINE First(k) == /\ \A j \in 1 .. k - 1 : Expired(w[j], now)
                       /\ k <= Len(w) => ~Expired(w[k], now)
<1>1. Len(w) \in Nat
  BY LenProperties
<1>2. \E k \in 1 .. Len(w) + 1 : First(k)
  <2>1. CASE Live = {}
    <3>1. First(Len(w) + 1)
      BY <1>1, <2>1
    <3> QED BY <1>1, <3>1
  <2>2. CASE Live # {}
    <3>1. Live \subseteq Nat
      BY <1>1
    <3> DEFINE Less == OpToRel(<, Nat)
    <3>2. IsWellFoundedOn(Less, Nat)
      BY NatLessThanWellFounded
    <3>3. \A x, y \in Nat : x < y => <<x, y>> \in Less
      BY DEF OpToRel
    <3> HIDE DEF Less
    <3>4. PICK x \in Live : \A y \in Live : ~(<<y, x>> \in Less)
      BY <3>1, <3>2, <2>2, WFMin
    <3>5. \A y \in Live : ~(y < x)
      BY <3>1, <3>3, <3>4
    <3>6. First(x)
      BY <1>1, <3>5
    <3> QED BY <1>1, <3>6
  <2> QED BY <2>1, <2>2
<1> QED BY <1>2 DEF FirstLive

LEMMA FailedFinite ==
  ASSUME NEW w \in Seq(Entry)
  PROVE  /\ IsFiniteSet(FailedAt(w)) /\ FailedAt(w) \subseteq 1 .. Len(w)
         /\ FailuresIn(w) = Cardinality(FailedAt(w)) /\ FailuresIn(w) \in Nat
<1>1. FailedAt(w) \in SUBSET (1 .. Len(w)) /\ Len(w) \in Nat
  BY LenProperties DEF FailedAt
<1>2. IsFiniteSet(1 .. Len(w))
  BY <1>1, FS_Interval
<1>3. IsFiniteSet(FailedAt(w))
  BY <1>1, <1>2, FS_Subset
<1>4. FailuresIn(w) = Cardinality(FailedAt(w))
  BY DEF FailuresIn, FailedAt
<1> QED BY <1>1, <1>3, <1>4, FS_CardinalityType

LEMMA NoFailures == FailuresIn(<<>>) = 0
<1>1. {k \in DOMAIN <<>> : <<>>[k].failed} = {}
  OBVIOUS
<1> QED BY <1>1, FS_EmptySet DEF FailuresIn

\* Cutting a window in two: the failures of the parts add up.
LEMMA FailuresSplit ==
  ASSUME NEW w \in Seq(Entry), NEW m \in 0 .. Len(w)
  PROVE  /\ SubSeq(w, 1, m) \in Seq(Entry) /\ SubSeq(w, m + 1, Len(w)) \in Seq(Entry)
         /\ Len(SubSeq(w, m + 1, Len(w))) = Len(w) - m
         /\ FailuresIn(w) = FailuresIn(SubSeq(w, 1, m)) + FailuresIn(SubSeq(w, m + 1, Len(w)))
<1> DEFINE a == SubSeq(w, 1, m)
           b == SubSeq(w, m + 1, Len(w))
           B == {k \in m + 1 .. Len(w) : w[k].failed}
<1>1. Len(w) \in Nat /\ DOMAIN w = 1 .. Len(w) /\ \A i \in 1 .. Len(w) : w[i] \in Entry
  BY LenProperties, ElementOfSeq
<1>2. /\ a \in Seq(Entry) /\ Len(a) = m /\ \A i \in 1 .. m : a[i] = w[i]
  <2>1. \A i \in 1 .. m : w[i] \in Entry
    BY <1>1
  <2>2. /\ a \in Seq(Entry) /\ Len(a) = (IF 1 <= m THEN m - 1 + 1 ELSE 0)
        /\ \A i \in 1 .. m - 1 + 1 : a[i] = w[1 + i - 1]
    BY <1>1, <2>1, SubSeqProperties
  <2> QED BY <1>1, <2>2
<1>3. /\ b \in Seq(Entry) /\ Len(b) = Len(w) - m /\ \A i \in 1 .. Len(w) - m : b[i] = w[m + i]
  <2>1. \A i \in m + 1 .. Len(w) : w[i] \in Entry
    BY <1>1
  <2>2. /\ b \in Seq(Entry)
        /\ Len(b) = (IF m + 1 <= Len(w) THEN Len(w) - (m + 1) + 1 ELSE 0)
        /\ \A i \in 1 .. Len(w) - (m + 1) + 1 : b[i] = w[m + 1 + i - 1]
    BY <1>1, <2>1, SubSeqProperties
  <2> HIDE DEF b
  <2>3. Len(b) = Len(w) - m
    <3>1. Len(b) = (IF m + 1 <= Len(w) THEN Len(w) - (m + 1) + 1 ELSE 0)
      BY <2>2
    <3>2. Len(w) \in Nat /\ m \in Nat /\ m <= Len(w)
      BY <1>1
    <3> QED BY <3>1, <3>2
  <2>4. ASSUME NEW i \in 1 .. Len(w) - m PROVE b[i] = w[m + i]
    <3>1. i \in 1 .. Len(w) - (m + 1) + 1 /\ m + 1 + i - 1 = m + i
      BY <1>1
    <3> QED BY <2>2, <3>1
  <2> QED BY <2>2, <2>3, <2>4
<1> HIDE DEF a, b
<1>4. FailedAt(a) = {k \in 1 .. m : w[k].failed}
  BY <1>1, <1>2, LenProperties DEF FailedAt
<1>5. FailedAt(b) = {k \in 1 .. Len(w) - m : w[m + k].failed}
  BY <1>1, <1>3, LenProperties DEF FailedAt
<1>6. FailedAt(w) = FailedAt(a) \cup B /\ FailedAt(a) \cap B = {}
  BY <1>1, <1>4 DEF FailedAt
<1>7. IsFiniteSet(B) /\ Cardinality(B) = Cardinality(FailedAt(b))
  <2> DEFINE f == [k \in FailedAt(b) |-> m + k]
  <2>1. f \in Bijection(FailedAt(b), B)
    <3>1. f \in [FailedAt(b) -> B]
      BY <1>1, <1>5
    <3>2. \A x, y \in FailedAt(b) : f[x] = f[y] => x = y
      BY <1>1, <1>5
    <3>3. \A t \in B : \E s \in FailedAt(b) : f[s] = t
      <4> TAKE t \in B
      <4>1. t - m \in FailedAt(b) /\ m + (t - m) = t
        BY <1>1, <1>5
      <4> QED BY <4>1
    <3> HIDE DEF f
    <3>4. DOMAIN f = FailedAt(b)
      BY <3>1
    <3> QED BY <3>1, <3>2, <3>3, <3>4 DEF Bijection, Injection, Surjection, IsInjective
  <2>2. ExistsBijection(FailedAt(b), B)
    BY <2>1 DEF ExistsBijection
  <2>3. IsFiniteSet(FailedAt(b))
    BY <1>3, FailedFinite
  <2> QED BY <2>2, <2>3, FS_Bijection
<1>8. IsFiniteSet(FailedAt(a))
  BY <1>2, FailedFinite
<1>9. Cardinality(FailedAt(w)) = Cardinality(FailedAt(a)) + Cardinality(B)
  <2>1. Cardinality(FailedAt(a) \cap B) = 0
    BY <1>6, FS_EmptySet
  <2>2. Cardinality(FailedAt(a)) \in Nat /\ Cardinality(B) \in Nat
    BY <1>7, <1>8, FS_CardinalityType
  <2> HIDE DEF B
  <2>3. Cardinality(FailedAt(a) \cup B) =
          Cardinality(FailedAt(a)) + Cardinality(B) - Cardinality(FailedAt(a) \cap B)
    BY <1>7, <1>8, FS_Union
  <2> QED BY <1>6, <2>1, <2>2, <2>3
<1>10. /\ FailuresIn(w) = Cardinality(FailedAt(w)) /\ FailuresIn(a) = Cardinality(FailedAt(a))
       /\ FailuresIn(b) = Cardinality(FailedAt(b))
  BY <1>2, <1>3, FailedFinite
<1>11. FailuresIn(w) = FailuresIn(a) + FailuresIn(b)
  BY <1>7, <1>9, <1>10
<1> QED BY <1>2, <1>3, <1>11 DEF a, b

LEMMA FailuresAppend ==
  ASSUME NEW w \in Seq(Entry), NEW e \in Entry
  PROVE  /\ Append(w, e) \in Seq(Entry) /\ Len(Append(w, e)) = Len(w) + 1
         /\ FailuresIn(Append(w, e)) = FailuresIn(w) + (IF e.failed THEN 1 ELSE 0)
<1> DEFINE v == Append(w, e)
<1>1. /\ v \in Seq(Entry) /\ Len(v) = Len(w) + 1 /\ \A i \in 1 .. Len(w) : v[i] = w[i]
      /\ v[Len(w) + 1] = e
  BY AppendProperties
<1> HIDE DEF v
<1>2. Len(w) \in Nat /\ DOMAIN w = 1 .. Len(w) /\ DOMAIN v = 1 .. Len(w) + 1
  BY <1>1, LenProperties
<1>3. FailedAt(v) = IF e.failed THEN FailedAt(w) \cup {Len(w) + 1} ELSE FailedAt(w)
  BY <1>1, <1>2 DEF FailedAt
<1>4. /\ IsFiniteSet(FailedAt(w)) /\ FailedAt(w) \subseteq 1 .. Len(w)
      /\ FailuresIn(w) = Cardinality(FailedAt(w)) /\ FailuresIn(w) \in Nat
      /\ FailuresIn(v) = Cardinality(FailedAt(v))
  BY <1>1, FailedFinite
<1>5. Len(w) + 1 \notin FailedAt(w)
  BY <1>2, <1>4
<1>6. Cardinality(FailedAt(w) \cup {Len(w) + 1}) = Cardinality(FailedAt(w)) + 1
  BY <1>4, <1>5, FS_AddElement
<1>7. FailuresIn(v) = FailuresIn(w) + (IF e.failed THEN 1 ELSE 0)
  BY <1>3, <1>4, <1>6
<1> QED BY <1>1, <1>7 DEF v

\* evict() pops a prefix and takes its failures off the count.
LEMMA Evicted ==
  ASSUME NEW w \in Seq(Entry), NEW now
  PROVE  /\ evict(w, now) \in Seq(Entry) /\ Len(evict(w, now)) <= Len(w)
         /\ evicted_failures(w, FailuresIn(w), now) = FailuresIn(evict(w, now))
<1> DEFINE m == FirstLive(w, now) - 1
<1>1. Len(w) \in Nat
  BY LenProperties
<1>2. m \in 0 .. Len(w) /\ FirstLive(w, now) = m + 1
  BY <1>1, FirstLiveRange
<1> HIDE DEF m
<1>3. evict(w, now) = SubSeq(w, m + 1, Len(w))
  BY <1>2 DEF evict
<1>4. evicted_failures(w, FailuresIn(w), now) = FailuresIn(w) - FailuresIn(SubSeq(w, 1, m))
  <2>1. FirstLive(w, now) - 1 = m
    BY <1>2
  <2> QED BY <2>1 DEF evicted_failures
<1>5. /\ SubSeq(w, 1, m) \in Seq(Entry) /\ SubSeq(w, m + 1, Len(w)) \in Seq(Entry)
      /\ Len(SubSeq(w, m + 1, Len(w))) = Len(w) - m
      /\ FailuresIn(w) = FailuresIn(SubSeq(w, 1, m)) + FailuresIn(SubSeq(w, m + 1, Len(w)))
  BY <1>2, FailuresSplit
<1>6. FailuresIn(SubSeq(w, 1, m)) \in Nat /\ FailuresIn(SubSeq(w, m + 1, Len(w))) \in Nat
  BY <1>5, FailedFinite
<1>7. Len(SubSeq(w, m + 1, Len(w))) <= Len(w)
  BY <1>1, <1>2, <1>5
<1>8. FailuresIn(w) - FailuresIn(SubSeq(w, 1, m)) = FailuresIn(SubSeq(w, m + 1, Len(w)))
  BY <1>5, <1>6
<1> QED BY <1>3, <1>4, <1>5, <1>7, <1>8

\* push() pops at the cap before it appends; the count follows.
LEMMA Pushed ==
  ASSUME NEW w \in Seq(Entry), Len(w) <= WindowCap, NEW e \in Entry
  PROVE  /\ push(w, e) \in Seq(Entry) /\ Len(push(w, e)) <= WindowCap
         /\ pushed_failures(w, FailuresIn(w), e) = FailuresIn(push(w, e))
<1> DEFINE m == Popped(w)
           v == SubSeq(w, m + 1, Len(w))
<1>1. Len(w) \in Nat
  BY LenProperties
<1>2. m \in 0 .. Len(w) /\ (m = 0 => Len(w) < WindowCap) /\ 1 + m = m + 1
  BY <1>1, BreakerAssumption DEF Popped
<1>3. pushed_failures(w, FailuresIn(w), e) =
        FailuresIn(w) - FailuresIn(SubSeq(w, 1, m)) + (IF e.failed THEN 1 ELSE 0)
  BY DEF pushed_failures
<1>4. push(w, e) = Append(v, e)
  BY <1>2 DEF push
<1> HIDE DEF m
<1>5. /\ SubSeq(w, 1, m) \in Seq(Entry) /\ v \in Seq(Entry) /\ Len(v) = Len(w) - m
      /\ FailuresIn(w) = FailuresIn(SubSeq(w, 1, m)) + FailuresIn(v)
  BY <1>2, FailuresSplit
<1> HIDE DEF v
<1>6. FailuresIn(SubSeq(w, 1, m)) \in Nat /\ FailuresIn(v) \in Nat
  BY <1>5, FailedFinite
<1>7. /\ Append(v, e) \in Seq(Entry) /\ Len(Append(v, e)) = Len(v) + 1
      /\ FailuresIn(Append(v, e)) = FailuresIn(v) + (IF e.failed THEN 1 ELSE 0)
  BY <1>5, FailuresAppend
<1>8. Len(Append(v, e)) <= WindowCap
  BY <1>1, <1>2, <1>5, <1>7, BreakerAssumption
<1>9. FailuresIn(w) - FailuresIn(SubSeq(w, 1, m)) = FailuresIn(v)
  BY <1>5, <1>6
<1> QED BY <1>3, <1>4, <1>7, <1>8, <1>9

Aged(w) == [k \in DOMAIN w |-> [w[k] EXCEPT !.age = Older(@, EntryAge)]]

\* The passing of time changes no entry's outcome.
LEMMA AgedWindow ==
  ASSUME NEW w \in Seq(Entry)
  PROVE  Aged(w) \in Seq(Entry) /\ Len(Aged(w)) = Len(w) /\ FailuresIn(Aged(w)) = FailuresIn(w)
<1>1. Len(w) \in Nat /\ DOMAIN w = 1 .. Len(w) /\ \A i \in 1 .. Len(w) : w[i] \in Entry
  BY LenProperties, ElementOfSeq
<1> DEFINE older(e) == [e EXCEPT !.age = Older(@, EntryAge)]
<1>2. ASSUME NEW e \in Entry
      PROVE  older(e) \in Entry /\ older(e).failed = e.failed
  <2>1. EntryAge \in Nat
    BY BreakerAssumption DEF EntryAge
  <2>2. e.age \in 0 .. EntryAge => Older(e.age, EntryAge) \in 0 .. EntryAge
    BY <2>1 DEF Older
  <2> QED BY <2>2 DEF Entry
<1> HIDE DEF older
<1>3. Aged(w) = [k \in 1 .. Len(w) |-> older(w[k])]
  BY <1>1 DEF Aged, older
<1>4. \A k \in 1 .. Len(w) : older(w[k]) \in Entry /\ older(w[k]).failed = w[k].failed
  BY <1>1, <1>2
<1>5. /\ Aged(w) \in Seq(Entry) /\ DOMAIN Aged(w) = 1 .. Len(w)
  BY <1>1, <1>3, <1>4
<1>6. Len(Aged(w)) = Len(w)
  BY <1>1, <1>5, LenProperties
<1>7. {k \in DOMAIN Aged(w) : Aged(w)[k].failed} = {k \in DOMAIN w : w[k].failed}
  BY <1>1, <1>3, <1>4, <1>5
<1> QED BY <1>5, <1>6, <1>7 DEF FailuresIn

-----------------------------------------------------------------------------
(* Types, and the window's count. *)

SharedTyped ==
  /\ state \in {"Closed", "Open", "HalfOpen"}
  /\ opened_age \in 0 .. OpenDuration
  /\ probes \in 0 .. UsizeMod - 1
  /\ claimed_age \in 0 .. LeaseAge
  /\ is_open_fast \in BOOLEAN
  /\ open_for \in 0 .. OpenDuration
  /\ healthy \in BOOLEAN

ThreadTyped ==
  /\ pc \in [Threads -> Between \cup InCheck \cup InRecord \cup InErrorRate]
  /\ failed \in [Threads -> BOOLEAN]
  /\ my_opened \in [Threads -> 0 .. OpenDuration]
  /\ my_now \in [Threads -> 0 .. CallTicks]
  /\ my_claimed \in [Threads -> 0 .. LeaseAge]
  /\ call_age \in [Threads -> 0 .. CallTicks]
  /\ probing \in [Threads -> {NotProbing} \cup 0 .. OpenDuration]

Typed == SharedTyped /\ ThreadTyped

WindowOK == window \in Seq(Entry) /\ WindowConsistent

LEMMA TypedAndCounted == Typed /\ WindowOK => TypeOK
<1> SUFFICES ASSUME Typed, WindowOK PROVE TypeOK
  OBVIOUS
<1>1. failures \in Int
  BY FailedFinite DEF WindowOK, WindowConsistent
<1> QED BY <1>1 DEF Typed, SharedTyped, ThreadTyped, TypeOK, WindowOK, Entry

LEMMA InitTyped == Init => Typed /\ WindowOK
<1> SUFFICES ASSUME Init PROVE Typed /\ WindowOK
  OBVIOUS
<1>1. SharedTyped
  <2>1. is_open_fast \in BOOLEAN /\ healthy \in BOOLEAN
    BY DEF Init
  <2>2. opened_age \in 0 .. OpenDuration /\ claimed_age \in 0 .. LeaseAge
    BY BreakerAssumption DEF Init, LeaseAge
  <2>3. state \in {"Closed", "Open", "HalfOpen"} /\ open_for \in 0 .. OpenDuration
    BY BreakerAssumption DEF Init
  <2>4. probes \in 0 .. UsizeMod - 1
    BY BreakerAssumption DEF Init
  <2> QED BY <2>1, <2>2, <2>3, <2>4 DEF SharedTyped
<1>2. ThreadTyped
  BY BreakerAssumption DEF Init, ThreadTyped, LeaseAge, Between, NotProbing
<1>3. WindowOK
  <2>1. window = <<>> /\ failures = 0
    BY DEF Init
  <2>2. window \in Seq(Entry) /\ Len(window) = 0
    BY <2>1, EmptySeq
  <2> QED BY <2>1, <2>2, NoFailures, BreakerAssumption DEF WindowOK, WindowConsistent
<1> QED BY <1>1, <1>2, <1>3 DEF Typed

\* The ways a thread moves on keep its fields well typed.
LEMMA ForgetTyped ==
  ASSUME Typed, NEW th \in Threads, Forget(th)
  PROVE  /\ failed' \in [Threads -> BOOLEAN] /\ my_opened' \in [Threads -> 0 .. OpenDuration]
         /\ my_now' \in [Threads -> 0 .. CallTicks]
         /\ my_claimed' \in [Threads -> 0 .. LeaseAge]
  BY BreakerAssumption DEF Typed, ThreadTyped, Forget, LeaseAge

LEMMA ReturnTyped ==
  ASSUME Typed, NEW th \in Threads, Return(th)
  PROVE  ThreadTyped'
  BY BreakerAssumption, ForgetTyped DEF Typed, ThreadTyped, Return, Between

LEMMA AdmitTyped ==
  ASSUME Typed, NEW th \in Threads, NEW age \in {NotProbing} \cup 0 .. CallTicks,
         Admit(th, age)
  PROVE  ThreadTyped'
<1>1. age \in {NotProbing} \cup 0 .. OpenDuration
  BY BreakerAssumption DEF NotProbing
<1> QED BY <1>1, BreakerAssumption, ForgetTyped DEF Typed, ThreadTyped, Admit, Between

LEMMA GotoTyped ==
  ASSUME Typed, NEW th \in Threads, NEW label \in InCheck \cup InRecord,
         Goto(th, label), UNCHANGED locals
  PROVE  ThreadTyped'
  BY DEF Typed, ThreadTyped, Goto, locals

LEMMA EnterTyped ==
  ASSUME Typed, NEW th \in Threads, NEW label \in InCheck \cup InRecord, Enter(th, label)
  PROVE  ThreadTyped'
  BY ForgetTyped DEF Typed, ThreadTyped, Goto, Enter

LEMMA CheckTyped ==
  ASSUME Typed, NEW th \in Threads, Check(th) \/ CheckStep(th)
  PROVE  Typed'
<1> USE BreakerAssumption
<1>0. healthy' = healthy
  BY DEF Check, CheckStep, LoadOpened, CasState, ClearMirror, Reload, ReadNow, FetchAdd, Claim,
         FetchSub, Lease, LeaseCas, Goto, Enter, Admit, Return
<1>1. CASE Check(th)
  <2>1. ThreadTyped'
    BY <1>1, AdmitTyped, GotoTyped DEF Check, InCheck
  <2>2. SharedTyped'
    BY <1>0, <1>1 DEF Check, shared, Typed, SharedTyped
  <2> QED BY <2>1, <2>2 DEF Typed
<1>2. CASE LoadOpened(th)
  <2>1. SharedTyped'
    BY <1>0, <1>2 DEF LoadOpened, shared, Typed, SharedTyped
  <2>2. ThreadTyped'
    BY <1>2 DEF LoadOpened, Goto, Typed, SharedTyped, ThreadTyped, InCheck
  <2> QED BY <2>1, <2>2 DEF Typed
<1>3. CASE CasState(th)
  <2>1. SharedTyped'
    BY <1>0, <1>3 DEF CasState, Typed, SharedTyped
  <2>2. ThreadTyped'
    BY <1>3, ReturnTyped, EnterTyped DEF CasState, InCheck
  <2> QED BY <2>1, <2>2 DEF Typed
<1>4. CASE ClearMirror(th)
  <2>1. SharedTyped'
    BY <1>0, <1>4 DEF ClearMirror, Typed, SharedTyped
  <2>2. ThreadTyped'
    BY <1>4, GotoTyped DEF ClearMirror, InCheck, locals
  <2> QED BY <2>1, <2>2 DEF Typed
<1>5. CASE Reload(th)
  <2>1. SharedTyped'
    BY <1>0, <1>5 DEF Reload, Typed, SharedTyped, shared
  <2>2. ThreadTyped'
    BY <1>5, AdmitTyped, GotoTyped, ReturnTyped DEF Reload, InCheck
  <2> QED BY <2>1, <2>2 DEF Typed
<1>6. CASE ReadNow(th)
  <2>1. SharedTyped'
    BY <1>0, <1>6 DEF ReadNow, Typed, SharedTyped, shared
  <2>2. ThreadTyped'
    BY <1>6 DEF ReadNow, Goto, Typed, ThreadTyped, InCheck
  <2> QED BY <2>1, <2>2 DEF Typed
<1>7. CASE FetchAdd(th)
  <2>1. SharedTyped'
    BY <1>0, <1>7 DEF FetchAdd, Typed, SharedTyped
  <2>2. ThreadTyped'
    BY <1>7, GotoTyped DEF FetchAdd, InCheck, locals
  <2> QED BY <2>1, <2>2 DEF Typed
<1>8. CASE Claim(th)
  <2>0. my_now[th] \in 0 .. CallTicks
    BY DEF Typed, ThreadTyped
  <2>1. SharedTyped'
    BY <1>0, <1>8, <2>0 DEF Claim, Typed, SharedTyped, LeaseAge
  <2>2. ThreadTyped'
    BY <1>8, <2>0, AdmitTyped DEF Claim
  <2> QED BY <2>1, <2>2 DEF Typed
<1>9. CASE FetchSub(th)
  <2>1. SharedTyped'
    BY <1>0, <1>9 DEF FetchSub, Typed, SharedTyped
  <2>2. ThreadTyped'
    BY <1>9, GotoTyped DEF FetchSub, InCheck, locals
  <2> QED BY <2>1, <2>2 DEF Typed
<1>10. CASE Lease(th)
  <2>1. SharedTyped'
    BY <1>0, <1>10 DEF Lease, Typed, SharedTyped, shared
  <2>2. ThreadTyped'
    <3>1. CASE Return(th)
      BY <3>1, ReturnTyped
    <3>2. CASE ~Return(th)
      BY <1>10, <3>2 DEF Lease, Goto, Typed, SharedTyped, ThreadTyped, InCheck
    <3> QED BY <3>1, <3>2
  <2> QED BY <2>1, <2>2 DEF Typed
<1>11. CASE LeaseCas(th)
  <2>0. my_now[th] \in 0 .. CallTicks
    BY DEF Typed, ThreadTyped
  <2>1. SharedTyped'
    BY <1>0, <1>11, <2>0 DEF LeaseCas, Typed, SharedTyped, LeaseAge
  <2>2. ThreadTyped'
    BY <1>11, <2>0, AdmitTyped, ReturnTyped DEF LeaseCas
  <2> QED BY <2>1, <2>2 DEF Typed
<1> QED BY <1>1, <1>2, <1>3, <1>4, <1>5, <1>6, <1>7, <1>8, <1>9, <1>10, <1>11 DEF CheckStep

LEMMA RecordTyped ==
  ASSUME Typed, NEW th \in Threads,
         (\E fails \in BOOLEAN : Record(th, fails)) \/ RecordStep(th) \/ Abandon(th)
         \/ ErrorRate(th) \/ Evict(th)
  PROVE  Typed'
<1> USE BreakerAssumption
<1>0. healthy' = healthy
  BY DEF Record, RecordStep, Abandon, ErrorRate, Evict, LoadState, PushClosed, PushOpen,
         TripState, TripNow, TripOpened, TripProbes, TripMirror, CloseState, CloseWindow, CloseProbes, CloseMirror,
         Goto, Enter, Return
<1>1. CASE \E fails \in BOOLEAN : Record(th, fails)
  <2>1. SharedTyped'
    BY <1>0, <1>1 DEF Record, Typed, SharedTyped, shared
  <2>2. ThreadTyped'
    BY <1>1 DEF Record, Goto, Typed, ThreadTyped, InRecord
  <2> QED BY <2>1, <2>2 DEF Typed
<1>2. CASE LoadState(th)
  <2>1. SharedTyped'
    BY <1>0, <1>2 DEF LoadState, Typed, SharedTyped, shared
  <2>2. ThreadTyped'
    BY <1>2, GotoTyped, EnterTyped DEF LoadState, InRecord
  <2> QED BY <2>1, <2>2 DEF Typed
<1>3. CASE PushClosed(th) \/ PushOpen(th)
  <2>1. SharedTyped'
    BY <1>0, <1>3 DEF PushClosed, PushOpen, Typed, SharedTyped
  <2>2. ThreadTyped'
    BY <1>3, ReturnTyped, EnterTyped DEF PushClosed, PushOpen, InRecord
  <2> QED BY <2>1, <2>2 DEF Typed
<1>4. CASE TripState(th) \/ TripOpened(th) \/ TripProbes(th)
  <2>0. my_now[th] \in 0 .. CallTicks
    BY DEF Typed, ThreadTyped
  <2>1. SharedTyped'
    BY <1>0, <1>4, <2>0 DEF TripState, TripOpened, TripProbes, Typed, SharedTyped
  <2>2. ThreadTyped'
    BY <1>4, GotoTyped DEF TripState, TripOpened, TripProbes, InRecord, locals
  <2> QED BY <2>1, <2>2 DEF Typed
<1>5. CASE CloseState(th) \/ CloseWindow(th) \/ CloseProbes(th)
  <2>1. SharedTyped'
    BY <1>0, <1>5 DEF CloseState, CloseWindow, CloseProbes, Typed, SharedTyped
  <2>2. ThreadTyped'
    BY <1>5, GotoTyped DEF CloseState, CloseWindow, CloseProbes, InRecord, locals
  <2> QED BY <2>1, <2>2 DEF Typed
<1>6. CASE TripMirror(th) \/ CloseMirror(th) \/ Abandon(th)
  <2>1. SharedTyped'
    BY <1>0, <1>6 DEF TripMirror, CloseMirror, Abandon, Typed, SharedTyped, shared
  <2>2. ThreadTyped'
    BY <1>6, ReturnTyped DEF TripMirror, CloseMirror, Abandon
  <2> QED BY <2>1, <2>2 DEF Typed
<1>7. CASE ErrorRate(th) \/ TripNow(th)
  <2>1. SharedTyped'
    BY <1>0, <1>7 DEF ErrorRate, TripNow, Typed, SharedTyped, shared
  <2>2. ThreadTyped'
    BY <1>7 DEF ErrorRate, TripNow, Goto, Typed, ThreadTyped, InRecord, InErrorRate
  <2> QED BY <2>1, <2>2 DEF Typed
<1>8. CASE Evict(th)
  <2>1. SharedTyped'
    BY <1>0, <1>8 DEF Evict, Typed, SharedTyped
  <2>2. ThreadTyped'
    BY <1>8, ReturnTyped DEF Evict
  <2> QED BY <2>1, <2>2 DEF Typed
<1> QED BY <1>1, <1>2, <1>3, <1>4, <1>5, <1>6, <1>7, <1>8 DEF RecordStep

LEMMA TickTyped == Typed /\ Tick => Typed'
<1> SUFFICES ASSUME Typed, Tick PROVE Typed'
  OBVIOUS
<1> USE BreakerAssumption
<1>1. SharedTyped'
  BY DEF Typed, SharedTyped, Tick, Older, LeaseAge
<1>2. pc' = pc /\ failed' = failed
  BY DEF Tick
<1>3. my_opened' \in [Threads -> 0 .. OpenDuration]
  BY DEF Typed, ThreadTyped, Tick, Older
<1>4. my_now' \in [Threads -> 0 .. CallTicks]
  BY DEF Typed, ThreadTyped, Tick, Older
<1>5. my_claimed' \in [Threads -> 0 .. LeaseAge]
  BY DEF Typed, ThreadTyped, Tick, Older, LeaseAge
<1>6. call_age' \in [Threads -> 0 .. CallTicks]
  BY DEF Typed, ThreadTyped, Tick
<1>7. probing' \in [Threads -> {NotProbing} \cup 0 .. OpenDuration]
  BY DEF Typed, ThreadTyped, Tick, Older
<1> QED BY <1>1, <1>2, <1>3, <1>4, <1>5, <1>6, <1>7 DEF Typed, ThreadTyped

LEMMA NextTyped == Typed /\ [Next]_vars => Typed'
<1> SUFFICES ASSUME Typed, [Next]_vars PROVE Typed'
  OBVIOUS
<1>1. CASE Tick
  BY <1>1, TickTyped
<1>2. CASE Recover
  BY <1>2 DEF Recover, shared, locals, Typed, SharedTyped, ThreadTyped
<1>3. CASE UNCHANGED vars
  BY <1>3 DEF vars, Typed, SharedTyped, ThreadTyped
<1> QED BY <1>1, <1>2, <1>3, CheckTyped, RecordTyped DEF Next

LEMMA PushKeeps ==
  ASSUME Typed, WindowOK, NEW th \in Threads, PushSample(th)
  PROVE  WindowOK'
<1> DEFINE e == [age |-> my_now[th], failed |-> failed[th]]
<1>1. e \in Entry
  BY BreakerAssumption DEF Typed, ThreadTyped, Entry, EntryAge
<1> DEFINE w == push(window, e)
<1>2. /\ window' = evict(w, my_now[th])
      /\ failures' = evicted_failures(w, pushed_failures(window, failures, e), my_now[th])
  BY DEF PushSample
<1> HIDE DEF e
<1>3. /\ w \in Seq(Entry) /\ Len(w) <= WindowCap
      /\ pushed_failures(window, failures, e) = FailuresIn(w)
  BY <1>1, Pushed DEF WindowOK, WindowConsistent
<1> HIDE DEF w
<1>4. /\ window' \in Seq(Entry) /\ Len(window') <= Len(w) /\ failures' = FailuresIn(window')
  BY <1>2, <1>3, Evicted
<1>5. Len(window') \in Nat /\ Len(w) \in Nat
  BY <1>3, <1>4, LenProperties
<1> QED BY <1>3, <1>4, <1>5, BreakerAssumption DEF WindowOK, WindowConsistent

LEMMA NextCounted == Typed /\ WindowOK /\ [Next]_vars => WindowOK'
<1> SUFFICES ASSUME Typed, WindowOK, [Next]_vars PROVE WindowOK'
  OBVIOUS
<1>1. CASE UNCHANGED <<window, failures>>
  BY <1>1 DEF WindowOK, WindowConsistent
<1>2. ASSUME NEW th \in Threads, PushSample(th) PROVE WindowOK'
  BY <1>2, PushKeeps
<1>3. ASSUME NEW th \in Threads, Evict(th) PROVE WindowOK'
  <2>1. /\ window' = evict(window, my_now[th])
        /\ failures' = evicted_failures(window, failures, my_now[th])
    BY <1>3 DEF Evict
  <2>2. window' \in Seq(Entry) /\ Len(window') <= Len(window) /\ failures' = FailuresIn(window')
    BY <2>1, Evicted DEF WindowOK, WindowConsistent
  <2>3. Len(window') \in Nat /\ Len(window) \in Nat
    BY <2>2, LenProperties DEF WindowOK
  <2> QED BY <2>2, <2>3, BreakerAssumption DEF WindowOK, WindowConsistent
<1>4. ASSUME window' = <<>>, failures' = 0 PROVE WindowOK'
  <2>1. window' \in Seq(Entry) /\ Len(window') = 0
    BY <1>4, EmptySeq
  <2> QED BY <1>4, <2>1, NoFailures, BreakerAssumption DEF WindowOK, WindowConsistent
<1>5. CASE Tick
  <2>1. window' = Aged(window) /\ failures' = failures
    BY <1>5 DEF Tick, Aged
  <2> QED BY <2>1, AgedWindow DEF WindowOK, WindowConsistent
<1>6. ASSUME NEW th \in Threads, Check(th) \/ CheckStep(th) PROVE UNCHANGED <<window, failures>>
  BY <1>6 DEF Check, CheckStep, LoadOpened, CasState, ClearMirror, Reload, ReadNow, FetchAdd,
              Claim, FetchSub, Lease, LeaseCas, shared
<1>7. ASSUME NEW th \in Threads,
             \/ \E fails \in BOOLEAN : Record(th, fails)
             \/ LoadState(th) \/ TripState(th) \/ TripNow(th) \/ TripOpened(th) \/ TripProbes(th)
             \/ TripMirror(th) \/ CloseState(th) \/ CloseProbes(th) \/ CloseMirror(th)
             \/ Abandon(th) \/ ErrorRate(th)
      PROVE UNCHANGED <<window, failures>>
  BY <1>7 DEF Record, LoadState, ErrorRate, TripState, TripNow, TripOpened, TripProbes, TripMirror, CloseState,
              CloseProbes, CloseMirror, Abandon, shared
<1>8. ASSUME NEW th \in Threads, PushClosed(th) \/ PushOpen(th) PROVE PushSample(th)
  BY <1>8 DEF PushClosed, PushOpen
<1>9. ASSUME NEW th \in Threads, CloseWindow(th) PROVE window' = <<>> /\ failures' = 0
  BY <1>9 DEF CloseWindow
<1>10. CASE Recover
  BY <1>1, <1>10 DEF Recover, shared
<1>11. CASE UNCHANGED vars
  BY <1>1, <1>11 DEF vars
<1> QED BY <1>1, <1>2, <1>3, <1>4, <1>5, <1>6, <1>7, <1>8, <1>9, <1>10, <1>11 DEF Next, RecordStep

(***************************************************************************)
(* Every reachable state is well typed: in particular the counter of the   *)
(* probes stays in a usize whatever fetch_sub wraps, and the CHOOSE of the *)
(* first live entry always finds one (breaker.rs, window.rs).              *)
(***************************************************************************)
THEOREM TypeCorrect == Spec => []TypeOK
<1>1. Init => Typed /\ WindowOK
  BY InitTyped
<1>2. Typed /\ WindowOK /\ [Next]_vars => (Typed /\ WindowOK)'
  BY NextTyped, NextCounted
<1>3. Typed /\ WindowOK => TypeOK
  BY TypedAndCounted
<1> QED BY <1>1, <1>2, <1>3, PTL DEF Spec

(***************************************************************************)
(* The incremental failure count of the window is the number of failed     *)
(* entries, and the window never exceeds its cap, however calls interleave *)
(* and whatever the order of their clock readings (window.rs push, evict). *)
(***************************************************************************)
THEOREM FailureCountExact == Spec => []WindowConsistent
<1>1. Init => Typed /\ WindowOK
  BY InitTyped
<1>2. Typed /\ WindowOK /\ [Next]_vars => (Typed /\ WindowOK)'
  BY NextTyped, NextCounted
<1>3. WindowOK => WindowConsistent
  BY DEF WindowOK
<1> QED BY <1>1, <1>2, <1>3, PTL DEF Spec

-----------------------------------------------------------------------------
(* The cool-down, with any number of trips, checks and clocks in between.  *)

\* The stamp belongs to the latest trip, give or take one call, or that trip is
\* still on its way to store it.
StampKept ==
  \/ \E th \in Stamping : open_for <= call_age[th]
  \/ opened_age <= open_for + CallTicks

\* A check() that has read the stamp read one that belongs to the latest trip, or
\* began before that trip had stamped.
LoadKept(th) ==
  pc[th] = "cas_state" =>
    my_opened[th] <= open_for + CallTicks \/ open_for <= CallTicks + call_age[th]

CoolDownInv == Typed /\ StampKept /\ \A th \in Threads : LoadKept(th)

\* What the other threads have is untouched by a step of th.
Apart(th) ==
  \A o \in Threads \ {th} :
    pc'[o] = pc[o] /\ call_age'[o] = call_age[o] /\ my_opened'[o] = my_opened[o]

LEMMA GotoApart ==
  ASSUME Typed, NEW th \in Threads, NEW label, Goto(th, label),
         \A o \in Threads \ {th} : my_opened'[o] = my_opened[o]
  PROVE  Apart(th) /\ pc'[th] = label /\ call_age' = call_age
  BY DEF Goto, Apart, Typed, ThreadTyped

LEMMA EnterApart ==
  ASSUME Typed, NEW th \in Threads, NEW label, Enter(th, label)
  PROVE  Apart(th) /\ pc'[th] = label
  BY DEF Enter, Goto, Forget, Apart, Typed, ThreadTyped

LEMMA ReturnApart ==
  ASSUME Typed, NEW th \in Threads, Return(th)
  PROVE  Apart(th) /\ pc'[th] = "idle"
  BY DEF Return, Forget, Apart, Typed, ThreadTyped

LEMMA AdmitApart ==
  ASSUME Typed, NEW th \in Threads, NEW age, Admit(th, age)
  PROVE  Apart(th) /\ pc'[th] = "admitted"
  BY DEF Admit, Forget, Apart, Typed, ThreadTyped

\* A step that stores neither the state nor the stamp and is not about them.
Elsewhere(th) ==
  /\ Apart(th)
  /\ opened_age' = opened_age /\ open_for' = open_for
  /\ pc[th] \notin {"trip_now", "trip_opened"}
  /\ pc'[th] # "cas_state"

LEMMA ElsewhereKept ==
  ASSUME CoolDownInv, NEW th \in Threads, Elsewhere(th)
  PROVE  StampKept' /\ \A o \in Threads : LoadKept(o)'
<1>1. StampKept'
  <2>1. CASE \E o \in Stamping : open_for <= call_age[o]
    <3>1. PICK o \in Stamping : open_for <= call_age[o]
      BY <2>1
    <3>2. o \in Threads \ {th} /\ pc[o] \in {"trip_now", "trip_opened"}
      BY <3>1 DEF Stamping, Elsewhere
    <3>3. o \in Stamping' /\ open_for' <= call_age'[o]
      BY <3>1, <3>2 DEF Stamping, Elsewhere, Apart
    <3> QED BY <3>3 DEF StampKept
  <2>2. CASE opened_age <= open_for + CallTicks
    BY <2>2 DEF StampKept, Elsewhere
  <2> QED BY <2>1, <2>2 DEF CoolDownInv, StampKept
<1>2. ASSUME NEW o \in Threads PROVE LoadKept(o)'
  <2>1. CASE o = th
    BY <2>1 DEF LoadKept, Elsewhere
  <2>2. CASE o # th
    BY <2>2 DEF CoolDownInv, LoadKept, Elsewhere, Apart
  <2> QED BY <2>1, <2>2
<1> QED BY <1>1, <1>2

LEMMA CheckElsewhere ==
  ASSUME Typed, NEW th \in Threads,
         Check(th) \/ (CheckStep(th) /\ ~LoadOpened(th))
  PROVE  Elsewhere(th)
<1>1. CASE Check(th)
  BY <1>1, AdmitApart, GotoApart DEF Check, Elsewhere, shared, locals
<1>2. CASE CasState(th)
  BY <1>2, ReturnApart, EnterApart DEF CasState, Elsewhere
<1>3. CASE ClearMirror(th)
  BY <1>3, GotoApart DEF ClearMirror, Elsewhere, locals
<1>4. CASE Reload(th)
  BY <1>4, AdmitApart, GotoApart, ReturnApart DEF Reload, Elsewhere, shared, locals
<1>5. CASE ReadNow(th)
  BY <1>5, GotoApart DEF ReadNow, Elsewhere, shared
<1>6. CASE FetchAdd(th)
  <2>1. pc'[th] # "cas_state" /\ Apart(th)
    BY <1>6, GotoApart DEF FetchAdd, locals
  <2> QED BY <1>6, <2>1 DEF FetchAdd, Elsewhere
<1>7. CASE Claim(th)
  BY <1>7, AdmitApart DEF Claim, Elsewhere
<1>8. CASE FetchSub(th)
  BY <1>8, GotoApart DEF FetchSub, Elsewhere, locals
<1>9. CASE Lease(th)
  BY <1>9, GotoApart, ReturnApart DEF Lease, Elsewhere, shared
<1>10. CASE LeaseCas(th)
  BY <1>10, AdmitApart, ReturnApart DEF LeaseCas, Elsewhere
<1> QED BY <1>1, <1>2, <1>3, <1>4, <1>5, <1>6, <1>7, <1>8, <1>9, <1>10 DEF CheckStep

LEMMA RecordElsewhere ==
  ASSUME Typed, NEW th \in Threads,
         \/ \E fails \in BOOLEAN : Record(th, fails)
         \/ LoadState(th) \/ PushClosed(th) \/ PushOpen(th) \/ TripProbes(th) \/ TripMirror(th)
         \/ CloseState(th) \/ CloseWindow(th) \/ CloseProbes(th) \/ CloseMirror(th)
         \/ Abandon(th) \/ ErrorRate(th) \/ Evict(th)
  PROVE  Elsewhere(th)
<1>1. CASE (\E fails \in BOOLEAN : Record(th, fails)) \/ ErrorRate(th)
  BY <1>1, GotoApart DEF Record, ErrorRate, Elsewhere, shared
<1>2. CASE LoadState(th)
  BY <1>2, GotoApart, EnterApart DEF LoadState, Elsewhere, shared, locals
<1>3. CASE PushClosed(th) \/ PushOpen(th) \/ Evict(th)
  BY <1>3, ReturnApart, EnterApart DEF PushClosed, PushOpen, Evict, Elsewhere
<1>4. CASE TripProbes(th) \/ CloseState(th) \/ CloseWindow(th) \/ CloseProbes(th)
  BY <1>4, GotoApart DEF TripProbes, CloseState, CloseWindow, CloseProbes, Elsewhere, locals
<1>5. CASE TripMirror(th) \/ CloseMirror(th) \/ Abandon(th)
  BY <1>5, ReturnApart DEF TripMirror, CloseMirror, Abandon, Elsewhere, shared
<1> QED BY <1>1, <1>2, <1>3, <1>4, <1>5

LEMMA TripKept ==
  ASSUME CoolDownInv, NEW th \in Threads, TripState(th) \/ TripNow(th) \/ TripOpened(th)
  PROVE  StampKept' /\ \A o \in Threads : LoadKept(o)'
<1> USE BreakerAssumption
<1>0. /\ Typed /\ call_age \in [Threads -> 0 .. CallTicks]
      /\ opened_age \in 0 .. OpenDuration /\ open_for \in 0 .. OpenDuration
      /\ my_now[th] \in 0 .. CallTicks
      /\ my_opened \in [Threads -> 0 .. OpenDuration]
  BY DEF CoolDownInv, Typed, SharedTyped, ThreadTyped
<1>1. Apart(th) /\ call_age' = call_age /\ pc'[th] # "cas_state"
  BY <1>0, GotoApart DEF TripState, TripNow, TripOpened, locals
<1>2. CASE TripState(th)
  <2>1. pc'[th] = "trip_now" /\ th \in Stamping'
    BY <1>0, <1>2, GotoApart DEF TripState, locals, Stamping
  <2>2. open_for' = 0 \/ open_for' = OpenDuration
    BY <1>2 DEF TripState
  <2>3. opened_age' = opened_age
    BY <1>2 DEF TripState
  <2>4. StampKept'
    BY <1>0, <1>1, <2>1, <2>2, <2>3 DEF StampKept
  <2>5. ASSUME NEW o \in Threads PROVE LoadKept(o)'
    BY <1>0, <1>1, <2>2 DEF LoadKept, Apart
  <2> QED BY <2>4, <2>5
<1>3. CASE TripNow(th)
  <2>1. pc'[th] = "trip_opened" /\ open_for' = open_for /\ opened_age' = opened_age
    BY <1>0, <1>3, GotoApart DEF TripNow, shared
  <2>2. Stamping' = Stamping
    BY <1>0, <1>1, <1>3, <2>1 DEF Stamping, Apart, TripNow
  <2>3. StampKept'
    BY <1>1, <2>1, <2>2 DEF StampKept, CoolDownInv
  <2>4. ASSUME NEW o \in Threads PROVE LoadKept(o)'
    BY <1>1, <2>1 DEF LoadKept, Apart, CoolDownInv
  <2> QED BY <2>3, <2>4
<1>4. CASE TripOpened(th)
  <2>1. opened_age' = my_now[th] /\ open_for' = open_for
    BY <1>4 DEF TripOpened
  <2>2. StampKept'
    BY <1>0, <2>1 DEF StampKept
  <2>3. ASSUME NEW o \in Threads PROVE LoadKept(o)'
    BY <1>1, <2>1 DEF LoadKept, Apart, CoolDownInv
  <2> QED BY <2>2, <2>3
<1> QED BY <1>2, <1>3, <1>4

LEMMA LoadOpenedKept ==
  ASSUME CoolDownInv, NEW th \in Threads, LoadOpened(th)
  PROVE  StampKept' /\ \A o \in Threads : LoadKept(o)'
<1> USE BreakerAssumption
<1>0. /\ Typed /\ call_age \in [Threads -> 0 .. CallTicks]
      /\ opened_age \in 0 .. OpenDuration /\ open_for \in 0 .. OpenDuration
      /\ my_opened \in [Threads -> 0 .. OpenDuration]
  BY DEF CoolDownInv, Typed, SharedTyped, ThreadTyped
<1>1. /\ Apart(th) /\ call_age' = call_age /\ pc'[th] = "cas_state"
      /\ opened_age' = opened_age /\ open_for' = open_for /\ my_opened'[th] = opened_age
  BY <1>0, GotoApart DEF LoadOpened, shared
<1>2. Stamping' = Stamping
  BY <1>1 DEF Stamping, Apart, LoadOpened
<1>3. StampKept'
  BY <1>1, <1>2 DEF StampKept, CoolDownInv
<1>4. LoadKept(th)'
  <2>1. CASE \E o \in Stamping : open_for <= call_age[o]
    <3>1. PICK o \in Stamping : open_for <= call_age[o]
      BY <2>1
    <3>2. o \in Threads /\ call_age[o] <= CallTicks
      BY <1>0, <3>1 DEF Stamping
    <3> QED BY <1>0, <1>1, <3>1, <3>2 DEF LoadKept
  <2>2. CASE opened_age <= open_for + CallTicks
    BY <1>1, <2>2 DEF LoadKept
  <2> QED BY <2>1, <2>2 DEF CoolDownInv, StampKept
<1>5. ASSUME NEW o \in Threads, o # th PROVE LoadKept(o)'
  BY <1>1, <1>5 DEF LoadKept, Apart, CoolDownInv
<1> QED BY <1>3, <1>4, <1>5

LEMMA TickKept ==
  ASSUME CoolDownInv, Tick
  PROVE  StampKept' /\ \A o \in Threads : LoadKept(o)'
<1> USE BreakerAssumption
<1>0. /\ call_age \in [Threads -> 0 .. CallTicks]
      /\ opened_age \in 0 .. OpenDuration /\ open_for \in 0 .. OpenDuration
      /\ my_opened \in [Threads -> 0 .. OpenDuration]
  BY DEF CoolDownInv, Typed, SharedTyped, ThreadTyped
<1>1. /\ pc' = pc /\ opened_age' = Older(opened_age, OpenDuration)
      /\ open_for' = Older(open_for, OpenDuration)
  BY DEF Tick
<1>2. ASSUME NEW o \in Threads, MidCall(o)
      PROVE  call_age'[o] = call_age[o] + 1
  BY <1>0, <1>2 DEF Tick
<1>3. StampKept'
  <2>1. CASE \E o \in Stamping : open_for <= call_age[o]
    <3>1. PICK o \in Stamping : open_for <= call_age[o]
      BY <2>1
    <3>2. o \in Threads /\ MidCall(o) /\ o \in Stamping'
      BY <1>1, <3>1 DEF Stamping, MidCall, Between
    <3>3. open_for' <= call_age'[o]
      BY <1>0, <1>1, <1>2, <3>1, <3>2 DEF Older
    <3> QED BY <3>2, <3>3 DEF StampKept
  <2>2. CASE opened_age <= open_for + CallTicks
    BY <1>0, <1>1, <2>2 DEF StampKept, Older
  <2> QED BY <2>1, <2>2 DEF CoolDownInv, StampKept
<1>4. ASSUME NEW o \in Threads PROVE LoadKept(o)'
  <2>1. CASE pc[o] = "cas_state"
    <3>1. MidCall(o)
      BY <2>1 DEF MidCall, Between
    <3>2. my_opened'[o] = Older(my_opened[o], OpenDuration)
      BY <2>1 DEF Tick
    <3>3. my_opened[o] <= open_for + CallTicks \/ open_for <= CallTicks + call_age[o]
      BY <2>1 DEF CoolDownInv, LoadKept
    <3> QED BY <1>0, <1>1, <1>2, <3>1, <3>2, <3>3 DEF LoadKept, Older
  <2>2. CASE pc[o] # "cas_state"
    BY <1>1, <2>2 DEF LoadKept
  <2> QED BY <2>1, <2>2
<1> QED BY <1>3, <1>4

LEMMA CoolDownStep == CoolDownInv /\ [Next]_vars => CoolDownInv'
<1> SUFFICES ASSUME CoolDownInv, [Next]_vars PROVE CoolDownInv'
  OBVIOUS
<1>1. Typed /\ Typed'
  BY NextTyped DEF CoolDownInv
<1>2. ASSUME NEW th \in Threads, Check(th) \/ CheckStep(th)
      PROVE  StampKept' /\ \A o \in Threads : LoadKept(o)'
  BY <1>1, <1>2, CheckElsewhere, ElsewhereKept, LoadOpenedKept
<1>3. ASSUME NEW th \in Threads,
             \/ \E fails \in BOOLEAN : Record(th, fails)
             \/ RecordStep(th) \/ Abandon(th) \/ ErrorRate(th) \/ Evict(th)
      PROVE  StampKept' /\ \A o \in Threads : LoadKept(o)'
  BY <1>1, <1>3, RecordElsewhere, ElsewhereKept, TripKept DEF RecordStep
<1>4. CASE Recover \/ UNCHANGED vars
  <2>1. UNCHANGED <<pc, call_age, my_opened, opened_age, open_for>>
    BY <1>4 DEF Recover, vars, shared, locals
  <2>2. Stamping' = Stamping
    BY <2>1 DEF Stamping
  <2> QED BY <1>1, <2>1, <2>2 DEF CoolDownInv, StampKept, LoadKept
<1> QED BY <1>1, <1>2, <1>3, <1>4, TickKept DEF Next, CoolDownInv

LEMMA CoolDownInit == Init => CoolDownInv
<1> SUFFICES ASSUME Init PROVE CoolDownInv
  OBVIOUS
<1>1. opened_age <= open_for + CallTicks
  BY BreakerAssumption DEF Init
<1>2. \A th \in Threads : pc[th] = "idle"
  BY DEF Init
<1> QED BY <1>1, <1>2, InitTyped DEF CoolDownInv, StampKept, LoadKept

(***************************************************************************)
(* However trips overlap, once no trip is between its two stores the stamp *)
(* is that of the latest one up to the duration of a call: none is left    *)
(* with the stamp of an earlier opening (breaker.rs trip).                 *)
(***************************************************************************)
THEOREM StampsFollowTrips == Spec => []StampFresh
<1>1. CoolDownInv => StampFresh
  BY DEF CoolDownInv, StampKept, StampFresh
<1> QED BY <1>1, CoolDownInit, CoolDownStep, PTL DEF Spec

(***************************************************************************)
(* However calls overlap, Open gives way to HalfOpen when open_duration    *)
(* less one call's duration has passed since the trip, or within two       *)
(* calls' duration of it, by a check() that read the stamp before the trip *)
(* stored its own (breaker.rs check_open, trip).                           *)
(***************************************************************************)
THEOREM CoolDownHeld == Spec => CoolDownBounded
<1> DEFINE Early == state = "Open" /\ state' = "HalfOpen" =>
                      open_for + CallTicks >= OpenDuration \/ open_for <= 2 * CallTicks
<1>1. CoolDownInv /\ [Next]_vars => [Early]_vars
  <2> SUFFICES ASSUME CoolDownInv, Next, state = "Open", state' = "HalfOpen"
               PROVE  open_for + CallTicks >= OpenDuration \/ open_for <= 2 * CallTicks
    BY DEF vars
  <2>1. PICK th \in Threads : CasState(th)
    BY DEF Next, Check, CheckStep, RecordStep, Record, Abandon, ErrorRate, Evict, Tick, Recover,
           LoadOpened, ClearMirror, Reload, ReadNow, FetchAdd, Claim, FetchSub, Lease, LeaseCas,
           LoadState, PushClosed, PushOpen, TripState, TripNow, TripOpened, TripProbes, TripMirror,
           CloseState, CloseWindow, CloseProbes, CloseMirror, shared
  <2>2. pc[th] = "cas_state" /\ my_opened[th] >= OpenDuration
    BY <2>1 DEF CasState
  <2>3. my_opened[th] <= open_for + CallTicks \/ open_for <= CallTicks + call_age[th]
    BY <2>2 DEF CoolDownInv, LoadKept
  <2>4. /\ my_opened[th] \in Int /\ open_for \in Int
        /\ call_age[th] \in Int /\ call_age[th] <= CallTicks
    BY BreakerAssumption DEF CoolDownInv, Typed, SharedTyped, ThreadTyped
  <2> QED BY <2>2, <2>3, <2>4, BreakerAssumption
<1>2. Spec => []CoolDownInv
  BY CoolDownInit, CoolDownStep, PTL DEF Spec
<1> QED BY <1>1, <1>2, PTL DEF Spec, CoolDownBounded
=============================================================================
