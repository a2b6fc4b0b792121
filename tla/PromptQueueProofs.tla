------------------------- MODULE PromptQueueProofs -------------------------
(***************************************************************************)
(* Theorems about PromptQueue, for any number of messages.                 *)
(*                                                                         *)
(* The argument follows one message: until it has a fate it is in exactly  *)
(* one place (buffered, waiting in the batch, falling back, queued, or     *)
(* with a cancel), and its task, its runs and its terminals agree with     *)
(* that place.  A step leaves a message alone (SameKept), lets it arrive   *)
(* (Arrived), moves it into the queue (Entered) or to a cancel             *)
(* (Resolving), or gives it its fate (Left); the lemma of an action says   *)
(* which messages it moves and leaves the rest to SameKept.  A second      *)
(* invariant, DrainInv, rests on the first and says when a session is      *)
(* idle.                                                                   *)
(***************************************************************************)
EXTENDS PromptQueue, SequenceTheorems, FiniteSetTheorems, WellFoundedInduction, TLAPS

(* No message is twice in q. *)
Distinct(q) == \A i, j \in DOMAIN q : q[i] = q[j] => i = j

-----------------------------------------------------------------------------
(* The operators on queues. *)

(* Every nonempty set of naturals has a least element. *)
LEMMA Least ==
  ASSUME NEW S \in SUBSET Nat, S # {}
  PROVE  \E n \in S : \A k \in S : n <= k
<1> DEFINE Less == OpToRel(<, Nat)
<1>1. IsWellFoundedOn(Less, Nat)
  BY NatLessThanWellFounded
<1>2. \A x, y \in Nat : x < y => <<x, y>> \in Less
  BY DEF OpToRel
<1> HIDE DEF Less
<1>3. PICK x \in S : \A y \in S : ~(<<y, x>> \in Less)
  BY <1>1, WFMin
<1>5. x \in Nat /\ S \subseteq Nat
  OBVIOUS
<1>4. \A y \in S : ~(y < x)
  BY <1>2, <1>3, <1>5
<1> QED BY <1>4, <1>5

(* One unfolding of retain's recursion, on the prefixes up to n. *)
Unfold(q, K, f, n) ==
  [i \in 0 .. n |-> IF i = 0 THEN <<>>
                    ELSE IF q[i] \in K THEN Append(f[i - 1], q[i]) ELSE f[i - 1]]

(* The recursion of retain has a solution. *)
LEMMA RetainExists ==
  ASSUME NEW q \in Seq(Msgs), NEW K
  PROVE  \E f \in [0 .. Len(q) -> Seq(Msgs)] : f = Unfold(q, K, f, Len(q))
<1> DEFINE Body(f, m) == Unfold(q, K, f, m)
<1> USE DEF Unfold
<1> DEFINE Good(m) == \E f \in [0 .. m -> Seq(Msgs)] : f = Body(f, m)
<1> DEFINE Bad == {m \in 0 .. Len(q) : ~Good(m)}
<1>1. Len(q) \in Nat /\ DOMAIN q = 1 .. Len(q)
  BY LenProperties
<1>0. Len(q) \in 0 .. Len(q)
  BY <1>1
<1>2. SUFFICES ASSUME Bad # {} PROVE FALSE
  <2>1. Bad = {} => Good(Len(q))
    BY <1>0, Zenon
  <2> QED BY <2>1, Zenon
<1>3. PICK m \in Bad : \A k \in Bad : m <= k
  <2>1. Bad \in SUBSET Nat
    BY <1>1
  <2> QED BY <1>2, <2>1, Least
<1>4. m # 0
  <2> DEFINE f == [i \in 0 .. 0 |-> <<>>]
  <2>1. f \in [0 .. 0 -> Seq(Msgs)]
    BY EmptySeq
  <2>2. \A i \in 0 .. 0 : i = 0
    OBVIOUS
  <2>4. f = Body(f, 0)
    BY <2>2, Zenon
  <2>3. Good(0)
    BY <2>1, <2>4
  <2> QED BY <2>3
<1>5. m - 1 \in 0 .. Len(q) /\ m \in 1 .. Len(q) /\ m \in Nat
  BY <1>1, <1>4
<1>6. Good(m - 1)
  <2> HIDE DEF Good
  <2>1. ~(m <= m - 1)
    BY <1>5
  <2> QED BY <2>1, <1>3, <1>5
<1>7. PICK f \in [0 .. m - 1 -> Seq(Msgs)] : f = Body(f, m - 1)
  BY <1>6
<1> DEFINE last == IF q[m] \in K THEN Append(f[m - 1], q[m]) ELSE f[m - 1]
<1> DEFINE g == [i \in 0 .. m |-> IF i = m THEN last ELSE f[i]]
<1>8. last \in Seq(Msgs)
  BY <1>5, <1>7, ElementOfSeq, AppendProperties
<1>9. g \in [0 .. m -> Seq(Msgs)]
  BY <1>5, <1>7, <1>8
<1>10. ASSUME NEW i \in 0 .. m
       PROVE  g[i] = IF i = 0 THEN <<>>
                     ELSE IF q[i] \in K THEN Append(g[i - 1], q[i]) ELSE g[i - 1]
  <2>1. CASE i = m
    BY <2>1, <1>5, <1>4
  <2>2. CASE i # m
    <3>1. i \in 0 .. m - 1 /\ (i # 0 => i - 1 \in 0 .. m - 1)
      BY <2>2, <1>5
    <3>2. f[i] = Body(f, m - 1)[i]
      BY <1>7
    <3>3. g[i] = f[i] /\ (i # 0 => g[i - 1] = f[i - 1])
      BY <3>1, <2>2, <1>5
    <3> QED BY <3>1, <3>2, <3>3
  <2> QED BY <2>1, <2>2
<1>11. g = Body(g, m)
  BY <1>10
<1>12. Good(m)
  BY <1>9, <1>11
<1> QED BY <1>12

(* What retain returns: the elements of K that were queued, none twice if  *)
(* none was there twice, and the same front if the front is retained.      *)
LEMMA Retained ==
  ASSUME NEW q \in Seq(Msgs), NEW K
  PROVE  /\ Retain(q, K) \in Seq(Msgs)
         /\ ToSet(Retain(q, K)) = ToSet(q) \cap K
         /\ Distinct(q) => Distinct(Retain(q, K))
         /\ q # <<>> /\ q[1] \in K => Retain(q, K) # <<>> /\ Retain(q, K)[1] = q[1]
<1> DEFINE Body(f) == Unfold(q, K, f, Len(q))
<1> DEFINE kept == CHOOSE f : f = Body(f)
<1>1. Len(q) \in Nat /\ DOMAIN q = 1 .. Len(q) /\ \A i \in 1 .. Len(q) : q[i] \in Msgs
  BY LenProperties, ElementOfSeq
<1>2. Retain(q, K) = kept[Len(q)]
  BY Zenon DEF Retain, Unfold
<1>3. \E f : f = Body(f)
  BY RetainExists, Zenon
<1>4. kept = Body(kept)
  BY <1>3, Zenon
<1> HIDE DEF kept
<1>5. /\ kept[0] = <<>>
      /\ \A i \in 1 .. Len(q) :
           kept[i] = IF q[i] \in K THEN Append(kept[i - 1], q[i]) ELSE kept[i - 1]
  <2>1. \A i \in 0 .. Len(q) : kept[i] = Body(kept)[i]
    BY <1>4, Zenon
  <2> QED BY <2>1, <1>1 DEF Unfold
<1> HIDE DEF Body
<1> DEFINE Good(i) == /\ kept[i] \in Seq(Msgs)
                      /\ \A x : x \in ToSet(kept[i]) <=>
                                x \in K /\ \E j \in 1 .. i : q[j] = x
                      /\ Distinct(q) => Distinct(kept[i])
                      /\ i # 0 /\ q[1] \in K => kept[i] # <<>> /\ kept[i][1] = q[1]
<1> DEFINE Bad == {i \in 0 .. Len(q) : ~Good(i)}
<1>6. Good(0)
  <2>1. \A x : x \notin ToSet(<<>>)
    BY DEF ToSet
  <2>2. Distinct(<<>>)
    BY DEF Distinct
  <2> QED BY <1>5, <2>1, <2>2, EmptySeq
<1>7. ASSUME NEW i \in 1 .. Len(q), Good(i - 1)
      PROVE  Good(i)
  <2> DEFINE s == kept[i - 1]
  <2>1. i \in Nat /\ i - 1 \in Nat /\ q[i] \in Msgs
    BY <1>1
  <2>2. CASE q[i] \notin K
    <3>1. kept[i] = s
      BY <1>5, <2>2
    <3>2. ASSUME NEW x, x \in K
          PROVE  (\E j \in 1 .. i : q[j] = x) <=> (\E j \in 1 .. i - 1 : q[j] = x)
      BY <2>1, <2>2, <3>2
    <3>3. q[1] \in K => i - 1 # 0
      BY <2>1, <2>2
    <3> QED BY <1>7, <3>1, <3>2, <3>3, Zenon
  <2>3. CASE q[i] \in K
    <3> DEFINE t == Append(s, q[i])
    <3>1. kept[i] = t
      BY <1>5, <2>3
    <3>2. s \in Seq(Msgs) /\ Len(s) \in Nat /\ DOMAIN s = 1 .. Len(s)
      BY <1>7, LenProperties
    <3>3. /\ t \in Seq(Msgs) /\ DOMAIN t = 1 .. Len(s) + 1
          /\ \A j \in 1 .. Len(s) : t[j] = s[j]
          /\ t[Len(s) + 1] = q[i]
      BY <2>1, <3>2, AppendProperties, LenProperties
    <3> HIDE DEF t, s
    <3>4. \A x : x \in ToSet(t) <=> x \in ToSet(s) \/ x = q[i]
      BY <3>2, <3>3 DEF ToSet
    <3>5. \A x : (\E j \in 1 .. i : q[j] = x) <=> (\E j \in 1 .. i - 1 : q[j] = x) \/ x = q[i]
      BY <2>1
    <3>6. \A x : x \in ToSet(s) <=> x \in K /\ \E j \in 1 .. i - 1 : q[j] = x
      BY <1>7 DEF s
    <3>7. \A x : x \in ToSet(t) <=> x \in K /\ \E j \in 1 .. i : q[j] = x
      BY <2>3, <3>4, <3>5, <3>6, Zenon
    <3>8. ASSUME Distinct(q) PROVE Distinct(t)
      <4>1. Distinct(s)
        BY <1>7, <3>8 DEF s
      <4>2. ASSUME NEW k \in 1 .. Len(s) PROVE s[k] # q[i]
        <5>1. s[k] \in ToSet(s)
          BY <3>2 DEF ToSet
        <5>2. PICK j \in 1 .. i - 1 : q[j] = s[k]
          BY <5>1, <3>6
        <5>3. j \in DOMAIN q /\ i \in DOMAIN q /\ j # i
          BY <1>1, <2>1
        <5> QED BY <5>2, <5>3, <3>8 DEF Distinct
      <4> QED BY <4>1, <4>2, <3>2, <3>3 DEF Distinct
    <3>9. q[1] \in K => t # <<>> /\ t[1] = q[1]
      <4>1. t # <<>>
        BY <3>2, <3>3, EmptySeq
      <4>2. CASE i - 1 = 0
        <5>1. s = <<>> /\ i = 1
          BY <4>2, <1>5, <2>1 DEF s
        <5>2. Len(s) = 0
          BY <5>1, EmptySeq
        <5> QED BY <5>1, <5>2, <3>3, <4>1
      <4>3. CASE i - 1 # 0
        <5>1. q[1] \in K => s # <<>> /\ s[1] = q[1]
          BY <4>3, <1>7 DEF s
        <5>2. s # <<>> => 1 \in 1 .. Len(s)
          BY <3>2, EmptySeq
        <5> QED BY <5>1, <5>2, <3>3, <4>1
      <4> QED BY <4>2, <4>3
    <3> QED BY <3>1, <3>3, <3>7, <3>8, <3>9
  <2> QED BY <2>2, <2>3
<1>8. Bad = {}
  <2>1. SUFFICES ASSUME Bad # {} PROVE FALSE
    OBVIOUS
  <2>2. Bad \in SUBSET Nat
    BY <1>1
  <2>3. PICK m \in Bad : \A k \in Bad : m <= k
    BY <2>1, <2>2, Least
  <2>4. m \in 0 .. Len(q) /\ ~Good(m)
    OBVIOUS
  <2>5. m # 0
    BY <2>4, <1>6
  <2> HIDE DEF Good
  <2>6. m \in 1 .. Len(q) /\ m - 1 \in 0 .. Len(q) /\ ~(m <= m - 1)
    BY <2>4, <2>5, <1>1
  <2>7. Good(m - 1)
    BY <2>3, <2>6
  <2> QED BY <2>4, <2>6, <2>7, <1>7
<1>9. Good(Len(q))
  <2>1. Len(q) \in 0 .. Len(q)
    BY <1>1
  <2> QED BY <1>8, <2>1
<1>10. q # <<>> => Len(q) # 0
  BY EmptySeq
<1>11. ToSet(kept[Len(q)]) = ToSet(q) \cap K
  <2>1. \A x : x \in ToSet(q) <=> \E j \in 1 .. Len(q) : q[j] = x
    BY <1>1 DEF ToSet
  <2>2. \A x : x \in ToSet(kept[Len(q)]) <=> x \in K /\ \E j \in 1 .. Len(q) : q[j] = x
    BY <1>9
  <2> QED BY <2>1, <2>2, Zenon
<1> QED BY <1>2, <1>9, <1>10, <1>11

(* Two queues one behind the other. *)
LEMMA Concatenated ==
  ASSUME NEW s \in Seq(Msgs), NEW t \in Seq(Msgs)
  PROVE  /\ s \o t \in Seq(Msgs)
         /\ ToSet(s \o t) = ToSet(s) \cup ToSet(t)
         /\ Distinct(s) /\ Distinct(t) /\ ToSet(s) \cap ToSet(t) = {} => Distinct(s \o t)
         /\ s # <<>> => s \o t # <<>> /\ (s \o t)[1] = s[1]
<1> DEFINE r == s \o t
<1>1. /\ Len(s) \in Nat /\ DOMAIN s = 1 .. Len(s)
      /\ Len(t) \in Nat /\ DOMAIN t = 1 .. Len(t)
  BY LenProperties
<1>2. /\ r \in Seq(Msgs) /\ DOMAIN r = 1 .. Len(s) + Len(t)
      /\ \A i \in 1 .. Len(s) + Len(t) : r[i] = IF i <= Len(s) THEN s[i] ELSE t[i - Len(s)]
  BY ConcatProperties, LenProperties
<1> HIDE DEF r
<1>3. ASSUME NEW x PROVE x \in ToSet(r) <=> x \in ToSet(s) \/ x \in ToSet(t)
  <2>1. ASSUME x \in ToSet(r) PROVE x \in ToSet(s) \/ x \in ToSet(t)
    <3>1. PICK i \in 1 .. Len(s) + Len(t) : r[i] = x
      BY <2>1, <1>2 DEF ToSet
    <3>2. CASE i <= Len(s)
      BY <3>1, <3>2, <1>1, <1>2 DEF ToSet
    <3>3. CASE ~(i <= Len(s))
      <4>1. i - Len(s) \in DOMAIN t /\ t[i - Len(s)] = x
        BY <3>1, <3>3, <1>1, <1>2
      <4> QED BY <4>1 DEF ToSet
    <3> QED BY <3>2, <3>3
  <2>2. ASSUME x \in ToSet(s) PROVE x \in ToSet(r)
    BY <1>1, <1>2, <2>2 DEF ToSet
  <2>3. ASSUME x \in ToSet(t) PROVE x \in ToSet(r)
    <3>1. PICK j \in 1 .. Len(t) : t[j] = x
      BY <2>3, <1>1 DEF ToSet
    <3>2. j + Len(s) \in DOMAIN r /\ r[j + Len(s)] = x
      BY <3>1, <1>1, <1>2
    <3> QED BY <3>2 DEF ToSet
  <2> QED BY <2>1, <2>2, <2>3
<1>4. ASSUME Distinct(s), Distinct(t), ToSet(s) \cap ToSet(t) = {}
      PROVE  Distinct(r)
  <2>1. SUFFICES ASSUME NEW i \in DOMAIN r, NEW j \in DOMAIN r, r[i] = r[j]
                 PROVE  i = j
    BY DEF Distinct
  <2>2. /\ i <= Len(s) => i \in DOMAIN s /\ s[i] \in ToSet(s) /\ r[i] = s[i]
        /\ j <= Len(s) => j \in DOMAIN s /\ s[j] \in ToSet(s) /\ r[j] = s[j]
    BY <1>1, <1>2 DEF ToSet
  <2>3. /\ ~(i <= Len(s)) => i - Len(s) \in DOMAIN t /\ t[i - Len(s)] \in ToSet(t) /\ r[i] = t[i - Len(s)]
        /\ ~(j <= Len(s)) => j - Len(s) \in DOMAIN t /\ t[j - Len(s)] \in ToSet(t) /\ r[j] = t[j - Len(s)]
    BY <1>1, <1>2 DEF ToSet
  <2>4. CASE i <= Len(s) /\ j <= Len(s)
    BY <2>1, <2>2, <2>4, <1>4 DEF Distinct
  <2>5. CASE ~(i <= Len(s)) /\ ~(j <= Len(s))
    <3>1. i - Len(s) = j - Len(s)
      BY <2>1, <2>3, <2>5, <1>4 DEF Distinct
    <3> QED BY <3>1, <1>1, <1>2
  <2>6. CASE (i <= Len(s)) # (j <= Len(s))
    BY <2>1, <2>2, <2>3, <2>6, <1>4
  <2> QED BY <2>4, <2>5, <2>6
<1>5. s # <<>> => r # <<>> /\ r[1] = s[1]
  <2>1. s # <<>> => Len(s) # 0
    BY EmptySeq
  <2> QED BY <2>1, <1>1, <1>2, EmptySeq
<1> QED BY <1>2, <1>3, <1>4, <1>5 DEF r

(* A queue cut before its k-th message. *)
LEMMA Cut ==
  ASSUME NEW q \in Seq(Msgs), NEW k \in 1 .. Len(q) + 1
  PROVE  LET a == SubSeq(q, 1, k - 1)
             b == SubSeq(q, k, Len(q))
         IN  /\ a \in Seq(Msgs) /\ b \in Seq(Msgs)
             /\ ToSet(q) = ToSet(a) \cup ToSet(b)
             /\ Distinct(q) => Distinct(a) /\ Distinct(b) /\ ToSet(a) \cap ToSet(b) = {}
             /\ k # 1 => a # <<>> /\ a[1] = q[1]
<1> DEFINE a == SubSeq(q, 1, k - 1)
           b == SubSeq(q, k, Len(q))
           n == Len(q)
<1>1. n \in Nat /\ DOMAIN q = 1 .. n /\ k \in Nat /\ \A i \in 1 .. n : q[i] \in Msgs
  BY LenProperties, ElementOfSeq
<1>2. /\ a \in Seq(Msgs) /\ Len(a) = k - 1 /\ \A i \in 1 .. k - 1 : a[i] = q[i]
  <2>1. \A i \in 1 .. k - 1 : q[i] \in Msgs
    BY <1>1
  <2>2. 1 \in Int /\ k - 1 \in Int
    BY <1>1
  <2>3. /\ a \in Seq(Msgs) /\ Len(a) = IF 1 <= k - 1 THEN k - 1 - 1 + 1 ELSE 0
        /\ \A i \in 1 .. k - 1 - 1 + 1 : a[i] = q[1 + i - 1]
    BY <2>1, <2>2, SubSeqProperties
  <2> HIDE DEF a
  <2> QED BY <2>3, <1>1
<1>3. /\ b \in Seq(Msgs) /\ Len(b) = n - k + 1 /\ \A i \in 1 .. n - k + 1 : b[i] = q[k + i - 1]
  <2>1. \A i \in k .. n : q[i] \in Msgs
    BY <1>1
  <2>2. k \in Int /\ n \in Int
    BY <1>1
  <2>3. /\ b \in Seq(Msgs) /\ Len(b) = IF k <= n THEN n - k + 1 ELSE 0
        /\ \A i \in 1 .. n - k + 1 : b[i] = q[k + i - 1]
    BY <2>1, <2>2, SubSeqProperties
  <2> HIDE DEF b
  <2> QED BY <2>3, <1>1
<1>4. DOMAIN a = 1 .. k - 1 /\ DOMAIN b = 1 .. n - k + 1
  BY <1>2, <1>3, LenProperties
<1> HIDE DEF a, b, n
<1>5. ASSUME NEW x PROVE x \in ToSet(q) <=> x \in ToSet(a) \/ x \in ToSet(b)
  <2>1. ASSUME x \in ToSet(q) PROVE x \in ToSet(a) \/ x \in ToSet(b)
    <3>1. PICK i \in 1 .. n : q[i] = x
      BY <2>1, <1>1 DEF ToSet
    <3>2. CASE i <= k - 1
      BY <3>1, <3>2, <1>1, <1>2, <1>4 DEF ToSet
    <3>3. CASE ~(i <= k - 1)
      <4>1. i - k + 1 \in 1 .. n - k + 1 /\ b[i - k + 1] = x
        BY <3>1, <3>3, <1>1, <1>3
      <4> QED BY <4>1, <1>4 DEF ToSet
    <3> QED BY <3>2, <3>3
  <2>2. ASSUME x \in ToSet(a) PROVE x \in ToSet(q)
    BY <2>2, <1>1, <1>2, <1>4 DEF ToSet
  <2>3. ASSUME x \in ToSet(b) PROVE x \in ToSet(q)
    <3>1. PICK i \in 1 .. n - k + 1 : b[i] = x
      BY <2>3, <1>4 DEF ToSet
    <3>2. i + k - 1 \in 1 .. n /\ q[i + k - 1] = x
      BY <3>1, <1>1, <1>3
    <3> QED BY <3>2, <1>1 DEF ToSet
  <2> QED BY <2>1, <2>2, <2>3
<1>6. ASSUME Distinct(q) PROVE Distinct(a) /\ Distinct(b) /\ ToSet(a) \cap ToSet(b) = {}
  <2>1. Distinct(a)
    BY <1>6, <1>1, <1>2, <1>4 DEF Distinct
  <2>2. Distinct(b)
    <3>1. SUFFICES ASSUME NEW i \in DOMAIN b, NEW j \in DOMAIN b, b[i] = b[j]
                   PROVE  i = j
      BY DEF Distinct
    <3>2. /\ k + i - 1 \in DOMAIN q /\ k + j - 1 \in DOMAIN q
          /\ b[i] = q[k + i - 1] /\ b[j] = q[k + j - 1]
      BY <1>1, <1>3, <1>4
    <3>3. k + i - 1 = k + j - 1
      BY <3>1, <3>2, <1>6 DEF Distinct
    <3> QED BY <3>3, <1>1, <1>4
  <2>3. ASSUME NEW i \in DOMAIN a, NEW j \in DOMAIN b PROVE a[i] # b[j]
    <3>1. i \in DOMAIN q /\ k + j - 1 \in DOMAIN q /\ i # k + j - 1
      BY <1>1, <1>4
    <3>2. a[i] = q[i] /\ b[j] = q[k + j - 1]
      BY <1>2, <1>3, <1>4
    <3> QED BY <3>1, <3>2, <1>6 DEF Distinct
  <2>4. ToSet(a) \cap ToSet(b) = {}
    BY <2>3 DEF ToSet
  <2> QED BY <2>1, <2>2, <2>4
<1>7. k # 1 => a # <<>> /\ a[1] = q[1]
  BY <1>1, <1>2, EmptySeq
<1> QED BY <1>2, <1>3, <1>5, <1>6, <1>7 DEF a, b, n

(* Texts inserted at k, which is not the front when k is 2 or more. *)
LEMMA Inserted ==
  ASSUME NEW q \in Seq(Msgs), NEW k \in 1 .. Len(q) + 1, NEW t \in Seq(Msgs)
  PROVE  LET r == SubSeq(q, 1, k - 1) \o t \o SubSeq(q, k, Len(q)) IN
         /\ r \in Seq(Msgs)
         /\ ToSet(r) = ToSet(q) \cup ToSet(t)
         /\ Distinct(q) /\ Distinct(t) /\ ToSet(q) \cap ToSet(t) = {} => Distinct(r)
         /\ k # 1 => r # <<>> /\ r[1] = q[1]
<1> DEFINE a == SubSeq(q, 1, k - 1)
           b == SubSeq(q, k, Len(q))
<1>1. /\ a \in Seq(Msgs) /\ b \in Seq(Msgs)
      /\ ToSet(q) = ToSet(a) \cup ToSet(b)
      /\ Distinct(q) => Distinct(a) /\ Distinct(b) /\ ToSet(a) \cap ToSet(b) = {}
      /\ k # 1 => a # <<>> /\ a[1] = q[1]
  BY Cut
<1> HIDE DEF a, b
<1>2. /\ a \o t \in Seq(Msgs)
      /\ ToSet(a \o t) = ToSet(a) \cup ToSet(t)
      /\ Distinct(a) /\ Distinct(t) /\ ToSet(a) \cap ToSet(t) = {} => Distinct(a \o t)
      /\ a # <<>> => a \o t # <<>> /\ (a \o t)[1] = a[1]
  BY <1>1, Concatenated
<1> DEFINE c == a \o t
<1> HIDE DEF c
<1>3. /\ c \o b \in Seq(Msgs)
      /\ ToSet(c \o b) = ToSet(c) \cup ToSet(b)
      /\ Distinct(c) /\ Distinct(b) /\ ToSet(c) \cap ToSet(b) = {} => Distinct(c \o b)
      /\ c # <<>> => c \o b # <<>> /\ (c \o b)[1] = c[1]
  BY <1>1, <1>2, Concatenated DEF c
<1> DEFINE r == c \o b
<1> HIDE DEF r
<1>4. /\ r \in Seq(Msgs)
      /\ ToSet(r) = ToSet(q) \cup ToSet(t)
      /\ Distinct(q) /\ Distinct(t) /\ ToSet(q) \cap ToSet(t) = {} => Distinct(r)
      /\ k # 1 => r # <<>> /\ r[1] = q[1]
  <2>1. ToSet(r) = ToSet(q) \cup ToSet(t)
    BY <1>1, <1>2, <1>3 DEF c, r
  <2>2. ASSUME Distinct(q), Distinct(t), ToSet(q) \cap ToSet(t) = {} PROVE Distinct(r)
    <3>1. Distinct(c)
      BY <2>2, <1>1, <1>2 DEF c
    <3>2. ToSet(c) \cap ToSet(b) = {}
      BY <2>2, <1>1, <1>2 DEF c
    <3> QED BY <3>1, <3>2, <2>2, <1>1, <1>3 DEF r
  <2> QED BY <2>1, <2>2, <1>1, <1>2, <1>3 DEF c, r
<1> QED BY <1>4 DEF a, b, c, r

(* A queue of one message. *)
LEMMA One ==
  ASSUME NEW m \in Msgs
  PROVE  <<m>> \in Seq(Msgs) /\ ToSet(<<m>>) = {m} /\ Distinct(<<m>>)
         /\ <<m>> # <<>> /\ <<m>>[1] = m
BY DEF ToSet, Distinct

(* A message at the back. *)
LEMMA Appended ==
  ASSUME NEW q \in Seq(Msgs), NEW m \in Msgs
  PROVE  /\ Append(q, m) \in Seq(Msgs)
         /\ ToSet(Append(q, m)) = ToSet(q) \cup {m}
         /\ Distinct(q) /\ m \notin ToSet(q) => Distinct(Append(q, m))
         /\ Append(q, m) # <<>>
         /\ q # <<>> => Append(q, m)[1] = q[1]
<1>1. Len(q) \in Nat /\ DOMAIN q = 1 .. Len(q)
  BY LenProperties
<1> DEFINE r == Append(q, m)
<1>2. /\ r \in Seq(Msgs) /\ DOMAIN r = 1 .. Len(q) + 1
      /\ \A j \in 1 .. Len(q) : r[j] = q[j]
      /\ r[Len(q) + 1] = m
  BY <1>1, AppendProperties, LenProperties
<1> HIDE DEF r
<1>3. ToSet(r) = ToSet(q) \cup {m}
  BY <1>1, <1>2 DEF ToSet
<1>4. ASSUME Distinct(q), m \notin ToSet(q) PROVE Distinct(r)
  <2>1. \A j \in 1 .. Len(q) : q[j] # m
    BY <1>4, <1>1 DEF ToSet
  <2> QED BY <2>1, <1>4, <1>1, <1>2 DEF Distinct
<1>5. r # <<>>
  BY <1>1, <1>2, EmptySeq
<1>6. q # <<>> => r[1] = q[1]
  BY <1>1, <1>2, EmptySeq
<1> QED BY <1>2, <1>3, <1>4, <1>5, <1>6 DEF r

(* The front taken off. *)
LEMMA Popped ==
  ASSUME NEW q \in Seq(Msgs), q # <<>>
  PROVE  /\ Head(q) \in Msgs /\ Head(q) = q[1] /\ Tail(q) \in Seq(Msgs)
         /\ ToSet(q) = ToSet(Tail(q)) \cup {Head(q)}
         /\ Distinct(q) => Distinct(Tail(q)) /\ Head(q) \notin ToSet(Tail(q))
<1>1. Len(q) \in Nat /\ Len(q) # 0 /\ DOMAIN q = 1 .. Len(q) /\ q[1] \in Msgs /\ Head(q) = q[1]
  BY LenProperties, EmptySeq, ElementOfSeq
<1> DEFINE t == Tail(q)
<1>2. /\ t \in Seq(Msgs) /\ DOMAIN t = 1 .. Len(q) - 1
      /\ \A i \in 1 .. Len(q) - 1 : t[i] = q[i + 1]
  BY HeadTailProperties, LenProperties
<1> HIDE DEF t
<1>3. ASSUME NEW x PROVE x \in ToSet(q) <=> x \in ToSet(t) \/ x = q[1]
  <2>1. ASSUME x \in ToSet(q) PROVE x \in ToSet(t) \/ x = q[1]
    <3>1. PICK i \in 1 .. Len(q) : q[i] = x
      BY <2>1, <1>1 DEF ToSet
    <3>2. i # 1 => i - 1 \in 1 .. Len(q) - 1 /\ t[i - 1] = x
      BY <3>1, <1>1, <1>2
    <3> QED BY <3>1, <3>2, <1>2 DEF ToSet
  <2>2. ASSUME x \in ToSet(t) \/ x = q[1] PROVE x \in ToSet(q)
    <3>1. CASE x = q[1]
      BY <3>1, <1>1 DEF ToSet
    <3>2. CASE x \in ToSet(t)
      <4>1. PICK i \in 1 .. Len(q) - 1 : t[i] = x
        BY <3>2, <1>2 DEF ToSet
      <4>2. i + 1 \in 1 .. Len(q) /\ q[i + 1] = x
        BY <4>1, <1>1, <1>2
      <4> QED BY <4>2, <1>1 DEF ToSet
    <3> QED BY <2>2, <3>1, <3>2
  <2> QED BY <2>1, <2>2
<1>4. ASSUME Distinct(q) PROVE Distinct(t) /\ q[1] \notin ToSet(t)
  <2>1. Distinct(t)
    <3>1. SUFFICES ASSUME NEW i \in DOMAIN t, NEW j \in DOMAIN t, t[i] = t[j]
                   PROVE  i = j
      BY DEF Distinct
    <3>2. /\ i + 1 \in DOMAIN q /\ j + 1 \in DOMAIN q
          /\ t[i] = q[i + 1] /\ t[j] = q[j + 1]
      BY <1>1, <1>2
    <3>3. i + 1 = j + 1
      BY <3>1, <3>2, <1>4 DEF Distinct
    <3> QED BY <3>3, <1>1, <1>2
  <2>2. ASSUME NEW i \in DOMAIN t PROVE t[i] # q[1]
    <3>1. i + 1 \in DOMAIN q /\ 1 \in DOMAIN q /\ i + 1 # 1 /\ t[i] = q[i + 1]
      BY <1>1, <1>2
    <3> QED BY <3>1, <1>4 DEF Distinct
  <2> QED BY <2>1, <2>2 DEF ToSet
<1> QED BY <1>1, <1>2, <1>3, <1>4 DEF t

(* The empty queue, and what a queue holds. *)
LEMMA Emptiness ==
  /\ <<>> \in Seq(Msgs) /\ ToSet(<<>>) = {} /\ Distinct(<<>>)
  /\ \A q \in Seq(Msgs) : q # <<>> => q[1] \in ToSet(q) /\ q[1] = Head(q)
  /\ \A q \in Seq(Msgs) : ToSet(q) \subseteq Msgs
<1>1. <<>> \in Seq(Msgs) /\ ToSet(<<>>) = {} /\ Distinct(<<>>)
  BY DEF ToSet, Distinct
<1>2. ASSUME NEW q \in Seq(Msgs) PROVE ToSet(q) \subseteq Msgs
  BY LenProperties, ElementOfSeq DEF ToSet
<1>3. ASSUME NEW q \in Seq(Msgs), q # <<>> PROVE q[1] \in ToSet(q) /\ q[1] = Head(q)
  BY <1>3, Popped
<1> QED BY <1>1, <1>2, <1>3

(* Rows in the order a client names them. *)
LEMMA Named ==
  ASSUME NEW S \in SUBSET Msgs, NEW ids \in SetToSeqs(S)
  PROVE  ids \in Seq(Msgs) /\ Distinct(ids) /\ ToSet(ids) = S
<1> DEFINE n == Cardinality(S)
<1>1. IsFiniteSet(Msgs)
  <2>1. 1 \in Int /\ MaxMsgs \in Int
    BY QueueAssumption
  <2> QED BY <2>1, FS_Interval DEF Msgs
<1>2. IsFiniteSet(S)
  BY <1>1, FS_Subset
<1>3. n \in Nat
  BY <1>2, FS_CardinalityType
<1>4. ids \in [1 .. n -> S] /\ \A i, j \in 1 .. n : i # j => ids[i] # ids[j]
  BY DEF SetToSeqs
<1>5. IsFiniteSet(1 .. n) /\ Cardinality(1 .. n) = n
  <2>1. 1 \in Int /\ n \in Int
    BY <1>3
  <2>2. Cardinality(1 .. n) = IF 1 > n THEN 0 ELSE n - 1 + 1
    BY <2>1, FS_Interval
  <2> HIDE DEF n
  <2>3. (IF 1 > n THEN 0 ELSE n - 1 + 1) = n
    BY <1>3
  <2> QED BY <2>1, <2>2, <2>3, FS_Interval
<1>6. ids \in Injection(1 .. n, S)
  BY <1>4 DEF Injection, IsInjective
<1>7. ids \in Surjection(1 .. n, S)
  BY <1>2, <1>5, <1>6, FS_Injection
<1>8. ids \in Seq(S)
  BY <1>3, <1>4, SeqDef
<1>9. ids \in Seq(Msgs)
  BY <1>8, SeqMonotonic
<1> QED
  BY <1>4, <1>7, <1>9 DEF Surjection, ToSet, Distinct

(* The insertion points lie in the queue, and behind a running front. *)
LEMMA BehindRange ==
  ASSUME NEW q \in Seq(Msgs)
  PROVE  /\ BehindRunning(q) \in 1 .. Len(q) + 1
         /\ BehindSends(q) \in 1 .. Len(q) + 1
         /\ q # <<>> /\ q[1] = running_task => BehindRunning(q) # 1 /\ BehindSends(q) # 1
<1> DEFINE b == BehindRunning(q)
           First(k) == /\ \A j \in b .. k - 1 : send_now[q[j]]
                       /\ k <= Len(q) => ~send_now[q[k]]
           Ends == {k \in b .. Len(q) : ~send_now[q[k]]}
<1>1. Len(q) \in Nat /\ (q # <<>> => Len(q) # 0)
  BY LenProperties, EmptySeq
<1>2. b \in 1 .. Len(q) + 1 /\ b \in Nat /\ (q # <<>> /\ q[1] = running_task => b = 2)
  BY <1>1 DEF BehindRunning
<1> HIDE DEF b
<1>3. \E k \in b .. Len(q) + 1 : First(k)
  <2>1. CASE Ends = {}
    <3>1. First(Len(q) + 1)
      BY <1>1, <1>2, <2>1
    <3> QED BY <1>1, <1>2, <3>1
  <2>2. CASE Ends # {}
    <3>1. Ends \in SUBSET Nat
      BY <1>1, <1>2
    <3>2. PICK k \in Ends : \A j \in Ends : k <= j
      BY <2>2, <3>1, Least
    <3>3. First(k)
      BY <1>1, <1>2, <3>2
    <3> QED BY <1>1, <1>2, <3>3
  <2> QED BY <2>1, <2>2
<1>4. BehindSends(q) \in b .. Len(q) + 1
  BY <1>3 DEF BehindSends, b
<1> QED BY <1>1, <1>2, <1>4 DEF b

-----------------------------------------------------------------------------
(* The inductive invariant. *)

Sent == 1 .. allocated
Victims == ToSet(job.victims)
Buffered == ToSet(pending_interjections)
Channel == ToSet(completions)

(* The interjection on its way from the buffer's test to the queue. *)
Falling(m) == at = "fallback" /\ job.done = m

(* The turn whose completion is being handled. *)
Completing(m) == at = "completion" /\ job.done = m

(* A message that was sent and is not in the queue yet. *)
Outside(m) == m \in Buffered \/ m = pending_notifications \/ Falling(m)

(* The handler's locals, label by label. *)
JobKept ==
  /\ at # "cancel_end" => Victims = {} /\ job.rewound = None /\ job.taken = None
  /\ at \in {"fallback", "completion"} => job.done \in Msgs
  /\ job.taken # None => job.taken \in Victims
  /\ job.rewound # None => Victims = {}
  /\ at = "cancel" => job.pinned \in {None, running_task}
  /\ at = "cancel_end" /\ job.taken = None /\ job.rewound = None => job.pinned = None
  /\ job.rewind \/ job.rewound # None => Rewinds

(* The pin names the slot's task, except inside a cancel, and never the    *)
(* turn whose completion is being handled.                                 *)
PinKept ==
  /\ at # "cancel_end" => current_prompt_id \in {None, running_task}
  /\ at = "completion" => current_prompt_id # job.done

(* A message without a fate is in one place. *)
PlaceKept(m) ==
  /\ m \in InHand \/ Outside(m) => m \in Sent /\ fate[m] = "none" /\ terminals[m] = 0
  /\ Outside(m) => m \notin InHand /\ runs[m] = 0
  /\ m \in Queued => m \notin Victims /\ m # job.rewound
  /\ m \in Buffered => ~Falling(m)
  /\ m \in Buffered \/ Falling(m) => kind[m] = "interject"
  /\ m = pending_notifications => kind[m] = "drain"

(* Until it has a fate, an awaited message or an interjection has a place; *)
(* only synthetic messages are dropped, and a scheduler's prompt only when *)
(* there are auto-wakes to preempt.                                        *)
HeldKept(m) ==
  /\ m \in Sent /\ Awaited(m) /\ fate[m] = "none" => m \in InHand
  /\ m \in Sent /\ kind[m] = "interject" /\ fate[m] = "none" =>
       m \in InHand \/ m \in Buffered \/ Falling(m)
  /\ m \in Sent => kind[m] \in Kinds
  /\ fate[m] = "dropped" => Synthetic(m) /\ (kind[m] = "cron" => "wake" \in Kinds)

(* What the history says of a message, by its place and its task. *)
RunKept(m) ==
  /\ m \notin Sent => runs[m] = 0 /\ terminals[m] = 0 /\ fate[m] = "none"
  /\ m \in Queued => runs[m] = IF m = running_task THEN 1 ELSE 0
  /\ m \in Victims => runs[m] = IF m = job.taken THEN 1 ELSE 0
  /\ turn[m] # "none" => runs[m] = 1
  /\ m \in Channel \/ Completing(m) => turn[m] = "sent"
  /\ runs[m] <= 1 /\ terminals[m] <= runs[m]
  /\ fate[m] \in {"completed", "cancelled"} => terminals[m] = runs[m]

(* A delivered mark is withdrawn with its message, unless a cancel rewinds. *)
WakeKept(m) ==
  m \in auto_wake_delivered =>
    /\ kind[m] = "wake" /\ m \in Sent
    /\ m \in InHand \/ fate[m] \in {"completed", "consumed", "rewound"}

MsgInv(m) == PlaceKept(m) /\ HeldKept(m) /\ RunKept(m) /\ WakeKept(m)

IInv ==
  /\ TypeOK /\ FrontIsRunning
  /\ Distinct(pending_inputs) /\ Distinct(pending_interjections)
  /\ JobKept /\ PinKept
  /\ \A m \in Msgs : MsgInv(m)

-----------------------------------------------------------------------------
(* Types. *)

JobType ==
  [kill : BOOLEAN, rewind : BOOLEAN, now : BOOLEAN, pinned : Msgs \cup {None},
   taken : Msgs \cup {None}, victims : Seq(Msgs), rewound : Msgs \cup {None},
   done : Msgs \cup {None}]

(* The locals of an interjection or a completion, and of a cancel. *)
DoneJob(m) == [NoJob EXCEPT !.done = m]
CancelJob(kill, rewind, now) ==
  [NoJob EXCEPT !.kill = kill, !.rewind = rewind, !.now = now, !.pinned = current_prompt_id]

(* ... once it has taken the slot's task and the messages it resolves. *)
VictimJob(j, m, v) == [j EXCEPT !.taken = m, !.victims = v]

(* The locals, field by field: the provers never unfold a record. *)
LEMMA NoJobFields ==
  /\ NoJob \in JobType
  /\ NoJob.victims = <<>> /\ NoJob.rewound = None /\ NoJob.taken = None /\ NoJob.done = None
  /\ NoJob.pinned = None /\ NoJob.rewind = FALSE /\ NoJob.now = FALSE /\ NoJob.kill = FALSE
<1>1. <<>> \in Seq(Msgs)
  BY Emptiness
<1> QED BY <1>1 DEF NoJob, JobType

LEMMA DoneJobFields ==
  ASSUME NEW m \in Msgs
  PROVE  /\ DoneJob(m) \in JobType /\ DoneJob(m).done = m
         /\ DoneJob(m).victims = <<>> /\ DoneJob(m).rewound = None /\ DoneJob(m).taken = None
         /\ DoneJob(m).pinned = None /\ DoneJob(m).rewind = FALSE /\ DoneJob(m).now = FALSE
         /\ DoneJob(m).kill = FALSE
<1>1. <<>> \in Seq(Msgs)
  BY Emptiness
<1> QED BY <1>1 DEF NoJob, JobType, DoneJob

LEMMA CancelJobFields ==
  ASSUME NEW kill \in BOOLEAN, NEW rewind \in BOOLEAN, NEW now \in BOOLEAN,
         current_prompt_id \in Msgs \cup {None}
  PROVE  LET j == CancelJob(kill, rewind, now) IN
         /\ j \in JobType /\ j.kill = kill /\ j.rewind = rewind /\ j.now = now
         /\ j.pinned = current_prompt_id /\ j.done = None
         /\ j.victims = <<>> /\ j.rewound = None /\ j.taken = None
<1>1. <<>> \in Seq(Msgs)
  BY Emptiness
<1> QED BY <1>1 DEF NoJob, JobType, CancelJob

LEMMA RewoundJobFields ==
  ASSUME NEW j \in JobType, NEW m \in Msgs
  PROVE  LET k == [j EXCEPT !.rewound = m] IN
         /\ k \in JobType /\ k.rewound = m /\ k.kill = j.kill /\ k.rewind = j.rewind
         /\ k.now = j.now /\ k.pinned = j.pinned /\ k.done = j.done /\ k.taken = j.taken
         /\ k.victims = j.victims
BY DEF JobType

LEMMA VictimJobFields ==
  ASSUME NEW j \in JobType, NEW m \in Msgs \cup {None}, NEW v \in Seq(Msgs)
  PROVE  LET k == VictimJob(j, m, v) IN
         /\ k \in JobType /\ k.rewound = j.rewound /\ k.kill = j.kill /\ k.rewind = j.rewind
         /\ k.now = j.now /\ k.pinned = j.pinned /\ k.done = j.done /\ k.taken = m
         /\ k.victims = v
BY DEF JobType, VictimJob

LEMMA JobFields ==
  ASSUME job \in JobType
  PROVE  /\ job.kill \in BOOLEAN /\ job.rewind \in BOOLEAN /\ job.now \in BOOLEAN
         /\ job.pinned \in Msgs \cup {None} /\ job.taken \in Msgs \cup {None}
         /\ job.rewound \in Msgs \cup {None} /\ job.done \in Msgs \cup {None}
         /\ job.victims \in Seq(Msgs)
BY DEF JobType

LEMMA MsgsNat == Msgs \subseteq Nat /\ None \notin Msgs /\ MaxMsgs \in Nat
BY QueueAssumption DEF Msgs, None

(* TypeOK, conjunct by conjunct. *)
LEMMA TypeParts ==
  ASSUME TypeOK
  PROVE  /\ allocated \in 0 .. MaxMsgs
         /\ kind \in [Msgs -> AllKinds]
         /\ send_now \in [Msgs -> BOOLEAN]
         /\ pending_inputs \in Seq(Msgs)
         /\ running_task \in Msgs \cup {None}
         /\ current_prompt_id \in Msgs \cup {None}
         /\ rewindable \in BOOLEAN
         /\ pending_interjections \in Seq(Msgs)
         /\ pending_notifications \in Msgs \cup {None}
         /\ notifications_suppressed \in BOOLEAN /\ rewind_since_drain \in BOOLEAN
         /\ goal_active \in BOOLEAN /\ blocked_in_wait \in BOOLEAN
         /\ auto_wake_delivered \in SUBSET Msgs
         /\ turn \in [Msgs -> TurnStates]
         /\ completions \in Seq(Msgs)
         /\ at \in Labels
         /\ job \in JobType
         /\ mcp \in {"pending", "done"} /\ plan \in {"pending", "queued", "done"}
         /\ runs \in [Msgs -> Nat] /\ terminals \in [Msgs -> Nat]
         /\ fate \in [Msgs -> Fates]
BY DEF TypeOK, JobType

-----------------------------------------------------------------------------
(* What the building blocks of the actions do. *)

(* The running turn is at the front of q. *)
AtFront(q) == q # <<>> /\ q[1] = running_task

LEMMA FrontHead ==
  ASSUME TypeOK
  PROVE  FrontIsRunning <=> (running_task # None => AtFront(pending_inputs))
BY TypeParts, Emptiness DEF FrontIsRunning, AtFront

LEMMA QueuedType ==
  ASSUME TypeOK
  PROVE  /\ Queued \in SUBSET Msgs /\ Buffered \in SUBSET Msgs /\ Channel \in SUBSET Msgs
         /\ Victims \in SUBSET Msgs
         /\ pending_inputs = <<>> => Queued = {}
         /\ pending_inputs # <<>> => Head(pending_inputs) \in Queued
         /\ AtFront(pending_inputs) => running_task \in Queued
<1>1. /\ pending_inputs \in Seq(Msgs) /\ pending_interjections \in Seq(Msgs)
      /\ completions \in Seq(Msgs) /\ job.victims \in Seq(Msgs)
  BY TypeParts, JobFields
<1> QED BY <1>1, Emptiness DEF Queued, Buffered, Channel, Victims, AtFront

(* Alloc takes the next number and touches no other message's kind. *)
LEMMA Allocated ==
  ASSUME TypeOK, NEW k, Alloc(k)
  PROVE  /\ Next1 \in Msgs /\ Next1 \notin Sent /\ Sent' = Sent \cup {Next1}
         /\ allocated' \in 0 .. MaxMsgs /\ kind' \in [Msgs -> AllKinds]
         /\ k \in Kinds /\ kind'[Next1] = k
         /\ \A m \in Msgs : m # Next1 => kind'[m] = kind[m]
<1>1. allocated \in 0 .. MaxMsgs /\ MaxMsgs \in Nat /\ kind \in [Msgs -> AllKinds]
  BY TypeParts, MsgsNat
<1>2. k \in AllKinds /\ k \in Kinds
  BY QueueAssumption DEF Alloc
<1>3. Next1 \in Msgs /\ allocated' = allocated + 1 /\ Next1 = allocated + 1
  BY <1>1 DEF Alloc, Next1, Msgs
<1>4. Next1 \notin Sent /\ Sent' = Sent \cup {Next1}
  BY <1>1, <1>3 DEF Sent
<1>5. allocated' \in 0 .. MaxMsgs
  BY <1>1 DEF Alloc, Next1
<1> QED BY <1>1, <1>2, <1>3, <1>4, <1>5 DEF Alloc

(* Fate gives f to the messages of S and to no other. *)
LEMMA Fated ==
  ASSUME TypeOK, NEW S, NEW f \in Fates, Fate(S, f)
  PROVE  /\ fate' \in [Msgs -> Fates]
         /\ \A m \in Msgs : fate'[m] = IF m \in S THEN f ELSE fate[m]
BY TypeParts DEF Fate

(* maybe_start_running_task: nothing, or the front gets the slot, the pin and a task. *)
LEMMA Promoted ==
  ASSUME TypeOK, NEW q \in Seq(Msgs), maybe_start_running_task(q)
  PROVE  /\ running_task' \in Msgs \cup {None} /\ current_prompt_id' \in Msgs \cup {None}
         /\ rewindable' \in BOOLEAN /\ turn' \in [Msgs -> TurnStates]
         /\ runs' \in [Msgs -> Nat]
         /\ running_task # None \/ q = <<>> =>
              /\ running_task' = running_task /\ current_prompt_id' = current_prompt_id
              /\ rewindable' = rewindable /\ turn' = turn /\ runs' = runs
         /\ running_task = None /\ q # <<>> =>
              /\ q[1] \in Msgs /\ q[1] \in ToSet(q)
              /\ running_task' = q[1] /\ current_prompt_id' = q[1]
              /\ turn'[q[1]] = "running" /\ runs'[q[1]] = runs[q[1]] + 1
              /\ \A m \in Msgs : m # q[1] => turn'[m] = turn[m] /\ runs'[m] = runs[m]
<1>1. /\ running_task \in Msgs \cup {None} /\ current_prompt_id \in Msgs \cup {None}
      /\ rewindable \in BOOLEAN /\ turn \in [Msgs -> TurnStates] /\ runs \in [Msgs -> Nat]
  BY TypeParts
<1>2. CASE running_task # None \/ q = <<>>
  BY <1>1, <1>2 DEF maybe_start_running_task, taskVars
<1>3. CASE running_task = None /\ q # <<>>
  <2>1. q[1] \in Msgs /\ q[1] \in ToSet(q)
    BY <1>3, Emptiness
  <2>2. "running" \in TurnStates
    BY DEF TurnStates
  <2>3. PICK f \in Msgs : f = q[1]
    BY <2>1
  <2>4. /\ running_task' = f /\ current_prompt_id' = f /\ rewindable' = TRUE
        /\ turn' = [turn EXCEPT ![f] = "running"] /\ runs' = [runs EXCEPT ![f] = @ + 1]
    BY <1>3, <2>3 DEF maybe_start_running_task
  <2>5. /\ turn' \in [Msgs -> TurnStates] /\ runs' \in [Msgs -> Nat]
        /\ turn'[f] = "running" /\ runs'[f] = runs[f] + 1
        /\ \A m \in Msgs : m # f => turn'[m] = turn[m] /\ runs'[m] = runs[m]
    BY <1>1, <2>2, <2>4
  <2> QED BY <1>1, <1>3, <2>1, <2>3, <2>4, <2>5
<1> QED BY <1>2, <1>3

(* A sweep removes S and never the running front. *)
LEMMA SweptQueue ==
  ASSUME TypeOK, NEW S, running_task \notin S
  PROVE  LET q == Swept(pending_inputs, S) IN
         /\ q \in Seq(Msgs) /\ ToSet(q) = Queued \ S
         /\ Distinct(pending_inputs) => Distinct(q)
         /\ AtFront(pending_inputs) => AtFront(q)
<1> DEFINE K == (Msgs \ S) \cup {running_task}
           q == Retain(pending_inputs, K)
<1>1. pending_inputs \in Seq(Msgs)
  BY TypeParts
<1>2. /\ q \in Seq(Msgs) /\ ToSet(q) = ToSet(pending_inputs) \cap K
      /\ Distinct(pending_inputs) => Distinct(q)
      /\ pending_inputs # <<>> /\ pending_inputs[1] \in K => q # <<>> /\ q[1] = pending_inputs[1]
  BY <1>1, Retained
<1> HIDE DEF q
<1>3. ToSet(q) = Queued \ S
  BY <1>2, QueuedType DEF Queued
<1>4. AtFront(pending_inputs) => AtFront(q)
  BY <1>2 DEF AtFront
<1>5. q = Swept(pending_inputs, S)
  BY DEF Swept, q
<1> QED BY <1>2, <1>3, <1>4, <1>5

(* A queue without S, where the running turn is not in S. *)
LEMMA KeptQueue ==
  ASSUME TypeOK, NEW S, running_task \notin S
  PROVE  LET q == Retain(pending_inputs, Msgs \ S) IN
         /\ q \in Seq(Msgs) /\ ToSet(q) = Queued \ S
         /\ Distinct(pending_inputs) => Distinct(q)
         /\ AtFront(pending_inputs) => AtFront(q)
<1> DEFINE K == Msgs \ S
           q == Retain(pending_inputs, K)
<1>1. pending_inputs \in Seq(Msgs) /\ running_task \in Msgs \cup {None}
  BY TypeParts
<1>2. /\ q \in Seq(Msgs) /\ ToSet(q) = ToSet(pending_inputs) \cap K
      /\ Distinct(pending_inputs) => Distinct(q)
      /\ pending_inputs # <<>> /\ pending_inputs[1] \in K => q # <<>> /\ q[1] = pending_inputs[1]
  BY <1>1, Retained
<1> HIDE DEF q
<1>3. ToSet(q) = Queued \ S
  BY <1>2, QueuedType DEF Queued
<1>4. AtFront(pending_inputs) => running_task \in K
  BY QueuedType
<1>5. AtFront(pending_inputs) => AtFront(q)
  BY <1>2, <1>4 DEF AtFront
<1> QED BY <1>2, <1>3, <1>5 DEF q

(* A message put behind the running turn and the send-now stack. *)
LEMMA SentNow ==
  ASSUME TypeOK, NEW q \in Seq(Msgs), NEW m \in Msgs
  PROVE  LET r == InsertAt(q, BehindSends(q), m) IN
         /\ r \in Seq(Msgs) /\ ToSet(r) = ToSet(q) \cup {m}
         /\ Distinct(q) /\ m \notin ToSet(q) => Distinct(r)
         /\ AtFront(q) => AtFront(r)
<1> DEFINE k == BehindSends(q)
           r == SubSeq(q, 1, k - 1) \o <<m>> \o SubSeq(q, k, Len(q))
<1>1. k \in 1 .. Len(q) + 1 /\ (AtFront(q) => k # 1)
  BY BehindRange DEF AtFront
<1>2. <<m>> \in Seq(Msgs) /\ ToSet(<<m>>) = {m} /\ Distinct(<<m>>)
  BY One
<1> HIDE DEF k
<1>3. /\ r \in Seq(Msgs) /\ ToSet(r) = ToSet(q) \cup ToSet(<<m>>)
      /\ Distinct(q) /\ Distinct(<<m>>) /\ ToSet(q) \cap ToSet(<<m>>) = {} => Distinct(r)
      /\ k # 1 => r # <<>> /\ r[1] = q[1]
  BY <1>1, <1>2, Inserted
<1> HIDE DEF r
<1>4. r = InsertAt(q, BehindSends(q), m)
  BY DEF InsertAt, r, k
<1> QED BY <1>1, <1>2, <1>3, <1>4 DEF AtFront

LEMMA LastInQueue ==
  ASSUME TypeOK, NEW q \in Seq(Msgs), NEW m \in Msgs
  PROVE  LET r == Append(q, m) IN
         /\ r \in Seq(Msgs) /\ ToSet(r) = ToSet(q) \cup {m}
         /\ Distinct(q) /\ m \notin ToSet(q) => Distinct(r)
         /\ AtFront(q) => AtFront(r)
BY Appended DEF AtFront

Dropped(k) == IF k = "user" THEN Preempted ELSE {}

(* queue_input: m is in the queue, what it preempts is out of it. *)
LEMMA Inputted ==
  ASSUME TypeOK, NEW m \in Msgs, NEW k, NEW now, queue_input(m, k, now)
  PROVE  /\ pending_inputs' \in Seq(Msgs) /\ Queued' = (Queued \ Dropped(k)) \cup {m}
         /\ Distinct(pending_inputs) /\ m \notin Queued => Distinct(pending_inputs')
         /\ AtFront(pending_inputs) => AtFront(pending_inputs')
         /\ send_now' \in [Msgs -> BOOLEAN]
         /\ auto_wake_delivered' = (auto_wake_delivered \ Dropped(k)) \cup
                                     (IF k = "wake" THEN {m} ELSE {})
         /\ Fate(Dropped(k), "dropped")
         /\ Dropped(k) \subseteq Queued /\ running_task \notin Dropped(k)
<1> DEFINE q == Swept(pending_inputs, Dropped(k))
           sends == k = "user" /\ (now \/ AutoSendNow)
<1>1. /\ pending_inputs' = IF sends THEN InsertAt(q, BehindSends(q), m) ELSE Append(q, m)
      /\ send_now' = [send_now EXCEPT ![m] = sends]
      /\ auto_wake_delivered' = Unmarked(Dropped(k)) \cup (IF k = "wake" THEN {m} ELSE {})
      /\ Fate(Dropped(k), "dropped")
  BY DEF queue_input, Dropped
<1>2. Dropped(k) \subseteq Queued /\ running_task \notin Dropped(k)
  BY DEF Dropped, Preempted
<1>3. /\ q \in Seq(Msgs) /\ ToSet(q) = Queued \ Dropped(k)
      /\ Distinct(pending_inputs) => Distinct(q)
      /\ AtFront(pending_inputs) => AtFront(q)
  BY <1>2, SweptQueue
<1>4. sends \in BOOLEAN
  OBVIOUS
<1> HIDE DEF q, sends
<1> DEFINE r == pending_inputs'
<1>5. /\ r \in Seq(Msgs) /\ ToSet(r) = ToSet(q) \cup {m}
      /\ Distinct(q) /\ m \notin ToSet(q) => Distinct(r)
      /\ AtFront(q) => AtFront(r)
  <2>1. CASE sends
    BY <2>1, <1>1, <1>3, SentNow
  <2>2. CASE ~sends
    BY <2>2, <1>1, <1>3, LastInQueue
  <2> QED BY <2>1, <2>2
<1>6. Queued' = ToSet(r)
  BY DEF Queued
<1>7. send_now' \in [Msgs -> BOOLEAN]
  BY <1>1, <1>4, TypeParts
<1> QED BY <1>1, <1>2, <1>3, <1>5, <1>6, <1>7 DEF Unmarked

(* queue_interjection_fallback_prompt puts texts behind the running turn. *)
LEMMA FellBack ==
  ASSUME TypeOK, NEW t \in Seq(Msgs), InsertFallbacks(t)
  PROVE  /\ pending_inputs' \in Seq(Msgs) /\ Queued' = Queued \cup ToSet(t)
         /\ Distinct(pending_inputs) /\ Distinct(t) /\ Queued \cap ToSet(t) = {} =>
              Distinct(pending_inputs')
         /\ AtFront(pending_inputs) => AtFront(pending_inputs')
         /\ send_now' \in [Msgs -> BOOLEAN]
<1> DEFINE q == pending_inputs
           k == BehindRunning(q)
           r == SubSeq(q, 1, k - 1) \o t \o SubSeq(q, k, Len(q))
<1>1. q \in Seq(Msgs) /\ send_now \in [Msgs -> BOOLEAN]
  BY TypeParts
<1>2. k \in 1 .. Len(q) + 1 /\ (AtFront(q) => k # 1)
  BY <1>1, BehindRange DEF AtFront
<1>3. pending_inputs' = r /\ send_now' = [m \in Msgs |-> send_now[m] \/ m \in ToSet(t)]
  BY DEF InsertFallbacks
<1>4. send_now' \in [Msgs -> BOOLEAN]
  BY <1>1, <1>3
<1> HIDE DEF k
<1>5. /\ r \in Seq(Msgs) /\ ToSet(r) = ToSet(q) \cup ToSet(t)
      /\ Distinct(q) /\ Distinct(t) /\ ToSet(q) \cap ToSet(t) = {} => Distinct(r)
      /\ k # 1 => r # <<>> /\ r[1] = q[1]
  BY <1>1, <1>2, Inserted, ZenonT(40)
<1> HIDE DEF r
<1>6. Queued' = ToSet(r) /\ Queued = ToSet(q)
  BY <1>3 DEF Queued
<1> QED BY <1>2, <1>3, <1>4, <1>5, <1>6 DEF AtFront

(* A row promoted to run next is still queued once, behind the running turn. *)
LEMMA RowPromoted ==
  ASSUME TypeOK, NEW m \in Msgs, InterjectQueuedPrompt(m)
  PROVE  /\ pending_inputs' \in Seq(Msgs) /\ Queued' = Queued
         /\ Distinct(pending_inputs) => Distinct(pending_inputs')
         /\ AtFront(pending_inputs) => AtFront(pending_inputs')
<1> DEFINE q == Retain(pending_inputs, Msgs \ {m})
<1>1. running_task \notin {m} /\ m \in Queued
  BY DEF InterjectQueuedPrompt, Row
<1>2. /\ q \in Seq(Msgs) /\ ToSet(q) = Queued \ {m}
      /\ Distinct(pending_inputs) => Distinct(q)
      /\ AtFront(pending_inputs) => AtFront(q)
  BY <1>1, KeptQueue
<1>3. pending_inputs' = InsertAt(q, BehindSends(q), m)
  BY DEF InterjectQueuedPrompt
<1> HIDE DEF q
<1> DEFINE r == InsertAt(q, BehindSends(q), m)
<1>4. /\ r \in Seq(Msgs) /\ ToSet(r) = ToSet(q) \cup {m}
      /\ Distinct(q) /\ m \notin ToSet(q) => Distinct(r)
      /\ AtFront(q) => AtFront(r)
  BY <1>2, SentNow
<1> HIDE DEF r
<1>5. pending_inputs' = r /\ Queued' = ToSet(r)
  BY <1>3 DEF Queued, r
<1>6. Queued' = Queued
  BY <1>1, <1>2, <1>4, <1>5
<1> QED BY <1>2, <1>4, <1>5, <1>6

(* A reorder loses no message and leaves the running turn at the front. *)
LEMMA Reordered ==
  ASSUME TypeOK, NEW named \in SUBSET {m \in Msgs : Row(m)}, NEW ids \in SetToSeqs(named),
         ReorderQueue(ids)
  PROVE  /\ pending_inputs' \in Seq(Msgs) /\ Queued' = Queued
         /\ Distinct(pending_inputs) => Distinct(pending_inputs')
         /\ AtFront(pending_inputs) => AtFront(pending_inputs')
<1> DEFINE rows == {m \in Msgs : Row(m)}
           rest == rows \ ToSet(ids)
           a == Retain(pending_inputs, Msgs \ rows)
           c == Retain(pending_inputs, rest)
<1>1. pending_inputs \in Seq(Msgs) /\ Queued \subseteq Msgs
  BY TypeParts, QueuedType
<1>2. ids \in Seq(Msgs) /\ Distinct(ids) /\ ToSet(ids) = named
  BY Named
<1>3. running_task \notin rows /\ rows \subseteq Queued
  BY DEF Row
<1>4. pending_inputs' = (a \o ids) \o c
  BY DEF ReorderQueue
<1>5. /\ c \in Seq(Msgs) /\ ToSet(c) = ToSet(pending_inputs) \cap rest
      /\ Distinct(pending_inputs) => Distinct(c)
  BY <1>1, Retained
<1> HIDE DEF rows
<1>6. /\ a \in Seq(Msgs) /\ ToSet(a) = Queued \ rows
      /\ Distinct(pending_inputs) => Distinct(a)
      /\ AtFront(pending_inputs) => AtFront(a)
  BY <1>3, KeptQueue
<1> HIDE DEF a, c
<1> DEFINE b == a \o ids
<1>7. /\ b \in Seq(Msgs) /\ ToSet(b) = ToSet(a) \cup ToSet(ids)
      /\ Distinct(a) /\ Distinct(ids) /\ ToSet(a) \cap ToSet(ids) = {} => Distinct(b)
      /\ a # <<>> => b # <<>> /\ b[1] = a[1]
  BY <1>2, <1>6, Concatenated
<1> HIDE DEF b
<1> DEFINE r == b \o c
<1>8. /\ r \in Seq(Msgs) /\ ToSet(r) = ToSet(b) \cup ToSet(c)
      /\ Distinct(b) /\ Distinct(c) /\ ToSet(b) \cap ToSet(c) = {} => Distinct(r)
      /\ b # <<>> => r # <<>> /\ r[1] = b[1]
  BY <1>5, <1>7, Concatenated
<1>9. pending_inputs' = r
  BY <1>4 DEF b
<1> HIDE DEF r
<1>10. named \subseteq rows
  BY DEF rows
<1>11. /\ ToSet(a) \cap ToSet(ids) = {} /\ ToSet(b) \cap ToSet(c) = {}
       /\ ToSet(r) = Queued
  BY <1>2, <1>3, <1>5, <1>6, <1>7, <1>8, <1>10 DEF Queued
<1>12. Queued' = Queued
  BY <1>9, <1>11 DEF Queued
<1>13. AtFront(a) => AtFront(r)
  BY <1>7, <1>8 DEF AtFront
<1> QED BY <1>2, <1>5, <1>6, <1>7, <1>8, <1>9, <1>11, <1>12, <1>13

-----------------------------------------------------------------------------
(* How the invariant of a message is carried over a step. *)

(* TypeOK without the handler's locals, whose records have lemmas of their own. *)
Types ==
  /\ allocated \in 0 .. MaxMsgs
  /\ kind \in [Msgs -> AllKinds]
  /\ send_now \in [Msgs -> BOOLEAN]
  /\ pending_inputs \in Seq(Msgs)
  /\ running_task \in Msgs \cup {None}
  /\ current_prompt_id \in Msgs \cup {None}
  /\ rewindable \in BOOLEAN
  /\ pending_interjections \in Seq(Msgs)
  /\ pending_notifications \in Msgs \cup {None}
  /\ notifications_suppressed \in BOOLEAN /\ rewind_since_drain \in BOOLEAN
  /\ goal_active \in BOOLEAN /\ blocked_in_wait \in BOOLEAN
  /\ auto_wake_delivered \in SUBSET Msgs
  /\ turn \in [Msgs -> TurnStates]
  /\ completions \in Seq(Msgs)
  /\ at \in Labels
  /\ mcp \in {"pending", "done"} /\ plan \in {"pending", "queued", "done"}
  /\ runs \in [Msgs -> Nat] /\ terminals \in [Msgs -> Nat]
  /\ fate \in [Msgs -> Fates]

LEMMA TypesSplit ==
  /\ TypeOK <=> Types /\ job \in JobType
  /\ TypeOK' <=> Types' /\ job' \in JobType
BY DEF TypeOK, Types, JobType

LEMMA FrontHeadNext ==
  ASSUME TypeOK'
  PROVE  FrontIsRunning' <=>
           (running_task' # None => pending_inputs' # <<>> /\ pending_inputs'[1] = running_task')
<1>1. pending_inputs' \in Seq(Msgs)
  BY DEF TypeOK
<1> QED BY <1>1, Emptiness DEF FrontIsRunning

(* What every step starts from. *)
LEMMA Facts ==
  ASSUME IInv
  PROVE  /\ TypeOK /\ Types /\ job \in JobType /\ FrontIsRunning
         /\ Distinct(pending_inputs) /\ Distinct(pending_interjections)
         /\ running_task # None => AtFront(pending_inputs) /\ running_task \in Queued
         /\ Queued \subseteq Msgs /\ Buffered \subseteq Msgs /\ Channel \subseteq Msgs
         /\ Victims \subseteq Msgs /\ JobKept /\ PinKept
         /\ \A m \in Msgs : MsgInv(m)
BY TypesSplit, FrontHead, QueuedType DEF IInv

(* A message whose part of the state a step leaves alone. *)
Same(m) ==
  /\ kind'[m] = kind[m] /\ fate'[m] = fate[m] /\ runs'[m] = runs[m]
  /\ terminals'[m] = terminals[m]
  /\ turn'[m] # "none" => turn[m] # "none"
  /\ turn[m] = "sent" => turn'[m] = "sent"
  /\ m \in Sent' <=> m \in Sent
  /\ m \in Queued' <=> m \in Queued
  /\ m \in Victims' <=> m \in Victims
  /\ m = job'.rewound <=> m = job.rewound
  /\ m \in Buffered' <=> m \in Buffered
  /\ m = pending_notifications' <=> m = pending_notifications
  /\ Falling(m)' <=> Falling(m)
  /\ m \in Queued => (m = running_task' <=> m = running_task)
  /\ m \in Victims => (m = job'.taken <=> m = job.taken)
  /\ m \in Channel' \/ Completing(m)' => m \in Channel \/ Completing(m) \/ turn'[m] = "sent"
  /\ m \in auto_wake_delivered' => m \in auto_wake_delivered

LEMMA InHandSplit ==
  ASSUME NEW m
  PROVE  /\ m \in InHand <=> m \in Queued \/ m \in Victims \/ m = job.rewound
         /\ m \in InHand' <=> m \in Queued' \/ m \in Victims' \/ m = job'.rewound
BY DEF InHand, Queued, Victims

(* A message whose part is the same keeps its invariant. *)
LEMMA SameKept ==
  ASSUME NEW m \in Msgs, MsgInv(m), Same(m)
  PROVE  MsgInv(m)'
<1>1. m \in InHand' <=> m \in InHand
  BY InHandSplit DEF Same
<1>2. Outside(m)' <=> Outside(m)
  BY DEF Same, Outside
<1>3. PlaceKept(m)'
  BY <1>1, <1>2 DEF Same, MsgInv, PlaceKept
<1>4. HeldKept(m)'
  BY <1>1 DEF Same, MsgInv, HeldKept, Awaited, Synthetic
<1>5. RunKept(m)'
  BY DEF Same, MsgInv, RunKept
<1>6. WakeKept(m)'
  BY <1>1 DEF Same, MsgInv, WakeKept
<1> QED BY <1>3, <1>4, <1>5, <1>6 DEF MsgInv

-----------------------------------------------------------------------------
(* Steps of a turn that move no message. *)

(* Such a step keeps the invariant if it only winds a task on. *)
LEMMA TurnMoves ==
  ASSUME IInv, Types',
         UNCHANGED <<allocated, kind, pending_inputs, running_task, pending_interjections,
                     pending_notifications, auto_wake_delivered, job, at, runs, terminals, fate>>,
         current_prompt_id' \in {None, current_prompt_id},
         \A m \in Msgs : /\ turn'[m] # "none" => turn[m] # "none"
                         /\ turn[m] = "sent" => turn'[m] = "sent"
                         /\ m \in Channel' => m \in Channel \/ turn'[m] = "sent"
  PROVE  IInv'
<1>1. TypeOK'
  BY TypesSplit, Facts
<1>2. FrontIsRunning' /\ Distinct(pending_inputs)' /\ Distinct(pending_interjections)'
  BY Facts DEF FrontIsRunning, Distinct
<1>3. /\ Sent' = Sent /\ Queued' = Queued /\ Victims' = Victims /\ Buffered' = Buffered
      /\ job' = job /\ at' = at
  BY DEF Sent, Queued, Victims, Buffered
<1>4. JobKept'
  BY <1>3, Facts DEF JobKept
<1>5. PinKept'
  <2>1. at = "completion" => job.done # None
    BY Facts, MsgsNat DEF JobKept
  <2> QED BY <1>3, <2>1, Facts DEF PinKept
<1>6. ASSUME NEW m \in Msgs PROVE MsgInv(m)'
  <2>1. Falling(m)' <=> Falling(m)
    BY <1>3 DEF Falling
  <2>2. Completing(m)' <=> Completing(m)
    BY <1>3 DEF Completing
  <2>3. Same(m)
    BY <1>3, <2>1, <2>2 DEF Same
  <2> QED BY <2>3, SameKept, Facts
<1> QED BY <1>1, <1>2, <1>4, <1>5, <1>6 DEF IInv

LEMMA EmitEventKeeps ==
  ASSUME IInv, NEW m \in Msgs, EmitEvent(m)
  PROVE  IInv'
<1> USE DEF EmitEvent, turnFrame, msgVars, gateVars, noteVars, bgVars
<1>1. Types'
  BY Facts DEF Types
<1>2. Channel' = Channel
  BY DEF Channel
<1> QED BY <1>1, <1>2, TurnMoves

LEMMA SetGateKeeps ==
  ASSUME IInv, NEW m \in Msgs, SetGate(m)
  PROVE  IInv'
<1>1. Types'
  <2>1. goal_active' \in BOOLEAN /\ blocked_in_wait' \in BOOLEAN
    BY Facts DEF SetGate, Types
  <2>2. UNCHANGED <<allocated, kind, pending_inputs, send_now, running_task, current_prompt_id,
                    rewindable, pending_interjections, pending_notifications,
                    notifications_suppressed, rewind_since_drain, auto_wake_delivered, turn,
                    completions, at, mcp,
                    plan, runs, terminals, fate>>
    BY DEF SetGate, turnFrame, msgVars, noteVars, bgVars
  <2> QED BY <2>1, <2>2, Facts DEF Types
<1> USE DEF SetGate, turnFrame, msgVars, gateVars, noteVars, bgVars
<1>2. Channel' = Channel
  BY DEF Channel
<1> QED BY <1>1, <1>2, TurnMoves

LEMMA EndTurnKeeps ==
  ASSUME IInv, NEW m \in Msgs, EndTurn(m)
  PROVE  IInv'
<1> USE DEF EndTurn, turnFrame, msgVars, gateVars, noteVars, bgVars
<1>1. Types'
  BY Facts DEF Types, TurnStates
<1>2. Channel' = Channel
  BY DEF Channel
<1>3. \A n \in Msgs : turn'[n] = IF n = m THEN "final" ELSE turn[n]
  BY Facts DEF Types
<1> QED BY <1>1, <1>2, <1>3, TurnMoves

LEMMA UnpinKeeps ==
  ASSUME IInv, NEW m \in Msgs, Unpin(m)
  PROVE  IInv'
<1> USE DEF Unpin, turnFrame, msgVars, gateVars, noteVars, bgVars
<1>1. Types'
  BY Facts DEF Types, TurnStates, PinAfter
<1>2. Channel' = Channel
  BY DEF Channel
<1>3. \A n \in Msgs : turn'[n] = IF n = m THEN "unpinned" ELSE turn[n]
  BY Facts DEF Types
<1>4. current_prompt_id' \in {None, current_prompt_id}
  BY DEF PinAfter
<1> QED BY <1>1, <1>2, <1>3, <1>4, TurnMoves

LEMMA SendCompletionKeeps ==
  ASSUME IInv, NEW m \in Msgs, SendCompletion(m)
  PROVE  IInv'
<1> USE DEF SendCompletion, turnFrame, msgVars, gateVars, noteVars, bgVars
<1>0. completions \in Seq(Msgs)
  BY Facts DEF Types
<1>1. completions' \in Seq(Msgs) /\ Channel' = Channel \cup {m}
  BY <1>0, Appended DEF Channel
<1>2. Types'
  BY <1>1, Facts DEF Types, TurnStates
<1>3. \A n \in Msgs : turn'[n] = IF n = m THEN "sent" ELSE turn[n]
  BY Facts DEF Types
<1> QED BY <1>1, <1>2, <1>3, TurnMoves

-----------------------------------------------------------------------------
(* Promotion, by the actor or by a background task. *)

(* The front gets the slot: it is queued and never ran. *)
LEMMA PromotionKeeps ==
  ASSUME IInv, Types', maybe_start_running_task(pending_inputs),
         UNCHANGED <<allocated, kind, pending_inputs, pending_interjections,
                     pending_notifications, auto_wake_delivered, completions, job, terminals,
                     fate>>,
         at' = at \/ {at, at'} \subseteq {"start", "loop", "restart", "drain"}
  PROVE  IInv'
<1> DEFINE f == pending_inputs[1]
<1>1. TypeOK'
  BY TypesSplit, Facts
<1>2. pending_inputs \in Seq(Msgs) /\ TypeOK
  BY Facts DEF Types
<1>3. \/ /\ running_task' = running_task /\ current_prompt_id' = current_prompt_id
         /\ turn' = turn /\ runs' = runs
      \/ /\ running_task = None /\ pending_inputs # <<>> /\ f \in Msgs /\ f \in Queued
         /\ running_task' = f /\ current_prompt_id' = f
         /\ turn'[f] = "running" /\ runs'[f] = runs[f] + 1
         /\ \A m \in Msgs : m # f => turn'[m] = turn[m] /\ runs'[m] = runs[m]
  BY <1>2, Promoted DEF Queued
<1> HIDE DEF f
<1>4. /\ Sent' = Sent /\ Queued' = Queued /\ Victims' = Victims /\ Buffered' = Buffered
      /\ Channel' = Channel /\ job' = job
  BY DEF Sent, Queued, Victims, Buffered, Channel
<1>5. /\ Distinct(pending_inputs)' /\ Distinct(pending_interjections)'
  BY Facts DEF Distinct
<1>6. FrontIsRunning'
  BY <1>1, <1>3, FrontHeadNext, Facts DEF AtFront, f
<1>7. running_task = None /\ f \in Queued /\ f \in Msgs => runs[f] = 0 /\ ~Completing(f)
  BY Facts, MsgsNat DEF MsgInv, RunKept
<1>8. JobKept'
  BY <1>3, <1>4, Facts DEF JobKept
<1>9. PinKept'
  BY <1>3, <1>4, <1>7, Facts DEF PinKept, Completing
<1>10. ASSUME NEW m \in Msgs PROVE MsgInv(m)'
  <2>1. (Falling(m)' <=> Falling(m)) /\ (Completing(m)' <=> Completing(m))
    BY <1>4 DEF Falling, Completing
  <2>2. CASE running_task' = running_task /\ turn' = turn /\ runs' = runs
    <3>1. Same(m)
      BY <1>4, <2>1, <2>2 DEF Same
    <3> QED BY <3>1, SameKept, Facts
  <2>3. CASE running_task = None /\ f \in Queued /\ f \in Msgs /\ running_task' = f /\ m # f
             /\ turn'[m] = turn[m] /\ runs'[m] = runs[m]
    <3>1. m # running_task /\ m # running_task'
      BY <2>3, MsgsNat
    <3>2. Same(m)
      BY <1>4, <2>1, <2>3, <3>1 DEF Same
    <3> QED BY <3>2, SameKept, Facts
  <2>4. CASE /\ running_task = None /\ f \in Queued /\ f \in Msgs /\ running_task' = f /\ m = f
             /\ turn'[f] = "running" /\ runs'[f] = runs[f] + 1
    <3>1. runs[m] = 0 /\ runs'[m] = 1 /\ m \in Queued /\ ~Completing(m)
      BY <1>7, <2>4
    <3>2. MsgInv(m)
      BY Facts
    <3>3. (m \in InHand' <=> m \in InHand) /\ (Outside(m)' <=> Outside(m)) /\ m \in InHand
      BY <1>4, <2>1, <3>1, InHandSplit DEF Outside
    <3>4. PlaceKept(m)'
      BY <1>4, <2>1, <3>1, <3>2, <3>3 DEF MsgInv, PlaceKept
    <3>5. HeldKept(m)'
      BY <1>4, <2>1, <3>2, <3>3 DEF MsgInv, HeldKept, Awaited, Synthetic
    <3>6. m \notin Channel /\ fate[m] = "none" /\ terminals[m] = 0 /\ m \in Sent /\ m \notin Victims
      BY <3>1, <3>2, <3>3 DEF MsgInv, PlaceKept, RunKept
    <3>7. RunKept(m)'
      BY <1>4, <2>1, <2>4, <3>1, <3>6 DEF RunKept
    <3>8. WakeKept(m)'
      BY <1>4, <3>2, <3>3 DEF MsgInv, WakeKept
    <3> QED BY <3>4, <3>5, <3>7, <3>8 DEF MsgInv
  <2> QED BY <1>3, <2>2, <2>3, <2>4
<1> QED BY <1>1, <1>5, <1>6, <1>8, <1>9, <1>10 DEF IInv

LEMMA StartKeeps ==
  ASSUME IInv, Start \/ Restart \/ McpInitialized \/ ResumePlanStart
  PROVE  IInv'
<1>1. maybe_start_running_task(pending_inputs)
  BY DEF Start, Restart, McpInitialized, ResumePlanStart
<1>2. TypeOK /\ pending_inputs \in Seq(Msgs)
  BY Facts DEF Types
<1>3. /\ running_task' \in Msgs \cup {None} /\ current_prompt_id' \in Msgs \cup {None}
      /\ rewindable' \in BOOLEAN /\ turn' \in [Msgs -> TurnStates]
      /\ runs' \in [Msgs -> Nat]
  BY <1>1, <1>2, Promoted
<1>4. /\ UNCHANGED <<allocated, kind, send_now, pending_inputs, pending_interjections,
                     pending_notifications, notifications_suppressed, rewind_since_drain,
                     goal_active, blocked_in_wait, auto_wake_delivered, completions, job,
                     terminals, fate>>
      /\ at' = at \/ {at, at'} \subseteq {"start", "loop", "restart", "drain"}
      /\ mcp' \in {mcp, "done"} /\ plan' \in {plan, "done"}
  BY DEF Start, Restart, McpInitialized, ResumePlanStart, msgVars, noteVars, gateVars, bgVars,
         histVars, bgFrame
<1>5. at' \in Labels /\ mcp' \in {"pending", "done"} /\ plan' \in {"pending", "queued", "done"}
  BY <1>4, Facts DEF Types, Labels
<1>6. Types'
  BY <1>3, <1>4, <1>5, Facts DEF Types
<1> QED BY <1>1, <1>4, <1>6, PromotionKeeps

-----------------------------------------------------------------------------
(* The ways a message moves: it arrives, enters the queue, or leaves. *)

Nowhere(m) == /\ m \notin Queued /\ m \notin Victims /\ m # job.rewound
              /\ m \notin Buffered /\ m # pending_notifications /\ ~Falling(m)

(* A number not sent yet is nowhere and has no history. *)
LEMMA NewMessage ==
  ASSUME IInv, NEW k, Alloc(k)
  PROVE  /\ Nowhere(Next1) /\ runs[Next1] = 0 /\ terminals[Next1] = 0 /\ fate[Next1] = "none"
         /\ turn[Next1] = "none" /\ Next1 \notin Channel /\ ~Completing(Next1)
         /\ Next1 \notin auto_wake_delivered /\ Next1 # running_task
<1>1. Next1 \in Msgs /\ Next1 \notin Sent
  BY Facts, Allocated
<1>2. MsgInv(Next1)
  BY <1>1, Facts
<1>3. Nowhere(Next1)
  BY <1>1, <1>2, InHandSplit DEF MsgInv, PlaceKept, Nowhere, Outside
<1>4. Next1 # running_task
  BY <1>1, <1>3, Facts, MsgsNat DEF Nowhere
<1> QED BY <1>1, <1>2, <1>3, <1>4 DEF MsgInv, RunKept, WakeKept

(* A message arrives in one place. *)
LEMMA Arrived ==
  ASSUME NEW n \in Msgs, NEW k \in Kinds,
         kind'[n] = k, n \in Sent', fate'[n] = "none", runs'[n] = 0, terminals'[n] = 0,
         turn'[n] = "none", n \notin Channel', ~Completing(n)', n \notin Victims',
         n # job'.rewound, n # running_task',
         n \in auto_wake_delivered' => k = "wake" /\ n \in Queued',
         \/ /\ n \in Queued' /\ n \notin Buffered' /\ n # pending_notifications' /\ ~Falling(n)'
         \/ /\ k = "interject" /\ n \notin Queued' /\ n # pending_notifications'
            /\ \/ n \in Buffered' /\ ~Falling(n)'
               \/ n \notin Buffered' /\ Falling(n)'
         \/ /\ k = "drain" /\ n \notin Queued' /\ n = pending_notifications'
            /\ n \notin Buffered' /\ ~Falling(n)'
  PROVE  MsgInv(n)'
<1>1. PlaceKept(n)'
  BY InHandSplit DEF PlaceKept, Outside
<1>2. HeldKept(n)'
  BY InHandSplit DEF HeldKept, Awaited
<1>3. RunKept(n)'
  BY DEF RunKept
<1>4. WakeKept(n)'
  BY InHandSplit DEF WakeKept
<1> QED BY <1>1, <1>2, <1>3, <1>4 DEF MsgInv

(* A message leaves with the fate f. *)
LEMMA Left ==
  ASSUME NEW m \in Msgs, NEW f, MsgInv(m), m \in Sent, m \in Sent', Nowhere(m)',
         f # "none", fate'[m] = f, kind'[m] = kind[m], runs'[m] = runs[m],
         terminals'[m] \in Nat, terminals'[m] <= runs[m],
         f \in {"completed", "cancelled"} => terminals'[m] = runs[m],
         f = "dropped" => Synthetic(m) /\ (kind[m] = "cron" => "wake" \in Kinds),
         turn'[m] # "none" => turn[m] # "none",
         turn[m] = "sent" => turn'[m] = "sent",
         m \in Channel' \/ Completing(m)' => m \in Channel \/ Completing(m),
         m \in auto_wake_delivered' =>
           m \in auto_wake_delivered /\ f \in {"completed", "consumed", "rewound"}
  PROVE  MsgInv(m)'
<1>1. m \notin InHand' /\ ~Outside(m)'
  BY InHandSplit DEF Nowhere, Outside
<1>2. PlaceKept(m)'
  BY <1>1 DEF PlaceKept, Nowhere
<1>3. HeldKept(m)'
  BY DEF HeldKept, MsgInv, Synthetic
<1>4. RunKept(m)'
  BY DEF RunKept, MsgInv, Nowhere
<1>5. WakeKept(m)'
  BY DEF WakeKept, MsgInv
<1> QED BY <1>2, <1>3, <1>4, <1>5 DEF MsgInv

(* A message enters the queue, and perhaps the slot. *)
LEMMA Entered ==
  ASSUME NEW m \in Msgs, MsgInv(m), Outside(m),
         m \in Queued', m \in Sent' <=> m \in Sent, m \notin Victims', m # job'.rewound,
         ~Outside(m)', kind'[m] = kind[m], fate'[m] = fate[m], terminals'[m] = terminals[m],
         \/ /\ m # running_task' /\ runs'[m] = runs[m] /\ turn'[m] = turn[m]
         \/ /\ m = running_task' /\ runs'[m] = runs[m] + 1 /\ turn'[m] = "running",
         m \in Channel' => m \in Channel, ~Completing(m)',
         m \in auto_wake_delivered' => m \in auto_wake_delivered
  PROVE  MsgInv(m)'
<1>1. m \in Sent' /\ fate'[m] = "none" /\ terminals'[m] = 0 /\ runs[m] = 0 /\ m \in InHand'
  BY InHandSplit DEF MsgInv, PlaceKept
<1>2. m \notin Channel /\ turn[m] = "none"
  BY <1>1 DEF MsgInv, RunKept
<1>3. PlaceKept(m)'
  BY <1>1 DEF PlaceKept, Outside
<1>4. HeldKept(m)'
  BY <1>1 DEF HeldKept, MsgInv
<1>5. RunKept(m)'
  BY <1>1, <1>2 DEF RunKept
<1>6. WakeKept(m)'
  BY <1>1 DEF WakeKept, MsgInv
<1> QED BY <1>3, <1>4, <1>5, <1>6 DEF MsgInv

-----------------------------------------------------------------------------
(* Messages that arrive. *)

(* queue_input: one message arrives, the preempted ones leave. *)
LEMMA InputKeeps ==
  ASSUME IInv, Types', NEW k \in {"user", "cron", "wake", "plan"}, NEW now, Alloc(k),
         queue_input(Next1, k, now),
         UNCHANGED <<running_task, current_prompt_id, turn, runs, pending_interjections,
                     pending_notifications, completions, job, terminals>>,
         at' = at \/ {at, at'} \subseteq {"loop", "send_now", "start"}
  PROVE  IInv'
<1> DEFINE n == Next1
           dropped == Dropped(k)
<1>1. TypeOK' /\ TypeOK
  BY TypesSplit, Facts
<1>2. /\ n \in Msgs /\ n \notin Sent /\ Sent' = Sent \cup {n} /\ k \in Kinds /\ kind'[n] = k
      /\ \A m \in Msgs : m # n => kind'[m] = kind[m]
  BY <1>1, Allocated
<1>3. /\ Nowhere(n) /\ runs[n] = 0 /\ terminals[n] = 0 /\ fate[n] = "none"
      /\ turn[n] = "none" /\ n \notin Channel /\ ~Completing(n)
      /\ n \notin auto_wake_delivered /\ n # running_task
  BY NewMessage
<1> HIDE DEF n
<1>4. /\ Queued' = (Queued \ dropped) \cup {n}
      /\ n \notin Queued => Distinct(pending_inputs')
      /\ AtFront(pending_inputs) => AtFront(pending_inputs')
      /\ auto_wake_delivered' = (auto_wake_delivered \ dropped) \cup
                                  (IF k = "wake" THEN {n} ELSE {})
      /\ Fate(dropped, "dropped")
      /\ dropped \subseteq Queued /\ running_task \notin dropped
  BY <1>1, <1>2, Inputted, Facts DEF n
<1>5. \A m \in Msgs : fate'[m] = IF m \in dropped THEN "dropped" ELSE fate[m]
  BY <1>1, <1>4, Fated DEF Fates
<1>6. \A m \in dropped : Synthetic(m) /\ "wake" \in Kinds
  <2>1. CASE k # "user"
    BY <2>1 DEF Dropped
  <2>2. CASE k = "user"
    <3>1. ASSUME NEW m \in dropped PROVE Synthetic(m) /\ \E w \in Queued : kind[w] = "wake"
      BY <2>2 DEF Dropped, Preempted
    <3>2. \A w \in Queued : w \in Msgs /\ MsgInv(w) /\ w \in Sent
      BY Facts, InHandSplit DEF MsgInv, PlaceKept
    <3>3. \A w \in Queued : kind[w] \in Kinds
      BY <3>2 DEF MsgInv, HeldKept
    <3> QED BY <3>1, <3>3
  <2> QED BY <2>1, <2>2
<1> HIDE DEF dropped
<1>7. /\ Victims' = Victims /\ Buffered' = Buffered /\ Channel' = Channel /\ job' = job
  BY DEF Victims, Buffered, Channel
<1>8. FrontIsRunning'
  BY <1>1, <1>4, FrontHeadNext, Facts DEF AtFront
<1>9. Distinct(pending_inputs)' /\ Distinct(pending_interjections)'
  BY <1>3, <1>4, Facts DEF Nowhere, Distinct
<1>10. JobKept' /\ PinKept'
  BY <1>7, Facts DEF JobKept, PinKept
<1>11. ASSUME NEW m \in Msgs PROVE MsgInv(m)'
  <2>1. (Falling(m)' <=> Falling(m)) /\ (Completing(m)' <=> Completing(m))
    BY <1>7 DEF Falling, Completing
  <2>2. MsgInv(m)
    BY Facts
  <2>3. CASE m = n
    <3>1. n \notin dropped /\ fate'[n] = "none"
      BY <1>2, <1>3, <1>4, <1>5 DEF Nowhere
    <3> QED BY <2>1, <2>3, <3>1, <1>2, <1>3, <1>4, <1>7, Arrived DEF Nowhere
  <2>4. CASE m # n /\ m \notin dropped
    <3>1. Same(m)
      BY <2>1, <2>4, <1>2, <1>4, <1>5, <1>7 DEF Same
    <3> QED BY <2>2, <3>1, SameKept
  <2>5. CASE m # n /\ m \in dropped
    <3>1. m \in Queued /\ m # running_task /\ m \in InHand
      BY <2>5, <1>4, InHandSplit
    <3>2. m \in Sent /\ ~Outside(m) /\ terminals[m] = 0 /\ runs[m] = 0 /\ m \notin Victims
          /\ m # job.rewound
      BY <2>2, <3>1 DEF MsgInv, PlaceKept, RunKept
    <3>3. Nowhere(m)'
      BY <2>1, <2>5, <3>2, <1>4, <1>7 DEF Nowhere, Outside
    <3>4. m \notin auto_wake_delivered'
      BY <2>5, <1>4
    <3>5. /\ m \in Sent' /\ fate'[m] = "dropped" /\ kind'[m] = kind[m]
          /\ Synthetic(m) /\ "wake" \in Kinds
      BY <2>5, <3>2, <1>2, <1>5, <1>6
    <3> QED BY <2>1, <2>2, <3>2, <3>3, <3>4, <3>5, <1>7, Left
  <2> QED BY <2>3, <2>4, <2>5
<1> QED BY <1>1, <1>8, <1>9, <1>10, <1>11 DEF IInv

LEMMA PromptKeeps ==
  ASSUME IInv, NEW k \in Kinds, NEW now \in BOOLEAN, Prompt(k, now)
  PROVE  IInv'
<1>1. /\ k \in {"user", "cron", "wake"} /\ Alloc(k) /\ queue_input(Next1, k, now)
      /\ at = "loop" /\ at' \in {"send_now", "start"}
      /\ notifications_suppressed' = (notifications_suppressed /\ k # "user")
      /\ UNCHANGED <<running_task, current_prompt_id, rewindable, turn, runs,
                     pending_interjections, pending_notifications, rewind_since_drain,
                     goal_active, blocked_in_wait, completions, job, mcp, plan, terminals>>
  BY DEF Prompt, TakesCommand, taskVars, gateVars, bgVars
<1>2. /\ allocated' \in 0 .. MaxMsgs /\ kind' \in [Msgs -> AllKinds] /\ Next1 \in Msgs
  BY <1>1, Facts, Allocated
<1>3. /\ pending_inputs' \in Seq(Msgs) /\ send_now' \in [Msgs -> BOOLEAN]
      /\ auto_wake_delivered' \in SUBSET Msgs /\ Fate(Dropped(k), "dropped")
  <2>1. TypeOK /\ auto_wake_delivered \in SUBSET Msgs
    BY Facts DEF Types
  <2> QED BY <1>1, <1>2, <2>1, Inputted
<1>4. fate' \in [Msgs -> Fates]
  BY <1>3, Facts, Fated DEF Fates
<1>5. Types'
  BY <1>1, <1>2, <1>3, <1>4, Facts DEF Types, Labels
<1> QED BY <1>1, <1>5, InputKeeps

LEMMA ResumePlanKeeps ==
  ASSUME IInv, ResumePlan
  PROVE  IInv'
<1>1. /\ Alloc("plan") /\ queue_input(Next1, "plan", FALSE)
      /\ UNCHANGED <<running_task, current_prompt_id, rewindable, turn, runs,
                     pending_interjections, pending_notifications, notifications_suppressed,
                     rewind_since_drain,
                     goal_active, blocked_in_wait, completions, job, at, mcp, terminals>>
      /\ plan' = "queued"
  BY DEF ResumePlan, bgFrame, taskVars, gateVars, noteVars
<1>2. /\ allocated' \in 0 .. MaxMsgs /\ kind' \in [Msgs -> AllKinds] /\ Next1 \in Msgs
  BY <1>1, Facts, Allocated
<1>3. /\ pending_inputs' \in Seq(Msgs) /\ send_now' \in [Msgs -> BOOLEAN]
      /\ auto_wake_delivered' \in SUBSET Msgs /\ Fate(Dropped("plan"), "dropped")
  <2>1. TypeOK /\ auto_wake_delivered \in SUBSET Msgs
    BY Facts DEF Types
  <2> QED BY <1>1, <1>2, <2>1, Inputted
<1>4. fate' \in [Msgs -> Fates]
  BY <1>3, Facts, Fated DEF Fates
<1>5. Types'
  BY <1>1, <1>2, <1>3, <1>4, Facts DEF Types, Labels
<1> QED BY <1>1, <1>5, InputKeeps

(* The message is appended to the queue and nothing else moves. *)
LEMMA AppendKeeps ==
  ASSUME IInv, Types', NEW k, Alloc(k), k # "wake",
         pending_inputs' = Append(pending_inputs, Next1),
         UNCHANGED <<running_task, current_prompt_id, turn, runs, pending_interjections,
                     pending_notifications, auto_wake_delivered, completions, job, terminals,
                     fate>>,
         {at, at'} \subseteq {"loop", "start", "turn_end", "flush"}
  PROVE  IInv'
<1> DEFINE n == Next1
<1>1. TypeOK' /\ TypeOK /\ pending_inputs \in Seq(Msgs)
  BY TypesSplit, Facts DEF Types
<1>2. /\ n \in Msgs /\ n \notin Sent /\ Sent' = Sent \cup {n} /\ k \in Kinds /\ kind'[n] = k
      /\ \A m \in Msgs : m # n => kind'[m] = kind[m]
  BY <1>1, Allocated
<1>3. /\ Nowhere(n) /\ runs[n] = 0 /\ terminals[n] = 0 /\ fate[n] = "none"
      /\ turn[n] = "none" /\ n \notin Channel /\ ~Completing(n)
      /\ n \notin auto_wake_delivered /\ n # running_task
  BY NewMessage
<1> HIDE DEF n
<1>4. /\ Queued' = Queued \cup {n}
      /\ n \notin Queued => Distinct(pending_inputs')
      /\ AtFront(pending_inputs) => AtFront(pending_inputs')
  BY <1>1, <1>2, LastInQueue, Facts DEF n, Queued
<1>5. /\ Victims' = Victims /\ Buffered' = Buffered /\ Channel' = Channel /\ job' = job
  BY DEF Victims, Buffered, Channel
<1>6. FrontIsRunning'
  BY <1>1, <1>4, FrontHeadNext, Facts DEF AtFront
<1>7. Distinct(pending_inputs)' /\ Distinct(pending_interjections)'
  BY <1>3, <1>4, Facts DEF Nowhere, Distinct
<1>8. JobKept' /\ PinKept'
  BY <1>5, Facts DEF JobKept, PinKept
<1>9. ASSUME NEW m \in Msgs PROVE MsgInv(m)'
  <2>1. ~Falling(m)' /\ ~Falling(m) /\ ~Completing(m)' /\ ~Completing(m)
    BY DEF Falling, Completing
  <2>2. CASE m = n
    BY <2>1, <2>2, <1>2, <1>3, <1>4, <1>5, Arrived DEF Nowhere
  <2>3. CASE m # n
    <3>1. Same(m)
      BY <2>1, <2>3, <1>2, <1>4, <1>5 DEF Same
    <3> QED BY <3>1, SameKept, Facts
  <2> QED BY <2>2, <2>3
<1> QED BY <1>1, <1>6, <1>7, <1>8, <1>9 DEF IInv

LEMMA GoalSummaryTurnKeeps ==
  ASSUME IInv, GoalSummaryTurn
  PROVE  IInv'
<1>1. /\ Alloc("goal") /\ pending_inputs' = Append(pending_inputs, Next1)
      /\ at = "loop" /\ at' = "start"
      /\ UNCHANGED <<send_now, running_task, current_prompt_id, rewindable, turn, runs,
                     pending_interjections, pending_notifications, notifications_suppressed,
                     rewind_since_drain,
                     goal_active, blocked_in_wait, auto_wake_delivered, completions, job, mcp,
                     plan, terminals, fate>>
  BY DEF GoalSummaryTurn, TakesCommand, taskVars, gateVars, bgVars, noteVars, histVars
<1>2. /\ allocated' \in 0 .. MaxMsgs /\ kind' \in [Msgs -> AllKinds] /\ Next1 \in Msgs
  BY <1>1, Facts, Allocated
<1>3. pending_inputs' \in Seq(Msgs)
  BY <1>1, <1>2, Facts, Appended DEF Types
<1>4. Types'
  BY <1>1, <1>2, <1>3, Facts DEF Types, Labels
<1> QED BY <1>1, <1>4, AppendKeeps

(* A step of the actor that only moves on. *)
LEMMA MoveOnKeeps ==
  ASSUME IInv, Types',
         UNCHANGED <<allocated, kind, pending_inputs, running_task, current_prompt_id, turn,
                     runs, pending_interjections, pending_notifications, auto_wake_delivered,
                     completions, job, terminals, fate>>,
         {at, at'} \subseteq {"loop", "start", "send_now", "turn_end", "flush", "drain"}
  PROVE  IInv'
<1>1. TypeOK'
  BY TypesSplit, Facts
<1>2. FrontIsRunning' /\ Distinct(pending_inputs)' /\ Distinct(pending_interjections)'
  BY Facts DEF FrontIsRunning, Distinct
<1>3. /\ Sent' = Sent /\ Queued' = Queued /\ Victims' = Victims /\ Buffered' = Buffered
      /\ Channel' = Channel /\ job' = job
  BY DEF Sent, Queued, Victims, Buffered, Channel
<1>4. JobKept' /\ PinKept'
  BY <1>3, Facts DEF JobKept, PinKept
<1>5. ASSUME NEW m \in Msgs PROVE MsgInv(m)'
  <2>1. ~Falling(m)' /\ ~Falling(m) /\ ~Completing(m)' /\ ~Completing(m)
    BY DEF Falling, Completing
  <2>2. Same(m)
    BY <1>3, <2>1 DEF Same
  <2> QED BY <2>2, SameKept, Facts
<1> QED BY <1>1, <1>2, <1>4, <1>5 DEF IInv

LEMMA TurnEndKeeps ==
  ASSUME IInv, handle_turn_end
  PROVE  IInv'
<1>1. /\ at = "turn_end" /\ at' = "flush"
      /\ UNCHANGED <<send_now, running_task, current_prompt_id, rewindable, turn, runs,
                     pending_interjections, pending_notifications, notifications_suppressed,
                     rewind_since_drain,
                     goal_active, blocked_in_wait, auto_wake_delivered, completions, job, mcp,
                     plan, terminals, fate>>
  BY DEF handle_turn_end, taskVars, gateVars, bgVars, noteVars, histVars
<1>2. CASE UNCHANGED <<allocated, kind, pending_inputs>>
  <2>1. Types'
    BY <1>1, <1>2, Facts DEF Types, Labels
  <2> QED BY <1>1, <1>2, <2>1, MoveOnKeeps
<1>3. CASE Alloc("goal") /\ pending_inputs' = Append(pending_inputs, Next1)
  <2>1. /\ allocated' \in 0 .. MaxMsgs /\ kind' \in [Msgs -> AllKinds] /\ Next1 \in Msgs
    BY <1>3, Facts, Allocated
  <2>2. pending_inputs' \in Seq(Msgs)
    BY <1>3, <2>1, Facts, Appended DEF Types
  <2>3. Types'
    BY <1>1, <2>1, <2>2, Facts DEF Types, Labels
  <2> QED BY <1>1, <1>3, <2>3, AppendKeeps
<1> QED BY <1>2, <1>3 DEF handle_turn_end, msgVars

LEMMA InjectNotificationKeeps ==
  ASSUME IInv, InjectNotification
  PROVE  IInv'
<1> DEFINE n == Next1
<1>1. /\ at = "loop" /\ at' = "drain"
      /\ UNCHANGED <<send_now, pending_inputs, running_task, current_prompt_id, rewindable,
                     turn, runs, pending_interjections, notifications_suppressed,
                     rewind_since_drain, goal_active,
                     blocked_in_wait, auto_wake_delivered, completions, job, mcp, plan,
                     terminals, fate>>
  BY DEF InjectNotification, TakesCommand, taskVars, gateVars, bgVars, histVars
<1>2. CASE UNCHANGED <<allocated, kind, pending_notifications>>
  <2>1. Types'
    BY <1>1, <1>2, Facts DEF Types, Labels
  <2> QED BY <1>1, <1>2, <2>1, MoveOnKeeps
<1>3. CASE pending_notifications = None /\ Alloc("drain") /\ pending_notifications' = n
  <2>1. /\ n \in Msgs /\ n \notin Sent /\ Sent' = Sent \cup {n} /\ "drain" \in Kinds
        /\ kind'[n] = "drain" /\ \A m \in Msgs : m # n => kind'[m] = kind[m]
    BY <1>3, Facts, Allocated
  <2>2. /\ Nowhere(n) /\ runs[n] = 0 /\ terminals[n] = 0 /\ fate[n] = "none"
        /\ turn[n] = "none" /\ n \notin Channel /\ ~Completing(n)
        /\ n \notin auto_wake_delivered /\ n # running_task
    BY <1>3, NewMessage
  <2>3. allocated' \in 0 .. MaxMsgs /\ kind' \in [Msgs -> AllKinds]
    BY <1>3, Facts, Allocated
  <2> HIDE DEF n
  <2>4. Types' /\ TypeOK'
    <3>1. Types'
      BY <1>1, <1>3, <2>1, <2>3, Facts DEF Types, Labels
    <3> QED BY <1>1, <3>1, TypesSplit, Facts
  <2>5. FrontIsRunning' /\ Distinct(pending_inputs)' /\ Distinct(pending_interjections)'
    BY <1>1, Facts DEF FrontIsRunning, Distinct
  <2>6. /\ Queued' = Queued /\ Victims' = Victims /\ Buffered' = Buffered
        /\ Channel' = Channel /\ job' = job
    BY <1>1 DEF Queued, Victims, Buffered, Channel
  <2>7. JobKept' /\ PinKept'
    BY <1>1, <2>6, Facts DEF JobKept, PinKept
  <2>8. ASSUME NEW m \in Msgs PROVE MsgInv(m)'
    <3>1. ~Falling(m)' /\ ~Falling(m) /\ ~Completing(m)' /\ ~Completing(m)
      BY <1>1 DEF Falling, Completing
    <3>2. CASE m = n
      BY <1>1, <1>3, <2>1, <2>2, <2>6, <3>1, <3>2, Arrived DEF Nowhere
    <3>3. CASE m # n
      <4>1. Same(m)
        BY <1>1, <1>3, <2>1, <2>6, <3>1, <3>3, MsgsNat DEF Same
      <4> QED BY <4>1, SameKept, Facts
    <3> QED BY <3>2, <3>3
  <2> QED BY <2>4, <2>5, <2>7, <2>8 DEF IInv
<1> QED BY <1>2, <1>3 DEF InjectNotification, msgVars

LEMMA InterjectKeeps ==
  ASSUME IInv, Interject
  PROVE  IInv'
<1> DEFINE n == Next1
<1>1. /\ at = "loop" /\ Alloc("interject")
      /\ UNCHANGED <<send_now, pending_inputs, running_task, current_prompt_id, rewindable,
                     turn, runs, pending_notifications, notifications_suppressed,
                     rewind_since_drain, goal_active,
                     blocked_in_wait, auto_wake_delivered, completions, mcp, plan,
                     terminals, fate>>
      /\ \/ /\ pending_interjections' = Append(pending_interjections, n)
            /\ at' = at /\ job' = job
         \/ /\ at' = "fallback" /\ job' = DoneJob(n)
            /\ pending_interjections' = pending_interjections
  BY DEF Interject, TakesCommand, taskVars, gateVars, noteVars, bgVars, histVars, DoneJob
<1>2. /\ n \in Msgs /\ n \notin Sent /\ Sent' = Sent \cup {n} /\ "interject" \in Kinds
      /\ kind'[n] = "interject" /\ \A m \in Msgs : m # n => kind'[m] = kind[m]
  BY <1>1, Facts, Allocated
<1>3. /\ Nowhere(n) /\ runs[n] = 0 /\ terminals[n] = 0 /\ fate[n] = "none"
      /\ turn[n] = "none" /\ n \notin Channel /\ ~Completing(n)
      /\ n \notin auto_wake_delivered /\ n # running_task
  BY <1>1, NewMessage
<1>4. allocated' \in 0 .. MaxMsgs /\ kind' \in [Msgs -> AllKinds]
  BY <1>1, Facts, Allocated
<1> HIDE DEF n
<1>5. /\ Queued' = Queued /\ Channel' = Channel
      /\ FrontIsRunning' /\ Distinct(pending_inputs)'
  BY <1>1, Facts DEF Queued, Channel, FrontIsRunning, Distinct
<1>6. pending_interjections \in Seq(Msgs) /\ Distinct(pending_interjections) /\ ToSet(<<>>) = {}
  BY Facts, Emptiness DEF Types
<1>7. CASE /\ pending_interjections' = Append(pending_interjections, n)
           /\ at' = at /\ job' = job
  <2>1. /\ pending_interjections' \in Seq(Msgs) /\ Buffered' = Buffered \cup {n}
        /\ Distinct(pending_interjections')
    BY <1>2, <1>3, <1>6, <1>7, Appended DEF Buffered, Nowhere
  <2>2. TypeOK'
    <3>1. Types'
      BY <1>1, <1>4, <1>7, <2>1, Facts DEF Types
    <3> QED BY <1>7, <3>1, TypesSplit, Facts
  <2>3. JobKept' /\ PinKept' /\ Victims' = Victims
    BY <1>1, <1>7, Facts DEF JobKept, PinKept, Victims
  <2>4. ASSUME NEW m \in Msgs PROVE MsgInv(m)'
    <3>1. ~Falling(m)' /\ ~Falling(m) /\ ~Completing(m)' /\ ~Completing(m)
      BY <1>1, <1>7 DEF Falling, Completing
    <3>2. CASE m = n
      BY <1>1, <1>2, <1>3, <1>5, <1>7, <2>1, <2>3, <3>1, <3>2, Arrived DEF Nowhere
    <3>3. CASE m # n
      <4>1. Same(m)
        BY <1>1, <1>2, <1>5, <1>7, <2>1, <2>3, <3>1, <3>3 DEF Same
      <4> QED BY <4>1, SameKept, Facts
    <3> QED BY <3>2, <3>3
  <2> QED BY <1>5, <2>1, <2>2, <2>3, <2>4 DEF IInv
<1>8. CASE /\ at' = "fallback" /\ job' = DoneJob(n)
           /\ pending_interjections' = pending_interjections
  <2>1. /\ job' \in JobType /\ job'.done = n /\ job'.victims = <<>> /\ job'.rewound = None
        /\ job'.taken = None /\ job'.rewind = FALSE
    BY <1>2, <1>8, DoneJobFields
  <2>2. TypeOK'
    <3>1. Types'
      BY <1>1, <1>4, <1>8, Facts DEF Types, Labels
    <3> QED BY <2>1, <3>1, TypesSplit
  <2>3. Victims' = {} /\ Victims = {} /\ job.rewound = None /\ Buffered' = Buffered
        /\ Distinct(pending_interjections')
    BY <1>1, <1>6, <1>8, <2>1, Facts DEF Victims, Buffered, JobKept
  <2>4. JobKept' /\ PinKept'
    BY <1>1, <1>2, <1>8, <2>1, <2>3, Facts DEF JobKept, PinKept
  <2>5. ASSUME NEW m \in Msgs PROVE MsgInv(m)'
    <3>1. ~Falling(m) /\ ~Completing(m)' /\ ~Completing(m) /\ (Falling(m)' <=> m = n)
      BY <1>1, <1>8, <2>1 DEF Falling, Completing
    <3>2. CASE m = n
      BY <1>1, <1>2, <1>3, <1>5, <1>8, <2>1, <2>3, <3>1, <3>2, MsgsNat, Arrived DEF Nowhere
    <3>3. CASE m # n
      <4>1. Same(m)
        BY <1>1, <1>2, <1>5, <1>8, <2>1, <2>3, <3>1, <3>3 DEF Same
      <4> QED BY <4>1, SameKept, Facts
    <3> QED BY <3>2, <3>3
  <2> QED BY <1>5, <2>2, <2>3, <2>4, <2>5 DEF IInv
<1> QED BY <1>1, <1>7, <1>8

-----------------------------------------------------------------------------
(* Commands on rows: the rows of S are removed, the others stay queued. *)

(* The rows of S leave, answered; whatever is left keeps its place. *)
LEMMA RowsKeep ==
  ASSUME IInv, Types', NEW S, S \subseteq Queued, running_task \notin S,
         \A m \in S : kind[m] = "user",
         Queued' = Queued \ S, Distinct(pending_inputs'),
         AtFront(pending_inputs) => AtFront(pending_inputs'),
         \A m \in Msgs : fate'[m] = IF m \in S THEN "removed" ELSE fate[m],
         UNCHANGED <<allocated, kind, running_task, current_prompt_id, turn, runs,
                     pending_interjections, pending_notifications, auto_wake_delivered,
                     completions, job, terminals>>,
         {at, at'} \subseteq {"loop", "start", "send_now"}
  PROVE  IInv'
<1>1. TypeOK'
  BY TypesSplit, Facts
<1>2. Distinct(pending_inputs)' /\ Distinct(pending_interjections)'
  BY Facts DEF Distinct
<1>3. FrontIsRunning'
  BY <1>1, FrontHeadNext, Facts DEF AtFront
<1>4. /\ Sent' = Sent /\ Victims' = Victims /\ Buffered' = Buffered
      /\ Channel' = Channel /\ job' = job
  BY DEF Sent, Victims, Buffered, Channel
<1>5. JobKept' /\ PinKept'
  BY <1>4, Facts DEF JobKept, PinKept
<1>6. ASSUME NEW m \in Msgs PROVE MsgInv(m)'
  <2>1. ~Falling(m)' /\ ~Falling(m) /\ ~Completing(m)' /\ ~Completing(m)
    BY DEF Falling, Completing
  <2>2. MsgInv(m)
    BY Facts
  <2>3. CASE m \notin S
    <3>1. Same(m)
      BY <1>4, <2>1, <2>3 DEF Same
    <3> QED BY <3>1, <2>2, SameKept
  <2>4. CASE m \in S
    <3>1. m \in Queued /\ m # running_task /\ m \in InHand /\ kind[m] = "user"
      BY <2>4, InHandSplit
    <3>2. m \in Sent /\ ~Outside(m) /\ terminals[m] = 0 /\ runs[m] = 0 /\ m \notin Victims
          /\ m # job.rewound
      BY <2>2, <3>1 DEF MsgInv, PlaceKept, RunKept
    <3>3. Nowhere(m)'
      BY <2>1, <2>4, <3>2, <1>4 DEF Nowhere, Outside
    <3>4. m \notin auto_wake_delivered
      BY <2>2, <3>1 DEF MsgInv, WakeKept
    <3> QED BY <2>1, <2>2, <2>4, <3>2, <3>3, <3>4, <1>4, Left
  <2> QED BY <2>3, <2>4
<1> QED BY <1>1, <1>2, <1>3, <1>5, <1>6 DEF IInv

LEMMA RemoveQueuedPromptKeeps ==
  ASSUME IInv, NEW m \in Msgs, RemoveQueuedPrompt(m)
  PROVE  IInv'
<1>1. /\ at = "loop" /\ at' = at /\ m \in Queued /\ kind[m] = "user" /\ m # running_task
      /\ pending_inputs' = Retain(pending_inputs, Msgs \ {m}) /\ Fate({m}, "removed")
      /\ UNCHANGED <<queueFrame, send_now>>
  BY DEF RemoveQueuedPrompt, TakesCommand, Row, HasRow
<1>2. /\ pending_inputs' \in Seq(Msgs) /\ Queued' = Queued \ {m}
      /\ Distinct(pending_inputs')
      /\ AtFront(pending_inputs) => AtFront(pending_inputs')
  BY <1>1, KeptQueue, Facts DEF Queued
<1>3. fate' \in [Msgs -> Fates]
      /\ \A n \in Msgs : fate'[n] = IF n \in {m} THEN "removed" ELSE fate[n]
  BY <1>1, Fated, Facts DEF Fates
<1>4. Types'
  BY <1>1, <1>2, <1>3, Facts DEF Types, queueFrame, msgVars, taskVars, noteVars, gateVars, bgVars
<1>5. /\ UNCHANGED <<allocated, kind, running_task, current_prompt_id, turn, runs,
                   pending_interjections, pending_notifications, auto_wake_delivered,
                   completions, job, terminals>>
      /\ {at, at'} \subseteq {"loop", "start", "send_now"}
  BY <1>1 DEF queueFrame, msgVars, taskVars, noteVars, gateVars, bgVars
<1> QED BY <1>1, <1>2, <1>3, <1>4, <1>5, RowsKeep

LEMMA ClearQueueKeeps ==
  ASSUME IInv, NEW mine \in SUBSET {m \in Msgs : Row(m)}, ClearQueue(mine)
  PROVE  IInv'
<1>1. /\ at = "loop" /\ at' = at /\ mine \subseteq Queued /\ running_task \notin mine
      /\ \A m \in mine : kind[m] = "user"
      /\ pending_inputs' = Retain(pending_inputs, Msgs \ mine) /\ Fate(mine, "removed")
      /\ UNCHANGED <<queueFrame, send_now>>
  BY DEF ClearQueue, TakesCommand, Row, HasRow
<1>2. /\ pending_inputs' \in Seq(Msgs) /\ Queued' = Queued \ mine
      /\ Distinct(pending_inputs')
      /\ AtFront(pending_inputs) => AtFront(pending_inputs')
  BY <1>1, KeptQueue, Facts DEF Queued
<1>3. fate' \in [Msgs -> Fates]
      /\ \A n \in Msgs : fate'[n] = IF n \in mine THEN "removed" ELSE fate[n]
  BY <1>1, Fated, Facts DEF Fates
<1>4. Types'
  BY <1>1, <1>2, <1>3, Facts DEF Types, queueFrame, msgVars, taskVars, noteVars, gateVars, bgVars
<1>5. /\ UNCHANGED <<allocated, kind, running_task, current_prompt_id, turn, runs,
                   pending_interjections, pending_notifications, auto_wake_delivered,
                   completions, job, terminals>>
      /\ {at, at'} \subseteq {"loop", "start", "send_now"}
  BY <1>1 DEF queueFrame, msgVars, taskVars, noteVars, gateVars, bgVars
<1> QED BY <1>1, <1>2, <1>3, <1>4, <1>5, RowsKeep

LEMMA ReorderQueueKeeps ==
  ASSUME IInv, NEW named \in SUBSET {m \in Msgs : Row(m)}, NEW ids \in SetToSeqs(named),
         ReorderQueue(ids)
  PROVE  IInv'
<1>1. /\ at = "loop" /\ at' = at /\ UNCHANGED <<queueFrame, send_now, fate>>
  BY DEF ReorderQueue, TakesCommand
<1>2. /\ pending_inputs' \in Seq(Msgs) /\ Queued' = Queued
      /\ Distinct(pending_inputs')
      /\ AtFront(pending_inputs) => AtFront(pending_inputs')
  BY Reordered, Facts
<1>3. Types'
  BY <1>1, <1>2, Facts DEF Types, queueFrame, msgVars, taskVars, noteVars, gateVars, bgVars
<1>4. /\ UNCHANGED <<allocated, kind, running_task, current_prompt_id, turn, runs,
                   pending_interjections, pending_notifications, auto_wake_delivered,
                   completions, job, terminals>>
      /\ {at, at'} \subseteq {"loop", "start", "send_now"}
  BY <1>1 DEF queueFrame, msgVars, taskVars, noteVars, gateVars, bgVars
<1> DEFINE gone == {}
<1>5. /\ gone \subseteq Queued /\ running_task \notin gone /\ Queued' = Queued \ gone
      /\ \A n \in gone : kind[n] = "user"
      /\ \A n \in Msgs : fate'[n] = IF n \in gone THEN "removed" ELSE fate[n]
  BY <1>1, <1>2
<1> HIDE DEF gone
<1> QED BY <1>2, <1>3, <1>4, <1>5, RowsKeep

LEMMA InterjectQueuedPromptKeeps ==
  ASSUME IInv, NEW m \in Msgs, InterjectQueuedPrompt(m)
  PROVE  IInv'
<1>1. /\ at = "loop" /\ at' \in {"start", "send_now"} /\ UNCHANGED <<queueFrame, fate>>
      /\ send_now' = [send_now EXCEPT ![m] = TRUE]
  BY DEF InterjectQueuedPrompt, TakesCommand
<1>2. /\ pending_inputs' \in Seq(Msgs) /\ Queued' = Queued
      /\ Distinct(pending_inputs')
      /\ AtFront(pending_inputs) => AtFront(pending_inputs')
  BY RowPromoted, Facts
<1>3. Types'
  BY <1>1, <1>2, Facts
     DEF Types, queueFrame, msgVars, taskVars, noteVars, gateVars, bgVars, Labels
<1>4. /\ UNCHANGED <<allocated, kind, running_task, current_prompt_id, turn, runs,
                   pending_interjections, pending_notifications, auto_wake_delivered,
                   completions, job, terminals>>
      /\ {at, at'} \subseteq {"loop", "start", "send_now"}
  BY <1>1 DEF queueFrame, msgVars, taskVars, noteVars, gateVars, bgVars
<1> DEFINE gone == {}
<1>5. /\ gone \subseteq Queued /\ running_task \notin gone /\ Queued' = Queued \ gone
      /\ \A n \in gone : kind[n] = "user"
      /\ \A n \in Msgs : fate'[n] = IF n \in gone THEN "removed" ELSE fate[n]
  BY <1>1, <1>2
<1> HIDE DEF gone
<1> QED BY <1>2, <1>3, <1>4, <1>5, RowsKeep

-----------------------------------------------------------------------------
(* The buffer of interjections. *)

(* A cancel discards the buffered texts and snapshots the pin. *)
LEMMA BeginCancelKeeps ==
  ASSUME IInv, NEW kill \in BOOLEAN, NEW rewind \in BOOLEAN, NEW now \in BOOLEAN,
         rewind => Rewinds, at \in {"loop", "send_now"}, BeginCancel(kill, rewind, now)
  PROVE  IInv'
<1>1. /\ pending_interjections' = <<>> /\ Fate(Buffered, "cleared") /\ at' = "cancel"
      /\ job' = CancelJob(kill, rewind, now)
      /\ UNCHANGED <<allocated, kind, send_now, pending_inputs, running_task,
                     current_prompt_id, rewindable, turn, runs, pending_notifications,
                     notifications_suppressed, rewind_since_drain, goal_active, blocked_in_wait,
                     auto_wake_delivered, completions, mcp, plan, terminals>>
  BY DEF BeginCancel, CancelJob, Buffered, msgVars, taskVars, noteVars, gateVars, bgVars
<1>2. current_prompt_id \in Msgs \cup {None} /\ <<>> \in Seq(Msgs) /\ ToSet(<<>>) = {}
      /\ Distinct(<<>>)
  BY Facts, Emptiness DEF Types
<1>3. /\ job' \in JobType /\ job'.rewind = rewind /\ job'.pinned = current_prompt_id
      /\ job'.victims = <<>> /\ job'.rewound = None /\ job'.taken = None
  BY <1>1, <1>2, CancelJobFields
<1>4. /\ fate' \in [Msgs -> Fates]
      /\ \A m \in Msgs : fate'[m] = IF m \in Buffered THEN "cleared" ELSE fate[m]
  BY <1>1, Fated, Facts DEF Fates
<1>5. TypeOK'
  <2>1. Types'
    BY <1>1, <1>2, <1>4, Facts DEF Types, Labels
  <2> QED BY <1>3, <2>1, TypesSplit
<1>6. FrontIsRunning' /\ Distinct(pending_inputs)' /\ Distinct(pending_interjections)'
  BY <1>1, <1>2, Facts DEF FrontIsRunning, Distinct
<1>7. /\ Sent' = Sent /\ Queued' = Queued /\ Victims' = {} /\ Victims = {} /\ Buffered' = {}
      /\ Channel' = Channel /\ job.rewound = None
  BY <1>1, <1>2, <1>3, Facts DEF Sent, Queued, Victims, Buffered, Channel, JobKept
<1>8. JobKept' /\ PinKept'
  BY <1>1, <1>3, <1>7, Facts DEF JobKept, PinKept
<1>9. ASSUME NEW m \in Msgs PROVE MsgInv(m)'
  <2>1. ~Falling(m)' /\ ~Falling(m) /\ ~Completing(m)' /\ ~Completing(m)
    BY <1>1 DEF Falling, Completing
  <2>2. MsgInv(m)
    BY Facts
  <2>3. CASE m \notin Buffered
    <3>1. Same(m)
      BY <1>1, <1>3, <1>4, <1>7, <2>1, <2>3 DEF Same
    <3> QED BY <3>1, <2>2, SameKept
  <2>4. CASE m \in Buffered
    <3>1. /\ m \in Sent /\ m \notin InHand /\ terminals[m] = 0 /\ runs[m] = 0
          /\ kind[m] = "interject" /\ m # pending_notifications
      BY <2>2, <2>4 DEF MsgInv, PlaceKept, Outside
    <3>2. Nowhere(m)'
      BY <1>1, <1>3, <1>7, <2>1, <3>1, InHandSplit, MsgsNat DEF Nowhere
    <3>3. m \notin auto_wake_delivered
      BY <2>2, <3>1 DEF MsgInv, WakeKept
    <3> QED BY <1>1, <1>4, <1>7, <2>1, <2>2, <2>4, <3>1, <3>2, <3>3, Left
  <2> QED BY <2>3, <2>4
<1> QED BY <1>5, <1>6, <1>8, <1>9 DEF IInv

LEMMA CancelKeeps ==
  ASSUME IInv
  PROVE  /\ \A kill, rewind \in BOOLEAN : Cancel(kill, rewind) => IInv'
         /\ cancel_turn_for_send_now => IInv'
BY BeginCancelKeeps DEF Cancel, cancel_turn_for_send_now, TakesCommand

(* A turn merges the buffered texts. *)
LEMMA MergeKeeps ==
  ASSUME IInv, NEW t \in Msgs, drain_pending_interjections(t)
  PROVE  IInv'
<1>1. /\ pending_interjections' = <<>> /\ Fate(Buffered, "merged")
      /\ UNCHANGED <<allocated, kind, send_now, pending_inputs, running_task,
                     current_prompt_id, rewindable, turn, runs, pending_notifications,
                     notifications_suppressed, rewind_since_drain, goal_active, blocked_in_wait,
                     auto_wake_delivered, completions, at, job, mcp, plan, terminals>>
  BY DEF drain_pending_interjections, Buffered, turnFrame, msgVars, noteVars, gateVars, bgVars
<1>2. <<>> \in Seq(Msgs) /\ ToSet(<<>>) = {} /\ Distinct(<<>>)
  BY Emptiness
<1>3. /\ fate' \in [Msgs -> Fates]
      /\ \A m \in Msgs : fate'[m] = IF m \in Buffered THEN "merged" ELSE fate[m]
  BY <1>1, Fated, Facts DEF Fates
<1>4. TypeOK'
  <2>1. Types'
    BY <1>1, <1>2, <1>3, Facts DEF Types
  <2> QED BY <1>1, <2>1, TypesSplit, Facts
<1>5. FrontIsRunning' /\ Distinct(pending_inputs)' /\ Distinct(pending_interjections)'
  BY <1>1, <1>2, Facts DEF FrontIsRunning, Distinct
<1>6. /\ Sent' = Sent /\ Queued' = Queued /\ Victims' = Victims /\ Buffered' = {}
      /\ Channel' = Channel /\ job' = job
  BY <1>1, <1>2 DEF Sent, Queued, Victims, Buffered, Channel
<1>7. JobKept' /\ PinKept'
  BY <1>1, <1>6, Facts DEF JobKept, PinKept
<1>8. ASSUME NEW m \in Msgs PROVE MsgInv(m)'
  <2>1. (Falling(m)' <=> Falling(m)) /\ (Completing(m)' <=> Completing(m))
    BY <1>1 DEF Falling, Completing
  <2>2. MsgInv(m)
    BY Facts
  <2>3. CASE m \notin Buffered
    <3>1. Same(m)
      BY <1>1, <1>3, <1>6, <2>1, <2>3 DEF Same
    <3> QED BY <3>1, <2>2, SameKept
  <2>4. CASE m \in Buffered
    <3>1. /\ m \in Sent /\ m \notin InHand /\ terminals[m] = 0 /\ runs[m] = 0
          /\ kind[m] = "interject" /\ m # pending_notifications /\ ~Falling(m)
      BY <2>2, <2>4 DEF MsgInv, PlaceKept, Outside
    <3>2. Nowhere(m)'
      BY <1>1, <1>6, <2>1, <3>1, InHandSplit DEF Nowhere
    <3>3. m \notin auto_wake_delivered
      BY <2>2, <3>1 DEF MsgInv, WakeKept
    <3> QED BY <1>1, <1>3, <1>6, <2>1, <2>2, <2>4, <3>1, <3>2, <3>3, Left
  <2> QED BY <2>3, <2>4
<1> QED BY <1>4, <1>5, <1>7, <1>8 DEF IInv

(* A text that met no pin enters the queue. *)
LEMMA FallbackKeeps ==
  ASSUME IInv, Fallback
  PROVE  IInv'
<1> DEFINE d == job.done
<1>1. /\ at = "fallback" /\ at' = "start" /\ job' = NoJob /\ InsertFallbacks(<<d>>)
      /\ UNCHANGED <<allocated, kind, running_task, current_prompt_id, rewindable, turn, runs,
                     pending_interjections, pending_notifications, notifications_suppressed,
                     rewind_since_drain,
                     goal_active, blocked_in_wait, auto_wake_delivered, completions, mcp, plan,
                     terminals, fate>>
  BY DEF Fallback, msgVars, taskVars, noteVars, gateVars, bgVars, histVars
<1>2. d \in Msgs
  BY <1>1, Facts DEF JobKept
<1>3. Falling(d)
  BY <1>1 DEF Falling
<1>4. ASSUME NEW m \in Msgs PROVE Falling(m) <=> m = d
  BY <1>1 DEF Falling
<1> HIDE DEF d
<1>5. <<d>> \in Seq(Msgs) /\ ToSet(<<d>>) = {d} /\ Distinct(<<d>>) /\ ToSet(<<>>) = {}
  BY <1>2, One, Emptiness
<1>6. MsgInv(d) /\ d \notin Queued
  BY <1>2, <1>3, Facts, InHandSplit DEF MsgInv, PlaceKept, Outside
<1>7. /\ pending_inputs' \in Seq(Msgs) /\ Queued' = Queued \cup {d}
      /\ Distinct(pending_inputs')
      /\ AtFront(pending_inputs) => AtFront(pending_inputs')
      /\ send_now' \in [Msgs -> BOOLEAN]
  BY <1>1, <1>5, <1>6, FellBack, Facts
<1>8. /\ job' \in JobType /\ job'.victims = <<>> /\ job'.rewound = None /\ job'.taken = None
      /\ job'.rewind = FALSE
  BY <1>1, NoJobFields
<1>9. TypeOK'
  <2>1. Types'
    BY <1>1, <1>7, Facts DEF Types, Labels
  <2> QED BY <1>8, <2>1, TypesSplit
<1>10. FrontIsRunning' /\ Distinct(pending_inputs)' /\ Distinct(pending_interjections)'
  <2>1. FrontIsRunning'
    BY <1>1, <1>7, <1>9, FrontHeadNext, Facts DEF AtFront
  <2> QED BY <2>1, <1>1, <1>7, Facts DEF Distinct
<1>11. /\ Sent' = Sent /\ Victims' = {} /\ Victims = {} /\ Buffered' = Buffered
       /\ Channel' = Channel /\ job.rewound = None
  BY <1>1, <1>5, <1>8, Facts DEF Sent, Victims, Buffered, Channel, JobKept
<1>12. JobKept' /\ PinKept'
  BY <1>1, <1>8, <1>11, Facts DEF JobKept, PinKept
<1>13. ASSUME NEW m \in Msgs PROVE MsgInv(m)'
  <2>1. ~Falling(m)' /\ ~Completing(m)' /\ ~Completing(m)
    BY <1>1 DEF Falling, Completing
  <2>2. MsgInv(m)
    BY Facts
  <2>3. CASE m # d
    <3>1. Same(m)
      BY <1>1, <1>4, <1>7, <1>8, <1>11, <2>1, <2>3 DEF Same
    <3> QED BY <3>1, <2>2, SameKept
  <2>4. CASE m = d
    <3>1. Outside(m) /\ m \notin Buffered /\ m # pending_notifications
      BY <1>3, <2>2, <2>4 DEF Outside, MsgInv, PlaceKept
    <3>2. ~Outside(m)'
      BY <1>1, <1>11, <2>1, <3>1 DEF Outside
    <3>3. m # running_task
      BY <1>2, <1>6, <2>4, Facts, MsgsNat
    <3>4. m # job'.rewound
      BY <1>8, MsgsNat
    <3> QED BY <1>1, <1>7, <1>11, <2>1, <2>2, <2>4, <3>1, <3>2, <3>3, <3>4, Entered
  <2> QED BY <2>3, <2>4
<1> QED BY <1>9, <1>10, <1>12, <1>13 DEF IInv

(* The texts a turn left behind enter the queue. *)
LEMMA FlushKeeps ==
  ASSUME IInv, flush_stranded_interjections
  PROVE  IInv'
<1>1. /\ at = "flush" /\ at' = "restart" /\ InsertFallbacks(pending_interjections)
      /\ pending_interjections' = <<>>
      /\ UNCHANGED <<allocated, kind, running_task, current_prompt_id, rewindable, turn, runs,
                     pending_notifications, notifications_suppressed, rewind_since_drain,
                     goal_active, blocked_in_wait, auto_wake_delivered, completions, job, mcp,
                     plan, terminals, fate>>
  BY DEF flush_stranded_interjections, msgVars, taskVars, noteVars, gateVars, bgVars, histVars
<1>2. <<>> \in Seq(Msgs) /\ ToSet(<<>>) = {} /\ Distinct(<<>>)
      /\ pending_interjections \in Seq(Msgs)
  BY Emptiness, Facts DEF Types
<1>3. \A m \in Buffered : m \notin Queued
  BY Facts, InHandSplit DEF MsgInv, PlaceKept, Outside
<1>4. /\ pending_inputs' \in Seq(Msgs) /\ Queued' = Queued \cup Buffered
      /\ Queued \cap Buffered = {} => Distinct(pending_inputs')
      /\ AtFront(pending_inputs) => AtFront(pending_inputs')
      /\ send_now' \in [Msgs -> BOOLEAN]
  BY <1>1, <1>2, FellBack, Facts DEF Buffered
<1>5. Queued \cap Buffered = {}
  BY <1>3
<1>6. TypeOK'
  <2>1. Types'
    BY <1>1, <1>2, <1>4, Facts DEF Types, Labels
  <2> QED BY <1>1, <2>1, TypesSplit, Facts
<1>7. FrontIsRunning' /\ Distinct(pending_inputs)' /\ Distinct(pending_interjections)'
  <2>1. FrontIsRunning'
    BY <1>1, <1>4, <1>6, FrontHeadNext, Facts DEF AtFront
  <2> QED BY <2>1, <1>1, <1>2, <1>4, <1>5 DEF Distinct
<1>8. /\ Sent' = Sent /\ Victims' = Victims /\ Buffered' = {} /\ Channel' = Channel /\ job' = job
      /\ job.rewound = None /\ Victims = {}
  BY <1>1, <1>2, Facts DEF Sent, Victims, Buffered, Channel, JobKept
<1>9. JobKept' /\ PinKept'
  BY <1>1, <1>8, Facts DEF JobKept, PinKept
<1>10. ASSUME NEW m \in Msgs PROVE MsgInv(m)'
  <2>1. ~Falling(m)' /\ ~Falling(m) /\ ~Completing(m)' /\ ~Completing(m)
    BY <1>1 DEF Falling, Completing
  <2>2. MsgInv(m)
    BY Facts
  <2>3. CASE m \notin Buffered
    <3>1. Same(m)
      BY <1>1, <1>4, <1>8, <2>1, <2>3 DEF Same
    <3> QED BY <3>1, <2>2, SameKept
  <2>4. CASE m \in Buffered
    <3>1. Outside(m) /\ m # pending_notifications /\ m \notin Queued
      BY <1>3, <2>2, <2>4 DEF Outside, MsgInv, PlaceKept
    <3>2. ~Outside(m)'
      BY <1>1, <1>8, <2>1, <3>1 DEF Outside
    <3>3. m # running_task
      BY <3>1, Facts, MsgsNat
    <3>4. m # job'.rewound
      BY <1>8, MsgsNat
    <3> QED BY <1>1, <1>4, <1>8, <2>1, <2>2, <2>4, <3>1, <3>2, <3>3, <3>4, Entered
  <2> QED BY <2>3, <2>4
<1> QED BY <1>6, <1>7, <1>9, <1>10 DEF IInv

-----------------------------------------------------------------------------
(* The completion of a turn. *)

(* The loop takes a completion off the channel and releases its pin. *)
LEMMA CompletionUnpinKeeps ==
  ASSUME IInv, CompletionUnpin
  PROVE  IInv'
<1> DEFINE d == Head(completions)
<1>1. /\ at = "loop" /\ at' = "completion" /\ completions # <<>>
      /\ completions' = Tail(completions) /\ job' = DoneJob(d)
      /\ current_prompt_id' = PinAfter(d)
      /\ goal_active' = (goal_active /\ current_prompt_id' # None)
      /\ UNCHANGED <<allocated, kind, send_now, pending_inputs, running_task, rewindable, turn,
                     runs, pending_interjections, pending_notifications,
                     notifications_suppressed, rewind_since_drain, blocked_in_wait,
                     auto_wake_delivered, mcp, plan,
                     terminals, fate>>
  BY DEF CompletionUnpin, DoneJob, msgVars, noteVars, bgVars, histVars
<1>2. /\ d \in Msgs /\ completions' \in Seq(Msgs) /\ Channel = Channel' \cup {d}
  BY <1>1, Popped, Facts DEF Types, Channel
<1> HIDE DEF d
<1>3. /\ job' \in JobType /\ job'.victims = <<>> /\ job'.rewound = None /\ job'.taken = None
      /\ job'.rewind = FALSE /\ job'.done = d
  BY <1>1, <1>2, DoneJobFields
<1>4. TypeOK'
  <2>1. Types'
    BY <1>1, <1>2, Facts DEF Types, Labels, PinAfter
  <2> QED BY <1>3, <2>1, TypesSplit
<1>5. FrontIsRunning' /\ Distinct(pending_inputs)' /\ Distinct(pending_interjections)'
  BY <1>1, Facts DEF FrontIsRunning, Distinct
<1>6. ToSet(<<>>) = {}
  BY Emptiness
<1>7. /\ Sent' = Sent /\ Queued' = Queued /\ Victims' = {} /\ Victims = {}
      /\ Buffered' = Buffered /\ job.rewound = None
  BY <1>1, <1>3, <1>6, Facts DEF Sent, Queued, Victims, Buffered, JobKept
<1>8. JobKept'
  BY <1>1, <1>2, <1>3, <1>7 DEF JobKept
<1>9. PinKept'
  BY <1>1, <1>2, <1>3, Facts, MsgsNat DEF PinKept, PinAfter
<1>10. ASSUME NEW m \in Msgs PROVE MsgInv(m)'
  <2>1. ~Falling(m)' /\ ~Falling(m) /\ (Completing(m)' <=> m = d)
    BY <1>1, <1>3 DEF Falling, Completing
  <2>2. Same(m)
    BY <1>1, <1>2, <1>3, <1>7, <2>1 DEF Same
  <2> QED BY <2>2, SameKept, Facts
<1> QED BY <1>4, <1>5, <1>8, <1>9, <1>10 DEF IInv

(* The completion handled is the front's exactly when it is the slot's. *)
LEMMA Owned ==
  ASSUME IInv, at = "completion"
  PROVE  /\ job.done \in Msgs /\ (OwnedCompletion <=> running_task = job.done)
         /\ runs[job.done] = 1
<1> DEFINE d == job.done
<1>1. d \in Msgs
  BY Facts DEF JobKept
<1>2. Completing(d)
  BY DEF Completing
<1> HIDE DEF d
<1>3. MsgInv(d)
  BY <1>1, Facts
<1>4. turn[d] = "sent" /\ runs[d] = 1
  BY <1>2, <1>3 DEF MsgInv, RunKept
<1>5. d \in Queued => running_task = d
  BY <1>3, <1>4 DEF MsgInv, RunKept
<1>6. pending_inputs # <<>> => Head(pending_inputs) \in Queued
  BY Facts, QueuedType
<1>7. running_task # None => pending_inputs # <<>> /\ Head(pending_inputs) = running_task
  BY Facts DEF FrontIsRunning
<1>8. OwnedCompletion <=> pending_inputs # <<>> /\ Head(pending_inputs) = d
  BY DEF OwnedCompletion, d
<1>9. OwnedCompletion <=> running_task = d
  BY <1>1, <1>5, <1>6, <1>7, <1>8, MsgsNat
<1> QED BY <1>1, <1>4, <1>9 DEF d

(* The front's completion pops it; a stale one changes nothing. *)
LEMMA CompletionKeeps ==
  ASSUME IInv, handle_completion
  PROVE  IInv'
<1> DEFINE d == job.done
<1>1. /\ at = "completion" /\ at' = "turn_end" /\ job' = NoJob
      /\ UNCHANGED <<allocated, kind, send_now, current_prompt_id, rewindable, turn, runs,
                     pending_interjections, pending_notifications, notifications_suppressed,
                     rewind_since_drain,
                     goal_active, blocked_in_wait, auto_wake_delivered, completions, mcp, plan>>
  BY DEF handle_completion, msgVars, noteVars, gateVars, bgVars
<1>2. d \in Msgs /\ (OwnedCompletion <=> running_task = d) /\ runs[d] = 1
  BY <1>1, Owned
<1>3. /\ OwnedCompletion =>
           /\ pending_inputs' = Tail(pending_inputs) /\ Fate({d}, "completed")
           /\ terminals' = [terminals EXCEPT ![d] = @ + 1]
      /\ ~OwnedCompletion => UNCHANGED <<pending_inputs, fate, terminals>>
      /\ running_task' = IF running_task = d THEN None ELSE running_task
  BY <1>2 DEF handle_completion, ClearsSlot
<1>4. /\ job' \in JobType /\ job'.victims = <<>> /\ job'.rewound = None /\ job'.taken = None
      /\ job'.rewind = FALSE
  BY <1>1, NoJobFields
<1>5. ToSet(<<>>) = {}
  BY Emptiness
<1>6. /\ Sent' = Sent /\ Victims' = {} /\ Victims = {} /\ Buffered' = Buffered
      /\ Channel' = Channel /\ job.rewound = None
  BY <1>1, <1>4, <1>5, Facts DEF Sent, Victims, Buffered, Channel, JobKept
<1>7. \A m \in Msgs : ~Falling(m)' /\ ~Falling(m) /\ ~Completing(m)'
  BY <1>1 DEF Falling, Completing
<1>8. current_prompt_id # d
  BY <1>1, Facts DEF PinKept
<1> HIDE DEF d
<1>9. JobKept'
  BY <1>1, <1>4, <1>6 DEF JobKept
<1>10. PinKept'
  BY <1>1, <1>3, <1>8, Facts DEF PinKept
<1>11. CASE running_task = d
  <2>1. OwnedCompletion /\ running_task' = None
    BY <1>2, <1>3, <1>11
  <2>2. pending_inputs # <<>> /\ Head(pending_inputs) = d
    BY <1>2, <1>11, Facts, MsgsNat DEF FrontIsRunning
  <2>3. /\ pending_inputs' \in Seq(Msgs) /\ Queued = Queued' \cup {d} /\ d \notin Queued'
        /\ Distinct(pending_inputs')
    <3>1. pending_inputs \in Seq(Msgs) /\ Distinct(pending_inputs)
      BY Facts DEF Types
    <3>2. /\ Tail(pending_inputs) \in Seq(Msgs)
          /\ ToSet(pending_inputs) = ToSet(Tail(pending_inputs)) \cup {d}
          /\ Distinct(Tail(pending_inputs)) /\ d \notin ToSet(Tail(pending_inputs))
      BY <2>2, <3>1, Popped
    <3>3. pending_inputs' = Tail(pending_inputs)
      BY <1>3, <2>1
    <3> QED BY <3>2, <3>3 DEF Queued
  <2>4. /\ fate' \in [Msgs -> Fates]
        /\ \A m \in Msgs : fate'[m] = IF m \in {d} THEN "completed" ELSE fate[m]
    BY <1>3, <2>1, Fated, Facts DEF Fates
  <2>5. /\ terminals' \in [Msgs -> Nat] /\ terminals'[d] = terminals[d] + 1
        /\ \A m \in Msgs : m # d => terminals'[m] = terminals[m]
    BY <1>2, <1>3, <2>1, Facts DEF Types
  <2>6. TypeOK'
    <3>1. Types'
      BY <1>1, <2>1, <2>3, <2>4, <2>5, Facts DEF Types, Labels
    <3> QED BY <1>4, <3>1, TypesSplit
  <2>7. FrontIsRunning' /\ Distinct(pending_inputs)' /\ Distinct(pending_interjections)'
    BY <1>1, <2>1, <2>3, Facts DEF FrontIsRunning, Distinct
  <2>8. ASSUME NEW m \in Msgs PROVE MsgInv(m)'
    <3>1. MsgInv(m)
      BY Facts
    <3>2. CASE m # d
      <4>1. m # running_task /\ m # running_task'
        BY <1>11, <2>1, <3>2, MsgsNat
      <4>2. Same(m)
        BY <1>1, <1>4, <1>6, <1>7, <2>3, <2>4, <2>5, <3>2, <4>1 DEF Same
      <4> QED BY <4>2, <3>1, SameKept
    <3>3. CASE m = d
      <4>1. m \in InHand
        BY <2>3, <3>3, InHandSplit
      <4>2. m \in Sent /\ terminals[m] = 0 /\ ~Outside(m)
        BY <3>1, <4>1 DEF MsgInv, PlaceKept
      <4>3. m # job'.rewound
        BY <1>4, MsgsNat
      <4>4. Nowhere(m)'
        BY <1>1, <1>6, <1>7, <2>3, <3>3, <4>2, <4>3 DEF Nowhere, Outside
      <4>5. terminals'[m] = 1 /\ runs[m] = 1 /\ fate'[m] = "completed"
        BY <1>2, <2>4, <2>5, <3>3, <4>2
      <4> QED BY <1>1, <1>6, <1>7, <3>1, <4>2, <4>4, <4>5, Left
    <3> QED BY <3>2, <3>3
  <2> QED BY <1>9, <1>10, <2>6, <2>7, <2>8 DEF IInv
<1>12. CASE running_task # d
  <2>1. UNCHANGED <<pending_inputs, fate, terminals, running_task>>
    BY <1>2, <1>3, <1>12
  <2>2. TypeOK'
    <3>1. Types'
      BY <1>1, <2>1, Facts DEF Types, Labels
    <3> QED BY <1>4, <3>1, TypesSplit
  <2>3. FrontIsRunning' /\ Distinct(pending_inputs)' /\ Distinct(pending_interjections)'
    BY <1>1, <2>1, Facts DEF FrontIsRunning, Distinct
  <2>4. Queued' = Queued
    BY <2>1 DEF Queued
  <2>5. ASSUME NEW m \in Msgs PROVE MsgInv(m)'
    <3>1. Same(m)
      BY <1>1, <1>4, <1>6, <1>7, <2>1, <2>4 DEF Same
    <3> QED BY <3>1, SameKept, Facts
  <2> QED BY <1>9, <1>10, <2>2, <2>3, <2>5 DEF IInv
<1> QED BY <1>11, <1>12

-----------------------------------------------------------------------------
(* Notifications and consumed completions. *)

(* A waiting auto-wake, or the batch, is withdrawn by a tool result. *)
LEMMA ConsumeCompletionKeeps ==
  ASSUME IInv, NEW t \in Msgs, NEW w \in Msgs, ConsumeCompletion(t, w)
  PROVE  IInv'
<1>1. /\ Fate({w}, "consumed")
      /\ UNCHANGED <<allocated, kind, send_now, running_task, current_prompt_id, rewindable,
                     turn, runs, pending_interjections, notifications_suppressed,
                     rewind_since_drain, goal_active,
                     blocked_in_wait, auto_wake_delivered, completions, at, job, mcp, plan,
                     terminals>>
      /\ \/ /\ w \in Queued /\ w # running_task
            /\ pending_inputs' = Swept(pending_inputs, {w})
            /\ pending_notifications' = pending_notifications
         \/ /\ w = pending_notifications /\ pending_notifications' = None
            /\ pending_inputs' = pending_inputs
  BY DEF ConsumeCompletion, msgVars, taskVars, gateVars, ctlVars, bgVars
<1>2. MsgInv(w)
  BY Facts
<1>3. /\ w \in Sent /\ terminals[w] = 0 /\ runs[w] = 0 /\ w \notin Victims /\ w # job.rewound
      /\ w \notin Buffered /\ ~Falling(w) /\ (w \in Queued <=> w # pending_notifications)
  BY <1>1, <1>2, InHandSplit DEF MsgInv, PlaceKept, RunKept, Outside
<1>4. /\ pending_inputs' \in Seq(Msgs) /\ Queued' = Queued \ {w}
      /\ Distinct(pending_inputs')
      /\ AtFront(pending_inputs) => AtFront(pending_inputs')
  <2>1. CASE w \in Queued
    <3>1. running_task \notin {w} /\ pending_inputs' = Swept(pending_inputs, {w})
      BY <1>1, <1>3, <2>1
    <3> QED BY <3>1, SweptQueue, Facts DEF Queued
  <2>2. CASE w \notin Queued
    <3>1. pending_inputs' = pending_inputs
      BY <1>1, <2>2
    <3> QED BY <2>2, <3>1, Facts DEF Queued, Types, AtFront, Distinct
  <2> QED BY <2>1, <2>2
<1>5. /\ pending_notifications' \in {None, pending_notifications}
      /\ w # pending_notifications'
      /\ \A m \in Msgs : m # w =>
           (m = pending_notifications' <=> m = pending_notifications)
  BY <1>1, <1>3, MsgsNat
<1>6. /\ fate' \in [Msgs -> Fates]
      /\ \A m \in Msgs : fate'[m] = IF m \in {w} THEN "consumed" ELSE fate[m]
  BY <1>1, Fated, Facts DEF Fates
<1>7. TypeOK'
  <2>1. Types'
    BY <1>1, <1>4, <1>5, <1>6, Facts DEF Types
  <2> QED BY <1>1, <2>1, TypesSplit, Facts
<1>8. FrontIsRunning' /\ Distinct(pending_inputs)' /\ Distinct(pending_interjections)'
  <2>1. FrontIsRunning'
    BY <1>1, <1>4, <1>7, FrontHeadNext, Facts DEF AtFront
  <2> QED BY <2>1, <1>1, <1>4, Facts DEF Distinct
<1>9. /\ Sent' = Sent /\ Victims' = Victims /\ Buffered' = Buffered
      /\ Channel' = Channel /\ job' = job
  BY <1>1 DEF Sent, Victims, Buffered, Channel
<1>10. JobKept' /\ PinKept'
  BY <1>1, <1>9, Facts DEF JobKept, PinKept
<1>11. ASSUME NEW m \in Msgs PROVE MsgInv(m)'
  <2>1. (Falling(m)' <=> Falling(m)) /\ (Completing(m)' <=> Completing(m))
    BY <1>1 DEF Falling, Completing
  <2>2. MsgInv(m)
    BY Facts
  <2>3. CASE m # w
    <3>1. Same(m)
      BY <1>1, <1>4, <1>5, <1>6, <1>9, <2>1, <2>3 DEF Same
    <3> QED BY <3>1, <2>2, SameKept
  <2>4. CASE m = w
    <3>1. Nowhere(m)'
      BY <1>3, <1>4, <1>5, <1>9, <2>1, <2>4 DEF Nowhere
    <3> QED BY <1>1, <1>3, <1>6, <1>9, <2>1, <2>2, <2>4, <3>1, Left
  <2> QED BY <2>3, <2>4
<1> QED BY <1>7, <1>8, <1>10, <1>11 DEF IInv

(* The batch becomes the running turn, is dropped, or waits. *)
LEMMA DrainKeeps ==
  ASSUME IInv, maybe_drain_notifications
  PROVE  IInv'
<1> DEFINE p == pending_notifications
<1>1. /\ at = "drain" /\ at' = "loop"
      /\ UNCHANGED <<allocated, kind, send_now, pending_interjections,
                     notifications_suppressed, goal_active, blocked_in_wait,
                     auto_wake_delivered, completions, job, mcp, plan, terminals>>
      /\ rewind_since_drain' = FALSE
  BY DEF maybe_drain_notifications, msgVars, gateVars, bgVars
<1>2. TypeOK /\ job' \in JobType
  BY <1>1, Facts
<1>3. /\ Sent' = Sent /\ Victims' = Victims /\ Buffered' = Buffered /\ Channel' = Channel
      /\ job' = job /\ Victims = {} /\ job.rewound = None
  BY <1>1, Facts DEF Sent, Victims, Buffered, Channel, JobKept
<1>4. JobKept'
  BY <1>1, <1>3, Facts DEF JobKept
<1>5. \A m \in Msgs : ~Falling(m)' /\ ~Falling(m) /\ ~Completing(m)' /\ ~Completing(m)
  BY <1>1 DEF Falling, Completing
<1>6. CASE UNCHANGED <<pending_inputs, taskVars, pending_notifications, fate>>
  <2>1. UNCHANGED <<pending_inputs, running_task, current_prompt_id, rewindable, turn, runs,
                    pending_notifications, fate>>
    BY <1>6 DEF taskVars
  <2>2. Types'
    BY <1>1, <2>1, Facts DEF Types, Labels
  <2> QED BY <1>1, <2>1, <2>2, MoveOnKeeps
<1>7. CASE /\ p # None /\ running_task = None /\ pending_inputs = <<>>
           /\ pending_notifications' = None /\ pending_inputs' = <<p>>
           /\ maybe_start_running_task(pending_inputs') /\ fate' = fate
  <2>1. p \in Msgs
    BY <1>7, Facts DEF Types
  <2> HIDE DEF p
  <2>2. /\ <<p>> \in Seq(Msgs) /\ ToSet(<<p>>) = {p} /\ Distinct(<<p>>) /\ <<p>> # <<>>
        /\ <<p>>[1] = p
    BY <2>1, One
  <2>3. maybe_start_running_task(<<p>>)
    BY <1>7
  <2>4. /\ running_task' = p /\ current_prompt_id' = p /\ rewindable' \in BOOLEAN
        /\ turn' \in [Msgs -> TurnStates] /\ runs' \in [Msgs -> Nat]
        /\ turn'[p] = "running" /\ runs'[p] = runs[p] + 1
        /\ \A m \in Msgs : m # p => turn'[m] = turn[m] /\ runs'[m] = runs[m]
    BY <1>2, <1>7, <2>2, <2>3, Promoted
  <2>5. TypeOK'
    <3>1. Types'
      BY <1>1, <1>7, <2>1, <2>2, <2>4, Facts DEF Types, Labels
    <3> QED BY <1>2, <3>1, TypesSplit
  <2>6. FrontIsRunning' /\ Distinct(pending_inputs)' /\ Distinct(pending_interjections)'
    <3>1. FrontIsRunning'
      BY <1>7, <2>2, <2>4, <2>5, FrontHeadNext
    <3> QED BY <3>1, <1>1, <1>7, <2>2, Facts DEF Distinct
  <2>7. PinKept'
    BY <1>1, <2>4 DEF PinKept
  <2>8. Queued = {} /\ Queued' = {p}
    BY <1>7, <2>2, Emptiness DEF Queued
  <2>9. ASSUME NEW m \in Msgs PROVE MsgInv(m)'
    <3>1. MsgInv(m)
      BY Facts
    <3>2. CASE m # p
      <4>1. m # pending_notifications /\ m # pending_notifications'
        BY <1>7, <3>2, MsgsNat DEF p
      <4>2. Same(m)
        BY <1>1, <1>3, <1>5, <1>7, <2>4, <2>8, <3>2, <4>1 DEF Same
      <4> QED BY <4>2, <3>1, SameKept
    <3>3. CASE m = p
      <4>1. Outside(m)
        BY <3>3 DEF Outside, p
      <4>2. kind[m] = "drain"
        BY <3>1, <3>3 DEF MsgInv, PlaceKept, p
      <4>3. m \notin Buffered
        BY <3>1, <4>2 DEF MsgInv, PlaceKept
      <4>4. ~Outside(m)' /\ m # job'.rewound
        BY <1>3, <1>5, <1>7, <4>3, MsgsNat DEF Outside
      <4> QED BY <1>1, <1>3, <1>5, <1>7, <2>4, <2>8, <3>1, <3>3, <4>1, <4>4, Entered
    <3> QED BY <3>2, <3>3
  <2> QED BY <1>4, <2>5, <2>6, <2>7, <2>9 DEF IInv
<1>8. CASE /\ p # None /\ running_task = None /\ pending_inputs = <<>>
           /\ pending_notifications' = None /\ Fate({p}, "dropped")
           /\ UNCHANGED <<pending_inputs, taskVars>>
  <2>1. p \in Msgs /\ UNCHANGED <<pending_inputs, running_task, current_prompt_id, rewindable,
                                  turn, runs>>
    BY <1>8, Facts DEF Types, taskVars
  <2>2. /\ fate' \in [Msgs -> Fates]
        /\ \A m \in Msgs : fate'[m] = IF m \in {p} THEN "dropped" ELSE fate[m]
    BY <1>2, <1>8, Fated DEF Fates
  <2> HIDE DEF p
  <2>3. TypeOK'
    <3>1. Types'
      BY <1>1, <1>8, <2>1, <2>2, Facts DEF Types, Labels
    <3> QED BY <1>2, <3>1, TypesSplit
  <2>4. FrontIsRunning' /\ Distinct(pending_inputs)' /\ Distinct(pending_interjections)'
    BY <1>1, <2>1, Facts DEF FrontIsRunning, Distinct
  <2>5. PinKept' /\ Queued' = Queued
    BY <1>1, <2>1, Facts DEF PinKept, Queued
  <2>6. ASSUME NEW m \in Msgs PROVE MsgInv(m)'
    <3>1. MsgInv(m)
      BY Facts
    <3>2. CASE m # p
      <4>1. m # pending_notifications /\ m # pending_notifications'
        BY <1>8, <3>2, MsgsNat DEF p
      <4>2. Same(m)
        BY <1>1, <1>3, <1>5, <2>1, <2>2, <2>5, <3>2, <4>1 DEF Same
      <4> QED BY <4>2, <3>1, SameKept
    <3>3. CASE m = p
      <4>1. kind[m] = "drain" /\ m \in Sent /\ m \notin InHand /\ terminals[m] = 0 /\ runs[m] = 0
        BY <3>1, <3>3 DEF MsgInv, PlaceKept, Outside, p
      <4>2. m \notin Buffered /\ m \notin auto_wake_delivered
        BY <3>1, <4>1 DEF MsgInv, PlaceKept, WakeKept
      <4>3. Nowhere(m)'
        BY <1>3, <1>5, <1>8, <2>5, <4>1, <4>2, InHandSplit, MsgsNat DEF Nowhere
      <4>4. Synthetic(m)
        BY <4>1 DEF Synthetic
      <4> QED BY <1>1, <1>3, <1>5, <2>1, <2>2, <3>1, <3>3, <4>1, <4>2, <4>3, <4>4, Left
    <3> QED BY <3>2, <3>3
  <2> QED BY <1>4, <2>3, <2>4, <2>5, <2>6 DEF IInv
<1> QED BY <1>6, <1>7, <1>8 DEF maybe_drain_notifications, IdleForInjection, BatchWaiting

-----------------------------------------------------------------------------
(* The two halves of cancel_running_task. *)

(* A message is taken off the queue by a cancel that will answer it. *)
LEMMA Resolving ==
  ASSUME NEW m \in Msgs, MsgInv(m), m \in Queued, m \notin Queued',
         m \in Victims' \/ m = job'.rewound,
         m \in Victims' => (m = job'.taken <=> m = running_task),
         m \in Sent' <=> m \in Sent, ~Outside(m)', kind'[m] = kind[m], fate'[m] = fate[m],
         terminals'[m] = terminals[m], runs'[m] = runs[m],
         turn'[m] # "none" => turn[m] # "none",
         turn[m] = "sent" => turn'[m] = "sent",
         m \in Channel' => m \in Channel, ~Completing(m)',
         m \in auto_wake_delivered' => m \in auto_wake_delivered
  PROVE  MsgInv(m)'
<1>1. /\ m \in InHand /\ m \in InHand' /\ m \in Sent' /\ fate'[m] = "none"
      /\ terminals'[m] = 0
  BY InHandSplit DEF MsgInv, PlaceKept
<1>2. PlaceKept(m)'
  BY <1>1 DEF PlaceKept, Outside
<1>3. HeldKept(m)'
  BY <1>1 DEF HeldKept, MsgInv
<1>4. RunKept(m)'
  BY <1>1 DEF RunKept, MsgInv
<1>5. WakeKept(m)'
  BY <1>1 DEF WakeKept, MsgInv
<1> QED BY <1>2, <1>3, <1>4, <1>5 DEF MsgInv

(* Abortion touches no task but a live one. *)
LEMMA Abort ==
  ASSUME TypeOK, NEW m \in Msgs
  PROVE  /\ Aborted(turn, m) \in [Msgs -> TurnStates]
         /\ \A n \in Msgs : /\ Aborted(turn, m)[n] # "none" => turn[n] # "none"
                            /\ turn[n] = "sent" => Aborted(turn, m)[n] = "sent"
                            /\ n # m => Aborted(turn, m)[n] = turn[n]
<1>1. turn \in [Msgs -> TurnStates]
  BY TypeParts
<1>2. Aborted(turn, m) = [turn EXCEPT ![m] = IF turn[m] \in Live THEN "aborted" ELSE turn[m]]
  BY DEF Aborted
<1> QED BY <1>1, <1>2 DEF Live, TurnStates

(* What the lock takes: the messages it moves and where they go. *)
LEMMA LockTakes ==
  ASSUME IInv, CancelLock
  PROVE  \E moved \in SUBSET Queued :
           /\ pending_inputs' \in Seq(Msgs) /\ Queued' = Queued \ moved
           /\ Distinct(pending_inputs')
           /\ running_task # None => running_task \in moved
           /\ job' \in JobType /\ job'.rewind = job.rewind /\ job'.now = job.now
           /\ job'.pinned = job.pinned /\ job'.kill = job.kill
           /\ turn' \in [Msgs -> TurnStates]
           /\ \A n \in Msgs : /\ turn'[n] # "none" => turn[n] # "none"
                              /\ turn[n] = "sent" => turn'[n] = "sent"
           /\ notifications_suppressed' \in BOOLEAN
           /\ \/ /\ \E h \in Msgs : moved = {h} /\ job'.rewound = h
                 /\ Victims' = {} /\ job'.taken = None /\ job.rewind
              \/ /\ Victims' = moved /\ job'.rewound = None /\ job'.taken = running_task
<1>1. TypeOK /\ pending_inputs \in Seq(Msgs) /\ turn \in [Msgs -> TurnStates]
      /\ job \in JobType /\ running_task \in Msgs \cup {None}
  BY Facts DEF Types
<1>2. at = "cancel" /\ Victims = {} /\ job.rewound = None /\ job.taken = None
  BY Facts DEF CancelLock, JobKept
<1>3. CASE CancelRewinds
  <2> DEFINE h == Head(pending_inputs)
  <2>1. /\ pending_inputs # <<>> /\ pending_inputs' = Tail(pending_inputs) /\ job.rewind
        /\ job' = [job EXCEPT !.rewound = h] /\ notifications_suppressed' = FALSE
        /\ turn' = IF running_task = None THEN turn ELSE Aborted(turn, running_task)
    BY <1>3 DEF CancelLock, CancelRewinds
  <2>2. /\ h \in Msgs /\ pending_inputs' \in Seq(Msgs) /\ Queued = Queued' \cup {h}
        /\ Distinct(pending_inputs') /\ h \notin Queued'
    BY <1>1, <2>1, Popped, Facts DEF Queued
  <2>3. running_task # None => running_task = h
    BY Facts DEF FrontIsRunning
  <2> HIDE DEF h
  <2>4. /\ job' \in JobType /\ job'.rewound = h /\ job'.rewind = job.rewind
        /\ job'.now = job.now /\ job'.pinned = job.pinned /\ job'.taken = None
        /\ job'.kill = job.kill /\ job'.victims = job.victims
    BY <1>1, <1>2, <2>1, <2>2, RewoundJobFields
  <2>5. /\ turn' \in [Msgs -> TurnStates]
        /\ \A n \in Msgs : /\ turn'[n] # "none" => turn[n] # "none"
                           /\ turn[n] = "sent" => turn'[n] = "sent"
    BY <1>1, <2>1, Abort
  <2>6. Victims' = {}
    BY <1>2, <2>4 DEF Victims
  <2>7. {h} \in SUBSET Queued /\ Queued' = Queued \ {h}
    BY <2>2
  <2> QED BY <2>1, <2>2, <2>3, <2>4, <2>5, <2>6, <2>7
<1>4. CASE ~CancelRewinds
  <2> DEFINE v == Resolved
  <2>1. /\ job' = VictimJob(job, running_task, v) /\ turn' = turn
        /\ pending_inputs' = IF job.kill \/ pending_inputs = <<>> THEN <<>>
                             ELSE Tail(pending_inputs)
        /\ notifications_suppressed' = TRUE
    BY <1>4 DEF CancelLock, VictimJob
  <2>2. /\ v \in Seq(Msgs) /\ ToSet(v) \subseteq Queued /\ pending_inputs' \in Seq(Msgs)
        /\ Queued' = Queued \ ToSet(v) /\ Distinct(pending_inputs')
        /\ running_task # None => running_task \in ToSet(v)
    <3>1. CASE job.kill \/ pending_inputs = <<>>
      <4>1. v = pending_inputs /\ pending_inputs' = <<>>
        BY <2>1, <3>1 DEF Resolved
      <4> QED BY <1>1, <4>1, Emptiness, Facts DEF Queued
    <3>2. CASE ~(job.kill \/ pending_inputs = <<>>)
      <4> DEFINE h == Head(pending_inputs)
      <4>1. v = <<h>> /\ pending_inputs' = Tail(pending_inputs) /\ pending_inputs # <<>>
        BY <2>1, <3>2 DEF Resolved
      <4>2. /\ h \in Msgs /\ pending_inputs' \in Seq(Msgs) /\ Queued = Queued' \cup {h}
            /\ Distinct(pending_inputs') /\ h \notin Queued'
        BY <1>1, <4>1, Popped, Facts DEF Queued
      <4>3. running_task # None => running_task = h
        BY Facts DEF FrontIsRunning
      <4> HIDE DEF h
      <4>4. <<h>> \in Seq(Msgs) /\ ToSet(<<h>>) = {h}
        BY <4>2, One
      <4> HIDE DEF v
      <4> QED BY <4>1, <4>2, <4>3, <4>4
    <3> QED BY <3>1, <3>2
  <2> HIDE DEF v
  <2>3. /\ job' \in JobType /\ job'.rewound = None /\ job'.rewind = job.rewind
        /\ job'.now = job.now /\ job'.pinned = job.pinned /\ job'.taken = running_task
        /\ job'.kill = job.kill /\ job'.victims = v
    <3> DEFINE k == VictimJob(job, running_task, v)
    <3>1. v \in Seq(Msgs) /\ running_task \in Msgs \cup {None} /\ job \in JobType
      BY <1>1, <2>2
    <3>2. /\ k \in JobType /\ k.rewound = job.rewound /\ k.rewind = job.rewind
          /\ k.now = job.now /\ k.pinned = job.pinned /\ k.taken = running_task
          /\ k.kill = job.kill /\ k.victims = v
      BY <3>1, VictimJobFields
    <3>3. job' = k
      BY <2>1
    <3> HIDE DEF k
    <3> QED BY <1>2, <3>2, <3>3
  <2>4. Victims' = ToSet(v)
    BY <2>3 DEF Victims
  <2> QED BY <1>1, <2>1, <2>2, <2>3, <2>4
<1> QED BY <1>3, <1>4

(* Under the lock the resolved messages move to the cancel, a kill clears the batch. *)
LEMMA CancelLockKeeps ==
  ASSUME IInv, CancelLock
  PROVE  IInv'
<1> DEFINE cleared == IF job.kill THEN {pending_notifications} ELSE {}
<1>1. /\ at = "cancel" /\ at' = "cancel_end" /\ running_task' = None
      /\ rewindable' = (rewindable /\ ~job.rewind)
      /\ pending_notifications' = (IF job.kill THEN None ELSE pending_notifications)
      /\ Fate(cleared, "cleared") /\ rewind_since_drain' \in BOOLEAN
      /\ UNCHANGED <<allocated, kind, send_now, current_prompt_id, runs,
                     pending_interjections, goal_active, blocked_in_wait,
                     auto_wake_delivered, completions, mcp, plan, terminals>>
  BY DEF CancelLock, msgVars, gateVars, bgVars
<1>2. /\ Victims = {} /\ job.rewound = None /\ job.taken = None
      /\ job.pinned \in {None, running_task} /\ (job.rewind => Rewinds)
      /\ job.kill \in BOOLEAN
  BY <1>1, Facts, JobFields DEF JobKept
<1>3. PICK moved \in SUBSET Queued :
        /\ pending_inputs' \in Seq(Msgs) /\ Queued' = Queued \ moved
        /\ Distinct(pending_inputs')
        /\ running_task # None => running_task \in moved
        /\ job' \in JobType /\ job'.rewind = job.rewind /\ job'.now = job.now
        /\ job'.pinned = job.pinned /\ job'.kill = job.kill
        /\ turn' \in [Msgs -> TurnStates]
        /\ \A n \in Msgs : /\ turn'[n] # "none" => turn[n] # "none"
                           /\ turn[n] = "sent" => turn'[n] = "sent"
        /\ notifications_suppressed' \in BOOLEAN
        /\ \/ /\ \E h \in Msgs : moved = {h} /\ job'.rewound = h
              /\ Victims' = {} /\ job'.taken = None /\ job.rewind
           \/ /\ Victims' = moved /\ job'.rewound = None /\ job'.taken = running_task
  BY LockTakes
<1>4. /\ fate' \in [Msgs -> Fates]
      /\ \A m \in Msgs : fate'[m] = IF m \in cleared THEN "cleared" ELSE fate[m]
  BY <1>1, Fated, Facts DEF Fates
<1>5. /\ \A m \in Msgs : m \in cleared => m = pending_notifications /\ m # pending_notifications'
      /\ \A m \in Msgs : m \notin cleared =>
           (m = pending_notifications' <=> m = pending_notifications)
  BY <1>1, <1>2, MsgsNat
<1> HIDE DEF cleared
<1>6. TypeOK'
  <2>1. rewindable' \in BOOLEAN /\ pending_notifications' \in Msgs \cup {None}
    BY <1>1, Facts DEF Types
  <2>2. Types'
    BY <1>1, <1>3, <1>4, <2>1, Facts DEF Types, Labels
  <2> QED BY <1>3, <2>2, TypesSplit
<1>7. FrontIsRunning' /\ Distinct(pending_inputs)' /\ Distinct(pending_interjections)'
  BY <1>1, <1>3, Facts DEF FrontIsRunning, Distinct
<1>8. Sent' = Sent /\ Buffered' = Buffered /\ Channel' = Channel
  BY <1>1 DEF Sent, Buffered, Channel
<1>9. JobKept'
  BY <1>1, <1>2, <1>3, MsgsNat DEF JobKept
<1>10. PinKept'
  BY <1>1 DEF PinKept
<1>11. ASSUME NEW m \in Msgs PROVE MsgInv(m)'
  <2>1. ~Falling(m)' /\ ~Falling(m) /\ ~Completing(m)' /\ ~Completing(m)
    BY <1>1 DEF Falling, Completing
  <2>2. MsgInv(m)
    BY Facts
  <2>3. m # job.rewound /\ m # None
    BY <1>2, MsgsNat
  <2>4. CASE m \in moved
    <3>1. m \in Queued /\ ~Outside(m)
      BY <2>2, <2>4, InHandSplit DEF MsgInv, PlaceKept
    <3>2. m \notin cleared /\ ~Outside(m)'
      BY <1>5, <1>8, <2>1, <3>1 DEF Outside
    <3>3. m \in Victims' \/ m = job'.rewound
      BY <1>3, <2>4
    <3>4. m \in Victims' => (m = job'.taken <=> m = running_task)
      BY <1>3, <2>4
    <3>5. m \notin Queued' /\ fate'[m] = fate[m]
      BY <1>3, <1>4, <2>4, <3>2
    <3>6. /\ turn'[m] # "none" => turn[m] # "none"
          /\ turn[m] = "sent" => turn'[m] = "sent"
      BY <1>3
    <3> QED BY <1>1, <1>8, <2>1, <2>2, <3>1, <3>2, <3>3, <3>4, <3>5, <3>6, Resolving
  <2>5. CASE m \notin moved /\ m \notin cleared
    <3>1. /\ m \in Queued' <=> m \in Queued
          /\ m \notin Victims' /\ m # job'.rewound /\ m # running_task /\ m # running_task'
          /\ turn'[m] # "none" => turn[m] # "none"
          /\ turn[m] = "sent" => turn'[m] = "sent"
      BY <1>1, <1>3, <2>3, <2>5
    <3>2. Same(m)
      BY <1>1, <1>2, <1>4, <1>5, <1>8, <2>1, <2>3, <2>5, <3>1 DEF Same
    <3> QED BY <2>2, <3>2, SameKept
  <2>6. CASE m \notin moved /\ m \in cleared
    <3>1. Outside(m) /\ m # pending_notifications'
      BY <1>5, <2>6 DEF Outside
    <3>2. /\ m \in Sent /\ m \notin InHand /\ terminals[m] = 0 /\ runs[m] = 0
          /\ kind[m] = "drain"
      BY <1>5, <2>2, <2>6, <3>1 DEF MsgInv, PlaceKept
    <3>3. m \notin Buffered /\ m \notin auto_wake_delivered
      BY <2>2, <3>2 DEF MsgInv, PlaceKept, WakeKept
    <3>4. /\ m \notin Queued' /\ m \notin Victims' /\ m # job'.rewound
          /\ turn'[m] # "none" => turn[m] # "none"
          /\ turn[m] = "sent" => turn'[m] = "sent"
      BY <1>3, <2>3, <2>6, <3>2, InHandSplit
    <3>5. Nowhere(m)'
      BY <1>8, <2>1, <3>1, <3>3, <3>4 DEF Nowhere
    <3> QED BY <1>1, <1>4, <1>8, <2>1, <2>2, <2>6, <3>2, <3>3, <3>4, <3>5, Left
  <2> QED BY <2>4, <2>5, <2>6
<1> QED BY <1>6, <1>7, <1>9, <1>10, <1>11 DEF IInv

(* Then each of them gets its fate, and the torn-down turn its terminal. *)
LEMMA CancelEndKeeps ==
  ASSUME IInv, CancelEnd
  PROVE  IInv'
<1> DEFINE r == job.rewound
           t == job.taken
<1>1. /\ at = "cancel_end" /\ at' = "start" /\ job' = NoJob /\ current_prompt_id' = None
      /\ turn' = IF t = None THEN turn ELSE Aborted(turn, t)
      /\ goal_active' = FALSE /\ blocked_in_wait' = FALSE
      /\ auto_wake_delivered' = auto_wake_delivered \ Victims
      /\ notifications_suppressed' = (notifications_suppressed /\ ~job.now)
      /\ UNCHANGED <<allocated, kind, send_now, pending_inputs, running_task, rewindable, runs,
                     pending_interjections, pending_notifications, rewind_since_drain,
                     completions, mcp, plan>>
  BY DEF CancelEnd, Unmarked, Victims, msgVars, bgVars
<1>2. /\ t # None => t \in Victims
      /\ r # None => Victims = {} /\ Rewinds
      /\ t = None /\ r = None => job.pinned = None
      /\ r \in Msgs \cup {None} /\ t \in Msgs \cup {None}
  BY <1>1, Facts, JobFields DEF JobKept
<1> DEFINE ends == IF r # None THEN {r} ELSE Victims
           f == IF r # None THEN "rewound" ELSE "cancelled"
<1>3. Fate(ends, f) /\ f \in Fates
  BY DEF CancelEnd, Fates, Victims
<1>4. terminals' = IF r = None /\ t # None THEN [terminals EXCEPT ![t] = @ + 1] ELSE terminals
  BY <1>2 DEF CancelEnd, CancelledId
<1>5. /\ job' \in JobType /\ job'.victims = <<>> /\ job'.rewound = None /\ job'.taken = None
      /\ job'.rewind = FALSE
  BY <1>1, NoJobFields
<1>6. /\ fate' \in [Msgs -> Fates]
      /\ \A m \in Msgs : fate'[m] = IF m \in ends THEN f ELSE fate[m]
  BY <1>3, Fated, Facts
<1>7. ToSet(<<>>) = {}
  BY Emptiness
<1>8. /\ Sent' = Sent /\ Queued' = Queued /\ Victims' = {} /\ Buffered' = Buffered
      /\ Channel' = Channel
  BY <1>1, <1>5, <1>7 DEF Sent, Queued, Victims, Buffered, Channel
<1> HIDE DEF r, t
<1>9. /\ terminals' \in [Msgs -> Nat]
      /\ \A m \in Msgs : terminals'[m] =
           IF r = None /\ m = t THEN terminals[m] + 1 ELSE terminals[m]
  BY <1>2, <1>4, Facts, MsgsNat DEF Types
<1>10. /\ turn' \in [Msgs -> TurnStates]
       /\ \A n \in Msgs : /\ turn'[n] # "none" => turn[n] # "none"
                          /\ turn[n] = "sent" => turn'[n] = "sent"
  BY <1>1, <1>2, Abort, Facts DEF Types
<1>11. TypeOK'
  <2>1. auto_wake_delivered' \in SUBSET Msgs /\ notifications_suppressed' \in BOOLEAN
    BY <1>1, Facts DEF Types
  <2>2. Types'
    BY <1>1, <1>6, <1>9, <1>10, <2>1, Facts DEF Types, Labels
  <2> QED BY <1>5, <2>2, TypesSplit
<1>12. FrontIsRunning' /\ Distinct(pending_inputs)' /\ Distinct(pending_interjections)'
  BY <1>1, Facts DEF FrontIsRunning, Distinct
<1>13. JobKept' /\ PinKept'
  BY <1>1, <1>5, <1>8 DEF JobKept, PinKept
<1>14. ASSUME NEW m \in Msgs PROVE MsgInv(m)'
  <2>1. ~Falling(m)' /\ ~Falling(m) /\ ~Completing(m)' /\ ~Completing(m)
    BY <1>1 DEF Falling, Completing
  <2>2. MsgInv(m) /\ m # None
    BY Facts, MsgsNat
  <2>3. m \in InHand <=> m \in Queued \/ m \in Victims \/ m = r
    BY InHandSplit DEF r
  <2>4. CASE m \notin ends
    <3>1. m \notin Victims /\ m # r /\ ~(r = None /\ m = t)
      BY <1>2, <2>2, <2>4
    <3>2. m # job'.rewound /\ (m = job.rewound <=> m = r)
      BY <1>5, <2>2 DEF r
    <3>3. terminals'[m] = terminals[m] /\ fate'[m] = fate[m]
          /\ (m \in auto_wake_delivered' => m \in auto_wake_delivered)
      BY <1>1, <1>6, <1>9, <2>4, <3>1
    <3>4. Same(m)
      BY <1>1, <1>8, <1>10, <2>1, <3>1, <3>2, <3>3 DEF Same
    <3> QED BY <2>2, <3>4, SameKept
  <2>5. CASE m \in ends
    <3>1. m \in Victims \/ m = r
      BY <2>5
    <3>2. m \in Sent /\ terminals[m] = 0 /\ ~Outside(m) /\ m \notin Queued
      BY <2>2, <2>3, <3>1 DEF MsgInv, PlaceKept, r
    <3>3. Nowhere(m)'
      BY <1>1, <1>5, <1>8, <2>1, <2>2, <3>2 DEF Nowhere, Outside
    <3>4. fate'[m] = f /\ f # "none" /\ f # "dropped" /\ f # "completed"
      BY <1>6, <2>5
    <3>5. CASE r # None
      <4>1. f = "rewound" /\ terminals'[m] = 0 /\ runs[m] \in Nat
        BY <1>9, <3>2, <3>5, Facts DEF Types
      <4> QED BY <1>1, <1>2, <1>8, <1>10, <2>1, <2>2, <3>2, <3>3, <3>4, <3>5, <4>1, Left
    <3>6. CASE r = None
      <4>1. m \in Victims
        BY <2>2, <3>1, <3>6
      <4>2. runs[m] = IF m = t THEN 1 ELSE 0
        BY <2>2, <4>1 DEF MsgInv, RunKept, t
      <4>3. terminals'[m] = runs[m] /\ m \notin auto_wake_delivered'
        BY <1>1, <1>9, <3>2, <3>6, <4>1, <4>2
      <4>4. terminals'[m] \in Nat /\ terminals'[m] <= runs[m]
        BY <4>2, <4>3
      <4> QED BY <1>1, <1>8, <1>10, <2>1, <2>2, <3>2, <3>3, <3>4, <4>3, <4>4, Left
    <3> QED BY <3>5, <3>6
  <2> QED BY <2>4, <2>5
<1> QED BY <1>11, <1>12, <1>13, <1>14 DEF IInv

-----------------------------------------------------------------------------
(* The invariant is inductive. *)

LEMMA InvInit ==
  ASSUME Init
  PROVE  IInv
<1> USE DEF Init
<1>1. /\ <<>> \in Seq(Msgs) /\ ToSet(<<>>) = {} /\ Distinct(<<>>)
  BY Emptiness
<1>2. /\ job \in JobType /\ job.victims = <<>> /\ job.rewound = None /\ job.taken = None
      /\ job.pinned = None /\ job.rewind = FALSE
  BY NoJobFields
<1>3. TypeOK
  <2>1. kind \in [Msgs -> AllKinds] /\ turn \in [Msgs -> TurnStates] /\ fate \in [Msgs -> Fates]
    BY DEF AllKinds, TurnStates, Fates
  <2>2. /\ send_now \in [Msgs -> BOOLEAN] /\ runs \in [Msgs -> Nat]
        /\ terminals \in [Msgs -> Nat] /\ auto_wake_delivered \in SUBSET Msgs
    OBVIOUS
  <2>3. mcp \in {"pending", "done"} /\ plan \in {"pending", "queued", "done"}
    OBVIOUS
  <2>4. /\ allocated \in 0 .. MaxMsgs /\ at \in Labels
    BY MsgsNat DEF Labels
  <2>5. /\ pending_inputs \in Seq(Msgs) /\ pending_interjections \in Seq(Msgs)
        /\ completions \in Seq(Msgs)
        /\ running_task \in Msgs \cup {None} /\ current_prompt_id \in Msgs \cup {None}
        /\ pending_notifications \in Msgs \cup {None}
        /\ rewindable \in BOOLEAN /\ notifications_suppressed \in BOOLEAN
         /\ rewind_since_drain \in BOOLEAN
        /\ goal_active \in BOOLEAN /\ blocked_in_wait \in BOOLEAN
    BY <1>1
  <2> HIDE DEF Init
  <2>6. Types
    BY <2>1, <2>2, <2>3, <2>4, <2>5 DEF Types
  <2> QED BY <1>2, <2>6, TypesSplit
<1>4. FrontIsRunning /\ Distinct(pending_inputs) /\ Distinct(pending_interjections)
  BY <1>1 DEF FrontIsRunning
<1>5. /\ Queued = {} /\ Victims = {} /\ Buffered = {} /\ Channel = {} /\ Sent = {}
  BY <1>1, <1>2, MsgsNat DEF Queued, Victims, Buffered, Channel, Sent
<1>6. JobKept /\ PinKept
  BY <1>2, <1>5 DEF JobKept, PinKept
<1>7. ASSUME NEW m \in Msgs PROVE MsgInv(m)
  <2>1. m # None /\ ~Falling(m) /\ ~Completing(m)
    BY MsgsNat DEF Falling, Completing
  <2>2. m \notin InHand /\ ~Outside(m)
    BY <1>2, <1>5, <2>1, InHandSplit DEF Outside
  <2>3. fate[m] = "none" /\ runs[m] = 0 /\ terminals[m] = 0 /\ turn[m] = "none"
    OBVIOUS
  <2>4. PlaceKept(m)
    BY <1>5, <2>1, <2>2 DEF PlaceKept
  <2>5. HeldKept(m)
    BY <1>5, <2>3 DEF HeldKept
  <2>6. RunKept(m)
    BY <1>5, <2>1, <2>3 DEF RunKept
  <2>7. WakeKept(m)
    BY DEF WakeKept
  <2> QED BY <2>4, <2>5, <2>6, <2>7 DEF MsgInv
<1> QED BY <1>3, <1>4, <1>6, <1>7 DEF IInv

LEMMA StutterKeeps ==
  ASSUME IInv, UNCHANGED vars
  PROVE  IInv'
<1>1. /\ Types' /\ current_prompt_id' = current_prompt_id /\ turn' = turn /\ Channel' = Channel
      /\ UNCHANGED <<allocated, kind, pending_inputs, running_task, pending_interjections,
                     pending_notifications, auto_wake_delivered, job, at, runs, terminals, fate>>
  BY Facts DEF vars, msgVars, taskVars, gateVars, noteVars, histVars, ctlVars, bgVars, Types,
     Channel
<1> QED BY <1>1, TurnMoves

LEMMA InvNext ==
  ASSUME IInv, [Next]_vars
  PROVE  IInv'
<1>1. CASE Command
  <2>1. CASE \E k \in Kinds, now \in BOOLEAN : Prompt(k, now)
    BY <2>1, PromptKeeps
  <2>2. CASE Interject
    BY <2>2, InterjectKeeps
  <2>3. CASE GoalSummaryTurn
    BY <2>3, GoalSummaryTurnKeeps
  <2>4. CASE InjectNotification
    BY <2>4, InjectNotificationKeeps
  <2>5. CASE \E m \in Msgs : RemoveQueuedPrompt(m) \/ InterjectQueuedPrompt(m)
    BY <2>5, RemoveQueuedPromptKeeps, InterjectQueuedPromptKeeps
  <2>6. CASE \E mine \in SUBSET {m \in Msgs : Row(m)} : ClearQueue(mine)
    BY <2>6, ClearQueueKeeps
  <2>7. CASE \E named \in SUBSET {m \in Msgs : Row(m)} :
               \E ids \in SetToSeqs(named) : ReorderQueue(ids)
    BY <2>7, ReorderQueueKeeps
  <2>8. CASE \E kill, rewind \in BOOLEAN : Cancel(kill, rewind)
    BY <2>8, CancelKeeps
  <2> QED BY <1>1, <2>1, <2>2, <2>3, <2>4, <2>5, <2>6, <2>7, <2>8 DEF Command
<1>2. CASE ActorStep
  BY <1>2, FallbackKeeps, StartKeeps, CancelKeeps, CancelLockKeeps, CancelEndKeeps,
     CompletionUnpinKeeps, CompletionKeeps, TurnEndKeeps, FlushKeeps, DrainKeeps DEF ActorStep
<1>3. CASE \E m \in Msgs : TurnStep(m)
  BY <1>3, EmitEventKeeps, SetGateKeeps, MergeKeeps, ConsumeCompletionKeeps, EndTurnKeeps,
     UnpinKeeps, SendCompletionKeeps DEF TurnStep, FinishTurn
<1>4. CASE BackgroundStep
  BY <1>4, StartKeeps, ResumePlanKeeps DEF BackgroundStep
<1>5. CASE UNCHANGED vars
  BY <1>5, StutterKeeps
<1> QED BY <1>1, <1>2, <1>3, <1>4, <1>5 DEF Next

(* The inductive invariant: a message without a fate is in one place, its  *)
(* history agrees with that place and with its task, and the handler's     *)
(* locals and the pin agree with the slot at every label.                  *)
THEOREM QueueInvariant == Spec => []IInv
<1>1. Init => IInv
  BY InvInit
<1>2. IInv /\ [Next]_vars => IInv'
  BY InvNext
<1> QED BY <1>1, <1>2, PTL DEF Spec

-----------------------------------------------------------------------------
(* What follows. *)

(* Every variable keeps its type: each command, completion and background  *)
(* step leaves in the queue, the slot and the handler's locals only        *)
(* messages that can exist.                                                *)
THEOREM TypeCorrect == Spec => []TypeOK
<1>1. IInv => TypeOK
  BY DEF IInv
<1> QED BY <1>1, QueueInvariant, PTL

(* The in-flight turn stays at the front of pending_inputs through every   *)
(* insert, sweep, removal, reorder, cancel and completion, whichever task  *)
(* promoted it: what handle_completion pops is what ran.                   *)
THEOREM RunningAtFront == Spec => []FrontIsRunning
<1>1. IInv => FrontIsRunning
  BY DEF IInv
<1> QED BY <1>1, QueueInvariant, PTL

(* maybe_start_running_task promotes no message twice, although a cancel,  *)
(* a stale completion and two background tasks may all empty or fill the   *)
(* slot in between.                                                        *)
THEOREM PromotedOnce == Spec => []RunsOnce
<1>1. IInv => RunsOnce
  BY DEF IInv, MsgInv, RunKept, RunsOnce
<1> QED BY <1>1, QueueInvariant, PTL

(* A turn that ran and was answered has exactly one TurnCompleted, from    *)
(* the cancel or from the completion and never from both, and a message    *)
(* that never ran has none.                                                *)
THEOREM OneTerminalEach == Spec => []TerminalExact
<1>1. IInv => TerminalExact
  BY DEF IInv, MsgInv, RunKept, TerminalExact
<1> QED BY <1>1, QueueInvariant, PTL

(* Messages are sent in the order of their numbers. *)
LEMMA SentUpTo ==
  ASSUME TypeOK, NEW m \in Msgs
  PROVE  m \in Sent <=> m <= allocated
<1>1. allocated \in 0 .. MaxMsgs /\ MaxMsgs \in Nat
  BY TypeParts, MsgsNat
<1> QED BY <1>1 DEF Sent, Msgs

(* NoPromptLost without the prompts of the scheduler. *)
UserPromptsKept ==
  \A m \in Msgs : m <= allocated /\ kind[m] = "user" =>
    /\ fate[m] = "none" <=> m \in InHand
    /\ fate[m] # "dropped"

(* A client's session/prompt is in the queue, or with a cancel about to    *)
(* answer it, until it was answered; no sweep, reorder or preemption drops *)
(* it.                                                                     *)
THEOREM UserPromptAnswered == Spec => []UserPromptsKept
<1>1. ASSUME IInv PROVE UserPromptsKept
  <2>1. ASSUME NEW m \in Msgs, m <= allocated, kind[m] = "user"
        PROVE  (fate[m] = "none" <=> m \in InHand) /\ fate[m] # "dropped"
    <3>1. MsgInv(m) /\ m \in Sent
      BY <1>1, <2>1, Facts, SentUpTo
    <3> QED BY <2>1, <3>1 DEF MsgInv, PlaceKept, HeldKept, Awaited, Synthetic
  <2> QED BY <2>1 DEF UserPromptsKept
<1> QED BY <1>1, QueueInvariant, PTL

(* The same for every prompt that somebody awaits, in a session that does  *)
(* not receive both scheduled prompts and auto-wakes: queue_input's        *)
(* preemption of the auto-wakes is the only step that drops a scheduled    *)
(* prompt unanswered.                                                      *)
THEOREM PromptAwaitedKept ==
  ASSUME ~({"cron", "wake"} \subseteq Kinds)
  PROVE  Spec => []NoPromptLost
<1>1. ASSUME IInv PROVE NoPromptLost
  <2>1. ASSUME NEW m \in Msgs, m <= allocated, Awaited(m)
        PROVE  (fate[m] = "none" <=> m \in InHand) /\ fate[m] # "dropped"
    <3>1. MsgInv(m) /\ m \in Sent
      BY <1>1, <2>1, Facts, SentUpTo
    <3>2. kind[m] \in {"user", "cron"} /\ kind[m] \in Kinds
      BY <2>1, <3>1 DEF MsgInv, HeldKept, Awaited
    <3>3. fate[m] = "dropped" => kind[m] = "cron" /\ "wake" \in Kinds
      BY <3>1, <3>2 DEF MsgInv, HeldKept, Synthetic
    <3> QED BY <2>1, <3>1, <3>2, <3>3 DEF MsgInv, PlaceKept, HeldKept
  <2>2. Distinct(pending_inputs)
    BY <1>1, Facts
  <2> QED BY <2>1, <2>2 DEF NoPromptLost, Distinct
<1> QED BY <1>1, QueueInvariant, PTL

(* An interjection is buffered, on its way into the queue or queued until  *)
(* a turn merged it, ran it, or a cancel discarded it: no turn that ends   *)
(* between the test of the pin and the merge strands it unseen.            *)
THEOREM InterjectionKept == Spec => []NoInterjectionLost
<1>1. ASSUME IInv PROVE NoInterjectionLost
  <2>1. ASSUME NEW m \in Msgs, m <= allocated, kind[m] = "interject", fate[m] = "none"
        PROVE  m \in InHand \/ m \in Buffered \/ Falling(m)
    <3>1. MsgInv(m) /\ m \in Sent
      BY <1>1, <2>1, Facts, SentUpTo
    <3> QED BY <2>1, <3>1 DEF MsgInv, HeldKept
  <2> QED BY <2>1 DEF NoInterjectionLost, Buffered, Falling
<1> QED BY <1>1, QueueInvariant, PTL

(* A completion marked in auto_wake_delivered is on its way to the model   *)
(* or has reached it: every sweep and cancel that withdraws the message    *)
(* withdraws the mark, but for the cancel that rewinds that very message.  *)
THEOREM NoWakeForgotten == Spec => []WakeNotForgotten
<1>1. ASSUME IInv PROVE WakeNotForgotten
  <2>1. auto_wake_delivered \subseteq Msgs
    BY <1>1, Facts DEF Types
  <2>2. \A m \in Msgs : WakeKept(m)
    BY <1>1, Facts DEF MsgInv
  <2> QED BY <2>1, <2>2 DEF WakeKept, WakeNotForgotten
<1> QED BY <1>1, QueueInvariant, PTL

-----------------------------------------------------------------------------
(* Idle sessions and live turns. *)

(* Only the task in the slot is live, beside the one a cancel is tearing   *)
(* down.                                                                   *)
LiveKept == \A m \in Msgs : turn[m] \in Live => m = running_task \/ m = job.taken

(* With the slot empty, the loop leaves only what the plan task has queued *)
(* and is about to promote.                                                *)
LoopKept ==
  at \in {"loop", "drain"} /\ running_task = None => \A m \in Queued : kind[m] = "plan"

(* A send-now cancel spares the message it is for. *)
NowKept ==
  /\ at = "send_now" \/ (at = "cancel" /\ job.now) =>
       /\ running_task # None
       /\ \E m \in Queued : m # running_task /\ kind[m] = "user"
  /\ at = "cancel" /\ job.now => ~job.kill
  /\ at = "cancel_end" /\ job.now => \E m \in Queued : kind[m] = "user"

(* The labels on the way to maybe_drain_notifications. *)
Draining == {"completion", "turn_end", "flush", "restart", "drain"}

(* Elsewhere an idle session has no batch waiting, unless a cancel rewound *)
(* since the last drain.                                                   *)
IdleKept ==
  /\ at = "cancel_end" => notifications_suppressed \/ rewind_since_drain
  /\ at \notin Draining /\ IdleForInjection =>
       pending_notifications = None \/ rewind_since_drain

DrainInv == LiveKept /\ LoopKept /\ NowKept /\ IdleKept

(* A queue is empty when nothing is queued. *)
LEMMA QueueEmpty ==
  /\ TypeOK => (pending_inputs = <<>> <=> Queued = {})
  /\ TypeOK' => (pending_inputs' = <<>> <=> Queued' = {})
<1>1. ASSUME NEW q \in Seq(Msgs) PROVE q = <<>> <=> ToSet(q) = {}
  BY Emptiness
<1>2. TypeOK => pending_inputs \in Seq(Msgs)
  BY TypeParts
<1>3. TypeOK' => pending_inputs' \in Seq(Msgs)
  BY DEF TypeOK
<1> QED BY <1>1, <1>2, <1>3 DEF Queued

(* A step that is not part of a cancel and promotes nothing. *)
LEMMA QuietDrain ==
  ASSUME IInv, IInv', DrainInv, running_task' = running_task,
         \A m \in Msgs : turn'[m] \in Live => turn[m] \in Live,
         at # "cancel_end" \/ job' = job,
         \A m \in Queued : kind'[m] = kind[m],
         at' \in {"loop", "drain"} =>
           at \in {"loop", "drain"} /\ \A m \in Queued' : m \in Queued \/ kind'[m] = "plan",
         rewind_since_drain' = rewind_since_drain,
         at' \in {"send_now", "cancel", "cancel_end"} =>
           \/ /\ at' = at /\ job' = job /\ notifications_suppressed' = notifications_suppressed
              /\ \A m \in Queued : kind[m] = "user" => m \in Queued'
           \/ /\ at' = "send_now" /\ running_task # None
              /\ \E m \in Queued' : m # running_task /\ kind'[m] = "user",
         \/ at' \in Draining
         \/ Queued' # {}
         \/ /\ at \notin Draining /\ pending_notifications' = pending_notifications
            /\ IdleForInjection' => IdleForInjection
         \/ pending_notifications' = None
  PROVE  DrainInv'
<1>1. TypeOK' /\ (at # "cancel_end" => job.taken = None)
  BY Facts DEF IInv, JobKept
<1>2. LiveKept'
  BY <1>1, MsgsNat DEF DrainInv, LiveKept
<1>3. LoopKept'
  BY DEF DrainInv, LoopKept
<1>4. NowKept'
  BY DEF DrainInv, NowKept
<1>5. IdleForInjection' => Queued' = {}
  BY <1>1, QueueEmpty DEF IdleForInjection
<1>6. IdleKept => IdleKept'
  BY <1>5 DEF IdleKept, Draining
<1> QED BY <1>2, <1>3, <1>4, <1>6 DEF DrainInv

(* A promotion. *)
LEMMA PromotionDrain ==
  ASSUME IInv, IInv', DrainInv, Start \/ Restart \/ McpInitialized \/ ResumePlanStart
  PROVE  DrainInv'
<1> DEFINE f == pending_inputs[1]
<1>1. /\ maybe_start_running_task(pending_inputs)
      /\ UNCHANGED <<kind, pending_inputs, pending_notifications, notifications_suppressed,
                     rewind_since_drain, job>>
      /\ at' = at \/ (at = "start" /\ at' = "loop") \/ (at = "restart" /\ at' = "drain")
  BY DEF Start, Restart, McpInitialized, ResumePlanStart, msgVars, noteVars, bgFrame
<1>2. TypeOK /\ pending_inputs \in Seq(Msgs) /\ Queued' = Queued
  BY <1>1, Facts DEF Types, Queued
<1>3. /\ running_task # None \/ pending_inputs = <<>> =>
           running_task' = running_task /\ turn' = turn
      /\ running_task = None /\ pending_inputs # <<>> =>
           /\ f \in Msgs /\ running_task' = f
           /\ \A m \in Msgs : m # f => turn'[m] = turn[m]
  BY <1>1, <1>2, Promoted
<1> HIDE DEF f
<1>4. pending_inputs = <<>> <=> Queued = {}
  BY <1>2, QueueEmpty
<1>5. LiveKept'
  BY <1>1, <1>3, MsgsNat DEF DrainInv, LiveKept
<1>6. LoopKept'
  BY <1>1, <1>2, <1>3, <1>4, MsgsNat DEF DrainInv, LoopKept
<1>7. NowKept'
  BY <1>1, <1>2, <1>3 DEF DrainInv, NowKept
<1>8. IdleForInjection' => IdleForInjection
  BY <1>1, <1>3, MsgsNat DEF IdleForInjection
<1>9. IdleKept => IdleKept'
  BY <1>1, <1>8 DEF IdleKept, Draining
<1> QED BY <1>5, <1>6, <1>7, <1>9 DEF DrainInv

(* The steps of a turn.  Only the task in the slot, or the one a cancel is *)
(* tearing down, consumes a completion: the session is not idle.           *)
LEMMA TurnDrain ==
  ASSUME IInv, IInv', DrainInv, NEW m \in Msgs, TurnStep(m)
  PROVE  DrainInv'
<1>1. /\ UNCHANGED <<kind, running_task, at, job, notifications_suppressed,
                     rewind_since_drain>>
      /\ turn' = turn \/ \E s \in TurnStates : s # "running" /\ turn' = [turn EXCEPT ![m] = s]
      /\ turn[m] \in Live
      /\ \/ UNCHANGED <<pending_inputs, pending_notifications>>
         \/ turn[m] = "running" /\ \E w \in Msgs : ConsumeCompletion(m, w)
  BY DEF TurnStep, FinishTurn, EmitEvent, SetGate, drain_pending_interjections,
         ConsumeCompletion, EndTurn, Unpin, SendCompletion, turnFrame, msgVars, taskVars,
         noteVars, ctlVars, Live, TurnStates
<1>2. \A n \in Msgs : turn'[n] \in Live => turn[n] \in Live
  BY <1>1, Facts DEF Types
<1>3. m = running_task \/ (at = "cancel_end" /\ m = job.taken)
  BY <1>1, Facts, MsgsNat DEF DrainInv, LiveKept, JobKept
<1>4. CASE UNCHANGED <<pending_inputs, pending_notifications>>
  <2>1. Queued' = Queued /\ (IdleForInjection' <=> IdleForInjection)
    BY <1>1, <1>4 DEF Queued, IdleForInjection
  <2> QED BY <1>1, <1>2, <1>4, <2>1, QuietDrain DEF Draining
<1>5. CASE \E w \in Msgs : ConsumeCompletion(m, w)
  <2>1. PICK w \in Msgs : ConsumeCompletion(m, w)
    BY <1>5
  <2>2. /\ Queued' \subseteq Queued
        /\ \A n \in Queued : kind[n] = "user" => n \in Queued'
    <3>1. CASE /\ w # running_task /\ kind[w] = "wake"
               /\ pending_inputs' = Swept(pending_inputs, {w})
      <4>1. ToSet(Swept(pending_inputs, {w})) = Queued \ {w}
        BY <3>1, Facts, SweptQueue
      <4> QED BY <3>1, <4>1 DEF Queued
    <3>2. CASE pending_inputs' = pending_inputs
      BY <3>2 DEF Queued
    <3> QED BY <2>1, <3>1, <3>2 DEF ConsumeCompletion
  <2>3. CASE m = running_task
    <3>1. running_task' # None
      BY <1>1, <2>3, MsgsNat
    <3>2. ~IdleForInjection'
      BY <3>1 DEF IdleForInjection
    <3>3. CASE at \notin Draining
      <4>1. pending_notifications' \in {None, pending_notifications}
        BY <2>1 DEF ConsumeCompletion
      <4> QED BY <1>1, <1>2, <2>2, <3>2, <3>3, <4>1, QuietDrain
    <3>4. CASE at \in Draining
      BY <1>1, <1>2, <2>2, <3>4, QuietDrain
    <3> QED BY <3>3, <3>4
  <2>4. CASE at = "cancel_end"
    <3>1. LiveKept' /\ LoopKept' /\ NowKept'
      BY <1>1, <1>2, <2>2, <2>4 DEF DrainInv, LiveKept, LoopKept, NowKept
    <3>2. IdleKept => IdleKept'
      BY <1>1, <2>4 DEF IdleKept, IdleForInjection
    <3> QED BY <3>1, <3>2 DEF DrainInv
  <2> QED BY <1>3, <2>3, <2>4
<1> QED BY <1>1, <1>4, <1>5

(* A new message renames no queued one. *)
LEMMA KindsStay ==
  ASSUME IInv, NEW k, Alloc(k)
  PROVE  /\ \A m \in Queued : kind'[m] = kind[m]
         /\ Next1 \in Msgs /\ kind'[Next1] = k /\ Next1 \notin Queued
         /\ Next1 # running_task
<1>1. /\ Next1 \in Msgs /\ kind'[Next1] = k
      /\ \A m \in Msgs : m # Next1 => kind'[m] = kind[m]
  BY Facts, Allocated
<1>2. Next1 \notin Queued /\ Next1 # running_task
  BY NewMessage DEF Nowhere
<1> QED BY <1>1, <1>2, Facts

(* A message that enters the queue makes the session busy. *)
LEMMA PromptDrain ==
  ASSUME IInv, IInv', DrainInv, NEW k \in Kinds, NEW now \in BOOLEAN, Prompt(k, now)
  PROVE  DrainInv'
<1>1. /\ Alloc(k) /\ queue_input(Next1, k, now) /\ at = "loop"
      /\ \/ at' = "start"
         \/ at' = "send_now" /\ k = "user" /\ running_task # None
      /\ UNCHANGED <<running_task, turn, job, rewind_since_drain>>
  BY DEF Prompt, TakesCommand, taskVars
<1>2. /\ \A m \in Queued : kind'[m] = kind[m]
      /\ Next1 \in Msgs /\ kind'[Next1] = k /\ Next1 # running_task
  BY <1>1, KindsStay
<1>3. Next1 \in Queued'
  BY <1>1, <1>2, Inputted, Facts
<1> QED BY <1>1, <1>2, <1>3, QuietDrain

LEMMA ResumePlanDrain ==
  ASSUME IInv, IInv', DrainInv, ResumePlan
  PROVE  DrainInv'
<1>1. /\ Alloc("plan") /\ queue_input(Next1, "plan", FALSE)
      /\ UNCHANGED <<running_task, turn, at, job, notifications_suppressed, rewind_since_drain>>
  BY DEF ResumePlan, bgFrame, taskVars, noteVars
<1>2. /\ \A m \in Queued : kind'[m] = kind[m]
      /\ Next1 \in Msgs /\ kind'[Next1] = "plan"
  BY <1>1, KindsStay
<1>3. Queued' = Queued \cup {Next1}
  BY <1>1, <1>2, Inputted, Facts DEF Dropped
<1> QED BY <1>1, <1>2, <1>3, QuietDrain

LEMMA InterjectDrain ==
  ASSUME IInv, IInv', DrainInv, Interject
  PROVE  DrainInv'
<1>1. /\ Alloc("interject") /\ at = "loop" /\ at' \in {"loop", "fallback"}
      /\ UNCHANGED <<running_task, turn, pending_inputs, notifications_suppressed,
                     rewind_since_drain, pending_notifications>>
  BY DEF Interject, TakesCommand, taskVars, noteVars
<1>2. Queued' = Queued /\ (IdleForInjection' <=> IdleForInjection)
  BY <1>1 DEF Queued, IdleForInjection
<1>3. \A m \in Queued : kind'[m] = kind[m]
  BY <1>1, KindsStay
<1> QED BY <1>1, <1>2, <1>3, QuietDrain DEF Draining

LEMMA FallbackDrain ==
  ASSUME IInv, IInv', DrainInv, Fallback
  PROVE  DrainInv'
<1> DEFINE d == job.done
<1>1. /\ at = "fallback" /\ at' = "start" /\ InsertFallbacks(<<d>>)
      /\ UNCHANGED <<kind, running_task, turn, rewind_since_drain>>
  BY DEF Fallback, msgVars, taskVars, noteVars
<1>2. d \in Msgs
  BY <1>1, Facts DEF JobKept
<1> HIDE DEF d
<1>3. <<d>> \in Seq(Msgs) /\ ToSet(<<d>>) = {d}
  BY <1>2, One
<1>4. Queued' = Queued \cup {d}
  BY <1>1, <1>3, FellBack, Facts
<1> QED BY <1>1, <1>4, QuietDrain

LEMMA GoalDrain ==
  ASSUME IInv, IInv', DrainInv, GoalSummaryTurn \/ handle_turn_end
  PROVE  DrainInv'
<1>1. UNCHANGED <<running_task, turn, job, rewind_since_drain>>
  BY DEF GoalSummaryTurn, handle_turn_end, taskVars, noteVars
<1>2. CASE GoalSummaryTurn
  <2>1. /\ Alloc("goal") /\ at = "loop" /\ at' = "start"
        /\ pending_inputs' = Append(pending_inputs, Next1)
    BY <1>2 DEF GoalSummaryTurn, TakesCommand
  <2>2. Next1 \in Msgs /\ \A m \in Queued : kind'[m] = kind[m]
    BY <2>1, KindsStay
  <2>3. Queued' = Queued \cup {Next1}
    BY <2>1, <2>2, Appended, Facts DEF Queued, Types
  <2> QED BY <1>1, <2>1, <2>2, <2>3, QuietDrain
<1>3. CASE handle_turn_end
  <2>1. /\ at = "turn_end" /\ at' = "flush"
        /\ kind' = kind \/ Alloc("goal")
    BY <1>3 DEF handle_turn_end, msgVars
  <2>2. \A m \in Queued : kind'[m] = kind[m]
    BY <2>1, KindsStay
  <2> QED BY <1>1, <2>1, <2>2, QuietDrain DEF Draining
<1> QED BY <1>2, <1>3

LEMMA InjectNotificationDrain ==
  ASSUME IInv, IInv', DrainInv, InjectNotification
  PROVE  DrainInv'
<1>1. /\ at = "loop" /\ at' = "drain" /\ (kind' = kind \/ Alloc("drain"))
      /\ UNCHANGED <<running_task, turn, pending_inputs, job, rewind_since_drain>>
  BY DEF InjectNotification, TakesCommand, msgVars, taskVars
<1>2. Queued' = Queued /\ \A m \in Queued : kind'[m] = kind[m]
  BY <1>1, KindsStay DEF Queued
<1> QED BY <1>1, <1>2, QuietDrain DEF Draining

(* Rows: while the slot is empty the loop has none to remove. *)
LEMMA RowsDrain ==
  ASSUME IInv, IInv', DrainInv,
         \/ \E m \in Msgs : RemoveQueuedPrompt(m) \/ InterjectQueuedPrompt(m)
         \/ \E mine \in SUBSET {m \in Msgs : Row(m)} : ClearQueue(mine)
         \/ \E named \in SUBSET {m \in Msgs : Row(m)} :
              \E ids \in SetToSeqs(named) : ReorderQueue(ids)
  PROVE  DrainInv'
<1>1. /\ at = "loop" /\ at' \in {"loop", "start", "send_now"}
      /\ UNCHANGED <<kind, running_task, turn, job, notifications_suppressed,
                     rewind_since_drain, pending_notifications>>
  BY DEF RemoveQueuedPrompt, InterjectQueuedPrompt, ClearQueue, ReorderQueue, TakesCommand,
         queueFrame, msgVars, taskVars, noteVars
<1>2. \A m \in Queued : running_task = None => ~Row(m)
  BY <1>1 DEF DrainInv, LoopKept, Row, HasRow
<1>3. CASE \E m \in Msgs : RemoveQueuedPrompt(m)
  <2>1. PICK m \in Msgs : RemoveQueuedPrompt(m)
    BY <1>3
  <2>2. /\ Row(m) /\ m \in Queued /\ running_task \notin {m} /\ at' = "loop"
        /\ pending_inputs' = Retain(pending_inputs, Msgs \ {m})
    BY <1>1, <2>1 DEF RemoveQueuedPrompt, Row
  <2>3. Queued' \subseteq Queued
    BY <2>2, KeptQueue, Facts DEF Queued
  <2>4. running_task # None
    BY <1>2, <2>2
  <2>5. ~IdleForInjection'
    BY <1>1, <2>4 DEF IdleForInjection
  <2> QED BY <1>1, <2>2, <2>3, <2>5, QuietDrain DEF Draining
<1>4. CASE \E m \in Msgs : InterjectQueuedPrompt(m)
  <2>1. PICK m \in Msgs : InterjectQueuedPrompt(m)
    BY <1>4
  <2>2. /\ m \in Queued /\ m # running_task /\ kind[m] = "user"
        /\ at' = IF running_task # None /\ ~goal_active THEN "send_now" ELSE "start"
    BY <2>1 DEF InterjectQueuedPrompt, Row, HasRow
  <2>3. Queued' = Queued
    BY <2>1, RowPromoted, Facts
  <2> QED BY <1>1, <2>2, <2>3, QuietDrain
<1>5. CASE \E mine \in SUBSET {m \in Msgs : Row(m)} : ClearQueue(mine)
  <2>1. PICK mine \in SUBSET {m \in Msgs : Row(m)} : ClearQueue(mine)
    BY <1>5
  <2>2. /\ mine # {} /\ \A m \in mine : m \in Queued /\ Row(m)
        /\ running_task \notin mine /\ at' = "loop"
        /\ pending_inputs' = Retain(pending_inputs, Msgs \ mine)
    BY <1>1, <2>1 DEF ClearQueue, Row
  <2>3. Queued' \subseteq Queued
    BY <2>2, KeptQueue, Facts DEF Queued
  <2>4. running_task # None
    BY <1>2, <2>2
  <2>5. ~IdleForInjection'
    BY <1>1, <2>4 DEF IdleForInjection
  <2> QED BY <1>1, <2>2, <2>3, <2>5, QuietDrain DEF Draining
<1>6. CASE \E named \in SUBSET {m \in Msgs : Row(m)} :
             \E ids \in SetToSeqs(named) : ReorderQueue(ids)
  <2>1. Queued' = Queued /\ at' = "loop"
    BY <1>1, <1>6, Reordered, Facts DEF ReorderQueue
  <2>2. IdleForInjection' => IdleForInjection
    BY <1>1, <2>1, QueueEmpty, Facts DEF IdleForInjection, IInv
  <2> QED BY <1>1, <2>1, <2>2, QuietDrain DEF Draining
<1> QED BY <1>3, <1>4, <1>5, <1>6

(* The completion arm ends in maybe_drain_notifications. *)
LEMMA CompletionDrain ==
  ASSUME IInv, IInv', DrainInv,
         CompletionUnpin \/ handle_completion \/ flush_stranded_interjections
  PROVE  DrainInv'
<1>1. /\ at' \in {"completion", "turn_end", "restart"} /\ at # "cancel_end"
      /\ UNCHANGED <<kind, turn, rewind_since_drain>>
  BY DEF CompletionUnpin, handle_completion, flush_stranded_interjections, msgVars, taskVars,
         noteVars
<1>2. CASE CompletionUnpin \/ flush_stranded_interjections
  <2>1. running_task' = running_task
    BY <1>2 DEF CompletionUnpin, flush_stranded_interjections, taskVars
  <2> QED BY <1>1, <2>1, QuietDrain DEF Draining
<1>3. CASE handle_completion
  <2>1. at = "completion" /\ job.done \in Msgs /\ (OwnedCompletion <=> running_task = job.done)
    BY <1>3, Owned DEF handle_completion
  <2>2. running_task' = IF running_task = job.done THEN None ELSE running_task
    BY <1>3, <2>1 DEF handle_completion, ClearsSlot
  <2>3. turn[job.done] = "sent" /\ job.taken = None
    BY <2>1, Facts DEF MsgInv, RunKept, Completing, JobKept
  <2>4. LiveKept'
    <3>1. ASSUME NEW m \in Msgs, turn'[m] \in Live PROVE m = running_task'
      <4>1. m # job.done /\ m = running_task
        BY <1>1, <2>3, <3>1, MsgsNat DEF DrainInv, LiveKept, Live
      <4> QED BY <2>2, <4>1
    <3> QED BY <3>1 DEF LiveKept
  <2>5. LoopKept' /\ NowKept' /\ IdleKept'
    BY <1>1 DEF LoopKept, NowKept, IdleKept, Draining
  <2> QED BY <2>4, <2>5 DEF DrainInv
<1> QED BY <1>2, <1>3

(* maybe_drain_notifications leaves no batch behind an idle session. *)
LEMMA DrainDrain ==
  ASSUME IInv, IInv', DrainInv, maybe_drain_notifications
  PROVE  DrainInv'
<1>1. at = "drain" /\ at' = "loop" /\ UNCHANGED <<kind, notifications_suppressed, job>>
  BY DEF maybe_drain_notifications, msgVars
<1>2. CASE UNCHANGED <<pending_inputs, taskVars>>
  <2>1. /\ UNCHANGED <<pending_inputs, running_task, turn>> /\ Queued' = Queued
        /\ (IdleForInjection' <=> IdleForInjection)
    BY <1>1, <1>2 DEF taskVars, Queued, IdleForInjection
  <2>2. LiveKept' /\ LoopKept' /\ NowKept'
    BY <1>1, <2>1 DEF DrainInv, LiveKept, LoopKept, NowKept
  <2>3. IdleForInjection' => pending_notifications' = None
    BY <2>1 DEF maybe_drain_notifications, BatchWaiting
  <2>4. IdleKept'
    BY <1>1, <2>3 DEF IdleKept
  <2> QED BY <2>2, <2>4 DEF DrainInv
<1>3. CASE /\ pending_notifications # None /\ running_task = None
           /\ pending_inputs' = <<pending_notifications>>
           /\ maybe_start_running_task(pending_inputs')
  <2> DEFINE p == pending_notifications
  <2>1. p \in Msgs /\ maybe_start_running_task(<<p>>)
    BY <1>3, Facts DEF Types
  <2> HIDE DEF p
  <2>2. <<p>> \in Seq(Msgs) /\ <<p>> # <<>> /\ <<p>>[1] = p
    BY <2>1, One
  <2>3. running_task' = p /\ \A m \in Msgs : m # p => turn'[m] = turn[m]
    BY <1>3, <2>1, <2>2, Promoted, Facts
  <2>4. LiveKept'
    BY <1>1, <1>3, <2>3, MsgsNat DEF DrainInv, LiveKept
  <2>5. LoopKept' /\ NowKept'
    BY <1>1, <2>1, <2>3, MsgsNat DEF LoopKept, NowKept
  <2>6. IdleKept'
    BY <1>1, <2>1, <2>3, MsgsNat DEF IdleKept, IdleForInjection
  <2> QED BY <2>4, <2>5, <2>6 DEF DrainInv
<1> QED BY <1>2, <1>3 DEF maybe_drain_notifications, IdleForInjection, BatchWaiting

(* A cancel suppresses the notifications, or is for a message that is      *)
(* still queued when it ends.                                              *)
LEMMA BeginCancelDrain ==
  ASSUME IInv, IInv', DrainInv,
         \/ \E kill, rewind \in BOOLEAN : Cancel(kill, rewind)
         \/ cancel_turn_for_send_now
  PROVE  DrainInv'
<1>1. PICK kill \in BOOLEAN, rewind \in BOOLEAN, now \in BOOLEAN :
        /\ BeginCancel(kill, rewind, now)
        /\ \/ at = "loop" /\ ~now
           \/ at = "send_now" /\ now /\ ~kill
  BY DEF Cancel, cancel_turn_for_send_now, TakesCommand
<1>2. /\ at' = "cancel" /\ job' = CancelJob(kill, rewind, now)
      /\ UNCHANGED <<kind, pending_inputs, running_task, turn, pending_notifications,
                     notifications_suppressed, rewind_since_drain>>
  BY <1>1 DEF BeginCancel, CancelJob, msgVars, taskVars, noteVars
<1>3. current_prompt_id \in Msgs \cup {None}
  BY Facts DEF Types
<1>4. job'.now = now /\ job'.kill = kill /\ job'.taken = None
  BY <1>2, <1>3, CancelJobFields
<1>5. Queued' = Queued /\ (IdleForInjection' <=> IdleForInjection)
  BY <1>2 DEF Queued, IdleForInjection
<1>6. at # "cancel_end" => job.taken = None
  BY Facts DEF JobKept
<1>7. LiveKept' /\ LoopKept'
  BY <1>1, <1>2, <1>4, <1>6 DEF DrainInv, LiveKept, LoopKept
<1>8. NowKept'
  BY <1>1, <1>2, <1>4, <1>5 DEF DrainInv, NowKept
<1>9. IdleKept => IdleKept'
  BY <1>1, <1>2, <1>5 DEF IdleKept, Draining
<1> QED BY <1>7, <1>8, <1>9 DEF DrainInv

(* The lock pops the running front, and not the message a send-now is for. *)
LEMMA CancelLockDrain ==
  ASSUME IInv, IInv', DrainInv, CancelLock
  PROVE  DrainInv'
<1>1. /\ at = "cancel" /\ at' = "cancel_end" /\ running_task' = None /\ kind' = kind
  BY DEF CancelLock, msgVars
<1>2. /\ job \in JobType /\ job.taken = None /\ running_task \in Msgs \cup {None}
      /\ pending_inputs \in Seq(Msgs) /\ turn \in [Msgs -> TurnStates]
      /\ (job.rewind => Rewinds)
  BY <1>1, Facts DEF Types, JobKept
<1>3. PICK v \in Seq(Msgs) : v = Resolved
  <2>1. pending_inputs # <<>> => <<Head(pending_inputs)>> \in Seq(Msgs)
    BY <1>2, Popped, One
  <2> QED BY <1>2, <2>1 DEF Resolved
<1>4. job'.now = job.now
  <2>1. PICK moved \in SUBSET Queued : job'.now = job.now
    BY LockTakes
  <2> QED BY <2>1
<1>5. ASSUME NEW m \in Msgs, turn'[m] \in Live PROVE m = job'.taken
  <2>1. CASE CancelRewinds
    <3>1. turn' = IF running_task = None THEN turn ELSE Aborted(turn, running_task)
      BY <2>1 DEF CancelLock
    <3>2. CASE running_task = None
      <4>1. turn[m] \in Live
        BY <1>5, <3>1, <3>2
      <4> QED BY <1>2, <3>2, <4>1, MsgsNat DEF DrainInv, LiveKept
    <3>3. CASE running_task # None
      <4>1. turn' = [turn EXCEPT ![running_task] =
                       IF turn[running_task] \in Live THEN "aborted" ELSE turn[running_task]]
        BY <3>1, <3>3 DEF Aborted
      <4>2. m # running_task /\ turn[m] \in Live
        BY <1>2, <1>5, <3>3, <4>1 DEF Live
      <4> QED BY <1>2, <4>2, MsgsNat DEF DrainInv, LiveKept
    <3> QED BY <3>2, <3>3
  <2>2. CASE ~CancelRewinds
    <3>1. turn' = turn /\ job' = VictimJob(job, running_task, v)
      BY <1>3, <2>2 DEF CancelLock, VictimJob
    <3>2. job'.taken = running_task
      BY <1>2, <1>3, <3>1, VictimJobFields
    <3>3. m = running_task
      BY <1>2, <1>5, <3>1, MsgsNat DEF DrainInv, LiveKept
    <3> QED BY <3>2, <3>3
  <2> QED BY <2>1, <2>2
<1>6. LiveKept' /\ LoopKept'
  BY <1>1, <1>5 DEF LiveKept, LoopKept
<1>7. NowKept'
  <2>1. SUFFICES ASSUME job.now PROVE \E m \in Queued' : kind'[m] = "user"
    BY <1>1, <1>4 DEF NowKept
  <2>2. PICK m \in Queued : m # running_task /\ kind[m] = "user"
    BY <1>1, <2>1 DEF DrainInv, NowKept
  <2>3. running_task # None /\ ~job.kill
    BY <1>1, <2>1 DEF DrainInv, NowKept
  <2>4. pending_inputs # <<>> /\ Head(pending_inputs) = running_task
    BY <2>3, Facts DEF FrontIsRunning
  <2>5. pending_inputs' = Tail(pending_inputs)
    BY <2>3, <2>4 DEF CancelLock
  <2>6. Queued = Queued' \cup {running_task}
    BY <1>2, <2>4, <2>5, Popped DEF Queued
  <2>7. m \in Queued'
    BY <2>2, <2>6
  <2> QED BY <1>1, <2>2, <2>7
<1>8. IdleKept'
  <2>1. notifications_suppressed' \/ rewind_since_drain'
    BY DEF CancelLock
  <2> QED BY <2>1 DEF IdleKept, IdleForInjection
<1> QED BY <1>6, <1>7, <1>8 DEF DrainInv

(* Notifications stay suppressed, or that message is still queued. *)
LEMMA CancelEndDrain ==
  ASSUME IInv, IInv', DrainInv, CancelEnd
  PROVE  DrainInv'
<1>1. /\ at = "cancel_end" /\ at' = "start" /\ job' = NoJob
      /\ turn' = IF job.taken = None THEN turn ELSE Aborted(turn, job.taken)
      /\ notifications_suppressed' = (notifications_suppressed /\ ~job.now)
      /\ UNCHANGED <<kind, pending_inputs, running_task, rewind_since_drain>>
  BY DEF CancelEnd, msgVars
<1>2. Queued' = Queued /\ job'.taken = None
  BY <1>1, NoJobFields DEF Queued
<1>3. job.taken \in Msgs \cup {None} /\ turn \in [Msgs -> TurnStates] /\ TypeOK
  BY Facts, JobFields DEF Types
<1>4. LiveKept'
  <2>1. CASE job.taken = None
    BY <1>1, <1>2, <2>1, MsgsNat DEF DrainInv, LiveKept
  <2>2. CASE job.taken # None
    <3>1. turn' = [turn EXCEPT ![job.taken] =
                     IF turn[job.taken] \in Live THEN "aborted" ELSE turn[job.taken]]
      BY <1>1, <2>2 DEF Aborted
    <3>2. \A m \in Msgs : turn'[m] \in Live => m # job.taken /\ turn[m] \in Live
      BY <1>3, <2>2, <3>1 DEF Live
    <3> QED BY <1>1, <3>2 DEF DrainInv, LiveKept
  <2> QED BY <2>1, <2>2
<1>5. LoopKept' /\ NowKept'
  BY <1>1 DEF LoopKept, NowKept
<1>6. IdleKept => IdleKept'
  <2>1. ASSUME IdleKept, IdleForInjection', ~rewind_since_drain PROVE FALSE
    <3>1. notifications_suppressed /\ ~notifications_suppressed' /\ pending_inputs = <<>>
      BY <1>1, <2>1 DEF IdleKept, IdleForInjection
    <3>2. job.now
      BY <1>1, <3>1
    <3>3. Queued = {}
      BY <1>3, <3>1, QueueEmpty
    <3> QED BY <1>1, <3>2, <3>3 DEF DrainInv, NowKept
  <2> QED BY <1>1, <2>1 DEF IdleKept
<1> QED BY <1>4, <1>5, <1>6 DEF DrainInv

-----------------------------------------------------------------------------
LEMMA DrainInit ==
  ASSUME Init
  PROVE  DrainInv
<1>1. Queued = {}
  BY Emptiness DEF Init, Queued
<1> QED BY <1>1 DEF Init, DrainInv, LiveKept, LoopKept, NowKept, IdleKept, Live, Draining

LEMMA DrainNext ==
  ASSUME IInv, IInv', DrainInv, [Next]_vars
  PROVE  DrainInv'
<1>1. CASE Command
  BY <1>1, PromptDrain, InterjectDrain, GoalDrain, InjectNotificationDrain, RowsDrain,
     BeginCancelDrain DEF Command
<1>2. CASE ActorStep
  BY <1>2, FallbackDrain, PromotionDrain, BeginCancelDrain, CancelLockDrain, CancelEndDrain,
     CompletionDrain, GoalDrain, DrainDrain DEF ActorStep
<1>3. CASE \E m \in Msgs : TurnStep(m)
  BY <1>3, TurnDrain
<1>4. CASE BackgroundStep
  BY <1>4, PromotionDrain, ResumePlanDrain DEF BackgroundStep
<1>5. CASE UNCHANGED vars
  <2>1. UNCHANGED <<kind, running_task, turn, at, job, notifications_suppressed,
                    rewind_since_drain, pending_inputs, pending_notifications>>
    BY <1>5 DEF vars, msgVars, taskVars, noteVars, ctlVars
  <2>2. Queued' = Queued /\ (IdleForInjection' <=> IdleForInjection)
    BY <2>1 DEF Queued, IdleForInjection
  <2>3. CASE at \in Draining
    BY <2>1, <2>2, <2>3, QuietDrain
  <2>4. CASE at \notin Draining
    BY <2>1, <2>2, <2>4, QuietDrain
  <2> QED BY <2>3, <2>4
<1> QED BY <1>1, <1>2, <1>3, <1>4, <1>5 DEF Next

(* Beside the turn in the slot, only the one a cancel has taken out of it  *)
(* is still live, until CancelEnd aborts it; and the loop, the send-now    *)
(* cancel and the notifications agree on when the session is idle.         *)
THEOREM DrainInvariant == Spec => []DrainInv
<1>1. Init => DrainInv
  BY DrainInit
<1>2. IInv /\ IInv' /\ DrainInv /\ [Next]_vars => DrainInv'
  BY DrainNext
<1> QED BY <1>1, <1>2, QueueInvariant, PTL DEF Spec

(* An idle session in its select has no notification waiting: every path   *)
(* that empties the queue and the slot ends in maybe_drain_notifications,  *)
(* suppresses the batch, or leaves a message to promote, except a cancel   *)
(* that rewinds.                                                           *)
THEOREM NothingLeftBehind == Spec => []NotificationsDrained
<1>1. DrainInv => NotificationsDrained
  BY DEF DrainInv, IdleKept, NotificationsDrained, TakesCommand, Draining, BatchWaiting
<1> QED BY <1>1, DrainInvariant, PTL

(* Two turns are live at once only inside the section of a cancel that has *)
(* taken one of them out of the slot and not yet aborted it, though MCP    *)
(* initialisation and a re-parked plan promote at any await.               *)
THEOREM TurnsExclude == Spec => []OneTurnOutsideCancel
<1>1. ASSUME IInv, DrainInv PROVE OneTurnOutsideCancel
  <2>1. at # "cancel_end" => job.taken = None
    BY <1>1, Facts DEF JobKept
  <2>2. \A m \in Msgs : m # None
    BY MsgsNat
  <2> QED BY <1>1, <2>1, <2>2 DEF DrainInv, LiveKept, OneTurnOutsideCancel
<1> QED BY <1>1, QueueInvariant, DrainInvariant, PTL

-----------------------------------------------------------------------------
(* A message is settled once. *)

Settled(m) == fate'[m] = fate[m] /\ runs'[m] = runs[m] /\ terminals'[m] = terminals[m]

(* A message with a fate is in nobody's hands. *)
LEMMA OutOfHand ==
  ASSUME IInv, NEW m \in Msgs, fate[m] # "none"
  PROVE  /\ m \notin Queued /\ m \notin Victims /\ m # job.rewound
         /\ m \notin Buffered /\ m # pending_notifications
BY Facts DEF MsgInv, PlaceKept, InHand, Outside, Victims

(* Only the front of a queue is run. *)
LEMMA RunsFront ==
  ASSUME IInv, NEW q \in Seq(Msgs), maybe_start_running_task(q), NEW m \in Msgs,
         m \notin ToSet(q)
  PROVE  runs'[m] = runs[m]
BY Promoted, Facts

LEMMA CommandSettled ==
  ASSUME IInv, Command, NEW m \in Msgs, fate[m] # "none"
  PROVE  Settled(m)
<1>1. /\ m \notin Queued /\ m \notin Buffered
  BY OutOfHand
<1>2. CASE \E k \in Kinds, now \in BOOLEAN : Prompt(k, now)
  <2>1. PICK k \in Kinds, now \in BOOLEAN : Prompt(k, now)
    BY <1>2
  <2>2. PICK S \in {Preempted, {}} : Fate(S, "dropped")
    BY <2>1 DEF Prompt, queue_input
  <2>3. m \notin S
    BY <1>1, <2>2 DEF Preempted
  <2> QED BY <2>1, <2>2, <2>3 DEF Prompt, Fate, taskVars, Settled
<1>3. CASE Interject \/ GoalSummaryTurn \/ InjectNotification
  BY <1>3 DEF Interject, GoalSummaryTurn, InjectNotification, taskVars, histVars, Settled
<1>4. CASE \E r \in Msgs : RemoveQueuedPrompt(r)
  BY <1>1, <1>4 DEF RemoveQueuedPrompt, Row, Fate, queueFrame, taskVars, Settled
<1>5. CASE \E r \in Msgs : InterjectQueuedPrompt(r)
  BY <1>5 DEF InterjectQueuedPrompt, queueFrame, taskVars, Settled
<1>6. CASE \E mine \in SUBSET {r \in Msgs : Row(r)} : ClearQueue(mine)
  <2>1. PICK mine \in SUBSET {r \in Msgs : Row(r)} : ClearQueue(mine)
    BY <1>6
  <2>2. m \notin mine
    BY <1>1 DEF Row
  <2> QED BY <2>1, <2>2 DEF ClearQueue, Fate, queueFrame, taskVars, Settled
<1>7. CASE \E named \in SUBSET {r \in Msgs : Row(r)} :
             \E ids \in SetToSeqs(named) : ReorderQueue(ids)
  BY <1>7 DEF ReorderQueue, queueFrame, taskVars, Settled
<1>8. CASE \E kill, rewind \in BOOLEAN : Cancel(kill, rewind)
  BY <1>1, <1>8 DEF Cancel, BeginCancel, Fate, taskVars, Settled, Buffered
<1> QED BY <1>2, <1>3, <1>4, <1>5, <1>6, <1>7, <1>8 DEF Command

LEMMA ActorSettled ==
  ASSUME IInv, ActorStep, NEW m \in Msgs, fate[m] # "none"
  PROVE  Settled(m)
<1>1. /\ m \notin Queued /\ m \notin Victims /\ m # job.rewound
      /\ m \notin Buffered /\ m # pending_notifications
  BY OutOfHand
<1>2. CASE Fallback \/ handle_turn_end \/ flush_stranded_interjections \/ CompletionUnpin
  BY <1>2 DEF Fallback, handle_turn_end, flush_stranded_interjections, CompletionUnpin,
              taskVars, histVars, Settled
<1>3. CASE Start \/ Restart
  <2>1. maybe_start_running_task(pending_inputs) /\ UNCHANGED histVars
    BY <1>3 DEF Start, Restart
  <2>2. runs'[m] = runs[m]
    BY <1>1, <2>1, Facts, RunsFront DEF Types, Queued
  <2> QED BY <2>1, <2>2 DEF histVars, Settled
<1>4. CASE cancel_turn_for_send_now
  BY <1>1, <1>4 DEF cancel_turn_for_send_now, BeginCancel, Fate, taskVars, Settled, Buffered
<1>5. CASE CancelLock
  BY <1>1, <1>5 DEF CancelLock, Fate, Settled
<1>6. CASE CancelEnd
  <2>1. fate'[m] = fate[m] /\ runs'[m] = runs[m]
    BY <1>1, <1>6 DEF CancelEnd, Fate, Victims
  <2>2. terminals'[m] = terminals[m]
    <3>1. CASE job.rewound = None /\ CancelledId # None
      <4>1. CancelledId \in Victims
        BY <1>6, <3>1, Facts DEF CancelEnd, CancelledId, JobKept
      <4> QED BY <1>1, <1>6, <3>1, <4>1, Facts DEF CancelEnd, Types
    <3>2. CASE ~(job.rewound = None /\ CancelledId # None)
      BY <1>6, <3>2 DEF CancelEnd
    <3> QED BY <3>1, <3>2
  <2> QED BY <2>1, <2>2 DEF Settled
<1>7. CASE handle_completion
  <2>1. runs' = runs
    BY <1>7 DEF handle_completion
  <2>2. CASE OwnedCompletion
    <3>1. Head(pending_inputs) \in Queued /\ job.done = Head(pending_inputs)
      BY <2>2, Facts, Emptiness DEF OwnedCompletion, Types, Queued
    <3>2. Fate({job.done}, "completed") /\ terminals' = [terminals EXCEPT ![job.done] = @ + 1]
      BY <1>7, <2>2 DEF handle_completion
    <3> QED BY <1>1, <2>1, <3>1, <3>2, Facts DEF Fate, Settled, Types
  <2>3. CASE ~OwnedCompletion
    BY <1>7, <2>1, <2>3 DEF handle_completion, Settled
  <2> QED BY <2>2, <2>3
<1>8. CASE maybe_drain_notifications
  <2>1. terminals' = terminals
    BY <1>8 DEF maybe_drain_notifications
  <2>2. CASE UNCHANGED taskVars
    <3>1. fate'[m] = fate[m]
      BY <1>1, <1>8 DEF maybe_drain_notifications, Fate
    <3> QED BY <2>1, <2>2, <3>1 DEF taskVars, Settled
  <2>3. CASE /\ BatchWaiting /\ pending_inputs' = <<pending_notifications>>
             /\ maybe_start_running_task(pending_inputs') /\ UNCHANGED fate
    <3>1. pending_inputs' \in Seq(Msgs) /\ ToSet(pending_inputs') = {pending_notifications}
      BY <2>3, Facts, One DEF BatchWaiting, Types
    <3>2. runs'[m] = runs[m]
      BY <1>1, <2>3, <3>1, RunsFront
    <3> QED BY <2>1, <2>3, <3>2 DEF Settled
  <2> QED BY <1>8, <2>2, <2>3 DEF maybe_drain_notifications
<1> QED BY <1>2, <1>3, <1>4, <1>5, <1>6, <1>7, <1>8 DEF ActorStep

LEMMA TurnSettled ==
  ASSUME IInv, NEW n \in Msgs, TurnStep(n), NEW m \in Msgs, fate[m] # "none"
  PROVE  Settled(m)
<1>1. m \notin Queued /\ m \notin Buffered /\ m # pending_notifications
  BY OutOfHand
<1>2. runs' = runs /\ terminals' = terminals
  BY DEF TurnStep, FinishTurn, EmitEvent, SetGate, drain_pending_interjections,
     ConsumeCompletion, EndTurn, Unpin, SendCompletion, turnFrame, taskVars
<1>3. fate'[m] = fate[m]
  BY <1>1 DEF TurnStep, FinishTurn, EmitEvent, SetGate, drain_pending_interjections,
     ConsumeCompletion, EndTurn, Unpin, SendCompletion, Fate, Buffered
<1> QED BY <1>2, <1>3 DEF Settled

LEMMA BackgroundSettled ==
  ASSUME IInv, BackgroundStep, NEW m \in Msgs, fate[m] # "none"
  PROVE  Settled(m)
<1>1. m \notin Queued
  BY OutOfHand
<1>2. CASE McpInitialized \/ ResumePlanStart
  <2>1. maybe_start_running_task(pending_inputs) /\ UNCHANGED <<fate, terminals>>
    BY <1>2 DEF McpInitialized, ResumePlanStart, bgFrame
  <2>2. runs'[m] = runs[m]
    BY <1>1, <2>1, Facts, RunsFront DEF Types, Queued
  <2> QED BY <2>1, <2>2 DEF Settled
<1>3. CASE ResumePlan
  <2>1. Fate({}, "dropped")
    BY <1>3 DEF ResumePlan, queue_input
  <2> QED BY <1>3, <2>1 DEF ResumePlan, Fate, bgFrame, taskVars, Settled
<1> QED BY <1>2, <1>3 DEF BackgroundStep

(* Each message is answered at most once, whoever of a sweep, a cancel, a  *)
(* completion, a merge and the client's own commands comes first; and what *)
(* was answered is never promoted or given a terminal afterwards.          *)
THEOREM AnsweredOnce == Spec => SettledOnce
<1>1. ASSUME IInv, [Next]_vars, NEW m \in Msgs, fate[m] # "none" PROVE Settled(m)
  <2>1. CASE UNCHANGED vars
    BY <2>1 DEF vars, taskVars, histVars, Settled
  <2> QED BY <1>1, <2>1, CommandSettled, ActorSettled, TurnSettled, BackgroundSettled DEF Next
<1>2. IInv /\ [Next]_vars =>
        [\A m \in Msgs : fate[m] # "none" =>
           fate'[m] = fate[m] /\ runs'[m] = runs[m] /\ terminals'[m] = terminals[m]]_vars
  BY <1>1 DEF Settled
<1> QED BY <1>2, QueueInvariant, PTL DEF Spec, SettledOnce

=============================================================================
