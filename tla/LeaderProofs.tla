---------------------------- MODULE LeaderProofs ----------------------------
(***************************************************************************)
(* Theorems about Leader, for any number of clients and leader processes,  *)
(* any versions, any number of faults and of steps that go ahead of a      *)
(* leader that is starting.                                                *)
(***************************************************************************)
EXTENDS Leader, TLAPS

LeadRec == [pc : Starting \cup {"gone", "init", "ready", "closing"},
            ver : Nat, lock : Handles, asked : BOOLEAN]

ClientRec == [pc : {"idle", "probe", "connect", "register", "vacate",
                    "acquire", "held", "await", "wait", "done"},
              lock : Handles, to : Leaders \cup {None},
              back : {"fast", "wait", "spawned"}, tried : BOOLEAN]

\* A client that waits for a leader or talks to one knows which one it is.
Knows == {"register", "vacate", "done", "await"}
ClientKept(c) == client[c].pc \in Knows => client[c].to \in Leaders

\* The leader that leader.lock names holds the flock on that file and the holder is
\* named; one that polls for the flock has only opened the file, and one that has not
\* tried yet has not.
PidOwned ==
  /\ LockNamesHolder
  /\ \A l \in Leaders : AtL(l, "locking") => lead[l].lock \in {"open", "stale"}
  /\ \A l \in Leaders : lead[l].pc \in {"gone", "start"} => lead[l].lock = "no"

Bounds == faults \in 0 .. MaxFaults /\ ahead \in 0 .. MaxAhead

IInv ==
  /\ TypeOK
  /\ PidOwned
  /\ \A c \in Clients : ClientKept(c)

\* As long as nobody goes ahead: one leader process at a time, never beside a client
\* that holds the flock to spawn one.
OneLeader == \A l, m \in Leaders : Alive(l) /\ Alive(m) => l = m

LeaderHolds(l) ==
  /\ ~Alive(l) => lead[l].lock = "no"
  /\ AtL(l, "start") => lead[l].lock = "no"
  /\ lead[l].pc \in {"bind", "bound"} => lead[l].lock \in {"no", "live"}
  /\ AtL(l, "locking") => lead[l].lock = "open"
  /\ lead[l].pc \in {"init", "ready", "closing"} => lead[l].lock = "live"
  /\ lead[l].pc \in {"bound", "locking", "init", "ready"} => sock = l
  /\ lead[l].lock = "live" => pid = l

ClientHolds(c) ==
  /\ client[c].lock = IF client[c].pc \in {"held", "await"} THEN "live" ELSE "no"
  /\ client[c].lock = "live" =>
       /\ \A d \in Clients : client[d].lock = "live" => d = c
       /\ \A l \in Leaders : lead[l].lock # "live"
       /\ \A l \in Leaders : Alive(l) => AtC(c, "await") /\ l = client[c].to

SerialInv ==
  /\ IInv
  /\ OneLeader
  /\ \A l \in Leaders : LeaderHolds(l)
  /\ \A c \in Clients : ClientHolds(c)

\* The inductive invariant.
LeaderInv == IInv /\ (ahead = 0 => SerialInv)

-----------------------------------------------------------------------------
(* Records                                                                 *)

LEMMA TypeParts ==
  ASSUME TypeOK
  PROVE  /\ pid \in Leaders \cup {None, Stale} /\ sock \in Leaders \cup {None, Stale}
         /\ lead \in [Leaders -> LeadRec] /\ client \in [Clients -> ClientRec]
         /\ installed \in Releases /\ Bounds
BY DEF TypeOK, LeadRec, ClientRec, Bounds

LEMMA TypeIntro ==
  ASSUME pid \in Leaders \cup {None, Stale}, sock \in Leaders \cup {None, Stale},
         lead \in [Leaders -> LeadRec], client \in [Clients -> ClientRec],
         installed \in Releases, Bounds
  PROVE  TypeOK
BY DEF TypeOK, LeadRec, ClientRec, Bounds

LEMMA ClientFields ==
  ASSUME IInv, NEW c \in Clients
  PROVE  client[c] \in ClientRec /\ ClientKept(c)
BY TypeParts DEF IInv

LEMMA LeadFields ==
  ASSUME IInv, NEW l \in Leaders
  PROVE  lead[l] \in LeadRec
BY TypeParts DEF IInv

LEMMA GoneType == Gone \in LeadRec /\ Gone.pc = "gone" /\ Gone.lock = "no"
BY DEF Gone, LeadRec, Handles, Starting

LEMMA IdleType ==
  Idle \in ClientRec /\ Idle.pc = "idle" /\ Idle.lock = "no" /\ Idle.to = None
BY DEF Idle, ClientRec, Handles

(* Unlinking the file changes a handle and nothing else. *)
LEMMA UnlinkedClient ==
  ASSUME NEW r \in ClientRec
  PROVE  /\ Unlinked(r) \in ClientRec /\ Unlinked(r).pc = r.pc
         /\ Unlinked(r).to = r.to /\ Unlinked(r).back = r.back
         /\ r.lock = "no" => Unlinked(r).lock = "no"
BY DEF Unlinked, ClientRec, Handles

LEMMA UnlinkedLead ==
  ASSUME NEW r \in LeadRec
  PROVE  /\ Unlinked(r) \in LeadRec /\ Unlinked(r).pc = r.pc
         /\ Unlinked(r).lock # "live"
         /\ r.lock \in {"open", "stale"} => Unlinked(r).lock = "stale"
         /\ r.lock = "no" => Unlinked(r).lock = "no"
BY DEF Unlinked, LeadRec, Handles

(* A failed connection leaves no leader to hold on to, and the handle as it *)
(* was unless the call ends.                                                *)
LEMMA AfterFailureType ==
  ASSUME NEW r \in ClientRec
  PROVE  /\ AfterFailure(r) \in ClientRec
         /\ AfterFailure(r).pc \in {"acquire", "wait", "idle"}
         /\ AfterFailure(r).lock \in {r.lock, "no"}
<1>1. CASE r.back = "fast"
  BY <1>1 DEF AfterFailure, ClientRec
<1>2. CASE r.back = "wait"
  BY <1>2 DEF AfterFailure, ClientRec
<1>3. CASE r.back = "spawned"
  <2>1. AfterFailure(r) = Idle
    BY <1>3 DEF AfterFailure
  <2> QED BY <2>1, IdleType
<1> QED BY <1>1, <1>2, <1>3 DEF ClientRec

-----------------------------------------------------------------------------
(* Steps of one client                                                     *)

\* The record of a client after a step that touches nothing else.
ClientOK(r) == r \in ClientRec /\ (r.pc \in Knows => r.to \in Leaders)

LEMMA ClientMove ==
  ASSUME IInv, NEW c \in Clients, NEW r, ClientOK(r),
         client' = [client EXCEPT ![c] = r],
         UNCHANGED <<pid, sock, lead, installed>>, Bounds'
  PROVE  IInv'
<1>1. /\ client' \in [Clients -> ClientRec] /\ client'[c] = r
      /\ \A d \in Clients \ {c} : client'[d] = client[d]
  BY TypeParts DEF IInv, ClientOK
<1>2. TypeOK'
  BY <1>1, TypeParts, TypeIntro DEF IInv, TypeOK, LeadRec, ClientRec, Bounds
<1>3. PidOwned'
  BY DEF IInv, PidOwned, LockNamesHolder, AtL, Alive
<1>4. ASSUME NEW d \in Clients PROVE ClientKept(d)'
  <2>1. CASE d = c
    BY <1>1, <2>1 DEF ClientOK, ClientKept
  <2>2. CASE d # c
    BY <1>1, <2>2 DEF IInv, ClientKept
  <2> QED BY <2>1, <2>2
<1> QED BY <1>2, <1>3, <1>4 DEF IInv

LEMMA SerialClientMove ==
  ASSUME SerialInv, NEW c \in Clients, NEW r, ClientOK(r),
         client' = [client EXCEPT ![c] = r], r.lock = "no",
         r.pc \notin {"held", "await"},
         UNCHANGED <<pid, sock, lead, installed>>, Bounds'
  PROVE  SerialInv'
<1>1. /\ client'[c] = r /\ \A d \in Clients \ {c} : client'[d] = client[d]
  BY TypeParts DEF SerialInv, IInv
<1>2. IInv'
  BY ClientMove DEF SerialInv
<1>3. OneLeader' /\ \A l \in Leaders : LeaderHolds(l)'
  BY DEF SerialInv, OneLeader, LeaderHolds, Alive, AtL
<1>4. ASSUME NEW d \in Clients PROVE ClientHolds(d)'
  <2>1. CASE d = c
    BY <1>1, <2>1 DEF ClientHolds
  <2>2. CASE d # c
    BY <1>1, <2>2 DEF SerialInv, ClientHolds, Alive, AtC
  <2> QED BY <2>1, <2>2
<1> QED BY <1>2, <1>3, <1>4 DEF SerialInv

\* What a step of one client does when it neither takes the flock nor spawns.
PlainStep(c) ==
  \E r : /\ ClientOK(r) /\ client' = [client EXCEPT ![c] = r]
         /\ r.lock \in {client[c].lock, "no"}
         /\ r.pc \notin {"held", "await"}
         /\ client[c].pc \in {"held", "await"} => r.lock = "no"
         /\ UNCHANGED <<pid, sock, lead, installed>> /\ Bounds'

LEMMA PlainInv ==
  ASSUME IInv, NEW c \in Clients, PlainStep(c)
  PROVE  IInv' /\ (SerialInv => SerialInv')
<1>1. PICK r : /\ ClientOK(r) /\ client' = [client EXCEPT ![c] = r]
               /\ r.lock \in {client[c].lock, "no"}
               /\ r.pc \notin {"held", "await"}
               /\ client[c].pc \in {"held", "await"} => r.lock = "no"
               /\ UNCHANGED <<pid, sock, lead, installed>> /\ Bounds'
  BY DEF PlainStep
<1>2. SerialInv => r.lock = "no"
  BY <1>1 DEF SerialInv, ClientHolds
<1> QED BY <1>1, <1>2, ClientMove, SerialClientMove

LEMMA FaultsBound ==
  ASSUME IInv
  PROVE  /\ Bounds /\ (UNCHANGED <<faults, ahead>> => Bounds')
         /\ faults > 0 /\ faults' = faults - 1 /\ UNCHANGED ahead => Bounds'
BY LeaderAssumption DEF IInv, TypeOK, Bounds

(* A step that goes ahead of a leader is counted; otherwise nothing is. *)
LEMMA AheadBound ==
  ASSUME IInv, NEW P \in BOOLEAN, GoesAhead(P)
  PROVE  /\ UNCHANGED faults => Bounds'
         /\ faults > 0 /\ faults' = faults - 1 => Bounds'
         /\ ahead' = 0 => ~P /\ ahead = 0
<1>1. ahead \in 0 .. MaxAhead /\ faults \in 0 .. MaxFaults /\ MaxAhead \in Nat /\ MaxFaults \in Nat
  BY LeaderAssumption DEF IInv, TypeOK
<1>2. CASE P
  BY <1>1, <1>2 DEF GoesAhead, Bounds
<1>3. CASE ~P
  BY <1>1, <1>3 DEF GoesAhead, Bounds
<1> QED BY <1>2, <1>3

LEMMA PlainSteps ==
  ASSUME IInv, NEW c \in Clients,
         \/ Begin(c) \/ Probe(c) \/ Dial(c) \/ Await(c) \/ WaitPoll(c)
         \/ WaitTimeout(c) \/ Lost(c) \/ Kill(c)
  PROVE  PlainStep(c)
<1>1. /\ client[c] \in ClientRec /\ sock \in Leaders \cup {None, Stale}
      /\ client \in [Clients -> ClientRec] /\ (UNCHANGED <<faults, ahead>> => Bounds')
  BY ClientFields, FaultsBound, TypeParts DEF IInv
<1> USE DEF AtC, GotoC
<1>2. CASE Begin(c)
  <2> DEFINE r == [client[c] EXCEPT !.pc = "probe"]
  <2>1. ClientOK(r) /\ r.lock = client[c].lock /\ r.pc = "probe" /\ client[c].pc = "idle"
    BY <1>1, <1>2 DEF Begin, ClientOK, ClientRec, Knows
  <2>2. client' = [client EXCEPT ![c] = r]
    BY <1>2 DEF Begin
  <2> HIDE DEF r
  <2> QED BY <1>1, <1>2, <2>1, <2>2 DEF Begin, PlainStep
<1>3. CASE Probe(c)
  <2>1. CASE sock # None /\ pid # Stale
    <3> DEFINE r == [client[c] EXCEPT !.pc = "connect", !.back = "fast"]
    <3>1. ClientOK(r) /\ r.lock = client[c].lock /\ r.pc = "connect" /\ client[c].pc = "probe"
      BY <1>1, <1>3 DEF Probe, ClientOK, ClientRec, Knows
    <3>2. client' = [client EXCEPT ![c] = r]
      BY <1>3, <2>1 DEF Probe
    <3> HIDE DEF r
    <3> QED BY <1>1, <1>3, <3>1, <3>2 DEF Probe, PlainStep
  <2>2. CASE ~(sock # None /\ pid # Stale)
    <3> DEFINE r == [client[c] EXCEPT !.pc = "acquire"]
    <3>1. ClientOK(r) /\ r.lock = client[c].lock /\ r.pc = "acquire" /\ client[c].pc = "probe"
      BY <1>1, <1>3 DEF Probe, ClientOK, ClientRec, Knows
    <3>2. client' = [client EXCEPT ![c] = r]
      BY <1>3, <2>2 DEF Probe
    <3> HIDE DEF r
    <3> QED BY <1>1, <1>3, <3>1, <3>2 DEF Probe, PlainStep
  <2> QED BY <2>1, <2>2
<1>4. CASE Dial(c)
  <2>1. CASE Listening(sock)
    <3> DEFINE r == [client[c] EXCEPT !.pc = "register", !.to = sock]
    <3>1. ClientOK(r) /\ r.lock = client[c].lock /\ r.pc = "register" /\ client[c].pc = "connect"
      BY <1>1, <1>4, <2>1 DEF Dial, Listening, ClientOK, ClientRec, Knows
    <3>2. client' = [client EXCEPT ![c] = r]
      BY <1>4, <2>1 DEF Dial
    <3> HIDE DEF r
    <3> QED BY <1>1, <1>4, <3>1, <3>2 DEF Dial, PlainStep
  <2>2. CASE ~Listening(sock)
    <3> DEFINE r == AfterFailure(client[c])
    <3>1. ClientOK(r) /\ r.lock \in {client[c].lock, "no"} /\ r.pc \in {"acquire", "wait", "idle"}
      BY <1>1, AfterFailureType DEF ClientOK, Knows
    <3>2. client' = [client EXCEPT ![c] = r] /\ client[c].pc = "connect"
      BY <1>4, <2>2 DEF Dial
    <3> HIDE DEF r
    <3> QED BY <1>1, <1>4, <3>1, <3>2 DEF Dial, PlainStep
  <2> QED BY <2>1, <2>2
<1>5. CASE Await(c)
  <2> DEFINE r == [client[c] EXCEPT !.pc = "connect", !.back = "spawned", !.lock = "no",
                                    !.to = None]
  <2>1. ClientOK(r) /\ r.lock = "no" /\ r.pc = "connect"
    BY <1>1, <1>5 DEF ClientOK, ClientRec, Knows, Handles
  <2>2. client' = [client EXCEPT ![c] = r]
    BY <1>5 DEF Await
  <2> HIDE DEF r
  <2> QED BY <1>1, <1>5, <2>1, <2>2 DEF Await, PlainStep
<1>6. CASE WaitPoll(c)
  <2> DEFINE r == [client[c] EXCEPT !.pc = "connect", !.back = "wait"]
  <2>1. ClientOK(r) /\ r.lock = client[c].lock /\ r.pc = "connect" /\ client[c].pc = "wait"
    BY <1>1, <1>6 DEF WaitPoll, ClientOK, ClientRec, Knows
  <2>2. client' = [client EXCEPT ![c] = r]
    BY <1>6 DEF WaitPoll
  <2> HIDE DEF r
  <2> QED BY <1>1, <1>6, <2>1, <2>2 DEF WaitPoll, PlainStep
<1>7. CASE WaitTimeout(c)
  <2> DEFINE r == IF client[c].tried THEN Idle ELSE [client[c] EXCEPT !.pc = "acquire"]
  <2>1. CASE client[c].tried
    BY <1>1, <1>7, <2>1, IdleType DEF WaitTimeout, PlainStep, ClientOK, Knows
  <2>2. CASE ~client[c].tried
    <3> DEFINE s == [client[c] EXCEPT !.pc = "acquire"]
    <3>1. ClientOK(s) /\ s.lock = client[c].lock /\ s.pc = "acquire" /\ client[c].pc = "wait"
      BY <1>1, <1>7 DEF WaitTimeout, ClientOK, ClientRec, Knows
    <3>2. client' = [client EXCEPT ![c] = s]
      BY <1>7, <2>2 DEF WaitTimeout
    <3> HIDE DEF s
    <3> QED BY <1>1, <1>7, <3>1, <3>2 DEF WaitTimeout, PlainStep
  <2> QED BY <2>1, <2>2
<1>8. ASSUME client' = [client EXCEPT ![c] = Idle],
             UNCHANGED <<pid, sock, lead, installed>>, Bounds'
      PROVE  PlainStep(c)
  BY <1>8, IdleType DEF PlainStep, ClientOK, Knows
<1>9. CASE Lost(c)
  BY <1>1, <1>8, <1>9 DEF Lost
<1>10. CASE Kill(c)
  BY <1>8, <1>10, FaultsBound DEF Kill
<1> QED BY <1>2, <1>3, <1>4, <1>5, <1>6, <1>7, <1>9, <1>10

(* Register: an error, a leader to be replaced, or the end of the call. *)
LEMMA RegisterInv ==
  ASSUME IInv, NEW c \in Clients, Register(c) \/ RegisterTimeout(c)
  PROVE  IInv' /\ (SerialInv => SerialInv')
<1> DEFINE l == client[c].to
           q == client[c]
<1>1. /\ q \in ClientRec /\ client[c].pc = "register" /\ l \in Leaders
      /\ UNCHANGED <<pid, sock, lead, installed>> /\ Bounds'
  BY ClientFields, FaultsBound
  DEF IInv, Register, RegisterTimeout, AtC, ClientKept, Knows
<1>2. ASSUME NEW r, ClientOK(r), r.lock \in {q.lock, "no"}, r.pc \notin {"held", "await"},
             client' = [client EXCEPT ![c] = r]
      PROVE  IInv' /\ (SerialInv => SerialInv')
  <2>1. PlainStep(c)
    BY <1>1, <1>2 DEF PlainStep
  <2> QED BY <2>1, PlainInv
<1>3. CASE client' = [client EXCEPT ![c] = AfterFailure(@)]
  <2> DEFINE r == AfterFailure(q)
  <2>1. /\ ClientOK(r) /\ r.lock \in {q.lock, "no"} /\ r.pc \in {"acquire", "wait", "idle"}
        /\ client' = [client EXCEPT ![c] = r]
    BY <1>1, <1>3, AfterFailureType DEF ClientOK, Knows
  <2> HIDE DEF r, q
  <2> QED BY <1>2, <2>1
<1>4. CASE client' = [client EXCEPT ![c] = [@ EXCEPT !.pc = "acquire", !.to = None]]
  <2> DEFINE r == [q EXCEPT !.pc = "acquire", !.to = None]
  <2>1. /\ ClientOK(r) /\ r.lock = q.lock /\ r.pc = "acquire"
        /\ client' = [client EXCEPT ![c] = r]
    BY <1>1, <1>4 DEF ClientOK, ClientRec, Knows
  <2> HIDE DEF r, q
  <2> QED BY <1>2, <2>1
<1>5. ASSUME NEW s \in {"vacate", "done"},
             client' = [client EXCEPT ![c] = [@ EXCEPT !.pc = s]]
      PROVE  IInv' /\ (SerialInv => SerialInv')
  <2> DEFINE r == [q EXCEPT !.pc = s]
  <2>1. /\ ClientOK(r) /\ r.lock = q.lock /\ r.pc = s
        /\ client' = [client EXCEPT ![c] = r]
    BY <1>1, <1>5 DEF ClientOK, ClientRec, Knows
  <2> HIDE DEF r, q
  <2> QED BY <1>2, <1>5, <2>1
<1>6. CASE RegisterTimeout(c)
  <2>1. CASE client[c].back = "fast"
    BY <1>3, <1>6, <2>1 DEF RegisterTimeout
  <2>2. CASE client[c].back # "fast"
    <3>1. client' = [client EXCEPT ![c] = Idle] /\ ClientOK(Idle)
      BY <1>6, <2>2, IdleType DEF RegisterTimeout, ClientOK, Knows
    <3> QED BY <1>2, <3>1, IdleType
  <2> QED BY <2>1, <2>2
<1>7. CASE Register(c)
  <2>1. CASE lead[l].pc # "ready"
    BY <1>3, <1>7, <2>1 DEF Register
  <2>2. CASE lead[l].pc = "ready" /\ Older(c) /\ client[c].back = "fast"
    BY <1>4, <1>7, <2>2 DEF Register
  <2>3. CASE lead[l].pc = "ready" /\ Older(c) /\ client[c].back = "wait"
    BY <1>5, <1>7, <2>3 DEF Register
  <2>4. CASE lead[l].pc = "ready" /\ ~(Older(c) /\ client[c].back \in {"fast", "wait"})
    BY <1>5, <1>7, <2>4 DEF Register
  <2> QED BY <2>1, <2>2, <2>3, <2>4
<1> QED BY <1>6, <1>7

(* The request to vacate reaches the leader or not; no file or handle changes. *)
LEMMA VacateInv ==
  ASSUME IInv, NEW c \in Clients, Vacate(c)
  PROVE  IInv' /\ (SerialInv => SerialInv')
<1> DEFINE l == client[c].to
           r == [client[c] EXCEPT !.pc = "acquire", !.to = None]
<1>1. /\ client[c] \in ClientRec /\ client[c].pc = "vacate" /\ l \in Leaders
      /\ client \in [Clients -> ClientRec] /\ lead \in [Leaders -> LeadRec]
      /\ client' = [client EXCEPT ![c] = r]
      /\ \/ UNCHANGED lead
         \/ lead' = [lead EXCEPT ![l].asked = @ \/ AtL(l, "ready")]
      /\ UNCHANGED <<pid, sock, installed>> /\ Bounds'
  BY ClientFields, FaultsBound, TypeParts DEF IInv, Vacate, AtC, ClientKept, Knows
<1>2. r \in ClientRec /\ r.lock = client[c].lock /\ r.pc = "acquire"
  BY <1>1 DEF ClientRec
<1> HIDE DEF r
<1>3. lead[l].asked \in BOOLEAN
  BY <1>1 DEF LeadRec
<1> HIDE DEF l
<1>4. /\ lead' \in [Leaders -> LeadRec]
      /\ \A m \in Leaders : /\ lead'[m].pc = lead[m].pc /\ lead'[m].lock = lead[m].lock
  <2>1. CASE UNCHANGED lead
    BY <1>1, <2>1
  <2>2. CASE lead' = [lead EXCEPT ![l].asked = @ \/ AtL(l, "ready")]
    <3> DEFINE b == lead[l].asked \/ AtL(l, "ready")
    <3>1. b \in BOOLEAN /\ lead' = [lead EXCEPT ![l].asked = b]
      BY <1>3, <2>2
    <3> HIDE DEF b
    <3> QED BY <1>1, <3>1 DEF LeadRec
  <2> QED BY <1>1, <2>1, <2>2
<1>5. /\ client' \in [Clients -> ClientRec] /\ client'[c] = r
      /\ \A d \in Clients \ {c} : client'[d] = client[d]
  BY <1>1, <1>2
<1>6. TypeOK'
  BY <1>1, <1>4, <1>5, TypeParts DEF IInv, TypeOK, LeadRec, ClientRec, Bounds
<1>7. PidOwned'
  BY <1>1, <1>4 DEF IInv, PidOwned, LockNamesHolder, AtL
<1>8. ASSUME NEW d \in Clients PROVE ClientKept(d)'
  BY <1>2, <1>5 DEF IInv, ClientKept, Knows
<1>9. IInv'
  BY <1>6, <1>7, <1>8 DEF IInv
<1>10. ASSUME SerialInv PROVE SerialInv'
  <2>1. OneLeader' /\ \A m \in Leaders : LeaderHolds(m)'
    BY <1>1, <1>4, <1>10 DEF SerialInv, OneLeader, LeaderHolds, Alive, AtL
  <2>2. r.lock = "no"
    BY <1>1, <1>2, <1>10 DEF SerialInv, ClientHolds
  <2>3. ASSUME NEW d \in Clients PROVE ClientHolds(d)'
    <3>1. CASE d = c
      BY <1>2, <1>5, <2>2, <3>1 DEF ClientHolds
    <3>2. CASE d # c
      BY <1>4, <1>5, <1>10, <2>2, <3>2 DEF SerialInv, ClientHolds, Alive, AtC
    <3> QED BY <3>1, <3>2
  <2> QED BY <1>9, <2>1, <2>3 DEF SerialInv
<1> QED BY <1>9, <1>10

(* Taking the flock: unless the step goes ahead, nobody else is starting. *)
LEMMA AcquireInv ==
  ASSUME IInv, NEW c \in Clients, Acquire(c)
  PROVE  IInv' /\ (ahead' = 0 /\ SerialInv => SerialInv')
<1>1. /\ client[c] \in ClientRec /\ client[c].pc = "acquire"
      /\ Bounds /\ client \in [Clients -> ClientRec]
      /\ UNCHANGED <<pid, sock, lead, faults, installed>>
      /\ Bounds' /\ (ahead' = 0 => ~(Free /\ ~NoneStarts))
  BY ClientFields, AheadBound, FaultsBound, TypeParts DEF IInv, Acquire, AtC
<1>2. CASE Free
  <2> DEFINE r == [client[c] EXCEPT !.pc = "held", !.lock = "live"]
  <2>1. ClientOK(r) /\ r.lock = "live" /\ r.pc = "held"
    BY <1>1 DEF ClientOK, ClientRec, Knows, Handles
  <2>2. client' = [client EXCEPT ![c] = r]
    BY <1>2 DEF Acquire
  <2> HIDE DEF r
  <2>3. IInv'
    BY <1>1, <2>1, <2>2, ClientMove
  <2>4. ASSUME ahead' = 0, SerialInv PROVE SerialInv'
    <3>1. NoneStarts
      BY <1>1, <1>2, <2>4
    <3>2. ASSUME NEW l \in Leaders PROVE ~Alive(l)
      <4>1. lead[l] \in LeadRec /\ LeaderHolds(l) /\ lead[l].lock # "live"
        BY <1>2, <2>4, LeadFields DEF SerialInv, Free
      <4> QED BY <3>1, <4>1 DEF LeaderHolds, NoneStarts, Alive, LeadRec
    <3>3. /\ client'[c] = r /\ \A d \in Clients \ {c} : client'[d] = client[d]
      BY <1>1, <2>2
    <3>4. OneLeader' /\ \A l \in Leaders : LeaderHolds(l)'
      BY <1>1, <2>4 DEF SerialInv, OneLeader, LeaderHolds, Alive, AtL
    <3>5. ASSUME NEW d \in Clients PROVE ClientHolds(d)'
      <4>1. CASE d = c
        BY <1>1, <1>2, <2>1, <3>2, <3>3, <4>1 DEF ClientHolds, Free, Alive, AtC
      <4>2. CASE d # c
        BY <1>1, <1>2, <2>4, <3>2, <3>3, <4>2 DEF SerialInv, ClientHolds, Free, Alive, AtC
      <4> QED BY <4>1, <4>2
    <3> QED BY <2>3, <3>4, <3>5 DEF SerialInv
  <2> QED BY <2>3, <2>4
<1>3. CASE ~Free
  <2> DEFINE r == [client[c] EXCEPT !.pc = "wait", !.tried = FALSE]
  <2>1. ClientOK(r) /\ r.lock = client[c].lock /\ r.pc = "wait"
    BY <1>1 DEF ClientOK, ClientRec, Knows
  <2>2. client' = [client EXCEPT ![c] = r]
    BY <1>3 DEF Acquire
  <2> HIDE DEF r
  <2>3. PlainStep(c)
    BY <1>1, <2>1, <2>2 DEF PlainStep
  <2> QED BY <2>3, PlainInv
<1> QED BY <1>2, <1>3

LEMMA SpawnInv ==
  ASSUME IInv, NEW c \in Clients, Spawn(c)
  PROVE  IInv' /\ (SerialInv => SerialInv')
<1>1. PICK l \in Leaders :
        /\ client[c].pc = "held" /\ Unused(l) /\ sock' = None
        /\ lead' = [lead EXCEPT ![l] = [Gone EXCEPT !.pc = "start", !.ver = SpawnedVersion(c)]]
        /\ client' = [client EXCEPT ![c].pc = "await", ![c].to = l]
        /\ UNCHANGED <<pid, faults, installed, ahead>>
  BY DEF Spawn, AtC
<1>2. /\ client[c] \in ClientRec /\ client \in [Clients -> ClientRec]
      /\ lead \in [Leaders -> LeadRec] /\ pid \in Leaders \cup {None, Stale} /\ installed \in Releases
  BY ClientFields, TypeParts DEF IInv
<1> DEFINE r == [client[c] EXCEPT !.pc = "await", !.to = l]
           v == SpawnedVersion(c)
           s == [Gone EXCEPT !.pc = "start", !.ver = v]
<1>3. r \in ClientRec /\ r.lock = client[c].lock /\ r.pc = "await" /\ r.to = l
  BY <1>2 DEF ClientRec
<1>4. v \in Nat
  BY <1>2, LeaderAssumption DEF SpawnedVersion
<1> HIDE DEF v
<1>5. s \in LeadRec /\ s.pc = "start" /\ s.lock = "no"
  BY <1>4 DEF Gone, LeadRec, Starting, Handles
<1>6. client' = [client EXCEPT ![c] = r] /\ lead' = [lead EXCEPT ![l] = s]
  BY <1>1 DEF v
<1> HIDE DEF r, s
<1>7. /\ client' \in [Clients -> ClientRec] /\ client'[c] = r
      /\ \A d \in Clients \ {c} : client'[d] = client[d]
      /\ lead' \in [Leaders -> LeadRec] /\ lead'[l] = s
      /\ \A m \in Leaders \ {l} : lead'[m] = lead[m]
  BY <1>2, <1>3, <1>5, <1>6
<1>8. TypeOK'
  BY <1>1, <1>7, TypeParts DEF IInv, TypeOK, LeadRec, ClientRec, Bounds
<1>9. PidOwned'
  BY <1>1, <1>2, <1>5, <1>7 DEF IInv, PidOwned, LockNamesHolder, AtL, Alive, Unused
<1>10. ASSUME NEW d \in Clients PROVE ClientKept(d)'
  <2>1. CASE d = c
    BY <1>3, <1>7, <2>1 DEF ClientKept, Knows
  <2>2. CASE d # c
    BY <1>1, <1>7, <2>2 DEF IInv, ClientKept
  <2> QED BY <2>1, <2>2
<1>11. IInv'
  BY <1>8, <1>9, <1>10 DEF IInv
<1>12. ASSUME SerialInv PROVE SerialInv'
  <2>1. /\ client[c].lock = "live" /\ \A m \in Leaders : ~Alive(m)
        /\ \A d \in Clients : client[d].lock = "live" => d = c
        /\ \A m \in Leaders : lead[m].lock = "no"
    BY <1>1, <1>12 DEF SerialInv, ClientHolds, AtC, LeaderHolds
  <2>2. OneLeader'
    BY <1>7, <2>1 DEF OneLeader, Alive
  <2>3. ASSUME NEW m \in Leaders PROVE LeaderHolds(m)'
    <3>1. CASE m = l
      BY <1>5, <1>7, <3>1 DEF LeaderHolds, Alive, AtL
    <3>2. CASE m # l
      BY <1>7, <2>1, <3>2 DEF LeaderHolds, Alive, AtL
    <3> QED BY <3>1, <3>2
  <2>4. ASSUME NEW d \in Clients PROVE ClientHolds(d)'
    <3>1. CASE d = c
      BY <1>3, <1>5, <1>7, <2>1, <3>1 DEF ClientHolds, Alive, AtC
    <3>2. CASE d # c
      <4>1. client[d].lock # "live" /\ ClientHolds(d)
        BY <1>12, <2>1, <3>2 DEF SerialInv
      <4> QED BY <1>7, <3>2, <4>1 DEF ClientHolds
    <3> QED BY <3>1, <3>2
  <2> QED BY <1>11, <2>2, <2>3, <2>4 DEF SerialInv
<1> QED BY <1>11, <1>12

-----------------------------------------------------------------------------
(* Dropping a lock with its files                                          *)

\* Both files go, the leaders of G and the clients of S end, and the handles of all
\* the others are on an unlinked inode from now on.
Drops(G, S) ==
  /\ pid' = None /\ sock' = None /\ UNCHANGED installed /\ Bounds'
  /\ lead' = [m \in Leaders |-> IF m \in G THEN Gone ELSE Unlinked(lead[m])]
  /\ client' = [d \in Clients |-> IF d \in S THEN Idle ELSE Unlinked(client[d])]

LEMMA DropsInv ==
  ASSUME IInv, NEW G, NEW S, Drops(G, S)
  PROVE  IInv'
<1>1. lead \in [Leaders -> LeadRec] /\ client \in [Clients -> ClientRec]
  BY TypeParts DEF IInv
<1>2. ASSUME NEW m \in Leaders
      PROVE  /\ lead'[m] \in LeadRec /\ (lead'[m].pc # "gone" => lead'[m].pc = lead[m].pc)
             /\ lead'[m].lock # "live"
             /\ lead'[m].pc \in {"gone", "start"} => lead'[m].lock = "no"
             /\ lead'[m].pc = "locking" => lead'[m].lock \in {"open", "stale"}
  <2>1. lead[m] \in LeadRec /\ lead'[m] = IF m \in G THEN Gone ELSE Unlinked(lead[m])
    BY <1>1 DEF Drops
  <2>2. /\ lead[m].pc = "locking" => lead[m].lock \in {"open", "stale"}
        /\ lead[m].pc \in {"gone", "start"} => lead[m].lock = "no"
    BY DEF IInv, PidOwned, AtL
  <2> QED BY <2>1, <2>2, GoneType, UnlinkedLead
<1>3. ASSUME NEW d \in Clients
      PROVE  /\ client'[d] \in ClientRec
             /\ \/ client'[d] = Idle
                \/ /\ client'[d].pc = client[d].pc /\ client'[d].to = client[d].to
                   /\ client'[d].back = client[d].back
  <2>1. client[d] \in ClientRec /\ client'[d] = IF d \in S THEN Idle ELSE Unlinked(client[d])
    BY <1>1 DEF Drops
  <2> QED BY <2>1, IdleType, UnlinkedClient
<1>4. lead' \in [Leaders -> LeadRec] /\ client' \in [Clients -> ClientRec]
  BY <1>2, <1>3 DEF Drops
<1>5. TypeOK'
  BY <1>4, TypeParts DEF Drops, IInv, TypeOK, LeadRec, ClientRec, Bounds
<1>6. PidOwned'
  BY <1>2, LeaderAssumption DEF PidOwned, LockNamesHolder, AtL, Drops
<1>7. ASSUME NEW d \in Clients PROVE ClientKept(d)'
  <2>1. CASE client'[d] = Idle
    BY <2>1, IdleType DEF ClientKept, Knows
  <2>2. CASE client'[d] # Idle
    <3>1. /\ client'[d].pc = client[d].pc /\ client'[d].to = client[d].to
          /\ client'[d].back = client[d].back /\ ClientKept(d)
      BY <1>3, <2>2 DEF IInv
    <3> QED BY <1>2, <3>1 DEF ClientKept
  <2> QED BY <2>1, <2>2
<1> QED BY <1>5, <1>6, <1>7 DEF IInv

(* As long as nobody goes ahead, only the one that ends has the file open. *)
LEMMA SerialDrops ==
  ASSUME SerialInv, NEW G, NEW S, Drops(G, S),
         \A m \in Leaders : m \notin G => ~Alive(m),
         \A d \in Clients : d \notin S => client[d].lock = "no"
  PROVE  SerialInv'
<1>1. IInv' /\ lead \in [Leaders -> LeadRec] /\ client \in [Clients -> ClientRec]
  BY DropsInv, TypeParts DEF SerialInv, IInv
<1>2. ASSUME NEW m \in Leaders PROVE lead'[m].pc = "gone" /\ lead'[m].lock = "no"
  <2>1. lead[m] \in LeadRec /\ lead'[m] = IF m \in G THEN Gone ELSE Unlinked(lead[m])
    BY <1>1 DEF Drops
  <2>2. m \notin G => lead[m].pc = "gone" /\ lead[m].lock = "no"
    BY DEF SerialInv, LeaderHolds, Alive
  <2> QED BY <2>1, <2>2, GoneType, UnlinkedLead
<1>3. ASSUME NEW d \in Clients PROVE client'[d].lock = "no" /\ client'[d].pc \notin {"held", "await"}
  <2>1. client[d] \in ClientRec /\ client'[d] = IF d \in S THEN Idle ELSE Unlinked(client[d])
    BY <1>1 DEF Drops
  <2>2. d \notin S => client[d].lock = "no" /\ client[d].pc \notin {"held", "await"}
    BY DEF SerialInv, ClientHolds
  <2> QED BY <2>1, <2>2, IdleType, UnlinkedClient
<1>4. OneLeader' /\ \A m \in Leaders : LeaderHolds(m)'
  BY <1>2 DEF OneLeader, LeaderHolds, Alive, AtL
<1>5. \A d \in Clients : ClientHolds(d)'
  BY <1>3 DEF ClientHolds
<1> QED BY <1>1, <1>4, <1>5 DEF SerialInv

LEMMA AwaitTimeoutInv ==
  ASSUME IInv, NEW c \in Clients, AwaitTimeout(c)
  PROVE  IInv' /\ (ahead' = 0 /\ SerialInv => SerialInv')
<1>1. Drops({}, {c}) /\ (ahead' = 0 => ~Alive(client[c].to))
  BY AheadBound DEF AwaitTimeout, DropFiles, Drops
<1>2. ASSUME ahead' = 0, SerialInv PROVE SerialInv'
  <2>1. client[c].pc = "await" /\ ~Alive(client[c].to)
    BY <1>1, <1>2 DEF AwaitTimeout, AtC
  <2>2. client[c].lock = "live" /\ \A m \in Leaders : ~Alive(m)
    BY <1>2, <2>1 DEF SerialInv, ClientHolds
  <2>3. ASSUME NEW d \in Clients, d # c PROVE client[d].lock = "no"
    BY <1>2, <2>2, <2>3 DEF SerialInv, ClientHolds
  <2> QED BY <1>1, <1>2, <2>2, <2>3, SerialDrops
<1> QED BY <1>1, <1>2, DropsInv

(* A running leader of a serial run: no other leader runs, and a client holds *)
(* the flock only while it waits for this one.                                *)
LEMMA ExitInv ==
  ASSUME IInv, NEW l \in Leaders, Exit(l)
  PROVE  IInv' /\ (SerialInv => SerialInv')
<1>1. Drops({l}, {})
  BY FaultsBound DEF Exit, DropFiles, Drops
<1>2. ASSUME SerialInv PROVE SerialInv'
  <2>1. Alive(l) /\ lead[l].lock = "live"
    BY <1>2 DEF Exit, AtL, Alive, SerialInv, LeaderHolds
  <2>2. \A m \in Leaders : m \notin {l} => ~Alive(m)
    BY <1>2, <2>1 DEF SerialInv, OneLeader
  <2>3. \A d \in Clients : client[d].lock = "no"
    BY <1>2, <2>1 DEF SerialInv, ClientHolds
  <2> QED BY <1>1, <1>2, <2>2, <2>3, SerialDrops
<1> QED BY <1>1, <1>2, DropsInv

-----------------------------------------------------------------------------
(* Steps of one leader                                                     *)

LeadStep(l, r) ==
  /\ lead' = [lead EXCEPT ![l] = r] /\ r \in LeadRec
  /\ UNCHANGED <<client, installed>> /\ Bounds'
  /\ sock' \in {sock, l, None, Left(sock, l)} /\ pid' \in {pid, l, Left(pid, l)}
  /\ Alive(l)
  /\ pid' = l <=> r.lock = "live"
  /\ r.lock = "live" => lead[l].lock = "live" \/ Free
  /\ r.pc = "locking" => r.lock \in {"open", "stale"}
  /\ r.pc \in {"gone", "start"} => r.lock = "no"

LEMMA LeadStepInv ==
  ASSUME IInv, NEW l \in Leaders, NEW r, LeadStep(l, r)
  PROVE  IInv'
<1>1. /\ lead' \in [Leaders -> LeadRec] /\ lead'[l] = r
      /\ \A m \in Leaders \ {l} : lead'[m] = lead[m]
      /\ pid' \in Leaders \cup {None, Stale} /\ sock' \in Leaders \cup {None, Stale}
  BY TypeParts DEF IInv, LeadStep, Left
<1>2. TypeOK'
  BY <1>1, TypeParts DEF LeadStep, IInv, TypeOK, LeadRec, ClientRec, Bounds
<1>3. PidOwned'
  <2>1. \A m \in Leaders : /\ AtL(m, "locking")' => lead'[m].lock \in {"open", "stale"}
                           /\ lead'[m].pc \in {"gone", "start"} => lead'[m].lock = "no"
    BY <1>1 DEF IInv, LeadStep, PidOwned, AtL
  <2>2. ASSUME NEW m \in Leaders, m # l PROVE lead'[m].lock = "live" <=> pid' = m
    <3>1. /\ lead'[m] = lead[m] /\ (lead[m].lock = "live" <=> pid = m)
          /\ (lead[l].lock = "live" <=> pid = l) /\ Stale \notin Leaders
      BY <1>1, <2>2, LeaderAssumption DEF IInv, PidOwned, LockNamesHolder
    <3>2. CASE pid' = l
      BY <2>2, <3>1, <3>2 DEF LeadStep, Free
    <3>3. CASE pid' # l
      BY <2>2, <3>1, <3>3 DEF LeadStep, Left
    <3> QED BY <3>2, <3>3
  <2>3. lead'[l].lock = "live" <=> pid' = l
    BY <1>1 DEF LeadStep
  <2> QED BY <2>1, <2>2, <2>3 DEF PidOwned, LockNamesHolder
<1>4. ASSUME NEW d \in Clients PROVE ClientKept(d)'
  BY DEF IInv, LeadStep, ClientKept
<1> QED BY <1>2, <1>3, <1>4 DEF IInv

LEMMA SerialLeadStep ==
  ASSUME SerialInv, NEW l \in Leaders, NEW r, LeadStep(l, r), LeaderHolds(l)'
  PROVE  SerialInv'
<1>1. /\ IInv' /\ lead'[l] = r /\ client' = client /\ Alive(l)
      /\ \A m \in Leaders \ {l} : lead'[m] = lead[m]
  BY LeadStepInv, TypeParts DEF SerialInv, IInv, LeadStep
<1>2. ASSUME NEW m \in Leaders \ {l}
      PROVE  lead[m].pc = "gone" /\ lead[m].lock = "no"
  BY <1>1 DEF SerialInv, OneLeader, LeaderHolds, Alive
<1>3. OneLeader'
  BY <1>1, <1>2 DEF OneLeader, Alive
<1>4. ASSUME NEW m \in Leaders PROVE LeaderHolds(m)'
  <2>1. CASE m = l
    BY <2>1
  <2>2. CASE m # l
    BY <1>1, <1>2, <2>2 DEF LeaderHolds, Alive, AtL
  <2> QED BY <2>1, <2>2
<1>5. ASSUME NEW d \in Clients PROVE ClientHolds(d)'
  <2>1. ClientHolds(d)
    BY DEF SerialInv
  <2>2. CASE client[d].lock = "live"
    BY <1>1, <1>2, <2>1, <2>2 DEF ClientHolds, LeadStep, Free, Alive, AtC
  <2>3. CASE client[d].lock # "live"
    BY <1>1, <2>1, <2>3 DEF ClientHolds
  <2> QED BY <2>2, <2>3
<1> QED BY <1>1, <1>3, <1>4, <1>5 DEF SerialInv

LEMMA GoneStep ==
  ASSUME IInv, NEW l \in Leaders, Alive(l), lead' = [lead EXCEPT ![l] = Gone],
         UNCHANGED <<client, installed>>, Bounds',
         pid' \in {pid, Left(pid, l)}, pid' # l, sock' \in {sock, None, Left(sock, l)}
  PROVE  IInv' /\ (SerialInv => SerialInv')
<1>1. LeadStep(l, Gone)
  BY GoneType, LeadFields DEF LeadStep
<1>2. LeaderHolds(l)'
  <2>1. lead'[l] = Gone
    BY TypeParts DEF IInv
  <2> QED BY <2>1, GoneType DEF LeaderHolds, Alive, AtL
<1> QED BY <1>1, <1>2, GoneType, LeadStepInv, SerialLeadStep

(* run_leader gives up.  It may hold the flock, on this file or another. *)
LEMMA FailsInv ==
  ASSUME IInv, NEW l \in Leaders, Alive(l), Fails(l),
         UNCHANGED <<faults, installed, ahead>>
  PROVE  IInv'
<1>1. CASE lead[l].lock \in {"live", "dead"}
  <2>1. Drops({l}, {})
    BY <1>1, FaultsBound DEF Fails, DropFiles, Drops
  <2> QED BY <2>1, DropsInv
<1>2. CASE lead[l].lock \notin {"live", "dead"}
  <2>1. pid # l
    BY <1>2 DEF IInv, PidOwned, LockNamesHolder
  <2> QED BY <1>2, <2>1, FaultsBound, GoneStep DEF Fails
<1> QED BY <1>1, <1>2

LEMMA EarlyLockInv ==
  ASSUME IInv, NEW l \in Leaders, EarlyLock(l)
  PROVE  IInv' /\ (SerialInv => SerialInv')
<1>1. /\ lead[l] \in LeadRec /\ lead \in [Leaders -> LeadRec] /\ Alive(l)
      /\ lead[l].pc = "start" /\ UNCHANGED <<sock, client, installed>>
      /\ Bounds' /\ None \notin Leaders
      /\ (lead[l].lock = "live" <=> pid = l)
  BY LeadFields, TypeParts, FaultsBound, LeaderAssumption
  DEF EarlyLock, AtL, Alive, IInv, PidOwned, LockNamesHolder
<1>2. CASE Free
  <2> DEFINE r == [lead[l] EXCEPT !.pc = "bind", !.lock = "live"]
  <2>1. /\ r \in LeadRec /\ r.pc = "bind" /\ r.lock = "live"
    BY <1>1 DEF LeadRec, Starting, Handles
  <2>2. lead' = [lead EXCEPT ![l] = r] /\ pid' = l
    BY <1>2 DEF EarlyLock
  <2> HIDE DEF r
  <2>3. LeadStep(l, r) /\ lead'[l] = r
    BY <1>1, <1>2, <2>1, <2>2 DEF LeadStep
  <2>4. LeaderHolds(l)'
    BY <2>1, <2>2, <2>3 DEF LeaderHolds, Alive, AtL
  <2> QED BY <1>2, <2>3, <2>4, LeadStepInv, SerialLeadStep
<1>3. CASE ~Free /\ sock # None
  <2>1. pid' = pid /\ pid # l
    BY <1>1, <1>3 DEF EarlyLock, IInv, PidOwned
  <2> QED BY <1>1, <1>3, <2>1, GoneStep DEF EarlyLock
<1>4. CASE ~Free /\ sock = None
  <2> DEFINE r == [lead[l] EXCEPT !.pc = "bind"]
  <2>1. /\ r \in LeadRec /\ r.pc = "bind" /\ r.lock = lead[l].lock
    BY <1>1 DEF LeadRec, Starting
  <2>2. lead' = [lead EXCEPT ![l] = r] /\ pid' = pid
    BY <1>4 DEF EarlyLock
  <2> HIDE DEF r
  <2>3. LeadStep(l, r) /\ lead'[l] = r
    BY <1>1, <2>1, <2>2 DEF LeadStep
  <2>4. SerialInv => r.lock = "no"
    BY <1>1, <2>1 DEF SerialInv, LeaderHolds, AtL
  <2>5. SerialInv => LeaderHolds(l)'
    BY <2>1, <2>3, <2>4 DEF LeaderHolds, Alive, AtL
  <2> QED BY <2>3, <2>4, <2>5, LeadStepInv, SerialLeadStep
<1> QED BY <1>2, <1>3, <1>4

LEMMA BindInv ==
  ASSUME IInv, NEW l \in Leaders, Bind(l)
  PROVE  IInv' /\ (SerialInv => SerialInv')
<1>1. /\ lead[l] \in LeadRec /\ lead \in [Leaders -> LeadRec] /\ Alive(l)
      /\ lead[l].pc = "bind" /\ UNCHANGED <<pid, client, installed>>
      /\ Bounds' /\ sock' = l
      /\ (lead[l].lock = "live" <=> pid = l)
  BY LeadFields, TypeParts, FaultsBound, LeaderAssumption
  DEF Bind, AtL, Alive, IInv, PidOwned, LockNamesHolder
<1> DEFINE r == [lead[l] EXCEPT !.pc = "bound"]
<1>2. /\ r \in LeadRec /\ r.pc = "bound" /\ r.lock = lead[l].lock
  BY <1>1 DEF LeadRec, Starting
<1>3. lead' = [lead EXCEPT ![l] = r]
  BY DEF Bind
<1> HIDE DEF r
<1>4. LeadStep(l, r) /\ lead'[l] = r
  BY <1>1, <1>2, <1>3 DEF LeadStep
<1>5. SerialInv => LeaderHolds(l)'
  BY <1>1, <1>2, <1>4 DEF SerialInv, LeaderHolds, Alive, AtL
<1> QED BY <1>2, <1>4, <1>5, LeadStepInv, SerialLeadStep

LEMMA SeeSocketInv ==
  ASSUME IInv, NEW l \in Leaders, SeeSocket(l)
  PROVE  IInv' /\ (SerialInv => SerialInv')
<1>1. /\ lead[l] \in LeadRec /\ lead \in [Leaders -> LeadRec] /\ Alive(l)
      /\ lead[l].pc = "bound" /\ UNCHANGED <<faults, installed>>
      /\ Bounds' /\ None \notin Leaders
      /\ (lead[l].lock = "live" <=> pid = l)
  BY LeadFields, TypeParts, FaultsBound, LeaderAssumption
  DEF SeeSocket, AtL, Alive, IInv, PidOwned, LockNamesHolder
<1>2. CASE sock = None
  <2>1. ~SerialInv
    BY <1>1, <1>2 DEF SerialInv, LeaderHolds
  <2> QED BY <1>1, <1>2, <2>1, FailsInv DEF SeeSocket
<1>3. CASE sock # None /\ lead[l].lock = "no"
  <2> DEFINE r == [lead[l] EXCEPT !.pc = "locking", !.lock = "open"]
  <2>1. /\ r \in LeadRec /\ r.pc = "locking" /\ r.lock = "open"
    BY <1>1 DEF LeadRec, Starting, Handles
  <2>2. lead' = [lead EXCEPT ![l] = r] /\ UNCHANGED <<pid, sock, client>>
    BY <1>3 DEF SeeSocket
  <2> HIDE DEF r
  <2>3. LeadStep(l, r) /\ lead'[l] = r
    BY <1>1, <1>3, <2>1, <2>2 DEF LeadStep
  <2>4. SerialInv => LeaderHolds(l)'
    BY <1>1, <2>1, <2>2, <2>3 DEF SerialInv, LeaderHolds, Alive, AtL
  <2> QED BY <2>1, <2>3, <2>4, LeadStepInv, SerialLeadStep
<1>4. CASE sock # None /\ lead[l].lock # "no"
  <2> DEFINE r == [lead[l] EXCEPT !.pc = "init"]
  <2>1. /\ r \in LeadRec /\ r.pc = "init" /\ r.lock = lead[l].lock
    BY <1>1 DEF LeadRec
  <2>2. lead' = [lead EXCEPT ![l] = r] /\ UNCHANGED <<pid, sock, client>>
    BY <1>4 DEF SeeSocket
  <2> HIDE DEF r
  <2>3. LeadStep(l, r) /\ lead'[l] = r
    BY <1>1, <2>1, <2>2 DEF LeadStep
  <2>4. SerialInv => LeaderHolds(l)'
    BY <1>1, <1>4, <2>1, <2>2, <2>3 DEF SerialInv, LeaderHolds, Alive, AtL
  <2> QED BY <2>1, <2>3, <2>4, LeadStepInv, SerialLeadStep
<1> QED BY <1>2, <1>3, <1>4

LEMMA TakeLockInv ==
  ASSUME IInv, NEW l \in Leaders, TakeLock(l)
  PROVE  IInv' /\ (SerialInv => SerialInv')
<1>1. /\ lead[l] \in LeadRec /\ lead \in [Leaders -> LeadRec] /\ Alive(l)
      /\ lead[l].pc = "locking" /\ UNCHANGED <<faults, installed>>
      /\ Bounds' /\ lead[l].lock \in {"open", "stale"}
      /\ pid # l /\ (lead[l].lock = "open" => \A c \in Clients : client[c].lock # "live")
  BY LeadFields, TypeParts, FaultsBound, LeaderAssumption
  DEF TakeLock, AtL, Alive, IInv, PidOwned, LockNamesHolder
<1>2. CASE lead[l].lock = "open" /\ ~Free
  <2>1. ~SerialInv
    <3>1. PICK m \in Leaders : lead[m].lock = "live"
      BY <1>1, <1>2 DEF Free
    <3> QED BY <1>1, <1>2, <3>1 DEF SerialInv, OneLeader, LeaderHolds
  <2> QED BY <1>1, <1>2, <2>1, FailsInv DEF TakeLock
<1>3. CASE lead[l].lock = "open" /\ Free
  <2> DEFINE r == [lead[l] EXCEPT !.pc = "init", !.lock = "live"]
  <2>1. /\ r \in LeadRec /\ r.pc = "init" /\ r.lock = "live"
    BY <1>1 DEF LeadRec, Handles
  <2>2. lead' = [lead EXCEPT ![l] = r] /\ pid' = l /\ UNCHANGED <<sock, client>>
    BY <1>3 DEF TakeLock
  <2> HIDE DEF r
  <2>3. LeadStep(l, r) /\ lead'[l] = r
    BY <1>1, <1>3, <2>1, <2>2 DEF LeadStep
  <2>4. SerialInv => LeaderHolds(l)'
    BY <1>1, <2>1, <2>2, <2>3 DEF SerialInv, LeaderHolds, Alive, AtL
  <2> QED BY <1>3, <2>3, <2>4, LeadStepInv, SerialLeadStep
<1>4. CASE lead[l].lock # "open"
  <2> DEFINE r == [lead[l] EXCEPT !.pc = "init", !.lock = "dead"]
  <2>1. /\ r \in LeadRec /\ r.pc = "init" /\ r.lock = "dead"
    BY <1>1 DEF LeadRec, Handles
  <2>2. lead' = [lead EXCEPT ![l] = r] /\ pid' = pid /\ UNCHANGED <<sock, client>>
    BY <1>4 DEF TakeLock
  <2> HIDE DEF r
  <2>3. LeadStep(l, r) /\ lead'[l] = r
    BY <1>1, <2>1, <2>2 DEF LeadStep
  <2>4. ~SerialInv
    BY <1>1, <1>4 DEF SerialInv, LeaderHolds, AtL
  <2> QED BY <2>3, <2>4, LeadStepInv
<1> QED BY <1>2, <1>3, <1>4

LEMMA ReadyInv ==
  ASSUME IInv, NEW l \in Leaders, BecomeReady(l) \/ Close(l)
  PROVE  IInv' /\ (SerialInv => SerialInv')
<1>1. /\ lead[l] \in LeadRec /\ lead \in [Leaders -> LeadRec] /\ Alive(l)
      /\ lead[l].pc \in {"init", "ready"} /\ UNCHANGED <<pid, client, installed>>
      /\ Bounds'
      /\ (lead[l].lock = "live" <=> pid = l)
  BY LeadFields, TypeParts, FaultsBound, LeaderAssumption
  DEF BecomeReady, Close, AtL, Alive, IInv, PidOwned, LockNamesHolder
<1>2. CASE BecomeReady(l)
  <2> DEFINE r == [lead[l] EXCEPT !.pc = "ready"]
  <2>1. /\ r \in LeadRec /\ r.pc = "ready" /\ r.lock = lead[l].lock
    BY <1>1 DEF LeadRec
  <2>2. lead' = [lead EXCEPT ![l] = r] /\ UNCHANGED sock /\ lead[l].pc = "init"
    BY <1>2 DEF BecomeReady, AtL
  <2> HIDE DEF r
  <2>3. LeadStep(l, r) /\ lead'[l] = r
    BY <1>1, <2>1, <2>2 DEF LeadStep
  <2>4. SerialInv => LeaderHolds(l)'
    BY <1>1, <2>1, <2>2, <2>3 DEF SerialInv, LeaderHolds, Alive, AtL
  <2> QED BY <2>1, <2>3, <2>4, LeadStepInv, SerialLeadStep
<1>3. CASE Close(l)
  <2> DEFINE r == [lead[l] EXCEPT !.pc = "closing"]
  <2>1. /\ r \in LeadRec /\ r.pc = "closing" /\ r.lock = lead[l].lock
    BY <1>1 DEF LeadRec
  <2>2. lead' = [lead EXCEPT ![l] = r] /\ sock' = None /\ lead[l].pc = "ready"
    BY <1>3 DEF Close, AtL
  <2> HIDE DEF r
  <2>3. LeadStep(l, r) /\ lead'[l] = r
    BY <1>1, <2>1, <2>2 DEF LeadStep
  <2>4. SerialInv => LeaderHolds(l)'
    BY <1>1, <2>1, <2>2, <2>3 DEF SerialInv, LeaderHolds, Alive, AtL
  <2> QED BY <2>1, <2>3, <2>4, LeadStepInv, SerialLeadStep
<1> QED BY <1>2, <1>3

LEMMA CrashInv ==
  ASSUME IInv, NEW l \in Leaders, Crash(l)
  PROVE  IInv' /\ (SerialInv => SerialInv')
<1>1. Bounds' /\ pid' # l
  BY FaultsBound, LeaderAssumption DEF Crash, Left
<1> QED BY <1>1, GoneStep DEF Crash

LEMMA StartLeaderInv ==
  ASSUME IInv, NEW l \in Leaders, StartLeader(l)
  PROVE  IInv' /\ (ahead' = 0 /\ SerialInv => SerialInv')
<1>1. PICK c \in Clients :
        lead' = [lead EXCEPT ![l] = [Gone EXCEPT !.pc = "start", !.ver = Version[c]]]
  BY DEF StartLeader
<1>2. /\ lead \in [Leaders -> LeadRec] /\ Unused(l) /\ pid \in Leaders \cup {None, Stale}
      /\ UNCHANGED <<pid, sock, client, installed>> /\ Bounds'
      /\ ahead' = 0 => Free /\ NoneStarts
  BY TypeParts, AheadBound DEF IInv, StartLeader
<1> DEFINE v == Version[c]
           s == [Gone EXCEPT !.pc = "start", !.ver = v]
<1>3. v \in Nat
  BY LeaderAssumption
<1> HIDE DEF v
<1>4. s \in LeadRec /\ s.pc = "start" /\ s.lock = "no"
  BY <1>3 DEF Gone, LeadRec, Starting, Handles
<1>5. lead' = [lead EXCEPT ![l] = s]
  BY <1>1 DEF v
<1> HIDE DEF s
<1>6. /\ lead' \in [Leaders -> LeadRec] /\ lead'[l] = s
      /\ \A m \in Leaders \ {l} : lead'[m] = lead[m]
  BY <1>2, <1>4, <1>5
<1>7. TypeOK'
  BY <1>2, <1>6, TypeParts DEF IInv, TypeOK, LeadRec, ClientRec, Bounds
<1>8. PidOwned'
  BY <1>2, <1>4, <1>6 DEF IInv, PidOwned, LockNamesHolder, AtL, Alive, Unused
<1>9. ASSUME NEW d \in Clients PROVE ClientKept(d)'
  BY <1>2, <1>6 DEF IInv, ClientKept
<1>10. IInv'
  BY <1>7, <1>8, <1>9 DEF IInv
<1>11. ASSUME ahead' = 0, SerialInv PROVE SerialInv'
  <2>1. Free /\ NoneStarts
    BY <1>2, <1>11
  <2>2. ASSUME NEW m \in Leaders PROVE lead[m].pc = "gone" /\ lead[m].lock = "no"
    <3>1. lead[m] \in LeadRec /\ LeaderHolds(m) /\ lead[m].lock # "live"
      BY <1>11, <2>1, LeadFields DEF SerialInv, Free
    <3> QED BY <2>1, <3>1 DEF LeaderHolds, NoneStarts, Alive, LeadRec
  <2>3. OneLeader'
    BY <1>6, <2>2 DEF OneLeader, Alive
  <2>4. ASSUME NEW m \in Leaders PROVE LeaderHolds(m)'
    <3>1. CASE m = l
      BY <1>4, <1>6, <3>1 DEF LeaderHolds, Alive, AtL
    <3>2. CASE m # l
      BY <1>6, <2>2, <3>2 DEF LeaderHolds, Alive, AtL
    <3> QED BY <3>1, <3>2
  <2>5. ASSUME NEW d \in Clients PROVE ClientHolds(d)'
    <3>1. client[d].lock # "live" /\ ClientHolds(d)
      BY <1>11, <2>1 DEF SerialInv, Free
    <3> QED BY <1>2, <3>1 DEF ClientHolds
  <2> QED BY <1>10, <2>3, <2>4, <2>5 DEF SerialInv
<1> QED BY <1>10, <1>11

LEMMA QuietInv ==
  ASSUME IInv, UNCHANGED <<pid, sock, lead, client>>, installed' \in Releases,
         Bounds'
  PROVE  IInv' /\ (SerialInv => SerialInv')
<1>1. TypeOK'
  BY TypeParts DEF IInv, TypeOK, LeadRec, ClientRec, Bounds
<1>2. PidOwned' /\ \A c \in Clients : ClientKept(c)'
  BY DEF IInv, PidOwned, LockNamesHolder, AtL, ClientKept
<1>3. IInv'
  BY <1>1, <1>2 DEF IInv
<1>4. ASSUME SerialInv PROVE SerialInv'
  <2>1. OneLeader' /\ \A l \in Leaders : LeaderHolds(l)'
    BY <1>4 DEF SerialInv, OneLeader, LeaderHolds, Alive, AtL
  <2>2. \A c \in Clients : ClientHolds(c)'
    BY <1>4 DEF SerialInv, ClientHolds, Alive, AtC
  <2> QED BY <1>3, <2>1, <2>2 DEF SerialInv
<1> QED BY <1>3, <1>4

-----------------------------------------------------------------------------
(* The invariants                                                          *)

LEMMA InvInit == Init => SerialInv
<1> SUFFICES ASSUME Init PROVE SerialInv
  OBVIOUS
<1>1. /\ \A l \in Leaders : lead[l] = Gone
      /\ \A c \in Clients : client[c] = Idle
  BY DEF Init
<1>2. TypeOK
  <2>1. lead \in [Leaders -> LeadRec] /\ client \in [Clients -> ClientRec]
    BY GoneType, IdleType DEF Init
  <2>2. Bounds
    BY LeaderAssumption DEF Init, Bounds
  <2> QED BY <2>1, <2>2, TypeIntro DEF Init
<1>3. PidOwned /\ \A c \in Clients : ClientKept(c)
  BY <1>1, GoneType, IdleType, LeaderAssumption
  DEF PidOwned, LockNamesHolder, AtL, ClientKept, Knows, Init
<1>4. OneLeader /\ \A l \in Leaders : LeaderHolds(l)
  BY <1>1, GoneType DEF OneLeader, LeaderHolds, Alive, AtL
<1>5. \A c \in Clients : ClientHolds(c)
  BY <1>1, IdleType DEF ClientHolds
<1> QED BY <1>2, <1>3, <1>4, <1>5 DEF IInv, SerialInv

LEMMA InvNext ==
  ASSUME IInv, [Next]_vars
  PROVE  IInv' /\ (ahead' = 0 /\ SerialInv => SerialInv')
<1>1. ASSUME NEW c \in Clients, ClientStep(c) \/ Kill(c)
      PROVE  IInv' /\ (ahead' = 0 /\ SerialInv => SerialInv')
  <2>1. CASE \/ Begin(c) \/ Probe(c) \/ Dial(c) \/ Await(c) \/ WaitPoll(c)
             \/ WaitTimeout(c) \/ Lost(c) \/ Kill(c)
    <3>1. PlainStep(c)
      BY <2>1, PlainSteps
    <3> QED BY <3>1, PlainInv
  <2>2. CASE Register(c) \/ RegisterTimeout(c)
    BY <2>2, RegisterInv
  <2>3. CASE Vacate(c)
    BY <2>3, VacateInv
  <2>4. CASE Acquire(c)
    BY <2>4, AcquireInv
  <2>5. CASE Spawn(c)
    BY <2>5, SpawnInv
  <2>6. CASE AwaitTimeout(c)
    BY <2>6, AwaitTimeoutInv
  <2> QED BY <1>1, <2>1, <2>2, <2>3, <2>4, <2>5, <2>6 DEF ClientStep
<1>2. ASSUME NEW l \in Leaders, LeaderStep(l) \/ Crash(l) \/ StartLeader(l)
      PROVE  IInv' /\ (ahead' = 0 /\ SerialInv => SerialInv')
  BY <1>2, EarlyLockInv, BindInv, SeeSocketInv, TakeLockInv, ReadyInv, ExitInv,
     CrashInv, StartLeaderInv DEF LeaderStep
<1>3. CASE Install
  BY <1>3, QuietInv, FaultsBound DEF Install
<1>4. CASE UNCHANGED vars
  BY <1>4, QuietInv, FaultsBound, TypeParts DEF vars, IInv
<1> QED BY <1>1, <1>2, <1>3, <1>4 DEF Next

(* Once somebody went ahead it stays so. *)
LEMMA AheadStays ==
  ASSUME IInv, [Next]_vars, ahead' = 0
  PROVE  ahead = 0
<1>1. ASSUME NEW c \in Clients, ClientStep(c) \/ Kill(c) PROVE ahead = 0
  <2>1. CASE Acquire(c) \/ AwaitTimeout(c)
    BY <2>1, AheadBound DEF Acquire, AwaitTimeout
  <2>2. CASE ~(Acquire(c) \/ AwaitTimeout(c))
    BY <1>1, <2>2 DEF ClientStep, Kill, Begin, Probe, Dial, Register, RegisterTimeout,
                      Vacate, Spawn, Await, WaitPoll, WaitTimeout, Lost
  <2> QED BY <2>1, <2>2
<1>2. ASSUME NEW l \in Leaders, LeaderStep(l) \/ Crash(l) \/ StartLeader(l) PROVE ahead = 0
  <2>1. CASE StartLeader(l)
    BY <2>1, AheadBound DEF StartLeader
  <2>2. CASE ~StartLeader(l)
    BY <1>2, <2>2 DEF LeaderStep, Crash, EarlyLock, Bind, SeeSocket, TakeLock, BecomeReady,
                      Close, Exit
  <2> QED BY <2>1, <2>2
<1> QED BY <1>1, <1>2 DEF Next, Install, vars

(* The inductive invariant.  Its first part holds in every state.  As long as *)
(* nobody goes ahead of a leader that is starting there is moreover at most   *)
(* one leader process, a client holds the flock only with no leader or while  *)
(* its own one starts, and nobody's lock file is removed under him.           *)
THEOREM LeaderInvariant == Spec => []LeaderInv
<1>1. Init => LeaderInv
  BY InvInit DEF LeaderInv, SerialInv
<1>2. LeaderInv /\ [Next]_vars => LeaderInv'
  BY InvNext, AheadStays DEF LeaderInv
<1> QED BY <1>1, <1>2, PTL DEF Spec

(* Every variable keeps its type. *)
THEOREM TypeCorrect == Spec => []TypeOK
<1>1. LeaderInv => TypeOK
  BY DEF LeaderInv, IInv
<1> QED BY <1>1, LeaderInvariant, PTL

(* leader.lock names a running leader exactly when that leader holds the flock *)
(* on it, so that a client that takes the flock never finds a running leader   *)
(* to adopt or to evict.                                                       *)
THEOREM LockNamesItsHolder == Spec => []LockNamesHolder
<1>1. LeaderInv => LockNamesHolder
  BY DEF LeaderInv, IInv, PidOwned
<1> QED BY <1>1, LeaderInvariant, PTL

(* "Single-leader-per-machine": as long as nobody goes ahead of a leader that *)
(* is starting, a leader that serves is the one that the lock, the pid in it  *)
(* and the socket name.                                                       *)
THEOREM LeaderReachable == Spec => []Reachable
<1>1. LeaderInv => Reachable
  BY DEF LeaderInv, SerialInv, LeaderHolds, Reachable, AtL
<1> QED BY <1>1, LeaderInvariant, PTL

=============================================================================
