------------------------------- MODULE Leader -------------------------------
(* Electing the leader process (ainxt-shell/src/leader, agent/app.rs).        *)
(* Clients call connect_or_spawn; a leader process owns the Unix socket and   *)
(* an flock on leader.lock.  A client that finds no usable leader takes the   *)
(* flock, spawns a leader, waits for its socket and releases the flock for    *)
(* the leader to take.                                                        *)
(*                                                                            *)
(* A lock handle is "live" or "open" (locked or only opened, on the inode the *)
(* path names), "dead" or "stale" (the same on an inode that was unlinked),   *)
(* or "no".  Opening the file and trying the flock is one step, and so is     *)
(* LeaderLock's Drop with its two remove_file calls.                          *)
EXTENDS Integers, FiniteSets

CONSTANTS
  Clients,    \* client processes
  Leaders,    \* process ids of leaders, used again once nobody talks to the old process
  Version,    \* the version of each client
  Managed,    \* the clients that run from the managed install
  Releases,   \* the versions installed one after the other
  None,
  Stale,      \* names a leader that is gone, in a file it left behind
  MaxFaults,  \* bound: crashes, auto-updates, manual starts, unanswered messages
  MaxAhead    \* bound: how often somebody goes ahead of a leader that is starting

ASSUME LeaderAssumption ==
  /\ Version \in [Clients -> Nat]
  /\ Managed \subseteq Clients
  /\ IsFiniteSet(Releases) /\ Releases # {} /\ Releases \subseteq Nat
  /\ IsFiniteSet(Leaders)
  /\ None \notin Leaders /\ Stale \notin Leaders /\ None # Stale
  /\ MaxFaults \in Nat
  /\ MaxAhead \in Nat

VARIABLES
  pid,        \* the leader named in leader.lock, Stale when that process is gone
  sock,       \* the leader that bound the socket file, Stale when it is gone
  lead,       \* per leader: stage, version, lock handle, asked to relaunch
  client,     \* per client: stage, lock handle, leader, who asked for the connection
  installed,  \* the version ~/.ainxt/bin/ainxt points to
  faults,     \* faults left
  ahead       \* history: how often somebody went ahead of a leader

vars == <<pid, sock, lead, client, installed, faults, ahead>>

Handles == {"no", "open", "stale", "live", "dead"}
Starting == {"start", "bind", "bound", "locking"}
Gone == [pc |-> "gone", ver |-> 0, lock |-> "no", asked |-> FALSE]
Idle == [pc |-> "idle", lock |-> "no", to |-> None, back |-> "fast", tried |-> FALSE]

TypeOK ==
  /\ pid \in Leaders \cup {None, Stale}
  /\ sock \in Leaders \cup {None, Stale}
  /\ lead \in [Leaders -> [pc : Starting \cup {"gone", "init", "ready", "closing"},
                           ver : Nat, lock : Handles, asked : BOOLEAN]]
  /\ client \in [Clients -> [pc : {"idle", "probe", "connect", "register", "vacate",
                                   "acquire", "held", "await", "wait", "done"},
                             lock : Handles, to : Leaders \cup {None},
                             back : {"fast", "wait", "spawned"}, tried : BOOLEAN]]
  /\ installed \in Releases
  /\ faults \in 0..MaxFaults
  /\ ahead \in 0..MaxAhead

\* A machine after a crash: the files of leaders that are gone may be left behind.
Init ==
  /\ pid \in {None, Stale}
  /\ sock \in {None, Stale}
  /\ lead = [l \in Leaders |-> Gone]
  /\ client = [c \in Clients |-> Idle]
  /\ installed \in Releases
  /\ \A v \in Releases : installed <= v
  /\ faults = MaxFaults
  /\ ahead = 0

-----------------------------------------------------------------------------
(* Files and processes.                                                      *)

Alive(l) == lead[l].pc # "gone"

\* Accepting connections.
Listening(l) == l \in Leaders /\ lead[l].pc \in {"bound", "locking", "init", "ready"}

\* try_lock_exclusive on the file the path names would succeed.
Free == /\ \A l \in Leaders : lead[l].lock # "live"
        /\ \A c \in Clients : client[c].lock # "live"

\* What unlinking leader.lock makes of a handle.
Unlinked(r) == [r EXCEPT !.lock = CASE @ = "live" -> "dead" [] @ = "open" -> "stale"
                                    [] OTHER -> @]

\* LeaderLock's Drop with was_leader set: both files are removed, whoever uses them now.
DropFiles ==
  /\ pid' = None
  /\ sock' = None

\* What a file says once the process is gone.
Left(file, l) == IF file = l THEN Stale ELSE file

Calling(c) == client[c].pc \notin {"idle", "done"}

\* A leader that starts is spawned or run before it holds the flock: in phase 5 it polls
\* every 200 ms, and whoever tries in between is ahead of it.
NoneStarts == \A l \in Leaders : lead[l].pc \notin Starting

\* The step goes ahead of a leader, when it does.
GoesAhead(does) ==
  /\ does => ahead < MaxAhead
  /\ ahead' = IF does THEN ahead + 1 ELSE ahead

Unused(l) ==
  /\ ~Alive(l)
  /\ \A c \in Clients : client[c].to # l

AtC(c, s) == client[c].pc = s
GotoC(c, s) == client' = [client EXCEPT ![c].pc = s]
AtL(l, s) == lead[l].pc = s

-----------------------------------------------------------------------------
(* connect_or_spawn.                                                         *)

\* A client of the managed install starts once its version is installed.
Present(c) == c \in Managed => Version[c] <= installed

Begin(c) ==
  /\ AtC(c, "idle")
  /\ Present(c)
  /\ GotoC(c, "probe")
  /\ UNCHANGED <<pid, sock, lead, faults, installed, ahead>>

\* The fast path connects unless the pid in leader.lock is dead.
Probe(c) ==
  /\ AtC(c, "probe")
  /\ IF sock # None /\ pid # Stale
       THEN client' = [client EXCEPT ![c].pc = "connect", ![c].back = "fast"]
       ELSE GotoC(c, "acquire")
  /\ UNCHANGED <<pid, sock, lead, faults, installed, ahead>>

\* What a failed connection leads to.
AfterFailure(r) ==
  CASE r.back = "fast" -> [r EXCEPT !.pc = "acquire", !.to = None]
    [] r.back = "wait" -> [r EXCEPT !.pc = "wait", !.to = None, !.tried = TRUE]
    [] OTHER -> Idle

\* connect_with_retry.
Dial(c) ==
  /\ AtC(c, "connect")
  /\ client' = [client EXCEPT ![c] =
                  IF Listening(sock)
                    THEN [@ EXCEPT !.pc = "register", !.to = sock]
                    ELSE AfterFailure(@)]
  /\ UNCHANGED <<pid, sock, lead, faults, installed, ahead>>

\* should_evict: strictly older than this client.
Older(c) == lead[client[c].to].ver < Version[c]

\* register returns once the leader is ready, or with an error when it goes away.  An
\* older leader is kept only by the call that spawned it; a waiting client asks it to
\* vacate first, a client on the fast path just tries the lock.
Register(c) ==
  LET l == client[c].to IN
  /\ AtC(c, "register")
  /\ lead[l].pc \in {"ready", "closing", "gone"}
  /\ client' = [client EXCEPT ![c] =
       CASE lead[l].pc # "ready" -> AfterFailure(@)
         [] lead[l].pc = "ready" /\ Older(c) /\ @.back = "fast" ->
              [@ EXCEPT !.pc = "acquire", !.to = None]
         [] lead[l].pc = "ready" /\ Older(c) /\ @.back = "wait" -> [@ EXCEPT !.pc = "vacate"]
         [] OTHER -> [@ EXCEPT !.pc = "done"]]
  /\ UNCHANGED <<pid, sock, lead, faults, installed, ahead>>

\* REGISTRATION_RESPONSE_TIMEOUT or, while the leader starts, LEADER_READY_TIMEOUT; the
\* deadline of wait_for_socket_connectable has passed by then.
RegisterTimeout(c) ==
  /\ AtC(c, "register")
  /\ lead[client[c].to].pc \notin {"closing", "gone"}
  /\ faults > 0
  /\ faults' = faults - 1
  /\ client' = [client EXCEPT ![c] = IF @.back = "fast" THEN AfterFailure(@) ELSE Idle]
  /\ UNCHANGED <<pid, sock, lead, installed, ahead>>

\* request_leader_vacate: a leader that serves accepts the first RelaunchForUpdate and
\* declines the others; the command is lost with the connection, or fails by itself.
\* Whatever the outcome the client goes back to the lock.
Vacate(c) ==
  LET l == client[c].to IN
  /\ AtC(c, "vacate")
  /\ client' = [client EXCEPT ![c].pc = "acquire", ![c].to = None]
  /\ \/ lead' = [lead EXCEPT ![l].asked = @ \/ AtL(l, "ready")] /\ UNCHANGED faults
     \/ AtL(l, "ready") /\ faults > 0 /\ faults' = faults - 1 /\ UNCHANGED lead
  /\ UNCHANGED <<pid, sock, installed, ahead>>

\* try_acquire.  With the flock taken no live leader holds it; LockNamesHolder says that
\* leader.lock then names none either, so that the branch that adopts or evicts such a
\* leader is not taken.
Acquire(c) ==
  /\ AtC(c, "acquire")
  /\ client' = [client EXCEPT ![c] =
                  IF Free THEN [@ EXCEPT !.pc = "held", !.lock = "live"]
                          ELSE [@ EXCEPT !.pc = "wait", !.tried = FALSE]]
  /\ GoesAhead(Free /\ ~NoneStarts)
  /\ UNCHANGED <<pid, sock, lead, faults, installed>>

\* resolve_binary_impl: the managed binary may be newer than the client that spawns it.
SpawnedVersion(c) == IF c \in Managed THEN installed ELSE Version[c]

\* cleanup_socket and spawn_leader_subprocess.
Spawn(c) ==
  \E l \in Leaders :
    /\ AtC(c, "held")
    /\ Unused(l)
    /\ sock' = None
    /\ lead' = [lead EXCEPT ![l] = [Gone EXCEPT !.pc = "start", !.ver = SpawnedVersion(c)]]
    /\ client' = [client EXCEPT ![c].pc = "await", ![c].to = l]
    /\ UNCHANGED <<pid, faults, installed, ahead>>

(* Mutant: release leaves was_leader set, so the files go with the spawner's lock. *)
Await_DropsFiles(c) ==
  /\ AtC(c, "await")
  /\ sock # None
  /\ DropFiles
  /\ client' = [d \in Clients |->
                  IF d = c THEN [client[d] EXCEPT !.pc = "connect", !.back = "spawned",
                                                  !.lock = "no", !.to = None]
                           ELSE Unlinked(client[d])]
  /\ lead' = [l \in Leaders |-> Unlinked(lead[l])]
  /\ UNCHANGED <<faults, installed, ahead>>

\* wait_for_listener_ready, then release: the files stay for the leader.
Await(c) ==
  /\ AtC(c, "await")
  /\ sock # None
  /\ client' = [client EXCEPT ![c].pc = "connect", ![c].back = "spawned",
                              ![c].lock = "no", ![c].to = None]
  /\ UNCHANGED <<pid, sock, lead, faults, installed, ahead>>

\* No listener in SPAWN_WAIT_TIMEOUT: the error drops the lock with its files.  The last
\* look at the socket may be one poll interval old, and the leader may still be starting.
AwaitTimeout(c) ==
  /\ AtC(c, "await")
  /\ GoesAhead(sock # None \/ Alive(client[c].to))
  /\ DropFiles
  /\ client' = [d \in Clients |-> IF d = c THEN Idle ELSE Unlinked(client[d])]
  /\ lead' = [l \in Leaders |-> Unlinked(lead[l])]
  /\ UNCHANGED <<faults, installed>>

\* wait_for_socket_connectable polls the socket.  A second failure changes nothing, so
\* that after the first only a listening socket is tried.
WaitPoll(c) ==
  /\ AtC(c, "wait")
  /\ sock # None
  /\ client[c].tried => Listening(sock)
  /\ client' = [client EXCEPT ![c].pc = "connect", ![c].back = "wait"]
  /\ UNCHANGED <<pid, sock, lead, faults, installed, ahead>>

\* Ten seconds without a connection: an error if one was tried, else back to the lock.
WaitTimeout(c) ==
  /\ AtC(c, "wait")
  /\ ~Listening(sock)
  /\ client' = [client EXCEPT ![c] = IF @.tried THEN Idle ELSE [@ EXCEPT !.pc = "acquire"]]
  /\ UNCHANGED <<pid, sock, lead, faults, installed, ahead>>

\* The connection ends with its leader; the reconnector calls again.
Lost(c) ==
  /\ AtC(c, "done")
  /\ lead[client[c].to].pc # "ready"
  /\ client' = [client EXCEPT ![c] = Idle]
  /\ UNCHANGED <<pid, sock, lead, faults, installed, ahead>>

-----------------------------------------------------------------------------
(* run_leader.                                                               *)

(* Mutant: bails out whenever the lock is held, by the spawner too. *)
EarlyLock_AlwaysBails(l) ==
  /\ AtL(l, "start")
  /\ lead' = [lead EXCEPT ![l] = IF Free THEN [@ EXCEPT !.pc = "bind", !.lock = "live"]
                                         ELSE Gone]
  /\ pid' = IF Free THEN l ELSE pid
  /\ UNCHANGED <<sock, client, faults, installed, ahead>>

\* Early try_acquire: hold the lock, or bail out if it is held and a socket exists.
EarlyLock(l) ==
  /\ AtL(l, "start")
  /\ IF Free
       THEN /\ lead' = [lead EXCEPT ![l].pc = "bind", ![l].lock = "live"]
            /\ pid' = l
       ELSE /\ lead' = [lead EXCEPT ![l] = IF sock # None THEN Gone
                                                          ELSE [@ EXCEPT !.pc = "bind"]]
            /\ UNCHANGED pid
  /\ UNCHANGED <<sock, client, faults, installed, ahead>>

\* cleanup_socket, then run_leader_server removes the file again and binds it.
Bind(l) ==
  /\ AtL(l, "bind")
  /\ sock' = l
  /\ lead' = [lead EXCEPT ![l].pc = "bound"]
  /\ UNCHANGED <<pid, client, faults, installed, ahead>>

\* run_leader returns an error: the server task may still remove the socket, and a held
\* lock is dropped with its files.
Fails(l) ==
  IF lead[l].lock \in {"live", "dead"}
    THEN /\ DropFiles
         /\ lead' = [m \in Leaders |-> IF m = l THEN Gone ELSE Unlinked(lead[m])]
         /\ client' = [c \in Clients |-> Unlinked(client[c])]
    ELSE /\ sock' \in {Left(sock, l), None}
         /\ lead' = [lead EXCEPT ![l] = Gone]
         /\ UNCHANGED <<pid, client>>

(* Mutant: the pid is written before the lock is taken. *)
SeeSocket_WritesPid(l) ==
  /\ AtL(l, "bound")
  /\ sock # None
  /\ lead' = [lead EXCEPT ![l] =
                IF @.lock = "no" THEN [@ EXCEPT !.pc = "locking", !.lock = "open"]
                                 ELSE [@ EXCEPT !.pc = "init"]]
  /\ pid' = l
  /\ UNCHANGED <<sock, client, faults, installed, ahead>>

\* Phase 4: the socket must be there, whoever bound it.
SeeSocket(l) ==
  /\ AtL(l, "bound")
  /\ IF sock # None
       THEN /\ lead' = [lead EXCEPT ![l] =
                          IF @.lock = "no" THEN [@ EXCEPT !.pc = "locking", !.lock = "open"]
                                           ELSE [@ EXCEPT !.pc = "init"]]
            /\ UNCHANGED <<pid, sock, client>>
       ELSE Fails(l)
  /\ UNCHANGED <<faults, installed, ahead>>

\* Phase 5: try_acquire_timeout and write_pid on the file opened before, or an error when
\* another leader keeps the lock for LEADER_LOCK_TIMEOUT; no client keeps it that long.
TakeLock(l) ==
  /\ AtL(l, "locking")
  /\ lead[l].lock = "open" => \A c \in Clients : client[c].lock # "live"
  /\ IF lead[l].lock = "open" /\ ~Free
       THEN Fails(l)
       ELSE /\ lead' = [lead EXCEPT ![l].pc = "init",
                                    ![l].lock = IF @ = "open" THEN "live" ELSE "dead"]
            /\ pid' = IF lead[l].lock = "open" THEN l ELSE pid
            /\ UNCHANGED <<sock, client>>
  /\ UNCHANGED <<faults, installed, ahead>>

\* Phases 6 and 7: auth and prefetch, then ready_tx.
BecomeReady(l) ==
  /\ AtL(l, "init")
  /\ lead' = [lead EXCEPT ![l].pc = "ready"]
  /\ UNCHANGED <<pid, sock, client, faults, installed, ahead>>

\* spawn_relaunch_drain ends, or the auto-update checker shuts down: the token is
\* cancelled and the server removes its socket.
Close(l) ==
  /\ AtL(l, "ready")
  /\ \/ lead[l].asked /\ UNCHANGED faults
     \/ ~lead[l].asked /\ faults > 0 /\ faults' = faults - 1
  /\ lead' = [lead EXCEPT ![l].pc = "closing"]
  /\ sock' = None
  /\ UNCHANGED <<pid, client, installed, ahead>>

\* Two seconds later run_leader returns and drops the lock with its files.
Exit(l) ==
  /\ AtL(l, "closing")
  /\ DropFiles
  /\ lead' = [m \in Leaders |-> IF m = l THEN Gone ELSE Unlinked(lead[m])]
  /\ client' = [c \in Clients |-> Unlinked(client[c])]
  /\ UNCHANGED <<faults, installed, ahead>>

-----------------------------------------------------------------------------
(* Faults.                                                                   *)

\* A leader is killed: the kernel releases its flock, the files stay.
Crash(l) ==
  /\ Alive(l)
  /\ faults > 0
  /\ faults' = faults - 1
  /\ lead' = [lead EXCEPT ![l] = Gone]
  /\ pid' = Left(pid, l)
  /\ sock' = Left(sock, l)
  /\ UNCHANGED <<client, installed, ahead>>

\* A client is killed in a call, its lock released without its Drop; another takes over.
Kill(c) ==
  /\ Calling(c)
  /\ faults > 0
  /\ faults' = faults - 1
  /\ client' = [client EXCEPT ![c] = Idle]
  /\ UNCHANGED <<pid, sock, lead, installed, ahead>>

\* Somebody runs "agent leader" by hand.
StartLeader(l) ==
  /\ Unused(l)
  /\ faults > 0
  /\ faults' = faults - 1
  /\ \E c \in {d \in Clients : Present(d)} :
       lead' = [lead EXCEPT ![l] = [Gone EXCEPT !.pc = "start", !.ver = Version[c]]]
  /\ GoesAhead(~Free \/ ~NoneStarts)
  /\ UNCHANGED <<pid, sock, client, installed>>

\* An update swaps the managed symlink; running processes keep their version.
Install ==
  /\ \E v \in Releases : installed < v /\ installed' = v
  /\ UNCHANGED <<pid, sock, lead, client, faults, ahead>>

ClientStep(c) ==
  \/ Begin(c) \/ Probe(c) \/ Dial(c) \/ Register(c) \/ RegisterTimeout(c) \/ Vacate(c)
  \/ Acquire(c) \/ Spawn(c) \/ Await(c) \/ AwaitTimeout(c) \/ WaitPoll(c) \/ WaitTimeout(c) \/ Lost(c)

LeaderStep(l) ==
  \/ EarlyLock(l) \/ Bind(l) \/ SeeSocket(l) \/ TakeLock(l) \/ BecomeReady(l)
  \/ Close(l) \/ Exit(l)

Next ==
  \/ Install
  \/ \E c \in Clients : ClientStep(c) \/ Kill(c)
  \/ \E l \in Leaders : LeaderStep(l) \/ Crash(l) \/ StartLeader(l)

Spec == Init /\ [][Next]_vars

\* Every process runs: the client's loops poll and time out, and a leader that was asked
\* to relaunch has a bounded grace.
FairSpec ==
  /\ Spec
  /\ \A c \in Clients : WF_vars(ClientStep(c))
  /\ \A l \in Leaders : WF_vars(LeaderStep(l) /\ (AtL(l, "ready") => lead[l].asked))

-----------------------------------------------------------------------------
(* Properties.                                                               *)

(* leader.lock names a running leader exactly when that leader holds the      *)
(* flock on it, through every unlink and re-creation of the file: a client    *)
(* that takes the flock meets no running owner to adopt or to evict, and the  *)
(* pid the fast path probes is that of the holder.                            *)
LockNamesHolder ==
  \A l \in Leaders : lead[l].lock = "live" <=> pid = l

(* As long as nobody goes ahead of a leader that is still starting, a leader  *)
(* that serves is the one the lock, its pid and the socket name: stale files, *)
(* crashes, exits and updates never leave two leaders, or one that no client  *)
(* can reach ("single-leader-per-machine", leader/mod.rs:3).                  *)
Reachable ==
  ahead = 0 =>
    \A l \in Leaders : AtL(l, "ready") => sock = l /\ pid = l /\ lead[l].lock = "live"

\* Leaders older than one of the clients keep being started.
Thrash ==
  []<>(\E l \in Leaders, c \in Clients : AtL(l, "start") /\ lead[l].ver < Version[c])

(* A client that asks for a leader gets one: stale files, exits, crashes, lost *)
(* commands and older leaders delay it, but leave it retrying for ever only if *)
(* somebody went ahead of a leader that was starting (the lock's holder then   *)
(* has no socket) or if an older client keeps spawning leaders of its own      *)
(* version, which the newer one keeps replacing.                               *)
ClientConnects ==
  Thrash \/ \A c \in Clients : Calling(c) ~> AtC(c, "done") \/ ahead > 0
=============================================================================
