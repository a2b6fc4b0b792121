------------------------------- MODULE Spool -------------------------------
(***************************************************************************)
(* What the upload queue promises about the artifacts it accepts durably   *)
(* (EnqueueOutcome::Enqueued with a recovery sidecar), across crashes and  *)
(* restarts: an accepted artifact stays in the spool until its object is   *)
(* in storage or the queue has refused it for a recorded reason, unless    *)
(* the machine loses it with an unsynced directory entry.  Delivery is at  *)
(* least once; nothing leaves storage.                                     *)
(***************************************************************************)
CONSTANT Artifacts

VARIABLES
    spool,      \* accepted artifacts whose bytes and manifest are on disk
    store,      \* artifacts whose object is in cloud storage
    refused,    \* artifacts given up with a logged and counted reason
    lost        \* artifacts whose manifest a power cut took

vars == <<spool, store, refused, lost>>

Init == spool = {} /\ store = {} /\ refused = {} /\ lost = {}

Accept(a) ==
    /\ a \notin spool
    /\ spool' = spool \cup {a}
    /\ UNCHANGED <<store, refused, lost>>

Deliver(a) ==
    /\ a \notin store
    /\ store' = store \cup {a}
    /\ UNCHANGED <<spool, refused, lost>>

Refuse(a) ==
    /\ refused' = refused \cup {a}
    /\ UNCHANGED <<spool, store, lost>>

\* Refusing and forgetting in one step: what recovery and the purge do.
Discard(S) ==
    /\ refused' = refused \cup S
    /\ spool' = spool \ S
    /\ UNCHANGED <<store, lost>>

Forget(a) ==
    /\ a \in spool
    /\ a \in store \cup refused
    /\ spool' = spool \ {a}
    /\ UNCHANGED <<store, refused, lost>>

\* The power goes before the directory is written back.
Lose(S) ==
    /\ lost' = lost \cup S
    /\ spool' = spool \ S
    /\ UNCHANGED <<store, refused>>

Next ==
    \/ \E a \in Artifacts : Accept(a) \/ Deliver(a) \/ Refuse(a) \/ Forget(a)
    \/ \E S \in SUBSET Artifacts : Discard(S) \/ Lose(S)

Spec == Init /\ [][Next]_vars
=============================================================================
