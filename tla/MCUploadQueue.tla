-------------------------- MODULE MCUploadQueue --------------------------
EXTENDS UploadQueue, TLC
CONSTANTS a1, a2

\* a2 is larger than the inline budget; both have the same hashed path.
MCSizeOf == (a1 :> 1) @@ (a2 :> 3)
MCPathOf == (a1 :> "sha256_x") @@ (a2 :> "sha256_x")
\* Recovery: one sidecared artifact against every other kind.
MCKindsOf == (a1 :> {"durable"}) @@ (a2 :> Kinds)
\* Liveness: the variants whose callers wait.
MCWaitingKinds == (a1 :> {"bytes"}) @@ (a2 :> {"fileBlocking"})
=============================================================================
