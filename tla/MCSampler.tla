----------------------------- MODULE MCSampler -----------------------------
(* Instances of Sampler for TLC. *)
EXTENDS Sampler, TLC

(* Errors that meet several tests of the classifier at once. *)
MCErrors == {{"auth"},
             {"too_large", "server_stop"},
             {"rate_limited", "retryable"},
             {"retryable", "body_rejected"},
             {"retryable", "context_length"}}

(* For the runs about order and liveness: one that is retried, one that   *)
(* is not.                                                                *)
MCFewErrors == {{"retryable"}, {"auth"}}

MCRetryErrors == {{"image", "retryable"}, {"rate_limited", "retryable"}, {"retryable"}}

MCSymmetry == Permutations(Callers) \cup Permutations(Ids)
=============================================================================
