--------------------------- MODULE MCProofPackJobs ----------------------------
(* Instances of ProofPackJobs for TLC. *)
EXTENDS ProofPackJobs, TLC

CONSTANTS lane1

\* getRetryBackoffMs: min(base * 2^max(attempt - 1, 0), cap).
BackoffMs(base, cap, attempt) ==
    LET doubled == base * 2 ^ (IF attempt > 1 THEN attempt - 1 ELSE 0)
    IN  IF doubled < cap THEN doubled ELSE cap

MCBackoff == [a \in 1 .. MaxAttempts |-> BackoffMs(1, 2, a)]

\* Two requests for the same lane and pack type.
SameKey == [p \in Packs |-> lane1]

Symmetry == Permutations(Workers) \cup Permutations(Packs) \cup Permutations(Renderings)
===============================================================================
