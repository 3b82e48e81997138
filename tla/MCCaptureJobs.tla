--------------------------- MODULE MCCaptureJobs ---------------------------
(* Small instances of CaptureJobs. *)
EXTENDS CaptureJobs, TLC

CONSTANTS p0, p1, p2

\* An answer without candidates, one with a single candidate, one with two.
MCCount == [p \in Payloads |-> IF p = p0 THEN 0 ELSE IF p = p1 THEN 1 ELSE 2]

Symmetry == Permutations(Workers) \cup Permutations(Retries)
=============================================================================
