----------------------------- MODULE MCFindings -----------------------------
(* Instances of Findings for TLC.  Workers are interchangeable; leaks are  *)
(* not, since they differ in severity and in the legacy row they match.    *)
EXTENDS Findings, TLC

CONSTANTS a, b, old, vague

WorkerSymmetry == Permutations(Workers)

\* One legacy row is the former trace of leak a, the other of either leak.
MatchesTwo == [x \in {old, vague} |-> IF x = old THEN {a} ELSE {a, b}]
NoMatches == [x \in {} |-> {}]
=============================================================================
