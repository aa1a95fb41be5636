-------------------------- MODULE MCSessionManager --------------------------
(* TLC instances of SessionManager.                                         *)
EXTENDS SessionManager, TLC

\* Sessions, callers and writers are interchangeable (safety runs only).
Symmetry == Permutations(Sessions) \cup Permutations(Callers)
              \cup Permutations(Writers)
=============================================================================
