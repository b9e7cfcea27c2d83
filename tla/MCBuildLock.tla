---------------------------- MODULE MCBuildLock ----------------------------
(* Instances of BuildLock for TLC.                                          *)
EXTENDS BuildLock, TLC

\* Processes are interchangeable, and so are connections.
LockSymmetry == Permutations(Processes) \cup Permutations(Conns)
=============================================================================
