------------------------ MODULE MCQuasarThreadPool ------------------------
(* Instances of QuasarThreadPool for TLC. *)
EXTENDS QuasarThreadPool

CONSTANTS w1, w2, u1, j1, j2, j3, m1

\* Two jobs share a mutex, the third has none.
MCJobMutex == [j \in Jobs |-> IF j = j3 THEN None ELSE m1]
=============================================================================
