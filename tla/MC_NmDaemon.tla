---------------------------- MODULE MC_NmDaemon ----------------------------
(* Instances of NmDaemon for TLC. *)
EXTENDS NmDaemon, TLC

CONSTANT Patient    \* a connection whose client stays and reads

\* Connections are interchangeable (for runs without liveness).
ConnSymmetry == Permutations(Conns)

\* The behaviours without a signal in which the client of Patient stays and
\* reads.  Only clients and signals are restricted, never a thread.
Undisturbed ==
    /\ Init
    /\ [][/\ Next
          /\ ~needShutdown'
          /\ client'[Patient] \in {"off", "open"}
          /\ ~stalled'[Patient]]_vars
    /\ Fairness

=============================================================================
