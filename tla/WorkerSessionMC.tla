-------------------------- MODULE WorkerSessionMC ---------------------------
(***************************************************************************)
(* An instance of WorkerSession for TLC: two runs of up to three lines, of *)
(* which the second alone fills the log.                                   *)
(***************************************************************************)
EXTENDS WorkerSession

McSizeUpto == [n \in 0..3 |-> <<0, 1, 3, 4>>[n + 1]]

=============================================================================
