---------------------------- MODULE VinylSyncMC ----------------------------
(***************************************************************************)
(* An instance of VinylSync for TLC: two records of one artist, whom the   *)
(* rules file corrects.                                                    *)
(***************************************************************************)
EXTENDS VinylSync

CONSTANTS Goldberg, Partitas

McReleases == {Goldberg, Partitas}
McSymmetry == Permutations(McReleases)
McCreditOf == [r \in McReleases |-> "gould"]
McFileOverrides == [sort |-> {"gould"}, section |-> {}]

=============================================================================
