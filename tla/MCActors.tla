------------------------------ MODULE MCActors ------------------------------
(* Instances of Actors for TLC.                                            *)
EXTENDS Actors, TLC

CONSTANTS main, a1, a2

\* Main may use every actor, the first actor may use the second.
Layered == {<<main, a1>>, <<main, a2>>, <<a1, a2>>}

\* The two actors may also use each other.
Mutual == Layered \cup {<<a2, a1>>}

Symmetry == Permutations(Op) \cup Permutations(Port)
=============================================================================
