---------------------------- MODULE MCFileSystem ----------------------------
(***************************************************************************)
(* Values of the constants of FileSystem for TLC.                          *)
(***************************************************************************)
EXTENDS FileSystem, TLC

CONSTANTS f1, f2, a1, b1, c1, a2, b2, c2

(* Three letters, so that words of a block and blocks of a file differ.    *)
ThreeLetters == f1 :> <<a1, b1, c1>> @@ f2 :> <<a2, b2, c2>>

SizesByUsage == [careful |-> {0, 2, 3, 6}, killed |-> {0, 5, 7}]
LengthsByUsage == [careful |-> {2}, killed |-> {1}]

(* Files are exchanged together with their letters.                        *)
AllLetters == {a1, b1, c1, a2, b2, c2}
Symmetry ==
  {g \in Permutations(Files \cup AllLetters) :
     \A f \in Files :
       /\ g[f] \in Files
       /\ \A k \in 1 .. 3 : g[Letters[f][k]] = Letters[g[f]][k]}
=============================================================================
