------------------------------ MODULE MCFolders ------------------------------
(***************************************************************************)
(* A small instance of Folders: two uploads to two directories, whose      *)
(* paths become each other's when a directory takes the other's name.      *)
(***************************************************************************)
EXTENDS Folders, TLC

CONSTANTS h1, h2, d1, d2, x

Apart == (h1 :> {<<d1, x>>}) @@ (h2 :> {<<d2, x>>})

(* The two uploads mirror each other.                                      *)
Mirror == (h1 :> h2) @@ (h2 :> h1) @@ (d1 :> d2) @@ (d2 :> d1)

Symmetry == Permutations(Inodes) \cup {Mirror}
==============================================================================
