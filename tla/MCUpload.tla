------------------------------ MODULE MCUpload ------------------------------
(***************************************************************************)
(* Small instances of Upload.                                              *)
(***************************************************************************)
EXTENDS Upload, TLC

CONSTANTS h1, h2, s1, s2, p1, p2

OneSession == (h1 :> s1)
TwoSessions == (h1 :> s1) @@ (h2 :> s2)
SharedSession == (h1 :> s1) @@ (h2 :> s1)

OneHandleAnyPath == (h1 :> Paths)
OwnPath == (h1 :> {p1}) @@ (h2 :> {p2})
SamePath == (h1 :> {p1}) @@ (h2 :> {p1})

Finals == {Final(p) : p \in Paths}
OneFinal == {Final(p1)}
NoNames == {}

InodeSymmetry == Permutations(Inodes)
==============================================================================
