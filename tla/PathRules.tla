------------------------------ MODULE PathRules -------------------------------
(***************************************************************************)
(* What must hold of every path: paths are built part by part, to any      *)
(* length, and parts are counted up and down instead of cleaned.           *)
(***************************************************************************)
EXTENDS Paths

CONSTANTS
  Parts,      \* what a client or an administrator may write between slashes
  MaxParts,   \* bound: parts of a path
  DataRoots,  \* what DATA_ROOT may be
  Subdirs,    \* values of rootSubdir
  User        \* the user's name

ASSUME PathsAssumption ==
  /\ MaxParts \in Nat
  /\ Parts \subseteq STRING
  /\ DataRoots \subseteq Seq(STRING)
  /\ Subdirs \subseteq Seq(STRING) \ {<<>>}
  /\ User \in STRING \ {"", ".", ".."}

VARIABLE p    \* a path, or a prefix of users' secrets in Vault

Init == p \in {<<x>> : x \in Parts}
Longer == Len(p) < MaxParts /\ \E x \in Parts : p' = Append(p, x)
Spec == Init /\ [][Longer]_p

RootsIn(dataRoot) ==
  {userRootPath(dataRoot, s, User) : s \in {t \in Subdirs : ValidSubdir(t)}}

Roots == UNION {RootsIn(d) : d \in DataRoots}
-------------------------------------------------------------------------------
Ups(q) == Cardinality({i \in DOMAIN q : q[i] = ".."})
Downs(q) == Cardinality({i \in DOMAIN q : q[i] \notin {"", ".", ".."}})

(* Parts of a path, taken one by one, come above where they began.         *)
ClimbsOut(q) == \E n \in DOMAIN q : Ups(SubSeq(q, 1, n)) > Downs(SubSeq(q, 1, n))

(* clean refuses exactly the paths that climb above the user's root on     *)
(* their way, even those that come back into it.  A path that is absolute  *)
(* once its "\" are "/" is not refused but kept at the root.  The second   *)
(* check, on the joined path, refuses none besides, unless the user's root *)
(* is "/" itself: then nothing but that directory is let in (fs.go:32-48). *)
RefusesExactly ==
  \A root \in Roots :
    Accepted(root, p) <=> /\ Rooted(p) \/ ~ClimbsOut(p)
                          /\ FilepathClean(TRUE, root) # <<>> \/ Cleaned(p) = <<>>

(* What it accepts is the file the parts lead to from the root, below the  *)
(* root, which is below the data directory for every rootSubdir the API    *)
(* lets in (fs.go:36-48; main.go:215-226 with admin-api main.go:287-290).  *)
ResolvesInside ==
  \A d \in DataRoots : \A root \in RootsIn(d) : Accepted(root, p) =>
    /\ AbsPath(root, p) = FilepathClean(TRUE, root) \o FilepathClean(TRUE, p)
    /\ IsPrefix(FilepathClean(TRUE, d), AbsPath(root, p))
    /\ Rooted(p) \/ AbsPath(root, p) = FilepathClean(TRUE, root \o p)

(* The path clean reports to the audit log names, given back to the        *)
(* server, the file it stands for (fs.go:51-57).                           *)
RelNamesTheFile ==
  \A root \in Roots : Accepted(root, p) =>
    Accepted(root, RelPath(p)) /\ AbsPath(root, RelPath(p)) = AbsPath(root, p)

(* The server reads the secret the API writes for exactly the prefixes of  *)
(* a mount and a path with neither "/data/" nor a doubled slash after the  *)
(* mount; the settings shipped are such (vault.go:264-283 with admin-api   *)
(* main.go:320-334).                                                       *)
SameSecret ==
  LET q == trimSlashes(p) IN
  kvV2DataPath(p, User) = kv2DataPath(p, User)
    <=> Len(q) > 1 /\ q[2] # "" /\ \A i \in 2 .. Len(q) - 1 : q[i] # "data"
===============================================================================
