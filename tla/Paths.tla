-------------------------------- MODULE Paths --------------------------------
(***************************************************************************)
(* The paths the program computes: jailedFS.clean (fs.go), userRootPath    *)
(* (main.go), the API's rule for rootSubdir, and the secret of a user as   *)
(* the server (vault.go) and the API derive it from VAULT_USERS_PREFIX.    *)
(*                                                                         *)
(* A string is the sequence of its parts between slashes: "/a" is          *)
(* <<"", "a">> and the empty string <<"">>.                                *)
(***************************************************************************)
EXTENDS Naturals, SequencesExt

(* One part of a path, for what the parts before it come to.               *)
CanGoUp(done) == done # <<>> /\ Last(done) # ".."

Resolve(rooted, done, part) ==
  CASE part \in {"", "."}                        -> done
    [] part = ".." /\ CanGoUp(done)              -> Front(done)
    [] part = ".." /\ ~CanGoUp(done) /\ rooted   -> done
    [] OTHER                                     -> Append(done, part)

(* filepath.Clean: the parts that are left, none for "." and "/".          *)
FilepathClean(rooted, parts) ==
  LET done[n \in 0 .. Len(parts)] ==
        IF n = 0 THEN <<>> ELSE Resolve(rooted, done[n - 1], parts[n])
  IN  done[Len(parts)]

trimSlashes(s) ==
  LET named == {i \in DOMAIN s : s[i] # ""} IN
  IF named = {} THEN <<"">>
  ELSE SubSeq(s, CHOOSE i \in named : \A j \in named : i <= j,
                 CHOOSE i \in named : \A j \in named : j <= i)
-------------------------------------------------------------------------------
(* jailedFS.clean.  The SFTP library hands over "/" and a path it has      *)
(* cleaned; p is what follows that slash once each "\" has become "/", so   *)
(* that any part may be among it again.                                    *)
Rooted(p) == Len(p) > 1 /\ p[1] = ""

Cleaned(p) == FilepathClean(Rooted(p), p)

LeavesRoot_OnlyDotDot(p) == Cleaned(p) = <<"..">>             \* mutant
LeavesRoot(p) == IsPrefix(<<"..">>, Cleaned(p))

(* filepath.Join cleans the whole; filepath.Abs changes nothing.           *)
AbsPath(root, p) == FilepathClean(TRUE, root \o Cleaned(p))

(* What is below the root begins with the root and a slash; "/" with the   *)
(* slash is "//", with which no path begins.                               *)
Accepted(root, p) ==
  LET rootAbs == FilepathClean(TRUE, root) IN
  /\ ~LeavesRoot(p)
  /\ \/ AbsPath(root, p) = rootAbs
     \/ rootAbs # <<>> /\ IsPrefix(rootAbs, AbsPath(root, p))

(* What follows the first slash of rel.                                    *)
RelPath_LastPart(p) ==                                        \* mutant
  LET c == Cleaned(p) IN IF c = <<>> THEN <<"">> ELSE <<Last(c)>>
RelPath(p) ==
  LET c == IF Cleaned(p) = <<>> THEN <<"">> ELSE Cleaned(p)
  IN IF Rooted(p) THEN <<"">> \o c ELSE c

(* The user's directory; dataRoot is absolute. *)
joinClean(base, sub) == base \o trimSlashes(sub)

userRootPath(dataRoot, rootSubdir, username) ==
  joinClean(dataRoot, IF rootSubdir = <<"">> THEN <<username>> ELSE rootSubdir)

(* normalizeAndValidateUser.  Backslashes are refused as well.             *)
ValidSubdir_Dots(sub) == ~Rooted(sub)                         \* mutant
ValidSubdir(sub) == (\A i \in DOMAIN sub : sub[i] # "..") /\ ~Rooted(sub)
-------------------------------------------------------------------------------
(* The server's path of a user's secret: a prefix with "/data/" in it is   *)
(* taken as it is.                                                         *)
HasData_Anywhere(p) == \E i \in DOMAIN p : p[i] = "data"      \* mutant
HasData(p) == \E i \in 2 .. Len(p) - 1 : p[i] = "data"

kvV2DataPath(prefix, username) ==
  LET p == trimSlashes(prefix) IN
  IF HasData(p) THEN Append(p, username)
  ELSE <<p[1], "data">> \o Tail(p) \o <<username>>

(* The API's; it refuses a prefix without a mount and a path.              *)
kv2DataPath(prefix, username) ==
  LET base == trimSlashes(prefix) IN
  IF Len(base) < 2 THEN <<>>
  ELSE <<base[1], "data">> \o trimSlashes(Tail(base)) \o <<username>>
==============================================================================
