------------------------------- MODULE Folders -------------------------------
(***************************************************************************)
(* Uploads in a tree of directories: what Filewrite does before it has a   *)
(* file (MkdirAll, the WalkDir of dirUsage, which reads one directory      *)
(* after the other), Filecmd for directories (Mkdir, Rmdir, Rename), and   *)
(* what becomes of the temporary files in a directory that is renamed.     *)
(*                                                                         *)
(* Directories lie side by side below the user's root.  What files hold,   *)
(* WriteAt and the faults are the business of Upload; here a file is       *)
(* something that is counted, moved, published or left behind.  Each       *)
(* upload has a session of its own, and commands come from further ones,   *)
(* so that nothing waits for anything: sessions with less to do at once    *)
(* have fewer behaviours.                                                  *)
(***************************************************************************)
EXTENDS Naturals, FiniteSets

CONSTANTS
  Handles,     \* upload handles; a closed handle is used again
  Dirs,        \* directory names below the root
  Names,       \* file names in a directory
  Targets,     \* Handles -> SUBSET (Dirs \X Names)
  Inodes,      \* files the file system can hold at once
  QuotaFiles,  \* jailedFS.quotaFiles
  None         \* no file, no path

Entries == {"final", "uploading"} \X Dirs \X Names
Final(p) == <<"final", p[1], p[2]>>

Tmp_OneDirectory(p) == <<"uploading", CHOOSE d \in Dirs : TRUE, p[2]>>   \* mutant
Tmp(p) == <<"uploading", p[1], p[2]>>

ASSUME FoldersAssumption ==
  /\ Targets \in [Handles -> SUBSET (Dirs \X Names)]
  /\ QuotaFiles \in Nat
  /\ None \notin Inodes \cup (Dirs \X Names)

VARIABLES
  dirs,    \* the directories there are
  tree,    \* entry -> inode
  pc,      \* handle -> where its Filewrite or Close stands
  walk,    \* handle -> the dirUsage walk of its Filewrite
  w,       \* handle -> its writer
  strays   \* (history) temporary files moved with their directory

vars == <<dirs, tree, pc, walk, w, strays>>

(* owed is history: what has been there since the walk began and has not   *)
(* been counted.                                                           *)
NoWalk == [dirs |-> {}, todo |-> {}, files |-> 0, owed |-> {}]
NoWriter == [path |-> None, f |-> None, exceeded |-> FALSE]

Init ==
  /\ dirs = {}
  /\ tree = [e \in Entries |-> None]
  /\ pc = [h \in Handles |-> "idle"]
  /\ walk = [h \in Handles |-> NoWalk]
  /\ w = [h \in Handles |-> NoWriter]
  /\ strays = {}
-------------------------------------------------------------------------------
Present(t) == {e \in Entries : t[e] # None}
Within(d) == {e \in Entries : e[2] = d}
Empty(d) == Within(d) \cap Present(tree) = {}
Referenced == {tree[e] : e \in Entries} \cup {w[h].f : h \in Handles}

(* The directory tree changes under the walks that are under way.          *)
Becomes(t) ==
  /\ tree' = t
  /\ walk' = [h \in Handles |->
       IF pc'[h] = "walk" THEN [walk[h] EXCEPT !.owed = @ \cap Present(t)] ELSE NoWalk]

Unlink(e) == Becomes([tree EXCEPT ![e] = None])

At(h, from, to) == pc[h] = from /\ pc' = [pc EXCEPT ![h] = to]

Release(h) ==
  /\ pc' = [pc EXCEPT ![h] = "idle"]
  /\ walk' = [walk EXCEPT ![h] = NoWalk]
  /\ w' = [w EXCEPT ![h] = NoWriter]
-------------------------------------------------------------------------------
(* jailedFS.Filewrite: the parent is made if it is missing.                *)
MakeParent(h, p) ==
  /\ At(h, "idle", "list")
  /\ dirs' = dirs \cup {p[1]}
  /\ w' = [w EXCEPT ![h].path = p]
  /\ UNCHANGED <<tree, walk>>

ListRoot(h) ==
  /\ At(h, "list", "walk")
  /\ walk' = [walk EXCEPT ![h] = [dirs |-> dirs, todo |-> {}, files |-> 0, owed |-> Present(tree)]]
  /\ UNCHANGED <<dirs, tree, w>>

(* The walk is done with one directory before it reads the next.  One that *)
(* has gone since the root was listed fails the walk.                      *)
ListDir_Skip(h, d) ==                     \* mutant: SkipDir for directories
  /\ pc[h] = "walk" /\ d \in walk[h].dirs
  /\ walk' = [walk EXCEPT ![h].dirs = @ \ {d}]
  /\ UNCHANGED <<dirs, tree, pc, w>>

ListDir(h, d) ==
  /\ pc[h] = "walk" /\ walk[h].todo = {} /\ d \in walk[h].dirs
  /\ \/ d \notin dirs /\ Release(h)
     \/ /\ d \in dirs
        /\ walk' = [walk EXCEPT ![h].dirs = @ \ {d}, ![h].todo = Within(d) \cap Present(tree)]
        /\ UNCHANGED <<pc, w>>
  /\ UNCHANGED <<dirs, tree>>

(* So does a file.                                                         *)
StatFile(h, e) ==
  /\ pc[h] = "walk" /\ e \in walk[h].todo
  /\ \/ tree[e] = None /\ Release(h)
     \/ /\ tree[e] # None
        /\ walk' = [walk EXCEPT ![h].todo = @ \ {e}, ![h].owed = @ \ {e}, ![h].files = @ + 1]
        /\ UNCHANGED <<pc, w>>
  /\ UNCHANGED <<dirs, tree>>

Counted(h) == pc[h] = "walk" /\ walk[h].dirs = {} /\ walk[h].todo = {}
FilesExhausted(h) == QuotaFiles > 0 /\ walk[h].files >= QuotaFiles

RefuseOpen(h) ==
  /\ Counted(h) /\ FilesExhausted(h)
  /\ Release(h)
  /\ UNCHANGED <<dirs, tree>>

RemoveOldTemp(h) ==
  /\ Counted(h) /\ ~FilesExhausted(h)
  /\ At(h, "walk", "create")
  /\ Unlink(Tmp(w[h].path))
  /\ UNCHANGED <<dirs, w>>

(* The parent may have gone since it was made.                             *)
OpenTemp(h) ==
  LET t == Tmp(w[h].path) IN
  /\ pc[h] = "create"
  /\ \/ /\ w[h].path[1] \notin dirs
        /\ Release(h)
        /\ UNCHANGED tree
     \/ /\ w[h].path[1] \in dirs
        /\ pc' = [pc EXCEPT ![h] = "open"]
        /\ \E i \in Inodes :
             /\ IF tree[t] = None THEN i \notin Referenced ELSE i = tree[t]
             /\ Becomes([tree EXCEPT ![t] = i])
             /\ w' = [w EXCEPT ![h].f = i]
  /\ UNCHANGED dirs
-------------------------------------------------------------------------------
(* atomicQuotaWriterAt: a WriteAt over quota, and Close.                   *)
WriteOverQuota_Keeps(h) ==                \* mutant: the temp file stays
  /\ pc[h] = "open" /\ ~w[h].exceeded
  /\ w' = [w EXCEPT ![h].exceeded = TRUE, ![h].f = None]
  /\ UNCHANGED <<dirs, tree, pc, walk>>

WriteOverQuota(h) ==
  /\ pc[h] = "open" /\ ~w[h].exceeded
  /\ w' = [w EXCEPT ![h].exceeded = TRUE, ![h].f = None]
  /\ UNCHANGED <<dirs, pc>>
  /\ Unlink(Tmp(w[h].path))

CloseExceeded(h) ==
  /\ pc[h] = "open" /\ w[h].exceeded
  /\ Release(h)
  /\ UNCHANGED <<dirs, tree>>

Closed(h) == pc' = [pc EXCEPT ![h] = "idle"] /\ w' = [w EXCEPT ![h] = NoWriter]

CloseCommit(h) ==
  LET p == w[h].path IN
  /\ pc[h] = "open" /\ ~w[h].exceeded /\ tree[Tmp(p)] # None
  /\ Closed(h)
  /\ Becomes([tree EXCEPT ![Final(p)] = tree[Tmp(p)], ![Tmp(p)] = None])
  /\ UNCHANGED dirs

CloseRenameFails(h) ==
  /\ pc[h] = "open" /\ ~w[h].exceeded /\ tree[Tmp(w[h].path)] = None
  /\ pc' = [pc EXCEPT ![h] = "abandon"]
  /\ w' = [w EXCEPT ![h].f = None]
  /\ UNCHANGED <<dirs, tree, walk>>

CloseRemove(h) ==
  /\ pc[h] = "abandon"
  /\ Closed(h)
  /\ Unlink(Tmp(w[h].path))
  /\ UNCHANGED dirs
-------------------------------------------------------------------------------
(* jailedFS.Filecmd, with what the file system refuses left out: removing  *)
(* a directory that is not empty, renaming into a missing one or onto one  *)
(* that is not empty (onto an empty one succeeds if it is made after       *)
(* os.Rename has looked).  Clients name no temporary files.                *)
Remove(p) ==
  /\ tree[Final(p)] # None
  /\ UNCHANGED <<dirs, pc, w>>
  /\ Unlink(Final(p))

Rename(p, q) ==
  /\ tree[Final(p)] # None /\ q[1] \in dirs
  /\ UNCHANGED <<dirs, pc, w>>
  /\ Becomes([tree EXCEPT ![Final(q)] = tree[Final(p)], ![Final(p)] = None])

Mkdir(d) ==
  /\ d \notin dirs
  /\ dirs' = dirs \cup {d}
  /\ UNCHANGED <<tree, pc, walk, w>>

Rmdir(d) ==
  /\ d \in dirs /\ Empty(d)
  /\ dirs' = dirs \ {d}
  /\ UNCHANGED <<tree, pc, walk, w>>

RenameDir(d, e) ==
  /\ d \in dirs /\ Empty(e)
  /\ dirs' = (dirs \ {d}) \cup {e}
  /\ UNCHANGED <<pc, w>>
  /\ Becomes([f \in Entries |-> CASE f[2] = d -> None
                                  [] f[2] = e -> tree[<<f[1], d, f[3]>>]
                                  [] OTHER -> tree[f]])
-------------------------------------------------------------------------------
Upload(h) ==
  \/ \E p \in Targets[h] : MakeParent(h, p)
  \/ ListRoot(h) \/ \E d \in Dirs : ListDir(h, d)
  \/ \E e \in Entries : StatFile(h, e)
  \/ RefuseOpen(h) \/ RemoveOldTemp(h) \/ OpenTemp(h) \/ WriteOverQuota(h)
  \/ CloseExceeded(h) \/ CloseCommit(h) \/ CloseRenameFails(h) \/ CloseRemove(h)

Command ==
  \/ \E p \in Dirs \X Names : Remove(p) \/ \E q \in (Dirs \X Names) \ {p} : Rename(p, q)
  \/ \E d \in Dirs : Mkdir(d) \/ Rmdir(d) \/ \E e \in Dirs \ {d} : RenameDir(d, e)

(* History: a file that has come to another temporary name.                *)
Carried == {i \in Inodes : \E p, q \in Dirs \X Names :
              p # q /\ tree[Tmp(p)] = i /\ tree'[Tmp(q)] = i}

Next ==
  /\ (\E h \in Handles : Upload(h)) \/ Command
  /\ strays' = (strays \cup Carried) \cap Referenced'

Spec == Init /\ [][Next]_vars
-------------------------------------------------------------------------------
(* Properties. *)

(* Every variable has its type, and a directory that is not there has no   *)
(* files.                                                                  *)
TypeOK ==
  /\ dirs \subseteq Dirs /\ strays \subseteq Inodes
  /\ tree \in [Entries -> Inodes \cup {None}]
  /\ \A e \in Present(tree) : e[2] \in dirs
  /\ pc \in [Handles -> {"idle", "list", "walk", "create", "open", "abandon"}]
  /\ walk \in [Handles -> [dirs : SUBSET Dirs, todo : SUBSET Entries, files : Nat,
                           owed : SUBSET Entries]]
  /\ w \in [Handles -> [path : (Dirs \X Names) \cup {None}, f : Inodes \cup {None},
                        exceeded : BOOLEAN]]

(* The walk reads directory after directory while files and directories   *)
(* come, go and move; when it ends without an error, it has counted each   *)
(* file that kept its name all along.  So an upload is let in over files   *)
(* only if they moved (quota.go:17-34, fs.go:87-98).                       *)
CountsWhatStayed ==
  \A h \in Handles : Counted(h) => walk[h].owed = {}

(* A temporary file is some upload's to commit or to remove, unless it was *)
(* carried away by a rename of its directory.  Making, removing and        *)
(* renaming directories otherwise leaves none behind (fs.go:82-106,        *)
(* 134-163; quota.go:63-67, 80-88).                                        *)
Owns(h, p) ==
  /\ w[h].path = p
  /\ \/ pc[h] = "abandon"
     \/ pc[h] = "open" /\ ~w[h].exceeded

TempTraced ==
  \A p \in Dirs \X Names :
    tree[Tmp(p)] \notin strays \cup {None} => \E h \in Handles : Owns(h, p)

(* Uploads of different paths: what Close publishes is the file its own    *)
(* handle wrote, whatever directories are renamed over one another, unless *)
(* that file was carried away (quota.go:84-85).                            *)
CommitsOwnFile ==
  [][\A h \in Handles : CloseCommit(h) /\ w[h].f \notin strays =>
       tree[Tmp(w[h].path)] = w[h].f]_vars
==============================================================================
