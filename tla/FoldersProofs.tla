---------------------------- MODULE FoldersProofs ----------------------------
(***************************************************************************)
(* The properties of Folders, for every number of uploads, directories,    *)
(* names and files.                                                        *)
(***************************************************************************)
EXTENDS Folders, TLAPS

Paths == Dirs \X Names

(* Where TypeOK says all it says of one of the variables.                  *)
TreeOK ==
  /\ dirs \subseteq Dirs
  /\ tree \in [Entries -> Inodes \cup {None}]
  /\ \A e \in Entries : tree[e] # None => e[2] \in dirs

PcOK == pc \in [Handles -> {"idle", "list", "walk", "create", "open", "abandon"}]

WalkOK == walk \in [Handles -> [dirs : SUBSET Dirs, todo : SUBSET Entries, files : Nat,
                                owed : SUBSET Entries]]

Writing(h) == pc[h] = "open" /\ ~w[h].exceeded

(* A handle at work has a path of its own, and a writer that has not       *)
(* exceeded its quota has a file.                                          *)
WriterOK ==
  /\ w \in [Handles -> [path : Paths \cup {None}, f : Inodes \cup {None},
                        exceeded : BOOLEAN]]
  /\ \A h \in Handles : /\ pc[h] # "idle" => w[h].path \in Targets[h]
                        /\ w[h].exceeded => pc[h] = "open"
                        /\ Writing(h) => w[h].f \in Inodes

Base == TreeOK /\ PcOK /\ WalkOK /\ WriterOK

(* What is owed is there, and still to be read.                            *)
WalkSound ==
  \A h \in Handles : pc[h] = "walk" =>
    \A e \in walk[h].owed :
      tree[e] # None /\ (e \in walk[h].todo \/ e[2] \in walk[h].dirs)

(* A writer's file is at its temporary name, unless it was carried away.   *)
OwnTemp ==
  \A h \in Handles : Writing(h) /\ w[h].f \notin strays => tree[Tmp(w[h].path)] = w[h].f

Disjoint == \A g \in Handles : \A h \in Handles \ {g} : Targets[g] \cap Targets[h] = {}
-------------------------------------------------------------------------------
(* Names, and steps on the tree. *)

(* A path has two entries, both in its directory, and no other path's.     *)
LEMMA EntryNames ==
  \A p \in Paths :
    /\ Final(p) \in Entries /\ Final(p)[2] = p[1]
    /\ Tmp(p) \in Entries /\ Tmp(p)[2] = p[1]
    /\ \A q \in Paths : Final(p) # Tmp(q) /\ (Tmp(p) = Tmp(q) => p = q)
BY DEF Paths, Final, Tmp, Entries

LEMMA EntryDirs == \A e \in Entries : e[2] \in Dirs
BY DEF Entries

(* The path of a handle at work.                                           *)
LEMMA PathOf ==
  ASSUME WriterOK, NEW h \in Handles, pc[h] # "idle"
  PROVE  w[h].path \in Targets[h] /\ w[h].path \in Paths
BY FoldersAssumption DEF WriterOK, Paths

(* The walks under way remain walks.                                       *)
LEMMA WalksGoOn ==
  ASSUME WalkOK, NEW t, Becomes(t)
  PROVE  WalkOK'
<1>1. NoWalk \in [dirs : SUBSET Dirs, todo : SUBSET Entries, files : Nat, owed : SUBSET Entries]
  BY DEF NoWalk
<1> QED  BY <1>1 DEF WalkOK, Becomes

(* Removing an entry.                                                      *)
LEMMA UnlinkTree ==
  ASSUME TreeOK, NEW e \in Entries, Unlink(e), UNCHANGED dirs
  PROVE  TreeOK'
BY DEF TreeOK, Unlink, Becomes

(* A walk or a writer is given up.                                         *)
LEMMA Released ==
  ASSUME Base, NEW h \in Handles, Release(h)
  PROVE  PcOK' /\ WalkOK' /\ WriterOK'
<1>1. PcOK'
  BY DEF Release, Base, PcOK
<1>2. WalkOK'
  BY DEF Release, Base, WalkOK, NoWalk
<1>3. WriterOK'
  <2>1. w' = [w EXCEPT ![h] = NoWriter] /\ pc' = [pc EXCEPT ![h] = "idle"]
    BY DEF Release
  <2>2. WriterOK /\ PcOK
    BY DEF Base
  <2> QED  BY <2>1, <2>2 DEF WriterOK, PcOK, NoWriter, Writing
<1> QED  BY <1>1, <1>2, <1>3

(* So it is when Close is through.                                         *)
LEMMA ClosedWriter ==
  ASSUME Base, NEW h \in Handles, Closed(h)
  PROVE  PcOK' /\ WriterOK'
<1>1. w' = [w EXCEPT ![h] = NoWriter] /\ pc' = [pc EXCEPT ![h] = "idle"] /\ WriterOK /\ PcOK
  BY DEF Closed, Base
<1> QED  BY <1>1 DEF WriterOK, PcOK, NoWriter, Writing
-------------------------------------------------------------------------------
(* Types, action by action. *)

LEMMA InitBase == Init => Base
BY FoldersAssumption
   DEF Init, Base, TreeOK, PcOK, WalkOK, WriterOK, NoWalk, NoWriter, Writing

(* Filewrite until the directory has been counted.                         *)
LEMMA WalkBase ==
  ASSUME Base, NEW h \in Handles,
         \/ \E p \in Targets[h] : MakeParent(h, p)
         \/ ListRoot(h)
         \/ \E d \in Dirs : ListDir(h, d)
         \/ \E e \in Entries : StatFile(h, e)
         \/ RefuseOpen(h)
  PROVE  Base'
<1>1. ASSUME NEW p \in Targets[h], MakeParent(h, p) PROVE Base'
  <2>1. p \in Paths /\ p[1] \in Dirs
    BY FoldersAssumption DEF Paths
  <2>2. TreeOK'
    BY <1>1, <2>1 DEF Base, TreeOK, MakeParent
  <2>3. PcOK' /\ WalkOK'
    BY <1>1 DEF Base, PcOK, WalkOK, MakeParent, At
  <2>4. WriterOK'
    <3>1. w' = [w EXCEPT ![h].path = p] /\ pc[h] = "idle" /\ pc' = [pc EXCEPT ![h] = "list"]
      BY <1>1 DEF MakeParent, At
    <3> QED  BY <2>1, <3>1 DEF Base, PcOK, WriterOK, Writing
  <2> QED  BY <2>2, <2>3, <2>4 DEF Base
<1>2. CASE ListRoot(h)
  <2>1. TreeOK'
    BY <1>2 DEF Base, TreeOK, ListRoot
  <2>2. PcOK'
    BY <1>2 DEF Base, PcOK, ListRoot, At
  <2>3. WalkOK'
    BY <1>2 DEF Base, TreeOK, WalkOK, ListRoot, Present
  <2>4. WriterOK'
    BY <1>2 DEF Base, PcOK, WriterOK, ListRoot, At, Writing
  <2> QED  BY <2>1, <2>2, <2>3, <2>4 DEF Base
<1>3. ASSUME NEW d \in Dirs, ListDir(h, d) PROVE Base'
  <2>1. TreeOK'
    BY <1>3 DEF Base, TreeOK, ListDir
  <2>2. CASE Release(h)
    BY <2>1, <2>2, Released DEF Base
  <2>3. CASE ~Release(h)
    <3>1. /\ walk' = [walk EXCEPT ![h].dirs = @ \ {d}, ![h].todo = Within(d) \cap Present(tree)]
          /\ UNCHANGED <<pc, w>>
      BY <1>3, <2>3 DEF ListDir
    <3>2. Within(d) \cap Present(tree) \in SUBSET Entries
      BY DEF Within
    <3>3. WalkOK'
      BY <3>1, <3>2 DEF Base, WalkOK
    <3> QED  BY <2>1, <3>1, <3>3 DEF Base, PcOK, WriterOK, Writing
  <2> QED  BY <2>2, <2>3
<1>4. ASSUME NEW e \in Entries, StatFile(h, e) PROVE Base'
  <2>1. TreeOK'
    BY <1>4 DEF Base, TreeOK, StatFile
  <2>2. CASE Release(h)
    BY <2>1, <2>2, Released DEF Base
  <2>3. CASE ~Release(h)
    <3>1. /\ walk' = [walk EXCEPT ![h].todo = @ \ {e}, ![h].owed = @ \ {e}, ![h].files = @ + 1]
          /\ UNCHANGED <<pc, w>>
      BY <1>4, <2>3 DEF StatFile
    <3>2. WalkOK'
      BY <3>1 DEF Base, WalkOK
    <3> QED  BY <2>1, <3>1, <3>2 DEF Base, PcOK, WriterOK, Writing
  <2> QED  BY <2>2, <2>3
<1>5. CASE RefuseOpen(h)
  <2>1. TreeOK'
    BY <1>5 DEF Base, TreeOK, RefuseOpen
  <2> QED  BY <1>5, <2>1, Released DEF Base, RefuseOpen
<1> QED  BY <1>1, <1>2, <1>3, <1>4, <1>5

(* The rest of Filewrite, and WriteAt.                                     *)
LEMMA OpenBase ==
  ASSUME Base, NEW h \in Handles, RemoveOldTemp(h) \/ OpenTemp(h) \/ WriteOverQuota(h)
  PROVE  Base'
<1>1. pc[h] # "idle"
  BY DEF RemoveOldTemp, At, OpenTemp, WriteOverQuota
<1>2. w[h].path \in Paths
  BY <1>1, PathOf DEF Base
<1>3. CASE RemoveOldTemp(h)
  <2>1. TreeOK' /\ WalkOK'
    BY <1>2, <1>3, EntryNames, UnlinkTree, WalksGoOn DEF Base, RemoveOldTemp, Unlink
  <2>2. PcOK' /\ WriterOK'
    BY <1>3 DEF Base, PcOK, WriterOK, RemoveOldTemp, At, Writing
  <2> QED  BY <2>1, <2>2 DEF Base
<1>4. CASE OpenTemp(h)
  <2>1. CASE w[h].path[1] \notin dirs
    <3>1. TreeOK' /\ Release(h)
      BY <1>4, <2>1 DEF Base, TreeOK, OpenTemp
    <3> QED  BY <3>1, Released DEF Base
  <2>2. CASE w[h].path[1] \in dirs
    <3> DEFINE t == Tmp(w[h].path)
    <3>1. PICK i \in Inodes : /\ Becomes([tree EXCEPT ![t] = i])
                              /\ w' = [w EXCEPT ![h].f = i]
      BY <1>4, <2>2 DEF OpenTemp
    <3>2. pc' = [pc EXCEPT ![h] = "open"] /\ pc[h] = "create" /\ UNCHANGED dirs
      BY <1>4, <2>2 DEF OpenTemp
    <3>3. TreeOK'
      <4>1. t \in Entries /\ t[2] = w[h].path[1]
        BY <1>2, EntryNames
      <4> HIDE DEF t
      <4> QED  BY <2>2, <3>1, <3>2, <4>1 DEF Base, TreeOK, Becomes
    <3>4. WalkOK'
      BY <3>1, WalksGoOn DEF Base
    <3>5. PcOK' /\ WriterOK'
      BY <3>1, <3>2 DEF Base, PcOK, WriterOK, Writing
    <3> QED  BY <3>3, <3>4, <3>5 DEF Base
  <2> QED  BY <2>1, <2>2
<1>5. CASE WriteOverQuota(h)
  <2>1. TreeOK' /\ WalkOK'
    BY <1>2, <1>5, EntryNames, UnlinkTree, WalksGoOn DEF Base, WriteOverQuota, Unlink
  <2>2. w' = [w EXCEPT ![h].exceeded = TRUE, ![h].f = None] /\ UNCHANGED pc /\ pc[h] = "open"
    BY <1>5 DEF WriteOverQuota
  <2>3. PcOK' /\ WriterOK'
    BY <2>2 DEF Base, PcOK, WriterOK, Writing
  <2> QED  BY <2>1, <2>3 DEF Base
<1> QED  BY <1>3, <1>4, <1>5

(* Close.                                                                  *)
LEMMA CloseBase ==
  ASSUME Base, NEW h \in Handles,
         CloseExceeded(h) \/ CloseCommit(h) \/ CloseRenameFails(h) \/ CloseRemove(h)
  PROVE  Base'
<1>1. pc[h] # "idle"
  BY DEF CloseExceeded, CloseCommit, CloseRenameFails, CloseRemove
<1>2. w[h].path \in Paths
  BY <1>1, PathOf DEF Base
<1>3. CASE CloseExceeded(h)
  <2>1. TreeOK' /\ Release(h)
    BY <1>3 DEF Base, TreeOK, CloseExceeded
  <2> QED  BY <2>1, Released DEF Base
<1>4. CASE CloseCommit(h)
  <2> DEFINE t == Tmp(w[h].path)
             f == Final(w[h].path)
  <2>1. /\ tree[t] # None /\ Becomes([tree EXCEPT ![f] = tree[t], ![t] = None])
        /\ Closed(h) /\ UNCHANGED dirs
    BY <1>4 DEF CloseCommit
  <2>2. t \in Entries /\ f \in Entries /\ f[2] = t[2]
    BY <1>2, EntryNames
  <2>3. TreeOK'
    <3> HIDE DEF t, f
    <3> QED  BY <2>1, <2>2 DEF Base, TreeOK, Becomes
  <2>4. WalkOK'
    BY <2>1, WalksGoOn DEF Base
  <2> QED  BY <2>1, <2>3, <2>4, ClosedWriter DEF Base
<1>5. CASE CloseRenameFails(h)
  <2>1. TreeOK' /\ WalkOK'
    BY <1>5 DEF Base, TreeOK, WalkOK, CloseRenameFails
  <2>2. /\ pc' = [pc EXCEPT ![h] = "abandon"] /\ w' = [w EXCEPT ![h].f = None]
        /\ ~w[h].exceeded /\ pc[h] = "open"
    BY <1>5 DEF CloseRenameFails
  <2>3. PcOK' /\ WriterOK'
    BY <2>2 DEF Base, PcOK, WriterOK, Writing
  <2> QED  BY <2>1, <2>3 DEF Base
<1>6. CASE CloseRemove(h)
  <2>1. TreeOK' /\ WalkOK'
    BY <1>2, <1>6, EntryNames, UnlinkTree, WalksGoOn DEF Base, CloseRemove, Unlink
  <2> QED  BY <1>6, <2>1, ClosedWriter DEF Base, CloseRemove
<1> QED  BY <1>3, <1>4, <1>5, <1>6

(* Commands.                                                               *)
LEMMA CommandBase ==
  ASSUME Base, Command
  PROVE  Base'
<1>1. PcOK' /\ WriterOK'
  BY DEF Base, PcOK, WriterOK, Writing, Command, Remove, Rename, Mkdir, Rmdir, RenameDir
<1>2. ASSUME NEW p \in Paths, Remove(p) PROVE TreeOK' /\ WalkOK'
  BY <1>2, EntryNames, UnlinkTree, WalksGoOn DEF Base, Remove, Unlink
<1>3. ASSUME NEW p \in Paths, NEW q \in Paths, Rename(p, q) PROVE TreeOK' /\ WalkOK'
  <2>1. /\ Becomes([tree EXCEPT ![Final(q)] = tree[Final(p)], ![Final(p)] = None])
        /\ q[1] \in dirs /\ UNCHANGED dirs
    BY <1>3 DEF Rename
  <2>2. Final(p) \in Entries /\ Final(q) \in Entries /\ Final(q)[2] = q[1]
    BY EntryNames
  <2>3. TreeOK'
    BY <2>1, <2>2 DEF Base, TreeOK, Becomes
  <2> QED  BY <2>1, <2>3, WalksGoOn DEF Base
<1>4. ASSUME NEW d \in Dirs, Mkdir(d) \/ Rmdir(d) PROVE TreeOK' /\ WalkOK'
  BY <1>4 DEF Base, TreeOK, WalkOK, Mkdir, Rmdir, Empty, Within, Present
<1>5. ASSUME NEW d \in Dirs, NEW e \in Dirs \ {d}, RenameDir(d, e) PROVE TreeOK' /\ WalkOK'
  <2> DEFINE t == [f \in Entries |-> CASE f[2] = d -> None
                                        [] f[2] = e -> tree[<<f[1], d, f[3]>>]
                                        [] OTHER -> tree[f]]
  <2>1. Becomes(t) /\ dirs' = (dirs \ {d}) \cup {e}
    BY <1>5 DEF RenameDir
  <2>2. \A f \in Entries : <<f[1], d, f[3]>> \in Entries
    BY DEF Entries
  <2>3. TreeOK'
    <3>1. tree' = t
      BY <2>1 DEF Becomes
    <3>2. t \in [Entries -> Inodes \cup {None}]
      BY <2>2 DEF Base, TreeOK
    <3>3. \A f \in Entries : t[f] # None => f[2] \in (dirs \ {d}) \cup {e}
      BY DEF Base, TreeOK
    <3> QED  BY <2>1, <3>1, <3>2, <3>3 DEF Base, TreeOK
  <2> QED  BY <2>1, <2>3, WalksGoOn DEF Base
<1>6. TreeOK' /\ WalkOK'
  BY <1>2, <1>3, <1>4, <1>5 DEF Command, Paths
<1> QED  BY <1>1, <1>6 DEF Base

LEMMA NextBase == Base /\ [Next]_vars => Base'
<1> SUFFICES ASSUME Base, [Next]_vars PROVE Base'
  OBVIOUS
<1>1. CASE UNCHANGED vars
  BY <1>1 DEF vars, Base, TreeOK, PcOK, WalkOK, WriterOK, Writing
<1>2. ASSUME NEW h \in Handles, Upload(h) PROVE Base'
  BY <1>2, WalkBase, OpenBase, CloseBase DEF Upload
<1> QED  BY <1>1, <1>2, CommandBase DEF Next

LEMMA InvBase == Spec => []Base
BY InitBase, NextBase, PTL DEF Spec

(* Every variable has its type in every reachable state, and files are in  *)
(* directories that are there.                                             *)
THEOREM FoldersTypeCorrect == Spec => []TypeOK
<1> DEFINE Strays == strays \subseteq Inodes
<1>1. Init => Strays
  BY DEF Init
<1>2. Strays /\ [Next]_vars => Strays'
  BY DEF Next, vars, Carried
<1>3. Spec => []Strays
  BY <1>1, <1>2, PTL DEF Spec
<1>4. Base /\ Strays => TypeOK
  BY DEF Base, TreeOK, PcOK, WalkOK, WriterOK, TypeOK, Present, Paths
<1> QED  BY <1>3, <1>4, InvBase, PTL
-------------------------------------------------------------------------------
(* The walk. *)

LEMMA TreeKeepsWalks ==
  ASSUME Base, WalkSound, NEW t, Becomes(t),
         \A g \in Handles : pc'[g] = "walk" => pc[g] = "walk"
  PROVE  WalkSound'
<1> SUFFICES ASSUME NEW g \in Handles, pc'[g] = "walk", NEW e \in walk'[g].owed
             PROVE  tree'[e] # None /\ (e \in walk'[g].todo \/ e[2] \in walk'[g].dirs)
  BY DEF WalkSound
<1>1. walk'[g] = [walk[g] EXCEPT !.owed = @ \cap Present(t)] /\ tree' = t
  BY DEF Becomes
<1>2. walk[g] \in [dirs : SUBSET Dirs, todo : SUBSET Entries, files : Nat, owed : SUBSET Entries]
  BY DEF Base, WalkOK
<1>3. /\ e \in walk[g].owed /\ e \in Present(t)
      /\ walk'[g].todo = walk[g].todo /\ walk'[g].dirs = walk[g].dirs
  BY <1>1, <1>2
<1>4. e \in walk[g].todo \/ e[2] \in walk[g].dirs
  BY <1>3 DEF WalkSound
<1> QED  BY <1>1, <1>3, <1>4 DEF Present

LEMMA ReleaseKeepsWalks ==
  ASSUME Base, WalkSound, NEW h \in Handles, Release(h), UNCHANGED tree
  PROVE  WalkSound'
BY DEF Base, PcOK, WalkOK, WalkSound, Release

(* What is listed and stat'ed is no longer owed.                           *)
LEMMA WalkingSound ==
  ASSUME Base, WalkSound, NEW h \in Handles,
         \/ \E d \in Dirs : ListDir(h, d)
         \/ \E e \in Entries : StatFile(h, e)
  PROVE  WalkSound'
<1>1. CASE Release(h)
  BY <1>1, ReleaseKeepsWalks DEF ListDir, StatFile
<1>2. ASSUME NEW d \in Dirs, ListDir(h, d), ~Release(h) PROVE WalkSound'
  <2>1. /\ walk' = [walk EXCEPT ![h].dirs = @ \ {d}, ![h].todo = Within(d) \cap Present(tree)]
        /\ UNCHANGED <<pc, tree>> /\ walk[h].todo = {}
    BY <1>2 DEF ListDir
  <2> SUFFICES ASSUME NEW g \in Handles, pc[g] = "walk", NEW e \in walk'[g].owed
               PROVE  tree[e] # None /\ (e \in walk'[g].todo \/ e[2] \in walk'[g].dirs)
    BY <2>1 DEF WalkSound
  <2>2. walk[g] \in [dirs : SUBSET Dirs, todo : SUBSET Entries, files : Nat, owed : SUBSET Entries]
    BY DEF Base, WalkOK
  <2>3. e \in walk[g].owed /\ e \in Entries
    BY <2>1, <2>2 DEF Base, WalkOK
  <2>4. tree[e] # None /\ (e \in walk[g].todo \/ e[2] \in walk[g].dirs)
    BY <2>3 DEF WalkSound
  <2>5. CASE g # h
    BY <2>1, <2>4, <2>5 DEF Base, WalkOK
  <2>6. CASE g = h
    <3>1. /\ walk'[h].dirs = walk[h].dirs \ {d}
          /\ walk'[h].todo = Within(d) \cap Present(tree)
      BY <2>1, <2>2, <2>6 DEF Base, WalkOK
    <3>2. e[2] \in walk[h].dirs
      BY <2>1, <2>4, <2>6
    <3> QED  BY <2>3, <2>4, <2>6, <3>1, <3>2 DEF Within, Present
  <2> QED  BY <2>5, <2>6
<1>3. ASSUME NEW f \in Entries, StatFile(h, f), ~Release(h) PROVE WalkSound'
  <2>1. /\ walk' = [walk EXCEPT ![h].todo = @ \ {f}, ![h].owed = @ \ {f}, ![h].files = @ + 1]
        /\ UNCHANGED <<pc, tree>>
    BY <1>3 DEF StatFile
  <2> SUFFICES ASSUME NEW g \in Handles, pc[g] = "walk", NEW e \in walk'[g].owed
               PROVE  tree[e] # None /\ (e \in walk'[g].todo \/ e[2] \in walk'[g].dirs)
    BY <2>1 DEF WalkSound
  <2>2. walk[g] \in [dirs : SUBSET Dirs, todo : SUBSET Entries, files : Nat, owed : SUBSET Entries]
    BY DEF Base, WalkOK
  <2>3. CASE g # h
    BY <2>1, <2>3 DEF Base, WalkOK, WalkSound
  <2>4. CASE g = h
    <3>1. /\ walk'[h].owed = walk[h].owed \ {f} /\ walk'[h].todo = walk[h].todo \ {f}
          /\ walk'[h].dirs = walk[h].dirs
      BY <2>1, <2>2, <2>4 DEF Base, WalkOK
    <3> QED  BY <2>4, <3>1 DEF WalkSound
  <2> QED  BY <2>3, <2>4
<1> QED  BY <1>1, <1>2, <1>3

LEMMA NextWalks == Base /\ WalkSound /\ [Next]_vars => WalkSound'
<1> SUFFICES ASSUME Base, WalkSound, [Next]_vars PROVE WalkSound'
  OBVIOUS
<1>1. CASE UNCHANGED vars
  BY <1>1 DEF vars, WalkSound
<1>2. ASSUME NEW h \in Handles, Upload(h) PROVE WalkSound'
  <2>1. ASSUME NEW p \in Targets[h], MakeParent(h, p) PROVE WalkSound'
    BY <2>1 DEF Base, PcOK, WalkSound, MakeParent, At
  <2>2. CASE ListRoot(h)
    <3>1. /\ walk' = [walk EXCEPT ![h] = [dirs |-> dirs, todo |-> {}, files |-> 0,
                                          owed |-> Present(tree)]]
          /\ pc' = [pc EXCEPT ![h] = "walk"] /\ UNCHANGED tree
      BY <2>2 DEF ListRoot, At
    <3>2. \A e \in Present(tree) : tree[e] # None /\ e[2] \in dirs
      BY DEF Base, TreeOK, Present
    <3>3. /\ walk'[h].owed = Present(tree) /\ walk'[h].dirs = dirs
          /\ \A g \in Handles \ {h} : walk'[g] = walk[g] /\ pc'[g] = pc[g]
      BY <3>1 DEF Base, WalkOK, PcOK
    <3> QED  BY <3>1, <3>2, <3>3 DEF WalkSound
  <2>3. CASE (\E d \in Dirs : ListDir(h, d)) \/ \E e \in Entries : StatFile(h, e)
    BY <2>3, WalkingSound
  <2>4. CASE RefuseOpen(h) \/ CloseExceeded(h)
    BY <2>4, ReleaseKeepsWalks DEF RefuseOpen, CloseExceeded
  <2>5. CASE RemoveOldTemp(h)
    <3>1. \A g \in Handles : pc'[g] = "walk" => pc[g] = "walk"
      BY <2>5 DEF Base, PcOK, RemoveOldTemp, At
    <3> QED  BY <2>5, <3>1, TreeKeepsWalks DEF RemoveOldTemp, Unlink
  <2>6. CASE OpenTemp(h)
    <3>1. CASE Release(h) /\ UNCHANGED tree
      BY <3>1, ReleaseKeepsWalks
    <3>2. CASE ~(Release(h) /\ UNCHANGED tree)
      <4>1. pc' = [pc EXCEPT ![h] = "open"] /\ \E t : Becomes(t)
        BY <2>6, <3>2 DEF OpenTemp
      <4>2. \A g \in Handles : pc'[g] = "walk" => pc[g] = "walk"
        BY <4>1 DEF Base, PcOK
      <4> QED  BY <4>1, <4>2, TreeKeepsWalks
    <3> QED  BY <3>1, <3>2
  <2>7. CASE WriteOverQuota(h)
    BY <2>7, TreeKeepsWalks DEF WriteOverQuota, Unlink
  <2>8. CASE CloseCommit(h) \/ CloseRemove(h)
    <3>1. Closed(h) /\ \E t : Becomes(t)
      BY <2>8 DEF CloseCommit, CloseRemove, Unlink
    <3>2. \A g \in Handles : pc'[g] = "walk" => pc[g] = "walk"
      BY <3>1 DEF Base, PcOK, Closed
    <3> QED  BY <3>1, <3>2, TreeKeepsWalks
  <2>9. CASE CloseRenameFails(h)
    BY <2>9 DEF Base, PcOK, WalkSound, CloseRenameFails
  <2> QED  BY <1>2, <2>1, <2>2, <2>3, <2>4, <2>5, <2>6, <2>7, <2>8, <2>9 DEF Upload
<1>3. CASE Command
  <2>1. UNCHANGED pc /\ ((\E t : Becomes(t)) \/ UNCHANGED <<walk, tree>>)
    BY <1>3 DEF Command, Remove, Rename, Mkdir, Rmdir, RenameDir, Unlink
  <2> QED  BY <2>1, TreeKeepsWalks DEF WalkSound
<1> QED  BY <1>1, <1>2, <1>3 DEF Next

(* A walk that ends without an error has counted each file that kept its   *)
(* name all along, whatever uploads, commands and renames of directories   *)
(* there were meanwhile (quota.go:17-34).                                  *)
THEOREM WalksCountWhatStayed == Spec => []CountsWhatStayed
<1>1. Init => WalkSound
  BY DEF Init, WalkSound
<1>2. WalkSound => CountsWhatStayed
  BY DEF WalkSound, CountsWhatStayed, Counted
<1> QED  BY <1>1, <1>2, InvBase, NextWalks, PTL DEF Spec
-------------------------------------------------------------------------------
(* Temporary files. *)

(* A handle's step leaves the others where they are.                       *)
LEMMA OthersStay ==
  ASSUME Base, NEW g \in Handles, Upload(g), NEW h \in Handles \ {g}
  PROVE  pc'[h] = pc[h] /\ w'[h] = w[h]
<1>1. \/ Release(g)
      \/ Closed(g)
      \/ UNCHANGED w /\ \E to : pc' = [pc EXCEPT ![g] = to]
      \/ (\E to : pc' = [pc EXCEPT ![g] = to]) /\ \E p : w' = [w EXCEPT ![g].path = p]
      \/ (\E to : pc' = [pc EXCEPT ![g] = to]) /\ \E f : w' = [w EXCEPT ![g].f = f]
      \/ UNCHANGED <<pc, w>>
      \/ UNCHANGED pc /\ w' = [w EXCEPT ![g].exceeded = TRUE, ![g].f = None]
  BY Zenon DEF Upload, MakeParent, ListRoot, ListDir, StatFile, RefuseOpen, RemoveOldTemp,
               OpenTemp, WriteOverQuota, CloseExceeded, CloseCommit, CloseRenameFails,
               CloseRemove, At
<1> QED  BY <1>1 DEF Base, PcOK, WriterOK, Release, Closed

LEMMA CommandsStay == Command => UNCHANGED <<pc, w>>
BY DEF Command, Remove, Rename, Mkdir, Rmdir, RenameDir

(* A step of a handle touches no temporary entry but that of its path,     *)
(* and only OpenTemp puts a file there.                                    *)
LEMMA UploadTemps ==
  ASSUME Base, NEW h \in Handles, Upload(h), NEW p \in Paths, tree'[Tmp(p)] # tree[Tmp(p)]
  PROVE  /\ pc[h] # "idle" /\ w[h].path = p
         /\ tree'[Tmp(p)] # None => OpenTemp(h) /\ pc'[h] = "open"
<1> DEFINE t == Tmp(w[h].path)
           f == Final(w[h].path)
<1>1. \/ RemoveOldTemp(h) \/ WriteOverQuota(h) \/ CloseRemove(h)
      \/ CloseCommit(h)
      \/ OpenTemp(h) /\ ~UNCHANGED tree
  BY DEF Upload, MakeParent, ListRoot, ListDir, StatFile, RefuseOpen, CloseExceeded,
         CloseRenameFails
<1>2. pc[h] # "idle"
  BY <1>1 DEF RemoveOldTemp, At, WriteOverQuota, CloseRemove, CloseCommit, OpenTemp
<1>3. /\ w[h].path \in Paths /\ tree \in [Entries -> Inodes \cup {None}]
      /\ t \in Entries /\ f \in Entries /\ Tmp(p) \in Entries /\ f # Tmp(p)
      /\ t = Tmp(p) => w[h].path = p
  BY <1>2, PathOf, EntryNames DEF Base, TreeOK
<1>4. CASE RemoveOldTemp(h) \/ WriteOverQuota(h) \/ CloseRemove(h)
  <2>1. tree' = [tree EXCEPT ![t] = None]
    BY <1>4 DEF RemoveOldTemp, WriteOverQuota, CloseRemove, Unlink, Becomes
  <2> HIDE DEF t, f
  <2> QED  BY <1>2, <1>3, <2>1
<1>5. CASE CloseCommit(h)
  <2>1. tree' = [tree EXCEPT ![f] = tree[t], ![t] = None]
    BY <1>5 DEF CloseCommit, Becomes
  <2> HIDE DEF t, f
  <2> QED  BY <1>2, <1>3, <2>1
<1>6. CASE OpenTemp(h) /\ ~UNCHANGED tree
  <2>1. pc' = [pc EXCEPT ![h] = "open"] /\ \E i \in Inodes : tree' = [tree EXCEPT ![t] = i]
    BY <1>6 DEF OpenTemp, Becomes
  <2> HIDE DEF t, f
  <2> QED  BY <1>2, <1>3, <1>6, <2>1 DEF Base, PcOK
<1> QED  BY <1>1, <1>4, <1>5, <1>6

(* What a command does to a temporary entry: renaming its directory        *)
(* empties it, and fills another with what was in it.                      *)
LEMMA CommandTemps ==
  ASSUME Base, Command, NEW p \in Paths, tree'[Tmp(p)] # tree[Tmp(p)]
  PROVE  \E q \in Paths \ {p} :
           \/ tree[Tmp(p)] = None /\ tree'[Tmp(p)] = tree[Tmp(q)]
           \/ tree'[Tmp(p)] = None /\ tree'[Tmp(q)] = tree[Tmp(p)]
<1>1. tree \in [Entries -> Inodes \cup {None}] /\ Tmp(p) \in Entries
  BY EntryNames DEF Base, TreeOK
<1>2. ASSUME NEW q \in Paths, Remove(q) PROVE FALSE
  <2>1. tree' = [tree EXCEPT ![Final(q)] = None] /\ Final(q) # Tmp(p)
    BY <1>2, EntryNames DEF Remove, Unlink, Becomes
  <2> QED  BY <1>1, <2>1
<1>3. ASSUME NEW q \in Paths, NEW r \in Paths, Rename(q, r) PROVE FALSE
  <2>1. /\ tree' = [tree EXCEPT ![Final(r)] = tree[Final(q)], ![Final(q)] = None]
        /\ Final(q) # Tmp(p) /\ Final(r) # Tmp(p)
    BY <1>3, EntryNames DEF Rename, Becomes
  <2> QED  BY <1>1, <2>1
<1>4. PICK d \in Dirs, e \in Dirs : d # e /\ RenameDir(d, e)
  BY <1>2, <1>3 DEF Command, Paths, Mkdir, Rmdir
<1> DEFINE t == [f \in Entries |-> CASE f[2] = d -> None
                                      [] f[2] = e -> tree[<<f[1], d, f[3]>>]
                                      [] OTHER -> tree[f]]
<1>5. tree' = t /\ Empty(e)
  BY <1>4 DEF RenameDir, Becomes
<1>6. p = <<p[1], p[2]>> /\ p[1] \in Dirs /\ p[2] \in Names
  BY DEF Paths
<1>7. CASE p[1] = d
  <2> DEFINE q == <<e, p[2]>>
  <2>1. q \in Paths /\ q # p
    BY <1>4, <1>6, <1>7 DEF Paths
  <2>2. Tmp(q) \in Entries
    BY <2>1, EntryNames
  <2>3. Tmp(q) = <<"uploading", e, p[2]>> /\ Tmp(p) = <<"uploading", d, p[2]>>
    BY <1>7 DEF Tmp
  <2>4. t[Tmp(p)] = None
    <3>1. Tmp(p)[2] = d
      BY <2>3
    <3> QED  BY <1>1, <1>4, <3>1
  <2>5. t[Tmp(q)] = tree[Tmp(p)]
    <3>1. Tmp(q)[1] = "uploading" /\ Tmp(q)[2] = e /\ Tmp(q)[3] = p[2]
      BY <2>3
    <3>2. t[Tmp(q)] = tree[<<Tmp(q)[1], d, Tmp(q)[3]>>]
      BY <1>4, <2>2, <3>1
    <3> QED  BY <2>3, <3>1, <3>2
  <2> QED  BY <1>5, <2>1, <2>4, <2>5
<1>8. CASE p[1] = e
  <2> DEFINE q == <<d, p[2]>>
  <2>1. q \in Paths /\ q # p
    BY <1>4, <1>6, <1>8 DEF Paths
  <2>2. Tmp(q) = <<"uploading", d, p[2]>> /\ Tmp(p) = <<"uploading", e, p[2]>>
    BY <1>8 DEF Tmp
  <2>3. t[Tmp(p)] = tree[Tmp(q)]
    BY <1>1, <1>4, <2>2
  <2>4. tree[Tmp(p)] = None
    BY <1>1, <1>5, <2>2 DEF Empty, Within, Present
  <2> QED  BY <1>5, <2>1, <2>3, <2>4
<1>9. CASE p[1] # d /\ p[1] # e
  <2>1. t[Tmp(p)] = tree[Tmp(p)]
    BY <1>1, <1>9 DEF Tmp
  <2> QED  BY <1>5, <2>1
<1> QED  BY <1>7, <1>8, <1>9

(* A file in use stays a stray once it is one.                             *)
LEMMA StraysStay ==
  ASSUME Next, NEW i, i \in Referenced'
  PROVE  i \in strays \cup Carried => i \in strays'
BY DEF Next

LEMMA InUse ==
  /\ \A e \in Entries : tree[e] \in Referenced
  /\ \A h \in Handles : w[h].f \in Referenced
BY DEF Referenced
(* The three ways a step may treat a temporary entry.                      *)
LEMMA TempFate ==
  ASSUME Base, Next, NEW p \in Paths
  PROVE  \/ tree'[Tmp(p)] = tree[Tmp(p)]
         \/ {tree[Tmp(p)], tree'[Tmp(p)]} \subseteq Carried \cup {None}
         \/ \E h \in Handles :
              /\ Upload(h) /\ pc[h] # "idle" /\ w[h].path = p
              /\ tree'[Tmp(p)] # None => OpenTemp(h) /\ pc'[h] = "open"
<1> SUFFICES ASSUME tree'[Tmp(p)] # tree[Tmp(p)], ~\E h \in Handles : Upload(h)
             PROVE  {tree[Tmp(p)], tree'[Tmp(p)]} \subseteq Carried \cup {None}
  BY UploadTemps
<1>1. Command
  BY DEF Next
<1>2. PICK q \in Paths \ {p} :
        \/ tree[Tmp(p)] = None /\ tree'[Tmp(p)] = tree[Tmp(q)]
        \/ tree'[Tmp(p)] = None /\ tree'[Tmp(q)] = tree[Tmp(p)]
  BY <1>1, CommandTemps
<1>3. /\ tree[Tmp(p)] \in Inodes \cup {None}
      /\ tree[Tmp(q)] \in Inodes \cup {None}
  BY EntryNames DEF Base, TreeOK
<1> QED  BY <1>2, <1>3 DEF Carried, Paths

(* A writer that is at work was so before, or has just been opened.        *)
LEMMA WritingFrom ==
  ASSUME Base, Next, NEW h \in Handles, Writing(h)'
  PROVE  \/ Writing(h) /\ w'[h] = w[h] /\ ~Upload(h)
         \/ /\ pc[h] # "idle" /\ w'[h].path = w[h].path
            /\ tree'[Tmp(w[h].path)] = w'[h].f
<1>1. CASE ~Upload(h)
  <2>1. pc'[h] = pc[h] /\ w'[h] = w[h]
    BY <1>1, OthersStay, CommandsStay DEF Next
  <2> QED  BY <1>1, <2>1 DEF Writing
<1>2. CASE Upload(h)
  <2>1. PcOK /\ WriterOK /\ pc'[h] = "open" /\ ~w'[h].exceeded
    BY DEF Base, Writing
  <2>2. OpenTemp(h) /\ ~Release(h)
    BY <1>2, <2>1
       DEF Upload, MakeParent, ListRoot, ListDir, StatFile, RefuseOpen, RemoveOldTemp, At,
           OpenTemp, WriteOverQuota, CloseExceeded, CloseCommit, CloseRenameFails, CloseRemove,
           Release, Closed, PcOK, WriterOK
  <2>3. PICK i \in Inodes : /\ tree' = [tree EXCEPT ![Tmp(w[h].path)] = i]
                            /\ w' = [w EXCEPT ![h].f = i]
    BY <2>2 DEF OpenTemp, Becomes
  <2>4. pc[h] # "idle"
    BY <2>2 DEF OpenTemp
  <2>5. Tmp(w[h].path) \in Entries
    BY <2>1, <2>4, PathOf, EntryNames
  <2> QED  BY <2>1, <2>3, <2>4, <2>5 DEF Base, TreeOK, WriterOK
<1> QED  BY <1>1, <1>2

LEMMA NextTemps == Base /\ Base' /\ TempTraced /\ [Next]_vars => TempTraced'
<1> SUFFICES ASSUME Base, Base', TempTraced, [Next]_vars PROVE TempTraced'
  OBVIOUS
<1>1. CASE UNCHANGED vars
  BY <1>1 DEF vars, TempTraced, Owns
<1>2. CASE Next
  <2> SUFFICES ASSUME NEW p \in Paths, tree'[Tmp(p)] \notin strays' \cup {None}
               PROVE  \E h \in Handles : Owns(h, p)'
    BY DEF TempTraced, Paths
  <2> DEFINE i == tree'[Tmp(p)]
  <2>1. i \notin strays \cup Carried
    <3>1. i \in Referenced'
      BY EntryNames DEF Referenced
    <3> QED  BY <1>2, <3>1, StraysStay
  <2>2. CASE i = tree[Tmp(p)]
    <3>1. PICK h \in Handles : Owns(h, p)
      BY <2>1, <2>2 DEF TempTraced, Paths
    <3>2. CASE ~Upload(h)
      <4>1. pc'[h] = pc[h] /\ w'[h] = w[h]
        BY <1>2, <3>2, OthersStay, CommandsStay DEF Next
      <4> QED  BY <3>1, <4>1 DEF Owns
    <3>3. CASE Upload(h)
      <4>1. /\ pc[h] \in {"open", "abandon"} /\ w[h].path = p
            /\ pc[h] = "open" => ~w[h].exceeded
        BY <3>1 DEF Owns
      <4>2. Tmp(p) \in Entries /\ tree \in [Entries -> Inodes \cup {None}]
        BY EntryNames DEF Base, TreeOK
      <4>3. WriteOverQuota(h) \/ CloseCommit(h) \/ CloseRenameFails(h) \/ CloseRemove(h)
        BY <3>3, <4>1
           DEF Upload, MakeParent, ListRoot, ListDir, StatFile, RefuseOpen, RemoveOldTemp, At,
               OpenTemp, Counted, CloseExceeded
      <4>4. CASE WriteOverQuota(h) \/ CloseCommit(h) \/ CloseRemove(h)
        BY <4>1, <4>2, <4>4 DEF WriteOverQuota, CloseCommit, CloseRemove, Unlink, Becomes
      <4>5. CASE CloseRenameFails(h)
        <5>1. pc'[h] = "abandon" /\ w'[h].path = p
          BY <4>1, <4>5 DEF CloseRenameFails, Base, PcOK, WriterOK
        <5> QED  BY <5>1 DEF Owns
      <4> QED  BY <4>3, <4>4, <4>5
    <3> QED  BY <3>2, <3>3
  <2>3. CASE i # tree[Tmp(p)]
    <3>1. PICK h \in Handles : OpenTemp(h) /\ pc'[h] = "open" /\ w[h].path = p
      BY <1>2, <2>1, <2>3, TempFate
    <3>2. pc[h] = "create" /\ ~w[h].exceeded
      BY <3>1 DEF OpenTemp, Base, WriterOK
    <3>3. \E f : w' = [w EXCEPT ![h].f = f]
      BY <3>1 DEF OpenTemp, Release, Base, PcOK
    <3>4. w'[h].path = p /\ ~w'[h].exceeded
      BY <3>1, <3>2, <3>3 DEF Base, WriterOK
    <3> QED  BY <3>1, <3>4 DEF Owns
  <2> QED  BY <2>2, <2>3
<1> QED  BY <1>1, <1>2

(* Every temporary file is some upload's to commit or to remove, unless    *)
(* its directory was renamed, for any number of uploads racing with        *)
(* directories that are made, removed and renamed (fs.go:82-106;           *)
(* quota.go:63-67, 80-88).                                                 *)
THEOREM TempsAreTraced == Spec => []TempTraced
<1>1. Init => TempTraced
  BY EntryNames DEF Init, TempTraced, Paths
<1> QED  BY <1>1, InvBase, NextTemps, PTL DEF Spec

LEMMA NextOwn == Disjoint => (Base /\ Base' /\ OwnTemp /\ [Next]_vars => OwnTemp')
<1> SUFFICES ASSUME Disjoint, Base, Base', OwnTemp, [Next]_vars PROVE OwnTemp'
  OBVIOUS
<1>1. CASE UNCHANGED vars
  BY <1>1 DEF vars, OwnTemp, Writing
<1>2. CASE Next
  <2> SUFFICES ASSUME NEW h \in Handles, Writing(h)', w'[h].f \notin strays'
               PROVE  tree'[Tmp(w'[h].path)] = w'[h].f
    BY DEF OwnTemp
  <2>1. CASE Writing(h) /\ w'[h] = w[h] /\ ~Upload(h)
    <3> DEFINE p == w[h].path
    <3>1. w[h].f \notin strays \cup Carried
      <4>1. w'[h].f \in Referenced'
        BY DEF Referenced
      <4> QED  BY <1>2, <2>1, <4>1, StraysStay
    <3>2. tree[Tmp(p)] = w[h].f /\ w[h].f # None
      BY <2>1, <3>1, FoldersAssumption DEF OwnTemp, Base, WriterOK
    <3>3. p \in Targets[h] /\ p \in Paths
      BY <2>1, PathOf DEF Base, Writing
    <3>4. ASSUME NEW g \in Handles, Upload(g), pc[g] # "idle", w[g].path = p PROVE FALSE
      <4>1. p \in Targets[g]
        BY <3>4, PathOf DEF Base
      <4> QED  BY <2>1, <3>3, <3>4, <4>1 DEF Disjoint
    <3>5. tree'[Tmp(p)] = tree[Tmp(p)]
      BY <1>2, <3>1, <3>2, <3>3, <3>4, TempFate
    <3> QED  BY <2>1, <3>2, <3>5
  <2>2. CASE w'[h].path = w[h].path /\ tree'[Tmp(w[h].path)] = w'[h].f
    BY <2>2
  <2> QED  BY <1>2, <2>1, <2>2, WritingFrom
<1> QED  BY <1>1, <1>2

(* If no two uploads have a path in common, what Close publishes is what   *)
(* its own handle wrote, unless that was carried away with its directory   *)
(* (quota.go:84-85).                                                       *)
THEOREM OwnFilesAreCommitted ==
  ASSUME Disjoint
  PROVE  Spec => CommitsOwnFile
<1>1. Init => OwnTemp
  BY DEF Init, OwnTemp, Writing
<1>2. Spec => []OwnTemp
  BY <1>1, InvBase, NextOwn, PTL DEF Spec
<1>3. OwnTemp => [\A h \in Handles : CloseCommit(h) /\ w[h].f \notin strays =>
                    tree[Tmp(w[h].path)] = w[h].f]_vars
  BY DEF OwnTemp, Writing, CloseCommit
<1> QED  BY <1>2, <1>3, PTL DEF CommitsOwnFile
===============================================================================
