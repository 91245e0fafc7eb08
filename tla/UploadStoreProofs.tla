--------------------------- MODULE UploadStoreProofs ---------------------------
(***************************************************************************)
(* Uploads of different paths implement the abstract store FileStore, for  *)
(* every number of sessions, handles, paths and inodes, whatever fails or  *)
(* is killed, pipelined or not.                                            *)
(*                                                                         *)
(* Assumed: no two handles are opened for the same path, clients remove    *)
(* and rename final names only, and None is no file's content.             *)
(***************************************************************************)
EXTENDS UploadProofs

Disjoint == \A g \in Handles : \A h \in Handles \ {g} : Targets[g] \cap Targets[h] = {}

NoneIsNoData ==
  /\ None \notin [Offsets -> Cells]
  /\ None \notin [path : Paths, data : [Offsets -> Cells]]

(* The inductive invariant.  Entries name different files, and a writer    *)
(* that has its file open is the only one at its temporary name, with      *)
(* exactly what its client was told in the file.                           *)
OneLink ==
  \A n \in EntryNames : \A m \in EntryNames \ {n} : tree[n] # None => tree[n] # tree[m]

Writing(h) == pc[h] = "open" /\ ~w[h].exceeded

WriterOf(h) ==
  /\ pc[h] # "idle" => w[h].finalPath \in Targets[h]
  /\ w[h].f # None => Writing(h)
  /\ Writing(h) => /\ w[h].f # None
                   /\ tree[Tmp(w[h].finalPath)] = w[h].f
                   /\ content[w[h].f] = Told(h)
  /\ \A o \in Offsets : writes[h][o] = "unlink" => w[h].exceeded

StoreInv == TypeOK /\ Phases /\ OneLink /\ \A h \in Handles : WriterOf(h)
-------------------------------------------------------------------------------
(* What follows for the files of the invariant. *)

(* A name is an entry, temporary and final names differ.                   *)
LEMMA Names ==
  /\ \A p \in Paths : Tmp(p) \in EntryNames /\ Final(p) \in EntryNames
  /\ \A p, q : Tmp(p) # Final(q)
  /\ \A p, q : p # q => Tmp(p) # Tmp(q) /\ Final(p) # Final(q)
  /\ \A n \in EntryNames : \E p \in Paths : n = Tmp(p) \/ n = Final(p)
BY DEF Tmp, Final, EntryNames

LEMMA PathOf ==
  ASSUME StoreInv, NEW h \in Handles, pc[h] # "idle"
  PROVE  w[h].finalPath \in Paths /\ w[h].finalPath \in Targets[h]
BY ConstantsAssumption DEF StoreInv, WriterOf

(* Handles at work have temporary names of their own.                      *)
LEMMA OwnTemp ==
  ASSUME StoreInv, Disjoint, NEW g \in Handles, NEW h \in Handles \ {g},
         pc[g] # "idle", pc[h] # "idle"
  PROVE  w[g].finalPath # w[h].finalPath
BY PathOf DEF Disjoint

(* An open file has one entry, the temporary one of its writer.            *)
LEMMA OwnFile ==
  ASSUME StoreInv, NEW h \in Handles, Writing(h)
  PROVE  /\ w[h].f \in Inodes
         /\ Tmp(w[h].finalPath) \in EntryNames
         /\ tree[Tmp(w[h].finalPath)] = w[h].f
         /\ content[w[h].f] = Told(h)
         /\ \A n \in EntryNames : n # Tmp(w[h].finalPath) => tree[n] # w[h].f
<1>1. w[h].f \in Inodes \cup {None}
  BY DEF StoreInv, TypeOK, WriterType
<1>2. WriterOf(h)
  BY DEF StoreInv
<1>3. Tmp(w[h].finalPath) \in EntryNames
  BY PathOf, Names DEF Writing
<1>4. OneLink
  BY DEF StoreInv
<1>5. QED
  BY <1>1, <1>2, <1>3, <1>4 DEF WriterOf, OneLink

(* The files of two writers differ.                                        *)
LEMMA OwnFiles ==
  ASSUME StoreInv, Disjoint, NEW g \in Handles, NEW h \in Handles \ {g},
         Writing(g), Writing(h)
  PROVE  w[g].f # w[h].f
<1>1. w[g].finalPath # w[h].finalPath
  BY OwnTemp DEF Writing
<1>2. Tmp(w[g].finalPath) # Tmp(w[h].finalPath)
  BY <1>1, Names
<1>3. QED
  BY <1>2, OwnFile
-------------------------------------------------------------------------------
(* The frame: what a step leaves alone. *)

(* A file that stays in use keeps its content, unless a step opens it to   *)
(* truncate it or writes to it.                                            *)
LEMMA ContentKept ==
  ASSUME TypeOK, [Next]_vars, NEW i \in Inodes, i \in Referenced, i \in Referenced',
         \A g \in Handles, o \in Offsets : WritePwrite(g, o) => w[g].f # i,
         \A g \in Handles : OpenTemp(g) => tree[Tmp(w[g].finalPath)] # i
  PROVE  content'[i] = content[i]
<1>1. CASE UNCHANGED content
  BY <1>1
<1>2. CASE content' = Reap(content)
  BY <1>2 DEF Reap
<1>3. ASSUME NEW g \in Handles, OpenTemp(g) PROVE content'[i] = content[i]
  BY <1>3, <1>1 DEF OpenTemp, TypeOK
<1>4. ASSUME NEW g \in Handles, NEW o \in Offsets, WritePwrite(g, o)
      PROVE  content'[i] = content[i]
  BY <1>4, <1>1 DEF WritePwrite, StoreAt, TypeOK
<1>5. ASSUME NEW g \in Handles,
             \/ \E p \in Targets[g], len \in 1 .. MaxLen : OpenWalk(g, p, len)
             \/ \E n \in EntryNames : WalkEntry(g, n)
             \/ RefuseOpen(g)
             \/ \E o \in Offsets : WriteLoad(g, o) \/ WriteStore(g, o)
      PROVE  UNCHANGED content
  BY <1>5 DEF OpenWalk, WalkEntry, RefuseOpen, WriteLoad, WriteStore
<1>6. ASSUME NEW g \in Handles,
             \/ RemoveOldTemp(g) \/ CloseExceeded(g) \/ CloseCommit(g)
             \/ CloseRenameFails(g) \/ CloseRemove(g)
             \/ \E o \in Offsets : WriteCheck(g, o) \/ WriteUnlink(g, o)
      PROVE  content' = Reap(content)
  BY <1>6 DEF RemoveOldTemp, CloseExceeded, CloseCommit, CloseRenameFails,
              CloseRemove, WriteCheck, WriteUnlink
<1>7. ASSUME NEW s \in Sessions, NEW n \in CmdNames,
             CmdRemove(s, n) \/ \E m \in CmdNames \ {n} : CmdRename(s, n, m)
      PROVE  content' = Reap(content)
  BY <1>7 DEF CmdRemove, CmdRename
<1>8. ASSUME NEW s \in Sessions, Drop(s) \/ Reconnect(s) PROVE UNCHANGED content
  BY <1>8 DEF Drop, Reconnect
<1>9. ASSUME NEW s \in CanDie, Kill(s) PROVE content' = Reap(content)
  BY <1>9 DEF Kill
<1>10. CASE UNCHANGED vars
  BY <1>1, <1>10 DEF vars
<1>11. QED
  BY <1>1, <1>2, <1>3, <1>4, <1>5, <1>6, <1>7, <1>8, <1>9, <1>10
     DEF Next, ClientStep, Failure, ServerStep

(* What a reader of a final name has open is nobody's to write.            *)
LEMMA FinalKept ==
  ASSUME StoreInv, [Next]_vars, NEW p \in Paths,
         tree[Final(p)] # None, tree'[Final(p)] = tree[Final(p)]
  PROVE  content'[tree[Final(p)]] = content[tree[Final(p)]]
<1> DEFINE i == tree[Final(p)]
<1>1. Final(p) \in EntryNames
  BY Names
<1>2. i \in Inodes /\ i \in Referenced /\ i \in Referenced'
  BY <1>1 DEF StoreInv, TypeOK, Referenced
<1>3. ASSUME NEW g \in Handles, NEW o \in Offsets, WritePwrite(g, o) PROVE w[g].f # i
  <2>1. CASE w[g].f = None
    BY <2>1
  <2>2. CASE w[g].f # None
    <3>1. Writing(g)
      BY <2>2 DEF StoreInv, WriterOf
    <3>2. Final(p) # Tmp(w[g].finalPath)
      BY Names
    <3>3. QED
      BY <1>1, <3>1, <3>2, OwnFile
  <2>3. QED
    BY <2>1, <2>2
<1>4. ASSUME NEW g \in Handles, OpenTemp(g) PROVE tree[Tmp(w[g].finalPath)] # i
  <2>1. Tmp(w[g].finalPath) \in EntryNames \ {Final(p)}
    BY <1>4, PathOf, Names DEF OpenTemp
  <2>2. QED
    BY <1>1, <2>1 DEF StoreInv, OneLink
<1>5. QED
  BY <1>2, <1>3, <1>4, ContentKept DEF StoreInv
-------------------------------------------------------------------------------
(* How the directory changes: entries go, Filewrite makes a temporary one, *)
(* or a rename moves one.                                                  *)
Shrinks == \A n \in EntryNames : tree'[n] \in {tree[n], None}

Creates(h, i) ==
  LET t == Tmp(w[h].finalPath) IN
  /\ pc[h] = "create"
  /\ IF tree[t] = None THEN i \notin Referenced ELSE i = tree[t]
  /\ tree' = [tree EXCEPT ![t] = i]
  /\ w' = [w EXCEPT ![h].f = i]
  /\ content' = [content EXCEPT ![i] = Blank]
  /\ pc' = [pc EXCEPT ![h] = "open"]
  /\ UNCHANGED writes

Moves(n, m) == tree' = [tree EXCEPT ![m] = tree[n], ![n] = None]

LEMMA OpenCases ==
  ASSUME NEW h \in Handles, OpenTemp(h)
  PROVE  \/ Release(h) /\ UNCHANGED <<tree, content>>
         \/ \E i \in Inodes : Creates(h, i)
BY DEF OpenTemp, Creates

LEMMA DirectoryStep ==
  ASSUME StoreInv, [Next]_vars
  PROVE  \/ Shrinks
         \/ \E h \in Handles, i \in Inodes : Creates(h, i)
         \/ \E n \in EntryNames : \E m \in EntryNames \ {n} : Moves(n, m)
<1> USE DEF Shrinks
<1>0. tree \in [EntryNames -> Inodes \cup {None}]
  BY DEF StoreInv, TypeOK
<1>1. CASE UNCHANGED tree
  BY <1>1
<1>2. ASSUME NEW n, Unlink(n) PROVE Shrinks
  BY <1>0, <1>2 DEF Unlink
<1>3. ASSUME NEW h \in Handles, OpenTemp(h)
      PROVE  Shrinks \/ \E i \in Inodes : Creates(h, i)
  BY <1>1, <1>3, OpenCases
<1>4. ASSUME NEW h \in Handles, CloseCommit(h)
      PROVE  \E n \in EntryNames : \E m \in EntryNames \ {n} : Moves(n, m)
  <2> DEFINE p == w[h].finalPath
  <2>1. Tmp(p) \in EntryNames /\ Final(p) \in EntryNames \ {Tmp(p)}
    BY <1>4, PathOf, Names DEF CloseCommit, BeginClose
  <2>2. Moves(Tmp(p), Final(p))
    BY <1>4 DEF CloseCommit, Moves
  <2>3. QED
    BY <2>1, <2>2
<1>5. ASSUME NEW s \in Sessions, NEW n \in CmdNames, NEW m \in CmdNames \ {n},
             CmdRename(s, n, m)
      PROVE  Moves(n, m) /\ n \in EntryNames /\ m \in EntryNames \ {n}
  BY <1>5, ConstantsAssumption DEF CmdRename, Moves
<1>6. ASSUME NEW s \in Sessions, NEW n \in CmdNames, CmdRemove(s, n) PROVE Shrinks
  BY <1>2, <1>6 DEF CmdRemove
<1>7. ASSUME NEW h \in Handles,
             \/ \E p \in Targets[h], len \in 1 .. MaxLen : OpenWalk(h, p, len)
             \/ \E n \in EntryNames : WalkEntry(h, n)
             \/ RefuseOpen(h) \/ CloseExceeded(h) \/ CloseRenameFails(h)
             \/ \E o \in Offsets : \/ WriteLoad(h, o) \/ WriteStore(h, o)
                                   \/ WriteCheck(h, o) \/ WritePwrite(h, o)
      PROVE  UNCHANGED tree
  BY <1>7 DEF OpenWalk, WalkEntry, RefuseOpen, CloseExceeded, CloseRenameFails,
              WriteLoad, WriteStore, WriteCheck, WritePwrite
<1>8. ASSUME NEW h \in Handles,
             RemoveOldTemp(h) \/ CloseRemove(h) \/ \E o \in Offsets : WriteUnlink(h, o)
      PROVE  Shrinks
  BY <1>2, <1>8 DEF RemoveOldTemp, CloseRemove, WriteUnlink
<1>9. ASSUME Failure PROVE UNCHANGED tree
  BY <1>9 DEF Failure, Drop, Reconnect, Kill
<1>10. CASE UNCHANGED vars
  BY <1>1, <1>10 DEF vars
<1>11. QED
  BY <1>1, <1>3, <1>4, <1>5, <1>6, <1>7, <1>8, <1>9, <1>10
     DEF Next, ClientStep, ServerStep

(* No step gives a file a second name.                                     *)
LEMMA OneLinkStep == ASSUME StoreInv, [Next]_vars PROVE OneLink'
<1>1. OneLink /\ tree \in [EntryNames -> Inodes \cup {None}]
  BY DEF StoreInv, TypeOK
<1>2. CASE Shrinks
  BY <1>1, <1>2 DEF OneLink, Shrinks
<1>3. ASSUME NEW h \in Handles, NEW i \in Inodes, Creates(h, i) PROVE OneLink'
  <2> DEFINE t == Tmp(w[h].finalPath)
  <2>1. t \in EntryNames
    BY <1>3, PathOf, Names DEF Creates
  <2>2. \A n \in EntryNames \ {t} : tree[n] # i
    BY <1>1, <1>3, <2>1 DEF Creates, OneLink, Referenced
  <2>3. tree' = [tree EXCEPT ![t] = i]
    BY <1>3 DEF Creates
  <2>4. QED
    BY <1>1, <2>1, <2>2, <2>3 DEF OneLink
<1>4. ASSUME NEW n \in EntryNames, NEW m \in EntryNames \ {n}, Moves(n, m) PROVE OneLink'
  BY <1>1, <1>4 DEF OneLink, Moves
<1>5. QED
  BY <1>2, <1>3, <1>4, DirectoryStep
-------------------------------------------------------------------------------
(* The writer of one handle. *)

(* Only its own close disturbs the temporary entry of a writer.            *)
LEMMA TempKept ==
  ASSUME StoreInv, Disjoint, ClientsUseFinals, [Next]_vars, NEW h \in Handles,
         Writing(h), ~CloseCommit(h)
  PROVE  tree'[Tmp(w[h].finalPath)] = tree[Tmp(w[h].finalPath)]
<1> DEFINE t == Tmp(w[h].finalPath)
<1>0. t \in EntryNames /\ tree \in [EntryNames -> Inodes \cup {None}]
  BY OwnFile DEF StoreInv, TypeOK
<1>1. CASE UNCHANGED tree
  BY <1>1
<1>2. ASSUME NEW g \in Handles, pc[g] # "idle", g # h
      PROVE  Tmp(w[g].finalPath) # t /\ Final(w[g].finalPath) # t
  BY <1>2, OwnTemp, Names DEF Writing
<1>3. ASSUME NEW g \in Handles, RemoveOldTemp(g) \/ CloseRemove(g)
      PROVE  tree'[t] = tree[t]
  <2>1. g # h /\ pc[g] # "idle"
    BY <1>3 DEF RemoveOldTemp, CloseRemove, Writing
  <2>2. Unlink(Tmp(w[g].finalPath))
    BY <1>3 DEF RemoveOldTemp, CloseRemove
  <2>3. QED
    BY <1>0, <1>2, <2>1, <2>2 DEF Unlink
<1>4. ASSUME NEW g \in Handles, NEW o \in Offsets, WriteUnlink(g, o)
      PROVE  tree'[t] = tree[t]
  <2>1. g # h
    BY <1>4 DEF WriteUnlink, Writing, StoreInv, WriterOf
  <2>2. pc[g] = "open"
    BY <1>4 DEF WriteUnlink, StoreInv, Phases, PhasesOf, InFlight, Busy
  <2>3. QED
    BY <1>0, <1>2, <1>4, <2>1, <2>2 DEF WriteUnlink, Unlink
<1>5. ASSUME NEW g \in Handles, OpenTemp(g) PROVE tree'[t] = tree[t]
  <2>1. g # h /\ pc[g] # "idle"
    BY <1>5 DEF OpenTemp, Writing
  <2>2. QED
    BY <1>0, <1>1, <1>2, <1>5, <2>1, OpenCases DEF Creates
<1>6. ASSUME NEW g \in Handles, CloseCommit(g) PROVE tree'[t] = tree[t]
  <2>1. g # h /\ pc[g] # "idle"
    BY <1>6 DEF CloseCommit, BeginClose
  <2>2. QED
    BY <1>0, <1>2, <1>6, <2>1 DEF CloseCommit
<1>7. ASSUME NEW s \in Sessions, NEW n \in CmdNames,
             CmdRemove(s, n) \/ \E m \in CmdNames \ {n} : CmdRename(s, n, m)
      PROVE  tree'[t] = tree[t]
  <2>1. t \notin CmdNames
    BY Names DEF ClientsUseFinals
  <2>2. QED
    BY <1>0, <1>7, <2>1 DEF CmdRemove, CmdRename, Unlink
<1>8. ASSUME NEW g \in Handles,
             \/ \E p \in Targets[g], len \in 1 .. MaxLen : OpenWalk(g, p, len)
             \/ \E n \in EntryNames : WalkEntry(g, n)
             \/ RefuseOpen(g) \/ CloseExceeded(g) \/ CloseRenameFails(g)
             \/ \E o \in Offsets : \/ WriteLoad(g, o) \/ WriteStore(g, o)
                                   \/ WriteCheck(g, o) \/ WritePwrite(g, o)
      PROVE  UNCHANGED tree
  BY <1>8 DEF OpenWalk, WalkEntry, RefuseOpen, CloseExceeded, CloseRenameFails,
              WriteLoad, WriteStore, WriteCheck, WritePwrite
<1>9. ASSUME Failure PROVE UNCHANGED tree
  BY <1>9 DEF Failure, Drop, Reconnect, Kill
<1>10. CASE UNCHANGED vars
  BY <1>1, <1>10 DEF vars
<1>11. QED
  BY <1>1, <1>3, <1>4, <1>5, <1>6, <1>7, <1>8, <1>9, <1>10
     DEF Next, ClientStep, ServerStep

(* While it stays open, only its own WriteAt writes to its file.           *)
LEMMA WritingKept ==
  ASSUME StoreInv, Disjoint, ClientsUseFinals, [Next]_vars, NEW h \in Handles,
         Writing(h), pc'[h] = pc[h], w'[h].f = w[h].f,
         w'[h].finalPath = w[h].finalPath, \A o \in Offsets : ~WritePwrite(h, o)
  PROVE  /\ tree'[Tmp(w'[h].finalPath)] = w'[h].f
         /\ content'[w'[h].f] = content[w[h].f]
<1>1. ~CloseCommit(h)
  BY ReleaseEffect DEF CloseCommit, Writing, StoreInv
<1>2. tree'[Tmp(w[h].finalPath)] = tree[Tmp(w[h].finalPath)]
  BY <1>1, TempKept
<1>3. w[h].f \in Inodes /\ w[h].f \in Referenced /\ w[h].f \in Referenced'
  BY OwnFile DEF Referenced
<1>4. ASSUME NEW g \in Handles, NEW o \in Offsets, WritePwrite(g, o)
      PROVE  w[g].f # w[h].f
  <2>1. w[g].f # None => Writing(g)
    BY DEF StoreInv, WriterOf
  <2>2. w[h].f # None
    BY <1>3, ConstantsAssumption
  <2>3. QED
    BY <1>4, <2>1, <2>2, OwnFiles
<1>5. ASSUME NEW g \in Handles, OpenTemp(g) PROVE tree[Tmp(w[g].finalPath)] # w[h].f
  <2>1. g # h /\ pc[g] # "idle" /\ pc[h] # "idle"
    BY <1>5 DEF OpenTemp, Writing
  <2>2. Tmp(w[g].finalPath) \in EntryNames /\ Tmp(w[g].finalPath) # Tmp(w[h].finalPath)
    BY <2>1, OwnTemp, PathOf, Names
  <2>3. QED
    BY <2>2, OwnFile
<1>6. content'[w[h].f] = content[w[h].f]
  BY <1>3, <1>4, <1>5, ContentKept DEF StoreInv
<1>7. QED
  BY <1>2, <1>6, OwnFile

(* What a chunk's progress does to what the client has been told.          *)
LEMMA ToldKept ==
  ASSUME TypeOK, NEW h \in Handles, NEW o \in Offsets, NEW st, SetChunk(h, o, st),
         writes[h][o] \notin {"done", "torn"}
  PROVE  /\ st \notin {"done", "torn"} => Told(h)' = Told(h)
         /\ st = "done" => Told(h)' = [Told(h) EXCEPT ![o] = h]
         /\ st = "torn" => Told(h)' = [Told(h) EXCEPT ![o] = Part(h)]
<1>1. /\ writes'[h][o] = st
      /\ \A q \in Offsets \ {o} : writes'[h][q] = writes[h][q]
  BY ChunkEffect
<1>2. ASSUME st \notin {"done", "torn"} PROVE Told(h)' = Told(h)
  BY <1>1, <1>2 DEF Told
<1>3. ASSUME st = "done" PROVE Told(h)' = [Told(h) EXCEPT ![o] = h]
  BY <1>1, <1>3 DEF Told
<1>4. ASSUME st = "torn" PROVE Told(h)' = [Told(h) EXCEPT ![o] = Part(h)]
  BY <1>1, <1>4 DEF Told, Part
<1>5. QED
  BY <1>2, <1>3, <1>4

(* A step keeps each handle's part of the invariant.                       *)
LEMMA WriterStep ==
  ASSUME StoreInv, Disjoint, ClientsUseFinals, [Next]_vars, NEW h \in Handles
  PROVE  WriterOf(h)'
<1>0. /\ TypeOK /\ WriterOf(h) /\ w[h] \in WriterType
      /\ PhasesOf(h)
  BY DEF StoreInv, TypeOK, Phases
<1>1. CASE Same(h)
  <2>1. CASE Writing(h)
    <3>1. \A o \in Offsets : ~WritePwrite(h, o)
      BY <1>0, <1>1, ChunkEffect DEF WritePwrite, Same
    <3>2. /\ tree'[Tmp(w'[h].finalPath)] = w'[h].f
          /\ content'[w'[h].f] = content[w[h].f]
      BY <1>1, <2>1, <3>1, WritingKept DEF Same
    <3>3. QED
      BY <1>0, <1>1, <2>1, <3>2 DEF WriterOf, Writing, Same, Told
  <2>2. CASE ~Writing(h)
    BY <1>0, <1>1, <2>2 DEF WriterOf, Writing, Same
  <2>3. QED
    BY <2>1, <2>2
<1>2. CASE Reset(h)
  BY <1>2 DEF Reset, WriterOf, Writing, NoWriter
(* A handle whose file is not open keeps it so.                            *)
<1>3. ASSUME pc'[h] \in {"walk", "create", "abandon"}, w'[h].f = None,
             w'[h].finalPath \in Targets[h], w'[h].exceeded = w[h].exceeded,
             \A o \in Offsets : writes'[h][o] = "unlink" => w[h].exceeded
      PROVE  WriterOf(h)'
  BY <1>3 DEF WriterOf, Writing
<1>4. ASSUME NEW p \in Targets[h], NEW len \in 1 .. MaxLen, OpenWalk(h, p, len)
      PROVE  WriterOf(h)'
  <2>1. /\ pc'[h] = "walk"
        /\ w'[h] = [w[h] EXCEPT !.finalPath = p]
        /\ \A o \in Offsets : writes'[h][o] # "unlink"
    BY <1>0, <1>4 DEF OpenWalk, TypeOK
  <2>2. w[h].f = None
    BY <1>0, <1>4 DEF OpenWalk, WriterOf, Writing
  <2>3. w'[h].finalPath = p /\ w'[h].f = None /\ w'[h].exceeded = w[h].exceeded
    BY <1>0, <2>1, <2>2 DEF WriterType
  <2>4. QED
    BY <1>3, <2>1, <2>3
<1>5. ASSUME NEW n \in EntryNames, WalkEntry(h, n) PROVE WriterOf(h)'
  <2>1. CASE Release(h)
    BY <1>0, <1>2, <2>1, ReleaseEffect DEF Reset
  <2>2. CASE UNCHANGED <<pc, w, writes>>
    BY <1>0, <1>1, <2>2 DEF Same
  <2>3. QED
    BY <1>5, <2>1, <2>2 DEF WalkEntry
<1>6. CASE RemoveOldTemp(h)
  <2>1. /\ pc'[h] = "create"
        /\ w'[h].finalPath = w[h].finalPath
        /\ w'[h].f = w[h].f
        /\ w'[h].exceeded = w[h].exceeded
        /\ writes' = writes
    BY <1>0, <1>6 DEF RemoveOldTemp, TypeOK, WriterType
  <2>2. pc[h] = "walk"
    BY <1>6 DEF RemoveOldTemp
  <2>3. QED
    BY <1>0, <1>3, <2>1, <2>2 DEF WriterOf, Writing
<1>7. CASE OpenTemp(h)
  <2>1. CASE Release(h)
    BY <1>0, <1>2, <2>1, ReleaseEffect DEF Reset
  <2>2. ASSUME NEW i \in Inodes, Creates(h, i) PROVE WriterOf(h)'
    <3>1. /\ w'[h].finalPath = w[h].finalPath
          /\ w'[h].f = i
          /\ w'[h].exceeded = w[h].exceeded
      BY <1>0, <2>2 DEF Creates, TypeOK, WriterType
    <3>2. /\ pc'[h] = "open" /\ ~w[h].exceeded /\ writes' = writes
          /\ \A o \in Offsets : writes[h][o] \in {"absent", "unsent"}
      BY <1>0, <2>2 DEF Creates, PhasesOf, TypeOK
    <3>3. w[h].finalPath \in Targets[h] /\ Tmp(w[h].finalPath) \in EntryNames
      BY <2>2, PathOf, Names DEF Creates
    <3>4. tree'[Tmp(w[h].finalPath)] = i /\ content'[i] = Blank
      BY <1>0, <2>2, <3>3 DEF Creates, TypeOK
    <3>5. Told(h)' = Blank
      BY <3>2 DEF Told, Blank
    <3>6. i # None
      BY ConstantsAssumption
    <3>7. QED
      BY <3>1, <3>2, <3>3, <3>4, <3>5, <3>6 DEF WriterOf, Writing
  <2>3. QED
    BY <1>7, <2>1, <2>2, OpenCases
<1>8. CASE CloseRenameFails(h)
  <2>1. /\ pc'[h] = "abandon"
        /\ w'[h].finalPath = w[h].finalPath
        /\ w'[h].f = None
        /\ w'[h].exceeded = w[h].exceeded
        /\ writes' = writes
    BY <1>0, <1>8 DEF CloseRenameFails, TypeOK, WriterType
  <2>2. pc[h] = "open"
    BY <1>8 DEF CloseRenameFails, BeginClose
  <2>3. QED
    BY <1>0, <1>3, <2>1, <2>2 DEF WriterOf
(* A chunk moves on and leaves nothing in the file.                        *)
<1>9. ASSUME NEW o \in Offsets, NEW st, SetChunk(h, o, st),
             writes[h][o] \notin {"done", "torn"},
             st \notin {"done", "torn"}, st = "unlink" => w'[h].exceeded,
             \A q \in Offsets : ~WritePwrite(h, q) \/ UNCHANGED <<tree, content>>,
             pc'[h] = pc[h], w'[h].finalPath = w[h].finalPath,
             \/ w'[h].f = w[h].f /\ w'[h].exceeded = w[h].exceeded
             \/ w'[h].f = None /\ w'[h].exceeded
      PROVE  WriterOf(h)'
  <2>1. \A q \in Offsets : writes'[h][q] = "unlink" => w'[h].exceeded
    BY <1>0, <1>9, ChunkEffect DEF WriterOf
  <2>2. CASE w'[h].f = w[h].f /\ w'[h].exceeded = w[h].exceeded /\ Writing(h)
    <3>1. /\ tree'[Tmp(w'[h].finalPath)] = w'[h].f
          /\ content'[w'[h].f] = content[w[h].f]
      BY <1>0, <1>9, <2>2, WritingKept DEF WriterOf
    <3>2. Told(h)' = Told(h)
      BY <1>0, <1>9, ToldKept
    <3>3. QED
      BY <1>0, <1>9, <2>1, <2>2, <3>1, <3>2 DEF WriterOf, Writing
  <2>3. CASE w'[h].f = w[h].f /\ w'[h].exceeded = w[h].exceeded /\ ~Writing(h)
    BY <1>0, <1>9, <2>1, <2>3 DEF WriterOf, Writing
  <2>4. CASE w'[h].f = None /\ w'[h].exceeded
    BY <1>0, <1>9, <2>1, <2>4 DEF WriterOf, Writing
  <2>5. QED
    BY <1>9, <2>2, <2>3, <2>4
<1>10. ASSUME NEW o \in Offsets, NEW q \in Offsets,
              writes[h][o] # "pwrite", SetChunk(h, o, writes'[h][o])
       PROVE  ~WritePwrite(h, q)
  BY <1>0, <1>10, ChunkEffect DEF WritePwrite
<1>11. ASSUME NEW o \in Offsets, WriteLoad(h, o) PROVE WriterOf(h)'
  <2> DEFINE st == IF w[h].exceeded THEN "failed"
                   ELSE IF End(o) > w[h].maxEnd THEN "store" ELSE "check"
  <2>1. /\ SetChunk(h, o, st) /\ st \notin {"done", "torn", "unlink"}
        /\ writes[h][o] = "unsent" /\ UNCHANGED <<pc, w, tree, content>>
    BY <1>11 DEF WriteLoad
  <2> HIDE DEF st
  <2>2. QED
    BY <1>9, <2>1
<1>12. ASSUME NEW o \in Offsets, WriteStore(h, o) PROVE WriterOf(h)'
  <2>1. /\ w'[h].finalPath = w[h].finalPath
        /\ w'[h].f = w[h].f
        /\ w'[h].exceeded = w[h].exceeded
    BY <1>0, <1>12 DEF WriteStore, TypeOK, WriterType
  <2>2. /\ SetChunk(h, o, "check") /\ writes[h][o] = "store"
        /\ UNCHANGED <<pc, tree, content>>
    BY <1>12 DEF WriteStore
  <2>3. QED
    BY <1>9, <2>1, <2>2
<1>13. ASSUME NEW o \in Offsets, WriteCheck(h, o) PROVE WriterOf(h)'
  <2>1. writes[h][o] = "check" /\ UNCHANGED pc
    BY <1>13 DEF WriteCheck
  <2>2. CASE OverQuota(h)
    <3>1. SetChunk(h, o, "unlink")
      BY <1>13, <2>2 DEF WriteCheck
    <3>2. w'[h] = [w[h] EXCEPT !.exceeded = TRUE, !.f = None]
      BY <1>0, <1>13, <2>2 DEF WriteCheck, TypeOK
    <3>3. w'[h].finalPath = w[h].finalPath /\ w'[h].f = None /\ w'[h].exceeded
      BY <1>0, <3>2 DEF WriterType
    <3>4. \A q \in Offsets : ~WritePwrite(h, q)
      BY <1>0, <1>10, <2>1, <3>1, ChunkEffect
    <3>5. QED
      BY <1>9, <2>1, <3>1, <3>3, <3>4
  <2>3. CASE ~OverQuota(h)
    <3>1. SetChunk(h, o, "pwrite") /\ UNCHANGED w
      BY <1>13, <2>3 DEF WriteCheck
    <3>2. \A q \in Offsets : ~WritePwrite(h, q)
      BY <1>0, <1>10, <2>1, <3>1, ChunkEffect
    <3>3. QED
      BY <1>9, <2>1, <3>1, <3>2
  <2>4. QED
    BY <2>2, <2>3
<1>14. ASSUME NEW o \in Offsets, WriteUnlink(h, o) PROVE WriterOf(h)'
  <2>1. /\ SetChunk(h, o, "failed") /\ writes[h][o] = "unlink" /\ UNCHANGED <<pc, w>>
    BY <1>14 DEF WriteUnlink
  <2>2. \A q \in Offsets : ~WritePwrite(h, q)
    BY <1>0, <1>10, <2>1, ChunkEffect
  <2>3. QED
    BY <1>9, <2>1, <2>2
<1>15. ASSUME NEW o \in Offsets, WritePwrite(h, o) PROVE WriterOf(h)'
  <2>1. writes[h][o] = "pwrite" /\ UNCHANGED <<tree, pc, w>>
    BY <1>15 DEF WritePwrite
  <2>2. CASE SetChunk(h, o, "failed") /\ UNCHANGED content
    BY <1>9, <2>1, <2>2
  <2>3. ASSUME NEW cell, NEW st, StoreAt(h, o, cell), SetChunk(h, o, st), st # "unlink",
               Told(h)' = [Told(h) EXCEPT ![o] = cell]
        PROVE  WriterOf(h)'
    <3>1. Writing(h) /\ w[h].f \in Inodes
      BY <1>0, <2>3 DEF StoreAt, WriterOf, WriterType
    <3>2. content'[w[h].f] = [content[w[h].f] EXCEPT ![o] = cell]
      BY <1>0, <2>3, <3>1 DEF StoreAt, TypeOK
    <3>3. \A q \in Offsets : writes'[h][q] = "unlink" => w[h].exceeded
      BY <1>0, <2>3, ChunkEffect DEF WriterOf
    <3>4. QED
      BY <1>0, <2>1, <2>3, <3>1, <3>2, <3>3 DEF WriterOf, Writing
  <2>4. CASE StoreAt(h, o, h) /\ SetChunk(h, o, "done")
    BY <1>0, <2>1, <2>3, <2>4, ToldKept
  <2>5. CASE StoreAt(h, o, Part(h)) /\ SetChunk(h, o, "torn")
    BY <1>0, <2>1, <2>3, <2>5, ToldKept
  <2>6. QED
    BY <1>15, <2>2, <2>4, <2>5 DEF WritePwrite
<1>16. QED
  BY <1>0, <1>1, <1>2, <1>4, <1>5, <1>6, <1>7, <1>8, <1>11, <1>12, <1>13, <1>14, <1>15,
     StepOfHandle DEF Ends

(* So does the whole invariant.                                            *)
LEMMA StoreStep ==
  ASSUME Disjoint, ClientsUseFinals, StoreInv, [Next]_vars
  PROVE  StoreInv'
BY TypeStep, PhasesStep, OneLinkStep, WriterStep DEF StoreInv

LEMMA StoreHolds ==
  ASSUME Disjoint, ClientsUseFinals PROVE Spec => []StoreInv
<1>1. Init /\ TypeOK /\ Phases => StoreInv
  BY DEF Init, StoreInv, OneLink, WriterOf, Writing, NoWriter, NoChunks
<1>2. StoreInv /\ [Next]_vars => StoreInv'
  BY StoreStep
<1>3. QED
  BY <1>1, <1>2, TypeCorrect, PhasesHold, PTL DEF Spec

(* What a reader of a final name has open never changes under it, when no  *)
(* two handles upload to one path (fs.go:100, quota.go:84-85).             *)
THEOREM FinalsAreImmutable ==
  ASSUME Disjoint, ClientsUseFinals PROVE Spec => FinalImmutable
<1> DEFINE Kept == \A p \in Paths :
                     LET i == tree[Final(p)] IN
                     i # None /\ tree'[Final(p)] = i => content'[i] = content[i]
<1>1. StoreInv /\ [Next]_vars => Kept
  BY FinalKept
<1>2. QED
  BY <1>1, StoreHolds, PTL DEF Spec, FinalImmutable
-------------------------------------------------------------------------------
(* The refinement mapping, path by path and handle by handle.              *)
StoreOf(p) == IF tree[Final(p)] = None THEN None ELSE content[tree[Final(p)]]

PendingOf(h) == IF Writing(h) THEN [path |-> w[h].finalPath, data |-> Told(h)] ELSE None

Mapped == [FS!StoreNext]_(FS!storeVars)

(* A final name that keeps its file keeps its data.                        *)
LEMMA StoreKept ==
  ASSUME StoreInv, [Next]_vars, NEW p \in Paths, tree'[Final(p)] = tree[Final(p)]
  PROVE  StoreOf(p)' = StoreOf(p)
BY FinalKept DEF StoreOf, Final

LEMMA PendingKept ==
  ASSUME NEW h \in Handles, Same(h) PROVE PendingOf(h)' = PendingOf(h)
BY DEF Same, PendingOf, Writing, Told

LEMMA PendingReal ==
  ASSUME StoreInv, NoneIsNoData, NEW h \in Handles, Writing(h)
  PROVE  PendingOf(h) # None
<1>1. w[h].finalPath \in Paths
  BY PathOf DEF Writing
<1>2. Told(h) \in [Offsets -> Cells]
  BY DEF Told, Cells, Data
<1>3. QED
  BY <1>1, <1>2 DEF PendingOf, NoneIsNoData

(* A step that changes no file, and forgets the uploads in H.              *)
LEMMA MapsToGiveUp ==
  ASSUME \A p \in Paths : StoreOf(p)' = StoreOf(p), NEW H \in SUBSET Handles,
         \A h \in H : PendingOf(h)' = None,
         \A h \in Handles \ H : PendingOf(h)' = PendingOf(h)
  PROVE  Mapped
<1>1. Store' = Store
  BY DEF Store, StoreOf
<1>2. Pending = [h \in Handles |-> PendingOf(h)]
  BY DEF Pending, PendingOf, Writing
<1>3. Pending' = [h \in Handles |-> PendingOf(h)']
  BY DEF Pending, PendingOf, Writing
<1>4. Pending' = [h \in Handles |-> IF h \in H THEN None ELSE Pending[h]]
  BY <1>2, <1>3
<1>5. FS!GiveUpAll(H)
  BY <1>1, <1>4 DEF FS!GiveUpAll
<1>6. QED
  BY <1>5 DEF Mapped, FS!StoreNext

LEMMA MapsToStutter ==
  ASSUME \A p \in Paths : StoreOf(p)' = StoreOf(p),
         \A h \in Handles : PendingOf(h)' = PendingOf(h)
  PROVE  Mapped
BY MapsToGiveUp, {} \in SUBSET Handles

(* A step of one handle that changes no final name is a step of its upload *)
(* alone: invisible, or the end of it.                                     *)
LEMMA HandleMaps ==
  ASSUME StoreInv, [Next]_vars, NEW h \in Handles,
         \A g \in Handles \ {h} : Same(g),
         \A p \in Paths : tree'[Final(p)] = tree[Final(p)],
         PendingOf(h)' \in {PendingOf(h), None}
  PROVE  Mapped
<1>1. \A p \in Paths : StoreOf(p)' = StoreOf(p)
  BY StoreKept
<1>2. \A g \in Handles \ {h} : PendingOf(g)' = PendingOf(g)
  BY PendingKept
<1>3. CASE PendingOf(h)' = PendingOf(h)
  BY <1>1, <1>2, <1>3, MapsToStutter
<1>4. CASE PendingOf(h)' = None
  BY <1>1, <1>2, <1>4, MapsToGiveUp, {h} \in SUBSET Handles
<1>5. QED
  BY <1>3, <1>4

(* Filewrite hands a writer out: an upload begins.                         *)
LEMMA OpenMaps ==
  ASSUME StoreInv, [Next]_vars, NEW h \in Handles, OpenTemp(h) PROVE Mapped
<1>0. TypeOK /\ w[h] \in WriterType /\ pc[h] = "create"
  BY DEF StoreInv, TypeOK, OpenTemp
<1>1. \A g \in Handles \ {h} : Same(g)
  BY <1>0, StepOfOthers DEF ServerStep
<1>2. CASE Release(h) /\ UNCHANGED <<tree, content>>
  <2>1. PendingOf(h)' = None
    BY <1>0, <1>2, ReleaseEffect DEF PendingOf, Writing
  <2>2. QED
    BY <1>1, <1>2, <2>1, HandleMaps
<1>3. ASSUME NEW i \in Inodes, Creates(h, i) PROVE Mapped
  <2> DEFINE q == w[h].finalPath
  <2>1. q \in Paths
    BY <1>0, PathOf
  <2>2. \A p \in Paths : tree'[Final(p)] = tree[Final(p)]
    BY <1>0, <1>3, <2>1, Names DEF Creates, TypeOK
  <2>3. Store' = Store
    BY <2>2, StoreKept DEF Store, StoreOf
  <2>4. PendingOf(h) = None
    BY <1>0 DEF PendingOf, Writing
  <2>5. /\ pc'[h] = "open"
        /\ w'[h].finalPath = q
        /\ w'[h].exceeded = w[h].exceeded
        /\ writes' = writes
    BY <1>0, <1>3 DEF Creates, TypeOK, WriterType
  <2>6. ~w[h].exceeded /\ \A o \in Offsets : writes[h][o] \in {"absent", "unsent"}
    BY <1>0 DEF StoreInv, Phases, PhasesOf
  <2>7. PendingOf(h)' = [path |-> q, data |-> FS!Blank]
    BY <2>5, <2>6 DEF PendingOf, Writing, Told, FS!Blank
  <2>8. \A g \in Handles \ {h} : PendingOf(g)' = PendingOf(g)
    BY <1>1, PendingKept
  <2>9. /\ Pending = [g \in Handles |-> PendingOf(g)]
        /\ Pending' = [g \in Handles |-> PendingOf(g)']
    BY DEF Pending, PendingOf, Writing
  <2>10. Pending' = [Pending EXCEPT ![h] = [path |-> q, data |-> FS!Blank]]
    BY <2>7, <2>8, <2>9
  <2>11. FS!Begin(h, q)
    BY <2>3, <2>4, <2>9, <2>10 DEF FS!Begin
  <2>12. QED
    BY <2>1, <2>11 DEF Mapped, FS!StoreNext
<1>4. QED
  BY <1>2, <1>3, OpenCases

(* A write that stores a chunk or a part of it changes one cell of one     *)
(* upload in progress.                                                     *)
LEMMA CellMaps ==
  ASSUME StoreInv, NoneIsNoData, [Next]_vars, NEW h \in Handles, NEW o \in Offsets,
         WritePwrite(h, o), NEW cell, StoreAt(h, o, cell),
         Told(h)' = [Told(h) EXCEPT ![o] = cell]
  PROVE  /\ Store' = Store
         /\ Pending[h] # None /\ Pending[h].data[o] = None
         /\ Pending' = [Pending EXCEPT ![h].data[o] = cell]
<1>0. TypeOK /\ WriterOf(h) /\ writes[h][o] = "pwrite" /\ UNCHANGED <<tree, pc, w>>
  BY DEF StoreInv, WritePwrite
<1>1. \A g \in Handles \ {h} : PendingOf(g)' = PendingOf(g)
  BY <1>0, StepOfOthers, PendingKept DEF ServerStep
<1>2. Store' = Store
  BY <1>0, StoreKept DEF Store, StoreOf
<1>3. Writing(h) /\ PendingOf(h) # None
  BY <1>0, PendingReal DEF StoreAt, WriterOf
<1>4. /\ PendingOf(h) = [path |-> w[h].finalPath, data |-> Told(h)]
      /\ PendingOf(h)' = [path |-> w[h].finalPath, data |-> [Told(h) EXCEPT ![o] = cell]]
  BY <1>0, <1>3 DEF PendingOf, Writing
<1>5. Told(h)[o] = None
  BY <1>0 DEF Told
<1>6. /\ Pending = [g \in Handles |-> PendingOf(g)]
      /\ Pending' = [g \in Handles |-> PendingOf(g)']
  BY DEF Pending, PendingOf, Writing
<1>7. Pending' = [Pending EXCEPT ![h].data[o] = cell]
  BY <1>1, <1>4, <1>6
<1>8. QED
  BY <1>2, <1>3, <1>4, <1>5, <1>6, <1>7

(* So it is an acknowledgement or a refusal of the abstract store; a write *)
(* that stores nothing is invisible.                                       *)
LEMMA PwriteMaps ==
  ASSUME StoreInv, NoneIsNoData, [Next]_vars, NEW h \in Handles, NEW o \in Offsets,
         WritePwrite(h, o)
  PROVE  Mapped
<1>0. TypeOK /\ writes[h][o] = "pwrite" /\ UNCHANGED <<tree, pc, w>>
  BY DEF StoreInv, WritePwrite
<1>1. CASE SetChunk(h, o, "failed")
  <2>1. \A g \in Handles \ {h} : Same(g)
    BY <1>0, StepOfOthers DEF ServerStep
  <2>2. Told(h)' = Told(h)
    BY <1>0, <1>1, ToldKept
  <2>3. PendingOf(h)' = PendingOf(h)
    BY <1>0, <2>2 DEF PendingOf, Writing
  <2>4. QED
    BY <1>0, <2>1, <2>3, HandleMaps
<1>2. CASE StoreAt(h, o, h) /\ SetChunk(h, o, "done")
  <2>1. Told(h)' = [Told(h) EXCEPT ![o] = h]
    BY <1>0, <1>2, ToldKept
  <2>2. FS!Acknowledge(h, o)
    BY <1>2, <2>1, CellMaps DEF FS!Acknowledge
  <2>3. QED
    BY <2>2 DEF Mapped, FS!StoreNext
<1>3. CASE StoreAt(h, o, Part(h)) /\ SetChunk(h, o, "torn")
  <2>1. Told(h)' = [Told(h) EXCEPT ![o] = Part(h)]
    BY <1>0, <1>3, ToldKept
  <2>2. /\ Store' = Store
        /\ Pending[h] # None /\ Pending[h].data[o] = None
        /\ Pending' = [Pending EXCEPT ![h].data[o] = Part(h)]
    BY <1>3, <2>1, CellMaps
  <2>3. FS!Part(h) = Part(h)
    BY DEF FS!Part, Part
  <2>4. FS!Refuse(h, o)
    BY <2>2, <2>3 DEF FS!Refuse
  <2>5. QED
    BY <2>4 DEF Mapped, FS!StoreNext
<1>4. QED
  BY <1>1, <1>2, <1>3 DEF WritePwrite

(* Close renames: the upload appears in one step.                          *)
LEMMA CommitMaps ==
  ASSUME StoreInv, NoneIsNoData, [Next]_vars, NEW h \in Handles, CloseCommit(h)
  PROVE  Mapped
<1> DEFINE f == w[h].f
<1>0. TypeOK /\ Writing(h) /\ Release(h) /\ content' = Reap(content)
  BY DEF StoreInv, CloseCommit, BeginClose, Writing
<1> PICK q \in Paths : q = w[h].finalPath
  BY <1>0, PathOf DEF Writing
<1>1. \A g \in Handles \ {h} : Same(g)
  BY <1>0, StepOfOthers DEF ServerStep
<1>2. tree[Tmp(q)] = f /\ f \in Inodes /\ content[f] = Told(h)
  BY <1>0, OwnFile
<1>3. /\ tree'[Final(q)] = f
      /\ \A p \in Paths \ {q} : tree'[Final(p)] = tree[Final(p)]
  BY <1>0, <1>2, Names DEF CloseCommit, TypeOK
<1>4. content'[f] = Told(h)
  <2>1. Final(q) \in EntryNames
    BY <1>2, Names
  <2>2. f \in Referenced'
    BY <1>3, <2>1 DEF Referenced
  <2>3. QED
    BY <1>0, <1>2, <2>2 DEF Reap
<1>5. StoreOf(q)' = Told(h)
  BY <1>2, <1>3, <1>4, ConstantsAssumption DEF StoreOf, Final
<1>6. \A p \in Paths \ {q} : StoreOf(p)' = StoreOf(p)
  BY <1>3, StoreKept
<1>7. Store' = [Store EXCEPT ![q] = Told(h)]
  <2>1. Store = [p \in Paths |-> StoreOf(p)] /\ Store' = [p \in Paths |-> StoreOf(p)']
    BY DEF Store, StoreOf
  <2>2. QED
    BY <1>2, <1>5, <1>6, <2>1
<1>8. /\ Pending = [g \in Handles |-> PendingOf(g)]
      /\ Pending' = [g \in Handles |-> PendingOf(g)']
  BY DEF Pending, PendingOf, Writing
<1>9. PendingOf(h)' = None
  BY <1>0, ReleaseEffect DEF PendingOf, Writing
<1>10. \A g \in Handles \ {h} : PendingOf(g)' = PendingOf(g)
  BY <1>1, PendingKept
<1>11. Pending' = [Pending EXCEPT ![h] = None]
  BY <1>8, <1>9, <1>10
<1>12. Pending[h] # None /\ Pending[h].path = q /\ Pending[h].data = Told(h)
  BY <1>0, <1>8, PendingReal DEF PendingOf
<1>13. FS!Publish(h)
  BY <1>7, <1>11, <1>12 DEF FS!Publish
<1>14. QED
  BY <1>13 DEF Mapped, FS!StoreNext

(* Filecmd on final names: a file goes, or moves with its data.            *)
LEMMA CommandMaps ==
  ASSUME StoreInv, NoneIsNoData, ClientsUseFinals, [Next]_vars,
         NEW s \in Sessions, NEW n \in CmdNames,
         CmdRemove(s, n) \/ \E m \in CmdNames \ {n} : CmdRename(s, n, m)
  PROVE  Mapped
<1>0. /\ TypeOK /\ UNCHANGED <<pc, w, writes>> /\ content' = Reap(content)
      /\ tree[n] # None
  BY DEF StoreInv, CmdRemove, CmdRename
<1>1. \A h \in Handles : PendingOf(h)' = PendingOf(h)
  BY <1>0, PendingKept DEF Same
<1>2. Pending' = Pending
  BY <1>1 DEF Pending, PendingOf, Writing
<1>3. /\ Store = [q \in Paths |-> StoreOf(q)]
      /\ Store' = [q \in Paths |-> StoreOf(q)']
  BY DEF Store, StoreOf
<1>4. PICK p \in Paths : n = Final(p)
  BY DEF ClientsUseFinals
<1>5. CASE CmdRemove(s, n)
  <2>1. /\ tree'[Final(p)] = None
        /\ \A q \in Paths \ {p} : tree'[Final(q)] = tree[Final(q)]
    BY <1>0, <1>4, <1>5, Names DEF CmdRemove, Unlink, TypeOK
  <2>2. StoreOf(p)' = None
    BY <2>1 DEF StoreOf, Final
  <2>3. \A q \in Paths \ {p} : StoreOf(q)' = StoreOf(q)
    BY <2>1, StoreKept
  <2>4. Store' = [Store EXCEPT ![p] = None]
    BY <1>3, <2>2, <2>3
  <2>5. FS!Delete(p)
    BY <1>2, <2>4 DEF FS!Delete
  <2>6. QED
    BY <2>5 DEF Mapped, FS!StoreNext
<1>6. ASSUME NEW m \in CmdNames \ {n}, CmdRename(s, n, m) PROVE Mapped
  <2>1. PICK r \in Paths \ {p} : m = Final(r)
    BY <1>4 DEF ClientsUseFinals
  <2>2. /\ tree'[Final(p)] = None
        /\ tree'[Final(r)] = tree[Final(p)]
        /\ \A q \in Paths \ {p, r} : tree'[Final(q)] = tree[Final(q)]
    BY <1>0, <1>4, <1>6, <2>1, Names DEF CmdRename, TypeOK
  <2>3. tree[Final(p)] \in Inodes /\ tree[Final(p)] # None
    BY <1>0, <1>4, Names DEF TypeOK
  <2>4. content'[tree[Final(p)]] = content[tree[Final(p)]]
    <3>1. Final(r) \in EntryNames
      BY Names
    <3>2. tree[Final(p)] \in Referenced'
      BY <2>2, <3>1 DEF Referenced
    <3>3. QED
      BY <1>0, <2>3, <3>2 DEF Reap
  <2>5. StoreOf(p)' = None
    BY <2>2 DEF StoreOf, Final
  <2>6. StoreOf(r)' = StoreOf(p)
    BY <2>2, <2>3, <2>4 DEF StoreOf, Final
  <2>7. \A q \in Paths \ {p, r} : StoreOf(q)' = StoreOf(q)
    BY <2>2, StoreKept
  <2>8. Store' = [Store EXCEPT ![r] = Store[p], ![p] = None]
    BY <1>3, <2>1, <2>5, <2>6, <2>7
  <2>9. Store[p] # None
    BY <1>0, <1>3, <2>3 DEF StoreOf, TypeOK, NoneIsNoData
  <2>10. FS!Move(p, r)
    BY <1>2, <2>8, <2>9 DEF FS!Move
  <2>11. QED
    BY <2>1, <2>10 DEF Mapped, FS!StoreNext
<1>7. QED
  BY <1>5, <1>6

(* A session that goes or comes back changes nothing; a killed server      *)
(* gives its uploads up.                                                   *)
LEMMA FailureMaps == ASSUME StoreInv, [Next]_vars, Failure PROVE Mapped
<1>0. \A p \in Paths : StoreOf(p)' = StoreOf(p)
  BY StoreKept DEF Failure, Drop, Reconnect, Kill
<1>1. ASSUME NEW s \in Sessions, Drop(s) \/ Reconnect(s) PROVE Mapped
  <2>1. \A h \in Handles : PendingOf(h)' = PendingOf(h)
    BY <1>1, PendingKept DEF Drop, Reconnect, Same
  <2>2. QED
    BY <1>0, <2>1, MapsToStutter
<1>2. ASSUME NEW s \in CanDie, Kill(s) PROVE Mapped
  <2> DEFINE gone == {h \in Handles : SessionOf[h] = s}
  <2>1. \A h \in gone : PendingOf(h)' = None
    BY <1>2 DEF Kill, PendingOf, Writing
  <2>2. \A h \in Handles \ gone : Same(h)
    BY <1>2 DEF Kill, Same
  <2>3. \A h \in Handles \ gone : PendingOf(h)' = PendingOf(h)
    BY <2>2, PendingKept
  <2>4. gone \in SUBSET Handles
    OBVIOUS
  <2> HIDE DEF gone
  <2>5. QED
    BY <1>0, <2>1, <2>3, <2>4, MapsToGiveUp
<1>3. QED
  BY <1>1, <1>2 DEF Failure

(* Every other step is invisible, or ends an upload that is not published. *)
LEMMA QuietMaps ==
  ASSUME StoreInv, [Next]_vars, NEW h \in Handles,
         \/ \E p \in Targets[h], len \in 1 .. MaxLen : OpenWalk(h, p, len)
         \/ \E n \in EntryNames : WalkEntry(h, n)
         \/ RefuseOpen(h) \/ RemoveOldTemp(h)
         \/ CloseExceeded(h) \/ CloseRenameFails(h) \/ CloseRemove(h)
         \/ \E o \in Offsets : \/ WriteLoad(h, o) \/ WriteStore(h, o)
                               \/ WriteCheck(h, o) \/ WriteUnlink(h, o)
  PROVE  Mapped
<1>0. TypeOK /\ w[h] \in WriterType
  BY DEF StoreInv, TypeOK
<1>1. \A g \in Handles \ {h} : Same(g)
  BY <1>0, StepOfOthers DEF ServerStep
<1>2. ASSUME NEW q, Unlink(Tmp(q)), NEW p \in Paths PROVE tree'[Final(p)] = tree[Final(p)]
  BY <1>0, <1>2, Names DEF Unlink, TypeOK
<1>3. \A p \in Paths : tree'[Final(p)] = tree[Final(p)]
  BY <1>2 DEF OpenWalk, WalkEntry, RefuseOpen, RemoveOldTemp, CloseExceeded,
              CloseRenameFails, CloseRemove, WriteLoad, WriteStore, WriteCheck,
              WriteUnlink
<1>4. ASSUME pc'[h] # "open" \/ w'[h].exceeded PROVE PendingOf(h)' = None
  BY <1>4 DEF PendingOf, Writing
<1>5. ASSUME Release(h) PROVE PendingOf(h)' = None
  BY <1>0, <1>4, <1>5, ReleaseEffect
<1>6. ASSUME \/ \E p \in Targets[h], len \in 1 .. MaxLen : OpenWalk(h, p, len)
             \/ RemoveOldTemp(h)
             \/ CloseRenameFails(h)
      PROVE  PendingOf(h)' = None
  BY <1>0, <1>4, <1>6 DEF OpenWalk, RemoveOldTemp, CloseRenameFails, TypeOK
<1>7. ASSUME NEW n \in EntryNames, WalkEntry(h, n), ~Release(h)
      PROVE  PendingOf(h)' = PendingOf(h)
  BY <1>7, PendingKept DEF WalkEntry, Same
<1>8. ASSUME NEW o \in Offsets, NEW st, SetChunk(h, o, st),
             st \notin {"done", "torn"}, writes[h][o] \notin {"done", "torn"}, pc' = pc,
             w'[h].finalPath = w[h].finalPath, w'[h].exceeded = w[h].exceeded
      PROVE  PendingOf(h)' = PendingOf(h)
  <2>1. Told(h)' = Told(h)
    BY <1>0, <1>8, ToldKept
  <2>2. QED
    BY <1>8, <2>1 DEF PendingOf, Writing
<1>9. ASSUME NEW o \in Offsets, WriteLoad(h, o) PROVE PendingOf(h)' = PendingOf(h)
  <2> DEFINE st == IF w[h].exceeded THEN "failed"
                   ELSE IF End(o) > w[h].maxEnd THEN "store" ELSE "check"
  <2>1. /\ SetChunk(h, o, st) /\ st \notin {"done", "torn"}
        /\ writes[h][o] = "unsent" /\ UNCHANGED <<pc, w>>
    BY <1>9 DEF WriteLoad
  <2> HIDE DEF st
  <2>2. QED
    BY <1>8, <2>1
<1>10. ASSUME NEW o \in Offsets, WriteStore(h, o) PROVE PendingOf(h)' = PendingOf(h)
  <2>1. w'[h].finalPath = w[h].finalPath /\ w'[h].exceeded = w[h].exceeded
    BY <1>0, <1>10 DEF WriteStore, TypeOK, WriterType
  <2>2. QED
    BY <1>8, <1>10, <2>1 DEF WriteStore
<1>11. ASSUME NEW o \in Offsets, WriteCheck(h, o)
       PROVE  PendingOf(h)' \in {PendingOf(h), None}
  <2>1. CASE OverQuota(h)
    <3>1. w'[h] = [w[h] EXCEPT !.exceeded = TRUE, !.f = None]
      BY <1>0, <1>11, <2>1 DEF WriteCheck, TypeOK
    <3>2. w'[h].exceeded
      BY <1>0, <3>1 DEF WriterType
    <3>3. QED
      BY <1>4, <3>2
  <2>2. CASE ~OverQuota(h)
    BY <1>8, <1>11, <2>2 DEF WriteCheck
  <2>3. QED
    BY <2>1, <2>2
<1>12. ASSUME NEW o \in Offsets, WriteUnlink(h, o) PROVE PendingOf(h)' = PendingOf(h)
  BY <1>8, <1>12 DEF WriteUnlink
<1>13. PendingOf(h)' \in {PendingOf(h), None}
  BY <1>5, <1>6, <1>7, <1>9, <1>10, <1>11, <1>12
     DEF RefuseOpen, CloseExceeded, CloseRemove
<1>14. QED
  BY <1>1, <1>3, <1>13, HandleMaps

(* Uploads to different paths are invisible until they are committed:      *)
(* whatever fails, is refused or is killed, and however WriteAt calls are  *)
(* pipelined, a final name changes in one step, and to one upload's data:  *)
(* every chunk its client was told had been written, at its place, and     *)
(* besides at most parts of chunks it was told had failed (fs.go:100,      *)
(* quota.go:73, 80-91).                                                    *)
THEOREM ImplementsFileStore ==
  ASSUME Disjoint, ClientsUseFinals, NoneIsNoData
  PROVE  Spec => ImplementsStore
<1>1. Init => FS!StoreInit
  BY Names DEF Init, FS!StoreInit, Store, Pending
<1>2. StoreInv /\ [Next]_vars => [FS!StoreNext]_(FS!storeVars)
  <2> SUFFICES ASSUME StoreInv, [Next]_vars PROVE Mapped
    BY DEF Mapped
  <2>1. CASE UNCHANGED vars
    BY <2>1 DEF vars, Mapped, FS!storeVars, Store, Pending, Told
  <2>2. CASE ClientStep
    BY <2>2, CommandMaps, QuietMaps DEF ClientStep
  <2>3. CASE Failure
    BY <2>3, FailureMaps
  <2>4. ASSUME NEW h \in Handles, ServerStep(h) PROVE Mapped
    BY <2>4, QuietMaps, OpenMaps, PwriteMaps, CommitMaps DEF ServerStep
  <2>5. QED
    BY <2>1, <2>2, <2>3, <2>4 DEF Next
<1>3. QED
  BY <1>1, <1>2, StoreHolds, PTL DEF Spec, ImplementsStore, FS!StoreSpec
===============================================================================
