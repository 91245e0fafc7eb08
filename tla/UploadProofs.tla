----------------------------- MODULE UploadProofs -----------------------------
(***************************************************************************)
(* Theorems about Upload, for every number of sessions, handles, paths and *)
(* inodes and every file length and quota.                                 *)
(***************************************************************************)
EXTENDS Upload, FiniteSetTheorems, TLAPS

(* The size of a file is a number of chunks.                               *)
LEMMA SizeType == ASSUME NEW c PROVE Size(c) \in Nat
<1>1. IsFiniteSet(Offsets)
  BY FS_Interval, ConstantsAssumption DEF Offsets
<1>2. QED
  BY <1>1, FS_Subset, FS_CardinalityType DEF Size, Extent

(* A closed or refused handle holds nothing.                               *)
LEMMA ReleaseType ==
  ASSUME TypeOK, NEW h \in Handles, Release(h)
  PROVE  /\ pc' \in [Handles -> States]
         /\ walk' \in [Handles -> WalkType]
         /\ w' \in [Handles -> WriterType]
         /\ writes' \in [Handles -> [Offsets -> ChunkStates]]
<1>1. NoWalk \in WalkType /\ NoWriter \in WriterType
  BY ConstantsAssumption DEF NoWalk, NoWriter, WalkType, WriterType
<1>2. NoChunks \in [Offsets -> ChunkStates]
  BY DEF NoChunks, ChunkStates
<1>3. QED
  BY <1>1, <1>2 DEF TypeOK, Release, States

(* Freeing an inode leaves a file content in every inode.                  *)
LEMMA ReapType ==
  ASSUME TypeOK, content' = Reap(content)
  PROVE  content' \in [Inodes -> [Offsets -> Cells]]
BY DEF TypeOK, Reap, Blank, Cells

(* Moving one chunk on to another state.                                   *)
LEMMA ChunkType ==
  ASSUME TypeOK, NEW h \in Handles, NEW o \in Offsets,
         NEW st \in ChunkStates, SetChunk(h, o, st)
  PROVE  writes' \in [Handles -> [Offsets -> ChunkStates]]
BY DEF TypeOK, SetChunk

(* Every step keeps every variable within its type.                        *)
LEMMA TypeStep == TypeOK /\ [Next]_vars => TypeOK'
<1> SUFFICES ASSUME TypeOK, [Next]_vars PROVE TypeOK'
  OBVIOUS
<1> USE ConstantsAssumption
<1> \A n \in EntryNames : tree[n] \in Inodes \cup {None}
  BY DEF TypeOK
<1> /\ \A h \in Handles : walk[h] \in WalkType /\ w[h] \in WriterType
    /\ \A h \in Handles, o \in Offsets : writes[h][o] \in ChunkStates
  BY DEF TypeOK
<1>1. ASSUME NEW h \in Handles, NEW p \in Targets[h], NEW len \in 1 .. MaxLen,
             OpenWalk(h, p, len)
      PROVE  TypeOK'
  <2>1. [walk[h] EXCEPT !.todo = {n \in EntryNames : tree[n] # None}] \in WalkType
    BY DEF WalkType
  <2>2. p \in Paths
    OBVIOUS
  <2>3. [w[h] EXCEPT !.finalPath = p] \in WriterType
    BY <2>2 DEF WriterType
  <2>4. [o \in Offsets |-> IF o < len THEN "unsent" ELSE "absent"]
          \in [Offsets -> ChunkStates]
    BY DEF ChunkStates
  <2>5. QED
    BY <1>1, <2>1, <2>3, <2>4 DEF OpenWalk, Present, TypeOK, States
<1>2. ASSUME NEW h \in Handles, NEW n \in EntryNames, WalkEntry(h, n)
      PROVE  TypeOK'
  <2>1. CASE Release(h)
    BY <1>2, <2>1, ReleaseType DEF WalkEntry, TypeOK
  <2>2. CASE ~Release(h)
    <3>1. Size(content[tree[n]]) \in Nat
      BY SizeType
    <3> DEFINE v == [todo  |-> walk[h].todo \ {n},
                     bytes |-> walk[h].bytes + Size(content[tree[n]]),
                     files |-> walk[h].files + 1]
    <3>2. v \in WalkType
      BY <3>1 DEF WalkType
    <3>3. walk' = [walk EXCEPT ![h] = v] /\ UNCHANGED <<pc, w, writes>>
      BY <1>2, <2>2 DEF WalkEntry
    <3>4. QED
      BY <1>2, <3>2, <3>3 DEF WalkEntry, TypeOK
  <2>3. QED
    BY <2>1, <2>2
<1>3. ASSUME NEW h \in Handles, RefuseOpen(h) PROVE TypeOK'
  BY <1>3, ReleaseType DEF RefuseOpen, TypeOK
<1>4. ASSUME NEW h \in Handles, RemoveOldTemp(h) PROVE TypeOK'
  <2>1. [w[h] EXCEPT !.baseBytes = walk[h].bytes] \in WriterType /\ NoWalk \in WalkType
    BY DEF WalkType, WriterType, NoWalk
  <2>2. QED
    BY <1>4, <2>1, ReapType DEF RemoveOldTemp, TypeOK, Unlink, States
<1>5. ASSUME NEW h \in Handles, OpenTemp(h) PROVE TypeOK'
  <2>1. CASE Release(h) /\ UNCHANGED <<tree, content, up>>
    BY <2>1, ReleaseType DEF TypeOK
  <2>2. ASSUME NEW i \in Inodes,
               tree' = [tree EXCEPT ![Tmp(w[h].finalPath)] = i],
               w' = [w EXCEPT ![h].f = i],
               content' = [content EXCEPT ![i] = Blank],
               pc' = [pc EXCEPT ![h] = "open"],
               UNCHANGED <<walk, writes, up>>
        PROVE  TypeOK'
    <3>1. [w[h] EXCEPT !.f = i] \in WriterType
      BY DEF WriterType
    <3>2. QED
      BY <2>2, <3>1 DEF TypeOK, Blank, Cells, States
  <2>3. QED
    BY <1>5, <2>1, <2>2 DEF OpenTemp
<1>6. ASSUME NEW h \in Handles, NEW o \in Offsets, WriteLoad(h, o) PROVE TypeOK'
  <2>1. (IF w[h].exceeded THEN "failed"
         ELSE IF End(o) > w[h].maxEnd THEN "store" ELSE "check") \in ChunkStates
    BY DEF ChunkStates, Errors
  <2>2. QED
    BY <1>6, <2>1, ChunkType DEF WriteLoad, TypeOK
<1>7. ASSUME NEW h \in Handles, NEW o \in Offsets, WriteStore(h, o) PROVE TypeOK'
  <2>1. [w[h] EXCEPT !.maxEnd = End(o)] \in WriterType
    BY DEF WriterType, End, Offsets
  <2>2. "check" \in ChunkStates
    BY DEF ChunkStates
  <2>3. QED
    BY <1>7, <2>1, <2>2, ChunkType DEF WriteStore, TypeOK
<1>8. ASSUME NEW h \in Handles, NEW o \in Offsets, WriteCheck(h, o) PROVE TypeOK'
  <2>1. [w[h] EXCEPT !.exceeded = TRUE, !.f = None] \in WriterType
    BY DEF WriterType
  <2>2. w' \in [Handles -> WriterType]
    BY <1>8, <2>1 DEF WriteCheck, TypeOK
  <2>3. "unlink" \in ChunkStates /\ "pwrite" \in ChunkStates
    BY DEF ChunkStates
  <2>4. QED
    BY <1>8, <2>2, <2>3, ChunkType, ReapType DEF WriteCheck, TypeOK
<1>9. ASSUME NEW h \in Handles, NEW o \in Offsets, WriteUnlink(h, o) PROVE TypeOK'
  <2>1. "failed" \in ChunkStates
    BY DEF ChunkStates, Errors
  <2>2. QED
    BY <1>9, <2>1, ChunkType, ReapType DEF WriteUnlink, Unlink, TypeOK
<1>10. ASSUME NEW h \in Handles, NEW o \in Offsets, WritePwrite(h, o) PROVE TypeOK'
  <2>1. {"failed", "torn", "done"} \subseteq ChunkStates
    BY DEF ChunkStates, Errors
  <2>2. ASSUME NEW cell \in Cells, StoreAt(h, o, cell)
        PROVE  content' \in [Inodes -> [Offsets -> Cells]]
    <3>1. w[h].f \in Inodes
      BY <2>2 DEF StoreAt, WriterType
    <3>2. [content[w[h].f] EXCEPT ![o] = cell] \in [Offsets -> Cells]
      BY <3>1 DEF TypeOK
    <3>3. QED
      BY <2>2, <3>1, <3>2 DEF StoreAt, TypeOK
  <2>3. h \in Cells /\ Part(h) \in Cells
    BY DEF Cells, Data
  <2>4. content' \in [Inodes -> [Offsets -> Cells]]
    BY <1>10, <2>2, <2>3 DEF WritePwrite, TypeOK
  <2>5. QED
    BY <1>10, <2>1, <2>4, ChunkType DEF WritePwrite, TypeOK
<1>11. ASSUME NEW h \in Handles, CloseExceeded(h) PROVE TypeOK'
  BY <1>11, ReleaseType, ReapType DEF CloseExceeded, TypeOK
<1>12. ASSUME NEW h \in Handles, CloseCommit(h) PROVE TypeOK'
  <2>1. CASE w[h].finalPath \in Paths
    <3>1. Tmp(w[h].finalPath) \in EntryNames
      BY <2>1 DEF Tmp, EntryNames
    <3>2. tree' \in [EntryNames -> Inodes \cup {None}]
      BY <1>12, <3>1 DEF CloseCommit, TypeOK
    <3>3. QED
      BY <1>12, <3>2, ReleaseType, ReapType DEF CloseCommit, TypeOK
  <2>2. CASE w[h].finalPath \notin Paths
    <3>1. Tmp(w[h].finalPath) \notin EntryNames /\ Final(w[h].finalPath) \notin EntryNames
      BY <2>2 DEF Tmp, Final, EntryNames
    <3>2. tree' \in [EntryNames -> Inodes \cup {None}]
      BY <1>12, <3>1 DEF CloseCommit, TypeOK
    <3>3. QED
      BY <1>12, <3>2, ReleaseType, ReapType DEF CloseCommit, TypeOK
  <2>3. QED
    BY <2>1, <2>2
<1>13. ASSUME NEW h \in Handles, CloseRenameFails(h) PROVE TypeOK'
  <2>1. [w[h] EXCEPT !.f = None] \in WriterType
    BY DEF WriterType
  <2>2. QED
    BY <1>13, <2>1, ReapType DEF CloseRenameFails, TypeOK, States
<1>14. ASSUME NEW h \in Handles, CloseRemove(h) PROVE TypeOK'
  BY <1>14, ReleaseType, ReapType DEF CloseRemove, Unlink, TypeOK
<1>15. ASSUME NEW s \in Sessions, NEW n \in CmdNames, CmdRemove(s, n) PROVE TypeOK'
  BY <1>15, ReapType DEF CmdRemove, Unlink, TypeOK
<1>16. ASSUME NEW s \in Sessions, NEW n \in CmdNames, NEW m \in CmdNames \ {n},
              CmdRename(s, n, m)
       PROVE  TypeOK'
  BY <1>16, ReapType DEF CmdRename, TypeOK
<1>17. ASSUME NEW s \in Sessions, Drop(s) \/ Reconnect(s) PROVE TypeOK'
  BY <1>17 DEF Drop, Reconnect, TypeOK
<1>18. ASSUME NEW s \in CanDie, Kill(s) PROVE TypeOK'
  <2>1. /\ NoWalk \in WalkType
        /\ NoWriter \in WriterType
        /\ NoChunks \in [Offsets -> ChunkStates]
    BY DEF NoWalk, NoWriter, NoChunks, WalkType, WriterType, ChunkStates
  <2>2. QED
    BY <1>18, <2>1, ReapType DEF Kill, TypeOK, States
<1>19. CASE UNCHANGED vars
  BY <1>19 DEF vars, TypeOK
<1>20. QED
  BY <1>1, <1>2, <1>3, <1>4, <1>5, <1>6, <1>7, <1>8, <1>9, <1>10, <1>11, <1>12,
     <1>13, <1>14, <1>15, <1>16, <1>17, <1>18, <1>19
     DEF Next, ClientStep, ServerStep, Failure

(* Every reachable state is well typed: in particular maxEnd stays within  *)
(* the longest file, and descriptors and entries name files.               *)
THEOREM TypeCorrect == Spec => []TypeOK
<1>1. Init => TypeOK
  BY ConstantsAssumption DEF Init, TypeOK, Blank, Cells, NoWalk, NoWriter, NoChunks,
     States, ChunkStates, WalkType, WriterType
<1>2. QED
  BY <1>1, TypeStep, PTL DEF Spec
-------------------------------------------------------------------------------
(* What a released handle looks like, and that the others are left alone.  *)
LEMMA ReleaseEffect ==
  ASSUME TypeOK, NEW h \in Handles, Release(h)
  PROVE  /\ pc'[h] = "idle"
         /\ w'[h] = NoWriter /\ ~w'[h].exceeded
         /\ \A o \in Offsets : writes'[h][o] = "absent"
         /\ \A g \in Handles \ {h} :
              pc'[g] = pc[g] /\ w'[g] = w[g] /\ writes'[g] = writes[g]
BY DEF TypeOK, Release, NoWriter, NoChunks

(* What moving a chunk on to another state changes.                        *)
LEMMA ChunkEffect ==
  ASSUME TypeOK, NEW h \in Handles, NEW o \in Offsets, NEW st, SetChunk(h, o, st)
  PROVE  /\ writes'[h][o] = st
         /\ \A q \in Offsets \ {o} : writes'[h][q] = writes[h][q]
         /\ \A g \in Handles \ {h} : writes'[g] = writes[g]
BY DEF TypeOK, SetChunk

(* A step of one handle's upload leaves the state of another's alone.       *)
Same(h) == pc'[h] = pc[h] /\ w'[h] = w[h] /\ writes'[h] = writes[h]

LEMMA StepOfOthers ==
  ASSUME TypeOK, NEW h \in Handles, NEW g \in Handles \ {h},
         \/ ServerStep(g)
         \/ \E p \in Targets[g], len \in 1 .. MaxLen : OpenWalk(g, p, len)
         \/ \E o \in Offsets : WriteLoad(g, o)
  PROVE  Same(h)
<1> USE DEF Same
<1>1. ASSUME NEW p \in Targets[g], NEW len \in 1 .. MaxLen, OpenWalk(g, p, len)
      PROVE  Same(h)
  BY <1>1 DEF OpenWalk, TypeOK
<1>2. ASSUME NEW o \in Offsets, WriteLoad(g, o)
      PROVE  Same(h)
  BY <1>2, ChunkEffect DEF WriteLoad, TypeOK
<1>3. CASE ServerStep(g)
  <2>1. CASE Release(g)
    BY <1>3, <2>1, ReleaseEffect
  <2>2. CASE \E n \in EntryNames : WalkEntry(g, n)
    BY <1>3, <2>1, <2>2 DEF WalkEntry
  <2>3. CASE RemoveOldTemp(g) \/ CloseRenameFails(g)
    BY <1>3, <2>3 DEF RemoveOldTemp, CloseRenameFails, TypeOK
  <2>4. CASE OpenTemp(g)
    BY <1>3, <2>1, <2>4 DEF OpenTemp, TypeOK
  <2>5. ASSUME NEW o \in Offsets,
               WriteStore(g, o) \/ WriteCheck(g, o) \/ WriteUnlink(g, o) \/ WritePwrite(g, o)
        PROVE  Same(h)
    <3>1. \E st : SetChunk(g, o, st)
      BY <2>5 DEF WriteStore, WriteCheck, WriteUnlink, WritePwrite
    <3>2. writes'[h] = writes[h]
      BY <1>3, <3>1, ChunkEffect
    <3>3. pc'[h] = pc[h] /\ w'[h] = w[h]
      BY <1>3, <2>5 DEF WriteStore, WriteCheck, WriteUnlink, WritePwrite, TypeOK
    <3>4. QED
      BY <3>2, <3>3
  <2>6. QED
    BY <1>3, <2>1, <2>2, <2>3, <2>4, <2>5
       DEF ServerStep, RefuseOpen, CloseExceeded, CloseCommit, CloseRemove
<1>4. QED
  BY <1>1, <1>2, <1>3

(* The cases of a step as one handle sees it: nothing, a fresh or released *)
(* handle, or one of the steps of its upload.                              *)
Reset(h) == /\ pc'[h] = "idle"
            /\ w'[h] = NoWriter /\ ~w'[h].exceeded
            /\ \A o \in Offsets : writes'[h][o] = "absent"

Ends(h) ==
  /\ Reset(h)
  /\ \/ pc[h] \in {"walk", "create"}
     \/ CloseExceeded(h)
     \/ CloseCommit(h)
     \/ CloseRemove(h)
     \/ \E s \in CanDie : Kill(s)

LEMMA StepOfHandle ==
  ASSUME TypeOK, [Next]_vars, NEW h \in Handles
  PROVE  \/ Same(h)
         \/ Ends(h)
         \/ \E p \in Targets[h], len \in 1 .. MaxLen : OpenWalk(h, p, len)
         \/ \E n \in EntryNames : WalkEntry(h, n)
         \/ RemoveOldTemp(h)
         \/ OpenTemp(h)
         \/ CloseRenameFails(h)
         \/ \E o \in Offsets : \/ WriteLoad(h, o)
                               \/ WriteStore(h, o)
                               \/ WriteCheck(h, o)
                               \/ WriteUnlink(h, o)
                               \/ WritePwrite(h, o)
<1> USE DEF Same, Reset, Ends
<1>1. ASSUME NEW g \in Handles, g # h,
             \/ ServerStep(g)
             \/ \E p \in Targets[g], len \in 1 .. MaxLen : OpenWalk(g, p, len)
             \/ \E o \in Offsets : WriteLoad(g, o)
      PROVE  Same(h)
  BY <1>1, StepOfOthers
<1>2. ASSUME Release(h), \/ pc[h] \in {"walk", "create"}
                         \/ CloseExceeded(h) \/ CloseCommit(h) \/ CloseRemove(h)
      PROVE  Ends(h)
  BY <1>2, ReleaseEffect
<1>3. ASSUME NEW s \in Sessions, NEW n \in CmdNames,
             CmdRemove(s, n) \/ \E m \in CmdNames \ {n} : CmdRename(s, n, m)
      PROVE  Same(h)
  BY <1>3 DEF CmdRemove, CmdRename
<1>4. ASSUME NEW s \in Sessions, Drop(s) \/ Reconnect(s) PROVE Same(h)
  BY <1>4 DEF Drop, Reconnect
<1>5. ASSUME NEW s \in CanDie, Kill(s) PROVE Same(h) \/ Ends(h)
  BY <1>5 DEF Kill, NoWriter, NoChunks
<1>6. CASE UNCHANGED vars
  BY <1>6 DEF vars
<1>7. ASSUME ClientStep
      PROVE  \/ Same(h)
             \/ \E p \in Targets[h], len \in 1 .. MaxLen : OpenWalk(h, p, len)
             \/ \E o \in Offsets : WriteLoad(h, o)
  BY <1>1, <1>3, <1>7 DEF ClientStep
<1>8. ASSUME Failure PROVE Same(h) \/ Ends(h)
  BY <1>4, <1>5, <1>8 DEF Failure
<1>9. CASE ServerStep(h)
  BY <1>2, <1>9 DEF ServerStep, RefuseOpen, CloseExceeded, CloseCommit, CloseRemove
<1>10. QED
  BY <1>1, <1>6, <1>7, <1>8, <1>9 DEF Next
-------------------------------------------------------------------------------
(* The phases of a writer, which the library that drives it keeps: it is   *)
(* untouched before Filewrite hands it out, and no WriteAt runs beside or  *)
(* after its Close.                                                        *)

PhasesOf(h) ==
  /\ pc[h] \in {"idle", "walk", "create"} =>
       /\ ~w[h].exceeded
       /\ \A o \in Offsets : writes[h][o] \in {"absent", "unsent"}
  /\ InFlight(h) => pc[h] = "open"

Phases == \A h \in Handles : PhasesOf(h)

LEMMA PhasesStep == TypeOK /\ Phases /\ [Next]_vars => Phases'
<1> SUFFICES ASSUME TypeOK, Phases, [Next]_vars, NEW h \in Handles
             PROVE  PhasesOf(h)'
  BY DEF Phases
<1> USE DEF PhasesOf, InFlight, Busy
<1>0. PhasesOf(h)
  BY DEF Phases
<1>1. CASE Same(h)
  BY <1>0, <1>1 DEF Same
<1>2. CASE Reset(h)
  BY <1>2 DEF Reset
<1>3. ASSUME NEW p \in Targets[h], NEW len \in 1 .. MaxLen, OpenWalk(h, p, len)
      PROVE  PhasesOf(h)'
  <2>1. /\ pc'[h] = "walk"
        /\ w'[h].exceeded = w[h].exceeded
        /\ \A o \in Offsets : writes'[h][o] \in {"absent", "unsent"}
    BY <1>3 DEF OpenWalk, TypeOK, WriterType
  <2>2. ~w[h].exceeded
    BY <1>0, <1>3 DEF OpenWalk
  <2>3. QED
    BY <2>1, <2>2
<1>4. ASSUME NEW n \in EntryNames, WalkEntry(h, n) PROVE PhasesOf(h)'
  <2>1. CASE Release(h)
    BY <1>2, <2>1, ReleaseEffect DEF Reset
  <2>2. CASE UNCHANGED <<pc, w, writes>>
    BY <1>1, <2>2 DEF Same
  <2>3. QED
    BY <1>4, <2>1, <2>2 DEF WalkEntry
<1>5. CASE RemoveOldTemp(h)
  <2>1. pc'[h] = "create" /\ w'[h].exceeded = w[h].exceeded /\ UNCHANGED writes
    BY <1>5 DEF RemoveOldTemp, TypeOK, WriterType
  <2>2. QED
    BY <1>0, <1>5, <2>1 DEF RemoveOldTemp
<1>6. CASE OpenTemp(h)
  <2>1. CASE Release(h)
    BY <1>2, <2>1, ReleaseEffect DEF Reset
  <2>2. CASE ~Release(h)
    BY <1>6, <2>2 DEF OpenTemp, TypeOK
  <2>3. QED
    BY <2>1, <2>2
<1>7. CASE CloseRenameFails(h)
  <2>1. pc'[h] = "abandon" /\ UNCHANGED writes
    BY <1>7 DEF CloseRenameFails, TypeOK
  <2>2. ~InFlight(h)
    BY <1>7 DEF CloseRenameFails, BeginClose, Quiescent
  <2>3. QED
    BY <2>1, <2>2
<1>8. ASSUME NEW o \in Offsets,
             \/ WriteLoad(h, o)
             \/ WriteStore(h, o)
             \/ WriteCheck(h, o)
             \/ WriteUnlink(h, o)
             \/ WritePwrite(h, o)
      PROVE  PhasesOf(h)'
  <2>1. pc[h] = "open"
    BY <1>0, <1>8 DEF WriteLoad, WriteStore, WriteCheck, WriteUnlink, WritePwrite
  <2>2. UNCHANGED pc
    BY <1>8 DEF WriteLoad, WriteStore, WriteCheck, WriteUnlink, WritePwrite
  <2>3. QED
    BY <2>1, <2>2
<1>9. QED
  BY <1>1, <1>2, <1>3, <1>4, <1>5, <1>6, <1>7, <1>8, StepOfHandle
     DEF Ends

(* So WriteAt calls share the unsynchronised fields with one another only. *)
LEMMA PhasesHold == Spec => []Phases
<1>1. Init => Phases
  BY DEF Init, Phases, PhasesOf, NoWriter, NoChunks, InFlight, Busy
<1>2. QED
  BY <1>1, PhasesStep, TypeCorrect, PTL DEF Spec
-------------------------------------------------------------------------------
(* The quota of one upload. *)

CoverOf(h) ==
  \A o \in Offsets :
    /\ writes[h][o] \in Busy => \A q \in Offsets \ {o} : writes[h][q] \notin Busy
    /\ writes[h][o] = "check" => o + 1 <= w[h].maxEnd
    /\ QuotaBytes > 0 /\ writes[h][o] \in {"pwrite", "done"} =>
         w[h].baseBytes + o + 1 <= QuotaBytes

LEMMA CoverStep ==
  ASSUME ~Pipelined, TypeOK, Phases, ChecksCover, [Next]_vars
  PROVE  ChecksCover'
<1> SUFFICES ASSUME NEW h \in Handles PROVE CoverOf(h)'
  BY DEF ChecksCover, CoverOf
<1> USE ConstantsAssumption DEF CoverOf, Busy
<1>0. CoverOf(h) /\ PhasesOf(h) /\ w[h] \in WriterType
  BY DEF ChecksCover, Phases, TypeOK
<1>1. CASE Same(h)
  BY <1>0, <1>1 DEF Same
<1>2. ASSUME \A o \in Offsets : writes'[h][o] \in {"absent", "unsent"}
      PROVE  CoverOf(h)'
  BY <1>2
<1>3. CASE Reset(h)
  BY <1>2, <1>3 DEF Reset
<1>4. ASSUME NEW p \in Targets[h], NEW len \in 1 .. MaxLen, OpenWalk(h, p, len)
      PROVE  CoverOf(h)'
  BY <1>2, <1>4 DEF OpenWalk, TypeOK
<1>5. ASSUME NEW n \in EntryNames, WalkEntry(h, n) PROVE CoverOf(h)'
  BY <1>1, <1>2, <1>5, ReleaseEffect DEF WalkEntry, Same
<1>6. CASE RemoveOldTemp(h)
  BY <1>0, <1>2, <1>6 DEF RemoveOldTemp, PhasesOf
<1>7. CASE OpenTemp(h)
  <2>1. CASE Release(h)
    BY <1>2, <2>1, ReleaseEffect
  <2>2. CASE ~Release(h)
    BY <1>0, <1>2, <1>7, <2>2 DEF OpenTemp, PhasesOf
  <2>3. QED
    BY <2>1, <2>2
<1>8. CASE CloseRenameFails(h)
  <2>1. w'[h].baseBytes = w[h].baseBytes /\ w'[h].maxEnd = w[h].maxEnd /\ UNCHANGED writes
    BY <1>8 DEF CloseRenameFails, TypeOK, WriterType
  <2>2. QED
    BY <1>0, <2>1
<1>9. ASSUME NEW o \in Offsets, WriteLoad(h, o) PROVE CoverOf(h)'
  <2>1. ~InFlight(h) /\ UNCHANGED w
    BY <1>9 DEF WriteLoad
  <2>2. \A q \in Offsets : writes[h][q] \notin Busy
    BY <2>1 DEF InFlight
  <2>3. CASE w[h].exceeded
    BY <1>0, <1>9, <2>1, <2>2, <2>3, ChunkEffect DEF WriteLoad
  <2>4. CASE ~w[h].exceeded
    <3>1. writes'[h][o] = IF o + 1 > w[h].maxEnd THEN "store" ELSE "check"
      BY <1>9, <2>4, ChunkEffect DEF WriteLoad, End
    <3>2. \A q \in Offsets \ {o} : writes'[h][q] = writes[h][q]
      BY <1>9, ChunkEffect DEF WriteLoad
    <3>3. w[h].maxEnd \in Int /\ o \in Int
      BY <1>0 DEF WriterType, Offsets
    <3>4. QED
      BY <1>0, <2>1, <2>2, <3>1, <3>2, <3>3
  <2>5. QED
    BY <2>3, <2>4
<1>10. ASSUME NEW o \in Offsets, WriteStore(h, o) PROVE CoverOf(h)'
  <2>1. w'[h].maxEnd = o + 1 /\ w'[h].baseBytes = w[h].baseBytes
    BY <1>10 DEF WriteStore, End, TypeOK, WriterType
  <2>2. /\ writes[h][o] = "store"
        /\ writes'[h][o] = "check"
        /\ \A q \in Offsets \ {o} : writes'[h][q] = writes[h][q]
    BY <1>10, ChunkEffect DEF WriteStore
  <2>3. o + 1 <= o + 1
    BY DEF Offsets
  <2>4. QED
    BY <1>0, <2>1, <2>2, <2>3
<1>11. ASSUME NEW o \in Offsets, WriteCheck(h, o) PROVE CoverOf(h)'
  <2>1. /\ writes[h][o] = "check"
        /\ \A q \in Offsets \ {o} : writes'[h][q] = writes[h][q]
    BY <1>11, ChunkEffect DEF WriteCheck
  <2>2. w'[h].maxEnd = w[h].maxEnd /\ w'[h].baseBytes = w[h].baseBytes
    BY <1>11 DEF WriteCheck, TypeOK, WriterType
  <2>3. CASE OverQuota(h)
    BY <1>0, <1>11, <2>1, <2>2, <2>3, ChunkEffect DEF WriteCheck
  <2>4. CASE ~OverQuota(h)
    <3>1. writes'[h][o] = "pwrite"
      BY <1>11, <2>4, ChunkEffect DEF WriteCheck
    <3>2. QuotaBytes > 0 => w[h].baseBytes + o + 1 <= QuotaBytes
      BY <1>0, <2>1, <2>4 DEF OverQuota, WriterType, Offsets
    <3>3. QED
      BY <1>0, <2>1, <2>2, <3>1, <3>2
  <2>5. QED
    BY <2>3, <2>4
<1>12. ASSUME NEW o \in Offsets, WriteUnlink(h, o) \/ WritePwrite(h, o)
       PROVE  CoverOf(h)'
  <2>1. /\ UNCHANGED w
        /\ writes[h][o] \in {"unlink", "pwrite"}
        /\ writes'[h][o] \in {"failed", "torn", "done"}
        /\ writes[h][o] = "unlink" => writes'[h][o] = "failed"
        /\ \A q \in Offsets \ {o} : writes'[h][q] = writes[h][q]
    BY <1>12, ChunkEffect DEF WriteUnlink, WritePwrite
  <2>2. QED
    BY <1>0, <2>1
<1>13. QED
  BY <1>1, <1>3, <1>4, <1>5, <1>6, <1>7, <1>8, <1>9, <1>10, <1>11, <1>12, StepOfHandle
     DEF Ends

(* With a client that waits for each answer, the check of the shared       *)
(* maxEnd reads a value that covers the chunk it lets through              *)
(* (quota.go:58-71).                                                       *)
THEOREM ChecksAreExact == ASSUME ~Pipelined PROVE Spec => []ChecksCover
<1>1. Init => ChecksCover
  BY DEF Init, ChecksCover, NoChunks, Busy
<1>2. TypeOK /\ Phases /\ ChecksCover /\ [Next]_vars => ChecksCover'
  BY CoverStep
<1>3. QED
  BY <1>1, <1>2, TypeCorrect, PhasesHold, PTL DEF Spec

(* So every chunk acknowledged to such a client was within the quota that  *)
(* Filewrite's walk had left (quota.go:63).                                *)
THEOREM QuotaPerUpload == ASSUME ~Pipelined PROVE Spec => []UploadWithinQuota
<1>1. ChecksCover => UploadWithinQuota
  BY DEF ChecksCover, UploadWithinQuota
<1>2. QED
  BY <1>1, ChecksAreExact, PTL
-------------------------------------------------------------------------------
(* Temporary files. *)

ClientsUseFinals == CmdNames \subseteq {Final(p) : p \in Paths}

(* Only OpenTemp makes a temporary entry.                                  *)
LEMMA TempMade ==
  ASSUME TypeOK, ClientsUseFinals, [Next]_vars, NEW p \in Paths,
         tree[Tmp(p)] = None, tree'[Tmp(p)] # None
  PROVE  \E h \in Handles : OpenTemp(h) /\ ~Release(h) /\ w[h].finalPath = p
<1> USE DEF Tmp, Final, EntryNames
<1>1. tree # tree'
  OBVIOUS
<1>2. ASSUME NEW n \in EntryNames, Unlink(n) PROVE FALSE
  BY <1>2 DEF Unlink, TypeOK
<1>3. ASSUME NEW h \in Handles, OpenTemp(h)
      PROVE  ~Release(h) /\ w[h].finalPath = p
  <2>1. Tmp(p) \in EntryNames
    OBVIOUS
  <2>2. PICK i \in Inodes : tree' = [tree EXCEPT ![Tmp(w[h].finalPath)] = i]
    BY <1>1, <1>3 DEF OpenTemp
  <2>3. w[h].finalPath = p
    BY <2>1, <2>2 DEF TypeOK
  <2>4. pc'[h] = "open"
    BY <1>1, <1>3 DEF OpenTemp, TypeOK
  <2>5. QED
    BY <2>3, <2>4, ReleaseEffect
<1>4. ASSUME NEW h \in Handles, NEW q, tree' = [tree EXCEPT ![Tmp(q)] = None]
      PROVE  FALSE
  BY <1>4 DEF TypeOK
<1>5. ASSUME NEW h \in Handles, CloseCommit(h) PROVE FALSE
  <2>1. Tmp(p) # Final(w[h].finalPath) /\ Tmp(p) \in EntryNames
    OBVIOUS
  <2>2. QED
    BY <1>5, <2>1 DEF CloseCommit, TypeOK
<1>6. ASSUME NEW s \in Sessions, NEW n \in CmdNames, NEW m \in CmdNames \ {n},
             CmdRename(s, n, m)
      PROVE  FALSE
  <2>1. m # Tmp(p) /\ Tmp(p) \in EntryNames
    BY DEF ClientsUseFinals
  <2>2. QED
    BY <1>6, <2>1 DEF CmdRename, TypeOK
<1>7. ASSUME NEW s \in Sessions, NEW n \in CmdNames, CmdRemove(s, n) PROVE FALSE
  BY <1>2, <1>7 DEF CmdRemove, ClientsUseFinals
<1>8. ASSUME NEW h \in Handles, NEW o \in Offsets,
             \/ WriteLoad(h, o) \/ WriteStore(h, o) \/ WriteCheck(h, o)
             \/ WriteUnlink(h, o) \/ WritePwrite(h, o)
      PROVE  FALSE
  BY <1>1, <1>4, <1>8
     DEF WriteLoad, WriteStore, WriteCheck, WriteUnlink, WritePwrite, Unlink
<1>9. ASSUME NEW h \in Handles,
             \/ \E q \in Targets[h], len \in 1 .. MaxLen : OpenWalk(h, q, len)
             \/ \E n \in EntryNames : WalkEntry(h, n)
             \/ RefuseOpen(h) \/ RemoveOldTemp(h) \/ CloseExceeded(h)
             \/ CloseRenameFails(h) \/ CloseRemove(h)
      PROVE  FALSE
  BY <1>1, <1>4, <1>9
     DEF OpenWalk, WalkEntry, RefuseOpen, RemoveOldTemp, CloseExceeded,
         CloseRenameFails, CloseRemove, Unlink
<1>10. ~Failure /\ ~UNCHANGED vars
  BY <1>1 DEF Failure, Drop, Reconnect, Kill, vars
<1>11. QED
  BY <1>3, <1>5, <1>6, <1>7, <1>8, <1>9, <1>10 DEF Next, ClientStep, ServerStep

(* A temporary file that outlives a step stays with the upload it had.     *)
LEMMA OwnerKept ==
  ASSUME CanDie = {}, TypeOK, Phases, [Next]_vars, NEW p \in Paths,
         NEW h \in Handles, Owns(h, p), tree'[Tmp(p)] # None
  PROVE  Owns(h, p)'
<1> USE DEF Owns
<1>0. PhasesOf(h) /\ w[h] \in WriterType /\ Tmp(p) \in EntryNames
  BY DEF Phases, TypeOK, Tmp, EntryNames
<1>1. CASE Same(h)
  BY <1>1 DEF Same
<1>2. CASE Ends(h)
  <2>1. ~Unlink(Tmp(p))
    BY <1>0 DEF Unlink, TypeOK
  <2>2. ~CloseExceeded(h)
    BY DEF CloseExceeded, BeginClose, Quiescent, InFlight, Busy
  <2>3. ~CloseCommit(h)
    BY <1>0 DEF CloseCommit, TypeOK
  <2>4. ~CloseRemove(h)
    BY <2>1 DEF CloseRemove
  <2>5. QED
    BY <1>2, <2>2, <2>3, <2>4 DEF Ends
<1>3. ASSUME \/ \E q \in Targets[h], len \in 1 .. MaxLen : OpenWalk(h, q, len)
             \/ \E n \in EntryNames : WalkEntry(h, n)
             \/ RemoveOldTemp(h)
             \/ OpenTemp(h)
      PROVE  FALSE
  BY <1>3 DEF OpenWalk, WalkEntry, RemoveOldTemp, OpenTemp
<1>4. CASE CloseRenameFails(h)
  BY <1>0, <1>4 DEF CloseRenameFails, TypeOK, WriterType
<1>5. ASSUME NEW o \in Offsets, WriteLoad(h, o) PROVE Owns(h, p)'
  <2>1. UNCHANGED <<pc, w>> /\ writes[h][o] = "unsent"
    BY <1>5 DEF WriteLoad
  <2>2. \A q \in Offsets \ {o} : writes'[h][q] = writes[h][q]
    BY <1>5, ChunkEffect DEF WriteLoad
  <2>3. QED
    BY <2>1, <2>2
<1>6. ASSUME NEW o \in Offsets, WriteStore(h, o) \/ WritePwrite(h, o) PROVE Owns(h, p)'
  <2>1. /\ UNCHANGED pc
        /\ w'[h].finalPath = w[h].finalPath
        /\ w'[h].exceeded = w[h].exceeded
        /\ writes[h][o] # "unlink"
    BY <1>6 DEF WriteStore, WritePwrite, TypeOK, WriterType
  <2>2. \A q \in Offsets \ {o} : writes'[h][q] = writes[h][q]
    BY <1>6, ChunkEffect DEF WriteStore, WritePwrite
  <2>3. QED
    BY <2>1, <2>2
<1>7. ASSUME NEW o \in Offsets, WriteCheck(h, o) PROVE Owns(h, p)'
  <2>1. /\ UNCHANGED pc
        /\ w'[h].finalPath = w[h].finalPath
        /\ writes[h][o] = "check"
        /\ \A q \in Offsets \ {o} : writes'[h][q] = writes[h][q]
    BY <1>7, ChunkEffect DEF WriteCheck, TypeOK, WriterType
  <2>2. pc[h] = "open"
    BY <1>0, <2>1 DEF PhasesOf, InFlight, Busy
  <2>3. CASE UNCHANGED w
    BY <2>1, <2>3
  <2>4. CASE SetChunk(h, o, "unlink")
    BY <2>1, <2>2, <2>4, ChunkEffect
  <2>5. QED
    BY <1>7, <2>3, <2>4 DEF WriteCheck
<1>8. ASSUME NEW o \in Offsets, WriteUnlink(h, o) PROVE FALSE
  BY <1>0, <1>8 DEF WriteUnlink, Unlink, TypeOK
<1>9. QED
  BY <1>1, <1>2, <1>3, <1>4, <1>5, <1>6, <1>7, <1>8, StepOfHandle

(* Unless a server is killed, or clients name temporary files themselves,  *)
(* every temporary file is still to be committed or removed by an upload:  *)
(* no order of closes, quota refusals, failed renames and lost connections *)
(* leaves one behind, even when uploads fight over one name.               *)
THEOREM TempsHaveOwners ==
  ASSUME CanDie = {}, ClientsUseFinals
  PROVE  Spec => []TempHasOwner
<1>1. Init => TempHasOwner
  BY DEF Init, TempHasOwner, Tmp, EntryNames
<1>2. ASSUME TypeOK, Phases, TempHasOwner, [Next]_vars PROVE TempHasOwner'
  <2> SUFFICES ASSUME NEW p \in Paths, tree'[Tmp(p)] # None
               PROVE  \E h \in Handles : Owns(h, p)'
    BY DEF TempHasOwner, Tmp
  <2>1. CASE tree[Tmp(p)] # None
    BY <1>2, <2>1, OwnerKept DEF TempHasOwner
  <2>2. CASE tree[Tmp(p)] = None
    <3>1. PICK h \in Handles : OpenTemp(h) /\ ~Release(h) /\ w[h].finalPath = p
      BY <1>2, <2>2, TempMade
    <3>2. pc'[h] = "open" /\ w'[h].finalPath = p /\ w'[h].exceeded = w[h].exceeded
      BY <1>2, <3>1 DEF OpenTemp, TypeOK, WriterType
    <3>3. ~w[h].exceeded
      BY <1>2, <3>1 DEF Phases, PhasesOf, OpenTemp
    <3>4. Owns(h, p)'
      BY <3>2, <3>3 DEF Owns
    <3>5. QED
      BY <3>4
  <2>3. QED
    BY <2>1, <2>2
<1>3. QED
  BY <1>1, <1>2, TypeCorrect, PhasesHold, PTL DEF Spec
===============================================================================
