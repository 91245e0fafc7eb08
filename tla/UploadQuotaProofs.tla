-------------------------- MODULE UploadQuotaProofs ---------------------------
(***************************************************************************)
(* Theorems about the two quotas of a directory, of files and of bytes,    *)
(* that several uploads count and add to at once.                          *)
(***************************************************************************)
EXTENDS UploadStoreProofs

(* A session's one goroutine for all but reads and writes is on one handle. *)
AtWork == {"walk", "create", "abandon"}

OneAtWork ==
  \A g, h \in Handles :
    SessionOf[g] = SessionOf[h] /\ pc[g] \in AtWork /\ pc[h] \in AtWork => g = h

WalkInOrder(h) ==
  /\ pc[h] # "walk" => walk[h] = NoWalk
  /\ IsFiniteSet(walk[h].todo)

(* A Filewrite that has found room for one more file, or is going to: what *)
(* it has counted and what it has listed are less than the quota.          *)
Passing(h) ==
  \/ pc[h] = "create"
  \/ pc[h] = "walk" /\ walk[h].files + Cardinality(walk[h].todo) < QuotaFiles

Makers == {s \in Sessions : \E h \in Handles : SessionOf[h] = s /\ Passing(h)}

(* The files there are and those that may still be made.                   *)
RoomForAll ==
  QuotaFiles > 0 =>
    Cardinality(Present) + Cardinality(Makers) <= QuotaFiles + Cardinality(Sessions) - 1

CountInv ==
  /\ TypeOK /\ OneAtWork /\ IsFiniteSet(Present)
  /\ \A h \in Handles : WalkInOrder(h)
  /\ RoomForAll
-------------------------------------------------------------------------------
(* What a step may do to the Filewrite or Close of one handle.             *)
Resting(h) == pc'[h] = pc[h] /\ walk'[h] = walk[h]

Counted(h) ==
  /\ pc[h] = "walk" /\ pc'[h] = "walk" /\ UNCHANGED <<tree, content>>
  /\ \E n \in walk[h].todo :
       /\ tree[n] # None
       /\ walk'[h].todo = walk[h].todo \ {n}
       /\ walk'[h].bytes = walk[h].bytes + Size(content[tree[n]])
  /\ walk'[h].files = walk[h].files + 1

Steps(h) ==
  \/ pc'[h] = "idle" /\ walk'[h] = NoWalk
  \/ \E p \in Targets[h], len \in 1 .. MaxLen : OpenWalk(h, p, len)
  \/ Counted(h)
  \/ /\ pc[h] = "walk" /\ walk[h].todo = {} /\ ~FilesExhausted(h)
     /\ pc'[h] = "create" /\ walk'[h] = NoWalk
  \/ pc[h] = "create" /\ pc'[h] = "open" /\ walk'[h] = walk[h]
  \/ /\ pc[h] = "open" /\ CommandIdle(SessionOf[h])
     /\ pc'[h] = "abandon" /\ walk'[h] = walk[h]

LEMMA ReleaseWalk ==
  ASSUME TypeOK, NEW h \in Handles, Release(h)
  PROVE  /\ pc'[h] = "idle" /\ walk'[h] = NoWalk
         /\ \A g \in Handles \ {h} : Resting(g)
BY DEF TypeOK, Release, Resting

LEMMA OwnStep ==
  ASSUME TypeOK, NEW h \in Handles,
         \/ ServerStep(h)
         \/ \E p \in Targets[h], len \in 1 .. MaxLen : OpenWalk(h, p, len)
         \/ \E o \in Offsets : WriteLoad(h, o)
  PROVE  /\ Resting(h) \/ Steps(h)
         /\ \A g \in Handles \ {h} : Resting(g)
<1> USE DEF Resting, Steps
<1>1. CASE Release(h)
  BY <1>1, ReleaseWalk
<1>2. ASSUME NEW p \in Targets[h], NEW len \in 1 .. MaxLen, OpenWalk(h, p, len)
      PROVE  Steps(h) /\ \A g \in Handles \ {h} : Resting(g)
  BY <1>2 DEF OpenWalk, TypeOK
<1>3. ASSUME NEW o \in Offsets,
             \/ WriteLoad(h, o) \/ WriteStore(h, o) \/ WriteCheck(h, o)
             \/ WriteUnlink(h, o) \/ WritePwrite(h, o)
      PROVE  \A g \in Handles : Resting(g)
  BY <1>3 DEF WriteLoad, WriteStore, WriteCheck, WriteUnlink, WritePwrite
<1>4. ASSUME NEW n \in EntryNames, WalkEntry(h, n), ~Release(h)
      PROVE  Counted(h) /\ \A g \in Handles \ {h} : Resting(g)
  <2>1. /\ pc[h] = "walk" /\ n \in walk[h].todo /\ pc' = pc
        /\ tree[n] # None /\ UNCHANGED <<tree, content>>
        /\ walk' = [walk EXCEPT ![h] = [todo  |-> walk[h].todo \ {n},
                                        bytes |-> walk[h].bytes + Size(content[tree[n]]),
                                        files |-> walk[h].files + 1]]
    BY <1>4 DEF WalkEntry
  <2>2. QED
    BY <2>1 DEF TypeOK, Counted
<1>5. CASE RemoveOldTemp(h)
  BY <1>5 DEF RemoveOldTemp, TypeOK
<1>6. CASE OpenTemp(h) /\ ~Release(h)
  BY <1>6 DEF OpenTemp, TypeOK
<1>7. CASE CloseRenameFails(h)
  BY <1>7 DEF CloseRenameFails, BeginClose, Quiescent, TypeOK
<1>8. QED
  BY <1>1, <1>2, <1>3, <1>4, <1>5, <1>6, <1>7
     DEF ServerStep, RefuseOpen, CloseExceeded, CloseCommit, CloseRemove

LEMMA AnyStep ==
  ASSUME TypeOK, [Next]_vars
  PROVE  \/ \A g \in Handles : Resting(g) \/ (pc'[g] = "idle" /\ walk'[g] = NoWalk)
         \/ \E h \in Handles : Steps(h) /\ \A g \in Handles \ {h} : Resting(g)
<1>1. ASSUME NEW h \in Handles,
             \/ ServerStep(h)
             \/ \E p \in Targets[h], len \in 1 .. MaxLen : OpenWalk(h, p, len)
             \/ \E o \in Offsets : WriteLoad(h, o)
      PROVE  \/ \A g \in Handles : Resting(g)
             \/ Steps(h) /\ \A g \in Handles \ {h} : Resting(g)
  BY <1>1, OwnStep
<1>2. ASSUME NEW s \in Sessions, NEW n \in CmdNames,
             CmdRemove(s, n) \/ \E m \in CmdNames \ {n} : CmdRename(s, n, m)
      PROVE  UNCHANGED <<pc, walk>>
  BY <1>2 DEF CmdRemove, CmdRename
<1>3. ASSUME NEW s \in Sessions, Drop(s) \/ Reconnect(s) PROVE UNCHANGED <<pc, walk>>
  BY <1>3 DEF Drop, Reconnect
<1>4. ASSUME NEW s \in CanDie, Kill(s)
      PROVE  \A g \in Handles : Resting(g) \/ (pc'[g] = "idle" /\ walk'[g] = NoWalk)
  BY <1>4 DEF Kill, Resting
<1>5. CASE UNCHANGED <<pc, walk>>
  BY <1>5 DEF Resting
<1>6. QED
  BY <1>1, <1>2, <1>3, <1>4, <1>5 DEF Next, ClientStep, Failure, vars
-------------------------------------------------------------------------------
(* The entries a step leaves. *)
LEMMA RenameKeeps ==
  ASSUME IsFiniteSet(Present), tree \in [EntryNames -> Inodes \cup {None}],
         NEW n \in EntryNames, NEW m \in EntryNames \ {n}, tree[n] # None,
         tree' = [tree EXCEPT ![m] = tree[n], ![n] = None]
  PROVE  IsFiniteSet(Present') /\ Cardinality(Present') <= Cardinality(Present)
<1> DEFINE D == (Present \ {n}) \cup {m}
<1>1. n \in Present /\ Present' \subseteq D
  BY DEF Present
<1>2. /\ IsFiniteSet(Present \ {n})
      /\ Cardinality(Present \ {n}) = Cardinality(Present) - 1
  BY <1>1, FS_RemoveElement
<1>3. /\ IsFiniteSet(D)
      /\ \/ Cardinality(D) = Cardinality(Present \ {n})
         \/ Cardinality(D) = Cardinality(Present \ {n}) + 1
  BY <1>2, FS_AddElement
<1> HIDE DEF D
<1>4. Cardinality(Present) \in Nat /\ Cardinality(D) \in Nat
  BY <1>3, FS_CardinalityType
<1>5. IsFiniteSet(Present') /\ Cardinality(Present') <= Cardinality(D) /\ Cardinality(Present') \in Nat
  BY <1>1, <1>3, FS_Subset, FS_CardinalityType
<1>6. QED
  BY <1>2, <1>3, <1>4, <1>5

LEMMA FewerKeeps ==
  ASSUME IsFiniteSet(Present), Present' \subseteq Present
  PROVE  IsFiniteSet(Present') /\ Cardinality(Present') <= Cardinality(Present)
BY FS_Subset

(* Only a Filewrite in "create" adds an entry, and one.                    *)
LEMMA EntriesStep ==
  ASSUME TypeOK, IsFiniteSet(Present), [Next]_vars
  PROVE  /\ IsFiniteSet(Present')
         /\ \/ Cardinality(Present') <= Cardinality(Present)
            \/ /\ Cardinality(Present') <= Cardinality(Present) + 1
               /\ \E h \in Handles :
                    /\ pc[h] = "create" /\ pc'[h] = "open" /\ walk'[h] = walk[h]
                    /\ \A g \in Handles \ {h} : Resting(g)
<1> DEFINE Fewer == IsFiniteSet(Present') /\ Cardinality(Present') <= Cardinality(Present)
<1>1. ASSUME NEW n, Unlink(n) PROVE Fewer
  BY <1>1, FewerKeeps DEF Unlink, Present, TypeOK
<1>2. ASSUME UNCHANGED tree PROVE Fewer
  BY <1>2, FewerKeeps DEF Present
<1>3. ASSUME NEW h \in Handles, CloseCommit(h) PROVE Fewer
  <2> DEFINE p == w[h].finalPath
  <2>1. CASE p \in Paths
    <3>1. Tmp(p) \in EntryNames /\ Final(p) \in EntryNames \ {Tmp(p)}
      BY <2>1 DEF Tmp, Final, EntryNames
    <3>2. tree[Tmp(p)] # None /\ tree' = [tree EXCEPT ![Final(p)] = tree[Tmp(p)], ![Tmp(p)] = None]
      BY <1>3 DEF CloseCommit
    <3>3. QED
      BY <3>1, <3>2, RenameKeeps DEF TypeOK
  <2>2. CASE p \notin Paths
    <3>1. Tmp(p) \notin EntryNames /\ Final(p) \notin EntryNames
      BY <2>2 DEF Tmp, Final, EntryNames
    <3>2. UNCHANGED tree
      BY <1>3, <3>1 DEF CloseCommit, TypeOK
    <3>3. QED
      BY <1>2, <3>2
  <2>3. QED
    BY <2>1, <2>2
<1>4. ASSUME NEW s \in Sessions, NEW n \in CmdNames, NEW m \in CmdNames \ {n}, CmdRename(s, n, m)
      PROVE  Fewer
  BY <1>4, RenameKeeps, ConstantsAssumption DEF CmdRename, TypeOK
<1>5. ASSUME NEW h \in Handles, OpenTemp(h), ~UNCHANGED tree
      PROVE  /\ IsFiniteSet(Present')
             /\ Cardinality(Present') <= Cardinality(Present) + 1
             /\ pc[h] = "create" /\ pc'[h] = "open" /\ walk'[h] = walk[h]
             /\ \A g \in Handles \ {h} : Resting(g)
  <2> DEFINE t == Tmp(w[h].finalPath)
             D == Present \cup {t}
  <2>1. PICK i \in Inodes : tree' = [tree EXCEPT ![t] = i]
    BY <1>5 DEF OpenTemp
  <2>2. Present' \subseteq D
    BY <2>1 DEF Present, TypeOK
  <2>3. IsFiniteSet(D) /\ (Cardinality(D) = Cardinality(Present) \/ Cardinality(D) = Cardinality(Present) + 1)
    BY FS_AddElement
  <2>4. pc[h] = "create" /\ pc'[h] = "open" /\ walk'[h] = walk[h] /\ \A g \in Handles \ {h} : Resting(g)
    <3>1. pc[h] = "create" /\ pc' = [pc EXCEPT ![h] = "open"] /\ UNCHANGED walk
      BY <1>5 DEF OpenTemp
    <3>2. QED
      BY <3>1 DEF TypeOK, Resting
  <2> HIDE DEF D
  <2>5. /\ IsFiniteSet(Present') /\ Cardinality(Present') <= Cardinality(D)
        /\ Cardinality(Present') \in Nat /\ Cardinality(D) \in Nat /\ Cardinality(Present) \in Nat
    BY <2>2, <2>3, FS_Subset, FS_CardinalityType
  <2>6. QED
    BY <2>3, <2>4, <2>5
<1>6. ASSUME NEW h \in Handles, ServerStep(h), ~OpenTemp(h), ~CloseCommit(h)
      PROVE  UNCHANGED tree \/ \E n : Unlink(n)
  BY <1>6 DEF ServerStep, WalkEntry, RefuseOpen, RemoveOldTemp, WriteStore, WriteCheck,
              WriteUnlink, WritePwrite, CloseExceeded, CloseRenameFails, CloseRemove
<1>7. ASSUME ClientStep
      PROVE  \/ UNCHANGED tree \/ \E n : Unlink(n)
             \/ \E s \in Sessions, n \in CmdNames : \E m \in CmdNames \ {n} : CmdRename(s, n, m)
  BY <1>7 DEF ClientStep, OpenWalk, WriteLoad, CmdRemove
<1>8. ASSUME Failure \/ UNCHANGED vars PROVE UNCHANGED tree
  BY <1>8 DEF Failure, Drop, Reconnect, Kill, vars
<1>9. QED
  BY <1>1, <1>2, <1>3, <1>4, <1>5, <1>6, <1>7, <1>8 DEF Next
-------------------------------------------------------------------------------
LEMMA NoWalkIs == NoWalk.todo = {} /\ NoWalk.files = 0 /\ IsFiniteSet(NoWalk.todo)
BY FS_EmptySet DEF NoWalk

(* Walks stay finite, and a session at one thing at a time.                *)
LEMMA OrderStep ==
  ASSUME TypeOK, OneAtWork, IsFiniteSet(Present), \A h \in Handles : WalkInOrder(h), [Next]_vars
  PROVE  OneAtWork' /\ \A h \in Handles : WalkInOrder(h)'
<1> USE DEF Resting
<1>1. CASE \A g \in Handles : Resting(g) \/ (pc'[g] = "idle" /\ walk'[g] = NoWalk)
  BY <1>1, NoWalkIs DEF OneAtWork, AtWork, WalkInOrder
<1>2. ASSUME NEW h \in Handles, Steps(h), \A g \in Handles \ {h} : Resting(g)
      PROVE  OneAtWork' /\ \A g \in Handles : WalkInOrder(g)'
  <2>1. \/ pc'[h] \notin AtWork
        \/ pc[h] \in AtWork
        \/ \A g \in Handles \ {h} : SessionOf[g] = SessionOf[h] => pc[g] \notin AtWork
    BY <1>2 DEF Steps, Counted, OpenWalk, CommandIdle, AtWork
  <2>2. OneAtWork'
    BY <1>2, <2>1 DEF OneAtWork
  <2>3. WalkInOrder(h)'
    <3>1. CASE walk'[h] = NoWalk
      BY <3>1, NoWalkIs DEF WalkInOrder
    <3>2. ASSUME NEW p \in Targets[h], NEW len \in 1 .. MaxLen, OpenWalk(h, p, len)
          PROVE  WalkInOrder(h)'
      <4>1. pc'[h] = "walk" /\ walk'[h].todo = Present
        BY <3>2 DEF OpenWalk, TypeOK, WalkType, Present
      <4>2. QED
        BY <4>1 DEF WalkInOrder
    <3>3. CASE Counted(h)
      <4>1. PICK n \in walk[h].todo : walk'[h].todo = walk[h].todo \ {n}
        BY <3>3 DEF Counted
      <4>2. IsFiniteSet(walk'[h].todo)
        BY <4>1, FS_RemoveElement DEF WalkInOrder
      <4>3. QED
        BY <3>3, <4>2 DEF Counted, WalkInOrder
    <3>4. CASE pc[h] \in {"create", "open"} /\ pc'[h] # "walk" /\ walk'[h] = walk[h]
      BY <3>4 DEF WalkInOrder
    <3>5. QED
      BY <1>2, <3>1, <3>2, <3>3, <3>4 DEF Steps
  <2>4. QED
    BY <1>2, <2>2, <2>3 DEF WalkInOrder
<1>3. QED
  BY <1>1, <1>2, AnyStep

(* A Filewrite passes its count because it has been passing it all along,  *)
(* or begins when there is room.                                           *)
LEMMA PassingStep ==
  ASSUME TypeOK, \A h \in Handles : WalkInOrder(h), IsFiniteSet(Present), [Next]_vars,
         QuotaFiles > 0, NEW h \in Handles, Passing(h)', ~Passing(h)
  PROVE  Cardinality(Present) < QuotaFiles /\ UNCHANGED tree
<1> USE ConstantsAssumption
<1>0. WalkInOrder(h) /\ walk[h] \in WalkType
  BY DEF TypeOK
<1>1. ~Resting(h) /\ pc'[h] # "idle"
  BY DEF Resting, Passing
<1>2. Steps(h)
  BY <1>1, AnyStep
<1>3. CASE \E p \in Targets[h], len \in 1 .. MaxLen : OpenWalk(h, p, len)
  <2>1. /\ pc[h] = "idle" /\ pc'[h] = "walk" /\ UNCHANGED tree
        /\ walk'[h].todo = Present /\ walk'[h].files = walk[h].files
    BY <1>3 DEF OpenWalk, TypeOK, WalkType, Present
  <2>2. walk'[h].files = 0
    BY <1>0, <2>1, NoWalkIs DEF WalkInOrder
  <2>3. Cardinality(Present) \in Nat
    BY FS_CardinalityType
  <2>4. QED
    BY <2>1, <2>2, <2>3 DEF Passing
<1>4. CASE Counted(h)
  <2>1. PICK n \in walk[h].todo : walk'[h].todo = walk[h].todo \ {n}
    BY <1>4 DEF Counted
  <2>2. Cardinality(walk'[h].todo) = Cardinality(walk[h].todo) - 1
    <3>1. IsFiniteSet(walk[h].todo)
      BY <1>0 DEF WalkInOrder
    <3>2. Cardinality(walk[h].todo \ {n}) = Cardinality(walk[h].todo) - 1
      BY <3>1, FS_RemoveElement
    <3>3. QED
      BY <2>1, <3>2
  <2>3. Cardinality(walk[h].todo) \in Nat /\ walk[h].files \in Nat
    BY <1>0, FS_CardinalityType DEF WalkInOrder, WalkType
  <2>4. QED
    BY <1>4, <2>2, <2>3 DEF Counted, Passing
<1>5. CASE pc[h] = "walk" /\ walk[h].todo = {} /\ ~FilesExhausted(h)
  <2>1. Cardinality(walk[h].todo) = 0 /\ walk[h].files \in Nat
    BY <1>0, <1>5, FS_EmptySet DEF WalkType
  <2>2. walk[h].files < QuotaFiles
    BY <1>5, <2>1 DEF FilesExhausted
  <2>3. QED
    BY <1>5, <2>1, <2>2 DEF Passing
<1>6. CASE pc'[h] \in {"idle", "open", "abandon"}
  BY <1>6 DEF Passing
<1>7. QED
  BY <1>2, <1>3, <1>4, <1>5, <1>6 DEF Steps

LEMMA MakersFinite ==
  ASSUME IsFiniteSet(Sessions)
  PROVE  /\ IsFiniteSet(Makers) /\ IsFiniteSet(Makers')
         /\ Cardinality(Makers) \in Nat /\ Cardinality(Makers') \in Nat
         /\ Cardinality(Sessions) \in Nat /\ Cardinality(Makers') <= Cardinality(Sessions)
<1>1. Makers \subseteq Sessions /\ Makers' \subseteq Sessions
  BY DEF Makers
<1>2. QED
  BY <1>1, FS_Subset, FS_CardinalityType

(* The bound is kept: who makes a file gives up its place among those who  *)
(* may, and who joins them found room for one.                             *)
LEMMA RoomStep ==
  ASSUME IsFiniteSet(Sessions), CountInv, [Next]_vars
  PROVE  RoomForAll'
<1> USE ConstantsAssumption
<1> SUFFICES ASSUME QuotaFiles > 0
             PROVE  Cardinality(Present') + Cardinality(Makers')
                      <= QuotaFiles + Cardinality(Sessions) - 1
  BY DEF RoomForAll
<1>1. /\ TypeOK /\ OneAtWork /\ IsFiniteSet(Present) /\ \A h \in Handles : WalkInOrder(h)
      /\ Cardinality(Present) + Cardinality(Makers) <= QuotaFiles + Cardinality(Sessions) - 1
  BY DEF CountInv, RoomForAll
<1>2. /\ IsFiniteSet(Present') /\ Cardinality(Present) \in Nat /\ Cardinality(Present') \in Nat
      /\ IsFiniteSet(Makers) /\ IsFiniteSet(Makers')
      /\ Cardinality(Makers) \in Nat /\ Cardinality(Makers') \in Nat
      /\ Cardinality(Sessions) \in Nat /\ Cardinality(Makers') <= Cardinality(Sessions)
  BY <1>1, EntriesStep, MakersFinite, FS_CardinalityType
<1>3. CASE Makers' \subseteq Makers /\ Cardinality(Present') <= Cardinality(Present)
  <2>1. Cardinality(Makers') <= Cardinality(Makers)
    BY <1>2, <1>3, FS_Subset
  <2>2. QED
    BY <1>1, <1>2, <1>3, <2>1
<1>4. CASE ~(Makers' \subseteq Makers)
  <2>1. PICK h \in Handles : Passing(h)' /\ ~Passing(h)
    BY <1>4 DEF Makers
  <2>2. Cardinality(Present) < QuotaFiles /\ Present' = Present
    BY <1>1, <2>1, PassingStep DEF Present
  <2>3. QED
    BY <1>2, <2>2
<1>5. CASE Makers' \subseteq Makers /\ ~(Cardinality(Present') <= Cardinality(Present))
  <2>1. PICK h \in Handles :
          /\ pc[h] = "create" /\ pc'[h] = "open" /\ walk'[h] = walk[h]
          /\ \A g \in Handles \ {h} : Resting(g)
    BY <1>1, <1>5, EntriesStep
  <2>2. Cardinality(Present') <= Cardinality(Present) + 1
    BY <1>1, <1>5, EntriesStep
  <2> DEFINE s == SessionOf[h]
  <2>3. s \in Makers
    BY <2>1 DEF Makers, Passing
  <2>4. s \notin Makers'
    <3>1. ASSUME NEW g \in Handles, SessionOf[g] = s, Passing(g)' PROVE FALSE
      <4>1. g # h
        BY <2>1, <3>1 DEF Passing
      <4>2. pc[g] \in AtWork /\ pc[h] \in AtWork
        BY <2>1, <3>1, <4>1 DEF Resting, Passing, AtWork
      <4>3. QED
        BY <1>1, <3>1, <4>1, <4>2 DEF OneAtWork
    <3>2. QED
      BY <3>1 DEF Makers
  <2>5. Makers' \subseteq Makers \ {s}
    BY <1>5, <2>4
  <2>6. /\ IsFiniteSet(Makers \ {s})
        /\ Cardinality(Makers \ {s}) = Cardinality(Makers) - 1
    BY <1>2, <2>3, FS_RemoveElement
  <2>7. Cardinality(Makers') <= Cardinality(Makers) - 1
    BY <2>5, <2>6, FS_Subset
  <2>8. QED
    BY <1>1, <1>2, <2>2, <2>7
<1>6. QED
  BY <1>3, <1>4, <1>5

LEMMA CountInit == ASSUME IsFiniteSet(Sessions) PROVE Init => CountInv
<1> SUFFICES ASSUME Init PROVE CountInv
  OBVIOUS
<1> USE ConstantsAssumption
<1>1. TypeOK
  BY DEF Init, TypeOK, Blank, Cells, NoWalk, NoWriter, NoChunks, States, ChunkStates, WalkType, WriterType
<1>2. OneAtWork
  BY DEF Init, OneAtWork, AtWork
<1>3. Present = {} /\ Makers = {}
  BY DEF Init, Present, Makers, Passing
<1>4. \A h \in Handles : WalkInOrder(h)
  BY NoWalkIs DEF Init, WalkInOrder
<1>5. IsFiniteSet(Present) /\ Cardinality(Present) = 0 /\ Cardinality(Makers) = 0
  BY <1>3, FS_EmptySet
<1>6. RoomForAll
  BY <1>5, FS_CardinalityType DEF RoomForAll
<1>7. QED
  BY <1>1, <1>2, <1>4, <1>5, <1>6 DEF CountInv

(* However many sessions count and create at once, whoever fails, is lost  *)
(* or is killed in between, and whatever clients remove and rename: the    *)
(* directory never holds more than the file quota and one file for each    *)
(* further session (fs.go:88-106).                                         *)
THEOREM FileQuotaHolds ==
  ASSUME IsFiniteSet(Sessions)
  PROVE  Spec => []FileQuotaBound
<1>1. Init => CountInv
  BY CountInit
<1>2. CountInv /\ [Next]_vars => CountInv'
  <2> SUFFICES ASSUME CountInv, [Next]_vars PROVE CountInv'
    OBVIOUS
  <2>1. TypeOK'
    BY TypeStep DEF CountInv
  <2>2. OneAtWork' /\ \A h \in Handles : WalkInOrder(h)'
    BY OrderStep DEF CountInv
  <2>3. IsFiniteSet(Present')
    BY EntriesStep DEF CountInv
  <2>4. RoomForAll'
    BY RoomStep
  <2>5. QED
    BY <2>1, <2>2, <2>3, <2>4 DEF CountInv
<1>3. CountInv => FileQuotaBound
  <2> SUFFICES ASSUME CountInv, QuotaFiles > 0
               PROVE  Cardinality(Present) <= QuotaFiles + Cardinality(Sessions) - 1
    BY DEF FileQuotaBound
  <2>1. Cardinality(Present) \in Nat /\ Cardinality(Makers) \in Nat /\ Cardinality(Sessions) \in Nat
    BY MakersFinite, FS_CardinalityType DEF CountInv
  <2>2. QED
    BY <2>1, ConstantsAssumption DEF CountInv, RoomForAll
<1>4. QED
  BY <1>1, <1>2, <1>3, PTL DEF Spec
-------------------------------------------------------------------------------
(* The quota in bytes.  What a file takes up is counted by its inode, so   *)
(* that a file that is renamed takes up what it did.                       *)
Filled(t, c, S) == UNION {{t[n]} \X Extent(c[t[n]]) : n \in {m \in S : t[m] # None}}

Amount(S) == Cardinality(Filled(tree, content, S))

Own(h) == {Tmp(p) : p \in Targets[h]} \cup {Final(p) : p \in Targets[h]}

(* What one handle's uploads take up: never more than the quota.  A walk   *)
(* has counted what it has not still to count, and the temporary file may  *)
(* grow by what all but itself leaves.                                     *)
Fits(h) ==
  /\ Amount(Own(h)) <= QuotaBytes
  /\ pc[h] = "walk" => Amount(Own(h) \ walk[h].todo) <= walk[h].bytes
  /\ pc[h] \in {"create", "open"} => Amount(Own(h) \ {Tmp(w[h].finalPath)}) <= w[h].baseBytes

Owned == \A n \in Present : \E h \in Handles : n \in Own(h)

BytesInv ==
  /\ StoreInv /\ ChecksCover
  /\ IsFiniteSet(Present) /\ Owned
  /\ \A h \in Handles : Fits(h)

(* No client renames a file: by a rename a file may slip through a walk,   *)
(* to a name the walk has counted already.                                 *)
Renames == \E s \in Sessions, n \in CmdNames : \E m \in CmdNames \ {n} : CmdRename(s, n, m)
-------------------------------------------------------------------------------
LEMMA FilledIs ==
  ASSUME NEW t, NEW c, NEW S, NEW x
  PROVE  x \in Filled(t, c, S) <=>
           \E n \in S : t[n] # None /\ \E m \in Extent(c[t[n]]) : x = <<t[n], m>>
BY DEF Filled

LEMMA FilledFinite ==
  ASSUME NEW t, NEW c, NEW S, IsFiniteSet({n \in S : t[n] # None})
  PROVE  IsFiniteSet(Filled(t, c, S)) /\ Cardinality(Filled(t, c, S)) \in Nat
<1> DEFINE P == {n \in S : t[n] # None}
           f == [n \in P |-> t[n]]
           I == {t[n] : n \in P}
<1>1. f \in Surjection(P, I)
  BY DEF Surjection
<1>2. IsFiniteSet(I)
  BY <1>1, FS_Surjection
<1>3. IsFiniteSet(Offsets)
  BY FS_Interval, ConstantsAssumption DEF Offsets
<1>4. IsFiniteSet(I \X Offsets)
  BY <1>2, <1>3, FS_Product
<1>5. Filled(t, c, S) \subseteq I \X Offsets
  BY FilledIs DEF Extent
<1>6. QED
  BY <1>4, <1>5, FS_Subset, FS_CardinalityType

LEMMA AmountFinite ==
  ASSUME IsFiniteSet(Present), NEW S, S \subseteq EntryNames
  PROVE  IsFiniteSet(Filled(tree, content, S)) /\ Amount(S) \in Nat
<1>1. {n \in S : tree[n] # None} \subseteq Present
  BY DEF Present
<1>2. IsFiniteSet({n \in S : tree[n] # None})
  BY <1>1, FS_Subset
<1>3. QED
  BY <1>2, FilledFinite DEF Amount

LEMMA OwnEntries == \A h \in Handles : Own(h) \subseteq EntryNames
BY ConstantsAssumption, Names DEF Own

(* Fewer files take up no more. *)
LEMMA AmountGrows ==
  ASSUME IsFiniteSet(Present), NEW S, NEW T, S \subseteq T, T \subseteq EntryNames
  PROVE  Amount(S) <= Amount(T)
<1>1. Filled(tree, content, S) \subseteq Filled(tree, content, T)
  BY FilledIs
<1>2. QED
  BY <1>1, AmountFinite, FS_Subset DEF Amount

(* What the walk adds for a file is what that takes up. *)
LEMMA AmountAdds ==
  ASSUME IsFiniteSet(Present), NEW S, S \subseteq EntryNames, NEW n \in EntryNames,
         tree[n] # None
  PROVE  Amount(S \cup {n}) <= Amount(S) + Size(content[tree[n]])
<1> DEFINE A == Filled(tree, content, S)
           B == {tree[n]} \X Extent(content[tree[n]])
<1>1. Filled(tree, content, S \cup {n}) \subseteq A \cup B
  BY FilledIs
<1>2. IsFiniteSet(A) /\ Cardinality(A) \in Nat
  BY AmountFinite DEF Amount
<1>3. IsFiniteSet(B) /\ Cardinality(B) = Size(content[tree[n]])
  <2>1. IsFiniteSet(Extent(content[tree[n]]))
    <3>1. IsFiniteSet(Offsets)
      BY FS_Interval, ConstantsAssumption DEF Offsets
    <3>2. QED
      BY <3>1, FS_Subset DEF Extent
  <2>2. IsFiniteSet({tree[n]}) /\ Cardinality({tree[n]}) = 1
    BY FS_Singleton
  <2>3. IsFiniteSet(B) /\ Cardinality(B) = 1 * Cardinality(Extent(content[tree[n]]))
    BY <2>1, <2>2, FS_Product
  <2>4. Cardinality(Extent(content[tree[n]])) \in Nat
    BY <2>1, FS_CardinalityType
  <2>5. QED
    BY <2>3, <2>4 DEF Size
<1> HIDE DEF A, B
<1>4. IsFiniteSet(A \cup B) /\ Cardinality(A \cup B) <= Cardinality(A) + Cardinality(B)
  <2>1. /\ IsFiniteSet(A \cup B)
        /\ Cardinality(A \cup B) = Cardinality(A) + Cardinality(B) - Cardinality(A \cap B)
    BY <1>2, <1>3, FS_Union
  <2>2. Cardinality(A \cap B) \in Nat /\ Cardinality(B) \in Nat
    BY <1>2, <1>3, FS_Intersection, FS_CardinalityType
  <2>3. QED
    BY <1>2, <2>1, <2>2
<1>5. Amount(S \cup {n}) <= Cardinality(A \cup B)
  BY <1>1, <1>4, FS_Subset DEF Amount
<1>6. Amount(S \cup {n}) \in Nat /\ Cardinality(A) = Amount(S) /\ Cardinality(A \cup B) \in Nat
  BY <1>4, AmountFinite, FS_CardinalityType DEF Amount, A
<1>7. QED
  BY <1>2, <1>3, <1>4, <1>5, <1>6, SizeType
-------------------------------------------------------------------------------
(* What a step does to one entry, when nobody renames: nothing, or its     *)
(* upload makes or commits it.                                             *)
LEMMA EntryStep ==
  ASSUME StoreInv, [Next]_vars, ~Renames, NEW n \in EntryNames, tree'[n] # None
  PROVE  \/ tree'[n] = tree[n]
         \/ \E g \in Handles, i \in Inodes : Creates(g, i) /\ n = Tmp(w[g].finalPath)
         \/ \E g \in Handles : CloseCommit(g) /\ n = Final(w[g].finalPath)
<1>0. tree \in [EntryNames -> Inodes \cup {None}]
  BY DEF StoreInv, TypeOK
<1>1. CASE UNCHANGED tree
  BY <1>1
<1>2. ASSUME NEW m, Unlink(m) PROVE tree'[n] = tree[n]
  BY <1>0, <1>2 DEF Unlink
<1>3. ASSUME NEW g \in Handles, OpenTemp(g)
      PROVE  \/ tree'[n] = tree[n]
             \/ \E i \in Inodes : Creates(g, i) /\ n = Tmp(w[g].finalPath)
  BY <1>0, <1>3, OpenCases DEF Creates
<1>4. ASSUME NEW g \in Handles, CloseCommit(g)
      PROVE  tree'[n] = tree[n] \/ n = Final(w[g].finalPath)
  BY <1>0, <1>4 DEF CloseCommit
<1>5. ASSUME NEW g \in Handles, ServerStep(g), ~OpenTemp(g), ~CloseCommit(g)
      PROVE  UNCHANGED tree \/ \E m : Unlink(m)
  BY <1>5 DEF ServerStep, WalkEntry, RefuseOpen, RemoveOldTemp, WriteStore, WriteCheck,
              WriteUnlink, WritePwrite, CloseExceeded, CloseRenameFails, CloseRemove
<1>6. ASSUME ClientStep PROVE UNCHANGED tree \/ \E m : Unlink(m)
  BY <1>6 DEF ClientStep, Renames, OpenWalk, WriteLoad, CmdRemove
<1>7. ASSUME Failure \/ UNCHANGED vars PROVE UNCHANGED tree
  BY <1>7 DEF Failure, Drop, Reconnect, Kill, vars
<1>8. QED
  BY <1>1, <1>2, <1>3, <1>4, <1>5, <1>6, <1>7 DEF Next

(* Uploads own their entries, and nobody else's.                           *)
LEMMA OwnNames ==
  ASSUME StoreInv, Disjoint, NEW h \in Handles, NEW g \in Handles, pc[g] # "idle"
  PROVE  LET p == w[g].finalPath IN
         /\ Tmp(p) \in Own(g) /\ Final(p) \in Own(g)
         /\ Tmp(p) \in Own(h) \/ Final(p) \in Own(h) => g = h
BY PathOf, Names DEF Own, Disjoint

LEMMA OwnedStep ==
  ASSUME StoreInv, Disjoint, [Next]_vars, ~Renames, Owned
  PROVE  Owned'
<1> SUFFICES ASSUME NEW n \in EntryNames, tree'[n] # None
             PROVE  \E h \in Handles : n \in Own(h)
  BY DEF Owned, Present, Own
<1>1. CASE tree'[n] = tree[n]
  BY <1>1 DEF Owned, Present
<1>2. ASSUME NEW g \in Handles, NEW i \in Inodes, Creates(g, i), n = Tmp(w[g].finalPath)
      PROVE  n \in Own(g)
  BY <1>2, OwnNames DEF Creates
<1>3. ASSUME NEW g \in Handles, CloseCommit(g), n = Final(w[g].finalPath)
      PROVE  n \in Own(g)
  BY <1>3, OwnNames DEF CloseCommit, BeginClose
<1>4. QED
  BY <1>1, <1>2, <1>3, EntryStep

(* The file at an entry that stays keeps its content or is truncated,      *)
(* unless it is its writer's temporary one.                                *)
LEMMA FileKept ==
  ASSUME StoreInv, [Next]_vars, NEW n \in EntryNames, tree[n] # None,
         tree[n] \in Referenced',
         \A g \in Handles, o \in Offsets :
           WritePwrite(g, o) /\ Writing(g) => n # Tmp(w[g].finalPath)
  PROVE  content'[tree[n]] = content[tree[n]] \/ content'[tree[n]] = Blank
<1> DEFINE i == tree[n]
<1>1. i \in Inodes /\ i \in Referenced
  BY DEF StoreInv, TypeOK, Referenced
<1>2. ASSUME NEW g \in Handles, NEW o \in Offsets, WritePwrite(g, o) PROVE w[g].f # i
  <2>1. CASE w[g].f = None
    BY <2>1
  <2>2. CASE w[g].f # None
    <3>1. Writing(g)
      BY <2>2 DEF StoreInv, WriterOf
    <3>2. n # Tmp(w[g].finalPath)
      BY <1>2, <3>1
    <3>3. QED
      BY <3>1, <3>2, OwnFile
  <2>3. QED
    BY <2>1, <2>2
<1>3. ASSUME NEW g \in Handles, OpenTemp(g), tree[Tmp(w[g].finalPath)] = i
      PROVE  content'[i] = content[i] \/ content'[i] = Blank
  <2>1. UNCHANGED content \/ \E j \in Inodes : Creates(g, j)
    BY <1>3, OpenCases
  <2>2. ASSUME NEW j \in Inodes, Creates(g, j)
        PROVE  content'[i] = Blank
    <3>1. j = i /\ content' = [content EXCEPT ![j] = Blank]
      BY <1>3, <2>2 DEF Creates
    <3>2. QED
      BY <1>1, <3>1 DEF StoreInv, TypeOK
  <2>3. QED
    BY <2>1, <2>2
<1>4. QED
  BY <1>1, <1>2, <1>3, ContentKept DEF StoreInv

LEMMA BlankIsEmpty == Extent(Blank) = {}
BY DEF Extent, Blank

(* What handle h takes up shrinks but by its own writes.                   *)
LEMMA OwnShrinks ==
  ASSUME StoreInv, Disjoint, [Next]_vars, ~Renames, NEW h \in Handles, ~CloseCommit(h),
         NEW S, S \subseteq Own(h),
         \A o \in Offsets : WritePwrite(h, o) /\ Writing(h) => Tmp(w[h].finalPath) \notin S
  PROVE  Filled(tree', content', S) \subseteq Filled(tree, content, S)
<1> SUFFICES ASSUME NEW n \in S, tree'[n] # None, NEW m \in Extent(content'[tree'[n]])
             PROVE  tree'[n] = tree[n] /\ m \in Extent(content[tree[n]])
  BY FilledIs
<1>0. n \in Own(h) /\ n \in EntryNames
  BY OwnEntries
<1>1. CASE tree'[n] = tree[n]
  <2>1. ASSUME NEW g \in Handles, NEW o \in Offsets, WritePwrite(g, o), Writing(g)
        PROVE  n # Tmp(w[g].finalPath)
    BY <1>0, <2>1, OwnNames DEF Writing
  <2>2. tree[n] \in Referenced'
    BY <1>0, <1>1 DEF Referenced
  <2>3. content'[tree[n]] = content[tree[n]] \/ content'[tree[n]] = Blank
    BY <1>0, <1>1, <2>1, <2>2, FileKept
  <2>4. QED
    BY <1>1, <2>3, BlankIsEmpty
<1>2. ASSUME NEW g \in Handles, NEW i \in Inodes, Creates(g, i), n = Tmp(w[g].finalPath)
      PROVE  FALSE
  <2>1. tree'[n] = i /\ content'[i] = Blank
    BY <1>0, <1>2 DEF Creates, StoreInv, TypeOK
  <2>2. QED
    BY <2>1, BlankIsEmpty
<1>3. ASSUME NEW g \in Handles, CloseCommit(g), n = Final(w[g].finalPath)
      PROVE  FALSE
  BY <1>0, <1>3, OwnNames DEF CloseCommit, BeginClose
<1>4. QED
  BY <1>0, <1>1, <1>2, <1>3, EntryStep

(* A commit only changes the name.                                         *)
LEMMA CommitShrinks ==
  ASSUME StoreInv, Disjoint, [Next]_vars, NEW h \in Handles, CloseCommit(h)
  PROVE  Filled(tree', content', Own(h)) \subseteq Filled(tree, content, Own(h))
<1> DEFINE t == Tmp(w[h].finalPath)
           f == Final(w[h].finalPath)
<1>1. /\ t \in Own(h) /\ f \in Own(h) /\ t \in EntryNames /\ f \in EntryNames /\ t # f
  BY OwnNames, OwnEntries, Names DEF CloseCommit, BeginClose
<1>2. /\ tree' = [tree EXCEPT ![f] = tree[t], ![t] = None]
      /\ content' = Reap(content) /\ tree \in [EntryNames -> Inodes \cup {None}]
  BY DEF CloseCommit, StoreInv, TypeOK
<1> SUFFICES ASSUME NEW n \in Own(h), tree'[n] # None, NEW m \in Extent(content'[tree'[n]])
             PROVE  \E k \in Own(h) : tree[k] = tree'[n] /\ m \in Extent(content[tree[k]])
  BY FilledIs
<1>3. n \in EntryNames
  BY OwnEntries
<1>4. PICK k \in Own(h) : tree[k] = tree'[n]
  BY <1>1, <1>2, <1>3
<1>5. tree'[n] \in Inodes
  BY <1>2, <1>4, OwnEntries
<1>6. content'[tree'[n]] \in {content[tree'[n]], Blank}
  BY <1>2, <1>5 DEF Reap
<1>7. QED
  BY <1>4, <1>6, BlankIsEmpty
-------------------------------------------------------------------------------
(* What files take up after a step.                                        *)
After(S) == Cardinality(Filled(tree', content', S))

LEMMA AfterLess ==
  ASSUME IsFiniteSet(Present), NEW S, S \subseteq EntryNames,
         Filled(tree', content', S) \subseteq Filled(tree, content, S)
  PROVE  After(S) <= Amount(S) /\ After(S) \in Nat /\ Amount(S) \in Nat
<1>1. IsFiniteSet(Filled(tree, content, S)) /\ Amount(S) \in Nat
  BY AmountFinite
<1>2. IsFiniteSet(Filled(tree', content', S)) /\ After(S) <= Amount(S)
  BY <1>1, FS_Subset DEF After, Amount
<1>3. QED
  BY <1>1, <1>2, FS_CardinalityType DEF After

(* A chunk in flight was let through with room for all up to its end.      *)
LEMMA WriteFits ==
  ASSUME BytesInv, Disjoint, [Next]_vars, ~Renames, QuotaBytes > 0,
         NEW h \in Handles, NEW o \in Offsets, WritePwrite(h, o), Writing(h)
  PROVE  After(Own(h)) <= QuotaBytes
<1> USE ConstantsAssumption
<1> DEFINE t == Tmp(w[h].finalPath)
           i == w[h].f
           Rest == Own(h) \ {t}
<1>0. /\ StoreInv /\ TypeOK /\ IsFiniteSet(Present) /\ Fits(h) /\ ChecksCover
      /\ Own(h) \subseteq EntryNames /\ pc[h] = "open"
  BY OwnEntries DEF BytesInv, StoreInv, Writing
<1>1. /\ i \in Inodes /\ t \in EntryNames /\ tree[t] = i /\ tree' = tree
      /\ content[i] \in [Offsets -> Cells]
      /\ \/ content'[i] = content[i]
         \/ \E cell : content'[i] = [content[i] EXCEPT ![o] = cell]
  BY <1>0, OwnFile DEF WritePwrite, StoreAt, TypeOK
<1>2. After(Rest) <= Amount(Rest) /\ After(Rest) \in Nat /\ Amount(Rest) \in Nat
  <2>1. ~CloseCommit(h)
    BY <1>0, ReleaseEffect DEF CloseCommit, WritePwrite
  <2>2. Rest \subseteq Own(h) /\ t \notin Rest /\ Rest \subseteq EntryNames
    BY <1>0
  <2> HIDE DEF Rest
  <2>3. Filled(tree', content', Rest) \subseteq Filled(tree, content, Rest)
    BY <1>0, <2>1, <2>2, OwnShrinks
  <2>4. QED
    BY <1>0, <2>2, <2>3, AfterLess
<1>3. IsFiniteSet(Filled(tree', content', Rest))
  <2>1. {n \in Rest : tree'[n] # None} \subseteq Present
    BY <1>0, <1>1 DEF Present
  <2>2. QED
    BY <1>0, <2>1, FS_Subset, FilledFinite
<1>4. CASE \E q \in Offsets : o <= q /\ content[i][q] # None
  <2>1. Extent(content'[i]) \subseteq Extent(content[i])
    <3>1. PICK q \in Offsets : o <= q /\ content[i][q] # None
      BY <1>4
    <3>2. ASSUME NEW m \in Extent(content'[i]) PROVE m \in Extent(content[i])
      <4>1. PICK k \in Offsets : m \in Offsets /\ m <= k /\ content'[i][k] # None
        BY <3>2 DEF Extent
      <4>2. k = o \/ content[i][k] # None
        BY <1>1, <4>1
      <4>3. m <= q \/ content[i][k] # None
        BY <3>1, <4>1, <4>2 DEF Offsets
      <4>4. QED
        BY <3>1, <4>1, <4>3 DEF Extent
    <3>3. QED
      BY <3>2
  <2>2. \A n \in Own(h) : tree[n] # None =>
          content'[tree[n]] = content[tree[n]] \/ tree[n] = i
    BY <1>0, <1>1 DEF WritePwrite, StoreAt, TypeOK
  <2>3. Filled(tree', content', Own(h)) \subseteq Filled(tree, content, Own(h))
    BY <1>1, <2>1, <2>2, FilledIs
  <2>4. QED
    BY <1>0, <2>3, AfterLess DEF Fits
<1>5. CASE \A q \in Offsets : o <= q => content[i][q] = None
  <2>1. Extent(content'[i]) \subseteq 0 .. o
    <3>1. ASSUME NEW m \in Extent(content'[i]) PROVE m \in 0 .. o
      <4>1. PICK k \in Offsets : m \in Offsets /\ m <= k /\ content'[i][k] # None
        BY <3>1 DEF Extent
      <4>2. k = o \/ ~(o <= k)
        BY <1>1, <1>5, <4>1
      <4>3. QED
        BY <4>1, <4>2 DEF Offsets
    <3>2. QED
      BY <3>1
  <2> DEFINE G == {i} \X (0 .. o)
  <2>2. IsFiniteSet(G) /\ Cardinality(G) = o + 1
    <3>1. IsFiniteSet(0 .. o) /\ Cardinality(0 .. o) = o + 1
      BY FS_Interval DEF Offsets
    <3>2. IsFiniteSet({i}) /\ Cardinality({i}) = 1
      BY FS_Singleton
    <3>3. Cardinality(G) = 1 * (o + 1) /\ IsFiniteSet(G)
      BY <3>1, <3>2, FS_Product
    <3>4. QED
      BY <3>3 DEF Offsets
  <2>3. Filled(tree', content', Own(h)) \subseteq Filled(tree', content', Rest) \cup G
    BY <1>1, <2>1, FilledIs
  <2> DEFINE C == Filled(tree', content', Rest)
  <2>4. /\ IsFiniteSet(C \cup G)
        /\ Cardinality(C \cup G) = Cardinality(C) + Cardinality(G) - Cardinality(C \cap G)
        /\ Cardinality(C \cap G) \in Nat
    BY <1>3, <2>2, FS_Union, FS_Intersection, FS_CardinalityType
  <2>5. After(Own(h)) <= Cardinality(C \cup G) /\ After(Own(h)) \in Nat /\ Cardinality(C) = After(Rest)
    BY <2>3, <2>4, FS_Subset, FS_CardinalityType DEF After
  <2>6. After(Own(h)) <= Amount(Rest) + o + 1
    <3> HIDE DEF C, G, Rest
    <3>1. o \in Nat
      BY DEF Offsets
    <3>2. QED
      BY <1>2, <2>2, <2>4, <2>5, <3>1
  <2>7. Amount(Rest) <= w[h].baseBytes
    BY <1>0 DEF Fits
  <2>8. w[h].baseBytes + o + 1 <= QuotaBytes /\ w[h].baseBytes \in Nat
    BY <1>0 DEF ChecksCover, WritePwrite, TypeOK, WriterType
  <2>9. QED
    <3> HIDE DEF Rest
    <3>1. o \in Nat
      BY DEF Offsets
    <3>2. QED
      BY <1>2, <2>5, <2>6, <2>7, <2>8, <3>1
<1>6. QED
  BY <1>4, <1>5
-------------------------------------------------------------------------------
(* A handle's files stay within the quota. *)
LEMMA OwnFits ==
  ASSUME BytesInv, Disjoint, [Next]_vars, ~Renames, QuotaBytes > 0, NEW h \in Handles
  PROVE  After(Own(h)) <= QuotaBytes
<1>0. /\ StoreInv /\ IsFiniteSet(Present) /\ Fits(h) /\ Own(h) \subseteq EntryNames
      /\ QuotaBytes \in Nat
  BY OwnEntries, ConstantsAssumption DEF BytesInv
<1>1. ASSUME Filled(tree', content', Own(h)) \subseteq Filled(tree, content, Own(h))
      PROVE  After(Own(h)) <= QuotaBytes
  BY <1>0, <1>1, AfterLess DEF Fits
<1>2. CASE CloseCommit(h)
  BY <1>0, <1>1, <1>2, CommitShrinks
<1>3. CASE \E o \in Offsets : WritePwrite(h, o) /\ Writing(h)
  BY <1>3, WriteFits
<1>4. QED
  BY <1>0, <1>1, <1>2, <1>3, OwnShrinks

(* A walk has counted what it has not still to count. *)
LEMMA WalkFits ==
  ASSUME BytesInv, Disjoint, [Next]_vars, ~Renames, NEW h \in Handles, pc'[h] = "walk"
  PROVE  After(Own(h) \ walk'[h].todo) <= walk'[h].bytes
<1>0. /\ StoreInv /\ TypeOK /\ IsFiniteSet(Present) /\ Fits(h) /\ Own(h) \subseteq EntryNames
      /\ walk[h] \in WalkType
  BY OwnEntries DEF BytesInv, StoreInv, TypeOK
<1>1. CASE Resting(h)
  <2>1. /\ pc[h] = "walk" /\ walk'[h] = walk[h]
        /\ ~CloseCommit(h) /\ \A o \in Offsets : ~(WritePwrite(h, o) /\ Writing(h))
    BY <1>1 DEF Resting, CloseCommit, BeginClose, Writing
  <2> DEFINE S == Own(h) \ walk[h].todo
  <2>2. S \subseteq Own(h) /\ S \subseteq EntryNames
    BY <1>0
  <2>3. Amount(S) <= walk[h].bytes /\ walk[h].bytes \in Nat
    BY <1>0, <2>1 DEF Fits, WalkType
  <2>4. After(Own(h) \ walk'[h].todo) = After(S)
    BY <2>1
  <2> HIDE DEF S
  <2>5. Filled(tree', content', S) \subseteq Filled(tree, content, S)
    BY <1>0, <2>1, <2>2, OwnShrinks
  <2>6. QED
    BY <1>0, <2>1, <2>2, <2>3, <2>4, <2>5, AfterLess
<1>2. ASSUME NEW p \in Targets[h], NEW len \in 1 .. MaxLen, OpenWalk(h, p, len)
      PROVE  After(Own(h) \ walk'[h].todo) <= walk'[h].bytes
  <2>1. walk'[h].todo = Present /\ walk'[h].bytes = walk[h].bytes /\ UNCHANGED <<tree, content>>
    BY <1>0, <1>2 DEF OpenWalk, TypeOK, WalkType
  <2>2. Filled(tree', content', Own(h) \ walk'[h].todo) = {}
    BY <1>0, <2>1, FilledIs DEF Present
  <2>3. After(Own(h) \ walk'[h].todo) = 0
    BY <2>2, FS_EmptySet DEF After
  <2>4. QED
    BY <1>0, <2>1, <2>3 DEF WalkType
<1>3. CASE Counted(h)
  <2>1. PICK n \in walk[h].todo :
          /\ tree[n] # None
          /\ walk'[h].todo = walk[h].todo \ {n}
          /\ walk'[h].bytes = walk[h].bytes + Size(content[tree[n]])
    BY <1>3 DEF Counted
  <2> DEFINE S == Own(h) \ walk[h].todo
  <2>2. n \in EntryNames /\ S \subseteq EntryNames /\ S \cup {n} \subseteq EntryNames
    BY <1>0, <2>1 DEF WalkType
  <2>3. Amount(S) <= walk[h].bytes /\ walk[h].bytes \in Nat
    BY <1>0, <1>3 DEF Fits, WalkType, Counted
  <2>4. Own(h) \ walk'[h].todo \subseteq S \cup {n}
    BY <2>1
  <2>5. After(Own(h) \ walk'[h].todo) = Amount(Own(h) \ walk'[h].todo)
    BY <1>3 DEF After, Amount, Counted
  <2> HIDE DEF S
  <2>6. Amount(Own(h) \ walk'[h].todo) <= Amount(S \cup {n})
    BY <1>0, <2>2, <2>4, AmountGrows
  <2>7. Amount(S \cup {n}) <= Amount(S) + Size(content[tree[n]])
    BY <1>0, <2>1, <2>2, AmountAdds
  <2>8. /\ Amount(Own(h) \ walk'[h].todo) \in Nat
        /\ Amount(S \cup {n}) \in Nat /\ Amount(S) \in Nat /\ Size(content[tree[n]]) \in Nat
    <3>1. Own(h) \ walk'[h].todo \subseteq EntryNames
      BY <1>0
    <3>2. QED
      BY <1>0, <2>2, <3>1, AmountFinite, SizeType
  <2>9. QED
    BY <2>1, <2>3, <2>5, <2>6, <2>7, <2>8
<1>4. Resting(h) \/ Steps(h)
  BY <1>0, AnyStep
<1>5. QED
  BY <1>1, <1>2, <1>3, <1>4 DEF Steps

(* The quota left was found by the walk, and stays as it is.               *)
LEMMA BaseKept ==
  ASSUME StoreInv, [Next]_vars, NEW h \in Handles, pc'[h] \in {"create", "open"}
  PROVE  \/ RemoveOldTemp(h)
         \/ /\ pc[h] \in {"create", "open"} /\ ~CloseCommit(h)
            /\ w'[h].baseBytes = w[h].baseBytes /\ w'[h].finalPath = w[h].finalPath
<1>0. /\ TypeOK /\ w[h] \in WriterType
      /\ InFlight(h) => pc[h] = "open"
  BY DEF StoreInv, TypeOK, Phases, PhasesOf
<1>1. ~CloseCommit(h)
  BY <1>0, ReleaseEffect DEF CloseCommit
<1>2. CASE Same(h)
  BY <1>1, <1>2 DEF Same
<1>3. CASE OpenTemp(h)
  <2>1. pc[h] = "create" /\ ~Release(h)
    BY <1>0, <1>3, ReleaseEffect DEF OpenTemp
  <2>2. PICK i \in Inodes : w' = [w EXCEPT ![h].f = i]
    BY <1>3, <2>1 DEF OpenTemp
  <2>3. QED
    BY <1>0, <1>1, <2>1, <2>2 DEF TypeOK, WriterType
<1>4. ASSUME NEW o \in Offsets,
             \/ WriteLoad(h, o) \/ WriteStore(h, o) \/ WriteCheck(h, o)
             \/ WriteUnlink(h, o) \/ WritePwrite(h, o)
      PROVE  /\ pc[h] = "open"
             /\ w'[h].baseBytes = w[h].baseBytes /\ w'[h].finalPath = w[h].finalPath
  <2>1. pc[h] = "open"
    BY <1>0, <1>4 DEF WriteLoad, WriteStore, WriteCheck, WriteUnlink, WritePwrite, InFlight, Busy
  <2>2. CASE UNCHANGED w
    BY <2>1, <2>2
  <2>3. CASE WriteStore(h, o)
    BY <1>0, <2>1, <2>3 DEF WriteStore, TypeOK, WriterType
  <2>4. ASSUME w' = [w EXCEPT ![h].exceeded = TRUE, ![h].f = None]
        PROVE  w'[h].baseBytes = w[h].baseBytes /\ w'[h].finalPath = w[h].finalPath
    BY <1>0, <2>4 DEF TypeOK, WriterType
  <2>5. QED
    BY <1>4, <2>1, <2>2, <2>3, <2>4 DEF WriteLoad, WriteCheck, WriteUnlink, WritePwrite
<1>5. ASSUME \/ \E p \in Targets[h], len \in 1 .. MaxLen : OpenWalk(h, p, len)
             \/ \E n \in EntryNames : WalkEntry(h, n)
             \/ CloseRenameFails(h) \/ Ends(h)
      PROVE  Same(h)
  <2>1. ASSUME NEW n \in EntryNames, WalkEntry(h, n) PROVE Same(h)
    BY <1>0, <2>1, ReleaseEffect DEF WalkEntry, Same
  <2>2. QED
    BY <1>0, <1>5, <2>1 DEF OpenWalk, CloseRenameFails, Ends, Reset, TypeOK
<1>6. QED
  BY <1>0, <1>1, <1>2, <1>3, <1>4, <1>5, StepOfHandle

(* Beside the temporary file no more is taken up than the walk has found.  *)
LEMMA BaseFits ==
  ASSUME BytesInv, Disjoint, [Next]_vars, ~Renames, NEW h \in Handles,
         pc'[h] \in {"create", "open"}
  PROVE  After(Own(h) \ {Tmp(w'[h].finalPath)}) <= w'[h].baseBytes
<1>0. /\ StoreInv /\ TypeOK /\ IsFiniteSet(Present) /\ Fits(h) /\ Own(h) \subseteq EntryNames
      /\ walk[h] \in WalkType /\ w[h] \in WriterType
  BY OwnEntries DEF BytesInv, StoreInv, TypeOK
<1> DEFINE S == Own(h) \ {Tmp(w[h].finalPath)}
<1>1. S \subseteq Own(h) /\ S \subseteq EntryNames /\ Tmp(w[h].finalPath) \notin S
  BY <1>0
<1>2. ASSUME ~CloseCommit(h)
      PROVE  After(S) <= Amount(S) /\ After(S) \in Nat /\ Amount(S) \in Nat
  <2> HIDE DEF S
  <2>1. Filled(tree', content', S) \subseteq Filled(tree, content, S)
    BY <1>0, <1>1, <1>2, OwnShrinks
  <2>2. QED
    BY <1>0, <1>1, <2>1, AfterLess
<1>3. CASE RemoveOldTemp(h)
  <2>1. /\ pc[h] = "walk" /\ walk[h].todo = {} /\ ~CloseCommit(h)
        /\ w'[h].finalPath = w[h].finalPath /\ w'[h].baseBytes = walk[h].bytes
    BY <1>0, <1>3 DEF RemoveOldTemp, CloseCommit, BeginClose, TypeOK, WriterType
  <2>2. Amount(S) <= Amount(Own(h)) /\ Amount(Own(h)) \in Nat
    <3> HIDE DEF S
    <3>1. QED
      BY <1>0, <1>1, AmountGrows, AmountFinite
  <2>3. Own(h) \ walk[h].todo = Own(h)
    BY <2>1
  <2>4. Amount(Own(h)) <= walk[h].bytes /\ walk[h].bytes \in Nat
    BY <1>0, <2>1, <2>3 DEF Fits, WalkType
  <2>5. QED
    BY <1>2, <2>1, <2>2, <2>4
<1>4. CASE /\ pc[h] \in {"create", "open"} /\ ~CloseCommit(h)
           /\ w'[h].baseBytes = w[h].baseBytes /\ w'[h].finalPath = w[h].finalPath
  <2>1. Amount(S) <= w[h].baseBytes /\ w[h].baseBytes \in Nat
    BY <1>0, <1>4 DEF Fits, WriterType
  <2>2. QED
    BY <1>2, <1>4, <2>1
<1>5. QED
  BY <1>0, <1>3, <1>4, BaseKept
-------------------------------------------------------------------------------
LEMMA BytesStep ==
  ASSUME ~Pipelined, Disjoint, ClientsUseFinals, QuotaBytes > 0,
         BytesInv, [Next]_vars, ~Renames
  PROVE  BytesInv'
<1>0. /\ StoreInv /\ TypeOK /\ Phases /\ ChecksCover /\ IsFiniteSet(Present) /\ Owned
  BY DEF BytesInv, StoreInv
<1>1. StoreInv' /\ ChecksCover'
  BY <1>0, StoreStep, CoverStep
<1>2. IsFiniteSet(Present')
  BY <1>0, EntriesStep
<1>3. Owned'
  BY <1>0, OwnedStep
<1>4. ASSUME NEW h \in Handles PROVE Fits(h)'
  <2>1. \A S : Amount(S)' = After(S)
    BY DEF Amount, After
  <2>2. Own(h)' = Own(h)
    BY DEF Own
  <2>3. After(Own(h)) <= QuotaBytes
    BY OwnFits
  <2>4. pc'[h] = "walk" => After(Own(h) \ walk'[h].todo) <= walk'[h].bytes
    BY WalkFits
  <2>5. pc'[h] \in {"create", "open"} =>
          After(Own(h) \ {Tmp(w'[h].finalPath)}) <= w'[h].baseBytes
    BY BaseFits
  <2>6. QED
    BY <2>3, <2>4, <2>5 DEF Fits, Amount, After
<1>5. QED
  BY <1>1, <1>2, <1>3, <1>4 DEF BytesInv

LEMMA BytesInit == Init /\ StoreInv /\ ChecksCover => BytesInv
<1> SUFFICES ASSUME Init, StoreInv, ChecksCover PROVE BytesInv
  OBVIOUS
<1>1. Present = {} /\ IsFiniteSet(Present)
  BY FS_EmptySet DEF Init, Present
<1>2. ASSUME NEW S, S \subseteq EntryNames PROVE Amount(S) = 0
  <2>1. Filled(tree, content, S) = {}
    BY <1>2, FilledIs DEF Init
  <2>2. QED
    BY <2>1, FS_EmptySet DEF Amount
<1>3. ASSUME NEW h \in Handles PROVE Fits(h)
  <2>1. Amount(Own(h)) = 0 /\ pc[h] = "idle"
    BY <1>2, OwnEntries DEF Init
  <2>2. QED
    BY <2>1, ConstantsAssumption DEF Fits
<1>4. QED
  BY <1>1, <1>3 DEF BytesInv, Owned

(* The handles' shares add up: each cell of the directory is numbered      *)
(* among those of the handle that owns its entry.                          *)
LEMMA Numbering ==
  ASSUME NEW C, IsFiniteSet(C), NEW q \in Nat, Cardinality(C) <= q
  PROVE  \E f \in [C -> 1 .. q] : \A x, y \in C : f[x] = f[y] => x = y
<1> DEFINE k == Cardinality(C)
<1>1. k \in Nat /\ ExistsBijection(C, 1 .. k)
  <2>1. k \in Nat
    BY FS_CardinalityType
  <2>2. IsFiniteSet(1 .. k) /\ Cardinality(1 .. k) = k
    BY <2>1, FS_Interval
  <2>3. QED
    BY <2>1, <2>2, FS_SameCardinalityBij
<1>2. PICK f \in Bijection(C, 1 .. k) : TRUE
  BY <1>1 DEF ExistsBijection
<1> HIDE DEF k
<1>3. 1 .. k \subseteq 1 .. q
  BY <1>1 DEF k
<1>4. f \in [C -> 1 .. q] /\ \A x, y \in C : f[x] = f[y] => x = y
  BY <1>2, <1>3 DEF Bijection, Injection, IsInjective
<1>5. QED
  BY <1>4

LEMMA UsageFits ==
  ASSUME BytesInv, QuotaBytes > 0, IsFiniteSet(Handles)
  PROVE  Usage <= QuotaBytes * Cardinality(Handles)
<1> USE ConstantsAssumption
<1>0. StoreInv /\ IsFiniteSet(Present) /\ Owned /\ OneLink /\ \A h \in Handles : Fits(h)
  BY DEF BytesInv, StoreInv
<1> DEFINE Share(h) == Filled(tree, content, Own(h))
           All == UNION {{n} \X Extent(content[tree[n]]) : n \in Present}
           Numbers(h) == {f \in [Share(h) -> 1 .. QuotaBytes] :
                            \A x, y \in Share(h) : f[x] = f[y] => x = y}
           num == [h \in Handles |-> CHOOSE f : f \in Numbers(h)]
           own == [n \in Present |-> CHOOSE h \in Handles : n \in Own(h)]
           F == [c \in All |-> <<own[c[1]], num[own[c[1]]][<<tree[c[1]], c[2]>>]>>]
           T == Handles \X (1 .. QuotaBytes)
<1>1. ASSUME NEW h \in Handles PROVE num[h] \in Numbers(h)
  <2>1. IsFiniteSet(Share(h)) /\ Cardinality(Share(h)) <= QuotaBytes
    BY <1>0, OwnEntries, AmountFinite DEF Fits, Amount
  <2>2. \E f : f \in Numbers(h)
    <3> HIDE DEF Part
    <3>1. QED
      BY <2>1, Numbering
  <2>3. QED
    BY <2>2
<1>2. ASSUME NEW n \in Present PROVE own[n] \in Handles /\ n \in Own(own[n])
  BY <1>0 DEF Owned
<1>3. ASSUME NEW c \in All
      PROVE  /\ c[1] \in Present /\ c = <<c[1], c[2]>>
             /\ <<tree[c[1]], c[2]>> \in Share(own[c[1]])
  <2>1. PICK n \in Present : \E m \in Extent(content[tree[n]]) : c = <<n, m>>
    OBVIOUS
  <2>2. PICK m \in Extent(content[tree[n]]) : c = <<n, m>>
    BY <2>1
  <2>3. tree[n] # None /\ n \in Own(own[n])
    BY <1>2 DEF Present
  <2> HIDE DEF own
  <2>4. <<tree[n], m>> \in Share(own[n])
    BY <2>3, FilledIs
  <2>5. QED
    BY <2>2, <2>4
<1> HIDE DEF num, own, Part
<1>4. ASSUME NEW c \in All PROVE F[c] \in T
  BY <1>1, <1>2, <1>3
<1>5. ASSUME NEW c \in All, NEW d \in All, F[c] = F[d] PROVE c = d
  <2> DEFINE h == own[c[1]]
             x == <<tree[c[1]], c[2]>>
             y == <<tree[d[1]], d[2]>>
  <2>1. own[d[1]] = h /\ num[h][x] = num[h][y]
    BY <1>5
  <2>2. h \in Handles /\ x \in Share(h) /\ y \in Share(h)
    BY <1>2, <1>3, <2>1
  <2>3. x = y
    BY <1>1, <2>1, <2>2
  <2>4. tree[c[1]] = tree[d[1]] /\ c[2] = d[2]
    BY <2>3
  <2>5. c[1] = d[1]
    BY <1>0, <1>3, <2>4 DEF OneLink, Present
  <2>6. QED
    BY <1>3, <2>4, <2>5
<1>6. F \in Injection(All, T)
  <2>1. F \in [All -> T]
    BY <1>4
  <2> HIDE DEF F, All, T
  <2>2. QED
    BY <1>5, <2>1 DEF Injection, IsInjective
<1>7. IsFiniteSet(T) /\ Cardinality(T) = Cardinality(Handles) * QuotaBytes
  <2>1. IsFiniteSet(1 .. QuotaBytes) /\ Cardinality(1 .. QuotaBytes) = QuotaBytes
    BY FS_Interval
  <2>2. QED
    BY <2>1, FS_Product
<1>8. Cardinality(All) <= Cardinality(T)
  <2> HIDE DEF F, All, T
  <2>1. QED
    BY <1>6, <1>7, FS_Injection
<1>9. Usage = Cardinality(All)
  BY DEF Usage
<1>10. Cardinality(Handles) \in Nat
  BY FS_CardinalityType
<1> HIDE DEF All, T
<1>11. QED
  BY <1>7, <1>8, <1>9, <1>10

(* However stale their counts, uploads of different paths together never   *)
(* take up more than a quota each, whatever disk faults, lost connections  *)
(* and kills there are and whatever clients remove, if they wait for each  *)
(* answer and do not rename (fs.go:88, 121; quota.go:63).                  *)
THEOREM UsageIsBounded ==
  ASSUME ~Pipelined, Disjoint, ClientsUseFinals, IsFiniteSet(Handles)
  PROVE  Spec /\ [][~Renames]_vars => []UsageBound
<1>1. CASE ~(QuotaBytes > 0)
  <2>1. UsageBound
    BY <1>1 DEF UsageBound
  <2>2. QED
    BY <2>1, PTL
<1>2. CASE QuotaBytes > 0
  <2>1. Init /\ StoreInv /\ ChecksCover => BytesInv
    BY BytesInit
  <2>2. BytesInv /\ [Next]_vars /\ [~Renames]_vars => BytesInv'
    <3>1. StoreInv /\ UNCHANGED vars => ~Renames
      <4>1. ASSUME NEW s \in Sessions, NEW n \in CmdNames, NEW m \in CmdNames \ {n},
                   CmdRename(s, n, m), StoreInv
            PROVE  tree' # tree
        BY <4>1, ConstantsAssumption DEF CmdRename, StoreInv, TypeOK
      <4>2. QED
        BY <4>1 DEF Renames, vars
    <3>2. QED
      BY <1>2, <3>1, BytesStep DEF BytesInv
  <2>3. BytesInv => UsageBound
    BY <1>2, UsageFits DEF UsageBound
  <2>4. QED
    BY <2>1, <2>2, <2>3, StoreHolds, ChecksAreExact, PTL DEF Spec
<1>3. QED
  BY <1>1, <1>2
===============================================================================
