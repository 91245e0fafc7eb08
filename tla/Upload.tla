-------------------------------- MODULE Upload --------------------------------
(***************************************************************************)
(* Uploads into one user's root directory: jailedFS.Filewrite and Filecmd  *)
(* (fs.go), dirUsage and atomicQuotaWriterAt (quota.go), driven by the     *)
(* request server of github.com/pkg/sftp that serveSFTP starts.            *)
(*                                                                         *)
(* A session has one goroutine that opens, closes and runs commands one    *)
(* after the other, and a pool that runs the WriteAt calls of all its      *)
(* handles at once; a close waits for the calls in flight.  Several        *)
(* sessions, in one replica or in two, share the directory.  Every action  *)
(* is at most one system call on the shared directory or one access to     *)
(* the unsynchronised fields of the writer.                                *)
(***************************************************************************)
EXTENDS Naturals, FiniteSets

CONSTANTS
  Sessions,    \* SFTP sessions of this user
  Handles,     \* upload handles; a closed handle is used again
  SessionOf,   \* Handles -> Sessions
  Paths,       \* names a client uploads to
  Targets,     \* Handles -> SUBSET Paths: what a handle may be opened for
  CmdNames,    \* directory entries a client removes or renames
  Inodes,      \* files the file system can hold at once
  MaxLen,      \* bound: chunks in a file
  QuotaBytes,  \* jailedFS.quotaBytes in chunks, 0 for no quota
  QuotaFiles,  \* jailedFS.quotaFiles, 0 for no quota
  Pipelined,   \* clients send a chunk before the last one is answered
  DiskFaults,  \* system calls on the data volume may fail
  CanDie,      \* sessions whose server process may be killed
  None         \* no inode, no path, no data

Offsets == 0 .. MaxLen - 1
EntryNames == {"final", "uploading"} \X Paths
Final(p) == <<"final", p>>

Tmp_InPlace(p) == <<"final", p>>        \* mutant: no temporary file
Tmp(p) == <<"uploading", p>>            \* abs + ".uploading"

(* What a file holds at an offset: the chunk a handle wrote, what a failed *)
(* write of it left there, or nothing.                                     *)
Part(h) == <<"part of", h>>
Data == Handles \cup {Part(h) : h \in Handles}
Cells == Data \cup {None}

ASSUME ConstantsAssumption ==
  /\ SessionOf \in [Handles -> Sessions]
  /\ Targets \in [Handles -> SUBSET Paths]
  /\ CmdNames \subseteq EntryNames
  /\ MaxLen \in Nat /\ QuotaBytes \in Nat /\ QuotaFiles \in Nat
  /\ Pipelined \in BOOLEAN /\ DiskFaults \in BOOLEAN
  /\ CanDie \subseteq Sessions
  /\ None \notin Inodes \cup Paths \cup Data

VARIABLES
  tree,     \* directory: entry name -> inode
  content,  \* inode -> what the file holds at an offset
  up,       \* session -> its connection is alive
  pc,       \* handle -> where its Filewrite or Close stands
  walk,     \* handle -> the dirUsage walk of its Filewrite
  w,        \* handle -> its atomicQuotaWriterAt
  writes    \* handle -> the state of each chunk the client uploads

vars == <<tree, content, up, pc, walk, w, writes>>

Blank == [o \in Offsets |-> None]
NoWalk == [todo |-> {}, bytes |-> 0, files |-> 0]
NoWriter == [finalPath |-> None, f |-> None, baseBytes |-> 0,
             maxEnd |-> 0, exceeded |-> FALSE]
NoChunks == [o \in Offsets |-> "absent"]

Init ==
  /\ tree = [n \in EntryNames |-> None]
  /\ content = [i \in Inodes |-> Blank]
  /\ up = [s \in Sessions |-> TRUE]
  /\ pc = [h \in Handles |-> "idle"]
  /\ walk = [h \in Handles |-> NoWalk]
  /\ w = [h \in Handles |-> NoWriter]
  /\ writes = [h \in Handles |-> NoChunks]
-------------------------------------------------------------------------------
(* The file system. *)

(* A write past the end extends the file over the gap before it; a part of *)
(* a chunk is counted as a chunk.                                          *)
Extent(c) == {m \in Offsets : \E o \in Offsets : m <= o /\ c[o] # None}
Size(c) == Cardinality(Extent(c))

Present == {n \in EntryNames : tree[n] # None}

Referenced == {tree[n] : n \in EntryNames} \cup {w[h].f : h \in Handles}

(* The kernel frees a file with its last entry and its last descriptor. *)
Reap(c) == [i \in Inodes |-> IF i \in Referenced' THEN c[i] ELSE Blank]

Unlink(n) == tree' = [tree EXCEPT ![n] = None]
-------------------------------------------------------------------------------
(* The request server. *)

Busy == {"store", "check", "unlink", "pwrite"}
InFlight(h) == \E o \in Offsets : writes[h][o] \in Busy

(* The single goroutine for everything but reads and writes is free. *)
CommandIdle(s) ==
  \A h \in Handles : SessionOf[h] = s => pc[h] \notin {"walk", "create", "abandon"}

Quiescent(s) ==
  /\ CommandIdle(s)
  /\ \A h \in Handles : SessionOf[h] = s => ~InFlight(h)

(* Writes answered with an error, without or after storing a part.         *)
Errors == {"failed", "torn"}

(* A client closes when all is written or a write was refused. *)
ClientDone(h) ==
  \/ \A o \in Offsets : writes[h][o] # "unsent"
  \/ \E o \in Offsets : writes[h][o] \in Errors

(* Serve, on its way out, closes the handles a client left open. *)
MayClose_IfAsked(h) == ClientDone(h)      \* mutant: no clean-up at disconnect
MayClose(h) == ClientDone(h) \/ ~up[SessionOf[h]]

(* The handle is gone; a failed Filewrite never hands one out. *)
Release(h) ==
  /\ pc' = [pc EXCEPT ![h] = "idle"]
  /\ walk' = [walk EXCEPT ![h] = NoWalk]
  /\ w' = [w EXCEPT ![h] = NoWriter]
  /\ writes' = [writes EXCEPT ![h] = NoChunks]
-------------------------------------------------------------------------------
(* jailedFS.Filewrite: WalkDir reads the entries of the root, then asks    *)
(* for each file's size; the client means to send len chunks.              *)
OpenWalk(h, p, len) ==
  LET s == SessionOf[h] IN
  /\ pc[h] = "idle" /\ up[s] /\ CommandIdle(s)
  /\ pc' = [pc EXCEPT ![h] = "walk"]
  /\ walk' = [walk EXCEPT ![h].todo = Present]
  /\ w' = [w EXCEPT ![h].finalPath = p]
  /\ writes' = [writes EXCEPT ![h] =
                  [o \in Offsets |-> IF o < len THEN "unsent" ELSE "absent"]]
  /\ UNCHANGED <<tree, content, up>>

(* A file that has gone since the listing fails the walk and the upload. *)
WalkEntry(h, n) ==
  /\ pc[h] = "walk" /\ n \in walk[h].todo
  /\ \/ /\ tree[n] = None
        /\ Release(h)
     \/ /\ tree[n] # None
        /\ walk' = [walk EXCEPT ![h] = [todo  |-> @.todo \ {n},
                                        bytes |-> @.bytes + Size(content[tree[n]]),
                                        files |-> @.files + 1]]
        /\ UNCHANGED <<pc, w, writes>>
  /\ UNCHANGED <<tree, content, up>>

FilesExhausted_Late(h) == QuotaFiles > 0 /\ walk[h].files > QuotaFiles   \* mutant
FilesExhausted(h) == QuotaFiles > 0 /\ walk[h].files >= QuotaFiles

RefuseOpen(h) ==
  /\ pc[h] = "walk" /\ walk[h].todo = {} /\ FilesExhausted(h)
  /\ Release(h)
  /\ UNCHANGED <<tree, content, up>>

RemoveOldTemp(h) ==
  /\ pc[h] = "walk" /\ walk[h].todo = {} /\ ~FilesExhausted(h)
  /\ Unlink(Tmp(w[h].finalPath))
  /\ pc' = [pc EXCEPT ![h] = "create"]
  /\ w' = [w EXCEPT ![h].baseBytes = walk[h].bytes]
  /\ walk' = [walk EXCEPT ![h] = NoWalk]
  /\ content' = Reap(content)
  /\ UNCHANGED <<up, writes>>

(* O_CREATE|O_TRUNC without O_EXCL: an entry another upload of the same    *)
(* path has just made is opened and truncated, not replaced.               *)
OpenTemp(h) ==
  LET t == Tmp(w[h].finalPath) IN
  /\ pc[h] = "create"
  /\ \/ /\ \E i \in Inodes :
             /\ IF tree[t] = None THEN i \notin Referenced ELSE i = tree[t]
             /\ tree' = [tree EXCEPT ![t] = i]
             /\ w' = [w EXCEPT ![h].f = i]
             /\ content' = [content EXCEPT ![i] = Blank]
        /\ pc' = [pc EXCEPT ![h] = "open"]
        /\ UNCHANGED <<walk, writes>>
     \/ /\ DiskFaults
        /\ Release(h)
        /\ UNCHANGED <<tree, content>>
  /\ UNCHANGED up
-------------------------------------------------------------------------------
(* atomicQuotaWriterAt.WriteAt, run by a pool of goroutines that share the *)
(* writer without a lock.                                                  *)
End_OffByOne(o) == o + 2                  \* mutant
End(o) == o + 1                           \* off + len(p)

OverQuota_ThisFileOnly(h) == QuotaBytes > 0 /\ w[h].maxEnd > QuotaBytes   \* mutant
OverQuota(h) == QuotaBytes > 0 /\ w[h].baseBytes + w[h].maxEnd > QuotaBytes

SetChunk(h, o, st) == writes' = [writes EXCEPT ![h][o] = st]

(* A goroutine takes the packet up and reads exceeded and maxEnd. *)
WriteLoad(h, o) ==
  /\ pc[h] = "open" /\ up[SessionOf[h]] /\ writes[h][o] = "unsent"
  /\ Pipelined \/ ~InFlight(h)
  /\ SetChunk(h, o, IF w[h].exceeded THEN "failed"
                    ELSE IF End(o) > w[h].maxEnd THEN "store" ELSE "check")
  /\ UNCHANGED <<tree, content, up, pc, walk, w>>

WriteStore_Offset(h, o) ==                \* mutant: off without len(p)
  /\ writes[h][o] = "store"
  /\ w' = [w EXCEPT ![h].maxEnd = o]
  /\ SetChunk(h, o, "check")
  /\ UNCHANGED <<tree, content, up, pc, walk>>

WriteStore(h, o) ==
  /\ writes[h][o] = "store"
  /\ w' = [w EXCEPT ![h].maxEnd = End(o)]
  /\ SetChunk(h, o, "check")
  /\ UNCHANGED <<tree, content, up, pc, walk>>

(* maxEnd is read again; over quota, exceeded is set and the file closed. *)
WriteCheck(h, o) ==
  /\ writes[h][o] = "check"
  /\ \/ /\ OverQuota(h)
        /\ w' = [w EXCEPT ![h].exceeded = TRUE, ![h].f = None]
        /\ SetChunk(h, o, "unlink")
     \/ /\ ~OverQuota(h)
        /\ SetChunk(h, o, "pwrite")
        /\ UNCHANGED w
  /\ UNCHANGED <<tree, up, pc, walk>>
  /\ content' = Reap(content)

WriteUnlink_Forgotten(h, o) ==            \* mutant: the temp file stays
  /\ writes[h][o] = "unlink"
  /\ SetChunk(h, o, "failed")
  /\ UNCHANGED <<tree, content, up, pc, walk, w>>

WriteUnlink(h, o) ==
  /\ writes[h][o] = "unlink"
  /\ Unlink(Tmp(w[h].finalPath))
  /\ SetChunk(h, o, "failed")
  /\ UNCHANGED w
  /\ content' = Reap(content)
  /\ UNCHANGED <<up, pc, walk>>

StoreAt(h, o, cell) ==
  w[h].f # None /\ content' = [content EXCEPT ![w[h].f][o] = cell]

WritePwrite_InSequence(h, o) ==           \* mutant: f.Write for f.WriteAt
  /\ writes[h][o] = "pwrite"
  /\ \/ /\ w[h].f # None
        /\ StoreAt(h, Size(content[w[h].f]), h) /\ SetChunk(h, o, "done")
     \/ (w[h].f = None \/ DiskFaults) /\ SetChunk(h, o, "failed") /\ UNCHANGED content
  /\ UNCHANGED <<tree, up, pc, walk, w>>

WritePwrite_ErrorLost(h, o) ==            \* mutant: a failed write is answered OK
  /\ writes[h][o] = "pwrite"
  /\ \/ StoreAt(h, o, h)
     \/ DiskFaults /\ StoreAt(h, o, Part(h))
     \/ (w[h].f = None \/ DiskFaults) /\ UNCHANGED content
  /\ SetChunk(h, o, "done")
  /\ UNCHANGED <<tree, up, pc, walk, w>>

(* The write itself.  It fails with nothing stored, also because another   *)
(* goroutine has closed the file, or with a part of the chunk.             *)
WritePwrite(h, o) ==
  /\ writes[h][o] = "pwrite"
  /\ \/ StoreAt(h, o, h) /\ SetChunk(h, o, "done")
     \/ DiskFaults /\ StoreAt(h, o, Part(h)) /\ SetChunk(h, o, "torn")
     \/ (w[h].f = None \/ DiskFaults) /\ SetChunk(h, o, "failed") /\ UNCHANGED content
  /\ UNCHANGED <<tree, up, pc, walk, w>>
-------------------------------------------------------------------------------
(* atomicQuotaWriterAt.Close. *)
BeginClose(h) == pc[h] = "open" /\ Quiescent(SessionOf[h]) /\ MayClose(h)

CloseExceeded(h) ==
  /\ BeginClose(h) /\ w[h].exceeded
  /\ Release(h)
  /\ UNCHANGED <<tree, up>>
  /\ content' = Reap(content)

CloseCommit(h) ==
  LET p == w[h].finalPath IN
  /\ BeginClose(h) /\ ~w[h].exceeded /\ tree[Tmp(p)] # None
  /\ tree' = [tree EXCEPT ![Final(p)] = tree[Tmp(p)], ![Tmp(p)] = None]
  /\ Release(h)
  /\ content' = Reap(content)
  /\ UNCHANGED up

CloseRenameFails(h) ==
  /\ BeginClose(h) /\ ~w[h].exceeded
  /\ tree[Tmp(w[h].finalPath)] = None \/ DiskFaults
  /\ pc' = [pc EXCEPT ![h] = "abandon"]
  /\ w' = [w EXCEPT ![h].f = None]
  /\ UNCHANGED <<tree, up, walk, writes>>
  /\ content' = Reap(content)

CloseRemove(h) ==
  /\ pc[h] = "abandon"
  /\ Unlink(Tmp(w[h].finalPath))
  /\ Release(h)
  /\ content' = Reap(content)
  /\ UNCHANGED up
-------------------------------------------------------------------------------
(* jailedFS.Filecmd, for files. *)
CmdRemove(s, n) ==
  /\ up[s] /\ CommandIdle(s) /\ tree[n] # None
  /\ Unlink(n)
  /\ UNCHANGED <<up, pc, walk, w, writes>>
  /\ content' = Reap(content)

CmdRename(s, n, m) ==
  /\ up[s] /\ CommandIdle(s) /\ tree[n] # None
  /\ tree' = [tree EXCEPT ![m] = tree[n], ![n] = None]
  /\ UNCHANGED <<up, pc, walk, w, writes>>
  /\ content' = Reap(content)
-------------------------------------------------------------------------------
(* The connection goes away; the client comes back when Serve is through. *)
Drop(s) ==
  /\ up[s]
  /\ up' = [up EXCEPT ![s] = FALSE]
  /\ UNCHANGED <<tree, content, pc, walk, w, writes>>

Reconnect(s) ==
  /\ ~up[s] /\ \A h \in Handles : SessionOf[h] = s => pc[h] = "idle"
  /\ up' = [up EXCEPT ![s] = TRUE]
  /\ UNCHANGED <<tree, content, pc, walk, w, writes>>

(* The process ends, killed or returning from main, which waits for no     *)
(* session: descriptors go, directory entries stay.                        *)
Kill(s) ==
  LET gone == {h \in Handles : SessionOf[h] = s} IN
  /\ up' = [up EXCEPT ![s] = FALSE]
  /\ pc' = [h \in Handles |-> IF h \in gone THEN "idle" ELSE pc[h]]
  /\ walk' = [h \in Handles |-> IF h \in gone THEN NoWalk ELSE walk[h]]
  /\ w' = [h \in Handles |-> IF h \in gone THEN NoWriter ELSE w[h]]
  /\ writes' = [h \in Handles |-> IF h \in gone THEN NoChunks ELSE writes[h]]
  /\ UNCHANGED tree
  /\ content' = Reap(content)
-------------------------------------------------------------------------------
(* What a handle's goroutines do without further input from the client. *)
ServerStep(h) ==
  \/ \E n \in EntryNames : WalkEntry(h, n)
  \/ RefuseOpen(h)
  \/ RemoveOldTemp(h)
  \/ OpenTemp(h)
  \/ \E o \in Offsets : \/ WriteStore(h, o)
                        \/ WriteCheck(h, o)
                        \/ WriteUnlink(h, o)
                        \/ WritePwrite(h, o)
  \/ CloseExceeded(h)
  \/ CloseCommit(h)
  \/ CloseRenameFails(h)
  \/ CloseRemove(h)

ClientStep ==
  \/ \E h \in Handles : \/ \E p \in Targets[h], len \in 1 .. MaxLen : OpenWalk(h, p, len)
                        \/ \E o \in Offsets : WriteLoad(h, o)
  \/ \E s \in Sessions, n \in CmdNames :
       \/ CmdRemove(s, n)
       \/ \E m \in CmdNames \ {n} : CmdRename(s, n, m)

Failure == \/ \E s \in Sessions : Drop(s) \/ Reconnect(s)
           \/ \E s \in CanDie : Kill(s)

Next == ClientStep \/ Failure \/ \E h \in Handles : ServerStep(h)

Spec == Init /\ [][Next]_vars

(* Goroutines and system calls make progress; clients and faults need not. *)
FairSpec == Spec /\ \A h \in Handles : WF_vars(ServerStep(h))
-------------------------------------------------------------------------------
(* Properties. *)

(* Every variable has its type: an entry names a file, a finished or idle  *)
(* handle holds nothing, and maxEnd never passes the longest file a client *)
(* sends (quota.go:58-61).                                                 *)
States == {"idle", "walk", "create", "open", "abandon"}
ChunkStates == {"absent", "unsent", "store", "check", "unlink", "pwrite",
                "done"} \cup Errors
WalkType == [todo : SUBSET EntryNames, bytes : Nat, files : Nat]
WriterType == [finalPath : Paths \cup {None}, f : Inodes \cup {None},
               baseBytes : Nat, maxEnd : 0 .. MaxLen, exceeded : BOOLEAN]

TypeOK ==
  /\ tree \in [EntryNames -> Inodes \cup {None}]
  /\ content \in [Inodes -> [Offsets -> Cells]]
  /\ up \in [Sessions -> BOOLEAN]
  /\ pc \in [Handles -> States]
  /\ walk \in [Handles -> WalkType]
  /\ w \in [Handles -> WriterType]
  /\ writes \in [Handles -> [Offsets -> ChunkStates]]

(* While no server is killed, a temporary file is always some upload's to  *)
(* commit or to remove: no close, refusal, failed rename or lost           *)
(* connection leaves one behind, where it would count against the quota    *)
(* for ever (fs.go:101-106, quota.go:63-67, 80-88).                        *)
Owns(h, p) ==
  /\ w[h].finalPath = p
  /\ \/ pc[h] = "abandon"
     \/ /\ pc[h] = "open"
        /\ ~w[h].exceeded \/ \E o \in Offsets : writes[h][o] = "unlink"

TempHasOwner == \A p \in Paths : tree[Tmp(p)] # None => \E h \in Handles : Owns(h, p)

(* A chunk the server has acknowledged was within the quota as Filewrite   *)
(* found it: what was there at the open, and the file up to the end of     *)
(* that chunk (quota.go:63, "If quota is exceeded at any point, it deletes *)
(* the temp file").                                                        *)
UploadWithinQuota ==
  \A h \in Handles, o \in Offsets :
    QuotaBytes > 0 /\ writes[h][o] = "done" => w[h].baseBytes + o + 1 <= QuotaBytes

(* Why, when a client waits for each answer: one chunk is in flight, so    *)
(* what the check reads in maxEnd covers the chunk it lets through         *)
(* (quota.go:58-63).                                                       *)
ChecksCover ==
  \A h \in Handles, o \in Offsets :
    /\ writes[h][o] \in Busy => \A q \in Offsets \ {o} : writes[h][q] \notin Busy
    /\ writes[h][o] = "check" => o + 1 <= w[h].maxEnd
    /\ QuotaBytes > 0 /\ writes[h][o] \in {"pwrite", "done"} =>
         w[h].baseBytes + o + 1 <= QuotaBytes

(* Uploads that count the files at once all pass, and still the directory  *)
(* never holds more than the file quota and one file for each further      *)
(* session: a session has one Filewrite under way, and nothing but a       *)
(* Filewrite that has counted too few adds a file (fs.go:88-106).          *)
FileQuotaBound ==
  QuotaFiles > 0 => Cardinality(Present) <= QuotaFiles + Cardinality(Sessions) - 1

(* "only renames to final on Close if within quota" (quota.go:35) is not   *)
(* true of concurrent uploads, whose counts are stale.  But the directory  *)
(* never holds more than a quota for each upload open at once; with one,   *)
(* the quota is exact (fs.go:88, 121; quota.go:63).  Usage is what dirUsage would find in one *)
(* step.                                                                   *)
Usage == Cardinality(UNION {{n} \X Extent(content[tree[n]]) : n \in Present})

UsageBound == QuotaBytes > 0 => Usage <= QuotaBytes * Cardinality(Handles)

(* A commit publishes everything the client meant to send: no chunk is     *)
(* still to come, and none was answered with an error, when the temporary  *)
(* file takes the final name (fs.go:100, "Write to temp file in the same   *)
(* directory for atomic rename"; quota.go:91, "Final outcome: success").   *)
CommitWhole ==
  [][\A h \in Handles :
       CloseCommit(h) => \A o \in Offsets : writes[h][o] \notin {"unsent"} \cup Errors]_vars

(* What a reader of a final name has open never changes under it: a file   *)
(* is replaced by rename and never written in place (fs.go:100,            *)
(* quota.go:84-85).                                                        *)
FinalImmutable ==
  [][\A p \in Paths :
       LET i == tree[Final(p)] IN
       i # None /\ tree'[Final(p)] = i => content'[i] = content[i]]_vars

(* When the connection goes away Serve ends with every handle closed and   *)
(* every pending upload committed or removed (sftp-serve.go:21-24).        *)
DropReleases ==
  \A s \in Sessions :
    ~up[s] ~> (\A h \in Handles : SessionOf[h] = s => pc[h] = "idle")

(* Uploads of different paths are invisible until they are committed, and  *)
(* what is committed is what the client was told: the server implements    *)
(* the abstract store, in which a file changes in one step, to every chunk *)
(* that was acknowledged and no more than parts of those that were refused.*)
Store == [p \in Paths |-> IF tree[Final(p)] = None THEN None
                          ELSE content[tree[Final(p)]]]

Told(h) == [o \in Offsets |-> CASE writes[h][o] = "done" -> h
                                [] writes[h][o] = "torn" -> Part(h)
                                [] OTHER -> None]

Pending == [h \in Handles |-> IF pc[h] = "open" /\ ~w[h].exceeded
                              THEN [path |-> w[h].finalPath, data |-> Told(h)]
                              ELSE None]

FS == INSTANCE FileStore WITH store <- Store, pending <- Pending

ImplementsStore == FS!StoreSpec
===============================================================================
