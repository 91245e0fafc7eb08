------------------------------ MODULE FileStore ------------------------------
(***************************************************************************)
(* What an SFTP user may rely on when uploading: a file changes in one     *)
(* step, and what appears is one upload's data: whole every chunk it was   *)
(* told had been written, and otherwise nothing but parts of chunks it was *)
(* told had failed.  Uploads in progress are invisible; an upload that is  *)
(* given up leaves every file as it was.  Module Upload implements this.   *)
(***************************************************************************)
CONSTANTS Handles,   \* open upload handles
          Paths,     \* file names below the user's root
          Offsets,   \* chunk positions within a file
          None       \* no file, no upload, no data

VARIABLES store,     \* path -> what a reader of that path gets
          pending    \* handle -> the upload in progress, or None

storeVars == <<store, pending>>

Blank == [o \in Offsets |-> None]

StoreInit ==
  /\ store = [p \in Paths |-> None]
  /\ pending = [h \in Handles |-> None]

Begin(h, p) ==
  /\ pending[h] = None
  /\ pending' = [pending EXCEPT ![h] = [path |-> p, data |-> Blank]]
  /\ UNCHANGED store

(* A part of the chunk written at an offset.                               *)
Part(h) == <<"part of", h>>

Acknowledge(h, o) ==
  /\ pending[h] # None
  /\ pending' = [pending EXCEPT ![h].data[o] = h]
  /\ UNCHANGED store

(* The write failed; a part of it is there nonetheless.                    *)
Refuse(h, o) ==
  /\ pending[h] # None /\ pending[h].data[o] = None
  /\ pending' = [pending EXCEPT ![h].data[o] = Part(h)]
  /\ UNCHANGED store

Publish(h) ==
  /\ pending[h] # None
  /\ store' = [store EXCEPT ![pending[h].path] = pending[h].data]
  /\ pending' = [pending EXCEPT ![h] = None]

(* A crash of a server gives up all its uploads at once. *)
GiveUpAll(H) ==
  /\ pending' = [h \in Handles |-> IF h \in H THEN None ELSE pending[h]]
  /\ UNCHANGED store

Delete(p) ==
  /\ store' = [store EXCEPT ![p] = None]
  /\ UNCHANGED pending

Move(p, q) ==
  /\ store[p] # None
  /\ store' = [store EXCEPT ![q] = store[p], ![p] = None]
  /\ UNCHANGED pending

StoreNext ==
  \/ \E h \in Handles : \/ \E p \in Paths : Begin(h, p)
                        \/ \E o \in Offsets : Acknowledge(h, o) \/ Refuse(h, o)
                        \/ Publish(h)
  \/ \E H \in SUBSET Handles : GiveUpAll(H)
  \/ \E p \in Paths : Delete(p) \/ \E q \in Paths \ {p} : Move(p, q)

StoreSpec == StoreInit /\ [][StoreNext]_storeVars
==============================================================================
