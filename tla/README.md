# Go_SFTP: a TLA+ model

This directory models and verifies the Go SFTP service of this repository:
what its server does to users' files and quotas, and how it follows the user
records in Vault. Modules are checked with TLC on small instances and, where
stated, proved with TLAPS for all values of their constants. File names without
a directory are those of `services/sftp-server/cmd/sftp-server`.

## 1. The system

| Component | State | Operations | Talks to |
|---|---|---|---|
| Upload: `fs.go` Filewrite and Filecmd, `quota.go` | the user's directory; per open upload an `atomicQuotaWriterAt` (temporary and final path, descriptor, `baseBytes`, `maxEnd`, `exceeded`) | Filewrite, WriteAt, Close, Remove, Rename, Mkdir, Rmdir | called by the request server of `github.com/pkg/sftp`; shares the data volume with all sessions and replicas |
| Download and listing: Fileread, Filelist | none | open, list, stat | the data volume |
| Paths: `clean`, `joinClean`, `userRootPath`, `kvV2DataPath` and the API's `kv2Paths` | none | pure functions | used by all of the above and below |
| User cache: `vault.go` | `userCache.store`: record and expiry per user, behind a one-slot channel as lock | `getOrLoad`, `loadUserFromVault` | called by authentication and by each sftp channel; reads Vault |
| Sessions: `main.go`, `auth.go`, `sftp-serve.go` | accept loop, one goroutine per connection and one per channel, session gauge | accept, authenticate, start the subsystem, serve, shut down | user cache, upload |
| Metrics, audit, configuration | counters, log lines, constants | write only | none read back |
| Admin API: `services/admin-api` | none of its own | list, create, read, replace, patch and delete a user | Vault |
| Web UI: `services/web-ui` | React state of each page | list, toggle, edit, create, delete | admin API through proxy routes |
| Deployment: `helm/`, `docker-compose.yml` | declarative | | by default two server replicas over one volume, each with its own cache |

`*.old` files are not built. `Go_SFTP` has no tests.

How a session works. The request server runs every request but reads and writes
on one goroutine per connection, in order, and reads and writes on a pool of
eight that all open files share; a close waits for the packets received before
it. When the connection ends the pool drains and the request server closes every
handle still open, which calls `atomicQuotaWriterAt.Close`. Several connections
of a user, in one replica or two, work on the same directory with no lock between
them.

### What is hard, and what would be correct

*Upload.* Uploads of one path share a temporary name. The quota is checked
against a count taken when the file was opened. `maxEnd` and `exceeded` are
shared by the pool without a lock. Close can follow a lost connection or a failed
write. A killed server leaves temporary files. A directory may be renamed with uploads
open in it. A write that fails may have stored a part. Correct means: files change in one
step, and to what was acknowledged but for parts of what was refused; what one upload does never shows in another's
committed file; no temporary file is lost track of; the quota bounds each upload
and, as far as counts can be stale, the directory; a lost connection releases
everything.

*User cache.* Lookups of a user overlap; reads of Vault answer late, never, or in
another order than they were asked; the record changes meanwhile. Correct means:
a lookup returns what Vault held at most one TTL before it began, failures are
not cached, and every lookup returns.

*Sessions.* The record is loaded twice, and `Disabled` is looked at only the first
time. A client may ask about many keys and users, and signs for one of them at any
later time. The requests of a channel are not read while it is served. `session_end` and the gauge
do not wait for the channel's goroutine. Correct means: whoever is let in had, within
a TTL of asking, an enabled record with that key; a channel is served from a record
as recent, to the user its connection let in; lost connections and closed channels
end, with their goroutines; a signal ends the process.

*Paths.* A path is cleaned by the library, changed (`\` becomes `/`) and cleaned
again, and then checked twice. Two programs derive the same secret's path in
different ways. Correct means: what is accepted lies below the user's root, which
lies below the data directory, and is the file the path names; server and API mean
the same secret.

*Admin API and web UI.* PATCH reads and writes in two steps; a write replaces
the whole record, without its quotas and with fields of other types lost; listings read record by record;
pages show whichever answer comes last and save forms filled earlier. Correct
means: a partial update changes only what it names, a deleted user stays
deleted, a listing shows users that existed.

`PROJECT.json` lists each hazard at its line with the properties that cover it.

## 2. Modules

`FileStore` (abstract) is what a user may rely on: `store` maps a path to what a
reader gets, `pending` an open upload to its path and to what its client was told of each
chunk. Begin, Acknowledge, Refuse (which may leave a part of the chunk), Publish, GiveUpAll,
Delete and Move are its only steps.

`Upload` is the upload path for one user's directory.

| Variable | In the code |
|---|---|
| `tree`, `content` | the directory (name to inode) and, per inode and offset, which handle wrote the chunk there, or a part of it (`Part`). Renaming moves an inode, so a descriptor goes on writing to a renamed or unlinked file, as in the kernel |
| `w[h]` | the writer: `finalPath`, `f` (None when closed), `baseBytes`, `maxEnd`, `exceeded` |
| `walk[h]` | `dirUsage` under way: the entries listed and not yet counted, `usage` so far |
| `pc[h]` | idle, in the walk, between removing the old temporary file and creating the new one, open, or between a failed rename and the removal after it |
| `writes[h][o]` | each chunk: not yet sent, where its WriteAt stands, acknowledged (`done`), or refused with nothing stored (`failed`) or with a part (`torn`) |
| `up[s]` | the session's connection is alive |

Filewrite is OpenWalk, WalkEntry per file, then RefuseOpen or RemoveOldTemp and
OpenTemp. WriteAt is WriteLoad (test of `exceeded`, comparison with `maxEnd`),
WriteStore (assignment), WriteCheck (the quota test, which reads the fields
again), WriteUnlink or WritePwrite. Close is CloseExceeded, CloseCommit, or CloseRenameFails and
CloseRemove. Every action is one system call on the directory or one access to the
shared fields, so all interleavings of sessions and pool goroutines are there.
CmdRemove and CmdRename are single calls. Drop, Reconnect and Kill are the faults;
a failing disk (`DiskFaults`) may fail OpenTemp, WritePwrite and the rename, and WritePwrite
with a part of the chunk in the file, as `WriteAt` of an `os.File` may.

Names: a path has two entries, `Final(p)` and `Tmp(p)` (the name with `.uploading`
appended). Sizes are in chunks. `content` records writers, not bytes: the
properties need to tell whose data a file holds and which parts, and no more. A part of a
chunk counts as a chunk in sizes, so that usage is not understated.

`Folders` has the same component over several directories side by side, without file contents,
offsets and faults. `dirs` are the directories there are; `tree`, `pc` and `w` are as in
`Upload`, with entries in directories. Filewrite is MakeParent (`MkdirAll`), ListRoot, then
ListDir and StatFile as `WalkDir` reads one directory after the other, and RefuseOpen or
RemoveOldTemp and OpenTemp; then WriteOverQuota (the refused WriteAt) and the actions of Close.
Remove, Rename, Mkdir, Rmdir and RenameDir are Filecmd. `owed` and `strays` are history: what a
walk has still to count of what was there all along, and which temporary files went with a
renamed directory.

`UserCache` is `getOrLoad` with `loadUserFromVault` inlined, any number of calls
at once. `call[c]` has the position of a call, the `time.Now()` of its start and
its result; `held` is a history variable, the last time Vault held each record.
The critical sections are one step each; all that happens between them is
separate. A record that cannot be decoded, a missing one and a failed read are
all None, as the caller cannot tell them apart. ProcessEnds empties the cache.

`Session` extends `UserCache` to a whole server process.

| Variable | In the code |
|---|---|
| `srv` | where `main` is (in its select, closing, exited), whether a signal has come, whether the listener is open and the accept loop runs |
| `conn[c]` | where `handleConn` is (in the handshake, in the public key callback, let in but not signed, open), whether the connection is lost, the user and key asked about, failed attempts; `since`, a history, is when the lookup began that let it in |
| `chan[k]` | where the channel's goroutine is (waiting for a request, loading the record, serving, done but not closed), whether the channel is closed, its requests not yet read, its user and record; `since` likewise |

A connection and a channel each use the call of `UserCache` with their own name:
Ask and Subsystem begin it, Decide and Loaded take its result. Ask and Decide are
the public key callback; Sign is the end of the handshake, at any later time.
Decide gives up after `MaxAuthTries` failures, as the SSH library does. Request and
OpenChannel are what the library's mux does with what a client sends: it waits
with a request for which its channel has no room in its buffer, and hears nothing
meanwhile, not even that the connection is lost (`Blocked`). SessionEnds is `session_end` and the deferred
closes of `handleConn`; it closes the channels, and their goroutines go on on their
own: a new connection and a new channel may come while an old goroutine still
reads Vault. ServeEnds and ServeStops stand for `serveSFTP`: it ends when the channel is closed, and may
end with the channel open, at the end of the input or at a malformed packet; what happens inside it, including how
open uploads are closed, is `Upload`. MainReturns ends every goroutine at once, as
returning from `main` does, and Start starts the next process with an empty cache.

`Paths` has the functions on paths, as sequences of parts between slashes:
`Accepted`, `AbsPath` and `RelPath` are the three results of `clean`, `FilepathClean`
is `path/filepath.Clean`. `PathRules` builds paths part by part and states
what must hold of each, by counting parts up and down instead of cleaning.

`UserRecords` has a user's record as Vault holds it (`Raws`, with the quotas), as the admin API
shows it (`Views`) and as a PATCH names it (`Partials`), and the functions between
them: reading passes over fields of another JSON type, normalising gives an empty
root the user's name and drops blank keys, merging and encoding, which leaves the quotas out.
An empty root (`Empty`) is not the same as one that a PATCH does not name (`Unset`). `ServerReads` is the
server's own reading of the same record (`parseUserRecord`). Keys are a set.

`UserDirectory` (abstract) is what the admin API promises: each request takes
effect at one moment between call and answer, wholly or not at all, and its
answer is true of the directory at that moment. A failed one may have taken effect.

`AdminApi` (`services/admin-api/cmd/admin-api/main.go`) has a record `req[r]` per
HTTP request under way and `list[r]` for what `listUsers` has done. Each request
to Vault is one step: Validate (everything before the first), Read (readUserKV2),
Write and Delete (one attempt each), ListNames and ListItem (one turn of the loop).
An attempt may reach Vault or not and be heard of or not; Vault's client tries
again or gives up. Restart ends all requests; Operator is anyone who writes to
Vault directly. `applied`, `came` and `stay` are history: whether Vault has
carried a write out, who has fitted a listing's filter since it began at some time
and all the time. Handlers share nothing but Vault, so that it does not matter
whether one process or several run them. `Overlap` says whether requests that
change the same user may overlap.

`MCUpload`, `MCFolders`, `MCSession`, `MCPaths` and `MCAdminApi` have the instances of `Upload`,
`Folders`, `Session`, `PathRules` and `AdminApi`; `UserCache` is checked as part of `Session`.
The theorems are in `UploadProofs`, `UploadStoreProofs` and `UploadQuotaProofs`, `FoldersProofs`,
`SessionProofs` (those of `UserCache` too), `PathsProofs`, `AdminApiProofs` and
`AdminDirectoryProofs`.
An operator marked "mutant" is what a plausible bug would make of the definition
after it. Nothing in the specifications uses it; substituting it must break the
property named with it in `PROJECT.json`.

## 3. Runs

| Run | Question | Result |
|---|---|---|
| `upload_store` | With two sessions, quota refusals, lost connections and a killed server: do uploads of different paths keep to the quota as each found it, how far can stale counts overshoot, and do they implement `FileStore`? | `UploadWithinQuota`, `ChecksCover`, `UsageBound`, `FileQuotaBound` (both bounds are reached), `ImplementsStore`, `FinalImmutable` hold |
| `upload_pool` | And the uploads of one session, with WriteAt calls racing each other, the file closed under them, writes that fail with a part stored, failed renames, renamed files and a killed server? | `ImplementsStore` holds |
| `upload_drop` | What can two pipelined uploads of one path do to temporary files, and does a lost connection release both? | `TempHasOwner`, `DropReleases` hold |
| `folders` | What do directories that are made, removed and renamed at any moment do to uploads, to their temporary files and to the count? | `CountsWhatStayed`, `TempTraced`, `CommitsOwnFile` hold |
| `session` | Who is admitted and served while Vault changes, fails and is slow, and does everything that is lost, closed or stopped end? | `BoundedStaleness`, `ExpiryBacked`, `AdmittedRightly`, `ServedRightly`, `SessionsEnd`, `ChannelsEnd`, `ShutdownEnds` hold |
| `paths` | Which paths does `clean` refuse, where do the others lead, and do server and API mean the same secret? | `RefusesExactly`, `ResolvesInside`, `RelNamesTheFile`, `SameSecret` hold |
| `admin` | With requests lost, repeated and restarted: does the server read what the API wrote as the API does, are listings exact, and is the API a directory, and does a PATCH spare what else the API serves, when requests on a user take turns? | `ServerAgrees`, `ListingExact`, `ImplementsDirectory`, `PatchSparesTheRest` hold |
| `admin_patch` | Does a PATCH change only what it names when another overlaps? | `PatchIsPartial` violated |
| `admin_patch_alone` | And when none does, for a record with fields the API does not know? | `PatchIsPartial` violated |
| `upload_pipelined` | Is `UploadWithinQuota` true with a pipelining client? | violated |
| `upload_same_path` | Is `FinalImmutable` true for two uploads of one path? | violated |
| `upload_commit_whole` | Is what Close publishes the whole upload? | violated |

### Disagreements found

* `quota.go:36` says that an upload that exceeds the quota at any point is deleted. Two WriteAt
  calls of one handle race on `maxEnd`: both compare, the larger end is stored,
  the smaller overwrites it, and the check lets the larger chunk through
  (`upload_pipelined`). Common clients pipeline, so one upload is enough.
* `quota.go:84` and `fs.go:100` promise an atomic commit. Two uploads of a path share the
  temporary file, and one writes on into the file the other has committed
  (`upload_same_path`).
* After a lost connection Close publishes the part that had arrived, and after a
  failed write it publishes a file with a hole, or with a part of the chunk the client was told
  had failed; `quota.go:91` calls this success
  (`upload_commit_whole`).
* `admin-api main.go:169` calls PATCH a partial update. It writes back the whole
  record it read, with no check-and-set: of two PATCH requests at once, the
  later undoes the earlier, and a key that was withdrawn is back (`admin_patch`).
  A DELETE in between is undone in the same way.
* Nor is PATCH partial on its own (`admin_patch_alone`, where one PATCH of the keys shows both
  of this). `writeUserKV2` (`main.go:342-350`) knows neither `quotaBytes` nor `quotaFiles` and drops both.
  A `disabled` that is the text "true" counts for the server (`vault.go:189`) and reads as
  false in the API (`main.go:379`), so that a PATCH of another field enables the user.
  `PatchSparesTheRest` is what does hold: the fields named get their
  value, and the other fields that the API serves, with types it knows, keep theirs.

Also met and not checked by a run: `quota.go:35` says that the writer "only renames to final on Close if
within quota". Two uploads open at once, each within the quota as it found it, take the directory
over it together; `UsageBound` says by how much, and `upload_store` reaches that. A directory renamed while an upload is open in it takes
the temporary file along. A WriteAt over quota then removes nothing, though `quota.go:79` takes it as
removed; the file stays in the renamed directory and counts. If a second directory takes the old name before the
first upload closes, its Close may publish the second's file. `CommitsOwnFile` and `TempTraced`
except just these files. A file moved into a directory the walk has read is not counted, so
that `FileQuotaBound` is for a flat directory; and in a flat one the bytes of a file that is renamed
to a name the walk has passed are not, so that `UsageBound` is for clients that do not rename
(`upload_store` has one name for commands, so that a rename has no target). PUT drops the quotas as PATCH does, which no text denies; a secret whose latest
version is deleted fails every listing that includes it (`main.go:373`, `469`). For a
prefix that contains `/data/` the server uses it as it is (`vault.go:267`) and the API
puts another `data` in (`main.go:333`); `SameSecret` says exactly when the two agree, as
they do for the settings shipped. `main.go:61` says "Graceful shutdown", and `main`
returns without waiting for sessions: connections and uploads end with the process,
as `ShutdownEnds` and `Kill` of `Upload` have it. `metrics.go:281` counts "active SFTP sessions"
from the accept on, before anyone is authenticated; every failed authentication is
counted as a wrong key (`auth.go:62`); `DISABLE_USER_CACHE` is read (`config.go`) and not used.
A connection whose mux waits with a request for a served channel's full buffer is not noticed when lost, and
its handler and gauge stay (`SessionsEnd` excludes it).

### Bounds

Two handles on one or two sessions are the smallest setting for every hazard
above; none needs a third actor. Files have at most two chunks, which is enough for a write past
the end, a partial upload and two WriteAt calls in flight; in `upload_pool` three, over a quota of
two, so that two WriteAt calls may be past their check when a third closes the file. Quotas are one or two
chunks, so that one full file uses the quota up and the next chunk exceeds it.
One or two paths do for rename and shared names: their four entries are more than the
bound on files, and hold more than the bound on usage. `Inodes` suffices for every file ever
referenced at once: that a creation always finds a free one was checked in each instance as an
invariant (`pc[h] = "create"` implies that some inode is not in `Referenced`), which is not kept
as it says nothing about the code. Inodes are interchangeable, and symmetric in all runs of `Upload`
but `upload_drop`, which checks liveness. Where `ImplementsStore` is checked this is sound too:
the mapping to `FileStore` names no inode, so that a permutation of inodes leaves `store` and
`pending` as they are, and `StoreSpec` has no fairness, so that each step is judged by itself.
`folders` has one name in each of two directories and a file quota of two: the directories can
take each other's name while both uploads are open, and each walk sees files in one directory change while
it reads the other. All four entries and a file that is still open without a name fit in its five inodes.
`session` has one connection, one channel, one user and two records, enabled and disabled, a
TTL of two ticks, a timeout of one and a clock that stops at two: a lookup can
start, be overtaken by a change and an expiry, and finish; and as a goroutine outlives its
connection, the lookups of an old channel and of a new connection overlap on the
cache. One of two keys is in the records. Two failed attempts end a handshake. The
buffer is empty, so that one request behind the subsystem's blocks the mux. When
the clock has stopped, all deadlines pass. `paths` takes all paths of five parts from
`a`, `data`, `.`, `..` and the empty part: up, down, aside and back again needs
four. Its roots are those of every `rootSubdir` in a small set that the API lets in, below `/data` and below
`/`. A path that the change of backslashes makes absolute is clamped at the root, not refused, and a root that
is `/` itself makes `clean` refuse every path (`fs.go:47` looks for a prefix `//`): `RefusesExactly` says both.
The admin API has two requests and two users, so that any two handlers overlap and
a listing sees changes to users it has read and to others. Of each input there is
one of every kind the code tells apart: a body to be normalised and an invalid one,
a PATCH of the keys and one of the other two fields, with an empty root, a listing with a filter and one
with a limit of one, and in Vault a record with quotas as an operator writes it, one with
fields of other types, none, and a deleted version. Two attempts show a repeated
write. Requests and users are symmetric.

### Assumptions

* Clients send nothing more on a handle after closing it, and do not pipeline where
  `Pipelined` is FALSE. The theorems and runs that need it say so.
* Removal and rename name only final entries (`CmdNames`). A client can name
  an `.uploading` file; the temporary-file theorem does not cover that.
* All sessions have the same quota. The root is one flat directory in `Upload`, and holds
  directories of files in `Folders`, where each upload has a session of its own and commands
  come from further ones: fewer sessions only make some steps wait.
* Closing the descriptor and setting `exceeded` are one step. The order in which
  `WalkDir` visits entries is arbitrary, where the code's is alphabetical.
* In the `admin` run requests that change one user, and operators, take turns on it
  (`Overlap` is FALSE); `admin_patch` shows what happens otherwise. Of the theorems
  about the API only `ApiIsADirectory` and `PatchesSpareTheRest` assume it. An attempt of Vault's client that timed out does
  not reach Vault after the next one has been sent.
* Memory is sequentially consistent for the racing fields; the Go memory model allows at
  least these outcomes.

### Fairness

`FairSpec` of `Upload` is weakly fair to the steps of each handle's goroutines:
the Go scheduler runs every runnable goroutine, and system calls end. Clients
need not send, close or drop, and faults need not happen. `SessionFairSpec` is
weakly fair to `main`, to the accept loop once the listener is closed, to the
goroutine of each connection and of each channel, lookups included, and to the clock.
Vault may never answer, clients need not send, sign or leave, no signal need come and
no new process start.

## 4. Proofs

All by TLAPS, for every value of the constants.

* `TypeCorrect`: `Upload` is well typed; `TypeOK` is inductive.
* `StepOfHandle` sums up what any step may do to one handle; the step lemmas that follow
  split on its cases. `Phases`, a lemma that the others rest on, says that WriteAt calls meet a writer only
  between Filewrite and Close, as the library has it.
* `QuotaPerUpload` (assuming `~Pipelined`): every acknowledged chunk was within the
  quota. `UploadWithinQuota` is not inductive. A chunk becomes acknowledged after a check that
  read `maxEnd`, so `ChecksCover` adds that one chunk is in flight, that at the
  check `maxEnd` covers it, and that what was let through fits. `Phases` shows that
  `baseBytes` does not change while chunks are in flight.
  `upload_pipelined` shows that the assumption is needed.
* `ChecksAreExact` (under the same assumption) states `ChecksCover` by itself.
* `FinalsAreImmutable`, `ImplementsFileStore` (assuming that no two handles share a path,
  that clients name only final entries, and that None is no file's content): a file
  never changes under its final name, and `Upload` implements `FileStore`, pipelined or
  not, with faults and kills. `StoreInv` adds to `TypeOK` and `Phases` that entries name
  different inodes (`OneLink`), and that a writer with its file open is the only one at
  its temporary name, with exactly what its client was told in it (`WriterOf`).
  The lemmas on what a step keeps (`ContentKept`, `FinalKept`, `TempKept`, `WritingKept`)
  carry this over; each step is then a step of `FileStore` or leaves the store as it is.
  `upload_same_path` shows that the first assumption is needed.
* `TempsHaveOwners` (assuming no kills and that clients name only final
  entries): each temporary file has an upload that is going to commit or remove
  it. `TempMade` shows that only OpenTemp makes one, and `OwnerKept` that an owner
  stays one until the file is gone. `Phases` supplies that a fresh writer has not
  exceeded its quota.
* `FileQuotaHolds` (assuming finitely many sessions): the number of files never exceeds the
  quota by more than one for each further session. In `CountInv` a session has at most one handle
  between Filewrite's count and its create (`OneAtWork`), and the files there are, with one
  for each session whose Filewrite has found room or still may (`Makers`), are within the
  bound (`RoomForAll`). A session joins them only at a moment when the directory holds
  fewer files than the quota, and only a session among them adds a file, and then leaves.
* `UsageIsBounded` (assuming `~Pipelined`, that no two handles share a path, that clients name
  only final entries, finitely many handles, and behaviours without renames): the bytes in the directory
  never exceed a quota per handle. Per handle `Fits` says that what is at its own names, counted by
  inode, is within the quota; that in a walk what has not still to be counted has been; and
  that while a file may grow, the rest is within `baseBytes`. It needs `StoreInv`, so that no
  one else writes to these files, and `ChecksCover`. `Owned` says that each file is at
  some handle's name, so that the sum over handles covers the directory.
* `FoldersTypeCorrect`, `WalksCountWhatStayed`, `TempsAreTraced` and `OwnFilesAreCommitted` (the
  last for uploads with no path in common). Besides types, `Base` says that a handle
  at work has one of its paths; `WalkSound` that what a walk owes is there and in
  a directory or listing it has still to read; `OwnTemp` that a writer's file is at its
  temporary name unless it was carried away. `TempFate` lists what a step may do to
  a temporary entry: nothing, or it was carried to or from it, or it is the step
  of an upload of that path.
* `CacheTypeCorrect`, `StalenessIsBounded`: from `IInv`, which is `TypeOK`,
  `BoundedStaleness` and `ExpiryBacked`. The last says that an
  entry expires at most a TTL after Vault last held its record, and that an answer
  under way was Vault's after its call began. It rests on the expiry being
  counted from before the read, as `vault.go:310` and `326` do; `ExpiriesAreBacked` states it.
* `SessionsUseCache`: every behaviour of `SessionSpec` is one of `Spec` of `UserCache`,
  so that its theorems hold in a server (`SessionStaleness`). It needs that a channel's
  user is one, and so an invariant: `SInv`. Its `ConnOK` says that the lookup of a
  connection in the callback is for the user it asks about and that who was let
  in had a reason in Vault's history; `ChanOK` says the same of channels, and that an open one
  belongs to an open connection of its user. As Vault's history only grows
  (`HistoryGrows`, `RecentStays`), what was recent stays so, and a step of one
  connection or channel leaves the promises of the others alone (`ConnOnly`, `ChanOnly`).
  `SessionTypeCorrect`, `AdmissionIsRight` and `ServiceIsRight` follow.
* `ApiTypeCorrect`, `ServerAlwaysAgrees`, `ListingsAreExact`: from one inductive
  invariant. `Stage` says what each stage of a handler knows: what reaches a write
  has passed the checks, whichever way it came, so that what Vault holds is an
  operator's or `Usable`, and there the two readings agree. `UnderWay` says of a listing that
  those who stayed are listed or still to be read, and that the limit is not
  reached. `OneRequest` and `VaultChanges` split the steps into those that leave
  Vault alone and those every listing under way must take note of.
* `ApiIsADirectory`, `PatchesSpareTheRest` (assuming `~Overlap`): `AdminApi` implements `UserDirectory`,
  and a PATCH gives the fields it names their value and leaves the others that the API serves. `TurnInv` adds to the invariant above that no two
  requests that change something name the same user (`InTurn`), what a request asks for
  (`Asks`), and that what it is about to write is still what it makes of the record as it is, or has
  been written by an attempt it has not heard of (`Does`). A request takes effect with the first
  attempt that reaches Vault; a repeated one then writes what is there. `OthersWait` shows once
  that a step of one request leaves all this true of the others, and each action is then
  a step of the directory or leaves it as it is. `admin_patch` shows that the assumption is needed.
* `CleanIsExact`, `CleanStaysInside`, `RelIsTheFile`, `SecretsAgree`: the four properties of `PathRules`
  for paths, roots and data directories of any length. `FilepathClean` is a recursive function; what it
  does to a path with one more part is `CleanAppend`, and induction on the length (`SeqInduct`) comes
  from the library's theorem that `<` on the naturals is well founded, applied to sets. A path that never
  climbs out comes to one name for each part down that no `..` takes back, wherever it begins
  (`StaysInside`), and one that does keeps a `..` in front when it is not rooted (`GoesOutside`), which
  is what `clean` looks for. Assumed of the
  constants are their types, that the user's name is a name and that no `rootSubdir` is the empty sequence.

Every safety property of the passing runs is stated by a theorem. Only model-checked are the liveness
properties `DropReleases`, `SessionsEnd`, `ChannelsEnd` and `ShutdownEnds`: liveness under fairness is
out of the prover's reach.

## 5. Plan

Done: `Upload`, `Folders`, `UserCache`, `AdminApi`, `Session`, `Paths` with their runs and the
theorems above. Left, in this order:

1. `UsageIsBounded` with renames: the bound that holds then is larger.
2. `Upload` with a host that loses what was not written back to disk.

## 6. Not modelled

The web UI is pages of React state over the admin API: an older answer may
replace a newer one, and a form filled earlier is put back whole. No text says what a page
promises then, so there is no property to state; what its requests do to the
records is `AdminApi`. Metrics, audit lines and configuration are written and never read back.
Download and listing change nothing. Deployment files are declarative. Writing
back to disk (no fsync before the rename) and int64 overflow of sizes are listed
as hazards without a property. Of a
Vault record `updatedAt` and malformed numbers are left out, and the quotas are one value.
