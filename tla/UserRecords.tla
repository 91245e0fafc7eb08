----------------------------- MODULE UserRecords -----------------------------
(***************************************************************************)
(* A user's record as Vault holds it, as the admin API sees it and as a    *)
(* request names it (admin-api main.go), how the one becomes another, and  *)
(* what the SFTP server makes of it (vault.go).                            *)
(* A key is a member of a set: its text, order and repetition are left out.*)
(***************************************************************************)
CONSTANTS
  Users,      \* names usernameRe accepts
  BadName,    \* one it does not
  Keys,       \* public keys a record or a request may list
  Blank,      \* a key that is only white space
  Malformed,  \* a key without its two fields
  BadRoot,    \* a root directory with "..", a leading "/" or a "\"
  Empty,      \* the root directory "", or none, which stands for the user's name
  OwnQuotas,  \* quotaBytes and quotaFiles of the user's own
  Unset,      \* a field that is absent
  Text,       \* the string "true" where a JSON true belongs
  None,       \* no record
  Deleted     \* a secret whose latest version is deleted, its metadata kept

ASSUME RecordsAssumption ==
  /\ BadName \notin Users /\ None \notin Users
  /\ Unset \notin Users \cup BOOLEAN \cup {BadRoot, Empty, OwnQuotas}
  /\ \A ks \in SUBSET Keys : ks # Unset
  /\ BadRoot \notin Users /\ Empty \notin Users /\ BadRoot # Empty
  /\ Text \notin BOOLEAN

Roots == Users \cup {BadRoot, Empty}

(* What Vault may hold, as written by the API or by an operator.           *)
Raws == [disabled : BOOLEAN \cup {Unset, Text}, rootSubdir : Roots,
         publicKeys : SUBSET Keys, keysAre : {"list", "string"},
         quotas : {Unset, OwnQuotas}]

(* type User: what requests carry and answers show.                        *)
Views == [disabled : BOOLEAN, rootSubdir : Roots, publicKeys : SUBSET Keys]

(* type PartialUser; a User is one that leaves nothing out.                *)
Partials == [disabled : BOOLEAN \cup {Unset}, rootSubdir : Roots \cup {Unset},
             publicKeys : {Unset} \cup SUBSET Keys]

ASSUME SecretsAssumption ==
  /\ None \notin Raws \cup Views /\ Deleted \notin Raws \cup Views
  /\ None # Deleted

Secrets == Raws \cup {None, Deleted}

(* readUserKV2: a field of another type than expected is passed over, and  *)
(* one it does not know, as the quotas.                                    *)
Decode(raw) == [disabled   |-> raw.disabled = TRUE,
                rootSubdir |-> raw.rootSubdir,
                publicKeys |-> IF raw.keysAre = "list" THEN raw.publicKeys ELSE {}]

(* writeUserKV2 replaces the record by the fields of a User.               *)
Encode(v) == [disabled |-> v.disabled, rootSubdir |-> v.rootSubdir,
              publicKeys |-> v.publicKeys, keysAre |-> "list", quotas |-> Unset]

Given(field, old) == IF field = Unset THEN old ELSE field

RootOf(u, root) == IF root = Empty THEN u ELSE root

(* parseUserRecord of the server, which takes strings where it can, and    *)
(* refuses a user without keys.                                            *)
AsBool(x) == x = TRUE \/ x = Text

AsStringSlice(raw) == raw.publicKeys \ {Blank}

ServerReads(u, raw) ==
  IF AsStringSlice(raw) = {} THEN None
  ELSE [disabled   |-> AsBool(raw.disabled),
        rootSubdir |-> RootOf(u, raw.rootSubdir),
        publicKeys |-> AsStringSlice(raw),
        quotas     |-> raw.quotas]

(* normalizeAndValidateUser: its changes, then its checks.                 *)
Normalize(u, v) == [disabled   |-> v.disabled,
                    rootSubdir |-> RootOf(u, v.rootSubdir),
                    publicKeys |-> v.publicKeys \ {Blank}]

Valid_NoKeyCheck(u, v) == u \in Users /\ v.rootSubdir # BadRoot \* mutant
Valid(u, v) ==
  /\ u \in Users
  /\ v.rootSubdir # BadRoot
  /\ v.publicKeys # {} /\ Malformed \notin v.publicKeys

Merge_AbsentIsFalse(v, p) ==                                   \* mutant
  [disabled |-> p.disabled = TRUE, rootSubdir |-> Given(p.rootSubdir, v.rootSubdir),
   publicKeys |-> Given(p.publicKeys, v.publicKeys)]
Merge(v, p) == [disabled   |-> Given(p.disabled, v.disabled),
                rootSubdir |-> Given(p.rootSubdir, v.rootSubdir),
                publicKeys |-> Given(p.publicKeys, v.publicKeys)]
==============================================================================
