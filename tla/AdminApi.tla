------------------------------ MODULE AdminApi -------------------------------
(***************************************************************************)
(* The admin API (admin-api main.go): every handler with the requests it   *)
(* sends to Vault, one step each.  Handlers share no state but Vault, so   *)
(* the requests may as well be spread over several replicas.               *)
(*                                                                         *)
(* Vault's client repeats a request that failed on its way (DefaultConfig  *)
(* allows two retries), also one that Vault had carried out.               *)
(***************************************************************************)
EXTENDS UserRecords, FiniteSets, Naturals

CONSTANTS
  Reqs,            \* HTTP requests under way; a finished one is used again
  Bodies,          \* what POST and PUT carry, a set of Views
  Patches,         \* what PATCH carries, a set of Partials
  Filters,         \* what GET /users asks for
  OperatorWrites,  \* what operators do to a record in Vault itself
  MaxTries,        \* attempts of Vault's client
  Overlap          \* may requests that change one user overlap?

ASSUME ApiAssumption ==
  /\ Bodies \subseteq Views /\ Patches \subseteq Partials
  /\ Filters \subseteq [match : SUBSET Users, disabled : BOOLEAN \cup {Unset}, limit : Nat \ {0}]
  /\ OperatorWrites \subseteq Secrets
  /\ MaxTries \in Nat \ {0}
  /\ Overlap \in BOOLEAN
  /\ None \notin {"ok", "GET", "POST", "PUT", "PATCH", "DELETE", "LIST"}

VARIABLES
  vault,  \* user -> the secret Vault holds
  req,    \* request -> where its handler stands
  list    \* request -> what listUsers has done, and (history) who fitted

apiVars == <<vault, req, list>>

Names == Users \cup {BadName}

(* applied is history: has Vault carried out the write?                    *)
Idle == [pc |-> "idle", op |-> None, user |-> None, arg |-> None,
         got |-> None, tries |-> 0, applied |-> FALSE, ans |-> None]

NoList == [left |-> {}, out |-> {}, came |-> {}, stay |-> {}]

Init ==
  /\ vault \in [Users -> OperatorWrites \cup {None}]
  /\ req = [r \in Reqs |-> Idle]
  /\ list = [r \in Reqs |-> NoList]
-------------------------------------------------------------------------------
Changing(r) == req[r].op \in {"POST", "PUT", "PATCH", "DELETE"} /\ req[r].pc # "answered"
Untouched(u) == \A r \in Reqs : req[r].user = u => ~Changing(r)

Start(r, o, u, a) ==
  /\ req[r].pc = "idle"
  /\ req' = [req EXCEPT ![r] = [Idle EXCEPT !.pc = "received", !.op = o, !.user = u, !.arg = a]]
  /\ UNCHANGED <<vault, list>>

Receive(r) ==
  \/ \E u \in Names : \/ Start(r, "GET", u, None)
                      \/ /\ Overlap \/ Untouched(u)
                         /\ \/ \E o \in {"POST", "PUT"}, b \in Bodies : Start(r, o, u, b)
                            \/ \E p \in Patches : Start(r, "PATCH", u, p)
                            \/ Start(r, "DELETE", u, None)
  \/ \E f \in Filters : Start(r, "LIST", None, f)

Goes(r, pc, got) == req' = [req EXCEPT ![r].pc = pc, ![r].got = got]
Answers(r, ans, got) == req' = [req EXCEPT ![r].pc = "answered", ![r].ans = ans, ![r].got = got]

(* normalizeAndValidateUser, then on to the write.                         *)
WriteIfValid(r, v) ==
  LET u == req[r].user
      n == Normalize(u, v)
  IN IF Valid(u, n) THEN Goes(r, "write", n) ELSE Answers(r, "invalid", None)

Validate(r) ==
  /\ req[r].pc = "received"
  /\ \/ req[r].op \in {"POST", "PUT"} /\ WriteIfValid(r, req[r].arg)
     \/ /\ req[r].op \in {"GET", "PATCH", "DELETE"}
        /\ IF req[r].user \in Users THEN Goes(r, "read", None) ELSE Answers(r, "invalid", None)
     \/ req[r].op = "LIST" /\ Goes(r, "names", None)
  /\ UNCHANGED <<vault, list>>

(* readUserKV2 can fail, and fails on a deleted version.                   *)
Found_Unchecked(r, v) ==                                      \* mutant
  \/ req[r].op = "GET" /\ Answers(r, "ok", v)
  \/ req[r].op = "PATCH" /\ Goes(r, "write", Merge(v, req[r].arg))
  \/ req[r].op = "DELETE" /\ Goes(r, "delete", None)

Found(r, v) ==
  \/ req[r].op = "GET" /\ Answers(r, "ok", v)
  \/ req[r].op = "PATCH" /\ WriteIfValid(r, Merge(v, req[r].arg))
  \/ req[r].op = "DELETE" /\ Goes(r, "delete", None)

Read(r) ==
  /\ req[r].pc = "read"
  /\ LET raw == vault[req[r].user] IN
       \/ Answers(r, "failed", None)
       \/ raw = None /\ Answers(r, "notFound", None)
       \/ raw \in Raws /\ Found(r, Decode(raw))
  /\ UNCHANGED <<vault, list>>
-------------------------------------------------------------------------------
Passes(f, u, v) ==
  u \in f.match /\ (f.disabled = Unset \/ v.disabled = f.disabled)

Listed(f, u, raw) == raw \in Raws /\ Passes(f, u, Decode(raw))

(* Who has fitted a listing's filter at some time and all the time since   *)
(* the listing began.                                                      *)
Watch(u, raw) ==
  list' = [r \in Reqs |->
    IF req[r].pc # "items" THEN list[r]
    ELSE IF Listed(req[r].arg, u, raw) THEN [list[r] EXCEPT !.came = @ \cup {u}]
    ELSE [list[r] EXCEPT !.stay = @ \ {u}]]

Tried(r, reached) == [req[r] EXCEPT !.tries = @ + 1, !.applied = @ \/ reached]

Again_OneMore(r) == req[r].tries < MaxTries                    \* mutant
Again(r) == req[r].tries + 1 < MaxTries

(* One attempt to write or delete.  Unless Vault is heard to have done it, *)
(* the client tries again; it gives up when the tries are used up or the   *)
(* request's context ends.                                                 *)
Attempt(r, raw) ==
  LET u == req[r].user IN
  \/ /\ vault' = [vault EXCEPT ![u] = raw]
     /\ Watch(u, raw)
     /\ \/ req' = [req EXCEPT ![r] = [Tried(r, TRUE) EXCEPT !.pc = "answered", !.ans = "ok"]]
        \/ Again(r) /\ req' = [req EXCEPT ![r] = Tried(r, TRUE)]
        \/ req' = [req EXCEPT ![r] = [Tried(r, TRUE) EXCEPT !.pc = "answered", !.ans = "failed"]]
  \/ /\ \/ Again(r) /\ req' = [req EXCEPT ![r] = Tried(r, FALSE)]
        \/ req' = [req EXCEPT ![r] = [Tried(r, FALSE) EXCEPT !.pc = "answered", !.ans = "failed"]]
     /\ UNCHANGED <<vault, list>>

Write(r) == req[r].pc = "write" /\ Attempt(r, Encode(req[r].got))

(* The metadata goes, and all versions with it.                            *)
Delete(r) == req[r].pc = "delete" /\ Attempt(r, None)
-------------------------------------------------------------------------------
(* The names of all secrets, deleted versions included.                    *)
ListNames(r) ==
  /\ req[r].pc = "names"
  /\ \/ Answers(r, "failed", None) /\ UNCHANGED list
     \/ LET f == req[r].arg
            names == {u \in f.match : vault[u] # None}
            fit == {u \in Users : Listed(f, u, vault[u])}
        IN /\ IF names = {} THEN Answers(r, "ok", None) ELSE Goes(r, "items", None)
           /\ list' = [list EXCEPT ![r] =
                [left |-> names, out |-> {}, came |-> fit, stay |-> fit]]
  /\ UNCHANGED vault

Full_OneShort(f, out) == Cardinality(out) + 1 >= f.limit       \* mutant
Full(f, out) == Cardinality(out) >= f.limit

(* One turn of the loop: another read of Vault.  The order of the names    *)
(* is Vault's and left open.                                               *)
ListItem(r, u) ==
  /\ req[r].pc = "items" /\ u \in list[r].left
  /\ \/ Answers(r, "failed", None) /\ UNCHANGED list
     \/ /\ vault[u] # Deleted
        /\ LET f    == req[r].arg
               left == list[r].left \ {u}
               out  == list[r].out \cup {v \in {u} : Listed(f, v, vault[v])}
           IN /\ list' = [list EXCEPT ![r].left = left, ![r].out = out]
              /\ IF left = {} \/ Full(f, out) THEN Answers(r, "ok", None) ELSE UNCHANGED req
  /\ UNCHANGED vault

Respond(r) ==
  /\ req[r].pc = "answered"
  /\ req' = [req EXCEPT ![r] = Idle]
  /\ list' = [list EXCEPT ![r] = NoList]
  /\ UNCHANGED vault
-------------------------------------------------------------------------------
(* The process ends, and is started again.                                 *)
Restart ==
  /\ req' = [r \in Reqs |-> Idle]
  /\ list' = [r \in Reqs |-> NoList]
  /\ UNCHANGED vault

(* An operator, or a job that sets up Vault, writes or deletes a secret.   *)
Operator(u, raw) ==
  /\ Overlap \/ Untouched(u)
  /\ vault[u] # raw
  /\ vault' = [vault EXCEPT ![u] = raw]
  /\ Watch(u, raw)
  /\ UNCHANGED req

Handler(r) ==
  Validate(r) \/ Read(r) \/ Write(r) \/ Delete(r) \/ ListNames(r) \/ \E u \in Users : ListItem(r, u)

Next ==
  \/ \E r \in Reqs : Receive(r) \/ Handler(r) \/ Respond(r)
  \/ Restart
  \/ \E u \in Users, raw \in OperatorWrites : Operator(u, raw)

Spec == Init /\ [][Next]_apiVars
-------------------------------------------------------------------------------
(* Every variable has its type.                                            *)
ReqType ==
  [pc : {"idle", "received", "read", "write", "delete", "names", "items", "answered"},
   op : {None, "GET", "POST", "PUT", "PATCH", "DELETE", "LIST"},
   user : Names \cup {None}, arg : Partials \cup Filters \cup {None},
   got : Views \cup {None}, tries : 0..MaxTries, applied : BOOLEAN,
   ans : {None, "ok", "invalid", "notFound", "failed"}]

ListType == [left : SUBSET Users, out : SUBSET Users,
             came : SUBSET Users, stay : SUBSET Users]

TypeOK ==
  /\ vault \in [Users -> Secrets]
  /\ req \in [Reqs -> ReqType]
  /\ list \in [Reqs -> ListType]

(* Whatever requests, retries and restarts there are, the SFTP server can  *)
(* load every record the API has written, and reads in it what the API     *)
(* shows, and no quotas but its defaults.  A record that is not so is one  *)
(* an operator wrote (main.go:203, 295-314 and 378-400, vault.go:109-151,  *)
(* 184-207 and 232-262).                                                   *)
Served(v) == [disabled |-> v.disabled, rootSubdir |-> v.rootSubdir,
              publicKeys |-> v.publicKeys, quotas |-> Unset]

ServerAgrees ==
  \A u \in Users : \/ vault[u] \in OperatorWrites \cup {None}
                   \/ ServerReads(u, vault[u]) = Served(Decode(vault[u]))

(* Why: it has a proper root directory and keys that are worth the name.   *)
Usable(raw) ==
  /\ raw \in Raws /\ raw.disabled \in BOOLEAN /\ raw.keysAre = "list"
  /\ raw.rootSubdir \in Users /\ raw.quotas = Unset
  /\ raw.publicKeys # {} /\ raw.publicKeys \cap {Blank, Malformed} = {}

StoredUsable ==
  \A u \in Users : vault[u] \in OperatorWrites \cup {None} \/ Usable(vault[u])

(* Names and records are read one by one while users change; still nobody *)
(* is listed who fitted the filter at no moment of it, and, unless the     *)
(* listing is cut off at its limit, nobody is left out who was there and   *)
(* fitted all along (main.go:427-487).                                     *)
ListingExact ==
  \A r \in Reqs : req[r].op = "LIST" /\ req[r].ans = "ok" =>
    /\ list[r].out \subseteq list[r].came \cap req[r].arg.match
    /\ Cardinality(list[r].out) <= req[r].arg.limit
    /\ list[r].stay \subseteq list[r].out \/ Cardinality(list[r].out) = req[r].arg.limit

(* What a PATCH p makes of a user's record, as the server reads the two.   *)
Named(u, p, new) ==
  /\ p.disabled # Unset => new.disabled = p.disabled
  /\ p.rootSubdir # Unset => RootOf(u, new.rootSubdir) = RootOf(u, p.rootSubdir)
  /\ p.publicKeys # Unset => AsStringSlice(new) = p.publicKeys \ {Blank}

Spared(u, p, old, new) ==
  /\ p.disabled = Unset => AsBool(new.disabled) = AsBool(old.disabled)
  /\ p.rootSubdir = Unset => RootOf(u, new.rootSubdir) = RootOf(u, old.rootSubdir)
  /\ p.publicKeys = Unset => AsStringSlice(new) = AsStringSlice(old)

PatchWrites(r) == req[r].op = "PATCH" /\ req[r].pc = "write" /\ req'[r] # req[r]

(* PATCH is a partial update: of the record as it is when it is written,   *)
(* it changes the fields it names and no other (main.go:169, 28-29).       *)
PatchIsPartial ==
  [][\A r \in Reqs : PatchWrites(r) =>
       LET u == req[r].user IN
       vault'[u] # vault[u] =>
         /\ vault[u] \in Raws
         /\ Named(u, req[r].arg, vault'[u]) /\ Spared(u, req[r].arg, vault[u], vault'[u])
         /\ vault'[u].quotas = vault[u].quotas]_apiVars

(* What holds of that where requests do not overlap: the named fields take *)
(* their values and the others keep what the server reads in them, an      *)
(* empty root directory for the user's own; but the quotas are lost, and   *)
(* so is a "disabled" that is no JSON true (main.go:192-216, 342-350, 379).*)
PatchSparesTheRest ==
  [][\A r \in Reqs : PatchWrites(r) =>
       LET u == req[r].user
           old == vault[u]
       IN vault'[u] # old =>
            /\ old \in Raws
            /\ Named(u, req[r].arg, vault'[u])
            /\ old.disabled # Text => Spared(u, req[r].arg, old, vault'[u])]_apiVars

(* Where requests that change a user do not overlap, the API is the        *)
(* directory it promises to be: each takes effect once, at one moment, as  *)
(* a whole, and answers with what the directory then holds, whatever is    *)
(* lost, repeated or restarted in between (main.go:113-229).               *)
Asked(r) ==
  LET q == req[r] IN
  [pc   |-> IF q.pc = "answered" THEN "answered" ELSE IF q.applied THEN "took" ELSE "called",
   kind |-> IF q.op = "POST" THEN "PUT" ELSE q.op, user |-> q.user, arg |-> q.arg, ans |-> q.ans,
   got  |-> IF q.op = "GET" THEN q.got ELSE None]

Directory == INSTANCE UserDirectory WITH
  dir <- [u \in Users |-> IF vault[u] \in Raws THEN Decode(vault[u]) ELSE vault[u]],
  op  <- [r \in Reqs |->
            IF req[r].op \in {None, "LIST"}
            THEN [pc |-> "free", kind |-> None, user |-> None, arg |-> None, ans |-> None, got |-> None]
            ELSE Asked(r)]

ImplementsDirectory == Directory!Spec
==============================================================================
