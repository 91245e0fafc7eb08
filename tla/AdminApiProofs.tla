--------------------------- MODULE AdminApiProofs ----------------------------
(***************************************************************************)
(* Theorems about AdminApi, for all users, requests, records and numbers   *)
(* of retries, whether or not requests overlap.                            *)
(***************************************************************************)
EXTENDS AdminApi, FiniteSetTheorems, TLAPS

(* What each stage of a handler knows of its request.                      *)
Stage(r) ==
  LET q == req[r] IN
  /\ q.op \in {"POST", "PUT"} => q.arg \in Bodies
  /\ q.op = "PATCH" => q.arg \in Patches
  /\ q.op = "LIST" => q.arg \in Filters
  /\ q.pc \in {"names", "items"} => q.op = "LIST"
  /\ q.pc \in {"read", "write", "delete"} => q.op # "LIST" /\ q.user \in Users
  /\ q.pc = "write" => q.got \in Views /\ Usable(Encode(q.got))
  /\ q.pc # "answered" => q.ans = None /\ q.tries < MaxTries

(* A listing under way has all who stayed in what is listed or left.       *)
UnderWay(r) ==
  LET l == list[r] f == req[r].arg IN
  /\ IsFiniteSet(l.out) /\ Cardinality(l.out) < f.limit
  /\ l.out \subseteq l.came \cap f.match
  /\ l.stay \subseteq l.out \cup l.left
  /\ \A u \in l.stay : Listed(f, u, vault[u])
  /\ \A u \in Users : Listed(f, u, vault[u]) => u \in l.came

Exact(r) ==
  LET l == list[r] f == req[r].arg IN
  /\ l.out \subseteq l.came \cap f.match
  /\ Cardinality(l.out) <= f.limit
  /\ l.stay \subseteq l.out \/ Cardinality(l.out) = f.limit

Tracked(r) ==
  /\ req[r].pc = "items" => UnderWay(r)
  /\ req[r].op = "LIST" /\ req[r].ans = "ok" => Exact(r)

IInv == TypeOK /\ StoredUsable /\ \A r \in Reqs : Stage(r) /\ Tracked(r)

(* A record read is a User, one merged into it a User again.               *)
LEMMA Conversions ==
  /\ Views \subseteq Partials
  /\ \A raw \in Raws : Decode(raw) \in Views
  /\ \A v \in Views : Encode(v) \in Raws
  /\ \A v \in Views, p \in Partials : Merge(v, p) \in Views
BY RecordsAssumption DEF Views, Partials, Raws, Decode, Encode, Merge, Given

(* What passes the checks may be stored.                                   *)
LEMMA ValidUsable ==
  ASSUME NEW u, NEW v \in Views, Valid(u, Normalize(u, v))
  PROVE  /\ u \in Users
         /\ Normalize(u, v) \in Views
         /\ Usable(Encode(Normalize(u, v)))
<1> DEFINE n == Normalize(u, v)
<1>1. u \in Users
  BY DEF Valid
<1>2. /\ n.rootSubdir = IF v.rootSubdir = Empty THEN u ELSE v.rootSubdir
      /\ n.publicKeys = v.publicKeys \ {Blank}
  BY DEF Normalize, RootOf
<1>3. n \in Views
  BY <1>1 DEF Normalize, RootOf, Views, Roots
<1>4. n.rootSubdir \in Users
  BY <1>1, <1>2, RecordsAssumption DEF Views, Roots, Valid
<1>5. n.publicKeys # {} /\ n.publicKeys \cap {Blank, Malformed} = {}
  BY <1>2 DEF Valid
<1>6. QED
  BY <1>1, <1>3, <1>4, <1>5, Conversions DEF Usable, Encode, Views

(* A step of one request that leaves Vault alone.                          *)
LEMMA OneRequest ==
  ASSUME IInv, NEW r \in Reqs, NEW k \in ReqType, NEW l \in ListType,
         req' = [req EXCEPT ![r] = k], list' = [list EXCEPT ![r] = l],
         UNCHANGED vault, Stage(r)', Tracked(r)'
  PROVE  IInv'
<1>1. TypeOK' /\ StoredUsable'
  BY DEF IInv, TypeOK, StoredUsable
<1>2. \A q \in Reqs \ {r} : req'[q] = req[q] /\ list'[q] = list[q]
  BY DEF IInv, TypeOK
<1>3. \A q \in Reqs \ {r} : Stage(q)' /\ Tracked(q)'
  BY <1>2 DEF IInv, Stage, Tracked, UnderWay, Exact
<1>4. QED
  BY <1>1, <1>3 DEF IInv

(* One that makes no listing begin or end well needs no look at it.        *)
LEMMA OnlyRequest ==
  ASSUME IInv, NEW r \in Reqs, NEW k \in ReqType, req' = [req EXCEPT ![r] = k],
         UNCHANGED <<vault, list>>, Stage(r)',
         k.pc # "items", ~(k.op = "LIST" /\ k.ans = "ok")
  PROVE  IInv'
<1>1. req'[r] = k
  BY DEF IInv, TypeOK
<1>2. Tracked(r)'
  BY <1>1 DEF Tracked
<1>3. list[r] \in ListType /\ list' = [list EXCEPT ![r] = list[r]]
  BY DEF IInv, TypeOK
<1>4. QED
  BY <1>2, <1>3, OneRequest

(* Vault changes, under every listing's eyes.                              *)
LEMMA VaultChanges ==
  ASSUME IInv, NEW u \in Users, NEW raw \in Secrets,
         raw \in OperatorWrites \cup {None} \/ Usable(raw),
         vault' = [vault EXCEPT ![u] = raw], Watch(u, raw),
         req' \in [Reqs -> ReqType], \A q \in Reqs : Stage(q)',
         \A q \in Reqs : \/ req'[q] = req[q]
                         \/ req[q].pc # "items" /\ req'[q].pc # "items" /\ req'[q].op # "LIST"
  PROVE  IInv'
<1>1. vault' \in [Users -> Secrets] /\ StoredUsable'
  BY DEF IInv, TypeOK, StoredUsable
<1>2. ASSUME NEW q \in Reqs
      PROVE  list'[q] \in ListType /\ Tracked(q)'
  <2>1. CASE req[q].pc # "items"
    <3>1. list'[q] = list[q] /\ req'[q].pc # "items"
      BY <2>1 DEF Watch
    <3>2. QED
      BY <3>1 DEF IInv, TypeOK, Tracked, Exact
  <2>2. CASE req[q].pc = "items"
    <3> DEFINE f == req[q].arg
    <3>1. req'[q] = req[q] /\ UnderWay(q) /\ list[q] \in ListType
      BY <2>2 DEF IInv, Tracked, TypeOK
    <3>2. list'[q] = IF Listed(f, u, raw) THEN [list[q] EXCEPT !.came = @ \cup {u}]
                     ELSE [list[q] EXCEPT !.stay = @ \ {u}]
      BY <2>2 DEF Watch
    <3>3. /\ list'[q] \in ListType
          /\ list'[q].out = list[q].out /\ list'[q].left = list[q].left
          /\ list'[q].came = IF Listed(f, u, raw) THEN list[q].came \cup {u} ELSE list[q].came
          /\ list'[q].stay = IF Listed(f, u, raw) THEN list[q].stay ELSE list[q].stay \ {u}
      BY <3>1, <3>2 DEF ListType
    <3>4. vault'[u] = raw /\ \A v \in Users \ {u} : vault'[v] = vault[v]
      BY DEF IInv, TypeOK
    <3>5. \A v \in list'[q].stay : Listed(f, v, vault'[v])
      BY <3>1, <3>3, <3>4 DEF UnderWay, ListType
    <3>6. \A v \in Users : Listed(f, v, vault'[v]) => v \in list'[q].came
      BY <3>1, <3>3, <3>4 DEF UnderWay
    <3>7. UnderWay(q)'
      BY <3>1, <3>3, <3>5, <3>6 DEF UnderWay, Listed, Passes
    <3>8. req'[q].ans # "ok"
      BY <2>2, <3>1, ApiAssumption DEF IInv, Stage
    <3>9. QED
      BY <3>3, <3>7, <3>8 DEF Tracked
  <2>3. QED
    BY <2>1, <2>2
<1>3. list' \in [Reqs -> ListType]
  BY <1>2 DEF Watch
<1>4. QED
  BY <1>1, <1>2, <1>3 DEF IInv, TypeOK

(* The two ways a handler's stage is left.                                 *)
LEMMA GoesOn ==
  ASSUME IInv, NEW r \in Reqs, NEW got \in Views \cup {None},
         NEW pc \in {"read", "write", "delete", "names", "items"}, Goes(r, pc, got)
  PROVE  \E k \in ReqType :
           /\ req' = [req EXCEPT ![r] = k] /\ req'[r] = k
           /\ k.pc = pc /\ k.got = got /\ k.ans = req[r].ans /\ k.op = req[r].op
           /\ k.arg = req[r].arg /\ k.user = req[r].user /\ k.tries = req[r].tries
           /\ k.applied = req[r].applied
<1> DEFINE k == [req[r] EXCEPT !.pc = pc, !.got = got]
<1>1. req[r] \in ReqType /\ req \in [Reqs -> ReqType]
  BY DEF IInv, TypeOK
<1>2. k \in ReqType
  BY <1>1 DEF ReqType
<1>3. /\ k.pc = pc /\ k.got = got /\ k.ans = req[r].ans /\ k.op = req[r].op
      /\ k.arg = req[r].arg /\ k.user = req[r].user /\ k.tries = req[r].tries
      /\ k.applied = req[r].applied
  BY <1>1 DEF ReqType
<1>4. req' = [req EXCEPT ![r] = k]
  BY <1>1 DEF Goes
<1> HIDE DEF k
<1>5. QED
  BY <1>1, <1>2, <1>3, <1>4

LEMMA AnswersWith ==
  ASSUME IInv, NEW r \in Reqs, NEW got \in Views \cup {None},
         NEW ans \in {"ok", "invalid", "notFound", "failed"}, Answers(r, ans, got)
  PROVE  \E k \in ReqType :
           /\ req' = [req EXCEPT ![r] = k] /\ req'[r] = k
           /\ k.pc = "answered" /\ k.ans = ans /\ k.op = req[r].op /\ k.arg = req[r].arg
           /\ k.user = req[r].user /\ k.got = got
<1> DEFINE k == [req[r] EXCEPT !.pc = "answered", !.ans = ans, !.got = got]
<1>1. req[r] \in ReqType /\ req \in [Reqs -> ReqType]
  BY DEF IInv, TypeOK
<1>2. k \in ReqType
  BY <1>1 DEF ReqType
<1>3. /\ k.pc = "answered" /\ k.ans = ans /\ k.op = req[r].op /\ k.arg = req[r].arg
      /\ k.user = req[r].user /\ k.got = got
  BY <1>1 DEF ReqType
<1>4. req' = [req EXCEPT ![r] = k]
  BY <1>1 DEF Answers
<1> HIDE DEF k
<1>5. QED
  BY <1>1, <1>2, <1>3, <1>4

(* A handler answers: nothing more is asked of its request, unless it is   *)
(* a listing that ended well.                                              *)
LEMMA AnswerKeeps ==
  ASSUME IInv, NEW r \in Reqs, NEW got \in Views \cup {None},
         NEW ans \in {"ok", "invalid", "notFound", "failed"},
         ans = "ok" => req[r].op # "LIST",
         Answers(r, ans, got), UNCHANGED <<vault, list>>
  PROVE  IInv'
<1>1. PICK k \in ReqType :
        /\ req' = [req EXCEPT ![r] = k] /\ req'[r] = k
        /\ k.pc = "answered" /\ k.ans = ans /\ k.op = req[r].op /\ k.arg = req[r].arg
  BY AnswersWith
<1>2. Stage(r)'
  BY <1>1 DEF IInv, Stage
<1>3. QED
  BY <1>1, <1>2, OnlyRequest

(* A handler goes on to its next stage.                                    *)
LEMMA GoingKeeps ==
  ASSUME IInv, NEW r \in Reqs, NEW pc \in {"read", "write", "delete", "names"},
         NEW got \in Views \cup {None}, req[r].pc # "answered",
         pc = "names" => req[r].op = "LIST",
         pc # "names" => req[r].op # "LIST" /\ req[r].user \in Users,
         pc = "write" => got \in Views /\ Usable(Encode(got)),
         Goes(r, pc, got), UNCHANGED <<vault, list>>
  PROVE  IInv'
<1>1. PICK k \in ReqType :
        /\ req' = [req EXCEPT ![r] = k] /\ req'[r] = k
        /\ k.pc = pc /\ k.got = got /\ k.ans = req[r].ans /\ k.op = req[r].op
        /\ k.arg = req[r].arg /\ k.user = req[r].user /\ k.tries = req[r].tries
  BY GoesOn
<1>2. Stage(r)'
  BY <1>1 DEF IInv, Stage
<1>3. k.ans # "ok"
  BY <1>1, ApiAssumption DEF IInv, Stage
<1>4. QED
  BY <1>1, <1>2, <1>3, OnlyRequest

LEMMA WriteIfValidKeeps ==
  ASSUME IInv, NEW r \in Reqs, NEW v \in Views, req[r].pc # "answered", req[r].op # "LIST",
         WriteIfValid(r, v), UNCHANGED <<vault, list>>
  PROVE  IInv'
<1> DEFINE n == Normalize(req[r].user, v)
<1>1. CASE Valid(req[r].user, n)
  <2>1. n \in Views /\ Usable(Encode(n)) /\ req[r].user \in Users
    BY <1>1, ValidUsable
  <2>2. Goes(r, "write", n)
    BY <1>1 DEF WriteIfValid
  <2>3. QED
    BY <2>1, <2>2, GoingKeeps
<1>2. CASE ~Valid(req[r].user, n)
  <2>1. Answers(r, "invalid", None)
    BY <1>2 DEF WriteIfValid
  <2>2. QED
    BY <2>1, AnswerKeeps
<1>3. QED
  BY <1>1, <1>2

LEMMA ReceiveKeeps ==
  ASSUME IInv, NEW r \in Reqs, Receive(r)
  PROVE  IInv'
<1>1. ASSUME NEW o \in {"GET", "POST", "PUT", "PATCH", "DELETE", "LIST"},
             NEW u \in Names \cup {None}, NEW a \in Partials \cup Filters \cup {None},
             o \in {"POST", "PUT"} => a \in Bodies,
             o = "PATCH" => a \in Patches,
             o = "LIST" => a \in Filters,
             Start(r, o, u, a)
      PROVE  IInv'
  <2> DEFINE k == [Idle EXCEPT !.pc = "received", !.op = o, !.user = u, !.arg = a]
  <2>1. /\ k \in ReqType
        /\ k.pc = "received" /\ k.op = o /\ k.user = u /\ k.arg = a
        /\ k.tries = 0 /\ k.ans = None
    <3>1. Idle \in ReqType /\ Idle.tries = 0 /\ Idle.ans = None
      BY ApiAssumption DEF Idle, ReqType
    <3>2. /\ k.pc = "received" /\ k.op = o /\ k.user = u /\ k.arg = a
          /\ k.tries = 0 /\ k.ans = None
      BY <3>1 DEF ReqType
    <3>3. ASSUME NEW q \in ReqType
          PROVE  [q EXCEPT !.pc = "received", !.op = o, !.user = u, !.arg = a] \in ReqType
      BY DEF ReqType
    <3>4. k \in ReqType
      BY <3>1, <3>3
    <3>5. QED
      BY <3>2, <3>4
  <2>2. req' = [req EXCEPT ![r] = k] /\ req'[r] = k /\ UNCHANGED <<vault, list>>
    BY <1>1 DEF Start, IInv, TypeOK
  <2> HIDE DEF k
  <2>3. Stage(r)'
    BY <1>1, <2>1, <2>2, ApiAssumption DEF Stage
  <2>4. k.pc # "items" /\ k.ans # "ok"
    BY <2>1, ApiAssumption
  <2>5. QED
    BY <2>1, <2>2, <2>3, <2>4, OnlyRequest
<1>2. Bodies \subseteq Partials /\ Patches \subseteq Partials
  BY Conversions, ApiAssumption
<1>3. QED
  BY <1>1, <1>2 DEF Receive, Names

LEMMA ValidateKeeps ==
  ASSUME IInv, NEW r \in Reqs, Validate(r)
  PROVE  IInv'
<1>1. req[r].pc = "received" /\ UNCHANGED <<vault, list>>
  BY DEF Validate
<1>2. CASE req[r].op \in {"POST", "PUT"} /\ WriteIfValid(r, req[r].arg)
  <2>1. req[r].arg \in Views /\ req[r].op # "LIST"
    BY <1>2, ApiAssumption DEF IInv, Stage
  <2>2. QED
    BY <1>1, <1>2, <2>1, WriteIfValidKeeps
<1>3. CASE /\ req[r].op \in {"GET", "PATCH", "DELETE"}
           /\ IF req[r].user \in Users THEN Goes(r, "read", None) ELSE Answers(r, "invalid", None)
  BY <1>1, <1>3, GoingKeeps, AnswerKeeps
<1>4. CASE req[r].op = "LIST" /\ Goes(r, "names", None)
  BY <1>1, <1>4, GoingKeeps
<1>5. QED
  BY <1>2, <1>3, <1>4 DEF Validate

LEMMA ReadKeeps ==
  ASSUME IInv, NEW r \in Reqs, Read(r)
  PROVE  IInv'
<1> DEFINE raw == vault[req[r].user]
<1>1. /\ req[r].pc = "read" /\ UNCHANGED <<vault, list>>
      /\ req[r].op # "LIST" /\ req[r].user \in Users
  BY DEF Read, IInv, Stage
<1>2. CASE Answers(r, "failed", None) \/ Answers(r, "notFound", None)
  BY <1>1, <1>2, AnswerKeeps
<1>3. CASE raw \in Raws /\ Found(r, Decode(raw))
  <2>1. Decode(raw) \in Views
    BY <1>3, Conversions
  <2>2. CASE req[r].op = "GET" /\ Answers(r, "ok", Decode(raw))
    BY <1>1, <2>1, <2>2, AnswerKeeps
  <2>3. CASE req[r].op = "PATCH" /\ WriteIfValid(r, Merge(Decode(raw), req[r].arg))
    <3>1. req[r].arg \in Partials
      BY <2>3, ApiAssumption DEF IInv, Stage
    <3>2. Merge(Decode(raw), req[r].arg) \in Views
      BY <2>1, <3>1, Conversions
    <3>3. QED
      BY <1>1, <2>3, <3>2, WriteIfValidKeeps
  <2>4. CASE req[r].op = "DELETE" /\ Goes(r, "delete", None)
    BY <1>1, <2>4, GoingKeeps
  <2>5. QED
    BY <1>3, <2>2, <2>3, <2>4 DEF Found
<1>4. QED
  BY <1>2, <1>3 DEF Read

(* One attempt leaves the request as it was or answered, and counted.      *)
LEMMA TriedOnce ==
  ASSUME IInv, NEW r \in Reqs, NEW reached \in BOOLEAN,
         req[r].pc \in {"write", "delete"},
         \/ Again(r) /\ req' = [req EXCEPT ![r] = Tried(r, reached)]
         \/ \E ans \in {"ok", "failed"} :
              req' = [req EXCEPT ![r] = [Tried(r, reached) EXCEPT !.pc = "answered", !.ans = ans]]
  PROVE  \E k \in ReqType :
           /\ req' = [req EXCEPT ![r] = k] /\ req'[r] = k
           /\ k.pc # "items" /\ k.op # "LIST"
           /\ Stage(r)'
<1> DEFINE t == Tried(r, reached)
<1>1. /\ req[r] \in ReqType /\ req \in [Reqs -> ReqType]
      /\ req[r].tries \in 0..MaxTries /\ req[r].tries < MaxTries /\ MaxTries \in Nat
      /\ req[r].op # "LIST"
  BY ApiAssumption DEF IInv, TypeOK, Stage, ReqType
<1>2. req[r].tries + 1 \in 0..MaxTries /\ (req[r].applied \/ reached) \in BOOLEAN
  BY <1>1
<1>3. /\ t \in ReqType
      /\ t.pc = req[r].pc /\ t.op = req[r].op /\ t.user = req[r].user /\ t.arg = req[r].arg
      /\ t.got = req[r].got /\ t.ans = req[r].ans /\ t.tries = req[r].tries + 1
  BY <1>1, <1>2 DEF Tried, ReqType
<1> HIDE DEF t
<1>4. CASE Again(r) /\ req' = [req EXCEPT ![r] = t]
  <2>1. req'[r] = t
    BY <1>1, <1>4
  <2>2. Stage(r)'
    BY <1>1, <1>3, <1>4, <2>1 DEF IInv, Stage, Again
  <2>3. QED
    BY <1>1, <1>3, <1>4, <2>1, <2>2
<1>5. ASSUME NEW ans \in {"ok", "failed"},
             req' = [req EXCEPT ![r] = [t EXCEPT !.pc = "answered", !.ans = ans]]
      PROVE  \E k \in ReqType :
               /\ req' = [req EXCEPT ![r] = k] /\ req'[r] = k
               /\ k.pc # "items" /\ k.op # "LIST"
               /\ Stage(r)'
  <2> DEFINE k == [t EXCEPT !.pc = "answered", !.ans = ans]
  <2>1. /\ k \in ReqType /\ k.pc = "answered" /\ k.op = t.op /\ k.arg = t.arg
    BY <1>3 DEF ReqType
  <2>2. req' = [req EXCEPT ![r] = k]
    BY <1>5
  <2> HIDE DEF k
  <2>3. req'[r] = k
    BY <1>1, <2>2
  <2>4. Stage(r)'
    BY <1>3, <2>1, <2>3 DEF IInv, Stage
  <2>5. QED
    BY <1>1, <1>3, <2>1, <2>2, <2>3, <2>4
<1>6. QED
  BY <1>4, <1>5 DEF t

LEMMA AttemptKeeps ==
  ASSUME IInv, NEW r \in Reqs, NEW raw \in Secrets, raw = None \/ Usable(raw),
         req[r].pc \in {"write", "delete"}, Attempt(r, raw)
  PROVE  IInv'
<1> DEFINE u == req[r].user
<1>1. u \in Users
  BY DEF IInv, Stage
<1>2. CASE /\ vault' = [vault EXCEPT ![u] = raw]
           /\ Watch(u, raw)
           /\ \/ Again(r) /\ req' = [req EXCEPT ![r] = Tried(r, TRUE)]
              \/ \E ans \in {"ok", "failed"} :
                   req' = [req EXCEPT ![r] = [Tried(r, TRUE) EXCEPT !.pc = "answered", !.ans = ans]]
  <2>1. PICK k \in ReqType : /\ req' = [req EXCEPT ![r] = k] /\ req'[r] = k
                             /\ k.pc # "items" /\ k.op # "LIST"
                             /\ Stage(r)'
    BY <1>2, TriedOnce
  <2>2. req' \in [Reqs -> ReqType] /\ \A q \in Reqs \ {r} : req'[q] = req[q]
    BY <2>1 DEF IInv, TypeOK
  <2>3. \A q \in Reqs : Stage(q)'
    BY <2>1, <2>2 DEF IInv, Stage
  <2>4. QED
    BY <1>1, <1>2, <2>1, <2>2, <2>3, VaultChanges
<1>3. CASE /\ \/ Again(r) /\ req' = [req EXCEPT ![r] = Tried(r, FALSE)]
              \/ \E ans \in {"ok", "failed"} :
                   req' = [req EXCEPT ![r] = [Tried(r, FALSE) EXCEPT !.pc = "answered", !.ans = ans]]
           /\ UNCHANGED <<vault, list>>
  <2>1. PICK k \in ReqType : /\ req' = [req EXCEPT ![r] = k] /\ req'[r] = k
                             /\ k.pc # "items" /\ k.op # "LIST"
                             /\ Stage(r)'
    BY <1>3, TriedOnce
  <2>2. QED
    BY <1>3, <2>1, OnlyRequest
<1>4. QED
  BY <1>2, <1>3 DEF Attempt

LEMMA WriteKeeps ==
  ASSUME IInv, NEW r \in Reqs, Write(r) \/ Delete(r)
  PROVE  IInv'
<1>1. CASE Write(r)
  <2>1. /\ req[r].pc = "write" /\ Attempt(r, Encode(req[r].got))
        /\ req[r].got \in Views /\ Usable(Encode(req[r].got))
    BY <1>1 DEF Write, IInv, Stage
  <2>2. Encode(req[r].got) \in Secrets
    BY <2>1, Conversions DEF Secrets
  <2>3. QED
    BY <2>1, <2>2, AttemptKeeps
<1>2. CASE Delete(r)
  BY <1>2, AttemptKeeps DEF Delete, Secrets
<1>3. QED
  BY <1>1, <1>2
-------------------------------------------------------------------------------
(* The names are read: all who fit are among them and still to be read.    *)
LEMMA ListNamesKeeps ==
  ASSUME IInv, NEW r \in Reqs, ListNames(r)
  PROVE  IInv'
<1> DEFINE f == req[r].arg
           names == {u \in f.match : vault[u] # None}
           fit == {u \in Users : Listed(f, u, vault[u])}
           l == [left |-> names, out |-> {}, came |-> fit, stay |-> fit]
<1>1. /\ req[r].pc = "names" /\ req[r].op = "LIST" /\ UNCHANGED vault
      /\ f.match \subseteq Users /\ f.limit \in Nat /\ f.limit > 0
  BY ApiAssumption DEF ListNames, IInv, Stage
<1>2. CASE Answers(r, "failed", None) /\ UNCHANGED list
  BY <1>1, <1>2, AnswerKeeps
<1>3. CASE /\ IF names = {} THEN Answers(r, "ok", None) ELSE Goes(r, "items", None)
           /\ list' = [list EXCEPT ![r] = l]
  <2>1. fit \subseteq names
    BY SecretsAssumption DEF Listed, Passes
  <2>2. /\ l \in ListType /\ list'[r] = l
        /\ l.left = names /\ l.out = {} /\ l.came = fit /\ l.stay = fit
    BY <1>1, <1>3 DEF ListType, IInv, TypeOK
  <2> HIDE DEF l
  <2>3. IsFiniteSet({}) /\ Cardinality({}) = 0
    BY FS_EmptySet
  <2>4. CASE names = {} /\ Answers(r, "ok", None)
    <3>1. PICK k \in ReqType :
            /\ req' = [req EXCEPT ![r] = k] /\ req'[r] = k
            /\ k.pc = "answered" /\ k.ans = "ok" /\ k.op = req[r].op /\ k.arg = req[r].arg
      BY <2>4, AnswersWith
    <3>2. Stage(r)'
      BY <3>1 DEF IInv, Stage
    <3>3. Exact(r)'
      BY <1>1, <2>1, <2>2, <2>3, <2>4, <3>1 DEF Exact
    <3>4. Tracked(r)'
      BY <3>1, <3>3 DEF Tracked
    <3>5. QED
      BY <1>1, <1>3, <2>2, <3>1, <3>2, <3>4, OneRequest
  <2>5. CASE names # {} /\ Goes(r, "items", None)
    <3>1. PICK k \in ReqType :
            /\ req' = [req EXCEPT ![r] = k] /\ req'[r] = k
            /\ k.pc = "items" /\ k.got = None /\ k.ans = req[r].ans /\ k.op = req[r].op
            /\ k.arg = req[r].arg /\ k.user = req[r].user /\ k.tries = req[r].tries
      BY <2>5, GoesOn
    <3>2. Stage(r)'
      BY <1>1, <3>1 DEF IInv, Stage
    <3>3. UnderWay(r)'
      BY <1>1, <2>1, <2>2, <2>3, <3>1 DEF UnderWay, Listed, Passes
    <3>4. k.ans # "ok"
      BY <1>1, <3>1, ApiAssumption DEF IInv, Stage
    <3>5. Tracked(r)'
      BY <3>1, <3>3, <3>4 DEF Tracked
    <3>6. QED
      BY <1>1, <1>3, <2>2, <3>1, <3>2, <3>5, OneRequest
  <2>6. QED
    BY <1>3, <2>4, <2>5
<1>4. QED
  BY <1>2, <1>3 DEF ListNames

(* A turn of the loop: who stayed and is read now is listed.               *)
LEMMA ListItemKeeps ==
  ASSUME IInv, NEW r \in Reqs, NEW u \in Users, ListItem(r, u)
  PROVE  IInv'
<1> DEFINE f == req[r].arg
           left == list[r].left \ {u}
           out == list[r].out \cup {v \in {u} : Listed(f, v, vault[v])}
           l == [list[r] EXCEPT !.left = left, !.out = out]
<1>1. /\ req[r].pc = "items" /\ req[r].op = "LIST" /\ UNCHANGED vault
      /\ f.match \subseteq Users /\ f.limit \in Nat
      /\ list[r] \in ListType /\ req[r] \in ReqType /\ UnderWay(r)
  BY ApiAssumption DEF ListItem, IInv, Stage, Tracked, TypeOK
<1>2. CASE Answers(r, "failed", None) /\ UNCHANGED list
  BY <1>1, <1>2, AnswerKeeps
<1>3. CASE /\ list' = [list EXCEPT ![r].left = left, ![r].out = out]
           /\ IF left = {} \/ Full(f, out) THEN Answers(r, "ok", None) ELSE UNCHANGED req
  <2>1. /\ out = list[r].out \/ out = list[r].out \cup {u}
        /\ out \subseteq Users
        /\ out \subseteq list[r].came \cap f.match
        /\ list[r].stay \subseteq out \cup left
    BY <1>1 DEF UnderWay, Listed, Passes, ListType
  <2>2. /\ IsFiniteSet(out) /\ Cardinality(out) \in Nat
        /\ Cardinality(out) <= f.limit
    <3>1. IsFiniteSet(list[r].out) /\ Cardinality(list[r].out) < f.limit
      BY <1>1 DEF UnderWay
    <3>2. Cardinality(list[r].out) \in Nat
      BY <3>1, FS_CardinalityType
    <3>3. /\ IsFiniteSet(list[r].out \cup {u})
          /\ \/ Cardinality(list[r].out \cup {u}) = Cardinality(list[r].out)
             \/ Cardinality(list[r].out \cup {u}) = Cardinality(list[r].out) + 1
      BY <3>1, FS_AddElement
    <3>4. CASE out = list[r].out
      BY <1>1, <3>1, <3>2, <3>4
    <3>5. CASE out = list[r].out \cup {u}
      <4> HIDE DEF out
      <4>1. IsFiniteSet(out) /\ Cardinality(out) \in Nat
        BY <3>3, <3>5, FS_CardinalityType
      <4>2. Cardinality(out) <= f.limit
        BY <1>1, <3>1, <3>2, <3>3, <3>5
      <4>3. QED
        BY <4>1, <4>2
    <3>6. QED
      BY <2>1, <3>4, <3>5
  <2>3. /\ l \in ListType
        /\ l.left = left /\ l.out = out /\ l.came = list[r].came /\ l.stay = list[r].stay
    BY <1>1, <2>1 DEF ListType
  <2>4. list' = [list EXCEPT ![r] = l]
    BY <1>1, <1>3 DEF IInv, TypeOK
  <2> HIDE DEF l
  <2>5. list'[r] = l
    BY <2>4 DEF IInv, TypeOK
  <2>6. CASE (left = {} \/ Full(f, out)) /\ Answers(r, "ok", None)
    <3>1. PICK k \in ReqType :
            /\ req' = [req EXCEPT ![r] = k] /\ req'[r] = k
            /\ k.pc = "answered" /\ k.ans = "ok" /\ k.op = req[r].op /\ k.arg = req[r].arg
      BY <2>6, AnswersWith
    <3>2. Stage(r)'
      BY <3>1 DEF IInv, Stage
    <3>3. list[r].stay \subseteq out \/ Cardinality(out) = f.limit
      BY <1>1, <2>1, <2>2, <2>6 DEF Full
    <3>4. Exact(r)'
      BY <2>1, <2>2, <2>3, <2>5, <3>1, <3>3 DEF Exact
    <3>5. Tracked(r)'
      BY <3>1, <3>4 DEF Tracked
    <3>6. QED
      BY <1>1, <2>3, <2>4, <3>1, <3>2, <3>5, OneRequest
  <2>7. CASE ~(left = {} \/ Full(f, out)) /\ UNCHANGED req
    <3>1. Cardinality(out) < f.limit
      BY <1>1, <2>2, <2>7 DEF Full
    <3>2. UnderWay(r)'
      BY <1>1, <2>1, <2>2, <2>3, <2>5, <2>7, <3>1 DEF UnderWay, Listed, Passes
    <3>3. req'[r].ans # "ok"
      BY <1>1, <2>7, ApiAssumption DEF IInv, Stage
    <3>4. Stage(r)' /\ Tracked(r)'
      BY <1>1, <2>7, <3>2, <3>3 DEF IInv, Stage, Tracked
    <3>5. req' = [req EXCEPT ![r] = req[r]]
      BY <2>7 DEF IInv, TypeOK
    <3>6. QED
      BY <1>1, <2>3, <2>4, <3>4, <3>5, OneRequest
  <2>8. QED
    BY <1>3, <2>6, <2>7
<1>4. QED
  BY <1>2, <1>3 DEF ListItem

LEMMA IdleFits ==
  /\ Idle \in ReqType /\ NoList \in ListType
  /\ Idle.pc = "idle" /\ Idle.op = None /\ Idle.ans = None /\ Idle.tries = 0
BY ApiAssumption DEF Idle, NoList, ReqType, ListType

LEMMA RespondKeeps ==
  ASSUME IInv, NEW r \in Reqs, Respond(r)
  PROVE  IInv'
<1>1. /\ req' = [req EXCEPT ![r] = Idle] /\ list' = [list EXCEPT ![r] = NoList]
      /\ UNCHANGED vault /\ req'[r] = Idle
  BY DEF Respond, IInv, TypeOK
<1>2. Stage(r)' /\ Tracked(r)'
  BY <1>1, IdleFits, ApiAssumption DEF Stage, Tracked
<1>3. QED
  BY <1>1, <1>2, IdleFits, OneRequest

LEMMA RestartKeeps ==
  ASSUME IInv, Restart
  PROVE  IInv'
<1>1. TypeOK' /\ StoredUsable'
  BY IdleFits DEF Restart, IInv, TypeOK, StoredUsable
<1>2. \A r \in Reqs : Stage(r)' /\ Tracked(r)'
  BY IdleFits, ApiAssumption DEF Restart, Stage, Tracked
<1>3. QED
  BY <1>1, <1>2 DEF IInv

LEMMA OperatorKeeps ==
  ASSUME IInv, NEW u \in Users, NEW raw \in OperatorWrites, Operator(u, raw)
  PROVE  IInv'
<1>1. raw \in Secrets /\ req' = req /\ Watch(u, raw) /\ vault' = [vault EXCEPT ![u] = raw]
  BY ApiAssumption DEF Operator
<1>2. req' \in [Reqs -> ReqType] /\ \A q \in Reqs : req'[q] = req[q]
  BY <1>1 DEF IInv, TypeOK
<1>3. \A q \in Reqs : Stage(q)'
  BY <1>1 DEF IInv, Stage
<1>4. QED
  BY <1>1, <1>2, <1>3, VaultChanges
-------------------------------------------------------------------------------
LEMMA InitHolds == Init => IInv
<1> SUFFICES ASSUME Init PROVE IInv
  OBVIOUS
<1>1. TypeOK /\ StoredUsable
  BY IdleFits, ApiAssumption DEF Init, TypeOK, StoredUsable, Secrets
<1>2. \A r \in Reqs : Stage(r) /\ Tracked(r)
  BY IdleFits, ApiAssumption DEF Init, Stage, Tracked
<1>3. QED
  BY <1>1, <1>2 DEF IInv

LEMMA StepKeeps == IInv /\ [Next]_apiVars => IInv'
<1> SUFFICES ASSUME IInv, [Next]_apiVars PROVE IInv'
  OBVIOUS
<1>1. ASSUME NEW r \in Reqs, Handler(r) PROVE IInv'
  BY <1>1, ValidateKeeps, ReadKeeps, WriteKeeps, ListNamesKeeps, ListItemKeeps DEF Handler
<1>2. CASE UNCHANGED apiVars
  BY <1>2 DEF apiVars, IInv, TypeOK, StoredUsable, Stage, Tracked, UnderWay, Exact
<1>3. QED
  BY <1>1, <1>2, ReceiveKeeps, RespondKeeps, RestartKeeps, OperatorKeeps DEF Next

THEOREM Inductive == Spec => []IInv
BY InitHolds, StepKeeps, PTL DEF Spec

(* Every reachable state is well typed, and no more than MaxTries attempts *)
(* are made of any write (main.go:113-229).                                *)
THEOREM ApiTypeCorrect == Spec => []TypeOK
<1>1. IInv => TypeOK
  BY DEF IInv
<1>2. QED
  BY <1>1, Inductive, PTL

(* Whatever requests overlap, fail, are repeated or end with the process,  *)
(* the server can load every record the API has written and reads in it    *)
(* what the API shows: a user shown as disabled cannot log in, and no key  *)
(* works that is not shown (main.go:295-314, 378-400, vault.go:109-135).   *)
THEOREM ServerAlwaysAgrees == Spec => []ServerAgrees
<1>1. ASSUME IInv, NEW u \in Users, Usable(vault[u])
      PROVE  ServerReads(u, vault[u]) = Served(Decode(vault[u]))
  <2> DEFINE raw == vault[u]
  <2>1. /\ raw.disabled \in BOOLEAN /\ raw.keysAre = "list" /\ raw.rootSubdir \in Users
        /\ raw.quotas = Unset /\ raw.publicKeys # {} /\ raw.publicKeys \ {Blank} = raw.publicKeys
    BY <1>1 DEF Usable
  <2>2. AsBool(raw.disabled) = (raw.disabled = TRUE)
    <3>1. raw.disabled # Text
      BY <2>1, RecordsAssumption
    <3>2. QED
      BY <3>1 DEF AsBool
  <2>3. RootOf(u, raw.rootSubdir) = raw.rootSubdir /\ AsStringSlice(raw) = raw.publicKeys
    BY <2>1, RecordsAssumption DEF RootOf, AsStringSlice
  <2>4. QED
    BY <2>1, <2>2, <2>3 DEF ServerReads, Served, Decode
<1>2. IInv => ServerAgrees
  BY <1>1 DEF IInv, StoredUsable, ServerAgrees
<1>3. QED
  BY <1>2, Inductive, PTL

(* A listing never names anyone who fitted at no moment of it, and misses  *)
(* nobody who fitted all along unless it is cut off at its limit, for any  *)
(* number of users that come and go meanwhile (main.go:427-487).           *)
THEOREM ListingsAreExact == Spec => []ListingExact
<1>1. IInv => ListingExact
  BY DEF IInv, Tracked, Exact, ListingExact
<1>2. QED
  BY <1>1, Inductive, PTL
==============================================================================
