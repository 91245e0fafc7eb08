----------------------- MODULE AdminDirectoryProofs --------------------------
(***************************************************************************)
(* Theorems about AdminApi where requests that change one user, and        *)
(* operators, take turns on it: it implements UserDirectory, and a PATCH   *)
(* is partial.                                                             *)
(***************************************************************************)
EXTENDS AdminApiProofs

(* Of the requests that are changing something, no two name one user.      *)
InTurn ==
  \A r, q \in Reqs : Changing(r) /\ Changing(q) /\ req[r].user = req[q].user => r = q

(* What a request asks for, from its arrival on.                           *)
Asks(r) ==
  LET q == req[r] IN
  /\ q.pc = "idle" => q = Idle
  /\ q.pc # "idle" => q.op # None
  /\ q.op \in {"GET", "DELETE"} => q.arg = None
  /\ q.op \notin {None, "LIST"} => q.user \in Names
  /\ q.op = "GET" /\ q.pc # "answered" => q.got = None

(* What is about to be written is what the request makes of the record as  *)
(* it still is, or, after an attempt that reached Vault, is there already. *)
Does(r) ==
  LET q == req[r] u == req[r].user IN
  /\ q.pc = "read" => q.op \in {"GET", "PATCH", "DELETE"}
  /\ q.pc \in {"received", "read"} => ~q.applied
  /\ q.pc = "write" =>
       /\ q.op \in {"POST", "PUT", "PATCH"}
       /\ Valid(u, q.got)
       /\ q.op # "PATCH" => q.got = Normalize(u, q.arg)
       /\ IF q.applied THEN vault[u] = Encode(q.got)
          ELSE q.op = "PATCH" =>
                 vault[u] \in Raws /\ q.got = Normalize(u, Merge(Decode(vault[u]), q.arg))
  /\ q.pc = "delete" =>
       /\ q.op = "DELETE"
       /\ IF q.applied THEN vault[u] = None ELSE vault[u] \in Raws

TurnInv == IInv /\ InTurn /\ \A r \in Reqs : Asks(r) /\ Does(r)

(* A record written for a request is gone back to as what it was.          *)
LEMMA DecodeEncode ==
  ASSUME NEW v \in Views
  PROVE  Encode(v) \in Raws /\ Decode(Encode(v)) = v
<1>1. Encode(v) \in Raws
  BY Conversions
<1>2. Decode(Encode(v)) = v
  BY DEF Views, Encode, Decode
<1>3. QED
  BY <1>1, <1>2

(* A step of one request: the others stand where they stood, and what they *)
(* know of their users stays true, as no other step changes those.         *)
LEMMA OthersWait ==
  ASSUME TurnInv, IInv', NEW r \in Reqs, NEW k, req' = [req EXCEPT ![r] = k],
         \/ UNCHANGED vault
         \/ Changing(r) /\ \A u \in Users : u # req[r].user => vault'[u] = vault[u],
         Changing(r)' => (Changing(r) /\ k.user = req[r].user) \/ Untouched(k.user),
         Asks(r)', Does(r)'
  PROVE  TurnInv'
<1>1. req'[r] = k /\ \A q \in Reqs \ {r} : req'[q] = req[q]
  BY DEF TurnInv, IInv, TypeOK
<1>2. ASSUME NEW q \in Reqs \ {r} PROVE Asks(q)' /\ Does(q)'
  <2>1. Asks(q) /\ Does(q) /\ Stage(q) /\ req'[q] = req[q]
    BY <1>1 DEF TurnInv, IInv
  <2>2. req[q].pc \in {"write", "delete"} => vault'[req[q].user] = vault[req[q].user]
    <3>1. SUFFICES ASSUME req[q].pc \in {"write", "delete"}, Changing(r)
                   PROVE  req[q].user # req[r].user /\ req[q].user \in Users
      OBVIOUS
    <3>2. Changing(q) /\ req[q].user \in Users
      BY <2>1, <3>1 DEF Does, Stage, Changing
    <3>3. QED
      BY <3>1, <3>2 DEF TurnInv, InTurn
  <2>3. QED
    BY <2>1, <2>2 DEF Asks, Does
<1>3. ASSUME NEW q \in Reqs \ {r}, Changing(r)', Changing(q)', req'[q].user = k.user
      PROVE  FALSE
  <2>1. Changing(q) /\ req[q].user = k.user
    BY <1>1, <1>3 DEF Changing
  <2>2. QED
    BY <1>3, <2>1 DEF TurnInv, InTurn, Untouched
<1>4. ASSUME NEW a \in Reqs \ {r}, NEW b \in Reqs \ {r}, Changing(a)', Changing(b)',
             req'[a].user = req'[b].user
      PROVE  a = b
  BY <1>1, <1>4 DEF TurnInv, InTurn, Changing
<1>5. InTurn'
  BY <1>1, <1>3, <1>4 DEF InTurn
<1>6. QED
  BY <1>2, <1>5 DEF TurnInv
-------------------------------------------------------------------------------
(* The directory and its requests as they are seen in Vault and the        *)
(* handlers: what Directory substitutes for dir and op.                    *)
Shown(raw) == IF raw \in Raws THEN Decode(raw) ELSE raw

AskOf(pc, kind, user, arg, ans, got) ==
  [pc |-> pc, kind |-> kind, user |-> user, arg |-> arg, ans |-> ans, got |-> got]

Asking(q) ==
  IF q.op \in {None, "LIST"} THEN AskOf("free", None, None, None, None, None)
  ELSE AskOf(IF q.pc = "answered" THEN "answered" ELSE IF q.applied THEN "took" ELSE "called",
             IF q.op = "POST" THEN "PUT" ELSE q.op, q.user, q.arg, q.ans,
             IF q.op = "GET" THEN q.got ELSE None)

theDir == [u \in Users |-> Shown(vault[u])]
theOps == [r \in Reqs |-> Asking(req[r])]

DirectoryStep == [Directory!Next]_<<theDir, theOps>>

(* The directory's records are the API's.                                  *)
LEMMA SameRecords ==
  /\ Directory!Views = Views /\ Directory!Partials = Partials
  /\ \A u, v : Directory!Normalize(u, v) = Normalize(u, v)
  /\ \A u, v : Directory!Valid(u, v) = Valid(u, v)
  /\ \A v, p : Directory!Merge(v, p) = Merge(v, p)
BY DEF Directory!Views, Directory!Partials, Directory!Roots, Directory!Normalize, Directory!Given,
       Directory!RootOf, Directory!Valid, Directory!Merge,
       Views, Partials, Roots, Normalize, Given, RootOf, Valid, Merge

(* The steps of the directory, on what is seen of it.                      *)
LEMMA Called ==
  ASSUME NEW r \in Reqs, theOps[r].pc = "free", theOps'[r] \in Directory!Called,
         theOps' = [theOps EXCEPT ![r] = theOps'[r]], UNCHANGED theDir
  PROVE  DirectoryStep
<1>1. Directory!Call(r)
  BY DEF Directory!Call, theDir, theOps, Shown, Asking, AskOf, Asked
<1>2. QED
  BY <1>1 DEF Directory!Next, DirectoryStep

LEMMA TookEffect ==
  ASSUME NEW r \in Reqs, theOps[r].pc = "called",
         NEW v \in Directory!Outcome(theOps[r]), theDir' = [theDir EXCEPT ![theOps[r].user] = v],
         \/ theOps' = [theOps EXCEPT ![r].pc = "took"]
         \/ \E a \in {"ok", "failed"} : theOps' = [theOps EXCEPT ![r].pc = "answered", ![r].ans = a]
  PROVE  DirectoryStep
<1>1. Directory!TakeEffect(r)
  BY DEF Directory!TakeEffect, theDir, theOps, Shown, Asking, AskOf, Asked
<1>2. QED
  BY <1>1 DEF Directory!Next, DirectoryStep

LEMMA AnsweredUnchanged ==
  ASSUME NEW r \in Reqs, theOps[r].pc = "called", UNCHANGED theDir,
         \/ theOps' = [theOps EXCEPT ![r].pc = "answered", ![r].ans = "failed"]
         \/ /\ Directory!Refused(theOps[r])
            /\ theOps' = [theOps EXCEPT ![r].pc = "answered", ![r].ans = "invalid"]
         \/ /\ theOps[r].kind # "PUT" /\ theOps[r].user \in Users /\ theDir[theOps[r].user] = None
            /\ theOps' = [theOps EXCEPT ![r].pc = "answered", ![r].ans = "notFound"]
         \/ /\ theOps[r].kind = "GET" /\ theOps[r].user \in Users /\ theDir[theOps[r].user] \in Views
            /\ theOps' = [theOps EXCEPT ![r].pc = "answered", ![r].ans = "ok",
                                       ![r].got = theDir[theOps[r].user]]
  PROVE  DirectoryStep
<1>1. Directory!Answered(r)
  BY SameRecords DEF Directory!Answered, theDir, theOps, Shown, Asking, AskOf, Asked
<1>2. QED
  BY <1>1 DEF Directory!Next, DirectoryStep

LEMMA Finished ==
  ASSUME NEW r \in Reqs, theOps[r].pc = "took", UNCHANGED theDir,
         NEW a \in {"ok", "failed"}, theOps' = [theOps EXCEPT ![r].pc = "answered", ![r].ans = a]
  PROVE  DirectoryStep
<1>1. Directory!Finish(r)
  BY DEF Directory!Finish, theDir, theOps, Shown, Asking, AskOf, Asked
<1>2. QED
  BY <1>1 DEF Directory!Next, DirectoryStep

LEMMA Returned ==
  ASSUME NEW r \in Reqs, theOps[r].pc = "answered", UNCHANGED theDir,
         theOps' = [theOps EXCEPT ![r] = Directory!Free]
  PROVE  DirectoryStep
<1>1. Directory!Return(r)
  BY DEF Directory!Return, theDir, theOps, Shown, Asking, AskOf, Asked
<1>2. QED
  BY <1>1 DEF Directory!Next, DirectoryStep

LEMMA Abandoned ==
  ASSUME theOps' = [r \in Reqs |-> Directory!Free], UNCHANGED theDir
  PROVE  DirectoryStep
<1>1. Directory!Abandon
  BY DEF Directory!Abandon, theDir, theOps, Shown, Asking, AskOf, Asked
<1>2. QED
  BY <1>1 DEF Directory!Next, DirectoryStep

LEMMA OperatorWorked ==
  ASSUME NEW u \in Users, UNCHANGED theOps, theDir'[u] \in Views \cup {None, Deleted},
         theDir' = [theDir EXCEPT ![u] = theDir'[u]],
         \A r \in Reqs : theOps[r].user = u => theOps[r].kind = "GET" \/ theOps[r].pc = "answered"
  PROVE  DirectoryStep
<1>1. Directory!Operator
  BY SameRecords DEF Directory!Operator, theDir, theOps, Shown, Asking, AskOf, Asked
<1>2. QED
  BY <1>1 DEF Directory!Next, DirectoryStep

(* A step that changes neither is none of the directory's.                 *)
LEMMA NoStep ==
  ASSUME UNCHANGED <<theDir, theOps>>
  PROVE  DirectoryStep
BY DEF DirectoryStep

(* What a request is to the directory.                                     *)
LEMMA Asks1 ==
  ASSUME TypeOK, NEW r \in Reqs, NEW k \in ReqType, req' = [req EXCEPT ![r] = k]
  PROVE  /\ theOps' = [theOps EXCEPT ![r] = Asking(k)]
         /\ theOps[r] = Asking(req[r]) /\ theOps'[r] = Asking(k)
         /\ Asking(k) = Asking(req[r]) => UNCHANGED theOps
<1>1. req'[r] = k /\ \A q \in Reqs \ {r} : req'[q] = req[q]
  BY DEF TypeOK
<1>2. /\ theOps[r] = Asking(req[r]) /\ theOps'[r] = Asking(k)
      /\ \A q \in Reqs \ {r} : theOps'[q] = theOps[q]
  BY <1>1 DEF theOps
<1>3. theOps' = [theOps EXCEPT ![r] = Asking(k)]
  BY <1>1, <1>2 DEF theOps
<1>4. Asking(k) = Asking(req[r]) => UNCHANGED theOps
  BY <1>1 DEF theOps
<1>5. QED
  BY <1>2, <1>3, <1>4

(* What a request other than a listing is to the directory, part by part.  *)
LEMMA AskingParts ==
  ASSUME NEW q \in ReqType, q.op \notin {None, "LIST"}
  PROVE  /\ Asking(q).pc = IF q.pc = "answered" THEN "answered" ELSE IF q.applied THEN "took" ELSE "called"
         /\ Asking(q).kind = IF q.op = "POST" THEN "PUT" ELSE q.op
         /\ Asking(q).user = q.user /\ Asking(q).arg = q.arg /\ Asking(q).ans = q.ans
         /\ Asking(q).got = IF q.op = "GET" THEN q.got ELSE None
BY DEF Asking, AskOf

(* Its answer.                                                             *)
LEMMA AnswerSeen ==
  ASSUME TypeOK, NEW r \in Reqs, NEW k \in ReqType, req' = [req EXCEPT ![r] = k],
         req[r].op \notin {None, "LIST"}, k.op = req[r].op, k.user = req[r].user,
         k.arg = req[r].arg, k.pc = "answered"
  PROVE  /\ k.got = req[r].got \/ k.op # "GET" =>
              theOps' = [theOps EXCEPT ![r].pc = "answered", ![r].ans = k.ans]
         /\ k.op = "GET" =>
              theOps' = [theOps EXCEPT ![r].pc = "answered", ![r].ans = k.ans, ![r].got = k.got]
<1> DEFINE q == req[r]
           pc == IF q.pc = "answered" THEN "answered" ELSE IF q.applied THEN "took" ELSE "called"
           kind == IF q.op = "POST" THEN "PUT" ELSE q.op
           old == IF q.op = "GET" THEN q.got ELSE None
           new == IF q.op = "GET" THEN k.got ELSE None
<1>1. theOps' = [theOps EXCEPT ![r] = Asking(k)] /\ theOps[r] = Asking(q)
  BY Asks1
<1>2. Asking(q) = AskOf(pc, kind, q.user, q.arg, q.ans, old)
  BY DEF Asking
<1>3. Asking(k) = AskOf("answered", kind, q.user, q.arg, k.ans, new)
  BY DEF Asking
<1>4. (k.got = q.got \/ q.op # "GET" => new = old) /\ (q.op = "GET" => new = k.got)
  OBVIOUS
<1> HIDE DEF pc, kind, old, new
<1>5. /\ [Asking(q) EXCEPT !.pc = "answered"]
         = AskOf("answered", kind, q.user, q.arg, q.ans, old)
      /\ [AskOf("answered", kind, q.user, q.arg, q.ans, old) EXCEPT !.ans = k.ans]
         = AskOf("answered", kind, q.user, q.arg, k.ans, old)
      /\ [AskOf("answered", kind, q.user, q.arg, k.ans, old) EXCEPT !.got = new]
         = AskOf("answered", kind, q.user, q.arg, k.ans, new)
  BY <1>2, SMT DEF AskOf
<1>6. /\ [Asking(q) EXCEPT !.pc = "answered", !.ans = k.ans]
         = [[Asking(q) EXCEPT !.pc = "answered"] EXCEPT !.ans = k.ans]
      /\ [Asking(q) EXCEPT !.pc = "answered", !.ans = k.ans, !.got = new]
         = [[[Asking(q) EXCEPT !.pc = "answered"] EXCEPT !.ans = k.ans] EXCEPT !.got = new]
  BY Zenon
<1>7. /\ new = old => Asking(k) = [Asking(q) EXCEPT !.pc = "answered", !.ans = k.ans]
      /\ Asking(k) = [Asking(q) EXCEPT !.pc = "answered", !.ans = k.ans, !.got = new]
  BY <1>3, <1>5, <1>6, Zenon
<1>8. /\ new = old => theOps' = [theOps EXCEPT ![r].pc = "answered", ![r].ans = k.ans]
      /\ theOps' = [theOps EXCEPT ![r].pc = "answered", ![r].ans = k.ans, ![r].got = new]
  BY <1>1, <1>7
<1>9. QED
  BY <1>4, <1>8

(* One record of Vault changes, and so does one user of the directory.     *)
LEMMA DirSeen ==
  ASSUME TypeOK, NEW u \in Users, NEW raw, vault' = [vault EXCEPT ![u] = raw]
  PROVE  /\ theDir' = [theDir EXCEPT ![u] = Shown(raw)]
         /\ theDir[u] = Shown(vault[u])
         /\ Shown(raw) = Shown(vault[u]) => UNCHANGED theDir
BY DEF TypeOK, theDir

(* What an attempt that took effect and was not answered looks like.       *)
LEMMA TookSeen ==
  ASSUME TypeOK, NEW r \in Reqs, NEW k \in ReqType, req' = [req EXCEPT ![r] = k],
         req[r].op \notin {None, "LIST"}, k.op = req[r].op, k.user = req[r].user,
         k.arg = req[r].arg, k.ans = req[r].ans, k.got = req[r].got,
         k.pc # "answered", k.applied
  PROVE  theOps' = [theOps EXCEPT ![r].pc = "took"]
<1> DEFINE q == req[r]
           pc == IF q.pc = "answered" THEN "answered" ELSE IF q.applied THEN "took" ELSE "called"
           kind == IF q.op = "POST" THEN "PUT" ELSE q.op
           got == IF q.op = "GET" THEN q.got ELSE None
<1>1. theOps' = [theOps EXCEPT ![r] = Asking(k)] /\ theOps[r] = Asking(q)
  BY Asks1
<1>2. /\ Asking(q) = AskOf(pc, kind, q.user, q.arg, q.ans, got)
      /\ Asking(k) = AskOf("took", kind, q.user, q.arg, q.ans, got)
  BY DEF Asking
<1> HIDE DEF pc, kind, got
<1>3. Asking(k) = [Asking(q) EXCEPT !.pc = "took"]
  BY <1>2, SMT DEF AskOf
<1>4. QED
  BY <1>1, <1>3
-------------------------------------------------------------------------------
(* A handler goes on to a stage the directory does not know of.            *)
LEMMA GoesUnseen ==
  ASSUME TurnInv, IInv', NEW r \in Reqs, NEW k \in ReqType, req' = [req EXCEPT ![r] = k],
         UNCHANGED vault, req[r].pc \notin {"idle", "answered"}, k.pc \notin {"idle", "answered"},
         k.op = req[r].op, k.user = req[r].user, k.arg = req[r].arg, k.ans = req[r].ans,
         k.applied = req[r].applied, k.op = "GET" => k.got = None, Does(r)'
  PROVE  TurnInv' /\ DirectoryStep
<1>1. TypeOK /\ Asks(r) /\ req'[r] = k
  BY DEF TurnInv, IInv, TypeOK
<1>2. Asks(r)'
  BY <1>1 DEF Asks
<1>3. Changing(r)' => Changing(r)
  BY <1>1 DEF Changing
<1>4. TurnInv'
  BY <1>2, <1>3, OthersWait
<1>5. Asking(k) = Asking(req[r])
  BY <1>1 DEF Asking, Asks
<1>6. UNCHANGED theOps
  BY <1>1, <1>5, Asks1
<1>7. UNCHANGED theDir
  BY DEF theDir
<1>8. QED
  BY <1>4, <1>6, <1>7, NoStep

(* A handler answers; others still wait.                                   *)
LEMMA AnswersInTurn ==
  ASSUME TurnInv, IInv', NEW r \in Reqs, NEW k \in ReqType, req' = [req EXCEPT ![r] = k],
         \/ UNCHANGED vault
         \/ Changing(r) /\ \A u \in Users : u # req[r].user => vault'[u] = vault[u],
         req[r].pc # "idle", k.pc = "answered",
         k.op = req[r].op, k.user = req[r].user, k.arg = req[r].arg
  PROVE  TurnInv'
<1>1. Asks(r) /\ req'[r] = k
  BY DEF TurnInv, IInv, TypeOK
<1>2. Asks(r)' /\ Does(r)' /\ ~Changing(r)'
  BY <1>1 DEF Asks, Does, Changing
<1>3. QED
  BY <1>2, OthersWait

(* What a request should make of its user.                                 *)
New(r) ==
  LET q == req[r] IN
  Normalize(q.user, IF q.op = "PATCH" THEN Merge(Decode(vault[q.user]), q.arg) ELSE q.arg)

LEMMA Outcomes ==
  ASSUME TypeOK, NEW r \in Reqs, req[r].user \in Users
  PROVE  /\ req[r].op \in {"POST", "PUT"} \/ (req[r].op = "PATCH" /\ vault[req[r].user] \in Raws) =>
              Directory!Outcome(theOps[r]) = IF Valid(req[r].user, New(r)) THEN {New(r)} ELSE {}
         /\ req[r].op = "DELETE" /\ vault[req[r].user] \in Raws => Directory!Outcome(theOps[r]) = {None}
<1> DEFINE q == req[r]
           o == theOps[r]
           u == q.user
           old == [v \in Users |-> IF vault[v] \in Raws THEN Decode(vault[v]) ELSE vault[v]][u]
           new == Normalize(u, IF o.kind = "PUT" THEN o.arg ELSE Merge(old, o.arg))
<1> SUFFICES ASSUME q.op \in {"POST", "PUT", "PATCH", "DELETE"}
             PROVE  /\ q.op \in {"POST", "PUT"} \/ (q.op = "PATCH" /\ vault[u] \in Raws) =>
                         Directory!Outcome(o) = IF Valid(u, New(r)) THEN {New(r)} ELSE {}
                    /\ q.op = "DELETE" /\ vault[u] \in Raws => Directory!Outcome(o) = {None}
  OBVIOUS
<1>1. /\ o.kind = (IF q.op = "POST" THEN "PUT" ELSE q.op) /\ o.user = u /\ o.arg = q.arg
  <2>1. q \in ReqType /\ q.op \notin {None, "LIST"} /\ o = Asking(q)
    BY ApiAssumption DEF TypeOK, theOps
  <2>2. QED
    BY <2>1, AskingParts
<1>2. vault[u] \in Raws => old = Decode(vault[u]) /\ old \in Views
  BY Conversions
<1>3. q.op \in {"POST", "PUT"} \/ (q.op = "PATCH" /\ vault[u] \in Raws) => new = New(r)
  BY <1>1, <1>2 DEF New
<1>4. Directory!Outcome(o) =
        CASE u \notin Users -> {}
          [] o.kind = "PUT"    -> IF Valid(u, new) THEN {new} ELSE {}
          [] o.kind = "PATCH"  -> IF old \in Views /\ Valid(u, new) THEN {new} ELSE {}
          [] o.kind = "DELETE" -> IF old \in Views THEN {None} ELSE {}
          [] OTHER -> {}
  BY <1>1, SameRecords DEF Directory!Outcome
<1> HIDE DEF o, old, new
<1>5. QED
  BY <1>1, <1>2, <1>3, <1>4

(* An answer that changes nothing is true of the directory.                *)
LEMMA AnswerStep ==
  ASSUME TurnInv, IInv', NEW r \in Reqs, NEW got \in Views \cup {None},
         NEW ans \in {"ok", "invalid", "notFound", "failed"},
         Answers(r, ans, got), UNCHANGED vault,
         req[r].pc \in {"received", "read"}, req[r].op # "LIST", ans # "ok" => got = None,
         \/ ans = "failed"
         \/ /\ ans = "invalid"
            /\ \/ req[r].user \notin Users
               \/ /\ req[r].op \in {"POST", "PUT"} \/ (req[r].op = "PATCH" /\ vault[req[r].user] \in Raws)
                  /\ ~Valid(req[r].user, New(r))
         \/ /\ req[r].op \notin {"POST", "PUT"} /\ req[r].user \in Users
            /\ \/ ans = "notFound" /\ vault[req[r].user] = None
               \/ /\ ans = "ok" /\ req[r].op = "GET"
                  /\ vault[req[r].user] \in Raws /\ got = Decode(vault[req[r].user])
  PROVE  TurnInv' /\ DirectoryStep
<1> DEFINE q == req[r]
           u == q.user
           o == theOps[r]
<1>1. PICK k \in ReqType :
        /\ req' = [req EXCEPT ![r] = k] /\ req'[r] = k
        /\ k.pc = "answered" /\ k.ans = ans /\ k.op = req[r].op /\ k.arg = req[r].arg
        /\ k.user = req[r].user /\ k.got = got
  BY AnswersWith DEF TurnInv
<1>2. TypeOK /\ Asks(r) /\ Does(r) /\ q \in ReqType /\ q.op \notin {None, "LIST"}
  <2>1. TypeOK /\ Asks(r) /\ Does(r)
    BY DEF TurnInv, IInv
  <2>2. q \in ReqType
    BY <2>1 DEF TypeOK
  <2>3. q.op \notin {None, "LIST"}
    BY <2>1 DEF Asks
  <2>4. QED
    BY <2>1, <2>2, <2>3
<1>3. TurnInv'
  BY <1>1, AnswersInTurn
<1>4. UNCHANGED theDir
  BY DEF theDir
<1>5. o = Asking(q)
  BY DEF theOps
<1>6. /\ o.pc = "called" /\ o.kind = (IF q.op = "POST" THEN "PUT" ELSE q.op)
      /\ o.user = u /\ o.arg = q.arg
  BY <1>2, <1>5, AskingParts DEF Does
<1>7. ans # "ok" => theOps' = [theOps EXCEPT ![r].pc = "answered", ![r].ans = ans]
  <2>1. ans # "ok" => k.got = q.got \/ k.op # "GET"
    BY <1>1, <1>2 DEF Asks
  <2>2. QED
    BY <1>1, <1>2, <2>1, AnswerSeen
<1>8. q.op = "GET" => theOps' = [theOps EXCEPT ![r].pc = "answered", ![r].ans = ans, ![r].got = got]
  <2>1. k.op = "GET" => theOps' = [theOps EXCEPT ![r].pc = "answered", ![r].ans = k.ans, ![r].got = k.got]
    BY <1>1, <1>2, AnswerSeen, Zenon
  <2>2. QED
    BY <1>1, <2>1, Zenon
<1>9. u \in Users => theDir[u] = Shown(vault[u])
  BY DEF theDir
<1>10. CASE ans = "failed"
  BY <1>3, <1>4, <1>6, <1>7, <1>10, AnsweredUnchanged
<1>11. CASE /\ ans = "invalid"
            /\ \/ u \notin Users
               \/ /\ q.op \in {"POST", "PUT"} \/ (q.op = "PATCH" /\ vault[u] \in Raws)
                  /\ ~Valid(u, New(r))
  <2>1. CASE u \notin Users
    <3>1. Directory!Refused(o)
      BY <1>6, <2>1 DEF Directory!Refused
    <3>2. QED
      BY <1>3, <1>4, <1>6, <1>7, <1>11, <3>1, AnsweredUnchanged
  <2>2. CASE /\ u \in Users
             /\ q.op \in {"POST", "PUT"} \/ (q.op = "PATCH" /\ vault[u] \in Raws)
             /\ ~Valid(u, New(r))
    <3>1. Directory!Outcome(o) = {}
      BY <1>2, <2>2, Outcomes
    <3>2. [v \in Users |-> IF vault[v] \in Raws THEN Decode(vault[v]) ELSE vault[v]][u] \in Views
          \/ q.op \in {"POST", "PUT"}
      BY <2>2, Conversions
    <3>3. Directory!Refused(o)
      BY <1>6, <2>2, <3>1, <3>2, SameRecords DEF Directory!Refused
    <3>4. QED
      BY <1>3, <1>4, <1>6, <1>7, <1>11, <3>3, AnsweredUnchanged
  <2>3. QED
    BY <1>11, <2>1, <2>2, Zenon
<1>12. CASE ans = "notFound" /\ q.op \notin {"POST", "PUT"} /\ u \in Users /\ vault[u] = None
  <2>1. theDir[u] = None
    BY <1>9, <1>12, SecretsAssumption DEF Shown
  <2>2. QED
    BY <1>3, <1>4, <1>6, <1>7, <1>12, <2>1, AnsweredUnchanged
<1>13. CASE ans = "ok" /\ q.op = "GET" /\ u \in Users /\ vault[u] \in Raws /\ got = Decode(vault[u])
  <2>1. theDir[u] = got /\ got \in Views
    BY <1>9, <1>13, Conversions DEF Shown
  <2>2. theOps' = [theOps EXCEPT ![r].pc = "answered", ![r].ans = "ok", ![r].got = theDir[o.user]]
    BY <1>6, <1>8, <1>13, <2>1, Zenon
  <2>3. /\ o.kind = "GET" /\ o.user \in Users /\ theDir[o.user] \in Views
    BY <1>6, <1>13, <2>1
  <2>4. DirectoryStep
    BY <1>4, <1>6, <2>2, <2>3, AnsweredUnchanged
  <2>5. QED
    BY <1>3, <2>4
<1>14. QED
  BY <1>10, <1>11, <1>12, <1>13
-------------------------------------------------------------------------------
(* What a listing does, the directory does not notice.                     *)
LEMMA ListUnseen ==
  ASSUME TurnInv, IInv', NEW r \in Reqs, NEW k \in ReqType, req' = [req EXCEPT ![r] = k],
         UNCHANGED vault, req[r].op = "LIST", req[r].pc # "idle", k.op = "LIST", k.pc # "idle",
         k.pc \notin {"read", "received", "write", "delete"}
  PROVE  TurnInv' /\ DirectoryStep
<1>1. req'[r] = k /\ TypeOK
  BY DEF TurnInv, IInv, TypeOK
<1>2. Asks(r)' /\ Does(r)' /\ ~Changing(r)'
  BY <1>1, ApiAssumption DEF Asks, Does, Changing
<1>3. TurnInv'
  BY <1>2, OthersWait
<1>4. UNCHANGED theOps
  <2>1. Asking(k) = Asking(req[r])
    BY DEF Asking
  <2>2. QED
    BY <1>1, <2>1, Asks1
<1>5. UNCHANGED theDir
  BY DEF theDir
<1>6. QED
  BY <1>3, <1>4, <1>5, NoStep

(* A request comes: a call, unless it is a listing.                        *)
LEMMA ReceiveStep ==
  ASSUME TurnInv, IInv', ~Overlap, NEW r \in Reqs, Receive(r)
  PROVE  TurnInv' /\ DirectoryStep
<1>1. ASSUME NEW o \in {"GET", "POST", "PUT", "PATCH", "DELETE", "LIST"},
             NEW u \in Names \cup {None}, NEW a \in Partials \cup Filters \cup {None},
             o # "LIST" => u \in Names /\ a \in Partials \cup {None},
             o \in {"GET", "DELETE"} => a = None,
             o \in {"GET", "LIST"} \/ Untouched(u),
             Start(r, o, u, a)
      PROVE  TurnInv' /\ DirectoryStep
  <2> DEFINE k == [Idle EXCEPT !.pc = "received", !.op = o, !.user = u, !.arg = a]
  <2>1. Idle \in ReqType /\ Idle.got = None /\ ~Idle.applied /\ Idle.ans = None
    BY ApiAssumption DEF Idle, ReqType
  <2>2. k \in ReqType
    BY <2>1 DEF ReqType
  <2>3. req' = [req EXCEPT ![r] = k] /\ UNCHANGED vault /\ req[r].pc = "idle"
    BY <1>1 DEF Start
  <2>4. /\ k.pc = "received" /\ k.op = o /\ k.user = u /\ k.arg = a /\ k.got = None
        /\ ~k.applied /\ k.ans = None
    BY <2>1 DEF ReqType
  <2> HIDE DEF k
  <2>5. req'[r] = k /\ TypeOK
    BY <2>3 DEF TurnInv, IInv, TypeOK
  <2>6. Asks(r)' /\ Does(r)'
    BY <1>1, <2>4, <2>5, ApiAssumption DEF Asks, Does
  <2>7. Changing(r)' => Untouched(k.user)
    BY <1>1, <2>4, <2>5 DEF Changing
  <2>8. TurnInv'
    BY <2>2, <2>3, <2>6, <2>7, OthersWait
  <2>9. UNCHANGED theDir
    BY <2>3 DEF theDir
  <2>10. /\ theOps' = [theOps EXCEPT ![r] = Asking(k)]
         /\ theOps[r] = Asking(req[r]) /\ theOps'[r] = Asking(k)
         /\ Asking(k) = Asking(req[r]) => UNCHANGED theOps
    BY <2>2, <2>3, <2>5, Asks1
  <2>11. req[r].op = None
    BY <2>3 DEF TurnInv, Asks, Idle
  <2>12. CASE o = "LIST"
    <3>1. Asking(k) = Asking(req[r])
      BY <2>4, <2>11, <2>12 DEF Asking
    <3>2. QED
      BY <2>8, <2>9, <2>10, <3>1, NoStep
  <2>13. CASE o # "LIST"
    <3>1. theOps[r].pc = "free"
      BY <2>10, <2>11 DEF Asking, AskOf
    <3>2. Asking(k) = AskOf("called", IF o = "POST" THEN "PUT" ELSE o, u, a, None, None)
      BY <2>4, <2>13, ApiAssumption DEF Asking
    <3>3. theOps'[r] \in Directory!Called
      BY <1>1, <2>10, <2>13, <3>2, SameRecords DEF Directory!Called, AskOf, Names
    <3>4. theOps' = [theOps EXCEPT ![r] = theOps'[r]]
      BY <2>10
    <3>5. QED
      BY <2>8, <2>9, <3>1, <3>3, <3>4, Called
  <2>14. QED
    BY <2>12, <2>13
<1>2. Bodies \subseteq Partials /\ Patches \subseteq Partials /\ ~Overlap
  BY Conversions, ApiAssumption
<1>3. CASE \E u \in Names : Start(r, "GET", u, None)
  BY <1>1, <1>3
<1>4. CASE \E u \in Names : /\ Untouched(u)
                            /\ \/ \E o \in {"POST", "PUT"}, b \in Bodies : Start(r, o, u, b)
                               \/ \E p \in Patches : Start(r, "PATCH", u, p)
                               \/ Start(r, "DELETE", u, None)
  BY <1>1, <1>2, <1>4
<1>5. CASE \E f \in Filters : Start(r, "LIST", None, f)
  BY <1>1, <1>5
<1>6. QED
  BY <1>2, <1>3, <1>4, <1>5 DEF Receive

(* A record that has been checked goes on to be written, another is refused. *)
LEMMA WriteIfValidStep ==
  ASSUME TurnInv, IInv', NEW r \in Reqs, NEW v \in Views, WriteIfValid(r, v), UNCHANGED vault,
         \/ req[r].pc = "received" /\ req[r].op \in {"POST", "PUT"} /\ v = req[r].arg
         \/ /\ req[r].pc = "read" /\ req[r].op = "PATCH" /\ vault[req[r].user] \in Raws
            /\ v = Merge(Decode(vault[req[r].user]), req[r].arg)
  PROVE  TurnInv' /\ DirectoryStep
<1> DEFINE u == req[r].user
           n == Normalize(u, v)
<1>1. n = New(r) /\ Does(r) /\ IInv
  BY DEF New, TurnInv
<1>2. CASE ~Valid(u, n)
  <2>1. Answers(r, "invalid", None)
    BY <1>2 DEF WriteIfValid
  <2>2. /\ req[r].op \in {"POST", "PUT"} \/ (req[r].op = "PATCH" /\ vault[req[r].user] \in Raws)
        /\ ~Valid(req[r].user, New(r))
        /\ req[r].pc \in {"received", "read"} /\ req[r].op # "LIST"
    BY <1>1, <1>2
  <2>3. QED
    BY <2>1, <2>2, AnswerStep
<1>3. CASE Valid(u, n)
  <2>1. n \in Views
    BY <1>3, ValidUsable
  <2>2. Goes(r, "write", n)
    BY <1>3 DEF WriteIfValid
  <2> HIDE DEF n
  <2>3. PICK k \in ReqType :
          /\ req' = [req EXCEPT ![r] = k] /\ req'[r] = k
          /\ k.pc = "write" /\ k.got = n /\ k.ans = req[r].ans /\ k.op = req[r].op
          /\ k.arg = req[r].arg /\ k.user = req[r].user /\ k.tries = req[r].tries
          /\ k.applied = req[r].applied
    BY <1>1, <2>1, <2>2, GoesOn
  <2>4. Does(r)'
    <3>1. Valid(u, k.got) /\ k.got = New(r) /\ ~k.applied
      BY <1>1, <1>3, <2>3 DEF Does, n
    <3>2. QED
      BY <2>3, <3>1 DEF Does, New
  <2>5. QED
    BY <2>3, <2>4, GoesUnseen
<1>4. QED
  BY <1>2, <1>3

(* A handler that goes on, with nothing written yet.                       *)
LEMMA GoesStep ==
  ASSUME TurnInv, IInv', NEW r \in Reqs, NEW pc \in {"read", "delete", "names"},
         Goes(r, pc, None), UNCHANGED vault, req[r].pc \in {"received", "read"},
         pc = "read" => req[r].op \in {"GET", "PATCH", "DELETE"},
         pc = "delete" => req[r].op = "DELETE" /\ vault[req[r].user] \in Raws
  PROVE  TurnInv' /\ DirectoryStep
<1>1. PICK k \in ReqType :
        /\ req' = [req EXCEPT ![r] = k] /\ req'[r] = k
        /\ k.pc = pc /\ k.got = None /\ k.ans = req[r].ans /\ k.op = req[r].op
        /\ k.arg = req[r].arg /\ k.user = req[r].user /\ k.tries = req[r].tries
        /\ k.applied = req[r].applied
  BY GoesOn DEF TurnInv
<1>2. Does(r)'
  BY <1>1 DEF TurnInv, Does
<1>3. QED
  BY <1>1, <1>2, GoesUnseen

LEMMA ValidateStep ==
  ASSUME TurnInv, IInv', NEW r \in Reqs, Validate(r)
  PROVE  TurnInv' /\ DirectoryStep
<1>1. req[r].pc = "received" /\ UNCHANGED vault /\ IInv
  BY DEF Validate, TurnInv
<1>2. CASE req[r].op \in {"POST", "PUT"} /\ WriteIfValid(r, req[r].arg)
  <2>1. req[r].arg \in Views
    BY <1>1, <1>2, ApiAssumption DEF IInv, Stage
  <2>2. QED
    BY <1>1, <1>2, <2>1, WriteIfValidStep
<1>3. CASE req[r].op \in {"GET", "PATCH", "DELETE"} /\ req[r].user \in Users /\ Goes(r, "read", None)
  BY <1>1, <1>3, GoesStep
<1>4. CASE req[r].op \in {"GET", "PATCH", "DELETE"} /\ req[r].user \notin Users
           /\ Answers(r, "invalid", None)
  BY <1>1, <1>4, AnswerStep
<1>5. CASE req[r].op = "LIST" /\ Goes(r, "names", None)
  BY <1>1, <1>5, GoesStep
<1>6. QED
  BY <1>2, <1>3, <1>4, <1>5 DEF Validate

LEMMA ReadStep ==
  ASSUME TurnInv, IInv', NEW r \in Reqs, Read(r)
  PROVE  TurnInv' /\ DirectoryStep
<1> DEFINE raw == vault[req[r].user]
<1>1. /\ req[r].pc = "read" /\ UNCHANGED vault /\ IInv /\ req[r].op \in {"GET", "PATCH", "DELETE"}
      /\ req[r].user \in Users
  BY DEF Read, TurnInv, Does, IInv, Stage
<1>2. CASE Answers(r, "failed", None)
  BY <1>1, <1>2, AnswerStep
<1>3. CASE raw = None /\ Answers(r, "notFound", None)
  BY <1>1, <1>3, AnswerStep
<1>4. CASE raw \in Raws /\ Found(r, Decode(raw))
  <2>1. Decode(raw) \in Views
    BY <1>4, Conversions
  <2>2. CASE req[r].op = "GET" /\ Answers(r, "ok", Decode(raw))
    BY <1>1, <1>4, <2>1, <2>2, AnswerStep
  <2>3. CASE req[r].op = "PATCH" /\ WriteIfValid(r, Merge(Decode(raw), req[r].arg))
    <3>1. req[r].arg \in Partials
      BY <1>1, <2>3, ApiAssumption DEF IInv, Stage
    <3>2. Merge(Decode(raw), req[r].arg) \in Views
      BY <2>1, <3>1, Conversions
    <3>3. QED
      BY <1>1, <1>4, <2>3, <3>2, WriteIfValidStep
  <2>4. CASE req[r].op = "DELETE" /\ Goes(r, "delete", None)
    BY <1>1, <1>4, <2>4, GoesStep
  <2>5. QED
    BY <1>4, <2>2, <2>3, <2>4 DEF Found
<1>5. QED
  BY <1>2, <1>3, <1>4 DEF Read

(* A turn of a listing.                                                    *)
LEMMA ListStep ==
  ASSUME TurnInv, IInv', NEW r \in Reqs, ListNames(r) \/ \E u \in Users : ListItem(r, u)
  PROVE  TurnInv' /\ DirectoryStep
<1>1. /\ req[r].op = "LIST" /\ req[r].pc \in {"names", "items"} /\ UNCHANGED vault /\ IInv
      /\ \/ \E ans \in {"ok", "failed"} : Answers(r, ans, None)
         \/ Goes(r, "items", None)
         \/ UNCHANGED req
  BY DEF ListNames, ListItem, TurnInv, IInv, Stage
<1>2. ASSUME NEW ans \in {"ok", "failed"}, Answers(r, ans, None)
      PROVE  TurnInv' /\ DirectoryStep
  <2>1. PICK k \in ReqType : /\ req' = [req EXCEPT ![r] = k]
                             /\ k.pc = "answered" /\ k.op = req[r].op
    BY <1>1, <1>2, AnswersWith
  <2>2. QED
    BY <1>1, <2>1, ListUnseen
<1>3. CASE Goes(r, "items", None)
  <2>1. PICK k \in ReqType : /\ req' = [req EXCEPT ![r] = k]
                             /\ k.pc = "items" /\ k.op = req[r].op
    BY <1>1, <1>3, GoesOn
  <2>2. QED
    BY <1>1, <2>1, ListUnseen
<1>4. CASE UNCHANGED req
  <2>1. req[r] \in ReqType /\ req' = [req EXCEPT ![r] = req[r]]
    BY <1>1, <1>4 DEF IInv, TypeOK
  <2>2. QED
    BY <1>1, <2>1, ListUnseen
<1>5. QED
  BY <1>1, <1>2, <1>3, <1>4

(* One attempt more has been counted.                                      *)
LEMMA TriedIs ==
  ASSUME TypeOK, NEW r \in Reqs, NEW reached \in BOOLEAN, req[r].tries < MaxTries
  PROVE  LET t == Tried(r, reached) IN
         /\ t \in ReqType
         /\ t.pc = req[r].pc /\ t.op = req[r].op /\ t.user = req[r].user /\ t.arg = req[r].arg
         /\ t.got = req[r].got /\ t.ans = req[r].ans
         /\ t.applied = (req[r].applied \/ reached)
<1> DEFINE t == Tried(r, reached)
<1>1. req[r] \in ReqType /\ req[r].tries \in 0..MaxTries /\ MaxTries \in Nat
  BY ApiAssumption DEF TypeOK, ReqType
<1>2. req[r].tries + 1 \in 0..MaxTries /\ (req[r].applied \/ reached) \in BOOLEAN
  BY <1>1
<1>3. /\ t \in ReqType
      /\ t.pc = req[r].pc /\ t.op = req[r].op /\ t.user = req[r].user /\ t.arg = req[r].arg
      /\ t.got = req[r].got /\ t.ans = req[r].ans
  BY <1>1, <1>2 DEF Tried, ReqType
<1>4. t.applied = (req[r].applied \/ reached)
  BY <1>1 DEF Tried, ReqType
<1>5. QED
  BY <1>3, <1>4

(* What one attempt makes of the request.                                  *)
LEMMA AttemptMakes ==
  ASSUME TypeOK, NEW r \in Reqs, NEW reached \in BOOLEAN, NEW A \in SUBSET {"ok", "failed"},
         req[r].tries < MaxTries,
         \/ Again(r) /\ req' = [req EXCEPT ![r] = Tried(r, reached)]
         \/ \E ans \in A :
              req' = [req EXCEPT ![r] = [Tried(r, reached) EXCEPT !.pc = "answered", !.ans = ans]]
  PROVE  \E k \in ReqType :
           /\ req' = [req EXCEPT ![r] = k] /\ req'[r] = k
           /\ k.op = req[r].op /\ k.user = req[r].user /\ k.arg = req[r].arg /\ k.got = req[r].got
           /\ k.applied = (req[r].applied \/ reached)
           /\ \/ k.pc = req[r].pc /\ k.ans = req[r].ans
              \/ k.pc = "answered" /\ k.ans \in A
<1> DEFINE t == Tried(r, reached)
<1>1. req[r] \in ReqType /\ req \in [Reqs -> ReqType]
  BY DEF TypeOK
<1>2. /\ t \in ReqType
      /\ t.op = req[r].op /\ t.user = req[r].user /\ t.arg = req[r].arg /\ t.got = req[r].got
      /\ t.pc = req[r].pc /\ t.ans = req[r].ans
      /\ t.applied = (req[r].applied \/ reached)
  BY TriedIs
<1> HIDE DEF t
<1>3. CASE Again(r) /\ req' = [req EXCEPT ![r] = t]
  BY <1>1, <1>2, <1>3
<1>4. ASSUME NEW ans \in A, req' = [req EXCEPT ![r] = [t EXCEPT !.pc = "answered", !.ans = ans]]
      PROVE  \E k \in ReqType :
               /\ req' = [req EXCEPT ![r] = k] /\ req'[r] = k
               /\ k.op = req[r].op /\ k.user = req[r].user /\ k.arg = req[r].arg /\ k.got = req[r].got
               /\ k.applied = (req[r].applied \/ reached)
               /\ k.pc = "answered" /\ k.ans \in A
  <2> DEFINE k == [t EXCEPT !.pc = "answered", !.ans = ans]
  <2>1. ans \in {"ok", "failed"}
    BY <1>4
  <2>2. /\ k \in ReqType /\ k.pc = "answered" /\ k.ans = ans
        /\ k.op = t.op /\ k.user = t.user /\ k.arg = t.arg /\ k.got = t.got
        /\ k.applied = t.applied
    BY <1>2, <2>1 DEF ReqType
  <2>3. req' = [req EXCEPT ![r] = k]
    BY <1>4
  <2> HIDE DEF k
  <2>4. req'[r] = k
    BY <1>1, <2>3
  <2>5. QED
    BY <1>2, <1>4, <2>2, <2>3, <2>4
<1>5. QED
  BY <1>3, <1>4 DEF t

(* An attempt that reaches Vault takes effect, or repeats what has; one    *)
(* that does not changes nothing.                                          *)
LEMMA AttemptStep ==
  ASSUME TurnInv, IInv', NEW r \in Reqs, Write(r) \/ Delete(r)
  PROVE  TurnInv' /\ DirectoryStep
<1> DEFINE q == req[r]
           u == q.user
           raw == IF q.pc = "write" THEN Encode(q.got) ELSE None
           v == IF q.pc = "write" THEN q.got ELSE None
<1>1. /\ q.pc \in {"write", "delete"} /\ u \in Users /\ Attempt(r, raw)
      /\ q.op \in {"POST", "PUT", "PATCH", "DELETE"} /\ q.op # None /\ q.op # "LIST"
      /\ q.tries < MaxTries /\ TypeOK /\ q \in ReqType /\ q.applied \in BOOLEAN
      /\ Does(r) /\ Changing(r) /\ q.ans = None
  <2>1. q.pc \in {"write", "delete"} /\ Attempt(r, raw)
    BY DEF Write, Delete
  <2>2. TypeOK /\ q \in ReqType /\ q.applied \in BOOLEAN
    BY DEF TurnInv, IInv, TypeOK, ReqType
  <2>3. Does(r) /\ Stage(r)
    BY DEF TurnInv, IInv
  <2> HIDE DEF raw
  <2>4. QED
    BY <2>1, <2>2, <2>3, ApiAssumption DEF Does, Stage, Changing
<1>2. Shown(raw) = v /\ raw \in Secrets
  <2>1. q.pc = "write" => q.got \in Views
    BY DEF TurnInv, IInv, Stage
  <2>2. QED
    BY <2>1, DecodeEncode, SecretsAssumption DEF Shown, Secrets
<1>3. /\ theOps[r] = Asking(q) /\ theOps[r].user = u
      /\ theOps[r].pc = IF q.applied THEN "took" ELSE "called"
  BY <1>1, AskingParts DEF theOps
<1>4. q.applied => vault[u] = raw
  BY <1>1 DEF Does
<1>5. ~q.applied => v \in Directory!Outcome(theOps[r])
  <2>1. SUFFICES ASSUME ~q.applied PROVE v \in Directory!Outcome(theOps[r])
    OBVIOUS
  <2>2. CASE q.pc = "write"
    <3>1. /\ q.op \in {"POST", "PUT"} \/ (q.op = "PATCH" /\ vault[u] \in Raws)
          /\ q.got = New(r) /\ Valid(u, New(r)) /\ v = New(r)
      BY <1>1, <2>1, <2>2 DEF Does, New
    <3>2. QED
      BY <1>1, <3>1, Outcomes
  <2>3. CASE q.pc = "delete"
    <3>1. q.op = "DELETE" /\ vault[u] \in Raws /\ v = None
      BY <1>1, <2>1, <2>3 DEF Does
    <3>2. QED
      BY <1>1, <3>1, Outcomes
  <2>4. QED
    BY <1>1, <2>2, <2>3
<1> HIDE DEF raw, v
<1>6. ASSUME NEW k \in ReqType, req' = [req EXCEPT ![r] = k], req'[r] = k,
             k.op = q.op, k.user = u, k.arg = q.arg, k.got = q.got,
             k.pc = q.pc \/ k.pc = "answered",
             \/ UNCHANGED vault /\ k.applied = q.applied
             \/ vault' = [vault EXCEPT ![u] = raw] /\ k.applied
      PROVE  TurnInv'
  <2>1. /\ \A x \in Users : x # u => vault'[x] = vault[x]
        /\ vault' # vault => vault'[u] = raw
    BY <1>1, <1>6 DEF TypeOK
  <2>2. CASE k.pc = "answered"
    BY <1>1, <1>6, <2>1, <2>2, AnswersInTurn
  <2>3. CASE k.pc = q.pc
    <3>1. Asks(r)'
      BY <1>1, <1>6, <2>3 DEF TurnInv, Asks
    <3>2. k.applied => vault'[u] = raw
      BY <1>1, <1>4, <1>6 DEF TypeOK
    <3>3. ~k.applied => vault' = vault /\ ~q.applied
      BY <1>6
    <3>4. Does(r)'
      BY <1>1, <1>6, <2>3, <3>2, <3>3 DEF Does, raw
    <3>5. QED
      BY <1>1, <1>6, <2>1, <3>1, <3>4, OthersWait
  <2>4. QED
    BY <1>6, <2>2, <2>3
<1>7. CASE /\ vault' = [vault EXCEPT ![u] = raw]
           /\ \/ Again(r) /\ req' = [req EXCEPT ![r] = Tried(r, TRUE)]
              \/ \E ans \in {"ok", "failed"} :
                   req' = [req EXCEPT ![r] = [Tried(r, TRUE) EXCEPT !.pc = "answered", !.ans = ans]]
  <2>1. PICK k \in ReqType :
           /\ req' = [req EXCEPT ![r] = k] /\ req'[r] = k
           /\ k.op = req[r].op /\ k.user = req[r].user /\ k.arg = req[r].arg /\ k.got = req[r].got
           /\ k.applied = (req[r].applied \/ TRUE)
           /\ \/ k.pc = req[r].pc /\ k.ans = req[r].ans
              \/ k.pc = "answered" /\ k.ans \in {"ok", "failed"}
    BY <1>1, <1>7, AttemptMakes
  <2>2. TurnInv'
    BY <1>6, <1>7, <2>1
  <2>3. theDir' = [theDir EXCEPT ![u] = v] /\ (q.applied => UNCHANGED theDir)
    BY <1>1, <1>2, <1>4, <1>7, DirSeen
  <2>4. k.pc # "answered" => theOps' = [theOps EXCEPT ![r].pc = "took"]
    BY <1>1, <2>1, TookSeen
  <2>5. k.pc = "answered" => theOps' = [theOps EXCEPT ![r].pc = "answered", ![r].ans = k.ans]
    BY <1>1, <2>1, AnswerSeen, Zenon
  <2>6. k.pc = "answered" => k.ans \in {"ok", "failed"}
    BY <1>1, <2>1
  <2>7. CASE ~q.applied
    BY <1>3, <1>5, <2>2, <2>3, <2>4, <2>5, <2>6, <2>7, TookEffect
  <2>8. CASE q.applied /\ k.pc = "answered"
    BY <1>3, <2>2, <2>3, <2>5, <2>6, <2>8, Finished
  <2>9. CASE q.applied /\ k.pc # "answered"
    <3>1. Asking(k) = Asking(q)
      BY <1>1, <2>1, <2>9 DEF Asking
    <3>2. UNCHANGED theOps
      BY <1>1, <2>1, <3>1, Asks1
    <3>3. QED
      BY <2>2, <2>3, <2>9, <3>2, NoStep
  <2>10. QED
    BY <2>7, <2>8, <2>9
<1>8. CASE /\ UNCHANGED vault
           /\ \/ Again(r) /\ req' = [req EXCEPT ![r] = Tried(r, FALSE)]
              \/ \E ans \in {"failed"} :
                   req' = [req EXCEPT ![r] = [Tried(r, FALSE) EXCEPT !.pc = "answered", !.ans = ans]]
  <2>1. PICK k \in ReqType :
           /\ req' = [req EXCEPT ![r] = k] /\ req'[r] = k
           /\ k.op = req[r].op /\ k.user = req[r].user /\ k.arg = req[r].arg /\ k.got = req[r].got
           /\ k.applied = (req[r].applied \/ FALSE)
           /\ \/ k.pc = req[r].pc /\ k.ans = req[r].ans
              \/ k.pc = "answered" /\ k.ans \in {"failed"}
    BY <1>1, <1>8, AttemptMakes
  <2>2. k.applied = q.applied
    BY <1>1, <2>1
  <2>3. TurnInv'
    BY <1>6, <1>8, <2>1, <2>2
  <2>4. UNCHANGED theDir
    BY <1>8 DEF theDir
  <2>5. k.pc = "answered" => theOps' = [theOps EXCEPT ![r].pc = "answered", ![r].ans = k.ans]
    BY <1>1, <2>1, AnswerSeen, Zenon
  <2>6. CASE k.pc = "answered"
    <3>1. theOps' = [theOps EXCEPT ![r].pc = "answered", ![r].ans = "failed"]
      BY <1>1, <2>1, <2>5, <2>6, Zenon
    <3>2. CASE q.applied
      BY <1>3, <2>3, <2>4, <3>1, <3>2, Finished
    <3>3. CASE ~q.applied
      BY <1>3, <2>3, <2>4, <3>1, <3>3, AnsweredUnchanged
    <3>4. QED
      BY <3>2, <3>3
  <2>7. CASE k.pc # "answered"
    <3>1. Asking(k) = Asking(q)
      BY <1>1, <2>1, <2>2, <2>7 DEF Asking
    <3>2. UNCHANGED theOps
      BY <1>1, <2>1, <3>1, Asks1
    <3>3. QED
      BY <2>3, <2>4, <3>2, NoStep
  <2>8. QED
    BY <2>6, <2>7
<1>9. QED
  BY <1>1, <1>7, <1>8 DEF Attempt
-------------------------------------------------------------------------------
(* An idle handler asks for nothing.                                       *)
LEMMA IdleAsks ==
  ASSUME NEW r \in Reqs, req'[r] = Idle
  PROVE  /\ Asks(r)' /\ Does(r)' /\ ~Changing(r)'
         /\ Asking(Idle) = Directory!Free
<1>1. /\ Idle.pc = "idle" /\ Idle.op = None
  BY IdleFits
<1>2. Asks(r)' /\ Does(r)' /\ ~Changing(r)'
  BY <1>1, ApiAssumption DEF Asks, Does, Changing
<1>3. Asking(Idle) = Directory!Free
  BY <1>1 DEF Asking, AskOf, Directory!Free
<1>4. QED
  BY <1>2, <1>3

LEMMA RespondStep ==
  ASSUME TurnInv, IInv', NEW r \in Reqs, Respond(r)
  PROVE  TurnInv' /\ DirectoryStep
<1>1. /\ req' = [req EXCEPT ![r] = Idle] /\ UNCHANGED vault /\ req[r].pc = "answered"
      /\ TypeOK /\ req[r] \in ReqType /\ req'[r] = Idle /\ Idle \in ReqType
  BY IdleFits DEF Respond, TurnInv, IInv, TypeOK
<1>2. Asks(r)' /\ Does(r)' /\ ~Changing(r)' /\ Asking(Idle) = Directory!Free
  BY <1>1, IdleAsks
<1>3. TurnInv'
  BY <1>1, <1>2, OthersWait
<1>4. UNCHANGED theDir
  BY <1>1 DEF theDir
<1>5. /\ theOps' = [theOps EXCEPT ![r] = Directory!Free]
      /\ theOps[r] = Asking(req[r])
      /\ Asking(Idle) = Asking(req[r]) => UNCHANGED theOps
  BY <1>1, <1>2, Asks1
<1>6. CASE req[r].op \in {None, "LIST"}
  <2>1. Asking(Idle) = Asking(req[r])
    BY <1>6, IdleFits DEF Asking
  <2>2. QED
    BY <1>3, <1>4, <1>5, <2>1, NoStep
<1>7. CASE req[r].op \notin {None, "LIST"}
  <2>1. theOps[r].pc = "answered"
    BY <1>1, <1>5, <1>7, AskingParts
  <2>2. QED
    BY <1>3, <1>4, <1>5, <2>1, Returned
<1>8. QED
  BY <1>6, <1>7

LEMMA RestartStep ==
  ASSUME TurnInv, IInv', Restart
  PROVE  TurnInv' /\ DirectoryStep
<1>1. \A r \in Reqs : req'[r] = Idle
  BY DEF Restart
<1>2. \A r \in Reqs : Asks(r)' /\ Does(r)' /\ ~Changing(r)' /\ Asking(Idle) = Directory!Free
  BY <1>1, IdleAsks
<1>3. TurnInv'
  BY <1>2 DEF TurnInv, InTurn
<1>4. theOps' = [r \in Reqs |-> Directory!Free]
  BY <1>1, <1>2 DEF theOps
<1>5. UNCHANGED theDir
  BY DEF Restart, theDir
<1>6. QED
  BY <1>3, <1>4, <1>5, Abandoned

(* An operator works on users no request is changing.                      *)
LEMMA OperatorStep ==
  ASSUME TurnInv, IInv', ~Overlap, NEW u \in Users, NEW raw \in OperatorWrites, Operator(u, raw)
  PROVE  TurnInv' /\ DirectoryStep
<1>1. /\ Untouched(u) /\ vault' = [vault EXCEPT ![u] = raw] /\ req' = req
      /\ TypeOK /\ raw \in Secrets
  BY ApiAssumption DEF Operator, TurnInv, IInv
<1>2. \A x \in Users \ {u} : vault'[x] = vault[x]
  BY <1>1 DEF TypeOK
<1>3. ASSUME NEW q \in Reqs
      PROVE  Asks(q)' /\ Does(q)'
  <2>1. Asks(q) /\ Does(q) /\ Stage(q) /\ req'[q] = req[q]
    BY <1>1 DEF TurnInv, IInv
  <2>2. req[q].pc \in {"write", "delete"} => vault'[req[q].user] = vault[req[q].user]
    <3>1. SUFFICES ASSUME req[q].pc \in {"write", "delete"}
                   PROVE  req[q].user \in Users \ {u}
      BY <1>2
    <3>2. Changing(q) /\ req[q].user \in Users
      BY <2>1, <3>1 DEF Does, Stage, Changing
    <3>3. QED
      BY <1>1, <3>2 DEF Untouched
  <2>3. QED
    BY <2>1, <2>2 DEF Asks, Does
<1>4. TurnInv'
  BY <1>1, <1>3 DEF TurnInv, InTurn, Changing
<1>5. UNCHANGED theOps
  BY <1>1 DEF theOps
<1>6. theDir' = [theDir EXCEPT ![u] = Shown(raw)]
  BY <1>1, DirSeen
<1>7. theDir' = [theDir EXCEPT ![u] = theDir'[u]] /\ theDir'[u] \in Views \cup {None, Deleted}
  <2>1. theDir'[u] = Shown(raw)
    BY <1>6 DEF theDir
  <2>2. Shown(raw) \in Views \cup {None, Deleted}
    BY <1>1, Conversions DEF Shown, Secrets
  <2>3. QED
    BY <1>6, <2>1, <2>2
<1>8. ASSUME NEW r \in Reqs, theOps[r].user = u
      PROVE  theOps[r].kind = "GET" \/ theOps[r].pc = "answered"
  <2>1. theOps[r] = Asking(req[r]) /\ req[r] \in ReqType
    BY <1>1 DEF theOps, TypeOK
  <2>2. req[r].op \notin {None, "LIST"}
    BY <1>8, <2>1, RecordsAssumption DEF Asking, AskOf
  <2>3. /\ theOps[r].kind = IF req[r].op = "POST" THEN "PUT" ELSE req[r].op
        /\ theOps[r].user = req[r].user
        /\ req[r].pc = "answered" => theOps[r].pc = "answered"
    BY <2>1, <2>2, AskingParts
  <2>4. ~Changing(r)
    BY <1>1, <1>8, <2>3 DEF Untouched
  <2>5. req[r].op = "GET" \/ req[r].pc = "answered"
    BY <2>1, <2>2, <2>4 DEF Changing, ReqType
  <2>6. QED
    BY <2>3, <2>5
<1>9. QED
  BY <1>4, <1>5, <1>7, <1>8, OperatorWorked
-------------------------------------------------------------------------------
LEMMA TurnInit == Init => TurnInv /\ Directory!Init
<1> SUFFICES ASSUME Init PROVE TurnInv /\ Directory!Init
  OBVIOUS
<1>1. /\ \A r \in Reqs : req[r] = Idle
      /\ vault \in [Users -> Secrets]
  BY ApiAssumption DEF Init, Secrets
<1>2. Idle.pc = "idle" /\ Idle.op = None
  BY IdleFits
<1>3. \A r \in Reqs : Asks(r) /\ Does(r) /\ ~Changing(r)
  BY <1>1, <1>2, ApiAssumption DEF Asks, Does, Changing
<1>4. TurnInv
  BY <1>3, InitHolds DEF TurnInv, InTurn
<1>5. \A u \in Users : Shown(vault[u]) \in Views \cup {None, Deleted}
  BY <1>1, Conversions DEF Shown, Secrets
<1>6. Directory!Init
  BY <1>1, <1>2, <1>5, SameRecords DEF Directory!Init, Directory!Free, Shown, Secrets
<1>7. QED
  BY <1>4, <1>6

LEMMA TurnStep ==
  ASSUME ~Overlap
  PROVE  TurnInv /\ [Next]_apiVars => TurnInv' /\ DirectoryStep
<1> SUFFICES ASSUME TurnInv, [Next]_apiVars PROVE TurnInv' /\ DirectoryStep
  OBVIOUS
<1>1. IInv'
  BY StepKeeps DEF TurnInv
<1>2. ASSUME NEW r \in Reqs, Handler(r) PROVE TurnInv' /\ DirectoryStep
  BY <1>1, <1>2, ValidateStep, ReadStep, AttemptStep, ListStep DEF Handler
<1>3. CASE UNCHANGED apiVars
  <2>1. TurnInv'
    BY <1>1, <1>3 DEF apiVars, TurnInv, InTurn, Changing, Asks, Does
  <2>2. UNCHANGED <<theDir, theOps>>
    BY <1>3 DEF apiVars, theDir, theOps
  <2>3. QED
    BY <2>1, <2>2, NoStep
<1>4. QED
  BY <1>1, <1>2, <1>3, ReceiveStep, RespondStep, RestartStep, OperatorStep DEF Next

(* Requests that change a user take turns, and what one is about to write  *)
(* stays what it makes of the record as it is.                             *)
THEOREM TurnsInductive ==
  ASSUME ~Overlap
  PROVE  Spec => []TurnInv
<1>1. Init => TurnInv
  BY TurnInit
<1>2. TurnInv /\ [Next]_apiVars => TurnInv'
  BY TurnStep
<1>3. QED
  BY <1>1, <1>2, PTL DEF Spec

(* Where requests that change a user do not overlap, the API implements    *)
(* the directory: whatever answers are lost, attempts repeated and         *)
(* processes restarted, each request takes effect once, at one moment      *)
(* between its arrival and its answer, and is answered with what the       *)
(* directory then holds, for any users, records, requests and number of    *)
(* attempts (main.go:113-229).                                             *)
THEOREM ApiIsADirectory ==
  ASSUME ~Overlap
  PROVE  Spec => ImplementsDirectory
<1>1. Init => Directory!Init
  BY TurnInit
<1>2. TurnInv /\ [Next]_apiVars =>
        [Directory!Next]_<<[u \in Users |-> IF vault[u] \in Raws THEN Decode(vault[u]) ELSE vault[u]],
                           [r \in Reqs |->
                              IF req[r].op \in {None, "LIST"}
                              THEN [pc |-> "free", kind |-> None, user |-> None, arg |-> None,
                                    ans |-> None, got |-> None]
                              ELSE Asked(r)]>>
  BY TurnStep DEF DirectoryStep, theDir, theOps, Shown, Asking, AskOf, Asked
<1>3. Spec => []TurnInv
  BY TurnsInductive
<1>4. QED
  BY <1>1, <1>2, <1>3, PTL DEF Spec, ImplementsDirectory, Directory!Spec

(* There a PATCH gives the fields it names the values it names, and spares *)
(* the others, of the record as it is when it is written, as far as the    *)
(* server reads them; which leaves out quotas and a "disabled" that is no  *)
(* JSON true, which are lost (main.go:169-216, 342-350).                   *)
THEOREM PatchesSpareTheRest ==
  ASSUME ~Overlap
  PROVE  Spec => PatchSparesTheRest
<1> DEFINE Good(r) ==
      /\ vault[req[r].user] \in Raws
      /\ Named(req[r].user, req[r].arg, vault'[req[r].user])
      /\ vault[req[r].user].disabled # Text =>
           Spared(req[r].user, req[r].arg, vault[req[r].user], vault'[req[r].user])
<1>1. ASSUME TurnInv, [Next]_apiVars, NEW r \in Reqs, PatchWrites(r), vault'[req[r].user] # vault[req[r].user]
      PROVE  Good(r)
  <2> DEFINE u == req[r].user
             p == req[r].arg
             old == vault[u]
             new == vault'[u]
  <2>1. /\ req[r].op = "PATCH" /\ req[r].pc = "write" /\ req'[r] # req[r] /\ u \in Users
        /\ Does(r) /\ TypeOK /\ req[r].got \in Views /\ Usable(Encode(req[r].got)) /\ p \in Partials
    BY <1>1, ApiAssumption DEF PatchWrites, TurnInv, IInv, Stage
  <2>2. Write(r)
    <3>1. ASSUME NEW q \in Reqs \ {r}, Write(q) \/ Delete(q) PROVE FALSE
      BY <2>1, <3>1, Zenon DEF Write, Delete, Attempt, TypeOK
    <3>2. ~Delete(r) /\ ~UNCHANGED vault /\ ~UNCHANGED req
      BY <1>1, <2>1 DEF Delete
    <3>3. PICK q \in Reqs : Write(q) \/ Delete(q)
      BY <1>1, <3>2, Zenon DEF Next, Handler, apiVars, Receive, Start, Validate, Read, ListNames,
                        ListItem, Respond, Restart, Operator
    <3>4. QED
      BY <3>1, <3>2, <3>3
  <2>3. new = Encode(req[r].got)
    BY <1>1, <2>1, <2>2 DEF Write, Attempt, TypeOK
  <2>4. old \in Raws /\ req[r].got = Normalize(u, Merge(Decode(old), p))
    BY <1>1, <2>1, <2>3 DEF Does
  <2> HIDE DEF u, p, old, new
  <2>5. /\ new.disabled = Given(p.disabled, old.disabled = TRUE)
        /\ new.rootSubdir = RootOf(u, Given(p.rootSubdir, old.rootSubdir))
        /\ new.publicKeys = Given(p.publicKeys, Decode(old).publicKeys) \ {Blank}
    BY <2>3, <2>4 DEF Encode, Normalize, Merge, Decode
  <2>6. /\ new.disabled \in BOOLEAN /\ new.rootSubdir # Empty
        /\ new.publicKeys # {} /\ Blank \notin new.publicKeys
    BY <2>1, <2>3, RecordsAssumption DEF Usable
  <2>7. Named(u, p, new)
    BY <2>5, <2>6 DEF Named, Given, RootOf, AsStringSlice
  <2>8. ASSUME old.disabled # Text PROVE Spared(u, p, old, new)
    <3>1. ASSUME p.disabled = Unset PROVE AsBool(new.disabled) = AsBool(old.disabled)
      <4>1. new.disabled = (old.disabled = TRUE) /\ new.disabled # Text
        BY <2>5, <2>6, <3>1, RecordsAssumption DEF Given
      <4>2. QED
        BY <2>8, <4>1 DEF AsBool
    <3>2. p.rootSubdir = Unset => RootOf(u, new.rootSubdir) = RootOf(u, old.rootSubdir)
      BY <2>5, <2>6 DEF Given, RootOf
    <3>3. ASSUME p.publicKeys = Unset PROVE AsStringSlice(new) = AsStringSlice(old)
      <4>1. Decode(old).publicKeys = old.publicKeys
        BY <2>5, <2>6, <3>3 DEF Given, Decode
      <4>2. QED
        BY <2>5, <3>3, <4>1 DEF Given, AsStringSlice
    <3>4. QED
      BY <3>1, <3>2, <3>3 DEF Spared
  <2>9. QED
    BY <2>4, <2>7, <2>8 DEF u, p, old, new
<1>2. TurnInv /\ [Next]_apiVars =>
        [\A r \in Reqs : PatchWrites(r) =>
           LET u == req[r].user
               old == vault[u]
           IN vault'[u] # old =>
                /\ old \in Raws
                /\ Named(u, req[r].arg, vault'[u])
                /\ old.disabled # Text => Spared(u, req[r].arg, old, vault'[u])]_apiVars
  BY <1>1
<1>3. QED
  BY <1>2, TurnsInductive, PTL DEF Spec, PatchSparesTheRest
==============================================================================
