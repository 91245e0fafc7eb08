---------------------------- MODULE UserDirectory ----------------------------
(***************************************************************************)
(* What the admin API promises: a directory of users on which a request    *)
(* takes effect at one moment between its arrival and its answer.  One     *)
(* answered with a failure has taken effect once or not at all.  A listing *)
(* is no single moment and is not part of it.                              *)
(***************************************************************************)
EXTENDS UserRecords

CONSTANT Reqs

VARIABLES
  dir,  \* user -> view, None or Deleted
  op    \* request -> what is asked and how far it is

Free == [pc |-> "free", kind |-> None, user |-> None, arg |-> None, ans |-> None, got |-> None]

Init ==
  /\ dir \in [Users -> Views \cup {None, Deleted}]
  /\ op = [r \in Reqs |-> Free]

Called == [pc : {"called"}, kind : {"PUT", "PATCH", "DELETE", "GET"},
           user : Users \cup {BadName}, arg : Partials \cup {None},
           ans : {None}, got : {None}]

Call(r) ==
  /\ op[r].pc = "free"
  /\ op'[r] \in Called
  /\ op' = [op EXCEPT ![r] = op'[r]]
  /\ UNCHANGED dir

(* What a request makes of the user it names; nothing if it must not.      *)
Outcome(o) ==
  LET old == dir[o.user]
      new == Normalize(o.user, IF o.kind = "PUT" THEN o.arg ELSE Merge(old, o.arg))
  IN CASE o.user \notin Users -> {}
       [] o.kind = "PUT"    -> IF Valid(o.user, new) THEN {new} ELSE {}
       [] o.kind = "PATCH"  -> IF old \in Views /\ Valid(o.user, new) THEN {new} ELSE {}
       [] o.kind = "DELETE" -> IF old \in Views THEN {None} ELSE {}
       [] OTHER -> {}

TakeEffect(r) ==
  /\ op[r].pc = "called"
  /\ \E v \in Outcome(op[r]) : dir' = [dir EXCEPT ![op[r].user] = v]
  /\ \/ op' = [op EXCEPT ![r].pc = "took"]
     \/ \E a \in {"ok", "failed"} : op' = [op EXCEPT ![r].pc = "answered", ![r].ans = a]

Refused(o) ==
  \/ o.user \notin Users
  \/ o.kind = "PUT" /\ Outcome(o) = {}
  \/ o.kind = "PATCH" /\ dir[o.user] \in Views /\ Outcome(o) = {}

(* An answer that changes nothing must be true of the directory as it is.  *)
Answered(r) ==
  LET o == op[r] IN
  /\ o.pc = "called"
  /\ \/ op' = [op EXCEPT ![r].pc = "answered", ![r].ans = "failed"]
     \/ /\ Refused(o)
        /\ op' = [op EXCEPT ![r].pc = "answered", ![r].ans = "invalid"]
     \/ /\ o.kind # "PUT" /\ o.user \in Users /\ dir[o.user] = None
        /\ op' = [op EXCEPT ![r].pc = "answered", ![r].ans = "notFound"]
     \/ /\ o.kind = "GET" /\ o.user \in Users /\ dir[o.user] \in Views
        /\ op' = [op EXCEPT ![r].pc = "answered", ![r].ans = "ok", ![r].got = dir[o.user]]
  /\ UNCHANGED dir

Finish(r) ==
  /\ op[r].pc = "took"
  /\ \E a \in {"ok", "failed"} : op' = [op EXCEPT ![r].pc = "answered", ![r].ans = a]
  /\ UNCHANGED dir

Return(r) ==
  /\ op[r].pc = "answered"
  /\ op' = [op EXCEPT ![r] = Free]
  /\ UNCHANGED dir

(* The API's process ends: requests under way get no answer.               *)
Abandon == op' = [r \in Reqs |-> Free] /\ UNCHANGED dir

(* An operator works on Vault itself, on users no request is changing.     *)
Operator ==
  /\ \E u \in Users :
       /\ \A r \in Reqs : op[r].user = u => op[r].kind = "GET" \/ op[r].pc = "answered"
       /\ dir'[u] \in Views \cup {None, Deleted}
       /\ dir' = [dir EXCEPT ![u] = dir'[u]]
  /\ UNCHANGED op

Next ==
  \/ \E r \in Reqs : Call(r) \/ TakeEffect(r) \/ Answered(r) \/ Finish(r) \/ Return(r)
  \/ Abandon
  \/ Operator

Spec == Init /\ [][Next]_<<dir, op>>
==============================================================================
