----------------------------- MODULE MCSession -------------------------------
(***************************************************************************)
(* A small instance of Session.                                            *)
(***************************************************************************)
EXTENDS Session, TLC

CONSTANTS c1, k1, key, other

MCConnOf == (k1 :> c1)

(* An enabled user and the same user disabled. *)
MCRecords == {[disabled |-> d, publicKeys |-> {key}] : d \in BOOLEAN}
==============================================================================
