----------------------------- MODULE MCAdminApi ------------------------------
(***************************************************************************)
(* Small instances of AdminApi.                                            *)
(***************************************************************************)
EXTENDS AdminApi, TLC

CONSTANTS alice, bob, key, other

View(d, root, ks) == [disabled |-> d, rootSubdir |-> root, publicKeys |-> ks]
Raw(d, root, ks, form, quotas) ==
  [disabled |-> d, rootSubdir |-> root, publicKeys |-> ks, keysAre |-> form, quotas |-> quotas]

(* POST and PUT name a root directory that either user may have, or a bad  *)
(* one.                                                                    *)
MCBodies == {View(FALSE, a, {key, Blank}) : a \in Users} \cup {View(TRUE, BadRoot, {key})}

(* One that goes back to the user's own root directory, and leaves without *)
(* keys a record whose keys were no list; and one with keys.               *)
MCPatches == {View(TRUE, Empty, Unset), View(Unset, Unset, {key})}

MCFilters == {[match |-> {alice, bob}, disabled |-> FALSE, limit |-> 2],
              [match |-> {alice, bob}, disabled |-> Unset, limit |-> 1]}

(* A record with quotas, one typed in by hand, none, and a deleted version.*)
MCOperatorWrites == {Raw(TRUE, Empty, {key}, "list", OwnQuotas),
                     Raw(Text, Empty, {key}, "string", Unset), None, Deleted}

MCPatchesApart == {View(TRUE, Unset, Unset), View(Unset, Unset, {other})}
MCSeed == {Raw(FALSE, alice, {key}, "list", Unset)}

(* A disabled user with quotas, typed in by hand, gets another key.        *)
MCPatchOfKeys == {View(Unset, Unset, {other})}
MCSeedByHand == {Raw(Text, alice, {key}, "list", OwnQuotas)}

Symmetry == Permutations(Users) \cup Permutations(Reqs)
==============================================================================
