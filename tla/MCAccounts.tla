------------------------------ MODULE MCAccounts ------------------------------
(* Two spellings of one name and one of another; every field of a profile     *)
(* starts alike, and two of them are given another value, alone or together.  *)
EXTENDS Accounts, TLC

CONSTANTS alice, bob, typed1, typed2, typed3, old, new

MCNames == {alice, bob}
MCSpellings == {typed1, typed2, typed3}
MCNameOf == typed1 :> alice @@ typed2 :> alice @@ typed3 :> bob

MCValues == {old, new}
MCFresh == {[f \in Fields |-> old]}
MCAsked == UNION {[named -> {new}] : named \in SUBSET {"displayName", "bio"} \ {{}}}

Symmetry == Permutations(Ids) \cup Permutations(Workers)
===============================================================================
