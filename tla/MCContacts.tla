----------------------------- MODULE MCContacts -----------------------------
(***************************************************************************)
(* Instances of the contact endpoints for TLC: two users, and calls that   *)
(* may each be any endpoint with any arguments.                            *)
(***************************************************************************)
EXTENDS ContactsProperties, TLC

Interchangeable == Permutations(Calls) \cup Permutations(Users)
=============================================================================
