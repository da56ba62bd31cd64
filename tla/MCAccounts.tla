----------------------------- MODULE MCAccounts -----------------------------
(* An instance of Accounts for TLC.                                        *)
EXTENDS AccountsProperties, TLC

CONSTANTS u1, u2, e1, e2, d1, q1, q2, q3, Anna, anna, otto

MCLower == [n \in Names |-> IF n = Anna THEN anna ELSE n]

(* Requests only differ in what they call, and emails in nothing.           *)
Alike == Permutations(Requests) \cup Permutations(Emails)
=============================================================================
