------------------------- MODULE AccountsProperties -------------------------
(***************************************************************************)
(* What the account endpoints of apps/api promise, whichever requests run  *)
(* at the same time.                                                       *)
(***************************************************************************)
EXTENDS Accounts

(* Sessions, keys and push tokens never belong to an account that has been *)
(* deleted or never was: account.rs relies on the cascade of the foreign   *)
(* keys, while keys.rs and push_tokens.rs write for an account they read   *)
(* before.                                                                 *)
NothingOutlivesItsAccount ==
  sessions \cup keys \cup {owner[d] : d \in Devices} \subseteq Live \cup {None}

(* No two accounts have the same email or, however they typed it, the same *)
(* user name, although signup looks a name up long before it inserts it    *)
(* and username.rs does not look at all.                                   *)
NamesUnique ==
  \A u, v \in Live : u # v => /\ row[u].email # row[v].email
                             /\ Lower[row[u].name] # Lower[row[v].name]

(* users.image only says there is an avatar when the object store holds    *)
(* one of an accepted size.  A later upload that is too large, which       *)
(* confirm_upload purges without a look at users.image, is the only way to *)
(* break it.                                                               *)
ImageIsServable ==
  \A u \in Live \ oversized : row[u].image => object[u] = "small"

(* The search's limiter lets at most twice its budget through in any       *)
(* stretch as long as its window of two ticks.                             *)
SearchBudget == granted[1] + granted[2] <= 2 * MaxSearches
=============================================================================
