------------------------- MODULE ContactsProperties -------------------------
(***************************************************************************)
(* What the contact endpoints promise.                                     *)
(***************************************************************************)
EXTENDS Contacts

Resolvers == {"accept", "decline", "cancel"}
Resolved(c) == op[c].kind \in Resolvers /\ answer[c] = "no_content"

(* contacts.rs:647-652, 743-748, 786-790: of the calls that race to accept, *)
(* decline or cancel a request, at most one is told that it succeeded.     *)
ResolvedOnce ==
  \A c, d \in Calls : Resolved(c) /\ Resolved(d) /\ op[c].req = op[d].req => c = d

(* contacts.rs:605-676: the contacts rows of an accept and the end of its  *)
(* request are one transaction.  While such a row exists its request is    *)
(* gone, and nobody else was told to have declined or cancelled it.        *)
ConsentIsRespected ==
  \A r \in contacts :
    op[r.by].kind = "accept" =>
      /\ requests[op[r.by].req] = "gone"
      /\ \A d \in Calls \ {r.by} : Resolved(d) => op[d].req # op[r.by].req

(* Every call is answered: the transactions that wait for each other       *)
(* (crossed accepts, mutual removals) end, and none is left open with rows *)
(* that others wait for.                                                   *)
EveryCallIsAnswered ==
  \A c \in Calls : pc[c] # "idle" ~> answer[c] # "none"
----------------------------------------------------------------------------
(* The strengthening of ResolvedOnce and ConsentIsRespected that is        *)
(* inductive (ContactsProofs).                                             *)

StatementsOf(k) ==
  {s \in Statements \cup {"idle", "done"} :
     \/ k = "none" /\ s = "idle"
     \/ k = "add" /\ s \in {"insert", "done"}
     \/ k = "create"
         /\ s \in {"check_contacts", "check_crossed", "insert_request", "done"}
     \/ k = "accept"
         /\ s \in {"load", "insert", "insert_reverse", "resolve", "commit", "done"}
     \/ k = "remove" /\ s \in {"delete", "delete_reverse", "commit", "done"}
     \/ k \in {"decline", "cancel"} /\ s \in {"load", "resolve", "commit", "done"}}

(* A call runs the statements of its endpoint and is answered at its end.  *)
InItsEndpoint ==
  \A c \in Calls :
    /\ pc[c] \in StatementsOf(op[c].kind)
    /\ answer[c] # "none" => pc[c] = "done"

(* A request row belongs to a create call that is over, and a call only    *)
(* asks to resolve a row that has existed.                                 *)
RequestsExist ==
  \A c \in Calls :
    /\ requests[c] # "none" => op[c].kind = "create" /\ pc[c] = "done"
    /\ op[c].kind \in Resolvers => requests[op[c].req] # "none"

(* Between its UPDATE or DELETE and its commit a transaction has a pending *)
(* row to itself.                                                          *)
HoldsItsRequest ==
  /\ \A c \in Calls :
       /\ written[c] # "none" => pc[c] = "commit" /\ op[c].kind \in Resolvers
       /\ pc[c] = "commit" /\ op[c].kind \in Resolvers =>
            /\ requests[op[c].req] = "pending"
            /\ written[c] = IF op[c].kind = "decline" THEN "declined" ELSE "gone"
  /\ \A c, d \in Calls :
       written[c] # "none" /\ written[d] # "none" /\ op[c].req = op[d].req => c = d

(* What was resolved does not become pending again.                        *)
ResolvedForGood ==
  \A c \in Calls : Resolved(c) => requests[op[c].req] \in {"declined", "gone"}

(* Rows bear the name of the call that inserted them.                      *)
RowsAreSigned ==
  /\ \A c \in Calls : \A r \in inserted[c] :
       r.by = c /\ op[c].kind = "accept" /\ pc[c] # "done"
  /\ \A r \in contacts : pc[r.by] = "done"

(* What makes one outcome per request inductive: a transaction that has    *)
(* written a request owns it until it commits or rolls back, and what it   *)
(* inserted bears its name (contacts.rs:605-676, 719-754, 756-796).        *)
ConsentInv ==
  /\ InItsEndpoint
  /\ RequestsExist
  /\ HoldsItsRequest
  /\ ResolvedForGood
  /\ RowsAreSigned
  /\ ResolvedOnce
  /\ ConsentIsRespected
----------------------------------------------------------------------------
(* docs/superpowers/specs/2026-09-13-mutual-contacts-design.md:85 rules out *)
(* "Making contacts anything other than symmetric once accepted", and its  *)
(* line 42 has both rows inserted atomically in the same transaction.      *)
SymmetricContacts ==
  \A u, v \in Users :
    RowsOf(<<u, v>>, contacts) # {} => RowsOf(<<v, u>>, contacts) # {}
=============================================================================
