--------------------------- MODULE ContactsProofs ---------------------------
(***************************************************************************)
(* Theorems about the contact endpoints, for any users and calls.  The     *)
(* actions are first reduced to seven shapes (StepShape); each conjunct of *)
(* the inductive invariant then has one step for each shape.               *)
(***************************************************************************)
EXTENDS ContactsProperties, TLAPS

Inv == TypeOK /\ ConsentInv

Failures == {"conflict", "not_found", "forbidden", "error"}

(* The shapes of a step of call c.                                         *)
Fails(c) == pc[c] \in Statements /\ \E a \in Failures : RollBack(c, a)

Advances(c) ==
  /\ pc[c] \in Statements \ {"commit"}
  /\ \E s \in StatementsOf(op[c].kind) \ {"idle", "done"} :
       /\ Goto(c, s)
       /\ s = "commit" => op[c].kind = "remove"
  /\ deleted' \in [Calls -> SUBSET Row]
  /\ target' \in [Calls -> Row \cup {None}]
  /\ \/ UNCHANGED inserted
     \/ /\ op[c].kind = "accept"
        /\ \E p \in Users \X Users :
             inserted' = [inserted EXCEPT ![c] = @ \cup {NewRow(p, c)}]
  /\ UNCHANGED <<contacts, requests, op, written, answer>>

Adds(c) ==
  /\ pc[c] = "insert" /\ op[c].kind = "add"
  /\ Close(c, "created")
  /\ \E p \in Users \X Users : contacts' = contacts \cup {NewRow(p, c)}
  /\ UNCHANGED requests

Asks(c) ==
  /\ pc[c] = "insert_request"
  /\ Close(c, "created")
  /\ requests' = [requests EXCEPT ![c] = "pending"]
  /\ UNCHANGED contacts

Takes(c) ==
  /\ pc[c] = "resolve" /\ Holders(c) = {}
  /\ requests[op[c].req] = "pending"
  /\ written' = [written EXCEPT ![c] =
       IF op[c].kind = "decline" THEN "declined" ELSE "gone"]
  /\ Goto(c, "commit")
  /\ UNCHANGED <<contacts, requests, op, inserted, deleted, target, answer>>

Ends(c) == pc[c] = "commit" /\ \E a \in {"no_content", "error"} : Apply(c, a)

Shapes(c) ==
  Fails(c) \/ Advances(c) \/ Adds(c) \/ Asks(c) \/ Takes(c) \/ Ends(c)

(* The users of the row that a statement is on are users: those of the     *)
(* call itself or, for an accept, those of the request it names.           *)
LEMMA PairType ==
  ASSUME Inv, NEW c \in Calls,
         op[c].kind \in {"add", "remove", "accept"}
  PROVE  Pair(c) \in Users \X Users
<1>1. \A d \in Calls : op[d].kind \in {"add", "create", "remove"} =>
        op[d].user \in Users /\ op[d].other \in Users
  BY DEF Inv, TypeOK, Op, NoOp
<1>2. op[c].kind = "accept" =>
        op[c].req \in Calls /\ op[op[c].req].kind = "create"
  BY DEF Inv, TypeOK, Op, NoOp, ConsentInv, RequestsExist, Resolvers
<1>3. First(c) \in Users \X Users
  BY <1>1, <1>2 DEF First, Requester, Recipient
<1>4. QED
  BY <1>3 DEF Pair

(* A row that a call inserts is a row of the contacts table.               *)
LEMMA NewRowType ==
  ASSUME NEW c \in Calls, NEW p \in Users \X Users
  PROVE  NewRow(p, c) \in Row
  BY DEF NewRow, Row

(* What a DELETE is after is a set of rows.                                *)
LEMMA ScannedType ==
  ASSUME Inv, NEW c \in Calls
  PROVE  Scanned(c) \subseteq Row
  BY DEF Scanned, RowsOf, Inv, TypeOK

(* Every step of a call has one of the shapes.                             *)
LEMMA StepShape ==
  ASSUME Inv, NEW c \in Calls, Step(c)
  PROVE  Shapes(c)
<1> USE DEF Statements, StatementsOf, Failures
<1>0. pc[c] \in StatementsOf(op[c].kind)
  BY DEF Inv, ConsentInv, InItsEndpoint
<1>1. CASE AddContact(c)
  <2>1. Pair(c) \in Users \X Users
    BY <1>1, PairType DEF AddContact
  <2>2. QED
    BY <1>1, <2>1 DEF AddContact, Runs, Shapes, Adds, Fails
<1>2. CASE DeleteWaits(c)
  <2>1. op[c].kind = "remove"
    BY <1>0, <1>2, ZenonT(30) DEF DeleteWaits
  <2>2. PICK r \in Row : target' = [target EXCEPT ![c] = r]
    BY <1>2, ScannedType DEF DeleteWaits
  <2>3. Goto(c, pc[c])
    BY <1>2 DEF DeleteWaits, Goto, Inv, TypeOK
  <2>4. QED
    BY <1>2, <2>1, <2>2, <2>3 DEF DeleteWaits, Shapes, Advances, Inv, TypeOK
<1>3. ASSUME Runs(c, "delete") \/ Runs(c, "delete_reverse"),
             NEW s \in {"delete_reverse", "commit"}, Delete(c, s)
      PROVE  Advances(c)
  <2>1. op[c].kind = "remove"
    BY <1>0, <1>3 DEF Runs
  <2>2. deleted' \in [Calls -> SUBSET Row] /\ target' \in [Calls -> Row \cup {None}]
    BY <1>3, ScannedType DEF Delete, Inv, TypeOK
  <2>3. QED
    BY <1>3, <2>1, <2>2 DEF Delete, Advances, Runs
<1>4. CASE DeleteOwn(c)
  BY <1>3, <1>4 DEF DeleteOwn, Shapes, Fails, Runs
<1>5. CASE DeleteReverse(c)
  BY <1>3, <1>5 DEF DeleteReverse, Shapes
<1>6. ASSUME pc[c] \in Statements \ {"commit"},
             NEW s \in StatementsOf(op[c].kind) \ {"idle", "done", "commit"},
             Reads(c, s)
      PROVE  Advances(c)
  BY <1>6 DEF Reads, txVars, Advances, Inv, TypeOK
<1>7. CASE CheckContacts(c)
  <2>1. op[c].kind = "create"
    BY <1>0, <1>7 DEF CheckContacts, Runs
  <2>2. QED
    BY <1>6, <1>7, <2>1 DEF CheckContacts, Runs, Shapes, Fails
<1>8. CASE CheckCrossed(c)
  <2>1. op[c].kind = "create"
    BY <1>0, <1>8 DEF CheckCrossed, Runs
  <2>2. QED
    BY <1>6, <1>8, <2>1 DEF CheckCrossed, Runs, Shapes, Fails
<1>9. CASE InsertRequest(c)
  BY <1>9 DEF InsertRequest, Runs, Shapes, Fails, Asks
<1>10. CASE LoadPending(c)
  <2>1. op[c].kind \in Resolvers
    BY <1>0, <1>10 DEF LoadPending, Runs, Inv, TypeOK, Op, NoOp, Resolvers
  <2>2. QED
    BY <1>6, <1>10, <2>1 DEF LoadPending, Runs, Shapes, Fails, Resolvers
<1>11. ASSUME NEW s \in {"insert", "insert_reverse"},
              NEW next \in {"insert_reverse", "resolve"}, InsertRow(c, s, next)
       PROVE  Advances(c)
  <2>1. Pair(c) \in Users \X Users
    BY <1>11, PairType DEF InsertRow
  <2>2. QED
    BY <1>11, <2>1 DEF InsertRow, Runs, Advances, Inv, TypeOK
<1>12. CASE InsertContact(c) \/ InsertReverse(c)
  BY <1>11, <1>12 DEF InsertContact, InsertReverse, Shapes
<1>13. CASE Resolve(c)
  BY <1>13 DEF Resolve, Runs, Shapes, Fails, Takes
<1>14. CASE Commit(c) \/ CommitUnconfirmed(c)
  BY <1>14 DEF Commit, CommitUnconfirmed, Runs, Shapes, Ends
<1>15. CASE DeadlockVictim(c)
  <2>1. pc[c] \in Statements
    BY <1>15 DEF DeadlockVictim, Holders
  <2>2. QED
    BY <1>15, <2>1 DEF DeadlockVictim, Shapes, Fails
<1>16. CASE StatementFails(c)
  BY <1>16 DEF StatementFails, Shapes, Fails
<1>17. QED
  BY <1>1, <1>2, <1>4, <1>5, <1>7, <1>8, <1>9, <1>10, <1>12, <1>13, <1>14,
     <1>15, <1>16 DEF Step

(* A call that begins asks for something of its own and runs its first     *)
(* statement; a request that it names exists.                              *)
Begins(c) ==
  /\ pc[c] = "idle"
  /\ \E o \in Op \ {NoOp} :
       /\ op' = [op EXCEPT ![c] = o]
       /\ o.kind \in Resolvers => requests[o.req] # "none"
       /\ \E s \in StatementsOf(o.kind) \ {"idle", "done", "commit"} : Goto(c, s)
  /\ UNCHANGED <<contacts, requests, inserted, deleted, target, written, answer>>

(* Every call of an endpoint begins like this.                             *)
LEMMA BeginShape ==
  ASSUME NEW c \in Calls, BeginCall(c)
  PROVE  Begins(c)
<1>1. ASSUME NEW k \in {"add", "create", "remove"},
             NEW s \in StatementsOf(k) \ {"idle", "done", "commit"},
             BeginOnUser(c, k, s)
      PROVE  Begins(c)
  <2>1. PICK u \in Users, v \in Users :
          Begin(c, [kind |-> k, user |-> u, other |-> v, req |-> None], s)
    BY <1>1 DEF BeginOnUser
  <2> DEFINE o == [kind |-> k, user |-> u, other |-> v, req |-> None]
  <2>2. o \in Op \ {NoOp}
    <3>1. o \in Op
      BY DEF Op
    <3>2. o.kind # NoOp.kind
      BY DEF NoOp
    <3>3. QED
      BY <3>1, <3>2
  <2>3. o.kind = k /\ k \notin Resolvers
    BY DEF Resolvers
  <2> HIDE DEF o
  <2>4. QED
    BY <2>1, <2>2, <2>3 DEF Begin, Begins, txVars, o
<1>2. ASSUME NEW k \in {"accept", "decline", "cancel"}, BeginOnRequest(c, k)
      PROVE  Begins(c)
  <2>1. PICK u \in Users, q \in Calls :
          /\ requests[q] # "none"
          /\ Begin(c, [kind |-> k, user |-> u, other |-> None, req |-> q], "load")
    BY <1>2 DEF BeginOnRequest
  <2> DEFINE o == [kind |-> k, user |-> u, other |-> None, req |-> q]
  <2>2. o \in Op \ {NoOp}
    <3>1. o \in Op
      BY DEF Op
    <3>2. o.kind # NoOp.kind
      BY DEF NoOp
    <3>3. QED
      BY <3>1, <3>2
  <2>3. o.kind = k /\ o.req = q
    OBVIOUS
  <2>4. "load" \in StatementsOf(k) \ {"idle", "done", "commit"}
    BY DEF StatementsOf, Resolvers, Statements
  <2> HIDE DEF o
  <2>5. QED
    BY <2>1, <2>2, <2>3, <2>4 DEF Begin, Begins, txVars, o
<1>3. /\ "insert" \in StatementsOf("add") \ {"idle", "done", "commit"}
      /\ "check_contacts" \in StatementsOf("create") \ {"idle", "done", "commit"}
      /\ "delete" \in StatementsOf("remove") \ {"idle", "done", "commit"}
  BY DEF StatementsOf, Resolvers, Statements
<1>4. QED
  BY <1>1, <1>2, <1>3 DEF BeginCall

(* Step by step the state keeps its types.                                 *)
LEMMA TypeNext ==
  ASSUME Inv, NEW c \in Calls, Begins(c) \/ Shapes(c)
  PROVE  TypeOK'
<1> USE DEF Inv, TypeOK, Goto, Close, Statements, StatementsOf, Answers, Failures
<1>1. CASE Begins(c)
  BY <1>1 DEF Begins
<1>2. CASE Fails(c)
  BY <1>2 DEF Fails, RollBack
<1>3. CASE Advances(c)
  <2>1. inserted' \in [Calls -> SUBSET Row]
    <3>1. CASE UNCHANGED inserted
      BY <3>1
    <3>2. ASSUME NEW p \in Users \X Users,
                 inserted' = [inserted EXCEPT ![c] = @ \cup {NewRow(p, c)}]
          PROVE  inserted' \in [Calls -> SUBSET Row]
      BY <3>2, NewRowType
    <3>3. QED
      BY <1>3, <3>1, <3>2 DEF Advances
  <2>2. PICK s \in Statements \cup {"idle", "done"} : pc' = [pc EXCEPT ![c] = s]
    BY <1>3 DEF Advances
  <2>3. pc' \in [Calls -> Statements \cup {"idle", "done"}]
    BY <2>2
  <2>4. QED
    BY <1>3, <2>1, <2>3 DEF Advances
<1>4. CASE Adds(c)
  BY <1>4, NewRowType DEF Adds
<1>5. CASE Asks(c)
  BY <1>5 DEF Asks
<1>6. CASE Takes(c)
  BY <1>6 DEF Takes
<1>7. CASE Ends(c)
  <2>1. PICK a \in {"no_content", "error"} : Apply(c, a)
    BY <1>7 DEF Ends
  <2>2. contacts' \subseteq Row
    BY <2>1 DEF Apply
  <2>3. requests' \in [Calls -> {"none", "pending", "declined", "gone"}]
    BY <2>1 DEF Apply
  <2>4. QED
    BY <2>1, <2>2, <2>3 DEF Apply
<1>8. QED
  BY <1>1, <1>2, <1>3, <1>4, <1>5, <1>6, <1>7 DEF Shapes

(* A call stays within the statements of its endpoint.                     *)
LEMMA EndpointNext ==
  ASSUME Inv, NEW c \in Calls, Begins(c) \/ Shapes(c)
  PROVE  InItsEndpoint'
<1> USE DEF Inv, TypeOK, ConsentInv, InItsEndpoint, Goto, Close, Statements,
  StatementsOf
<1>1. CASE Begins(c)
  BY <1>1 DEF Begins
<1>2. CASE Fails(c)
  BY <1>2 DEF Fails, RollBack
<1>3. CASE Advances(c)
  BY <1>3 DEF Advances
<1>4. CASE Adds(c)
  BY <1>4 DEF Adds
<1>5. CASE Asks(c)
  BY <1>5 DEF Asks
<1>6. CASE Takes(c)
  BY <1>6 DEF Takes
<1>7. CASE Ends(c)
  BY <1>7 DEF Ends, Apply
<1>8. QED
  BY <1>1, <1>2, <1>3, <1>4, <1>5, <1>6, <1>7 DEF Shapes

(* Requests are only asked to be resolved once they exist.                 *)
LEMMA RequestsNext ==
  ASSUME Inv, NEW c \in Calls, Begins(c) \/ Shapes(c)
  PROVE  RequestsExist'
<1> USE DEF Inv, TypeOK, ConsentInv, InItsEndpoint, RequestsExist, Goto, Close,
  Statements, StatementsOf
<1>0. \A d \in Calls : op[d].kind \in Resolvers => op[d].req \in Calls
  BY DEF Op, NoOp, Resolvers
<1>1. CASE Begins(c)
  BY <1>0, <1>1 DEF Begins
<1>2. CASE Fails(c)
  BY <1>2 DEF Fails, RollBack
<1>3. CASE Advances(c)
  BY <1>3 DEF Advances
<1>4. CASE Adds(c)
  BY <1>4 DEF Adds
<1>5. CASE Asks(c)
  BY <1>0, <1>5 DEF Asks
<1>6. CASE Takes(c)
  BY <1>6 DEF Takes
<1>7. CASE Ends(c)
  BY <1>0, <1>7 DEF Ends, Apply, HoldsItsRequest
<1>8. QED
  BY <1>1, <1>2, <1>3, <1>4, <1>5, <1>6, <1>7 DEF Shapes

(* Nobody else writes the request row that a transaction has written.      *)
LEMMA HoldsNext ==
  ASSUME Inv, NEW c \in Calls, Begins(c) \/ Shapes(c)
  PROVE  HoldsItsRequest'
<1> USE DEF Inv, TypeOK, ConsentInv, InItsEndpoint, RequestsExist,
  HoldsItsRequest, Goto, Close, Statements, StatementsOf
<1>0. \A d \in Calls : op[d].kind \in Resolvers => op[d].req \in Calls
  BY DEF Op, NoOp, Resolvers
<1>1. CASE Begins(c)
  BY <1>0, <1>1 DEF Begins
<1>2. CASE Fails(c)
  BY <1>2 DEF Fails, RollBack
<1>3. CASE Advances(c)
  BY <1>3 DEF Advances, Resolvers
<1>4. CASE Adds(c)
  BY <1>4 DEF Adds
<1>5. CASE Asks(c)
  BY <1>0, <1>5 DEF Asks
<1>6. CASE Takes(c)
  BY <1>0, <1>6 DEF Takes, Holders, Resolvers
<1>7. CASE Ends(c)
  BY <1>0, <1>7 DEF Ends, Apply
<1>8. QED
  BY <1>1, <1>2, <1>3, <1>4, <1>5, <1>6, <1>7 DEF Shapes

(* A resolved request stays resolved, and a request is resolved only once. *)
LEMMA ResolvedNext ==
  ASSUME Inv, NEW c \in Calls, Begins(c) \/ Shapes(c)
  PROVE  ResolvedForGood' /\ ResolvedOnce'
<1> USE DEF Inv, TypeOK, ConsentInv, InItsEndpoint, RequestsExist,
  HoldsItsRequest, ResolvedForGood, ResolvedOnce, Resolved, Goto, Close
<1>0. \A d \in Calls : op[d].kind \in Resolvers => op[d].req \in Calls
  BY DEF Op, NoOp, Resolvers
<1>1. CASE Begins(c)
  BY <1>0, <1>1 DEF Begins, StatementsOf
<1>2. CASE Fails(c)
  BY <1>2 DEF Fails, RollBack, Failures
<1>3. CASE Advances(c)
  BY <1>3 DEF Advances
<1>4. CASE Adds(c)
  BY <1>4 DEF Adds
<1>5. CASE Asks(c)
  BY <1>0, <1>5 DEF Asks
<1>6. CASE Takes(c)
  BY <1>6 DEF Takes
<1>7. CASE Ends(c)
  BY <1>0, <1>7 DEF Ends, Apply
<1>8. QED
  BY <1>1, <1>2, <1>3, <1>4, <1>5, <1>6, <1>7 DEF Shapes

(* Rows are inserted by accepts that are under way or by calls that ended. *)
LEMMA SignedNext ==
  ASSUME Inv, NEW c \in Calls, Begins(c) \/ Shapes(c)
  PROVE  RowsAreSigned'
<1> USE DEF Inv, TypeOK, ConsentInv, InItsEndpoint, RowsAreSigned, Row, Goto,
  Close, NewRow, Statements, StatementsOf
<1>1. CASE Begins(c)
  BY <1>1 DEF Begins
<1>2. CASE Fails(c)
  BY <1>2 DEF Fails, RollBack
<1>3. CASE Advances(c)
  BY <1>3 DEF Advances
<1>4. CASE Adds(c)
  BY <1>4 DEF Adds
<1>5. CASE Asks(c)
  BY <1>5 DEF Asks
<1>6. CASE Takes(c)
  BY <1>6 DEF Takes
<1>7. CASE Ends(c)
  BY <1>7 DEF Ends, Apply
<1>8. QED
  BY <1>1, <1>2, <1>3, <1>4, <1>5, <1>6, <1>7 DEF Shapes

(* The request of an accepted contact is gone, and was nobody else's.      *)
LEMMA ConsentNext ==
  ASSUME Inv, NEW c \in Calls, Begins(c) \/ Shapes(c)
  PROVE  ConsentIsRespected'
<1> USE DEF Inv, TypeOK, ConsentInv, InItsEndpoint, RequestsExist,
  HoldsItsRequest, ResolvedForGood, RowsAreSigned, ConsentIsRespected, Resolved,
  Row, Goto, Close
<1>0. \A d \in Calls : op[d].kind \in Resolvers => op[d].req \in Calls
  BY DEF Op, NoOp, Resolvers
<1>1. CASE Begins(c)
  BY <1>0, <1>1 DEF Begins, StatementsOf
<1>2. CASE Fails(c)
  BY <1>2 DEF Fails, RollBack, Failures
<1>3. CASE Advances(c)
  BY <1>3 DEF Advances
<1>4. CASE Adds(c)
  BY <1>4 DEF Adds, NewRow
<1>5. CASE Asks(c)
  BY <1>0, <1>5 DEF Asks, Resolvers
<1>6. CASE Takes(c)
  BY <1>6 DEF Takes
<1>7. CASE Ends(c)
  BY <1>0, <1>7 DEF Ends, Apply, Resolvers
<1>8. QED
  BY <1>1, <1>2, <1>3, <1>4, <1>5, <1>6, <1>7 DEF Shapes

(* The invariant holds at the start and in every later state.              *)
LEMMA Invariance == Spec => []Inv
<1>1. Init => Inv
  BY DEF Init, Inv, TypeOK, ConsentInv, InItsEndpoint, RequestsExist,
    HoldsItsRequest, ResolvedForGood, RowsAreSigned, ResolvedOnce,
    ConsentIsRespected, Resolved, Resolvers, NoOp, Op, Statements, StatementsOf
<1>2. Inv /\ [Next]_vars => Inv'
  <2>1. ASSUME Inv, NEW c \in Calls, BeginCall(c) \/ Step(c) PROVE Inv'
    <3>1. Begins(c) \/ Shapes(c)
      BY <2>1, BeginShape, StepShape
    <3>2. QED
      BY <2>1, <3>1, TypeNext, EndpointNext, RequestsNext, HoldsNext,
        ResolvedNext, SignedNext, ConsentNext DEF Inv, ConsentInv
  <2>2. ASSUME Inv, UNCHANGED vars PROVE Inv'
    BY <2>2 DEF vars, txVars, Inv, TypeOK, ConsentInv, InItsEndpoint,
      RequestsExist, HoldsItsRequest, ResolvedForGood, RowsAreSigned,
      ResolvedOnce, ConsentIsRespected, Resolved
  <2>3. QED
    BY <2>1, <2>2 DEF Next
<1>3. QED
  BY <1>1, <1>2, PTL DEF Spec

(* The types of the tables, the open transactions and the answers.         *)
THEOREM ContactsTyping == Spec => []TypeOK
  BY Invariance, PTL DEF Inv

(* Accept, decline and cancel (contacts.rs:605-796): however their          *)
(* statements interleave, one request has at most one successful outcome.   *)
THEOREM OneOutcome == Spec => []ResolvedOnce
<1>1. Inv => ResolvedOnce
  BY DEF Inv, ConsentInv
<1>2. QED
  BY <1>1, Invariance, PTL

(* A contacts row from an accept (contacts.rs:605-676) never coexists with  *)
(* a request that is pending or was declined or cancelled.                  *)
THEOREM Consent == Spec => []ConsentIsRespected
<1>1. Inv => ConsentIsRespected
  BY DEF Inv, ConsentInv
<1>2. QED
  BY <1>1, Invariance, PTL

(* A call runs its endpoint's statements, a transaction owns the request it *)
(* has written until it ends, and the rows it inserted bear its name        *)
(* (contacts.rs:605-796).                                                  *)
THEOREM RequestsAreOwned == Spec => []ConsentInv
  BY Invariance, PTL DEF Inv
=============================================================================
