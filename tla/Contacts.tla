------------------------------ MODULE Contacts ------------------------------
(***************************************************************************)
(* Contacts and contact requests of apps/api (contacts.rs) over            *)
(* PostgreSQL.  One action is one SQL statement: the calls of different    *)
(* clients interleave between statements, at READ COMMITTED, the default   *)
(* isolation level.  A statement sees what is committed when it starts and *)
(* its own transaction's writes, and waits for a row that another open     *)
(* transaction has written.                                                *)
(***************************************************************************)
EXTENDS Naturals, FiniteSets

CONSTANTS
  Users,       \* accounts
  Calls,       \* API calls, each made at most once
  Operations,  \* the endpoints that clients call
  DbFaults,    \* whether a statement or a commit may fail
  None

Kinds == {"add", "create", "accept", "decline", "cancel", "remove"}

ASSUME ContactsAssumption ==
  /\ Operations \subseteq Kinds
  /\ DbFaults \in BOOLEAN
  /\ None \notin Users \cup Calls

VARIABLES
  contacts,   \* the committed rows of the contacts table
  requests,   \* the contact_requests row that each create call inserted
  op,         \* what each call asks for
  pc,         \* the statement that each call runs next
  inserted,   \* the contacts rows its open transaction inserted
  deleted,    \* the contacts rows its open transaction deleted
  target,     \* the row that its blocked DELETE waits for
  written,    \* what its open transaction made of the request
  answer      \* the response

txVars == <<inserted, deleted, target, written>>
vars == <<contacts, requests, op, pc, txVars, answer>>

Row == [owner : Users, contact : Users, by : Calls]
NoOp == [kind |-> "none", user |-> None, other |-> None, req |-> None]
Op == {NoOp}
        \cup [kind : {"add", "create", "remove"}, user : Users, other : Users,
              req : {None}]
        \cup [kind : {"accept", "decline", "cancel"}, user : Users,
              other : {None}, req : Calls]
Statements == {"insert", "insert_reverse", "delete", "delete_reverse",
               "check_contacts", "check_crossed", "insert_request",
               "load", "resolve", "commit"}
Answers == {"created", "no_content", "conflict", "not_found",
            "forbidden", "error"}

TypeOK ==
  /\ contacts \subseteq Row
  /\ requests \in [Calls -> {"none", "pending", "declined", "gone"}]
  /\ op \in [Calls -> Op]
  /\ pc \in [Calls -> Statements \cup {"idle", "done"}]
  /\ inserted \in [Calls -> SUBSET Row]
  /\ deleted \in [Calls -> SUBSET Row]
  /\ target \in [Calls -> Row \cup {None}]
  /\ written \in [Calls -> {"none", "declined", "gone"}]
  /\ answer \in [Calls -> Answers \cup {"none"}]

Init ==
  /\ contacts = {}
  /\ requests = [c \in Calls |-> "none"]
  /\ op = [c \in Calls |-> NoOp]
  /\ pc = [c \in Calls |-> "idle"]
  /\ inserted = [c \in Calls |-> {}]
  /\ deleted = [c \in Calls |-> {}]
  /\ target = [c \in Calls |-> None]
  /\ written = [c \in Calls |-> "none"]
  /\ answer = [c \in Calls |-> "none"]
----------------------------------------------------------------------------
(* Rows, and who holds them.                                               *)

Requester(q) == op[q].user
Recipient(q) == op[q].other

(* The two users of the contacts row that a call's next statement is on.   *)
First(c) ==
  IF op[c].kind = "accept"
  THEN <<Requester(op[c].req), Recipient(op[c].req)>>
  ELSE <<op[c].user, op[c].other>>
Pair(c) ==
  IF pc[c] \in {"insert_reverse", "delete_reverse"}
  THEN <<First(c)[2], First(c)[1]>> ELSE First(c)

RowsOf(p, S) == {r \in S : <<r.owner, r.contact>> = p}

PendingBetween(u, v) ==
  {q \in Calls : requests[q] = "pending" /\ Requester(q) = u /\ Recipient(q) = v}

(* A DELETE is after the row it saw when it started, if that is still      *)
(* there; a row that came meanwhile is not its concern.                    *)
Scanned(c) ==
  IF target[c] = None THEN RowsOf(Pair(c), contacts) ELSE {target[c]} \cap contacts

(* The calls whose open transactions block the next statement of c.  An    *)
(* INSERT ... ON CONFLICT waits for any open write of its pair, a DELETE   *)
(* only for the row it saw.                                                *)
Holders(c) ==
  {d \in Calls \ {c} :
     \/ /\ pc[c] \in {"insert", "insert_reverse"}
        /\ RowsOf(Pair(c), inserted[d] \cup deleted[d]) # {}
     \/ /\ pc[c] \in {"delete", "delete_reverse"}
        /\ Scanned(c) \cap deleted[d] # {}
     \/ /\ written[d] # "none"
        /\ \/ pc[c] = "resolve" /\ op[d].req = op[c].req
           \/ /\ pc[c] = "insert_request"
              /\ op[d].req \in PendingBetween(op[c].user, op[c].other)}

(* Call c runs its next statement, which is s.                             *)
Runs(c, s) == pc[c] = s /\ Holders(c) = {}

Goto(c, s) == pc' = [pc EXCEPT ![c] = s]

Reads(c, s) == Goto(c, s) /\ UNCHANGED <<contacts, requests, op, txVars, answer>>

(* The handler answers a; whatever transaction it has is over.             *)
Close(c, a) ==
  /\ Goto(c, "done")
  /\ answer' = [answer EXCEPT ![c] = a]
  /\ inserted' = [inserted EXCEPT ![c] = {}]
  /\ deleted' = [deleted EXCEPT ![c] = {}]
  /\ target' = [target EXCEPT ![c] = None]
  /\ written' = [written EXCEPT ![c] = "none"]
  /\ UNCHANGED op

LeaveOpen(c, a) ==
  /\ Goto(c, "done")
  /\ answer' = [answer EXCEPT ![c] = a]
  /\ UNCHANGED <<contacts, requests, op, txVars>>

(* An early return drops the transaction, which rolls it back.             *)
RollBack(c, a) == Close(c, a) /\ UNCHANGED <<contacts, requests>>

Apply(c, a) ==
  /\ Close(c, a)
  /\ contacts' = (contacts \cup inserted[c]) \ deleted[c]
  /\ requests' = IF written[c] = "none" THEN requests
                 ELSE [requests EXCEPT ![op[c].req] = written[c]]
----------------------------------------------------------------------------
(* A client calls an endpoint.                                             *)

Begin(c, o, s) ==
  /\ pc[c] = "idle"
  /\ o.kind \in Operations
  /\ op' = [op EXCEPT ![c] = o]
  /\ Goto(c, s)
  /\ UNCHANGED <<contacts, requests, txVars, answer>>

BeginOnUser(c, k, s) ==
  \E u, v \in Users :
    u # v /\ Begin(c, [kind |-> k, user |-> u, other |-> v, req |-> None], s)

BeginOnRequest(c, k) ==
  \E u \in Users, q \in Calls :
    /\ requests[q] # "none"
    /\ Begin(c, [kind |-> k, user |-> u, other |-> None, req |-> q], "load")

BeginCall(c) ==
  \/ BeginOnUser(c, "add", "insert")
  \/ BeginOnUser(c, "create", "check_contacts")
  \/ BeginOnUser(c, "remove", "delete")
  \/ \E k \in {"accept", "decline", "cancel"} : BeginOnRequest(c, k)
----------------------------------------------------------------------------
(* add_contact: one statement, its own transaction.                        *)

UnownedRow(p, c) == [owner |-> None, contact |-> p[2], by |-> c]

NewRow(p, c) == [owner |-> p[1], contact |-> p[2], by |-> c]

AddContact(c) ==
  /\ op[c].kind = "add" /\ Runs(c, "insert")
  /\ \/ RowsOf(Pair(c), contacts) # {} /\ RollBack(c, "conflict")
     \/ /\ RowsOf(Pair(c), contacts) = {}
        /\ Close(c, "created")
        /\ contacts' = contacts \cup {NewRow(Pair(c), c)}
        /\ UNCHANGED requests
----------------------------------------------------------------------------
(* remove_contact: the caller's row first, then the reverse one.           *)

DeleteWaits(c) ==
  /\ pc[c] \in {"delete", "delete_reverse"} /\ Holders(c) # {}
  /\ target[c] = None
  /\ \E r \in Scanned(c) : target' = [target EXCEPT ![c] = r]
  /\ UNCHANGED <<contacts, requests, op, pc, inserted, deleted, written, answer>>

Delete(c, next) ==
  /\ deleted' = [deleted EXCEPT ![c] = @ \cup Scanned(c)]
  /\ target' = [target EXCEPT ![c] = None]
  /\ Goto(c, next)
  /\ UNCHANGED <<contacts, requests, op, inserted, written, answer>>

DeleteOwn(c) ==
  /\ Runs(c, "delete")
  /\ \/ Scanned(c) = {} /\ RollBack(c, "not_found")
     \/ Scanned(c) # {} /\ Delete(c, "delete_reverse")

DeleteReverse(c) == Runs(c, "delete_reverse") /\ Delete(c, "commit")
----------------------------------------------------------------------------
(* create_contact_request: three statements, each its own transaction.     *)

CheckContacts(c) ==
  LET u == op[c].user
      v == op[c].other IN
  /\ Runs(c, "check_contacts")
  /\ \/ RowsOf(<<u, v>>, contacts) \cup RowsOf(<<v, u>>, contacts) # {}
        /\ RollBack(c, "conflict")
     \/ /\ RowsOf(<<u, v>>, contacts) \cup RowsOf(<<v, u>>, contacts) = {}
        /\ Reads(c, "check_crossed")

CheckCrossed(c) ==
  LET crossed == PendingBetween(op[c].other, op[c].user) IN
  /\ Runs(c, "check_crossed")
  /\ \/ crossed # {} /\ RollBack(c, "conflict")
     \/ crossed = {} /\ Reads(c, "insert_request")

InsertRequest(c) ==
  LET pending == PendingBetween(op[c].user, op[c].other) IN
  /\ Runs(c, "insert_request")
  /\ \/ pending # {} /\ RollBack(c, "conflict")
     \/ /\ pending = {}
        /\ Close(c, "created")
        /\ requests' = [requests EXCEPT ![c] = "pending"]
        /\ UNCHANGED contacts
----------------------------------------------------------------------------
(* accept, decline and cancel: load the request, write, commit.            *)

MayResolve(c) ==
  op[c].user = IF op[c].kind = "cancel" THEN Requester(op[c].req)
               ELSE Recipient(op[c].req)

LoadPending(c) ==
  LET status == requests[op[c].req] IN
  /\ Runs(c, "load")
  /\ \/ status = "gone" /\ RollBack(c, "not_found")
     \/ status # "gone" /\ ~MayResolve(c) /\ RollBack(c, "forbidden")
     \/ status = "declined" /\ MayResolve(c) /\ RollBack(c, "not_found")
     \/ /\ status = "pending" /\ MayResolve(c)
        /\ Reads(c, IF op[c].kind = "accept" THEN "insert" ELSE "resolve")

InsertRowAtOnce(c, s, next) ==
  /\ op[c].kind = "accept" /\ Runs(c, s)
  /\ contacts' = IF RowsOf(Pair(c), contacts) # {} THEN contacts
                 ELSE contacts \cup {NewRow(Pair(c), c)}
  /\ Goto(c, next)
  /\ UNCHANGED <<requests, op, txVars, answer>>

(* One row of the two-row INSERT ... ON CONFLICT DO NOTHING.               *)
InsertRow(c, s, next) ==
  /\ op[c].kind = "accept" /\ Runs(c, s)
  /\ inserted' = IF RowsOf(Pair(c), contacts) # {} THEN inserted
                 ELSE [inserted EXCEPT ![c] = @ \cup {NewRow(Pair(c), c)}]
  /\ Goto(c, next)
  /\ UNCHANGED <<contacts, requests, op, deleted, target, written, answer>>

InsertContact(c) == InsertRow(c, "insert", "insert_reverse")
InsertReverse(c) == InsertRow(c, "insert_reverse", "resolve")

ResolveBlindly(c) ==
  /\ Runs(c, "resolve")
  /\ written' = [written EXCEPT ![c] =
       IF op[c].kind = "decline" THEN "declined" ELSE "gone"]
  /\ Goto(c, "commit")
  /\ UNCHANGED <<contacts, requests, op, inserted, deleted, target, answer>>

Resolve(c) ==
  LET status == requests[op[c].req] IN
  /\ Runs(c, "resolve")
  /\ \/ status # "pending" /\ RollBack(c, "not_found")
     \/ /\ status = "pending"
        /\ written' = [written EXCEPT ![c] =
             IF op[c].kind = "decline" THEN "declined" ELSE "gone"]
        /\ Goto(c, "commit")
        /\ UNCHANGED <<contacts, requests, op, inserted, deleted, target, answer>>

Commit(c) == Runs(c, "commit") /\ Apply(c, "no_content")
----------------------------------------------------------------------------
(* What the database does on its own.                                      *)

(* Of two transactions that wait for each other, one is rolled back.       *)
DeadlockVictim(c) ==
  /\ \E d \in Holders(c) : c \in Holders(d)
  /\ RollBack(c, "error")

StatementFails(c) ==
  /\ DbFaults /\ pc[c] \in Statements
  /\ RollBack(c, "error")

(* The connection breaks after the commit, before its confirmation.        *)
CommitUnconfirmed(c) ==
  /\ DbFaults /\ pc[c] = "commit"
  /\ Apply(c, "error")
----------------------------------------------------------------------------
Step(c) ==
  \/ AddContact(c)
  \/ DeleteWaits(c) \/ DeleteOwn(c) \/ DeleteReverse(c)
  \/ CheckContacts(c) \/ CheckCrossed(c) \/ InsertRequest(c)
  \/ LoadPending(c) \/ InsertContact(c) \/ InsertReverse(c)
  \/ Resolve(c) \/ Commit(c)
  \/ DeadlockVictim(c) \/ StatementFails(c) \/ CommitUnconfirmed(c)

Next == \E c \in Calls : BeginCall(c) \/ Step(c)

Spec == Init /\ [][Next]_vars

(* The server runs every handler, and the database every statement that    *)
(* waits for nobody.                                                       *)
FairSpec == Spec /\ \A c \in Calls : WF_vars(Step(c))
============================================================================
