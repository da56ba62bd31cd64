------------------------------ MODULE Accounts ------------------------------
(***************************************************************************)
(* The REST endpoints of apps/api about one's own account: signup, login   *)
(* and bearer tokens (auth.rs), user names (username.rs), public keys      *)
(* (keys.rs), push tokens (push_tokens.rs), deletion (account.rs), avatars *)
(* (avatars.rs) and the rate-limited search (search.rs).                   *)
(*                                                                         *)
(* A request is a tokio task; one action runs from one await to the next,  *)
(* which is one statement of PostgreSQL or one call of the object store.   *)
(* The client's own uploads to the object store happen in between.         *)
(***************************************************************************)
EXTENDS Naturals

CONSTANTS
  Ids,          \* account ids, each given at most once
  Emails,
  Names,        \* user names as they are typed
  Lower,        \* normalize_username
  Devices,      \* push tokens
  Requests,     \* calls of the API, each made at most once
  Operations,   \* the endpoints that requests call
  First,        \* the account that is there at the start
  MaxSearches,  \* RATE_LIMIT_MAX_REQUESTS
  Faults,       \* whether statements and calls of the object store may fail
  None

ASSUME AccountsAssumption ==
  /\ Lower \in [Names -> Names]
  /\ \A n \in Names : Lower[Lower[n]] = Lower[n]
  /\ First \in Ids
  /\ MaxSearches \in Nat
  /\ Faults \in BOOLEAN
  /\ None \notin Ids \cup Emails \cup Names \cup Devices

VARIABLES
  \* PostgreSQL
  status,      \* whether each account was not created yet, is there, or is deleted
  row,         \* its row in users: email, name and image
  sessions,    \* the accounts with a valid session token
  keys,        \* user_keys
  owner,       \* push_tokens: whose a device's token is
  \* the object store and its clients
  object,      \* each account's avatar object
  urls,        \* the accounts with a presigned upload URL that has not expired
  oversized,   \* history: the accounts that uploaded a file that is too large
  \* the API process
  req,         \* where each request is, what it calls, for whom, and its answer
  count,       \* SearchRateLimiter: the requests let through in its window
  age,         \* the time since the window was opened
  granted      \* history: the requests let through in the last Window ticks

tables == <<status, row, sessions, keys, owner>>
storeVars == <<object, urls, oversized>>
limiter == <<count, age, granted>>
vars == <<tables, storeVars, req, limiter>>

(* RATE_LIMIT_WINDOW, in ticks.                                            *)
Window == 2

Public    == {"signup", "login"}
Answers   == {"created", "ok", "username_taken", "email_registered", "invalid",
              "unauthorized", "not_found", "too_large", "rate_limited",
              "internal_error"}
Phases    == {"idle", "limit", "session", "account", "check_name", "head",
              "purge", "image", "call", "done"}
NoRow     == [email |-> None, name |-> None, image |-> FALSE]
Row       == [email : Emails, name : Names, image : BOOLEAN] \cup {NoRow}
Arguments == Ids \cup Emails \cup Names \cup Devices \cup (Emails \X Names) \cup {None}

Live == {u \in Ids : status[u] = "live"}

TypeOK ==
  /\ status \in [Ids -> {"unused", "live", "deleted"}]
  /\ row \in [Ids -> Row] /\ Live = {u \in Ids : row[u] # NoRow}
  /\ sessions \subseteq Ids /\ keys \subseteq Ids
  /\ owner \in [Devices -> Ids \cup {None}]
  /\ object \in [Ids -> {"none", "small", "large"}]
  /\ urls \subseteq Ids /\ oversized \subseteq Ids
  /\ req \in [Requests -> [pc : Phases, op : Operations \cup {None},
                           user : Ids \cup {None}, arg : Arguments,
                           answer : Answers \cup {None}]]
  /\ count \in 0..MaxSearches
  /\ age \in 0..Window
  /\ granted \in [1..Window -> 0..(2 * MaxSearches)]

(* One account is there, and the limiter's window has been open for any    *)
(* time.                                                                   *)
Init ==
  /\ \E e \in Emails, n \in Names :
       /\ n = Lower[n]
       /\ row = [u \in Ids |-> IF u = First THEN [email |-> e, name |-> n, image |-> FALSE]
                               ELSE NoRow]
  /\ status = [u \in Ids |-> IF u = First THEN "live" ELSE "unused"]
  /\ sessions = {First} /\ keys = {}
  /\ owner = [d \in Devices |-> None]
  /\ object = [u \in Ids |-> "none"]
  /\ urls = {} /\ oversized = {}
  /\ req = [r \in Requests |-> [pc |-> "idle", op |-> None, user |-> None,
                                arg |-> None, answer |-> None]]
  /\ count = 0 /\ age \in 0..Window
  /\ granted = [t \in 1..Window |-> 0]
----------------------------------------------------------------------------
(* Helpers.                                                                *)

At(r, op, pc) == req[r].op = op /\ req[r].pc = pc
Goto(r, pc)   == req' = [req EXCEPT ![r].pc = pc]

Answer(r, a) ==
  req' = [req EXCEPT ![r] = [pc |-> "done", op |-> None, user |-> None,
                             arg |-> None, answer |-> a]]

(* The answer to a statement that was executed; its confirmation may get   *)
(* lost.                                                                   *)
Done(r, a) == Answer(r, a) \/ (Faults /\ Answer(r, "internal_error"))

Taken(n, except) == \E u \in Live \ {except} : row[u].name = n

ArgumentsOf(op) ==
  CASE op = "signup"  -> Emails \X Names
    [] op = "login"   -> Emails
    [] op = "rename"  -> Names
    [] op = "token"   -> Devices
    [] op = "get_avatar" -> Ids
    [] OTHER          -> {None}

(* The first step of an endpoint behind the bearer token.                  *)
FirstStep(op) == IF op = "confirm" THEN "head" ELSE "call"

(* Where a request begins.  The rate limit comes before the bearer token.  *)
Entry(op) ==
  CASE op = "signup" -> "check_name"
    [] op = "login"  -> "call"
    [] op = "search" -> "limit"
    [] OTHER         -> "session"

(* A request arrives.                                                      *)
Receive(r, op, u, arg) ==
  /\ req[r].pc = "idle"
  /\ arg \in ArgumentsOf(op)
  /\ u \in (IF op \in Public THEN {None} ELSE {v \in Ids : status[v] # "unused"})
  /\ req' = [req EXCEPT ![r] =
       [pc |-> Entry(op), op |-> op, user |-> u, arg |-> arg, answer |-> None]]
  /\ UNCHANGED <<tables, storeVars, limiter>>

UpToBudget(used) == used <= MaxSearches \* mutant: one request too many
WithinBudget(used) == used < MaxSearches

(* try_acquire: a fixed window that the first request after its end opens. *)
RateLimit(r) ==
  /\ At(r, "search", "limit")
  /\ LET used == IF age = Window THEN 0 ELSE count IN
     /\ age' = IF age = Window THEN 0 ELSE age
     /\ IF WithinBudget(used)
        THEN /\ count' = used + 1
             /\ granted' = [granted EXCEPT ![1] = @ + 1]
             /\ Goto(r, "session")
        ELSE /\ count' = used
             /\ Answer(r, "rate_limited")
             /\ UNCHANGED granted
  /\ UNCHANGED <<tables, storeVars>>

(* authenticate_token: the session, and then the account it belongs to.    *)
ReadSession(r) ==
  /\ req[r].pc = "session"
  /\ \/ req[r].user \in sessions /\ Goto(r, "account")
     \/ req[r].user \notin sessions /\ Answer(r, "unauthorized")
     \/ Faults /\ Answer(r, "unauthorized")
  /\ UNCHANGED <<tables, storeVars, limiter>>

ReadAccount(r) ==
  /\ req[r].pc = "account"
  /\ \/ req[r].user \in Live /\ Goto(r, FirstStep(req[r].op))
     \/ req[r].user \notin Live /\ Answer(r, "unauthorized")
     \/ Faults /\ Answer(r, "unauthorized")
  /\ UNCHANGED <<tables, storeVars, limiter>>

(* A body that fails validation: a missing or malformed field.             *)
Refuse(r) ==
  /\ \/ req[r].op = "signup" /\ req[r].pc \in {"check_name", "call"}
     \/ req[r].op \in {"login", "rename", "token", "keys", "upload_url"} /\ req[r].pc = "call"
  /\ Answer(r, "invalid")
  /\ UNCHANGED <<tables, storeVars, limiter>>

(* A statement or a call of the object store that fails and does nothing.  *)
Fails(r) ==
  /\ Faults
  /\ req[r].pc \in {"check_name", "head", "image", "call"}
  /\ \/ req[r].op \notin {"signup", "login"} /\ Answer(r, "internal_error")
     \/ At(r, "signup", "check_name") /\ Answer(r, "internal_error")
     \/ At(r, "signup", "call") /\ Answer(r, "email_registered")
     \/ At(r, "login", "call") /\ Answer(r, "invalid")
  /\ UNCHANGED <<tables, storeVars, limiter>>
----------------------------------------------------------------------------
(* auth.rs: signup and login.  What BetterAuth does is external.           *)

NameAsTyped(r) == IF req[r].op = "signup" THEN req[r].arg[2] ELSE req[r].arg \* mutant: not normalized
Email(r) == IF req[r].op = "signup" THEN req[r].arg[1] ELSE req[r].arg
Name(r)  == Lower[IF req[r].op = "signup" THEN req[r].arg[2] ELSE req[r].arg]

Registered(e) == \E u \in Live : row[u].email = e

(* signup looks the name up itself, since BetterAuth only looks up the     *)
(* email before it inserts.                                                *)
CheckName(r) ==
  /\ At(r, "signup", "check_name")
  /\ IF Taken(Name(r), None) THEN Answer(r, "username_taken") ELSE Goto(r, "call")
  /\ UNCHANGED <<tables, storeVars, limiter>>

(* /sign-up/email answers 422 for a registered email and for a row the     *)
(* database refuses.                                                       *)
SignUp(r) ==
  /\ At(r, "signup", "call")
  /\ IF Registered(Email(r)) \/ Taken(Name(r), None)
     THEN Answer(r, "email_registered") /\ UNCHANGED tables
     ELSE \E u \in Ids :
            /\ status[u] = "unused"
            /\ status' = [status EXCEPT ![u] = "live"]
            /\ row' = [row EXCEPT ![u] = [email |-> Email(r), name |-> Name(r),
                                          image |-> FALSE]]
            /\ sessions' = sessions \cup {u}
            /\ Answer(r, "created")
            /\ UNCHANGED <<keys, owner>>
  /\ UNCHANGED <<storeVars, limiter>>

Login(r) ==
  /\ At(r, "login", "call")
  /\ \/ \E u \in Live : /\ row[u].email = Email(r)
                        /\ sessions' = sessions \cup {u}
                        /\ Answer(r, "ok")
     \/ Answer(r, "unauthorized") /\ UNCHANGED sessions
  /\ UNCHANGED <<status, row, keys, owner, storeVars, limiter>>
----------------------------------------------------------------------------
(* username.rs, keys.rs, push_tokens.rs, account.rs: one statement each.   *)

(* UPDATE ... RETURNING finds no row when the account has gone meanwhile.  *)
Rename(r) ==
  LET u == req[r].user IN
  /\ At(r, "rename", "call")
  /\ \/ u \notin Live /\ Answer(r, "internal_error") /\ UNCHANGED row
     \/ /\ u \in Live /\ Taken(Name(r), u)
        /\ Answer(r, "username_taken") /\ UNCHANGED row
     \/ /\ u \in Live /\ ~Taken(Name(r), u)
        /\ row' = [row EXCEPT ![u].name = Name(r)]
        /\ Done(r, "ok")
  /\ UNCHANGED <<status, sessions, keys, owner, storeVars, limiter>>

(* The foreign key refuses a row of an account that has gone.              *)
ReferenceAnyone(u) == TRUE \* mutant: user_keys and push_tokens have no foreign key
MayReference(u) == u \in Live

UploadKeys(r) ==
  /\ At(r, "keys", "call")
  /\ IF MayReference(req[r].user)
     THEN keys' = keys \cup {req[r].user} /\ Done(r, "ok")
     ELSE Answer(r, "internal_error") /\ UNCHANGED keys
  /\ UNCHANGED <<status, row, sessions, owner, storeVars, limiter>>

(* ON CONFLICT (token) gives a token of another account to the caller.     *)
RegisterToken(r) ==
  /\ At(r, "token", "call")
  /\ IF MayReference(req[r].user)
     THEN owner' = [owner EXCEPT ![req[r].arg] = req[r].user] /\ Done(r, "ok")
     ELSE Answer(r, "internal_error") /\ UNCHANGED owner
  /\ UNCHANGED <<status, row, sessions, keys, storeVars, limiter>>

(* Mutant: the row of the deleted account stays.                           *)
DeleteSoftly(r) ==
  LET u == req[r].user IN
  /\ At(r, "delete", "call")
  /\ status' = [status EXCEPT ![u] = "deleted"]
  /\ sessions' = sessions \ {u}
  /\ keys' = keys \ {u}
  /\ owner' = [d \in Devices |-> IF owner[d] = u THEN None ELSE owner[d]]
  /\ Done(r, "ok")
  /\ UNCHANGED <<row, storeVars, limiter>>

(* DELETE FROM users cascades to the account's rows; the object store is   *)
(* not told.  A second deletion finds no row and answers the same.         *)
DeleteAccount(r) ==
  LET u == req[r].user IN
  /\ At(r, "delete", "call")
  /\ status' = [status EXCEPT ![u] = "deleted"]
  /\ row' = [row EXCEPT ![u] = NoRow]
  /\ sessions' = sessions \ {u}
  /\ keys' = keys \ {u}
  /\ owner' = [d \in Devices |-> IF owner[d] = u THEN None ELSE owner[d]]
  /\ Done(r, "ok")
  /\ UNCHANGED <<storeVars, limiter>>
----------------------------------------------------------------------------
(* avatars.rs.                                                             *)

(* presigned_put_url signs locally, whether the account is there or not.   *)
RequestUploadUrl(r) ==
  /\ At(r, "upload_url", "call")
  /\ urls' = urls \cup {req[r].user}
  /\ Answer(r, "ok")
  /\ UNCHANGED <<tables, object, oversized, limiter>>

(* confirm_upload: HeadObject, and then either DeleteObject or the UPDATE. *)
AfterHeadUnchecked(size) == IF size = "large" THEN "purge" ELSE "image" \* mutant: a missing object is confirmed
AfterHead(size) == IF size = "none" THEN "not_found" ELSE AfterHeadUnchecked(size)

HeadObject(r) ==
  LET next == AfterHead(object[req[r].user]) IN
  /\ At(r, "confirm", "head")
  /\ IF next = "not_found" THEN Answer(r, next) ELSE Goto(r, next)
  /\ UNCHANGED <<tables, storeVars, limiter>>

Purge(r) ==
  /\ At(r, "confirm", "purge")
  /\ \/ object' = [object EXCEPT ![req[r].user] = "none"]
     \/ Faults /\ UNCHANGED object
  /\ Answer(r, "too_large")
  /\ UNCHANGED <<tables, urls, oversized, limiter>>

(* An UPDATE of no row is a success too.                                   *)
SetImage(r) ==
  LET u == req[r].user IN
  /\ At(r, "confirm", "image")
  /\ row' = IF u \in Live THEN [row EXCEPT ![u].image = TRUE] ELSE row
  /\ Done(r, "ok")
  /\ UNCHANGED <<status, sessions, keys, owner, storeVars, limiter>>

GetAvatar(r) ==
  LET u == req[r].arg IN
  /\ At(r, "get_avatar", "call")
  /\ Answer(r, IF u \in Live /\ row[u].image THEN "ok" ELSE "not_found")
  /\ UNCHANGED <<tables, storeVars, limiter>>

SearchUsers(r) ==
  /\ At(r, "search", "call")
  /\ Answer(r, "ok")
  /\ UNCHANGED <<tables, storeVars, limiter>>
----------------------------------------------------------------------------
(* What happens around the API.                                            *)

(* A client PUTs a file straight to the object store.                      *)
Put(u, size) ==
  /\ u \in urls
  /\ object' = [object EXCEPT ![u] = size]
  /\ oversized' = IF size = "large" THEN oversized \cup {u} ELSE oversized
  /\ UNCHANGED <<tables, urls, req, limiter>>

UrlExpires(u) ==
  /\ u \in urls
  /\ urls' = urls \ {u}
  /\ UNCHANGED <<tables, object, oversized, req, limiter>>

SessionExpires(u) ==
  /\ u \in sessions
  /\ sessions' = sessions \ {u}
  /\ UNCHANGED <<status, row, keys, owner, storeVars, req, limiter>>

Tick ==
  /\ age' = IF age < Window THEN age + 1 ELSE age
  /\ granted' = [t \in 1..Window |-> IF t = 1 THEN 0 ELSE granted[t - 1]]
  /\ UNCHANGED <<tables, storeVars, req, count>>
----------------------------------------------------------------------------
Handle(r) ==
  \/ RateLimit(r) \/ ReadSession(r) \/ ReadAccount(r) \/ Refuse(r) \/ Fails(r)
  \/ CheckName(r) \/ SignUp(r) \/ Login(r)
  \/ Rename(r) \/ UploadKeys(r) \/ RegisterToken(r) \/ DeleteAccount(r)
  \/ RequestUploadUrl(r) \/ HeadObject(r) \/ Purge(r) \/ SetImage(r)
  \/ GetAvatar(r) \/ SearchUsers(r)

Next ==
  \/ \E r \in Requests, op \in Operations, u \in Ids \cup {None}, arg \in Arguments :
       Receive(r, op, u, arg)
  \/ \E r \in Requests : Handle(r)
  \/ \E u \in Ids, size \in {"small", "large"} : Put(u, size)
  \/ \E u \in Ids : UrlExpires(u) \/ SessionExpires(u)
  \/ Tick

Spec == Init /\ [][Next]_vars
=============================================================================
