--------------------------- MODULE AccountsProofs ---------------------------
(***************************************************************************)
(* Theorems about the account endpoints, for any accounts, names, devices  *)
(* and concurrent requests.                                                *)
(***************************************************************************)
EXTENDS AccountsProperties, TLAPS

Running(r) == req[r].pc \notin {"idle", "done"}

(* The types of the tables, the store and the requests.                    *)
Typed ==
  /\ status \in [Ids -> {"unused", "live", "deleted"}]
  /\ row \in [Ids -> Row] /\ Live = {u \in Ids : row[u] # NoRow}
  /\ sessions \subseteq Ids /\ keys \subseteq Ids
  /\ owner \in [Devices -> Ids \cup {None}]
  /\ object \in [Ids -> {"none", "small", "large"}]
  /\ urls \subseteq Ids /\ oversized \subseteq Ids
  /\ req \in [Requests -> [pc : Phases, op : Operations \cup {None},
                           user : Ids \cup {None}, arg : Arguments,
                           answer : Answers \cup {None}]]

(* A request carries the argument its endpoint takes, and an account.       *)
WellCalled ==
  \A r \in Requests : Running(r) =>
    /\ req[r].op = "signup" => req[r].arg \in Emails \X Names
    /\ req[r].op = "rename" => req[r].arg \in Names
    /\ req[r].op = "token"  => req[r].arg \in Devices
    /\ req[r].op \in {"confirm", "upload_url"} => req[r].user \in Ids

(* Names are stored as normalize_username leaves them.                      *)
Normalized == \A u \in Live : Lower[row[u].name] = row[u].name

(* What HeadObject saw still holds when confirm_upload acts on it, unless   *)
(* the account uploaded a file that is too large.                          *)
HeadStillHolds ==
  /\ \A u \in Ids : object[u] = "large" => u \in oversized
  /\ \A r \in Requests :
       /\ At(r, "confirm", "image") =>
            object[req[r].user] = "small" \/ req[r].user \in oversized
       /\ At(r, "confirm", "purge") => req[r].user \in oversized

Inv ==
  /\ Typed /\ WellCalled /\ Normalized /\ HeadStillHolds
  /\ NothingOutlivesItsAccount /\ NamesUnique /\ ImageIsServable

(* What each endpoint takes (ArgumentsOf).                                  *)
LEMMA ArgumentTypes ==
  /\ ArgumentsOf("signup") = Emails \X Names
  /\ ArgumentsOf("rename") = Names
  /\ ArgumentsOf("token") = Devices
BY ZenonT(30) DEF ArgumentsOf

(* Every endpoint begins in one of the phases.                              *)
LEMMA EntryType ==
  ASSUME NEW op
  PROVE  Entry(op) \in {"check_name", "call", "limit", "session"}
BY ZenonT(30) DEF Entry

(* What a step does to the requests.                                       *)
Stays     == UNCHANGED req
Replies   == \E r \in Requests, a \in Answers : Answer(r, a)
Advances  ==
  \E r \in Requests, pc \in Phases :
    Running(r) /\ Goto(r, pc) /\ (pc \in {"image", "purge"} => HeadObject(r))
Arrives   ==
  \E r \in Requests, op \in Operations, u \in Ids \cup {None}, arg \in Arguments :
    Receive(r, op, u, arg)

(* Each handler answers, or goes on; the answer to an executed statement    *)
(* may be that it failed.                                                  *)
LEMMA StepShape ==
  ASSUME Typed, [Next]_vars
  PROVE  Stays \/ Replies \/ Advances \/ Arrives
<1>1. ASSUME NEW r \in Requests,
             RateLimit(r) \/ ReadSession(r) \/ ReadAccount(r) \/ CheckName(r)
      PROVE  Replies \/ Advances
  <2>1. ASSUME NEW pc \in {"session", "account", "call", "head"}, Running(r), Goto(r, pc)
        PROVE  Advances
    BY <2>1 DEF Advances, Phases
  <2>2. ASSUME NEW a \in {"rate_limited", "unauthorized", "username_taken"}, Answer(r, a)
        PROVE  Replies
    BY <2>2 DEF Replies, Answers
  <2>3. FirstStep(req[r].op) \in {"call", "head"}
    BY DEF FirstStep
  <2>4. Running(r)
    BY <1>1 DEF RateLimit, ReadSession, ReadAccount, CheckName, At, Running
  <2>5. \/ \E pc \in {"session", "account", "call", "head"} : Goto(r, pc)
        \/ \E a \in {"rate_limited", "unauthorized", "username_taken"} : Answer(r, a)
    BY <1>1, <2>3 DEF RateLimit, ReadSession, ReadAccount, CheckName
  <2>6. QED
    BY <2>1, <2>2, <2>4, <2>5
<1>2. ASSUME NEW r \in Requests,
             \/ Refuse(r) \/ Fails(r) \/ SignUp(r) \/ Login(r) \/ Rename(r)
             \/ UploadKeys(r) \/ RegisterToken(r) \/ DeleteAccount(r)
             \/ RequestUploadUrl(r) \/ Purge(r) \/ SetImage(r) \/ GetAvatar(r)
             \/ SearchUsers(r)
      PROVE  Replies
  <2>1. \E a \in Answers : Answer(r, a)
    BY <1>2 DEF Refuse, Fails, SignUp, Login, Rename, UploadKeys, RegisterToken,
      DeleteAccount, RequestUploadUrl, Purge, SetImage, GetAvatar, SearchUsers, Done,
      Answers
  <2>2. QED
    BY <2>1 DEF Replies
<1>3. ASSUME NEW r \in Requests, HeadObject(r) PROVE Replies \/ Advances
  <2>1. Running(r)
    BY <1>3 DEF HeadObject, At, Running
  <2>2. AfterHead(object[req[r].user]) \in {"not_found", "purge", "image"}
    BY DEF AfterHead, AfterHeadUnchecked
  <2>3. CASE AfterHead(object[req[r].user]) = "not_found"
    BY <1>3, <2>3 DEF HeadObject, Replies, Answers
  <2>4. CASE AfterHead(object[req[r].user]) \in {"purge", "image"}
    BY <1>3, <2>1, <2>4 DEF HeadObject, Advances, Phases
  <2>5. QED
    BY <2>2, <2>3, <2>4
<1>4. CASE \/ \E u \in Ids, size \in {"small", "large"} : Put(u, size)
           \/ \E u \in Ids : UrlExpires(u) \/ SessionExpires(u)
           \/ Tick \/ UNCHANGED vars
  BY <1>4 DEF Put, UrlExpires, SessionExpires, Tick, vars, Stays
<1>5. QED
  BY <1>1, <1>2, <1>3, <1>4 DEF Next, Handle, Arrives

(* The requests keep their types and their arguments.                       *)
LEMMA RequestsNext ==
  ASSUME Typed, WellCalled, [Next]_vars
  PROVE  /\ req' \in [Requests -> [pc : Phases, op : Operations \cup {None},
                                   user : Ids \cup {None}, arg : Arguments,
                                   answer : Answers \cup {None}]]
         /\ WellCalled'
<1> USE DEF Typed
<1>1. CASE Stays
  BY <1>1 DEF Stays, WellCalled, Running
<1>2. ASSUME NEW r \in Requests, NEW a \in Answers, Answer(r, a)
      PROVE  /\ req' \in [Requests -> [pc : Phases, op : Operations \cup {None},
                                       user : Ids \cup {None}, arg : Arguments,
                                       answer : Answers \cup {None}]]
             /\ WellCalled'
  BY <1>2 DEF Answer, Phases, Arguments, WellCalled, Running
<1>3. ASSUME NEW r \in Requests, NEW pc \in Phases, Running(r), Goto(r, pc)
      PROVE  /\ req' \in [Requests -> [pc : Phases, op : Operations \cup {None},
                                       user : Ids \cup {None}, arg : Arguments,
                                       answer : Answers \cup {None}]]
             /\ WellCalled'
  BY <1>3 DEF Goto, WellCalled, Running
<1>4. ASSUME NEW r \in Requests, NEW op \in Operations, NEW u \in Ids \cup {None},
             NEW arg \in Arguments, Receive(r, op, u, arg)
      PROVE  /\ req' \in [Requests -> [pc : Phases, op : Operations \cup {None},
                                       user : Ids \cup {None}, arg : Arguments,
                                       answer : Answers \cup {None}]]
             /\ WellCalled'
  <2>1. Entry(op) \in Phases
    BY EntryType DEF Phases
  <2>2. req' = [req EXCEPT ![r] = [pc |-> Entry(op), op |-> op, user |-> u, arg |-> arg,
                                   answer |-> None]]
    BY <1>4 DEF Receive
  <2>3. /\ op = "signup" => arg \in Emails \X Names
        /\ op = "rename" => arg \in Names
        /\ op = "token" => arg \in Devices
        /\ op \in {"confirm", "upload_url"} => u \in Ids
    BY <1>4, ArgumentTypes DEF Receive, Public
  <2>4. QED
    BY <2>1, <2>2, <2>3 DEF WellCalled, Running
<1>5. QED
  BY <1>1, <1>2, <1>3, <1>4, StepShape DEF Replies, Advances, Arrives
----------------------------------------------------------------------------
(* The tables.                                                             *)

(* The steps that leave the tables and the object store alone.              *)
Reads(r) ==
  \/ RateLimit(r) \/ ReadSession(r) \/ ReadAccount(r) \/ Refuse(r) \/ Fails(r)
  \/ CheckName(r) \/ HeadObject(r) \/ GetAvatar(r) \/ SearchUsers(r)

(* What such a step leaves alone.                                          *)
LEMMA ReadsEffect ==
  ASSUME \/ \E r \in Requests : Reads(r)
         \/ Arrives \/ Tick \/ UNCHANGED vars
  PROVE  UNCHANGED <<status, row, sessions, keys, owner, object, urls, oversized>>
BY DEF Reads, Arrives, RateLimit, ReadSession, ReadAccount, Refuse, Fails, CheckName,
  HeadObject, GetAvatar, SearchUsers, Receive, Tick, vars, tables, storeVars

(* The steps that write, one by one.                                        *)
LEMMA WritingSteps ==
  ASSUME [Next]_vars
  PROVE  \/ \/ \E r \in Requests : Reads(r)
            \/ Arrives \/ Tick \/ UNCHANGED vars
         \/ \E r \in Requests :
               \/ SignUp(r) \/ Login(r) \/ Rename(r) \/ UploadKeys(r)
               \/ RegisterToken(r) \/ DeleteAccount(r)
               \/ RequestUploadUrl(r) \/ Purge(r) \/ SetImage(r)
         \/ \E u \in Ids, size \in {"small", "large"} : Put(u, size)
         \/ \E u \in Ids : UrlExpires(u) \/ SessionExpires(u)
BY DEF Next, Handle, Reads, Arrives

(* What signup inserts and rename updates: an email and a name of the right *)
(* type, the name in its normal form.                                      *)
LEMMA NameType ==
  ASSUME WellCalled, NEW r \in Requests, Running(r)
  PROVE  /\ req[r].op = "signup" => Email(r) \in Emails
         /\ req[r].op \in {"signup", "rename"} =>
              Name(r) \in Names /\ Lower[Name(r)] = Name(r)
<1>1. CASE req[r].op = "signup"
  <2>1. req[r].arg \in Emails \X Names
    BY <1>1 DEF WellCalled
  <2>2. req[r].arg[1] \in Emails /\ req[r].arg[2] \in Names
    BY <2>1
  <2>3. QED
    BY <1>1, <2>2, AccountsAssumption DEF Email, Name
<1>2. CASE req[r].op = "rename"
  BY <1>2, AccountsAssumption DEF WellCalled, Name
<1>3. QED
  BY <1>1, <1>2

(* A deleted account's rows go by the cascade, and every table keeps its    *)
(* type.                                                                   *)
LEMMA TablesNext ==
  ASSUME Typed, WellCalled, Normalized, NothingOutlivesItsAccount, NamesUnique, [Next]_vars
  PROVE  Typed' /\ Normalized' /\ NothingOutlivesItsAccount' /\ NamesUnique'
<1> DEFINE Tables ==
      /\ status \in [Ids -> {"unused", "live", "deleted"}]
      /\ row \in [Ids -> Row] /\ Live = {u \in Ids : row[u] # NoRow}
      /\ sessions \subseteq Ids /\ keys \subseteq Ids
      /\ owner \in [Devices -> Ids \cup {None}]
      /\ object \in [Ids -> {"none", "small", "large"}]
      /\ urls \subseteq Ids /\ oversized \subseteq Ids
      Good == Normalized /\ NothingOutlivesItsAccount /\ NamesUnique
<1>0. Tables /\ Good
  BY DEF Typed
<1>1. SUFFICES Tables' /\ Good'
  BY RequestsNext DEF Typed
<1>2. ASSUME UNCHANGED <<status, row, sessions, keys, owner, object, urls, oversized>>
      PROVE  Tables' /\ Good'
  BY <1>0, <1>2 DEF Live, Normalized, NothingOutlivesItsAccount, NamesUnique
<1>3. ASSUME UNCHANGED <<status, row>> PROVE Live' = Live /\ Normalized' /\ NamesUnique'
  BY <1>0, <1>3 DEF Live, Normalized, NamesUnique
<1>4. ASSUME NEW r \in Requests, SignUp(r) PROVE Tables' /\ Good'
  <2>1. /\ Email(r) \in Emails /\ Name(r) \in Names /\ Lower[Name(r)] = Name(r)
    BY <1>4, NameType DEF SignUp, At, Running
  <2>2. CASE UNCHANGED tables
    BY <1>2, <1>4, <2>2 DEF SignUp, tables, storeVars
  <2>3. CASE ~UNCHANGED tables
    <3>1. PICK u \in Ids :
            /\ status[u] = "unused"
            /\ status' = [status EXCEPT ![u] = "live"]
            /\ row' = [row EXCEPT ![u] = [email |-> Email(r), name |-> Name(r),
                                          image |-> FALSE]]
            /\ sessions' = sessions \cup {u}
            /\ UNCHANGED <<keys, owner, object, urls, oversized>>
      BY <1>4, <2>3 DEF SignUp, storeVars
    <3>2. ~Registered(Email(r)) /\ ~Taken(Name(r), None)
      BY <1>4, <2>3 DEF SignUp
    <3>3. Live' = Live \cup {u} /\ u \notin Live
      BY <1>0, <3>1 DEF Live
    <3>4. row'[u] \in Row /\ row'[u] # NoRow
      BY <1>0, <2>1, <3>1, AccountsAssumption DEF Row, NoRow
    <3>5. Tables'
      BY <1>0, <3>1, <3>3, <3>4
    <3>6. Normalized'
      BY <1>0, <2>1, <3>1, <3>3 DEF Normalized, Live
    <3>7. NothingOutlivesItsAccount'
      BY <1>0, <3>1, <3>3 DEF NothingOutlivesItsAccount
    <3>8. \A v \in Live : row[v].email # Email(r) /\ row[v].name # Name(r)
      BY <3>2, AccountsAssumption DEF Registered, Taken, Live
    <3>9. NamesUnique'
      <4>1. ASSUME NEW v \in Live
            PROVE  /\ row'[v] = row[v]
                   /\ row[v].email # Email(r)
                   /\ Lower[row[v].name] # Lower[Name(r)]
        BY <1>0, <2>1, <3>1, <3>3, <3>8 DEF Normalized, Live
      <4>2. row'[u].email = Email(r) /\ row'[u].name = Name(r)
        BY <1>0, <3>1
      <4>3. QED
        BY <1>0, <3>3, <4>1, <4>2 DEF NamesUnique
    <3>10. QED
      BY <3>5, <3>6, <3>7, <3>9
  <2>4. QED
    BY <2>2, <2>3
<1>5. ASSUME NEW r \in Requests, Rename(r) PROVE Tables' /\ Good'
  <2>1. UNCHANGED <<status, sessions, keys, owner, object, urls, oversized>> /\ Live' = Live
    BY <1>5 DEF Rename, Live, storeVars
  <2>2. CASE UNCHANGED row
    BY <1>2, <2>1, <2>2
  <2>3. CASE ~UNCHANGED row
    <3> DEFINE u == req[r].user
    <3>1. /\ u \in Live /\ ~Taken(Name(r), u)
          /\ row' = [row EXCEPT ![u].name = Name(r)]
          /\ Name(r) \in Names /\ Lower[Name(r)] = Name(r)
      BY <1>5, <2>3, NameType DEF Rename, At, Running
    <3>2. u \in Ids /\ row[u] \in [email : Emails, name : Names, image : BOOLEAN]
      BY <1>0, <3>1 DEF Live, Row
    <3>3. /\ row'[u] = [row[u] EXCEPT !.name = Name(r)]
          /\ \A v \in Ids \ {u} : row'[v] = row[v]
      BY <1>0, <3>1, <3>2
    <3>4. /\ row'[u] \in [email : Emails, name : Names, image : BOOLEAN]
          /\ row'[u].name = Name(r) /\ row'[u].email = row[u].email
          /\ row'[u] # NoRow
      <4>1. row'[u] \in [email : Emails, name : Names, image : BOOLEAN]
        BY <3>1, <3>2, <3>3
      <4>2. row'[u] # NoRow
        BY <4>1, AccountsAssumption DEF NoRow
      <4>3. QED
        BY <3>2, <3>3, <4>1, <4>2
    <3>5. row' \in [Ids -> Row]
      BY <1>0, <3>1, <3>3, <3>4 DEF Row
    <3>6. Tables'
      BY <1>0, <2>1, <3>1, <3>3, <3>4, <3>5
    <3>7. Normalized'
      BY <1>0, <2>1, <3>1, <3>3, <3>4 DEF Normalized, Live
    <3>8. \A v \in Live \ {u} : row[v].name # Name(r)
      BY <3>1 DEF Taken
    <3>9. NamesUnique'
      <4>1. ASSUME NEW v \in Live \ {u}
            PROVE  row'[v] = row[v] /\ Lower[row[v].name] # Lower[row'[u].name]
        BY <1>0, <3>1, <3>3, <3>4, <3>8 DEF Normalized, Live
      <4>2. QED
        BY <1>0, <2>1, <3>4, <4>1 DEF NamesUnique
    <3>10. QED
      BY <1>0, <2>1, <3>6, <3>7, <3>9 DEF NothingOutlivesItsAccount
  <2>4. QED
    BY <2>2, <2>3
<1>6. ASSUME NEW r \in Requests, Login(r) \/ UploadKeys(r)
      PROVE  Tables' /\ Good'
  <2>1. /\ UNCHANGED <<status, row, owner, object, urls, oversized>>
        /\ sessions' \subseteq sessions \cup Live /\ keys' \subseteq keys \cup Live
    BY <1>6 DEF Login, UploadKeys, MayReference, storeVars
  <2>2. Live \subseteq Ids
    BY DEF Live
  <2>3. QED
    BY <1>0, <1>3, <2>1, <2>2 DEF NothingOutlivesItsAccount
<1>7. ASSUME NEW r \in Requests, RegisterToken(r) PROVE Tables' /\ Good'
  <2>1. UNCHANGED <<status, row, sessions, keys, object, urls, oversized>>
    BY <1>7 DEF RegisterToken, storeVars
  <2>2. owner' \in [Devices -> Ids \cup {None}]
        /\ \A d \in Devices : owner'[d] \in {owner[d]} \cup Live
    BY <1>0, <1>7 DEF RegisterToken, MayReference, Live
  <2>3. QED
    BY <1>0, <1>3, <2>1, <2>2 DEF NothingOutlivesItsAccount
<1>8. ASSUME NEW r \in Requests, DeleteAccount(r) PROVE Tables' /\ Good'
  <2> DEFINE u == req[r].user
  <2>1. /\ status' = [status EXCEPT ![u] = "deleted"]
        /\ row' = [row EXCEPT ![u] = NoRow]
        /\ sessions' = sessions \ {u} /\ keys' = keys \ {u}
        /\ owner' = [d \in Devices |-> IF owner[d] = u THEN None ELSE owner[d]]
        /\ UNCHANGED <<object, urls, oversized>>
    BY <1>8 DEF DeleteAccount, storeVars
  <2>2. Live' = Live \ {u} /\ \A v \in Live' : row'[v] = row[v]
    BY <1>0, <2>1 DEF Live
  <2>3. Tables'
    BY <1>0, <2>1, <2>2 DEF Row
  <2>4. Normalized' /\ NamesUnique'
    BY <1>0, <2>2 DEF Normalized, NamesUnique
  <2>5. NothingOutlivesItsAccount'
    BY <1>0, <2>1, <2>2 DEF NothingOutlivesItsAccount
  <2>6. QED
    BY <2>3, <2>4, <2>5
<1>9. ASSUME NEW r \in Requests, SetImage(r) PROVE Tables' /\ Good'
  <2> DEFINE u == req[r].user
  <2>1. UNCHANGED <<status, sessions, keys, owner, object, urls, oversized>> /\ Live' = Live
    BY <1>9 DEF SetImage, Live, storeVars
  <2>2. CASE u \in Live
    <3>1. row' = [row EXCEPT ![u].image = TRUE] /\ u \in Ids
      BY <1>9, <2>2 DEF SetImage, Live
    <3>2. row[u] \in [email : Emails, name : Names, image : BOOLEAN]
      BY <1>0, <2>2 DEF Live, Row
    <3>3. /\ row'[u] \in [email : Emails, name : Names, image : BOOLEAN]
          /\ row'[u].name = row[u].name /\ row'[u].email = row[u].email
          /\ \A v \in Ids \ {u} : row'[v] = row[v]
      BY <1>0, <3>1, <3>2
    <3>4. row'[u] # NoRow
      BY <3>3, AccountsAssumption DEF NoRow
    <3>5. row' \in [Ids -> Row]
      BY <1>0, <3>1, <3>3 DEF Row
    <3>6. QED
      BY <1>0, <2>1, <2>2, <3>3, <3>4, <3>5 DEF Normalized, NamesUnique,
        NothingOutlivesItsAccount, Live
  <2>3. CASE u \notin Live
    BY <1>2, <1>9, <2>1, <2>3 DEF SetImage
  <2>4. QED
    BY <2>2, <2>3
<1>10. ASSUME NEW r \in Requests, RequestUploadUrl(r) \/ Purge(r) PROVE Tables' /\ Good'
  <2>1. /\ UNCHANGED <<status, row, sessions, keys, owner, oversized>>
        /\ object' \in [Ids -> {"none", "small", "large"}]
    BY <1>0, <1>10 DEF RequestUploadUrl, Purge, tables
  <2>2. urls' \subseteq Ids
    <3>1. CASE RequestUploadUrl(r)
      <4>1. req[r].user \in Ids /\ urls' = urls \cup {req[r].user}
        BY <3>1 DEF RequestUploadUrl, WellCalled, At, Running
      <4>2. QED
        BY <1>0, <4>1
    <3>2. CASE Purge(r)
      BY <1>0, <3>2 DEF Purge
    <3>3. QED
      BY <1>10, <3>1, <3>2
  <2>3. QED
    BY <1>0, <1>3, <2>1, <2>2 DEF NothingOutlivesItsAccount
<1>11. ASSUME NEW u \in Ids, NEW size \in {"small", "large"}, Put(u, size)
       PROVE  Tables' /\ Good'
  <2>1. /\ UNCHANGED <<status, row, sessions, keys, owner, urls>>
        /\ object' \in [Ids -> {"none", "small", "large"}]
        /\ oversized' \subseteq Ids
    BY <1>0, <1>11 DEF Put, tables
  <2>2. QED
    BY <1>0, <1>3, <2>1 DEF NothingOutlivesItsAccount
<1>12. ASSUME NEW u \in Ids, UrlExpires(u) \/ SessionExpires(u)
       PROVE  Tables' /\ Good'
  <2>1. /\ UNCHANGED <<status, row, keys, owner, object, oversized>>
        /\ sessions' \subseteq sessions /\ urls' \subseteq urls
    BY <1>12 DEF UrlExpires, SessionExpires, tables, storeVars
  <2>2. QED
    BY <1>0, <1>3, <2>1 DEF NothingOutlivesItsAccount
<1>13. QED
  BY <1>2, <1>4, <1>5, <1>6, <1>7, <1>8, <1>9, <1>10, <1>11, <1>12, ReadsEffect,
    WritingSteps
----------------------------------------------------------------------------
(* The object store.                                                       *)

(* Between HeadObject and what confirm_upload does next, only an upload that *)
(* is too large changes the object for the worse.                           *)
LEMMA StoreNext ==
  ASSUME Typed, WellCalled, HeadStillHolds, [Next]_vars
  PROVE  /\ HeadStillHolds'
         /\ oversized \subseteq oversized'
         /\ \A u \in Ids \ oversized' : object[u] = "small" => object'[u] = "small"
<1> USE DEF Typed
<1>1. ASSUME NEW r \in Requests, NEW pc \in {"image", "purge"}, At(r, "confirm", pc)'
      PROVE  \/ At(r, "confirm", pc) /\ req'[r].user = req[r].user
             \/ HeadObject(r) /\ Goto(r, pc)
  <2>1. CASE Stays
    BY <1>1, <2>1 DEF Stays, At
  <2>2. ASSUME NEW q \in Requests, NEW a \in Answers, Answer(q, a)
        PROVE  At(r, "confirm", pc) /\ req'[r].user = req[r].user
    BY <1>1, <2>2 DEF Answer, At
  <2>3. ASSUME NEW q \in Requests, NEW to \in Phases, Running(q), Goto(q, to),
               to \in {"image", "purge"} => HeadObject(q)
        PROVE  \/ At(r, "confirm", pc) /\ req'[r].user = req[r].user
               \/ HeadObject(r) /\ Goto(r, pc)
    <3>1. CASE q = r
      <4>1. to = pc
        BY <1>1, <2>3, <3>1 DEF Goto, At
      <4>2. QED
        BY <2>3, <3>1, <4>1
    <3>2. CASE q # r
      BY <1>1, <2>3, <3>2 DEF Goto, At
    <3>3. QED
      BY <3>1, <3>2
  <2>4. ASSUME NEW q \in Requests, NEW op \in Operations, NEW u \in Ids \cup {None},
               NEW arg \in Arguments, Receive(q, op, u, arg)
        PROVE  At(r, "confirm", pc) /\ req'[r].user = req[r].user
    <3>1. req' = [req EXCEPT ![q] = [pc |-> Entry(op), op |-> op, user |-> u,
                                     arg |-> arg, answer |-> None]]
      BY <2>4 DEF Receive
    <3>2. Entry(op) # pc
      BY EntryType
    <3>3. q # r
      BY <1>1, <3>1, <3>2 DEF At
    <3>4. QED
      BY <1>1, <3>1, <3>3 DEF At
  <2>5. QED
    BY <2>1, <2>2, <2>3, <2>4, StepShape DEF Replies, Advances, Arrives
<1>2. ASSUME NEW r \in Requests, At(r, "confirm", "image") \/ At(r, "confirm", "purge")
      PROVE  req[r].user \in Ids
  BY <1>2 DEF WellCalled, At, Running
<1>3. /\ oversized \subseteq oversized'
      /\ \A u \in Ids : object'[u] = "large" => u \in oversized'
      /\ \A u \in Ids \ oversized' : object[u] = "small" => object'[u] = "small"
  <2>1. ASSUME UNCHANGED <<object, oversized>>
        PROVE  /\ oversized \subseteq oversized'
               /\ \A u \in Ids : object'[u] = "large" => u \in oversized'
               /\ \A u \in Ids \ oversized' : object[u] = "small" => object'[u] = "small"
    BY <2>1 DEF HeadStillHolds
  <2>2. ASSUME NEW u \in Ids, NEW size \in {"small", "large"}, Put(u, size)
        PROVE  /\ oversized \subseteq oversized'
               /\ \A v \in Ids : object'[v] = "large" => v \in oversized'
               /\ \A v \in Ids \ oversized' : object[v] = "small" => object'[v] = "small"
    BY <2>2 DEF Put, HeadStillHolds
  <2>3. ASSUME NEW r \in Requests, Purge(r)
        PROVE  /\ oversized \subseteq oversized'
               /\ \A v \in Ids : object'[v] = "large" => v \in oversized'
               /\ \A v \in Ids \ oversized' : object[v] = "small" => object'[v] = "small"
    <3>1. req[r].user \in oversized
      BY <2>3 DEF Purge, HeadStillHolds
    <3>2. /\ object' = [object EXCEPT ![req[r].user] = "none"] \/ object' = object
          /\ oversized' = oversized
      BY <2>3 DEF Purge
    <3>3. QED
      BY <3>1, <3>2 DEF HeadStillHolds
  <2>4. ASSUME NEW r \in Requests,
               \/ SignUp(r) \/ Login(r) \/ Rename(r) \/ UploadKeys(r)
               \/ RegisterToken(r) \/ DeleteAccount(r) \/ RequestUploadUrl(r)
               \/ SetImage(r)
        PROVE  UNCHANGED <<object, oversized>>
    BY <2>4 DEF SignUp, Login, Rename, UploadKeys, RegisterToken, DeleteAccount,
      RequestUploadUrl, SetImage, storeVars
  <2>5. ASSUME NEW u \in Ids, UrlExpires(u) \/ SessionExpires(u)
        PROVE  UNCHANGED <<object, oversized>>
    BY <2>5 DEF UrlExpires, SessionExpires, storeVars
  <2>6. QED
    BY <2>1, <2>2, <2>3, <2>4, <2>5, ReadsEffect, WritingSteps
<1>4. ASSUME NEW r \in Requests, HeadObject(r)
      PROVE  /\ UNCHANGED <<object, oversized>> /\ req[r].user \in Ids
             /\ Goto(r, "image") => object[req[r].user] = "small" /\ req'[r].user = req[r].user
             /\ Goto(r, "purge") => object[req[r].user] = "large" /\ req'[r].user = req[r].user
  <2>1. UNCHANGED <<object, oversized>> /\ req[r].user \in Ids
    BY <1>4 DEF HeadObject, storeVars, WellCalled, At, Running
  <2>2. \/ AfterHead(object[req[r].user]) = "not_found" /\ Answer(r, "not_found")
        \/ Goto(r, AfterHead(object[req[r].user]))
    BY <1>4 DEF HeadObject
  <2>3. \A pc \in {"image", "purge"} :
          Goto(r, pc) => /\ AfterHead(object[req[r].user]) = pc
                         /\ req'[r].user = req[r].user
    BY <2>2 DEF Goto, Answer
  <2>4. /\ AfterHead(object[req[r].user]) = "image" => object[req[r].user] = "small"
        /\ AfterHead(object[req[r].user]) = "purge" => object[req[r].user] = "large"
    BY <2>1 DEF AfterHead, AfterHeadUnchecked
  <2>5. QED
    BY <2>1, <2>3, <2>4
<1>5. ASSUME NEW r \in Requests, At(r, "confirm", "image")'
      PROVE  object'[req'[r].user] = "small" \/ req'[r].user \in oversized'
  <2>1. CASE At(r, "confirm", "image") /\ req'[r].user = req[r].user
    BY <1>2, <1>3, <2>1 DEF HeadStillHolds
  <2>2. CASE HeadObject(r) /\ Goto(r, "image")
    BY <1>4, <2>2
  <2>3. QED
    BY <1>1, <1>5, <2>1, <2>2
<1>6. ASSUME NEW r \in Requests, At(r, "confirm", "purge")'
      PROVE  req'[r].user \in oversized'
  <2>1. CASE At(r, "confirm", "purge") /\ req'[r].user = req[r].user
    BY <1>3, <2>1 DEF HeadStillHolds
  <2>2. CASE HeadObject(r) /\ Goto(r, "purge")
    BY <1>4, <2>2 DEF HeadStillHolds
  <2>3. QED
    BY <1>1, <1>6, <2>1, <2>2
<1>7. QED
  BY <1>3, <1>5, <1>6 DEF HeadStillHolds

(* users.image is set by SetImage alone, for an object that is there; a new *)
(* account has none.                                                       *)
LEMMA ImageNext ==
  ASSUME Inv, [Next]_vars
  PROVE  ImageIsServable'
<1> USE DEF Inv, Typed
<1>1. /\ oversized \subseteq oversized'
      /\ \A u \in Ids \ oversized' : object[u] = "small" => object'[u] = "small"
  BY StoreNext
<1>2. ASSUME NEW u \in Ids, u \in Live', u \notin oversized', row'[u].image
      PROVE  object[u] = "small"
  <2>1. ASSUME row'[u] = row[u] PROVE object[u] = "small"
    BY <1>1, <1>2, <2>1, TablesNext DEF ImageIsServable, Live
  <2>2. ASSUME NEW r \in Requests, SignUp(r) PROVE object[u] = "small"
    <3>1. \/ UNCHANGED row
          \/ \E v \in Ids : row' = [row EXCEPT ![v] = [email |-> Email(r), name |-> Name(r),
                                                     image |-> FALSE]]
      BY <2>2 DEF SignUp, tables
    <3>2. row'[u] = row[u] \/ row'[u].image = FALSE
      BY <3>1
    <3>3. QED
      BY <1>2, <2>1, <3>2
  <2>3. ASSUME NEW r \in Requests, Rename(r) PROVE object[u] = "small"
    <3>1. UNCHANGED row \/ row' = [row EXCEPT ![req[r].user].name = Name(r)]
      BY <2>3 DEF Rename
    <3>2. UNCHANGED status
      BY <2>3 DEF Rename
    <3>3. u \in Live /\ row[u] \in [email : Emails, name : Names, image : BOOLEAN]
      BY <1>2, <3>2 DEF Live, Row
    <3>4. row'[u].image = row[u].image
      BY <3>1, <3>3
    <3>5. QED
      BY <1>1, <1>2, <3>3, <3>4 DEF ImageIsServable
  <2>4. ASSUME NEW r \in Requests, SetImage(r) PROVE object[u] = "small"
    <3>1. CASE u = req[r].user
      BY <1>1, <1>2, <2>4, <3>1 DEF SetImage, HeadStillHolds
    <3>2. CASE u # req[r].user
      BY <2>1, <2>4, <3>2 DEF SetImage
    <3>3. QED
      BY <3>1, <3>2
  <2>5. ASSUME NEW r \in Requests, DeleteAccount(r) PROVE object[u] = "small"
    <3>1. u # req[r].user
      BY <1>2, <2>5 DEF DeleteAccount, Live
    <3>2. QED
      BY <2>1, <2>5, <3>1 DEF DeleteAccount
  <2>6. ASSUME NEW r \in Requests,
               \/ Login(r) \/ UploadKeys(r) \/ RegisterToken(r)
               \/ RequestUploadUrl(r) \/ Purge(r)
        PROVE  UNCHANGED row
    BY <2>6 DEF Login, UploadKeys, RegisterToken, RequestUploadUrl, Purge, tables
  <2>7. ASSUME NEW v \in Ids,
               \/ \E size \in {"small", "large"} : Put(v, size)
               \/ UrlExpires(v) \/ SessionExpires(v)
        PROVE  UNCHANGED row
    BY <2>7 DEF Put, UrlExpires, SessionExpires, tables
  <2>8. QED
    BY <2>1, <2>2, <2>3, <2>4, <2>5, <2>6, <2>7, ReadsEffect, WritingSteps
<1>3. QED
  BY <1>1, <1>2 DEF ImageIsServable, Live

(* The invariant holds at the start, with one account, and is kept.         *)
LEMMA Invariance == Spec => []Inv
<1>1. Init => Inv
  <2> SUFFICES ASSUME Init PROVE Inv
    OBVIOUS
  <2>1. PICK e \in Emails, n \in Names :
          /\ n = Lower[n]
          /\ row = [u \in Ids |-> IF u = First
                                   THEN [email |-> e, name |-> n, image |-> FALSE] ELSE NoRow]
    BY DEF Init
  <2>2. [email |-> e, name |-> n, image |-> FALSE] # NoRow
    BY AccountsAssumption DEF NoRow
  <2>3. Live = {First}
    BY AccountsAssumption DEF Init, Live
  <2>4. row \in [Ids -> Row] /\ Live = {u \in Ids : row[u] # NoRow}
    BY <2>1, <2>2, <2>3, AccountsAssumption DEF Row
  <2>5. Typed
    BY <2>4, AccountsAssumption DEF Init, Typed, Phases, Answers, Arguments
  <2>6. WellCalled /\ HeadStillHolds
    BY DEF Init, WellCalled, HeadStillHolds, Running, At
  <2>7. Normalized /\ NamesUnique /\ ImageIsServable
    BY <2>1, <2>3, AccountsAssumption DEF Normalized, NamesUnique, ImageIsServable
  <2>8. NothingOutlivesItsAccount
    BY <2>3 DEF Init, NothingOutlivesItsAccount
  <2>9. QED
    BY <2>5, <2>6, <2>7, <2>8 DEF Inv
<1>2. Inv /\ [Next]_vars => Inv'
  BY RequestsNext, TablesNext, StoreNext, ImageNext DEF Inv
<1>3. QED
  BY <1>1, <1>2, PTL DEF Spec

(* Sessions, keys and push tokens never belong to an account that is not    *)
(* there: what keys.rs:98 and push_tokens.rs:74 write for an account they   *)
(* read before, the foreign keys refuse once account.rs has deleted it.     *)
THEOREM RowsHaveTheirAccount == Spec => []NothingOutlivesItsAccount
  BY Invariance, PTL DEF Inv

(* However signups and renames interleave, no two accounts have one email   *)
(* or, by normalize_username, one name.                                    *)
THEOREM NamesAreUnique == Spec => []NamesUnique
  BY Invariance, PTL DEF Inv

(* confirm_upload sets users.image for an object it has seen, and an object *)
(* of an accepted size only goes after a later one that is too large.       *)
THEOREM ImagesAreServable == Spec => []ImageIsServable
  BY Invariance, PTL DEF Inv
----------------------------------------------------------------------------
(* The limiter of the search.                                              *)

(* The requests let through since the window was opened are counted, and    *)
(* nothing is let through between the end of a window and the next.         *)
WindowInv ==
  /\ count \in 0..MaxSearches /\ age \in 0..Window
  /\ granted \in [1..Window -> Nat]
  /\ granted[2] <= MaxSearches
  /\ age = 0 => granted[1] <= count
  /\ age = 1 => granted[1] + granted[2] <= count
  /\ age = Window => granted[1] = 0

(* Only a search and the clock touch the limiter.                           *)
LEMMA LimiterSteps ==
  ASSUME [Next]_vars
  PROVE  (\E r \in Requests : RateLimit(r)) \/ Tick \/ UNCHANGED limiter
<1>1. ASSUME NEW r \in Requests, Handle(r), ~RateLimit(r) PROVE UNCHANGED limiter
  <2>1. CASE \/ ReadSession(r) \/ ReadAccount(r) \/ Refuse(r) \/ Fails(r)
             \/ CheckName(r) \/ SignUp(r) \/ Login(r)
    BY <2>1 DEF ReadSession, ReadAccount, Refuse, Fails, CheckName, SignUp, Login
  <2>2. CASE \/ Rename(r) \/ UploadKeys(r) \/ RegisterToken(r) \/ DeleteAccount(r)
             \/ RequestUploadUrl(r) \/ HeadObject(r) \/ Purge(r) \/ SetImage(r)
             \/ GetAvatar(r) \/ SearchUsers(r)
    BY <2>2 DEF Rename, UploadKeys, RegisterToken, DeleteAccount, RequestUploadUrl,
      HeadObject, Purge, SetImage, GetAvatar, SearchUsers
  <2>3. QED
    BY <1>1, <2>1, <2>2 DEF Handle
<1>2. CASE \/ Arrives
           \/ \E u \in Ids, size \in {"small", "large"} : Put(u, size)
           \/ \E u \in Ids : UrlExpires(u) \/ SessionExpires(u)
           \/ UNCHANGED vars
  BY <1>2 DEF Arrives, Receive, Put, UrlExpires, SessionExpires, vars
<1>3. QED
  BY <1>1, <1>2 DEF Next, Arrives

(* A search opens a window when the last one has ended, and is let through  *)
(* within its budget; a tick moves what was let through into the past.      *)
LEMMA WindowNext ==
  ASSUME WindowInv, [Next]_vars
  PROVE  WindowInv'
<1> USE AccountsAssumption
<1>0. granted[1] \in Nat /\ granted[2] \in Nat /\ age \in {0, 1, 2}
  BY DEF WindowInv, Window
<1>1. ASSUME NEW r \in Requests, RateLimit(r) PROVE WindowInv'
  <2> DEFINE used == IF age = Window THEN 0 ELSE count
  <2>1. used \in 0..MaxSearches /\ age' = IF age = Window THEN 0 ELSE age
    BY <1>1 DEF RateLimit, WindowInv
  <2>2. CASE WithinBudget(used)
    <3>1. /\ count' = used + 1 /\ used < MaxSearches
          /\ granted' = [granted EXCEPT ![1] = @ + 1]
      BY <1>1, <2>2 DEF RateLimit, WithinBudget
    <3>2. /\ granted' \in [1..Window -> Nat]
          /\ granted'[1] = granted[1] + 1 /\ granted'[2] = granted[2]
      BY <1>0, <3>1 DEF WindowInv, Window
    <3>3. QED
      BY <1>0, <2>1, <3>1, <3>2 DEF WindowInv, Window
  <2>3. CASE ~WithinBudget(used)
    <3>1. count' = used /\ granted' = granted
      BY <1>1, <2>3 DEF RateLimit
    <3>2. QED
      BY <1>0, <2>1, <3>1 DEF WindowInv, Window
  <2>4. QED
    BY <2>2, <2>3
<1>2. CASE Tick
  <2>1. /\ count' = count /\ age' = IF age < Window THEN age + 1 ELSE age
        /\ granted' \in [1..Window -> Nat]
        /\ granted'[1] = 0 /\ granted'[2] = granted[1]
    BY <1>0, <1>2 DEF Tick, WindowInv, Window
  <2>2. QED
    BY <1>0, <2>1 DEF WindowInv, Window
<1>3. CASE UNCHANGED limiter
  BY <1>3 DEF WindowInv, limiter
<1>4. QED
  BY <1>1, <1>2, <1>3, LimiterSteps

LEMMA WindowIsKept == Spec => []WindowInv
<1>1. Init => WindowInv
  BY AccountsAssumption DEF Init, WindowInv, Window
<1>2. WindowInv /\ [Next]_vars => WindowInv'
  BY WindowNext
<1>3. QED
  BY <1>1, <1>2, PTL DEF Spec

(* However the searches fall, at most twice the budget is let through in    *)
(* any stretch as long as the window (SearchRateLimiter).                   *)
THEOREM SearchesAreLimited == Spec => []SearchBudget
<1>1. WindowInv => SearchBudget
  BY AccountsAssumption DEF WindowInv, Window, SearchBudget
<1>2. QED
  BY <1>1, WindowIsKept, PTL

(* Every table, object, request and counter keeps to its type.              *)
THEOREM TypeCorrect == Spec => []TypeOK
<1>1. Inv /\ WindowInv => TypeOK
  <2> SUFFICES ASSUME Inv, WindowInv PROVE TypeOK
    OBVIOUS
  <2>1. \A t \in 1..Window : granted[t] \in 0..(2 * MaxSearches)
    BY AccountsAssumption DEF WindowInv, Window
  <2>2. granted \in [1..Window -> 0..(2 * MaxSearches)]
    BY <2>1 DEF WindowInv
  <2>3. QED
    BY <2>2 DEF Inv, Typed, WindowInv, TypeOK
<1>2. QED
  BY <1>1, Invariance, WindowIsKept, PTL
============================================================================
