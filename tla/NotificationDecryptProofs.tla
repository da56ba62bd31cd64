----------------------- MODULE NotificationDecryptProofs -----------------------
(* Proofs of the properties of the shared session.                          *)
EXTENDS NotificationDecryptProperties, TLAPS

(* An envelope that a session has moved past is never decrypted with it.   *)
Behind(e, s) == Chain[e] < s.chain \/ (Chain[e] = s.chain /\ Number[e] < s.number)

(* A write is a step of the session it was derived from, and the           *)
(* generations tell whether that is still the stored one.                  *)
SeenIsOld ==
  \A r \in Receivers :
    recv[r].pc \in {"looking", "resolving", "writing", "rechecking"} =>
      /\ session # None /\ recv[r].seen # None /\ recv[r].env # None
      /\ recv[r].seen.generation <= session.generation
      /\ recv[r].seen.generation = session.generation => recv[r].seen = session

WritesFollow ==
  \A r \in Receivers : recv[r].pc = "writing" => Decrypts(recv[r].seen, recv[r].env)

ConsumedIsBehind ==
  \A e \in consumed : e \in Intact /\ session # None /\ Behind(e, session)

RecordsAreBound ==
  \A i \in Ids : records[i] # None =>
    records[i].digest = records[i].plaintext /\ records[i].digest \in consumed

OkIsConsumed ==
  \A r \in Receivers :
    /\ recv[r].pc \in {"acquiring"} \cup Locked => recv[r].env # None
    /\ recv[r].answer = "ok" => recv[r].pc \in {"releasing", "done"} /\ recv[r].env \in consumed

(* A walk has passed no envelope of the contact that is in the queue.      *)
WalkIsFirst(c) ==
  /\ c.next <= last + 1
  /\ \A m \in queued \cap Envelopes : c.next <= Seq[m]
  /\ c.process = "notification" /\ c.env # None =>
       /\ Seq[c.env] <= last
       /\ \A m \in queued \cap Envelopes : Seq[c.env] <= Seq[m]

QueueOrder ==
  /\ \A m \in queued : Seq[m] # 0 /\ Seq[m] <= last
  /\ \A r \in Receivers : WalkIsFirst(recv[r])

Inv ==
  /\ TypeOK
  /\ QueueOrder
  /\ SeenIsOld
  /\ WritesFollow
  /\ ConsumedIsBehind
  /\ RecordsAreBound
  /\ OkIsConsumed
  /\ PlaintextIsBound
  /\ NothingIsLost

Call == [pc : Phases, process : {"app", "notification"}, next : Nat, walked : Nat,
         env : Envelopes \cup {None},
         seen : Sessions \cup {None}, answer : Failures \cup {"ok", None},
         plaintext : Envelopes \cup {None}]

(* What a decryption does to the order of the envelopes.                   *)
LEMMA DecryptsForward ==
  ASSUME NEW s \in Sessions, NEW e \in Envelopes, Decrypts(s, e)
  PROVE  /\ After(s, e) \in Sessions
         /\ e \in Intact /\ ~Behind(e, s) /\ Behind(e, After(s, e))
         /\ \A d \in Envelopes : Behind(d, s) => Behind(d, After(s, e))
         /\ After(s, e).generation = s.generation + 1
BY NotificationAssumption DEF Sessions, Decrypts, After, Behind, Intact

LEMMA NoneIsNoValue ==
  /\ None \notin Sessions /\ None \notin Records /\ None \notin Envelopes
  /\ None \notin Receivers /\ None # "ok"
BY NotificationAssumption DEF Sessions, Records

(* A write under an equal generation advances the stored session.          *)
LEMMA PersistAdvances ==
  ASSUME Inv, NEW r \in Receivers, recv[r].pc = "writing", UpToDate(recv[r].seen)
  PROVE  /\ recv[r].seen = session /\ session \in Sessions
         /\ recv[r].env \in Envelopes /\ Decrypts(session, recv[r].env)
         /\ recv[r].env \notin consumed
<1>1. /\ recv[r].seen = session /\ session \in Sessions /\ recv[r].env \in Envelopes
  BY DEF Inv, TypeOK, SeenIsOld, UpToDate
<1>2. Decrypts(session, recv[r].env)
  BY <1>1 DEF Inv, WritesFollow
<1> QED BY <1>1, <1>2, DecryptsForward DEF Inv, ConsumedIsBehind

LEMMA Initially == Init => Inv
<1> SUFFICES ASSUME Init PROVE Inv
  OBVIOUS
<1>1. \A r \in Receivers :
        /\ recv[r] \in {Idle("app"), Idle("notification")}
        /\ recv[r].pc = "idle" /\ recv[r].answer = None
        /\ recv[r].next = 0 /\ recv[r].env = None
  BY DEF Init, Idle
<1>2. TypeOK
  <2>1. recv \in [Receivers -> {Idle("app"), Idle("notification")}]
    BY DEF Init
  <2>2. Idle("app") \in Call /\ Idle("notification") \in Call
    BY DEF Idle, Call, Phases
  <2>3. recv \in [Receivers -> Call]
    BY <2>1, <2>2
  <2>4. session \in Sessions \cup {None}
    BY DEF Init, Sessions
  <2>5. \A r \in Receivers : recv[r].answer # "ok"
    BY <1>1, NoneIsNoValue
  <2> QED BY <2>3, <2>4, <2>5 DEF Init, TypeOK, Call
<1>3. \A i \in Ids : records[i] = None
  BY DEF Init
<1>4. queued = {} /\ last = 0
  BY DEF Init
<1>5. QueueOrder
  BY <1>1, <1>4 DEF QueueOrder, WalkIsFirst
<1> QED BY <1>1, <1>2, <1>3, <1>5, NoneIsNoValue
  DEF Init, Inv, SeenIsOld, WritesFollow, ConsumedIsBehind, RecordsAreBound,
      OkIsConsumed, PlaintextIsBound, NothingIsLost, Locked
----------------------------------------------------------------------------
(* The steps that leave the store alone: only the call itself moves on.    *)

Untouched == UNCHANGED <<queueVars, storeVars>>

(* What such a step owes for its receiver.                                 *)
CallInv(c) ==
  /\ c \in Call
  /\ WalkIsFirst(c)
  /\ c.answer = "ok" => /\ c.pc \in {"releasing", "done"} /\ c.env \in consumed
                        /\ c.plaintext # None /\ c.plaintext = c.env
  /\ c.pc \in {"acquiring"} \cup Locked => c.env # None
  /\ c.pc \in {"looking", "resolving", "writing", "rechecking"} =>
       /\ session # None /\ c.seen # None /\ c.env # None
       /\ c.seen.generation <= session.generation
       /\ c.seen.generation = session.generation => c.seen = session
  /\ c.pc = "writing" => Decrypts(c.seen, c.env)

LEMMA CallsOfInv == ASSUME Inv, NEW r \in Receivers PROVE CallInv(recv[r])
BY DEF Inv, CallInv, TypeOK, Call, QueueOrder, SeenIsOld, WritesFollow, OkIsConsumed,
       PlaintextIsBound

LEMMA LocalStep ==
  ASSUME Inv, NEW r \in Receivers, NEW c, CallInv(c), Untouched,
         recv' = [recv EXCEPT ![r] = c], lock' \in Receivers \cup {None}
  PROVE  Inv'
<1>1. /\ recv' \in [Receivers -> Call]
      /\ \A q \in Receivers : CallInv(recv'[q])
  <2>1. recv \in [Receivers -> Call]
    BY DEF Inv, TypeOK, Call
  <2>2. \A q \in Receivers : recv'[q] = IF q = r THEN c ELSE recv[q]
    BY <2>1
  <2> QED BY <2>1, <2>2, CallsOfInv DEF CallInv
<1>2. CallInv(recv[r])
  BY CallsOfInv
<1>3. TypeOK'
  BY <1>1 DEF Inv, TypeOK, Untouched, queueVars, storeVars, CallInv, Call
<1>4. SeenIsOld' /\ WritesFollow' /\ OkIsConsumed' /\ PlaintextIsBound'
  <2>1. SeenIsOld'
    BY <1>1 DEF CallInv, Untouched, queueVars, storeVars, SeenIsOld
  <2>2. WritesFollow'
    BY <1>1 DEF CallInv, Untouched, queueVars, storeVars, WritesFollow
  <2>3. OkIsConsumed' /\ PlaintextIsBound'
    BY <1>1 DEF CallInv, Untouched, queueVars, storeVars, OkIsConsumed, PlaintextIsBound,
                Decrypts
  <2> QED BY <2>1, <2>2, <2>3
<1>5. ConsumedIsBehind' /\ RecordsAreBound' /\ NothingIsLost'
  BY DEF Inv, Untouched, queueVars, storeVars, ConsumedIsBehind, RecordsAreBound,
         NothingIsLost, CachedFor, Behind
<1>6. QueueOrder'
  BY <1>1 DEF Inv, Untouched, queueVars, QueueOrder, CallInv, WalkIsFirst
<1> QED BY <1>3, <1>4, <1>5, <1>6 DEF Inv

(* The two ways to fix a result.                                           *)
LEMMA FailStep ==
  ASSUME Inv, NEW r \in Receivers, NEW reason \in Failures, Fail(r, reason), Untouched,
         recv[r].env # None, UNCHANGED lock
  PROVE  Inv'
<1> DEFINE c == [recv[r] EXCEPT !.answer = reason, !.pc = "releasing", !.seen = None]
<1>1. CallInv(recv[r])
  BY CallsOfInv
<1>2. CallInv(c)
  <2>1. recv[r] \in Call
    BY <1>1 DEF CallInv
  <2>2. c \in Call
    <3>1. "releasing" \in Phases
      BY DEF Phases, Locked
    <3>2. QED
      BY <2>1, <3>1 DEF Call
  <2>3. /\ c.pc = "releasing" /\ c.answer = reason /\ c.env = recv[r].env
        /\ c.next = recv[r].next /\ c.walked = recv[r].walked
    BY <2>1 DEF Call
  <2>4. reason # "ok"
    BY DEF Failures
  <2>5. WalkIsFirst(c)
    BY <1>1, <2>3 DEF CallInv, WalkIsFirst
  <2> HIDE DEF c
  <2> QED
    BY <2>2, <2>3, <2>4, <2>5 DEF CallInv, Locked
<1>3. recv' = [recv EXCEPT ![r] = c]
  BY DEF Fail, Inv, TypeOK
<1> HIDE DEF c
<1> QED BY <1>2, <1>3, LocalStep DEF Inv, TypeOK

LEMMA SucceedStep ==
  ASSUME Inv, NEW r \in Receivers, Succeed(r, recv[r].env), Untouched,
         recv[r].env \in consumed, UNCHANGED lock
  PROVE  Inv'
<1> DEFINE c == [recv[r] EXCEPT !.answer = "ok", !.pc = "releasing", !.seen = None,
                                !.plaintext = recv[r].env]
<1>1. CallInv(recv[r]) /\ recv[r].env \in Envelopes
  BY CallsOfInv DEF Inv, TypeOK
<1>2. CallInv(c)
  BY <1>1, NoneIsNoValue DEF CallInv, WalkIsFirst, Call, Phases, Locked
<1>3. recv' = [recv EXCEPT ![r] = c]
  BY DEF Succeed, Inv, TypeOK
<1> HIDE DEF c
<1> QED BY <1>2, <1>3, LocalStep DEF Inv, TypeOK

LEMMA GotoStep ==
  ASSUME Inv, NEW r \in Receivers, NEW pc \in Phases, Goto(r, pc), Untouched,
         CallInv([recv[r] EXCEPT !.pc = pc]), lock' \in Receivers \cup {None}
  PROVE  Inv'
<1> DEFINE c == [recv[r] EXCEPT !.pc = pc]
<1>1. recv' = [recv EXCEPT ![r] = c]
  BY DEF Goto, Inv, TypeOK
<1> HIDE DEF c
<1> QED BY <1>1, LocalStep DEF c

LEMMA NothingWalked ==
  ASSUME Inv
  PROVE  0 <= last + 1 /\ \A m \in queued \cap Envelopes : 0 <= Seq[m]
BY NotificationAssumption DEF Inv, TypeOK

LEMMA OverStep ==
  ASSUME Inv, NEW r \in Receivers, NEW reason \in Failures \cup {None}, Over(r, reason),
         Untouched, lock' \in Receivers \cup {None}
  PROVE  Inv'
<1> DEFINE c == [Idle(recv[r].process) EXCEPT !.pc = "done", !.answer = reason]
<1>1. recv[r].process \in {"app", "notification"}
  BY DEF Inv, TypeOK
<1>2. /\ c \in Call /\ c.pc = "done" /\ c.env = None /\ c.next = 0
      /\ c.answer # "ok"
  BY <1>1, NoneIsNoValue DEF Idle, Call, Phases, Failures
<1>3. WalkIsFirst(c)
  BY <1>2, NothingWalked DEF WalkIsFirst
<1>4. CallInv(c)
  BY <1>2, <1>3 DEF CallInv, Locked
<1>5. recv' = [recv EXCEPT ![r] = c]
  BY DEF Over
<1> HIDE DEF c
<1> QED BY <1>4, <1>5, LocalStep

(* A record of this envelope is its plaintext.                             *)
LEMMA CachedIsConsumed ==
  ASSUME Inv, NEW e \in Envelopes, CachedFor(e)
  PROVE  records[Id[e]].plaintext = e /\ e \in consumed
BY NotificationAssumption DEF Inv, RecordsAreBound, CachedFor, Ids

LEMMA LocalSteps ==
  ASSUME Inv, NEW r \in Receivers,
         \/ \E e \in Envelopes : Receive(r, e)
         \/ StartFetch(r) \/ Fetched(r) \/ PassedOver(r) \/ FetchFailed(r)
         \/ Acquire(r) \/ LockTimeout(r) \/ Read(r) \/ LookUp(r) \/ Decode(r)
         \/ NoSenderKey(r) \/ StaleWrite(r) \/ Recheck(r) \/ StoreThrows(r) \/ Release(r) \/ Dies(r)
  PROVE  Inv'
<1>1. CallInv(recv[r]) /\ recv[r] \in Call
  BY CallsOfInv DEF CallInv
<1>2. lock \in Receivers \cup {None}
  BY DEF Inv, TypeOK
<1>3. ASSUME NEW e \in Envelopes, Receive(r, e) PROVE Inv'
  <2> DEFINE c == [recv[r] EXCEPT !.pc = "acquiring", !.env = e]
  <2>1. CallInv(c)
    BY <1>1, <1>3, NoneIsNoValue DEF Receive, CallInv, WalkIsFirst, Call, Phases, Locked
  <2>2. recv' = [recv EXCEPT ![r] = c]
    BY <1>3 DEF Receive, Inv, TypeOK
  <2> HIDE DEF c
  <2> QED BY <1>2, <1>3, <2>1, <2>2, LocalStep DEF Receive, Untouched
<1>4. ASSUME FetchFailed(r) \/ LockTimeout(r) PROVE Inv'
  BY <1>2, <1>4, OverStep DEF FetchFailed, LockTimeout, Untouched, Failures
<1>5. ASSUME Acquire(r) PROVE Inv'
  <2>1. CallInv([recv[r] EXCEPT !.pc = "reading"])
    BY <1>1, <1>5 DEF Acquire, CallInv, WalkIsFirst, Call, Phases, Locked
  <2> QED BY <1>5, <2>1, GotoStep DEF Acquire, Untouched, Phases, Locked
<1>6. ASSUME Read(r) PROVE Inv'
  <2>1. CASE session = None
    BY <1>1, <1>6, <2>1, FailStep DEF Read, Untouched, CallInv, Locked, Failures
  <2>2. CASE session # None
    <3> DEFINE c == [recv[r] EXCEPT !.pc = "looking", !.seen = session]
    <3>1. session \in Sessions
      BY <2>2 DEF Inv, TypeOK
    <3>2. CallInv(c)
      <4>1. /\ c \in Call /\ c.pc = "looking" /\ c.seen = session
            /\ c.env = recv[r].env /\ c.answer = recv[r].answer
            /\ c.plaintext = recv[r].plaintext /\ c.process = recv[r].process
            /\ c.next = recv[r].next
        BY <1>1, <3>1 DEF Call, Phases, Locked
      <4>2. recv[r].env # None
        BY <1>1, <1>6 DEF Read, CallInv, Locked
      <4>3. session.generation <= session.generation
        BY <3>1 DEF Sessions
      <4>4. WalkIsFirst(c) /\ recv[r].answer # "ok"
        BY <1>1, <1>6, <4>1 DEF Read, CallInv, WalkIsFirst
      <4> HIDE DEF c
      <4> QED BY <2>2, <4>1, <4>2, <4>3, <4>4 DEF CallInv
    <3>3. recv' = [recv EXCEPT ![r] = c]
      BY <1>6, <2>2 DEF Read, Inv, TypeOK
    <3> HIDE DEF c
    <3> QED BY <1>2, <1>6, <3>2, <3>3, LocalStep DEF Read, Untouched
  <2> QED BY <2>1, <2>2
<1>7. ASSUME LookUp(r) PROVE Inv'
  <2> DEFINE e == recv[r].env
  <2>1. e \in Envelopes /\ e # None
    BY <1>1, <1>7 DEF LookUp, CallInv, Call, Locked
  <2>2. CASE CachedFor(e)
    <3>1. records[Id[e]].plaintext = e /\ e \in consumed
      BY <2>1, <2>2, CachedIsConsumed
    <3> QED BY <1>7, <2>2, <3>1, SucceedStep DEF LookUp, Untouched
  <2>3. CASE Goto(r, "resolving")
    <3>1. CallInv([recv[r] EXCEPT !.pc = "resolving"])
      BY <1>1, <1>7 DEF LookUp, CallInv, WalkIsFirst, Call, Phases, Locked
    <3> QED BY <1>2, <1>7, <2>3, <3>1, GotoStep DEF LookUp, Untouched, Phases, Locked
  <2>4. CASE Fail(r, "unsupported_envelope") \/ Fail(r, "corrupt_envelope")
    BY <1>7, <2>1, <2>4, FailStep DEF LookUp, Untouched, Failures
  <2> QED BY <1>7, <2>2, <2>3, <2>4 DEF LookUp
<1>8. ASSUME Decode(r) PROVE Inv'
  <2>1. recv[r].env # None
    BY <1>1, <1>8 DEF Decode, CallInv, Locked
  <2>2. CASE Decrypts(recv[r].seen, recv[r].env)
    <3>1. CallInv([recv[r] EXCEPT !.pc = "writing"])
      BY <1>1, <1>8, <2>2 DEF Decode, CallInv, WalkIsFirst, Call, Phases, Locked
    <3> QED BY <1>2, <1>8, <2>2, <3>1, GotoStep DEF Decode, Untouched, Phases, Locked
  <2>3. CASE ~Decrypts(recv[r].seen, recv[r].env)
    BY <1>8, <2>1, <2>3, FailStep DEF Decode, Untouched, Failures
  <2> QED BY <2>2, <2>3
<1>9. ASSUME NoSenderKey(r) \/ StoreThrows(r) PROVE Inv'
  <2>1. recv[r].env # None
    BY <1>1, <1>9 DEF NoSenderKey, StoreThrows, CallInv, Locked
  <2> QED BY <1>9, <2>1, FailStep DEF NoSenderKey, StoreThrows, Untouched, Failures
<1>10. ASSUME StaleWrite(r) PROVE Inv'
  <2>1. CallInv([recv[r] EXCEPT !.pc = "rechecking"])
    BY <1>1, <1>10 DEF StaleWrite, CallInv, WalkIsFirst, Call, Phases, Locked
  <2> QED BY <1>2, <1>10, <2>1, GotoStep DEF StaleWrite, Untouched, Phases, Locked
<1>11. ASSUME Recheck(r) PROVE Inv'
  <2> DEFINE e == recv[r].env
  <2>1. e \in Envelopes /\ e # None
    BY <1>1, <1>11 DEF Recheck, CallInv, Call, Locked
  <2>2. CASE CachedFor(e)
    <3>1. records[Id[e]].plaintext = e /\ e \in consumed
      BY <2>1, <2>2, CachedIsConsumed
    <3> QED BY <1>11, <2>2, <3>1, SucceedStep DEF Recheck, Untouched
  <2>3. CASE ~CachedFor(e)
    BY <1>11, <2>1, <2>3, FailStep DEF Recheck, Untouched, Failures
  <2> QED BY <2>2, <2>3
<1>12. ASSUME Release(r) PROVE Inv'
  <2>1. lock' \in Receivers \cup {None}
    BY <1>2, <1>12 DEF Release
  <2>2. CASE recv[r].answer = "ok"
    <3>1. CallInv([recv[r] EXCEPT !.pc = "done"])
      BY <1>1, <1>12 DEF Release, CallInv, WalkIsFirst, Call, Phases, Locked
    <3> QED BY <1>12, <2>1, <2>2, <3>1, GotoStep DEF Release, Untouched, Phases
  <2>3. CASE recv[r].answer # "ok"
    <3>1. recv[r].answer \in Failures \cup {None}
      BY <1>1, <2>3 DEF Call
    <3> QED BY <1>12, <2>1, <2>3, <3>1, OverStep DEF Release, Untouched
  <2> QED BY <2>2, <2>3
<1>13. ASSUME Dies(r) PROVE Inv'
  <2> DEFINE c == [Idle(recv[r].process) EXCEPT !.pc = "dead"]
  <2>1. CallInv(c)
    <3>1. /\ c \in Call /\ c.pc = "dead" /\ c.env = None /\ c.next = 0
          /\ c.answer # "ok"
      BY <1>1, NoneIsNoValue DEF Idle, Call, Phases
    <3>2. WalkIsFirst(c)
      BY <3>1, NothingWalked DEF WalkIsFirst
    <3> QED BY <3>1, <3>2 DEF CallInv, Locked
  <2>2. recv' = [recv EXCEPT ![r] = c]
    BY <1>13 DEF Dies
  <2> HIDE DEF c
  <2> QED BY <1>2, <1>13, <2>1, <2>2, LocalStep DEF Dies, Untouched
<1>14. ASSUME StartFetch(r) PROVE Inv'
  <2>1. CallInv([recv[r] EXCEPT !.pc = "fetching"])
    BY <1>1, <1>14 DEF StartFetch, CallInv, WalkIsFirst, Call, Phases, Locked
  <2> QED BY <1>2, <1>14, <2>1, GotoStep DEF StartFetch, Untouched, Phases
<1>15. ASSUME Fetched(r) PROVE Inv'
  <2>1. PICK m \in queued \cap Envelopes :
          /\ FirstFrom(r, m)
          /\ recv' = [recv EXCEPT ![r].pc = "acquiring", ![r].env = m, ![r].next = 0,
                                  ![r].walked = 0]
    BY <1>15 DEF Fetched
  <2> DEFINE c == [recv[r] EXCEPT !.pc = "acquiring", !.env = m, !.next = 0, !.walked = 0]
  <2>2. /\ c \in Call /\ c.pc = "acquiring" /\ c.env = m /\ c.next = 0
        /\ c.answer = recv[r].answer /\ recv[r].answer # "ok" /\ m # None
    <3>1. m \in Envelopes /\ recv[r].answer # "ok" /\ recv[r].pc = "fetching"
      BY <1>1, <1>15 DEF Fetched, CallInv
    <3>2. c \in Call
      BY <1>1, <3>1 DEF Call, Phases
    <3> QED BY <1>1, <3>1, <3>2, NoneIsNoValue DEF Call
  <2>3. WalkIsFirst(c)
    <3>1. \A n \in queued \cap Envelopes : recv[r].next <= Seq[n]
      BY <1>1 DEF CallInv, WalkIsFirst
    <3>2. Seq[m] <= last /\ \A n \in queued \cap Envelopes : Seq[m] <= Seq[n]
      BY <2>1, <3>1 DEF FirstFrom, Inv, QueueOrder
    <3> QED BY <2>2, <3>2, NothingWalked DEF WalkIsFirst
  <2>4. CallInv(c)
    BY <2>2, <2>3 DEF CallInv, Locked
  <2>5. recv' = [recv EXCEPT ![r] = c]
    BY <2>1 DEF Inv, TypeOK
  <2> HIDE DEF c
  <2> QED BY <1>2, <1>15, <2>4, <2>5, LocalStep DEF Fetched, Untouched
<1>16. ASSUME PassedOver(r) PROVE Inv'
  <2>1. PICK m \in queued \cap Others :
          /\ FirstFrom(r, m)
          /\ recv' = [recv EXCEPT ![r].next = Seq[m] + 1, ![r].walked = @ + 1]
    BY <1>16 DEF PassedOver
  <2> DEFINE c == [recv[r] EXCEPT !.next = Seq[m] + 1, !.walked = @ + 1]
  <2>2. Seq[m] \in Nat /\ Seq[m] # 0 /\ Seq[m] <= last
    BY <2>1, NotificationAssumption DEF Inv, QueueOrder
  <2>3. /\ c \in Call /\ c.pc = "fetching" /\ c.next = Seq[m] + 1
        /\ c.answer = recv[r].answer /\ c.env = recv[r].env /\ c.process = recv[r].process
        /\ c.plaintext = recv[r].plaintext
    <3>1. recv[r].pc = "fetching" /\ recv[r].walked + 1 \in Nat /\ Seq[m] + 1 \in Nat
      BY <1>1, <1>16, <2>2 DEF PassedOver, Call
    <3> QED BY <1>1, <3>1 DEF Call
  <2>4. \A n \in queued \cap Envelopes : c.next <= Seq[n]
    <3> SUFFICES ASSUME NEW n \in queued \cap Envelopes PROVE Seq[m] + 1 <= Seq[n]
      BY <2>3
    <3>1. recv[r].next <= Seq[n]
      BY <1>1 DEF CallInv, WalkIsFirst
    <3>2. Seq[m] <= Seq[n] /\ Seq[m] # Seq[n] /\ Seq[n] \in Nat
      BY <2>1, <2>2, <3>1, NotificationAssumption DEF FirstFrom
    <3> QED BY <2>2, <3>2
  <2>5. WalkIsFirst(c)
    BY <1>1, <2>2, <2>3, <2>4 DEF CallInv, WalkIsFirst, Inv, TypeOK
  <2>6. CallInv(c)
    BY <1>1, <2>3, <2>5 DEF CallInv, Locked
  <2>7. recv' = [recv EXCEPT ![r] = c]
    BY <2>1 DEF Inv, TypeOK
  <2> HIDE DEF c
  <2> QED BY <1>2, <1>16, <2>6, <2>7, LocalStep DEF PassedOver, Untouched
<1> QED BY <1>3, <1>4, <1>5, <1>6, <1>7, <1>8, <1>9, <1>10, <1>11, <1>12, <1>13, <1>14, <1>15,
           <1>16
----------------------------------------------------------------------------
(* The steps that write the store.                                         *)

LEMMA PersistStep ==
  ASSUME Inv, NEW r \in Receivers, Write(r) \/ WriteUnconfirmed(r)
  PROVE  Inv'
<1> DEFINE e == recv[r].env
           c == recv'[r]
<1>1. /\ recv[r].seen = session /\ session \in Sessions
      /\ e \in Envelopes /\ e \in Intact /\ e \notin consumed /\ e # None
  BY PersistAdvances, NoneIsNoValue DEF Write, WriteUnconfirmed, Decrypts
<1>2. /\ session' = After(session, e) /\ session' \in Sessions /\ session' # None
      /\ session'.generation = session.generation + 1 /\ Behind(e, session')
      /\ \A d \in Envelopes : Behind(d, session) => Behind(d, session')
  <2>1. session' = After(session, e)
    BY <1>1 DEF Write, WriteUnconfirmed, Persist
  <2>2. Decrypts(session, e)
    BY PersistAdvances DEF Write, WriteUnconfirmed
  <2> QED BY <1>1, <2>1, <2>2, DecryptsForward, NoneIsNoValue
<1>3. /\ consumed' = consumed \cup {e} /\ ingested' = ingested /\ lock' = lock
      /\ queued' = queued /\ last' = last
      /\ records' = [records EXCEPT ![Id[e]] = [digest |-> e, plaintext |-> e]]
  BY DEF Write, WriteUnconfirmed, Persist, queueVars
<1>4. /\ c \in Call /\ c.pc = "releasing" /\ c.env = e
      /\ c.answer = "ok" => c.plaintext = e
      /\ recv' = [recv EXCEPT ![r] = c] /\ recv'[r] = c
  BY <1>1 DEF Write, WriteUnconfirmed, Succeed, Fail, Inv, TypeOK, Call, Phases, Locked,
              Failures
<1> HIDE DEF c
<1>5. /\ recv'[r] = c
      /\ \A q \in Receivers : q # r => recv'[q] = recv[q]
  BY <1>4 DEF Inv, TypeOK
<1>6. recv' \in [Receivers -> Call]
  BY <1>4 DEF Inv, TypeOK, Call
<1>7. Id[e] \in Ids
  BY <1>1 DEF Ids
<1>8. /\ records'[Id[e]] = [digest |-> e, plaintext |-> e]
      /\ \A i \in Ids : i # Id[e] => records'[i] = records[i]
  BY <1>3, <1>7 DEF Inv, TypeOK
<1>9. TypeOK'
  <2>1. records' \in [Ids -> Records \cup {None}]
    BY <1>1, <1>3, <1>7 DEF Inv, TypeOK, Records
  <2>2. \A q \in Receivers : recv'[q].answer = "ok" => recv'[q].plaintext # None
    BY <1>1, <1>4, <1>5 DEF Inv, TypeOK
  <2> QED BY <1>1, <1>2, <1>3, <1>6, <2>1, <2>2 DEF Inv, TypeOK, Call
<1>10. SeenIsOld'
  <2> SUFFICES ASSUME NEW q \in Receivers, q # r,
                      recv[q].pc \in {"looking", "resolving", "writing", "rechecking"}
               PROVE  /\ recv[q].seen # None /\ recv[q].env # None
                      /\ recv[q].seen.generation <= session'.generation
                      /\ recv[q].seen.generation # session'.generation
    <3>1. recv'[r].pc = "releasing"
      BY <1>4, <1>5
    <3>2. session' # None
      BY <1>2
    <3> QED BY <1>5, <3>1, <3>2 DEF SeenIsOld
  <2>1. /\ recv[q].seen \in Sessions /\ recv[q].env # None
        /\ recv[q].seen.generation <= session.generation
    BY DEF Inv, TypeOK, SeenIsOld
  <2> QED BY <1>1, <1>2, <2>1, NoneIsNoValue DEF Sessions
<1>11. WritesFollow'
  BY <1>4, <1>5 DEF Inv, WritesFollow, Decrypts
<1>12. ConsumedIsBehind'
  BY <1>1, <1>2, <1>3 DEF Inv, TypeOK, ConsumedIsBehind, Behind
<1>13. RecordsAreBound'
  BY <1>3, <1>8 DEF Inv, RecordsAreBound
<1>14. OkIsConsumed' /\ PlaintextIsBound'
  BY <1>1, <1>3, <1>4, <1>5 DEF Inv, OkIsConsumed, PlaintextIsBound
<1>15. NothingIsLost'
  <2> SUFFICES ASSUME NEW d \in consumed', d \notin ingested
               PROVE  CachedFor(d)'
    BY <1>3 DEF NothingIsLost
  <2>1. CASE d = e
    <3>1. [digest |-> e, plaintext |-> e] \in Records
      BY <1>1 DEF Records
    <3> QED BY <1>8, <2>1, <3>1, NoneIsNoValue DEF CachedFor
  <2>2. CASE d # e
    <3>1. d \in consumed /\ d \in Intact /\ CachedFor(d)
      BY <1>3, <2>2 DEF Inv, ConsumedIsBehind, NothingIsLost
    <3>2. Id[d] \in Ids /\ Id[d] # Id[e]
      BY <1>1, <2>2, <3>1, NotificationAssumption DEF Ids, Intact
    <3> QED BY <1>8, <3>1, <3>2 DEF CachedFor
  <2> QED BY <2>1, <2>2
<1>16. QueueOrder'
  <2>1. WalkIsFirst(c)
    BY <1>4, CallsOfInv DEF CallInv, WalkIsFirst, Write, WriteUnconfirmed, Succeed, Fail, Inv,
                            TypeOK
  <2>2. \A q \in Receivers : WalkIsFirst(recv'[q])
    BY <1>5, <2>1 DEF Inv, QueueOrder
  <2>3. queued' = queued /\ last' = last
    BY DEF Write, WriteUnconfirmed, queueVars
  <2> QED BY <2>2, <2>3 DEF Inv, QueueOrder, WalkIsFirst
<1> QED BY <1>9, <1>10, <1>11, <1>12, <1>13, <1>14, <1>15, <1>16 DEF Inv

(* The app removes the record of a message it has, and of no other.        *)
LEMMA IngestStep ==
  ASSUME Inv, NEW r \in Receivers, Ingest(r)
  PROVE  Inv'
<1> DEFINE e == recv[r].env
<1>1. e \in consumed /\ e \in Intact /\ e \in Envelopes
  BY DEF Ingest, Inv, OkIsConsumed, ConsumedIsBehind, Intact
<1>2. /\ UNCHANGED <<queued, last, session, lock, recv, consumed>>
      /\ ingested' = ingested \cup {e}
      /\ records' = [records EXCEPT ![Id[e]] = None]
  BY DEF Ingest, queueVars
<1>3. Id[e] \in Ids
  BY <1>1 DEF Ids
<1>4. /\ records'[Id[e]] = None
      /\ \A i \in Ids : i # Id[e] => records'[i] = records[i]
  BY <1>2, <1>3 DEF Inv, TypeOK
<1>5. TypeOK'
  BY <1>1, <1>2, <1>3 DEF Inv, TypeOK
<1>6. SeenIsOld' /\ WritesFollow' /\ ConsumedIsBehind' /\ OkIsConsumed' /\ PlaintextIsBound'
  BY <1>2 DEF Inv, SeenIsOld, WritesFollow, ConsumedIsBehind, OkIsConsumed,
              PlaintextIsBound, Decrypts, Behind
<1>7. RecordsAreBound'
  BY <1>2, <1>4 DEF Inv, RecordsAreBound
<1>8. NothingIsLost'
  <2> SUFFICES ASSUME NEW d \in consumed, d \notin ingested, d # e
               PROVE  CachedFor(d)'
    BY <1>2 DEF NothingIsLost
  <2>1. d \in Intact /\ CachedFor(d)
    BY DEF Inv, ConsumedIsBehind, NothingIsLost
  <2>2. Id[d] \in Ids /\ Id[d] # Id[e]
    BY <1>1, <2>1, NotificationAssumption DEF Ids, Intact
  <2> QED BY <1>4, <2>1, <2>2 DEF CachedFor
<1>9. QueueOrder'
  BY <1>2 DEF Inv, QueueOrder, WalkIsFirst
<1> QED BY <1>5, <1>6, <1>7, <1>8, <1>9 DEF Inv

(* The queue changes under the walks: what comes in is younger than all    *)
(* that a walk has seen.                                                   *)
LEMMA QueueStep ==
  ASSUME Inv, NEW m \in Envelopes \cup Others, Publish(m) \/ Dequeue(m)
  PROVE  Inv'
<1>1. UNCHANGED <<session, records, consumed, ingested, lock, recv>>
  BY DEF Publish, Dequeue, storeVars
<1>2. Seq[m] \in Nat /\ last \in Nat /\ \A n \in queued : Seq[n] \in Nat
  BY NotificationAssumption DEF Inv, TypeOK
<1>3. /\ last <= last' /\ last' \in Nat /\ queued' \subseteq Envelopes \cup Others
      /\ \A n \in queued' : n \in queued \/ (last < Seq[n] /\ Seq[n] <= last')
  BY <1>2 DEF Publish, Dequeue, Inv, TypeOK
<1>4. QueueOrder'
  <2>1. \A n \in queued' : Seq[n] # 0 /\ Seq[n] <= last'
    BY <1>2, <1>3, NotificationAssumption DEF Inv, QueueOrder
  <2>2. ASSUME NEW r \in Receivers PROVE WalkIsFirst(recv[r])'
    <3>1. WalkIsFirst(recv[r]) /\ recv[r].next \in Nat
      BY DEF Inv, QueueOrder, TypeOK
    <3>2. recv'[r] = recv[r]
      BY <1>1
    <3>3. recv[r].next <= last' + 1
      BY <1>2, <1>3, <3>1 DEF WalkIsFirst
    <3>4. ASSUME NEW n \in queued' \cap Envelopes PROVE recv[r].next <= Seq[n]
      <4>1. Seq[n] \in Nat
        BY NotificationAssumption
      <4> QED BY <1>2, <1>3, <3>1, <4>1 DEF WalkIsFirst
    <3>5. ASSUME recv[r].process = "notification", recv[r].env # None
          PROVE  /\ Seq[recv[r].env] <= last'
                 /\ \A n \in queued' \cap Envelopes : Seq[recv[r].env] <= Seq[n]
      <4>1. recv[r].env \in Envelopes /\ Seq[recv[r].env] \in Nat
        BY <3>5, NotificationAssumption DEF Inv, TypeOK
      <4>2. Seq[recv[r].env] <= last
        BY <3>1, <3>5 DEF WalkIsFirst
      <4>3. ASSUME NEW n \in queued' \cap Envelopes PROVE Seq[recv[r].env] <= Seq[n]
        <5>1. Seq[n] \in Nat
          BY NotificationAssumption
        <5> QED BY <1>2, <1>3, <3>1, <3>5, <4>1, <4>2, <5>1 DEF WalkIsFirst
      <4> QED BY <1>2, <1>3, <4>1, <4>2, <4>3
    <3> QED BY <3>2, <3>3, <3>4, <3>5 DEF WalkIsFirst
  <2> QED BY <1>1, <2>1, <2>2 DEF QueueOrder
<1>5. TypeOK'
  BY <1>1, <1>3 DEF Inv, TypeOK
<1>6. SeenIsOld' /\ WritesFollow' /\ ConsumedIsBehind' /\ RecordsAreBound'
  BY <1>1 DEF Inv, SeenIsOld, WritesFollow, ConsumedIsBehind, RecordsAreBound, Decrypts, Behind
<1>7. OkIsConsumed' /\ PlaintextIsBound' /\ NothingIsLost'
  BY <1>1 DEF Inv, OkIsConsumed, PlaintextIsBound, NothingIsLost, CachedFor
<1> QED BY <1>4, <1>5, <1>6, <1>7 DEF Inv

LEMMA ExpireStep == ASSUME Inv, Expire \/ UNCHANGED vars PROVE Inv'
BY DEF Expire, vars, queueVars, storeVars, Inv, TypeOK, QueueOrder, WalkIsFirst, SeenIsOld, WritesFollow,
       ConsumedIsBehind, RecordsAreBound, OkIsConsumed, PlaintextIsBound, NothingIsLost,
       CachedFor, Decrypts, Behind
----------------------------------------------------------------------------
LEMMA Inductive == ASSUME Inv, [Next]_vars PROVE Inv'
<1>1. ASSUME NEW r \in Receivers, ReceiveLocked(r) PROVE Inv'
  BY <1>1, LocalSteps, PersistStep DEF ReceiveLocked
<1>2. ASSUME NEW r \in Receivers,
             (\E e \in Envelopes : Receive(r, e)) \/ Fetch(r) \/ Dies(r)
      PROVE  Inv'
  BY <1>2, LocalSteps DEF Fetch
<1> QED BY <1>1, <1>2, IngestStep, QueueStep, ExpireStep DEF Next

LEMMA Invariance == Spec => []Inv
<1>1. Init => Inv
  BY Initially
<1>2. Inv /\ [Next]_vars => Inv'
  BY Inductive
<1> QED BY <1>1, <1>2, PTL DEF Spec

(* The type invariant, for any receivers, envelopes and ids.               *)
THEOREM SessionTyping == Spec => []TypeOK
BY Invariance, PTL DEF Inv

(* A receiver is only ever given the plaintext of its own envelope.        *)
THEOREM RecordsAreBoundToEnvelopes == Spec => []PlaintextIsBound
BY Invariance, PTL DEF Inv

(* The fetch gives no envelope of the contact while an older one is queued, *)
(* for any queue, any walk and any limit of it.                            *)
THEOREM FetchesInOrder == Spec => []OldestIsFetched
<1>1. Inv => OldestIsFetched
  BY DEF Inv, QueueOrder, WalkIsFirst, OldestIsFetched
<1> QED BY <1>1, Invariance, PTL

(* What the ratchet has moved past can be read until the app has it.       *)
THEOREM EveryMessageIsReadable == Spec => []NothingIsLost
BY Invariance, PTL DEF Inv

(* The stored session only ever takes steps of its own, each envelope once, *)
(* even when the lock lets two receivers in.                               *)
THEOREM RatchetMovesOnce == Spec => NeverAdvancedTwice
<1>1. ASSUME Inv, [Next]_vars
      PROVE  [session' # session =>
                \E e \in Envelopes \ consumed :
                   Decrypts(session, e) /\ session' = After(session, e)]_vars
  <2> SUFFICES ASSUME session' # session
               PROVE  \E e \in Envelopes \ consumed :
                        Decrypts(session, e) /\ session' = After(session, e)
    OBVIOUS
  <2>1. PICK r \in Receivers : Write(r) \/ WriteUnconfirmed(r)
    BY <1>1 DEF Next, vars, storeVars, Receive, Fetch, StartFetch, Fetched, PassedOver,
                FetchFailed, Publish, Dequeue, ReceiveLocked, Dies, Ingest, Expire,
                Acquire, LockTimeout, Read, LookUp, Decode, NoSenderKey, StaleWrite, Recheck,
                StoreThrows, Release
  <2>2. /\ recv[r].seen = session /\ recv[r].env \in Envelopes \ consumed
        /\ Decrypts(session, recv[r].env)
    BY <1>1, <2>1, PersistAdvances DEF Write, WriteUnconfirmed
  <2> QED BY <2>1, <2>2 DEF Write, WriteUnconfirmed, Persist
<1> QED BY <1>1, Invariance, PTL DEF Spec, NeverAdvancedTwice
=============================================================================
