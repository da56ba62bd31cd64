------------------------- MODULE NotificationDecrypt -------------------------
(***************************************************************************)
(* The ratchet session of one contact, shared by the app and by the        *)
(* notification process of the phone (crypto/notificationDecrypt.ts): both  *)
(* decrypt an envelope under a lock that may expire under its holder, and   *)
(* write the advanced session by compare-and-set, together with the        *)
(* plaintext under the id of the message.                                  *)
(*                                                                         *)
(* The notification process fetches its envelope from the offline queue    *)
(* (messages.rs), which the relay fills and empties meanwhile; the app     *)
(* gets its envelopes over its connection.                                 *)
(*                                                                         *)
(* A receiver is one call of notificationDecrypt or receiveEnvelopeShared; *)
(* one action runs from one await to the next.  The lock and the store are *)
(* interfaces there; they are modelled by what their comments demand, and  *)
(* by every way in which a call of them may fail.                          *)
(***************************************************************************)
EXTENDS Naturals

CONSTANTS
  Receivers,
  Envelopes,
  Id,         \* Id[e]: the message id that the relay gives with e
  Version,    \* Version[e]: what the first byte of e says it is
  Damaged,    \* the envelopes whose signature or ciphertext is broken
  Chain,      \* Chain[e]: which sending chain of the contact e belongs to
  Number,     \* Number[e]: its message number in that chain
  Others,     \* what the user is sent by other contacts
  Seq,        \* Seq[m]: the stream sequence of m, if it is queued
  MaxWalk,    \* the queued messages that one fetch looks at
  None

Intact == {e \in Envelopes \ Damaged : Version[e] = "ratchet"}
Ids    == {Id[e] : e \in Envelopes}

(* No two messages have the same key, and none of them the same id; only   *)
(* what cannot be decrypted may come under the id of another.              *)
ASSUME NotificationAssumption ==
  /\ Version \in [Envelopes -> {"ratchet", "handshake", "unknown"}]
  /\ Damaged \subseteq Envelopes
  /\ Chain \in [Envelopes -> Nat] /\ Number \in [Envelopes -> Nat]
  /\ \A d, e \in Intact : Id[d] = Id[e] => d = e
  /\ Seq \in [Envelopes \cup Others -> Nat] /\ Envelopes \cap Others = {}
  /\ \A m, n \in Envelopes \cup Others : Seq[m] = Seq[n] /\ Seq[m] # 0 => m = n
  /\ MaxWalk \in Nat
  /\ None \notin Receivers \cup Envelopes \cup [chain : Nat, number : Nat, generation : Nat]
                 \cup [digest : Envelopes, plaintext : Envelopes] \cup {"ok"}

VARIABLES
  queued,     \* the messages in the user's offline queue
  last,       \* the sequence of the last message that was queued
  session,    \* the stored ratchet state with its generation
  records,    \* the decrypted-message record of each message id
  lock,       \* the holder of the contact's lock
  recv,       \* the receivers
  consumed,   \* history: the envelopes the stored ratchet has moved past
  ingested    \* the envelopes whose plaintext the app has in its database

queueVars == <<queued, last>>
storeVars == <<session, records, consumed, ingested>>
vars == <<queueVars, storeVars, lock, recv>>

Sessions == [chain : Nat, number : Nat, generation : Nat]
Records  == [digest : Envelopes, plaintext : Envelopes]
Failures == {"no_session", "fetch_failed", "lock_timeout", "corrupt_envelope",
             "unsupported_envelope", "decrypt_failure", "state_conflict",
             "storage_error"}
Locked   == {"reading", "looking", "resolving", "writing", "rechecking", "releasing"}
Phases   == {"idle", "fetching", "acquiring", "done", "dead"} \cup Locked

TypeOK ==
  /\ queued \subseteq Envelopes \cup Others /\ last \in Nat
  /\ session \in Sessions \cup {None}
  /\ records \in [Ids -> Records \cup {None}]
  /\ lock \in Receivers \cup {None}
  /\ recv \in [Receivers -> [pc : Phases, process : {"app", "notification"},
                             next : Nat, walked : Nat,
                             env : Envelopes \cup {None},
                             seen : Sessions \cup {None},
                             answer : Failures \cup {"ok", None},
                             plaintext : Envelopes \cup {None}]]
  /\ \A r \in Receivers : recv[r].answer = "ok" => recv[r].plaintext # None
  /\ consumed \subseteq Envelopes /\ ingested \subseteq Envelopes

Idle(process) ==
  [pc |-> "idle", process |-> process, next |-> 0, walked |-> 0, env |-> None,
   seen |-> None, answer |-> None, plaintext |-> None]

Init ==
  /\ queued = {} /\ last = 0
  /\ session \in {None, [chain |-> 1, number |-> 0, generation |-> 1]}
  /\ records = [i \in Ids |-> None]
  /\ lock = None
  /\ recv \in [Receivers -> {Idle("app"), Idle("notification")}]
  /\ consumed = {} /\ ingested = {}
----------------------------------------------------------------------------
(* The ratchet.  It has no store of skipped keys: an envelope is decrypted *)
(* when it is the next of the current chain or the first of the next one.  *)

Decrypts(s, e) ==
  /\ e \in Intact
  /\ \/ Chain[e] = s.chain /\ Number[e] = s.number
     \/ Chain[e] = s.chain + 1 /\ Number[e] = 0

After(s, e) ==
  [chain |-> Chain[e], number |-> Number[e] + 1, generation |-> s.generation + 1]
----------------------------------------------------------------------------
(* Helpers.                                                                *)

Goto(r, pc) == recv' = [recv EXCEPT ![r].pc = pc]

(* The call returns without a plaintext: nothing of it stays but that.     *)
Over(r, reason) ==
  recv' = [recv EXCEPT ![r] = [Idle(recv[r].process) EXCEPT !.pc = "done", !.answer = reason]]

(* The result is fixed; the finally block is still to come.                *)
Fail(r, reason) ==
  recv' = [recv EXCEPT ![r].answer = reason, ![r].pc = "releasing", ![r].seen = None]

SucceedSilently(r, plaintext) == \* mutant: the plaintext is left out of the result
  recv' = [recv EXCEPT ![r].answer = "ok", ![r].pc = "releasing", ![r].seen = None]
Succeed(r, plaintext) ==
  recv' = [recv EXCEPT ![r].answer = "ok", ![r].pc = "releasing", ![r].seen = None,
                       ![r].plaintext = plaintext]

(* cachedFor: the record of the message id, if it is of this envelope.     *)
CachedById(e) == records[Id[e]] # None \* mutant: the message id is enough
CachedFor(e) == records[Id[e]] # None /\ records[Id[e]].digest = e

(* The compare-and-set of SessionStore.write: it compares generations, and *)
(* persists the session and the record in one atomic operation.            *)
AnyGeneration(s) == TRUE \* mutant: the lock is relied on
UpToDate(s) == session # None /\ session.generation = s.generation

PersistSessionFirst(r) == \* mutant: the record is left to a later write
  /\ session' = After(recv[r].seen, recv[r].env)
  /\ consumed' = consumed \cup {recv[r].env}
  /\ UNCHANGED records
Persist(r) ==
  /\ session' = After(recv[r].seen, recv[r].env)
  /\ consumed' = consumed \cup {recv[r].env}
  /\ records' = [records EXCEPT ![Id[recv[r].env]] =
                   [digest |-> recv[r].env, plaintext |-> recv[r].env]]
----------------------------------------------------------------------------
(* One call                                                                *)

(* get_queued walks the user's queue by sequence, one message per call of  *)
(* NATS, to the first that the contact sent.                               *)
StartFetch(r) ==
  /\ recv[r].pc = "idle" /\ recv[r].process = "notification"
  /\ Goto(r, "fetching")
  /\ UNCHANGED <<queueVars, storeVars, lock>>

AnyFrom(r, m) == recv[r].next <= Seq[m] \* mutant: the messages are not asked for in order
FirstFrom(r, m) ==
  /\ recv[r].next <= Seq[m]
  /\ \A n \in queued : recv[r].next <= Seq[n] => Seq[m] <= Seq[n]

Fetched(r) ==
  /\ recv[r].pc = "fetching"
  /\ \E m \in queued \cap Envelopes :
       /\ FirstFrom(r, m)
       /\ recv' = [recv EXCEPT ![r].pc = "acquiring", ![r].env = m, ![r].next = 0,
                               ![r].walked = 0]
  /\ UNCHANGED <<queueVars, storeVars, lock>>

PassedOver(r) ==
  /\ recv[r].pc = "fetching" /\ recv[r].walked < MaxWalk
  /\ \E m \in queued \cap Others :
       /\ FirstFrom(r, m)
       /\ recv' = [recv EXCEPT ![r].next = Seq[m] + 1, ![r].walked = @ + 1]
  /\ UNCHANGED <<queueVars, storeVars, lock>>

(* Nothing was found, too much was walked over, or the request failed.     *)
FetchFailed(r) ==
  /\ recv[r].pc = "fetching"
  /\ Over(r, "fetch_failed")
  /\ UNCHANGED <<queueVars, storeVars, lock>>

(* The relay has sent the envelope to the app, not always for the first    *)
(* time.                                                                   *)
Receive(r, e) ==
  /\ recv[r].pc = "idle" /\ recv[r].process = "app"
  /\ recv' = [recv EXCEPT ![r].pc = "acquiring", ![r].env = e]
  /\ UNCHANGED <<queueVars, storeVars, lock>>

Acquire(r) ==
  /\ recv[r].pc = "acquiring" /\ lock = None
  /\ lock' = r
  /\ Goto(r, "reading")
  /\ UNCHANGED <<queueVars, storeVars>>

(* acquire resolves null after lockTimeoutMs, or throws.                   *)
LockTimeout(r) ==
  /\ recv[r].pc = "acquiring"
  /\ Over(r, "lock_timeout")
  /\ UNCHANGED <<queueVars, storeVars, lock>>

Read(r) ==
  /\ recv[r].pc = "reading"
  /\ IF session = None THEN Fail(r, "no_session")
     ELSE recv' = [recv EXCEPT ![r].pc = "looking", ![r].seen = session]
  /\ UNCHANGED <<queueVars, storeVars, lock>>

LookUp(r) ==
  /\ recv[r].pc = "looking"
  /\ LET e == recv[r].env
     IN  IF CachedFor(e) THEN Succeed(r, records[Id[e]].plaintext)
         ELSE IF Version[e] = "handshake" THEN Fail(r, "unsupported_envelope")
         ELSE IF Version[e] = "unknown" THEN Fail(r, "corrupt_envelope")
         ELSE Goto(r, "resolving")
  /\ UNCHANGED <<queueVars, storeVars, lock>>

(* The sender's key is there; decodeRatchetEnvelope runs on the session    *)
(* that was read.  A damaged envelope may be malformed or merely not       *)
(* verify.                                                                 *)
Decode(r) ==
  /\ recv[r].pc = "resolving"
  /\ LET e == recv[r].env
     IN  IF Decrypts(recv[r].seen, e) THEN Goto(r, "writing")
         ELSE \/ Fail(r, "decrypt_failure")
              \/ e \in Damaged /\ Fail(r, "corrupt_envelope")
  /\ UNCHANGED <<queueVars, storeVars, lock>>

NoSenderKey(r) ==
  /\ recv[r].pc = "resolving"
  /\ Fail(r, "no_session")
  /\ UNCHANGED <<queueVars, storeVars, lock>>

Write(r) ==
  /\ recv[r].pc = "writing" /\ UpToDate(recv[r].seen)
  /\ Persist(r)
  /\ Succeed(r, recv[r].env)
  /\ UNCHANGED <<queueVars, lock, ingested>>

StaleWrite(r) ==
  /\ recv[r].pc = "writing" /\ ~UpToDate(recv[r].seen)
  /\ Goto(r, "rechecking")
  /\ UNCHANGED <<queueVars, storeVars, lock>>

(* The other process may have won the race for this very message.          *)
Recheck(r) ==
  /\ recv[r].pc = "rechecking"
  /\ LET e == recv[r].env
     IN  IF CachedFor(e) THEN Succeed(r, records[Id[e]].plaintext)
         ELSE Fail(r, "state_conflict")
  /\ UNCHANGED <<queueVars, storeVars, lock>>

(* A call of the store throws, or the write was done and its result lost.  *)
StoreThrows(r) ==
  /\ recv[r].pc \in {"reading", "looking", "resolving", "writing", "rechecking"}
  /\ Fail(r, "storage_error")
  /\ UNCHANGED <<queueVars, storeVars, lock>>

WriteUnconfirmed(r) ==
  /\ recv[r].pc = "writing" /\ UpToDate(recv[r].seen)
  /\ Persist(r)
  /\ Fail(r, "storage_error")
  /\ UNCHANGED <<queueVars, lock, ingested>>

(* The release may throw, or come after the lock has gone to another       *)
(* receiver, which it may then unlock.                                     *)
Release(r) ==
  /\ recv[r].pc = "releasing"
  /\ lock' \in {lock, None}
  /\ IF recv[r].answer = "ok" THEN Goto(r, "done") ELSE Over(r, recv[r].answer)
  /\ UNCHANGED <<queueVars, storeVars>>

(* The operating system ends the process, at any await.                    *)
Dies(r) ==
  /\ recv[r].pc \in {"fetching", "acquiring"} \cup Locked
  /\ recv' = [recv EXCEPT ![r] = [Idle(recv[r].process) EXCEPT !.pc = "dead"]]
  /\ UNCHANGED <<queueVars, storeVars, lock>>

(* The lock expires under its holder.                                      *)
Expire ==
  /\ lock # None
  /\ lock' = None
  /\ UNCHANGED <<queueVars, storeVars, recv>>

(* The relay queues what it cannot deliver, in the order of the stream; a  *)
(* catch-up, a redelivery or max_age takes it out again.                   *)
Publish(m) ==
  /\ last < Seq[m]
  /\ last' = Seq[m]
  /\ queued' = queued \cup {m}
  /\ UNCHANGED <<storeVars, lock, recv>>

Dequeue(m) ==
  /\ m \in queued
  /\ queued' = queued \ {m}
  /\ UNCHANGED <<last, storeVars, lock, recv>>

(* The app moves a message into its database, then removes the record.     *)
Ingest(r) ==
  /\ recv[r].pc = "done" /\ recv[r].process = "app" /\ recv[r].answer = "ok"
  /\ ingested' = ingested \cup {recv[r].env}
  /\ records' = [records EXCEPT ![Id[recv[r].env]] = None]
  /\ UNCHANGED <<queueVars, session, lock, recv, consumed>>
----------------------------------------------------------------------------
Fetch(r) == StartFetch(r) \/ Fetched(r) \/ PassedOver(r) \/ FetchFailed(r)

ReceiveLocked(r) ==
  \/ Acquire(r) \/ LockTimeout(r) \/ Read(r) \/ LookUp(r) \/ Decode(r) \/ NoSenderKey(r)
  \/ Write(r) \/ StaleWrite(r) \/ Recheck(r)
  \/ StoreThrows(r) \/ WriteUnconfirmed(r) \/ Release(r)

Next ==
  \/ \E r \in Receivers : \/ \E e \in Envelopes : Receive(r, e)
                          \/ Fetch(r) \/ ReceiveLocked(r) \/ Dies(r) \/ Ingest(r)
  \/ \E m \in Envelopes \cup Others : Publish(m) \/ Dequeue(m)
  \/ Expire

Spec == Init /\ [][Next]_vars
=============================================================================
