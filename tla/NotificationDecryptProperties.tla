--------------------- MODULE NotificationDecryptProperties ---------------------
(* What the two receivers of a shared session promise.                      *)
EXTENDS NotificationDecrypt

(* ADR 0022, 3: "neither process can advance the same ratchet step twice or *)
(* leave divergent chain keys".  Whatever the lock does, a write of the    *)
(* session is a step of the session that is stored, by an envelope that it *)
(* has not moved past, although it was derived from one read earlier.      *)
NeverAdvancedTwice ==
  [][session' # session =>
       \E e \in Envelopes \ consumed : Decrypts(session, e) /\ session' = After(session, e)]_vars

(* StoredDecrypted: a record is served "only if bound to this exact        *)
(* envelope", so a message id that comes with another envelope never       *)
(* selects its plaintext.                                                  *)
PlaintextIsBound ==
  \A r \in Receivers : recv[r].answer = "ok" => recv[r].plaintext = recv[r].env

(* messages.rs: the fetch is a "read-only peek at the oldest message        *)
(* queued" from the sender.  The queue changes between the calls of its    *)
(* walk and afterwards, but no older envelope of the contact is in it: the *)
(* preview never runs ahead of the ratchet because of the fetch.           *)
OldestIsFetched ==
  \A r \in Receivers :
    recv[r].process = "notification" /\ recv[r].env # None =>
      \A m \in queued \cap Envelopes : Seq[recv[r].env] <= Seq[m]

(* Its key is used once, so an envelope that the ratchet has moved past    *)
(* can be read from its record until the app has it, whoever decrypted it  *)
(* and however that call ended (the atomic write of SessionStore).         *)
NothingIsLost ==
  \A e \in consumed : e \in ingested \/ CachedFor(e)
=============================================================================
