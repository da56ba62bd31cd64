------------------------ MODULE MCNotificationDecrypt ------------------------
(* The first messages of two chains, a broken copy under the id of one of   *)
(* them, and a handshake.                                                   *)
EXTENDS NotificationDecryptProperties, TLC

CONSTANTS r1, r2, r3, e1, e2, copy, hello, other

MCId      == (e1 :> 1) @@ (e2 :> 2) @@ (copy :> 1) @@ (hello :> 3)
MCVersion == [e \in Envelopes |-> IF e = hello THEN "handshake" ELSE "ratchet"]
MCChain   == [e \in Envelopes |-> IF e = e2 THEN 2 ELSE 1]
MCNumber  == [e \in Envelopes |-> 0]
(* Sequence 0 is never queued: such a message was sent live.               *)
MCSeq     == (other :> 1) @@ (e1 :> 2) @@ (e2 :> 3) @@ (copy :> 0) @@ (hello :> 0)

Alike == Permutations(Receivers)
=============================================================================
