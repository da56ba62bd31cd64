------------------------------ MODULE Mailbox ------------------------------
(***************************************************************************)
(* What the relay promises about a message, without connections, channels  *)
(* or a queue: it answers "ack" only for a message it has taken, and a     *)
(* message it has taken stays with it until it has been delivered or       *)
(* dropped, which only expiry and the end of a connection do.  A message   *)
(* may be delivered more than once.                                        *)
(***************************************************************************)
CONSTANTS
  Msgs,
  Refusals     \* the answers other than "ack"

VARIABLES
  verdict,     \* the answer each message got
  held,        \* the messages the relay has: queued, or on their way
  delivered,   \* the messages a recipient was sent
  dropped      \* the messages a copy of which was given up

vars == <<verdict, held, delivered, dropped>>

Accounted(m) == m \in held \cup delivered \cup dropped

Init ==
  /\ verdict = [m \in Msgs |-> "unsent"]
  /\ held = {} /\ delivered = {} /\ dropped = {}

Submit(m) ==
  /\ verdict[m] = "unsent"
  /\ verdict' = [verdict EXCEPT ![m] = "pending"]
  /\ UNCHANGED <<held, delivered, dropped>>

Refuse(m, v) ==
  /\ verdict[m] \in {"unsent", "pending"}
  /\ verdict' = [verdict EXCEPT ![m] = v]
  /\ UNCHANGED <<held, delivered, dropped>>

(* The relay takes a message it works on, or a further copy of one it has  *)
(* taken before.                                                           *)
Take(m) ==
  /\ verdict[m] = "pending" \/ Accounted(m)
  /\ held' = held \cup {m}
  /\ UNCHANGED <<verdict, delivered, dropped>>

Ack(m) ==
  /\ verdict[m] = "pending" /\ Accounted(m)
  /\ verdict' = [verdict EXCEPT ![m] = "ack"]
  /\ UNCHANGED <<held, delivered, dropped>>

TakeAndAck(m) ==
  /\ verdict[m] = "pending"
  /\ held' = held \cup {m}
  /\ verdict' = [verdict EXCEPT ![m] = "ack"]
  /\ UNCHANGED <<delivered, dropped>>

(* One copy of m is delivered; there may be another.                       *)
Deliver(m) ==
  /\ m \in held
  /\ delivered' = delivered \cup {m}
  /\ held' \in {held, held \ {m}}
  /\ UNCHANGED <<verdict, dropped>>

(* Copies of S are given up, the last ones of R among them.                *)
Drop(S, R) ==
  /\ S \subseteq held /\ R \subseteq S
  /\ dropped' = dropped \cup S
  /\ held' = held \ R
  /\ UNCHANGED <<verdict, delivered>>

(* The last copy goes once another was delivered or given up.              *)
Release(m) ==
  /\ m \in held /\ m \in delivered \cup dropped
  /\ held' = held \ {m}
  /\ UNCHANGED <<verdict, delivered, dropped>>

Next ==
  \/ \E m \in Msgs : Submit(m) \/ Take(m) \/ Ack(m) \/ TakeAndAck(m) \/ Deliver(m) \/ Release(m)
  \/ \E m \in Msgs, v \in Refusals : Refuse(m, v)
  \/ \E S \in SUBSET held : \E R \in SUBSET S : Drop(S, R)

Spec == Init /\ [][Next]_vars
============================================================================
