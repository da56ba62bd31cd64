------------------------ MODULE TransportProperties ------------------------
(***************************************************************************)
(* What the transport store promises the screens.                          *)
(***************************************************************************)
EXTENDS Transport

(* Two things upset an attempt.  It dials a second WebSocket when QUIC      *)
(* fails after its timeout, and then confuses the two; and the onClosed of *)
(* its QUIC connection may be heeded before connectQuic resolves: the       *)
(* store takes it for the end of whatever it is using, and the dead        *)
(* connection for a success afterwards.                                    *)
Orderly == \A a \in Attempts : at[a].dialled < 2 /\ ~at[a].early

(* What send() would use and what is heard is one connection, and its end, *)
(* if it has ended, is still to be notified.                               *)
Usable ==
  \E a \in Attempts :
    \/ SendsOnQuic(a) /\ HearsQuic(a) /\ at[a].quic \in {"up", "lost", "refused"}
    \/ \E i \in Sockets : SendsOnWs(a, i) /\ HearsWs(a) /\ at[a].ws[i] = "open"

(* The screens are told "connected" only while there is a connection that  *)
(* both sends and hears (store.ts, TransportActions).                      *)
ConnectedIsUsable == status = "connected" => Usable

(* No event is due, so that nothing but a fault or the app goes on.        *)
Idle ==
  /\ timers = 0
  /\ \A a \in Attempts :
       /\ at[a].pc # "token" /\ at[a].promise # "pending"
       /\ at[a].quic \notin {"lost", "refused"}
       /\ \A i \in Sockets : at[a].ws[i] \notin {"dialing", "closing"}

(* Who is connected by WebSocket for good is heard: startWs is "called only *)
(* once QUIC has failed outright or exceeded" its timeout (store.ts:250).   *)
SocketForGoodIsUsable == Idle /\ active = "ws" => Usable

(* "Connected" is true at all times, while every attempt was orderly.      *)
UsableIfOrderly == Orderly => ConnectedIsUsable

(* A connection that is up is the one the store holds, or of an attempt    *)
(* that is not over: none is left behind for the server to talk to.        *)
NothingIsLeftOpen ==
  Orderly => \A a \in Attempts :
    /\ at[a].quic = "up" => at[a].promise = "pending" \/ quicConnection = a
    /\ \A i \in Sockets : at[a].ws[i] = "open" => socket = <<a, i>>

(* After a 4001 nothing is tried again until the next connect().           *)
RefusedIsTerminal ==
  Orderly /\ refused = generation => status = "disconnected" /\ timers = 0

(* A late success of QUIC is discarded and never displaces a WebSocket that *)
(* is connected (store.ts, where connectQuic resolves), while every attempt *)
(* was orderly.  Otherwise one attempt may start two reconnects, and the    *)
(* later timer supersedes the attempt that the earlier one has connected.  *)
DiscardedIfOrderly ==
  [][Orderly /\ active = "ws" /\ active' = "quic" =>
       \A a \in Attempts, i \in Sockets : at[a].ws[i] # "open"]_vars

(* A reconnect ends: connected, or disconnected for good, unless getToken  *)
(* threw, which leaves the status as it is.                                *)
ReconnectEnds ==
  status \in {"connecting", "reconnecting"} ~>
    \/ status \in {"connected", "disconnected"}
    \/ \E a \in Attempts : at[a].pc = "threw"
=============================================================================
