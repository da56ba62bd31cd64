-------------------------- MODULE RelayProperties --------------------------
(***************************************************************************)
(* What the relay promises: the properties that the runs check and that    *)
(* RelayProofs proves.                                                     *)
(***************************************************************************)
EXTENDS Relay

Connected(u, c) == registry[u] = c /\ ChannelOpen(c)

(* Issue #63 (relay.rs, redeliver_if_now_connected): while a user is       *)
(* connected and the catch-up fetch of that connection saw the whole       *)
(* queue, no acknowledged message sits in the queue with nobody about to   *)
(* forward it: it is in the fetched batch, has been pushed to the          *)
(* connection, or its redelivery task still has the connection to find.    *)
NoStrandedMessage ==
  \A c \in Conns, m \in Msgs :
    /\ Connected(To[m], c) /\ c \in caughtUp
    /\ m \in stored /\ verdict[m] = "ack"
    => \/ m \in batch[c]
       \/ c \in handed[m]
       \/ redo[m] = "spawned"
       \/ redo[m] = "sending" /\ redoPeer[m] = c

(* A message whose sender got an ack is accounted for: queued, in a live   *)
(* outbound channel, written to the recipient's socket, expired by         *)
(* max_age, or dropped with the channel of a connection that ended.  No    *)
(* path of handle_send, deliver_queued_messages or                         *)
(* redeliver_if_now_connected releases a message before pushing it.        *)
AckedIsAccountedFor ==
  \A m \in Msgs :
    verdict[m] = "ack" =>
      m \in stored \cup written \cup lost \cup expired \/ InChannel(m)

(* registry.rs, remove_if_current: a connection whose handler is past      *)
(* registration and has not begun to leave is in the registry, unless a    *)
(* newer connection of its user has told it, or is about to tell it, to    *)
(* close.  The cleanup of an old connection never unregisters a newer one. *)
NoConnectionForgotten ==
  \A c \in Conns :
    phase[c] \notin {"idle"} \cup Ending =>
      \/ registry[Owner[c]] = c
      \/ ~ChannelOpen(c)
      \/ Close \in Frames(chan[c])
      \/ \E d \in Conns : prev[d] = c

(* ws.rs and quic.rs close what registry.insert returned: a connection     *)
(* that has a close frame in its channel, or that a newer one is about to  *)
(* close, is not the one the registry names.  However many connections of  *)
(* a user displace each other, one of them before it forwards anything,    *)
(* the last is never shut as the replaced one.                             *)
OnlyReplacedIsClosed ==
  \A c \in Conns :
    Close \in Frames(chan[c]) \/ (\E d \in Conns : prev[d] = c)
      => registry[Owner[c]] # c

(* The relay implements a mailbox: it holds what is in the queue or in a   *)
(* channel, and has given up what expired or went with a channel.          *)
Promise == INSTANCE Mailbox WITH
  Refusals  <- Verdicts \ {"ack"},
  held      <- {m \in Msgs : m \in stored \/ InChannel(m)},
  delivered <- written,
  dropped   <- lost \cup expired

ImplementsMailbox == Promise!Spec

(* tests/ws.rs:776: a message pushed to a connected recipient by the live  *)
(* path "must never also land in the offline queue".                       *)
LiveNeverQueued ==
  [][\A m \in Msgs : handed[m] # {} /\ seqOf[m] = 0 => seqOf'[m] = 0]_vars

(* ws.rs and quic.rs clean up: a connection whose socket is closed does    *)
(* not stay in the registry to swallow its user's messages.                *)
ClosedLeavesRegistry ==
  \A c \in Conns : socket[c] = "closed" ~> registry[Owner[c]] # c

(* The connection that a newer one replaces is shut, provided that its     *)
(* client goes on reading: its forward task stops after the close frame,   *)
(* or the connection ends by itself.  No write of the forward task has a   *)
(* timeout (ws.rs:114), so nothing is promised for a client that stalls.   *)
ReplacedIsClosed ==
  \A c \in Reading :
    (\E d \in Conns : prev[d] = c) ~> ~ChannelOpen(c)

(* Issue #63: a queued, acknowledged message reaches the connection that   *)
(* caught up with the queue, without waiting for the next reconnect, unless *)
(* that connection ends or its catch-up is cut short.                      *)
QueuedReachesConnected ==
  \A c \in Conns, m \in Msgs :
    LET served == Connected(To[m], c) /\ c \in caughtUp
    IN  (served /\ m \in stored /\ verdict[m] = "ack")
          ~> (c \in handed[m] \/ m \in expired \/ ~served)
----------------------------------------------------------------------------
(* The strengthening of NoStrandedMessage that is inductive (RelayProofs). *)

RegisteredIsRunning ==
  \A u \in Users, c \in Conns :
    registry[u] = c => Owner[c] = u /\ phase[c] \notin {"idle", "done"}

FetchedOnce ==
  \A c \in caughtUp : phase[c] \notin Starting \cup {"subscribing", "fetching"}

(* One handler works on a message, before it has an answer, and publishes  *)
(* it at most once.                                                        *)
OneHandler ==
  /\ \A c \in Conns, m \in Msgs : cur[c] = m => verdict[m] = "pending"
  /\ \A c, d \in Conns : cur[c] = cur[d] /\ cur[c] # None => c = d
  /\ \A m \in Msgs : verdict[m] = "unsent" => seqOf[m] = 0
  /\ \A c \in Conns :
       phase[c] \in Handling \ {"confirmed", "unconfirmed"} => seqOf[cur[c]] = 0

(* Stream sequences are unique, and what is fetched was published.         *)
StreamOrder ==
  /\ \A m \in Msgs : seqOf[m] <= lastSeq
  /\ \A m, n \in Msgs : seqOf[m] = seqOf[n] /\ seqOf[m] # 0 => m = n
  /\ \A m \in stored : seqOf[m] # 0
  /\ \A c \in Conns : \A m \in batch[c] : seqOf[m] # 0

(* A catch-up acknowledges the message it has just forwarded.              *)
ForwardedBeforeAck ==
  \A c \in Conns, m \in Msgs :
    phase[c] = "acking" /\ IsFirst(m, batch[c]) => c \in handed[m]

(* Somebody is responsible for every message in the queue of a connected   *)
(* and caught-up user.                                                     *)
BeingServed(c, m) == Connected(To[m], c) /\ c \in caughtUp /\ m \in stored

CoveredBy(c, m) ==
  \/ m \in batch[c]
  \/ c \in handed[m]
  \/ redo[m] = "spawned"
  \/ redo[m] = "sending" /\ redoPeer[m] = c
  \/ \E d \in Conns : cur[d] = m /\ phase[d] \in {"confirmed", "unconfirmed"}
  \/ verdict[m] = "queue_unavailable"

Covered == \A c \in Conns, m \in Msgs : BeingServed(c, m) => CoveredBy(c, m)

DeliveryInv ==
  /\ RegisteredIsRunning
  /\ FetchedOnce
  /\ OneHandler
  /\ StreamOrder
  /\ ForwardedBeforeAck
  /\ Covered
----------------------------------------------------------------------------
(* What a document says and the code does not do.                          *)

(* ADR 0008:54-60: "Ack happens after the send to the live socket          *)
(* succeeds, so a crash between fetching a queued message and finishing    *)
(* the send leaves that message redeliverable".  So a message that        *)
(* nobody but a catch-up forwarded is never gone before it was written.    *)
QueuedSurvivesUntilWritten ==
  \A m \in Msgs :
    redo[m] = "done" /\ redoPeer[m] = None =>
      m \in stored \cup written \cup expired \/ InChannel(m)
============================================================================
