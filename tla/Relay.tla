------------------------------- MODULE Relay -------------------------------
(***************************************************************************)
(* The live relay of apps/api: the connection registry (registry.rs), the  *)
(* per-connection handler and its forward task (ws.rs, quic.rs), and the   *)
(* relay logic they share (relay.rs), above the JetStream offline queue    *)
(* that nats.rs configures.                                                *)
(*                                                                         *)
(* A handler is a tokio task.  Its program counter is phase[c]; one action *)
(* runs from one await to the next.  Handlers, forward tasks and the       *)
(* spawned redelivery tasks interleave freely, as they do on the           *)
(* multi-threaded runtime.                                                 *)
(***************************************************************************)
EXTENDS Naturals, Sequences, FiniteSets

CONSTANTS
  Users,        \* accounts
  Conns,        \* connection attempts, each used at most once
  Msgs,         \* "send" frames, each sent at most once
  Owner,        \* Owner[c]: the account whose token c authenticated with
  From,         \* From[m]: the account that sends m
  To,           \* To[m]: the account m is addressed to
  Online,       \* the connections already in their read loop at the start
  Quic,         \* the connections that use QUIC; the others use WebSocket
  Reading,      \* those whose client goes on taking what is written to it
  MaxFetch,     \* MAX_QUEUED_MESSAGES_PER_FETCH
  NatsFaults,   \* whether calls to NATS may fail
  MaxCrashes,   \* bound on the crashes of the API process
  None

ASSUME RelayAssumption ==
  /\ Owner \in [Conns -> Users]
  /\ From \in [Msgs -> Users]
  /\ To \in [Msgs -> Users]
  /\ Online \subseteq Conns
  /\ \A c, d \in Online : Owner[c] = Owner[d] => c = d
  /\ Quic \subseteq Conns
  /\ Reading \subseteq Conns
  /\ MaxFetch \in Nat \ {0}
  /\ NatsFaults \in BOOLEAN
  /\ MaxCrashes \in Nat
  /\ None \notin Users \cup Conns \cup Msgs

VARIABLES
  \* the API process (lost in a crash)
  registry,     \* the connection that the registry names for each user
  phase,        \* where each connection's handler is
  prev,         \* what registry.insert returned to a handler
  cur,          \* the "send" frame a handler is working on
  peer,         \* the recipient_tx a handler got from the registry
  batch,        \* the fetched messages a handler still has to deliver
  chan,         \* the frames in each connection's outbound channel
  rx,           \* the channel's receiving half, owned by the forward task
  redo,         \* the redelivery task spawned for each published message
  redoPeer,     \* the recipient_tx that task got from the registry
  \* the network and the clients
  socket,       \* the transport under each connection
  verdict,      \* the answer each "send" frame got
  crashes,
  \* JetStream (survives a crash of the API process)
  stored,       \* the messages in the stream
  seqOf,        \* the stream sequence each message was published under
  lastSeq,
  consumer,     \* the connection whose consumer is on a user's subject
  \* history: what happened to each message
  handed,       \* the connections whose channel a message was pushed into
  written,      \* the messages written to a recipient's socket
  lost,         \* the messages dropped with a channel
  expired,      \* the messages max_age removed
  caughtUp      \* the handlers whose fetch took all that was queued

taskVars   == <<phase, prev, cur, peer, batch>>
redoVars   == <<redo, redoPeer>>
streamVars == <<stored, seqOf, lastSeq, consumer>>
pastVars   == <<handed, written, lost, expired, caughtUp>>
vars == <<registry, taskVars, chan, rx, redoVars, socket, verdict, crashes,
          streamVars, pastVars>>

Verdicts == {"ack", "not_a_contact", "invalid_payload", "queue_unavailable"}

(* Changed variants of a definition, like this one, stand before the       *)
(* definition they vary: they show that a property notices the change.     *)
AnswerWithoutId(m, v) == [type |-> v, msg |-> None]

Message(m)   == [type |-> "message", msg |-> m]
Answer(m, v) == [type |-> v, msg |-> m]
Close        == [type |-> "close", msg |-> None]
Frame == [type : {"message"} \cup Verdicts, msg : Msgs] \cup {Close}

(* The phases before the forward task is spawned, those of the catch-up,   *)
(* and those in which a handler works on a "send" frame.                   *)
Starting == {"idle", "replacing"}
CatchUp  == {"subscribing", "fetching", "forwarding", "acking"}
Handling == {"checking", "routing", "sending", "publishing",
             "confirmed", "unconfirmed"}
Ending   == {"leaving", "done"}
Phases   == Starting \cup CatchUp \cup Handling \cup Ending \cup {"reading"}

TypeOK ==
  /\ registry \in [Users -> Conns \cup {None}]
  /\ phase \in [Conns -> Phases]
  /\ prev \in [Conns -> Conns \cup {None}]
  /\ cur \in [Conns -> Msgs \cup {None}]
  /\ peer \in [Conns -> Conns \cup {None}]
  /\ batch \in [Conns -> SUBSET Msgs]
  /\ chan \in [Conns -> Seq(Frame)]
  /\ rx \in [Conns -> {"none", "open", "dropped"}]
  /\ redo \in [Msgs -> {"none", "spawned", "sending", "deleting", "done"}]
  /\ redoPeer \in [Msgs -> Conns \cup {None}]
  /\ socket \in [Conns -> {"none", "open", "closed"}]
  /\ verdict \in [Msgs -> {"unsent", "pending"} \cup Verdicts]
  /\ crashes \in 0..MaxCrashes
  /\ stored \subseteq Msgs
  /\ seqOf \in [Msgs -> Nat]
  /\ lastSeq \in Nat
  /\ consumer \in [Users -> Conns \cup {None}]
  /\ handed \in [Msgs -> SUBSET Conns]
  /\ written \subseteq Msgs
  /\ lost \subseteq Msgs
  /\ expired \subseteq Msgs
  /\ caughtUp \subseteq Conns

Init ==
  /\ registry \in [Users -> Online \cup {None}]
  /\ \A u \in Users, c \in Online : registry[u] = c <=> Owner[c] = u
  /\ phase = [c \in Conns |-> IF c \in Online THEN "reading" ELSE "idle"]
  /\ prev = [c \in Conns |-> None]
  /\ cur = [c \in Conns |-> None]
  /\ peer = [c \in Conns |-> None]
  /\ batch = [c \in Conns |-> {}]
  /\ chan = [c \in Conns |-> <<>>]
  /\ rx = [c \in Conns |-> IF c \in Online THEN "open" ELSE "none"]
  /\ redo = [m \in Msgs |-> "none"]
  /\ redoPeer = [m \in Msgs |-> None]
  /\ socket = [c \in Conns |-> IF c \in Online THEN "open" ELSE "none"]
  /\ verdict = [m \in Msgs |-> "unsent"]
  /\ crashes = 0
  /\ stored = {}
  /\ seqOf = [m \in Msgs |-> 0]
  /\ lastSeq = 0
  /\ consumer = [u \in Users |-> None]
  /\ handed = [m \in Msgs |-> {}]
  /\ written = {}
  /\ lost = {}
  /\ expired = {}
  /\ caughtUp = {}
----------------------------------------------------------------------------
(* Helpers.                                                                *)

Goto(c, p) == phase' = [phase EXCEPT ![c] = p]

(* A step of a handler that only reads.                                    *)
Move(c, from, to) ==
  /\ phase[c] = from
  /\ Goto(c, to)
  /\ UNCHANGED <<registry, prev, cur, peer, batch, chan, rx, redoVars, socket,
                 verdict, crashes, streamVars, pastVars>>

(* tx.send fails exactly when the forward task has dropped rx.             *)
ChannelOpen(c) == rx[c] = "open"

Push(ch, c, f) == [ch EXCEPT ![c] = Append(@, f)]

Frames(s)   == {s[i] : i \in DOMAIN s}
InChannel(m) == \E c \in Conns : Message(m) \in Frames(chan[c])

Queue(u) == {m \in stored : To[m] = u}

(* The first k messages of S in stream order.                              *)
Oldest(S, k) == {m \in S : Cardinality({n \in S : seqOf[n] < seqOf[m]}) < k}
IsAny(m, S)   == m \in S
IsFirst(m, S) == m \in S /\ \A n \in S : seqOf[m] <= seqOf[n]

(* The forward task is over: rx and the frames still in the channel go.    *)
DropReceiver(c) ==
  /\ rx' = [rx EXCEPT ![c] = "dropped"]
  /\ chan' = [chan EXCEPT ![c] = <<>>]
  /\ lost' = lost \cup {m \in Msgs : Message(m) \in Frames(chan[c])}

(* The end of handle_send: the answer goes into the sender's own channel,  *)
(* ch being the channels as the frame left them; Err(()) ends the loop.    *)
Reply(c, m, v, ch) ==
  /\ verdict' = [verdict EXCEPT ![m] = v]
  /\ cur' = [cur EXCEPT ![c] = None]
  /\ peer' = [peer EXCEPT ![c] = None]
  /\ \/ ChannelOpen(c) /\ chan' = Push(ch, c, Answer(m, v)) /\ Goto(c, "reading")
     \/ ~ChannelOpen(c) /\ chan' = ch /\ Goto(c, "leaving")
----------------------------------------------------------------------------
(* A connection opens, registers, and replaces the user's previous one.    *)

(* An authenticated connection makes its channel and registers it.         *)
Register(c) ==
  LET previous == registry[Owner[c]] IN
  /\ phase[c] = "idle"
  /\ socket' = [socket EXCEPT ![c] = "open"]
  /\ rx' = [rx EXCEPT ![c] = "open"]
  /\ registry' = [registry EXCEPT ![Owner[c]] = c]
  /\ prev' = [prev EXCEPT ![c] = previous]
  /\ Goto(c, IF previous = None THEN "subscribing" ELSE "replacing")
  /\ UNCHANGED <<cur, peer, batch, chan, redoVars, verdict, crashes,
                 streamVars, pastVars>>

ReplaceSilently(c) == Move(c, "replacing", "subscribing")

\* mutant: asks the registry again whom to close
ReplaceCurrent(c) ==
  LET current == registry[Owner[c]] IN
  /\ phase[c] = "replacing"
  /\ chan' = IF current # None /\ ChannelOpen(current)
             THEN Push(chan, current, Close) ELSE chan
  /\ prev' = [prev EXCEPT ![c] = None]
  /\ Goto(c, "subscribing")
  /\ UNCHANGED <<registry, cur, peer, batch, rx, redoVars, socket, verdict,
                 crashes, streamVars, pastVars>>

ReplacePrevious(c) ==
  /\ phase[c] = "replacing"
  /\ chan' = IF ChannelOpen(prev[c]) THEN Push(chan, prev[c], Close) ELSE chan
  /\ prev' = [prev EXCEPT ![c] = None]
  /\ Goto(c, "subscribing")
  /\ UNCHANGED <<registry, cur, peer, batch, rx, redoVars, socket, verdict,
                 crashes, streamVars, pastVars>>
----------------------------------------------------------------------------
(* deliver_queued_messages: the catch-up before the first client frame.    *)

(* The WorkQueue stream takes one consumer per subject.                    *)
CreateConsumer(c) ==
  /\ phase[c] = "subscribing"
  /\ consumer[Owner[c]] = None
  /\ consumer' = [consumer EXCEPT ![Owner[c]] = c]
  /\ Goto(c, "fetching")
  /\ UNCHANGED <<registry, prev, cur, peer, batch, chan, rx, redoVars, socket,
                 verdict, crashes, stored, seqOf, lastSeq, pastVars>>

ConsumerRefused(c) ==
  /\ NatsFaults \/ consumer[Owner[c]] # None
  /\ Move(c, "subscribing", "reading")

\* mutant: the consumer acknowledges what it fetches
FetchAndAck(c) ==
  LET queue == Queue(Owner[c]) IN
  /\ phase[c] = "fetching"
  /\ batch' = [batch EXCEPT ![c] = Oldest(queue, MaxFetch)]
  /\ stored' = stored \ batch'[c]
  /\ caughtUp' = IF batch'[c] = queue THEN caughtUp \cup {c} ELSE caughtUp
  /\ Goto(c, "forwarding")
  /\ UNCHANGED <<registry, prev, cur, peer, chan, rx, redoVars, socket, verdict,
                 crashes, seqOf, lastSeq, consumer, handed, written, lost, expired>>

Fetch(c) ==
  LET queue == Queue(Owner[c]) IN
  /\ phase[c] = "fetching"
  /\ batch' = [batch EXCEPT ![c] = Oldest(queue, MaxFetch)]
  /\ caughtUp' = IF batch'[c] = queue THEN caughtUp \cup {c} ELSE caughtUp
  /\ Goto(c, "forwarding")
  /\ UNCHANGED <<registry, prev, cur, peer, chan, rx, redoVars, socket,
                 verdict, crashes, streamVars, handed, written, lost, expired>>

FetchFailed(c) == NatsFaults /\ Move(c, "fetching", "reading")

ForwardQueued(c) ==
  /\ phase[c] = "forwarding"
  /\ ChannelOpen(c)
  /\ \E m \in Msgs :
       /\ IsFirst(m, batch[c])
       /\ chan' = Push(chan, c, Message(m))
       /\ handed' = [handed EXCEPT ![m] = @ \cup {c}]
  /\ Goto(c, "acking")
  /\ UNCHANGED <<registry, prev, cur, peer, batch, rx, redoVars, socket,
                 verdict, crashes, streamVars, written, lost, expired, caughtUp>>

(* An ack counts only while the consumer exists, and may not arrive.       *)
AckQueued(c) ==
  /\ phase[c] = "acking"
  /\ \E m \in Msgs :
       /\ IsFirst(m, batch[c])
       /\ batch' = [batch EXCEPT ![c] = @ \ {m}]
       /\ \/ consumer[Owner[c]] = c /\ stored' = stored \ {m}
          \/ /\ NatsFaults \/ consumer[Owner[c]] # c
             /\ UNCHANGED stored
  /\ Goto(c, "forwarding")
  /\ UNCHANGED <<registry, prev, cur, peer, chan, rx, redoVars, socket,
                 verdict, crashes, seqOf, lastSeq, consumer, pastVars>>

CatchUpDone(c) == batch[c] = {} /\ Move(c, "forwarding", "reading")

(* tx is gone, or the message stream yielded an error.                     *)
CatchUpAborted(c) ==
  /\ phase[c] = "forwarding"
  /\ NatsFaults \/ ~ChannelOpen(c)
  /\ batch[c] # {}
  /\ batch' = [batch EXCEPT ![c] = {}]
  /\ caughtUp' = caughtUp \ {c}
  /\ Goto(c, "reading")
  /\ UNCHANGED <<registry, prev, cur, peer, chan, rx, redoVars, socket,
                 verdict, crashes, streamVars, handed, written, lost, expired>>
----------------------------------------------------------------------------
(* handle_client_frame and handle_send.                                    *)

ReceiveMalformed(c, m) ==
  /\ phase[c] = "reading"
  /\ From[m] = Owner[c] /\ verdict[m] = "unsent"
  /\ Reply(c, m, "invalid_payload", chan)
  /\ UNCHANGED <<registry, prev, batch, rx, redoVars, socket, crashes,
                 streamVars, pastVars>>

ReceiveSend(c, m) ==
  /\ phase[c] = "reading"
  /\ From[m] = Owner[c] /\ verdict[m] = "unsent"
  /\ verdict' = [verdict EXCEPT ![m] = "pending"]
  /\ cur' = [cur EXCEPT ![c] = m]
  /\ Goto(c, "checking")
  /\ UNCHANGED <<registry, prev, peer, batch, chan, rx, redoVars, socket,
                 crashes, streamVars, pastVars>>

(* The contacts row may come and go, and a failed query counts as no row.  *)
IsContact(c) == Move(c, "checking", "routing")

NotAContact(c) ==
  /\ phase[c] = "checking"
  /\ Reply(c, cur[c], "not_a_contact", chan)
  /\ UNCHANGED <<registry, prev, batch, rx, redoVars, socket, crashes,
                 streamVars, pastVars>>

LookUpRecipient(c) ==
  LET found == registry[To[cur[c]]] IN
  /\ phase[c] = "routing"
  /\ peer' = [peer EXCEPT ![c] = found]
  /\ Goto(c, IF found = None THEN "publishing" ELSE "sending")
  /\ UNCHANGED <<registry, prev, cur, batch, chan, rx, redoVars, socket,
                 verdict, crashes, streamVars, pastVars>>

SendLiveAndQueue(c) ==
  /\ phase[c] = "sending"
  /\ ChannelOpen(peer[c])
  /\ handed' = [handed EXCEPT ![cur[c]] = @ \cup {peer[c]}]
  /\ chan' = Push(chan, peer[c], Message(cur[c]))
  /\ Goto(c, "publishing")
  /\ UNCHANGED <<registry, prev, cur, peer, batch, rx, redoVars, socket,
                 verdict, crashes, streamVars, written, lost, expired, caughtUp>>

SendLive(c) ==
  /\ phase[c] = "sending"
  /\ ChannelOpen(peer[c])
  /\ handed' = [handed EXCEPT ![cur[c]] = @ \cup {peer[c]}]
  /\ Reply(c, cur[c], "ack", Push(chan, peer[c], Message(cur[c])))
  /\ UNCHANGED <<registry, prev, batch, rx, redoVars, socket, crashes,
                 streamVars, written, lost, expired, caughtUp>>

RecipientVanished(c) ==
  /\ Move(c, "sending", "publishing")
  /\ ~ChannelOpen(peer[c])

(* JetStream stores the message; the PubAck reaches the handler or not.    *)
Publish(c) ==
  LET m == cur[c] IN
  /\ phase[c] = "publishing"
  /\ stored' = stored \cup {m}
  /\ lastSeq' = lastSeq + 1
  /\ seqOf' = [seqOf EXCEPT ![m] = lastSeq + 1]
  /\ \/ Goto(c, "confirmed")
     \/ NatsFaults /\ Goto(c, "unconfirmed")
  /\ UNCHANGED <<registry, prev, cur, peer, batch, chan, rx, redoVars, socket,
                 verdict, crashes, consumer, pastVars>>

PublishErrorIgnored(c) == NatsFaults /\ Move(c, "publishing", "confirmed")

PublishFailed(c) == NatsFaults /\ Move(c, "publishing", "unconfirmed")

QueuedWithoutRedelivery(c) ==
  /\ phase[c] = "confirmed"
  /\ Reply(c, cur[c], "ack", chan)
  /\ UNCHANGED <<registry, prev, batch, rx, redoVars, socket, crashes,
                 streamVars, pastVars>>

(* The redelivery task is spawned, then the sender gets its ack.           *)
Queued(c) ==
  /\ phase[c] = "confirmed"
  /\ redo' = [redo EXCEPT ![cur[c]] = "spawned"]
  /\ Reply(c, cur[c], "ack", chan)
  /\ UNCHANGED <<registry, prev, batch, rx, redoPeer, socket, crashes,
                 streamVars, pastVars>>

QueueUnavailable(c) ==
  /\ phase[c] = "unconfirmed"
  /\ Reply(c, cur[c], "queue_unavailable", chan)
  /\ UNCHANGED <<registry, prev, batch, rx, redoVars, socket, crashes,
                 streamVars, pastVars>>
----------------------------------------------------------------------------
(* redeliver_if_now_connected.                                             *)

RedeliverLookUp(m) ==
  LET found == registry[To[m]] IN
  /\ redo[m] = "spawned"
  /\ redoPeer' = [redoPeer EXCEPT ![m] = found]
  /\ redo' = [redo EXCEPT ![m] = IF found = None THEN "done" ELSE "sending"]
  /\ UNCHANGED <<registry, taskVars, chan, rx, socket, verdict, crashes,
                 streamVars, pastVars>>

RedeliverSend(m) ==
  LET c == redoPeer[m] IN
  /\ redo[m] = "sending"
  /\ \/ /\ ChannelOpen(c)
        /\ chan' = Push(chan, c, Message(m))
        /\ handed' = [handed EXCEPT ![m] = @ \cup {c}]
        /\ redo' = [redo EXCEPT ![m] = "deleting"]
     \/ /\ ~ChannelOpen(c)
        /\ redo' = [redo EXCEPT ![m] = "done"]
        /\ UNCHANGED <<chan, handed>>
  /\ UNCHANGED <<registry, taskVars, rx, redoPeer, socket, verdict, crashes,
                 streamVars, written, lost, expired, caughtUp>>

(* delete_message by sequence; every failure is swallowed.                 *)
RedeliverDelete(m) ==
  /\ redo[m] = "deleting"
  /\ redo' = [redo EXCEPT ![m] = "done"]
  /\ \/ stored' = stored \ {m}
     \/ NatsFaults /\ UNCHANGED stored
  /\ UNCHANGED <<registry, taskVars, chan, rx, redoPeer, socket, verdict,
                 crashes, seqOf, lastSeq, consumer, pastVars>>
----------------------------------------------------------------------------
(* The forward task of a connection.                                       *)

ForwardNext(c) ==
  /\ ChannelOpen(c) /\ phase[c] \notin Starting
  /\ chan[c] # <<>>

WriteFrame(c) ==
  /\ ForwardNext(c)
  /\ Head(chan[c]) # Close
  /\ socket[c] = "open"
  /\ chan' = [chan EXCEPT ![c] = Tail(@)]
  /\ written' = written \cup {m \in Msgs : Head(chan[c]) = Message(m)}
  /\ UNCHANGED <<registry, taskVars, rx, redoVars, socket, verdict, crashes,
                 streamVars, handed, lost, expired, caughtUp>>

WriteFails(c) ==
  /\ ForwardNext(c)
  /\ Head(chan[c]) # Close
  /\ socket[c] = "closed"
  /\ DropReceiver(c)
  /\ UNCHANGED <<registry, taskVars, redoVars, socket, verdict, crashes,
                 streamVars, handed, written, expired, caughtUp>>

(* A WebSocket gets a close frame and stays readable until the client      *)
(* answers it; a QUIC connection is closed at once.                        *)
WriteClose(c) ==
  /\ ForwardNext(c)
  /\ Head(chan[c]) = Close
  /\ DropReceiver(c)
  /\ socket' = IF c \in Quic THEN [socket EXCEPT ![c] = "closed"] ELSE socket
  /\ UNCHANGED <<registry, taskVars, redoVars, verdict, crashes, streamVars,
                 handed, written, expired, caughtUp>>
----------------------------------------------------------------------------
(* A connection ends.                                                      *)

LeaveLoop(c) == socket[c] = "closed" /\ Move(c, "reading", "leaving")

RemoveAlways(c) == registry' = [registry EXCEPT ![Owner[c]] = None]
RemoveNever(c)  == registry' = registry

RemoveIfCurrent(c) ==
  registry' = IF registry[Owner[c]] = c
              THEN [registry EXCEPT ![Owner[c]] = None] ELSE registry

(* remove_if_current, drop(tx), forward_task.abort().                      *)
CleanUp(c) ==
  /\ phase[c] = "leaving"
  /\ RemoveIfCurrent(c)
  /\ DropReceiver(c)
  /\ socket' = [socket EXCEPT ![c] = "closed"]
  /\ Goto(c, "done")
  /\ UNCHANGED <<prev, cur, peer, batch, redoVars, verdict, crashes, streamVars,
                 handed, written, expired, caughtUp>>
----------------------------------------------------------------------------
(* The environment: clients, JetStream's timers, crashes of the process.   *)

ClientGone(c) ==
  /\ socket[c] = "open"
  /\ socket' = [socket EXCEPT ![c] = "closed"]
  /\ UNCHANGED <<registry, taskVars, chan, rx, redoVars, verdict, crashes,
                 streamVars, pastVars>>

(* An ephemeral consumer goes some seconds after its last pull.            *)
ConsumerLapses(u) ==
  /\ consumer[u] # None
  /\ phase[consumer[u]] # "fetching"
  /\ consumer' = [consumer EXCEPT ![u] = None]
  /\ UNCHANGED <<registry, taskVars, chan, rx, redoVars, socket, verdict,
                 crashes, stored, seqOf, lastSeq, pastVars>>

(* max_age removes the oldest message.                                     *)
Expire(m) ==
  /\ IsFirst(m, stored)
  /\ stored' = stored \ {m}
  /\ expired' = expired \cup {m}
  /\ UNCHANGED <<registry, taskVars, chan, rx, redoVars, socket, verdict,
                 crashes, seqOf, lastSeq, consumer, handed, written, lost,
                 caughtUp>>

Crash ==
  LET used(c) == phase[c] # "idle" IN
  /\ crashes < MaxCrashes
  /\ crashes' = crashes + 1
  /\ registry' = [u \in Users |-> None]
  /\ phase' = [c \in Conns |-> IF used(c) THEN "done" ELSE "idle"]
  /\ rx' = [c \in Conns |-> IF used(c) THEN "dropped" ELSE "none"]
  /\ socket' = [c \in Conns |-> IF used(c) THEN "closed" ELSE "none"]
  /\ prev' = [c \in Conns |-> None]
  /\ cur' = [c \in Conns |-> None]
  /\ peer' = [c \in Conns |-> None]
  /\ batch' = [c \in Conns |-> {}]
  /\ chan' = [c \in Conns |-> <<>>]
  /\ redo' = [m \in Msgs |-> IF redo[m] = "none" THEN "none" ELSE "done"]
  /\ redoPeer' = [m \in Msgs |-> None]
  /\ lost' = lost \cup {m \in Msgs : InChannel(m)}
  /\ UNCHANGED <<verdict, streamVars, handed, written, expired, caughtUp>>
----------------------------------------------------------------------------
Handler(c) ==
  \/ ReplacePrevious(c)
  \/ CreateConsumer(c) \/ ConsumerRefused(c) \/ Fetch(c) \/ FetchFailed(c)
  \/ ForwardQueued(c) \/ AckQueued(c) \/ CatchUpDone(c) \/ CatchUpAborted(c)
  \/ IsContact(c) \/ NotAContact(c) \/ LookUpRecipient(c)
  \/ SendLive(c) \/ RecipientVanished(c)
  \/ Publish(c) \/ PublishFailed(c) \/ Queued(c) \/ QueueUnavailable(c)
  \/ LeaveLoop(c) \/ CleanUp(c)

Receive(c) == \E m \in Msgs : ReceiveMalformed(c, m) \/ ReceiveSend(c, m)

ForwardTask(c) == WriteFrame(c) \/ WriteFails(c) \/ WriteClose(c)

Redelivery(m) == RedeliverLookUp(m) \/ RedeliverSend(m) \/ RedeliverDelete(m)

Environment ==
  \/ \E c \in Conns : Register(c) \/ ClientGone(c)
  \/ \E u \in Users : ConsumerLapses(u)
  \/ \E m \in Msgs : Expire(m)
  \/ Crash

Next ==
  \/ \E c \in Conns : Handler(c) \/ Receive(c) \/ ForwardTask(c)
  \/ \E m \in Msgs : Redelivery(m)
  \/ Environment

Spec == Init /\ [][Next]_vars

(* The runtime polls every ready task, and each await of a handler or a    *)
(* redelivery task ends: the fetch and the publish have timeouts, the      *)
(* others are served.  A forward task awaits its socket, without a timeout *)
(* (ws.rs:114, quic.rs:345 and 348): it goes on while the client reads.    *)
Fairness ==
  /\ \A c \in Conns : WF_vars(Handler(c))
  /\ \A c \in Reading : WF_vars(ForwardTask(c))
  /\ \A m \in Msgs : WF_vars(Redelivery(m))

FairSpec == Spec /\ Fairness
============================================================================
