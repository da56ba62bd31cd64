-------------------------- MODULE RelayRefinement --------------------------
(***************************************************************************)
(* The relay keeps what it acknowledges, implements the Mailbox, and does  *)
(* not forget a connection: for any users, connections and messages.       *)
(***************************************************************************)
EXTENDS RelayProofs

(* The messages in a family of channels.                                   *)
InChannels(ch) == {m \in Msgs : \E c \in Conns : Message(m) \in Frames(ch[c])}
InTransit == InChannels(chan)
MessagesOf(s) == {m \in Msgs : Message(m) \in Frames(s)}

(* What appending a frame to a channel adds to the frames in it.            *)
LEMMA AppendFrames ==
  ASSUME NEW s \in Seq(Frame), NEW f \in Frame
  PROVE  Frames(Append(s, f)) = Frames(s) \cup {f}
<1>1. /\ DOMAIN s = 1..Len(s) /\ DOMAIN Append(s, f) = 1..(Len(s) + 1)
      /\ \A i \in 1..Len(s) : Append(s, f)[i] = s[i]
      /\ Append(s, f)[Len(s) + 1] = f
  OBVIOUS
<1>2. ASSUME NEW g \in Frames(Append(s, f)) PROVE g \in Frames(s) \cup {f}
  BY <1>1 DEF Frames
<1>3. ASSUME NEW g \in Frames(s) PROVE g \in Frames(Append(s, f))
  BY <1>1 DEF Frames
<1>4. f \in Frames(Append(s, f))
  BY <1>1 DEF Frames
<1>5. QED
  BY <1>2, <1>3, <1>4

(* The frames of a channel are the first one and those behind it.           *)
LEMMA TailFrames ==
  ASSUME NEW s \in Seq(Frame), s # <<>>
  PROVE  Frames(s) = Frames(Tail(s)) \cup {Head(s)}
<1>1. /\ Len(s) \in Nat \ {0} /\ DOMAIN s = 1..Len(s)
      /\ DOMAIN Tail(s) = 1..(Len(s) - 1)
      /\ \A i \in 1..(Len(s) - 1) : Tail(s)[i] = s[i + 1]
      /\ Head(s) = s[1]
  OBVIOUS
<1>2. ASSUME NEW g \in Frames(s) PROVE g \in Frames(Tail(s)) \cup {Head(s)}
  <2>1. PICK i \in 1..Len(s) : g = s[i]
    BY <1>1, <1>2 DEF Frames
  <2>2. CASE i = 1
    BY <1>1, <2>1, <2>2
  <2>3. CASE i # 1
    <3>1. i - 1 \in 1..(Len(s) - 1) /\ Tail(s)[i - 1] = g
      BY <1>1, <2>1, <2>3
    <3>2. QED
      BY <1>1, <3>1 DEF Frames
  <2>4. QED
    BY <2>2, <2>3
<1>3. ASSUME NEW g \in Frames(Tail(s)) PROVE g \in Frames(s)
  <2>1. PICK i \in 1..(Len(s) - 1) : g = s[i + 1]
    BY <1>1, <1>3 DEF Frames
  <2>2. i + 1 \in 1..Len(s)
    BY <1>1
  <2>3. QED
    BY <1>1, <2>1, <2>2 DEF Frames
<1>4. Head(s) \in Frames(s)
  BY <1>1 DEF Frames
<1>5. QED
  BY <1>2, <1>3, <1>4

(* Pushing a frame puts its message, if it carries one, on its way.         *)
LEMMA PushTransit ==
  ASSUME NEW ch \in [Conns -> Seq(Frame)], NEW c \in Conns, NEW f \in Frame
  PROVE  InChannels(Push(ch, c, f)) = InChannels(ch) \cup {m \in Msgs : f = Message(m)}
<1>1. Frames(Push(ch, c, f)[c]) = Frames(ch[c]) \cup {f}
  BY AppendFrames DEF Push
<1>2. \A d \in Conns \ {c} : Push(ch, c, f)[d] = ch[d]
  BY DEF Push
<1>3. ASSUME NEW m \in InChannels(Push(ch, c, f))
      PROVE  m \in InChannels(ch) \cup {n \in Msgs : f = Message(n)}
  <2>1. PICK d \in Conns : Message(m) \in Frames(Push(ch, c, f)[d])
    BY <1>3 DEF InChannels
  <2>2. Message(m) \in Frames(ch[d]) \/ Message(m) = f
    BY <1>1, <1>2, <2>1
  <2>3. QED
    BY <1>3, <2>2 DEF InChannels
<1>4. ASSUME NEW m \in InChannels(ch) \cup {n \in Msgs : f = Message(n)}
      PROVE  m \in InChannels(Push(ch, c, f))
  <2>1. \E d \in Conns : Message(m) \in Frames(Push(ch, c, f)[d])
    BY <1>1, <1>2, <1>4 DEF InChannels
  <2>2. QED
    BY <1>4, <2>1 DEF InChannels
<1>5. QED
  BY <1>3, <1>4

(* An answer and a close frame carry no message, and messages are told      *)
(* apart by their frames.                                                  *)
LEMMA NoMessageInAnswer ==
  ASSUME NEW m \in Msgs
  PROVE  /\ \A n, v : v \in Verdicts => Answer(n, v) # Message(m)
         /\ Close # Message(m)
         /\ \A n \in Msgs : Message(n) = Message(m) => n = m
<1>1. ASSUME NEW n, NEW v \in Verdicts PROVE Answer(n, v) # Message(m)
  <2>1. Answer(n, v).type = v /\ Message(m).type = "message"
    BY DEF Answer, Message
  <2>2. v # "message"
    BY DEF Verdicts
  <2>3. QED
    BY <2>1, <2>2
<1>2. Close # Message(m)
  BY DEF Close, Message
<1>3. ASSUME NEW n \in Msgs, Message(n) = Message(m) PROVE n = m
  BY <1>3 DEF Message
<1>4. QED
  BY <1>1, <1>2, <1>3

(* Pushing a message puts that message on its way.                         *)
LEMMA MessageTransit ==
  ASSUME NEW ch \in [Conns -> Seq(Frame)], NEW c \in Conns, NEW m \in Msgs
  PROVE  InChannels(Push(ch, c, Message(m))) = InChannels(ch) \cup {m}
<1>1. {n \in Msgs : Message(m) = Message(n)} = {m}
  BY NoMessageInAnswer
<1>2. Message(m) \in Frame
  BY FrameTypes
<1>3. QED
  BY <1>1, <1>2, PushTransit

(* The reply to a sender leaves the messages in the channels alone.         *)
LEMMA ReplyTransit ==
  ASSUME NEW ch \in [Conns -> Seq(Frame)], NEW c \in Conns, NEW m \in Msgs,
         NEW v \in Verdicts, Reply(c, m, v, ch)
  PROVE  InTransit' = InChannels(ch)
<1>1. Answer(m, v) \in Frame
  BY FrameTypes
<1>2. InChannels(Push(ch, c, Answer(m, v))) = InChannels(ch)
  <2>1. {n \in Msgs : Answer(m, v) = Message(n)} = {}
    BY NoMessageInAnswer
  <2>2. InChannels(Push(ch, c, Answer(m, v)))
          = InChannels(ch) \cup {n \in Msgs : Answer(m, v) = Message(n)}
    BY <1>1, PushTransit
  <2>3. QED
    BY <2>1, <2>2
<1>3. chan' = Push(ch, c, Answer(m, v)) \/ chan' = ch
  BY DEF Reply
<1>4. InTransit' = InChannels(chan')
  BY DEF InTransit
<1>5. QED
  BY <1>2, <1>3, <1>4

(* A forward task that takes the first frame takes its message.             *)
LEMMA TailTransit ==
  ASSUME NEW c \in Conns, chan \in [Conns -> Seq(Frame)], chan[c] # <<>>,
         chan' = [chan EXCEPT ![c] = Tail(@)]
  PROVE  InTransit = InTransit' \cup {m \in Msgs : Head(chan[c]) = Message(m)}
<1>1. Frames(chan[c]) = Frames(chan'[c]) \cup {Head(chan[c])}
  BY TailFrames
<1>2. \A d \in Conns \ {c} : chan'[d] = chan[d]
  OBVIOUS
<1>3. \A m \in Msgs :
        (\E d \in Conns : Message(m) \in Frames(chan[d])) <=>
          \/ \E d \in Conns : Message(m) \in Frames(chan'[d])
          \/ Head(chan[c]) = Message(m)
  BY <1>1, <1>2
<1>4. QED
  BY <1>3 DEF InTransit, InChannels

(* What a dropped channel held is on record as lost.                        *)
LEMMA DropTransit ==
  ASSUME NEW c \in Conns, chan \in [Conns -> Seq(Frame)], DropReceiver(c)
  PROVE  /\ MessagesOf(chan[c]) \subseteq InTransit
         /\ InTransit' \subseteq InTransit
         /\ InTransit \subseteq InTransit' \cup MessagesOf(chan[c])
         /\ lost' = lost \cup MessagesOf(chan[c])
<1>1. chan'[c] = <<>> /\ \A d \in Conns \ {c} : chan'[d] = chan[d]
  BY DEF DropReceiver
<1>2. Frames(chan'[c]) = {}
  BY <1>1 DEF Frames
<1>3. QED
  BY <1>1, <1>2 DEF InTransit, InChannels, MessagesOf, DropReceiver
----------------------------------------------------------------------------
(* What each kind of step does to the messages on their way.                *)

(* A handler that pushes a message, and a redelivery task that finds the    *)
(* connection, put it on its way and remember it as handed.                 *)
LEMMA SendEffect ==
  ASSUME TypeInv, NEW c \in Conns, SendLive(c) \/ ForwardQueued(c)
  PROVE  \E m \in Msgs :
           /\ SendLive(c) => m = cur[c]
           /\ ForwardQueued(c) => m \in batch[c]
           /\ InTransit' = InTransit \cup {m}
           /\ \E d \in Conns : handed' = [handed EXCEPT ![m] = @ \cup {d}]
           /\ UNCHANGED <<stored, seqOf, written, lost, expired, redo>>
<1> USE DEF TypeInv, TypeOK, HoldsWhatItUses
<1>1. ASSUME SendLive(c), ~ForwardQueued(c)
      PROVE  /\ cur[c] \in Msgs /\ peer[c] \in Conns
             /\ InTransit' = InTransit \cup {cur[c]}
             /\ handed' = [handed EXCEPT ![cur[c]] = @ \cup {peer[c]}]
             /\ UNCHANGED <<stored, seqOf, written, lost, expired, redo>>
  <2>1. cur[c] \in Msgs /\ peer[c] \in Conns
    BY <1>1 DEF SendLive, Handling
  <2>2. Push(chan, peer[c], Message(cur[c])) \in [Conns -> Seq(Frame)]
    BY <2>1, PushType, FrameTypes
  <2>3. InTransit' = InChannels(Push(chan, peer[c], Message(cur[c])))
    BY <1>1, <2>1, <2>2, ReplyTransit DEF SendLive, Verdicts
  <2>4. chan \in [Conns -> Seq(Frame)]
    OBVIOUS
  <2>5. InTransit' = InTransit \cup {cur[c]}
    <3> HIDE DEF TypeInv, TypeOK, HoldsWhatItUses
    <3>1. InChannels(Push(chan, peer[c], Message(cur[c]))) = InChannels(chan) \cup {cur[c]}
      BY <2>1, <2>4, MessageTransit
    <3>2. QED
      BY <2>3, <3>1 DEF InTransit
  <2>6. UNCHANGED <<stored, seqOf, written, lost, expired, redo>>
    BY <1>1 DEF SendLive, redoVars, streamVars
  <2>7. QED
    BY <1>1, <2>1, <2>5, <2>6 DEF SendLive
<1>2. ASSUME ForwardQueued(c)
      PROVE  \E m \in batch[c] :
               /\ m \in Msgs
               /\ InTransit' = InTransit \cup {m}
               /\ handed' = [handed EXCEPT ![m] = @ \cup {c}]
               /\ UNCHANGED <<stored, seqOf, written, lost, expired, redo>>
  <2>1. PICK m \in Msgs : /\ m \in batch[c]
                          /\ chan' = Push(chan, c, Message(m))
                          /\ handed' = [handed EXCEPT ![m] = @ \cup {c}]
    BY <1>2 DEF ForwardQueued, IsFirst
  <2>2. chan \in [Conns -> Seq(Frame)]
    OBVIOUS
  <2>3. InTransit' = InTransit \cup {m}
    <3> HIDE DEF TypeInv, TypeOK, HoldsWhatItUses
    <3>1. InChannels(Push(chan, c, Message(m))) = InChannels(chan) \cup {m}
      BY <2>2, MessageTransit
    <3>2. QED
      BY <2>1, <3>1 DEF InTransit
  <2>4. UNCHANGED <<stored, seqOf, written, lost, expired, redo>>
    BY <1>2 DEF ForwardQueued, redoVars, streamVars
  <2>5. QED
    BY <2>1, <2>3, <2>4
<1>3. ~(SendLive(c) /\ ForwardQueued(c))
  BY DEF SendLive, ForwardQueued
<1>4. QED
  BY <1>1, <1>2, <1>3

(* The redelivery task pushes its message or finds the channel closed.      *)
LEMMA RedeliverEffect ==
  ASSUME TypeInv, NEW m \in Msgs, RedeliverSend(m)
  PROVE  /\ \/ /\ InTransit' = InTransit \cup {m}
               /\ \E d \in Conns : handed' = [handed EXCEPT ![m] = @ \cup {d}]
               /\ redo' = [redo EXCEPT ![m] = "deleting"]
            \/ /\ InTransit' = InTransit
               /\ UNCHANGED handed
               /\ redo' = [redo EXCEPT ![m] = "done"]
         /\ redo[m] = "sending"
         /\ UNCHANGED <<stored, seqOf, written, lost, expired, phase, cur, verdict>>
<1> USE DEF TypeInv, TypeOK, HoldsWhatItUses
<1>1. redo[m] = "sending" /\ redoPeer[m] \in Conns
  BY DEF RedeliverSend
<1>2. UNCHANGED <<stored, seqOf, written, lost, expired, phase, cur, verdict>>
  BY DEF RedeliverSend, taskVars, streamVars
<1>3. InTransit' = InChannels(chan')
  BY DEF InTransit
<1>4. chan \in [Conns -> Seq(Frame)]
  OBVIOUS
<1>5. CASE ChannelOpen(redoPeer[m])
  <2>1. chan' = Push(chan, redoPeer[m], Message(m))
    BY <1>5 DEF RedeliverSend
  <2>2. InTransit' = InTransit \cup {m}
    <3> HIDE DEF TypeInv, TypeOK, HoldsWhatItUses
    <3>1. InChannels(Push(chan, redoPeer[m], Message(m))) = InChannels(chan) \cup {m}
      BY <1>1, <1>4, MessageTransit
    <3>2. QED
      BY <1>3, <2>1, <3>1 DEF InTransit
  <2>3. QED
    BY <1>1, <1>2, <1>5, <2>2 DEF RedeliverSend
<1>6. CASE ~ChannelOpen(redoPeer[m])
  BY <1>1, <1>2, <1>3, <1>6 DEF RedeliverSend, InTransit
<1>7. QED
  BY <1>5, <1>6

(* Answers and close frames leave the messages in the channels alone.       *)
LEMMA AnswerEffect ==
  ASSUME TypeInv, NEW c \in Conns,
         \/ NotAContact(c) \/ Queued(c) \/ QueueUnavailable(c)
         \/ ReplacePrevious(c) \/ \E m \in Msgs : ReceiveMalformed(c, m)
  PROVE  InTransit' = InTransit
<1> USE DEF TypeInv, TypeOK, HoldsWhatItUses
<1>1. CASE NotAContact(c) \/ Queued(c) \/ QueueUnavailable(c)
  <2>1. cur[c] \in Msgs
    BY <1>1 DEF NotAContact, Queued, QueueUnavailable, Handling
  <2>2. \E v \in Verdicts : Reply(c, cur[c], v, chan)
    BY <1>1 DEF NotAContact, Queued, QueueUnavailable, Verdicts
  <2>3. QED
    BY <2>1, <2>2, ReplyTransit DEF InTransit
<1>2. ASSUME NEW m \in Msgs, ReceiveMalformed(c, m) PROVE InTransit' = InTransit
  <2>1. Reply(c, m, "invalid_payload", chan)
    BY <1>2 DEF ReceiveMalformed
  <2>2. chan \in [Conns -> Seq(Frame)] /\ "invalid_payload" \in Verdicts
    BY DEF Verdicts
  <2>3. QED
    <3> HIDE DEF TypeInv, TypeOK, HoldsWhatItUses
    <3>1. InTransit' = InChannels(chan)
      BY <2>1, <2>2, ReplyTransit
    <3>2. QED
      BY <3>1 DEF InTransit
<1>3. CASE ReplacePrevious(c)
  <2>1. prev[c] \in Conns /\ {n \in Msgs : Close = Message(n)} = {}
    BY <1>3, NoMessageInAnswer DEF ReplacePrevious
  <2>2. InChannels(Push(chan, prev[c], Close)) = InChannels(chan)
    <3>1. Close \in Frame /\ chan \in [Conns -> Seq(Frame)]
      BY DEF Frame
    <3> HIDE DEF TypeInv, TypeOK, HoldsWhatItUses
    <3>2. InChannels(Push(chan, prev[c], Close))
            = InChannels(chan) \cup {n \in Msgs : Close = Message(n)}
      BY <2>1, <3>1, PushTransit
    <3>3. QED
      BY <2>1, <3>2
  <2>3. InTransit' = InChannels(chan')
    BY DEF InTransit
  <2>4. QED
    BY <1>3, <2>2, <2>3 DEF ReplacePrevious, InTransit
<1>4. QED
  BY <1>1, <1>2, <1>3

(* A forward task writes the first frame, whose message is then written.    *)
LEMMA WriteEffect ==
  ASSUME TypeInv, NEW c \in Conns, WriteFrame(c)
  PROVE  LET W == {m \in Msgs : Head(chan[c]) = Message(m)}
         IN  /\ InTransit = InTransit' \cup W
             /\ written' = written \cup W
             /\ \A m, n \in W : m = n
             /\ UNCHANGED <<stored, seqOf, lost, expired, handed, redo, verdict,
                            phase, cur>>
<1>1. chan[c] # <<>> /\ chan' = [chan EXCEPT ![c] = Tail(@)]
  BY DEF WriteFrame, ForwardNext
<1>2. InTransit = InTransit' \cup {m \in Msgs : Head(chan[c]) = Message(m)}
  BY <1>1, TailTransit DEF TypeInv, TypeOK
<1>3. QED
  BY <1>2, NoMessageInAnswer DEF WriteFrame, redoVars, streamVars, taskVars

(* A forward task or a handler that ends takes its channel with it, and a   *)
(* crash takes all of them.                                                *)
LEMMA DropEffect ==
  ASSUME TypeInv,
         \/ \E c \in Conns : WriteFails(c) \/ WriteClose(c) \/ CleanUp(c)
         \/ Crash
  PROVE  \E S \in SUBSET InTransit :
           /\ InTransit' \subseteq InTransit
           /\ InTransit \subseteq InTransit' \cup S
           /\ lost' = lost \cup S
           /\ UNCHANGED <<stored, seqOf, written, expired, handed, verdict>>
<1>1. ASSUME NEW c \in Conns, WriteFails(c) \/ WriteClose(c) \/ CleanUp(c)
      PROVE  /\ DropReceiver(c)
             /\ UNCHANGED <<stored, seqOf, written, expired, handed, verdict>>
  BY <1>1 DEF WriteFails, WriteClose, CleanUp, streamVars
<1>2. CASE Crash
  <2>1. InTransit' = {}
    <3>1. \A c \in Conns : Frames(chan'[c]) = {}
      BY <1>2 DEF Crash, Frames
    <3>2. QED
      BY <3>1 DEF InTransit, InChannels
  <2>2. InTransit = {m \in Msgs : InChannel(m)}
    BY DEF InTransit, InChannels, InChannel
  <2>3. QED
    BY <1>2, <2>1, <2>2 DEF Crash, streamVars
<1>3. ASSUME NEW c \in Conns, WriteFails(c) \/ WriteClose(c) \/ CleanUp(c)
      PROVE  \E S \in SUBSET InTransit :
               /\ InTransit' \subseteq InTransit
               /\ InTransit \subseteq InTransit' \cup S
               /\ lost' = lost \cup S
               /\ UNCHANGED <<stored, seqOf, written, expired, handed, verdict>>
  <2>1. QED
    BY <1>1, <1>3, DropTransit DEF TypeInv, TypeOK
<1>4. QED
  BY <1>2, <1>3
----------------------------------------------------------------------------
(* What the relay acknowledges is accounted for.  Whatever was published or *)
(* pushed is still queued, on its way, written, lost with a channel, or     *)
(* expired; an answer, a redelivery and the delete that follows it each     *)
(* come after what they rest on.                                           *)
Accounted(m) == m \in stored \cup written \cup lost \cup expired \cup InTransit

PublishedIsAccountedFor == \A m \in Msgs : seqOf[m] # 0 => Accounted(m)
PushedIsOnItsWay ==
  \A m \in Msgs : handed[m] # {} => m \in written \cup lost \cup InTransit
ConfirmedIsPublished ==
  \A c \in Conns : phase[c] = "confirmed" => seqOf[cur[c]] # 0
RedeliversWhatWasPublished ==
  /\ \A m \in Msgs : redo[m] \in {"spawned", "sending", "deleting"} => seqOf[m] # 0
  /\ \A m \in Msgs : redo[m] = "deleting" => handed[m] # {}
AckedIsPublishedOrPushed ==
  \A m \in Msgs : verdict[m] = "ack" => seqOf[m] # 0 \/ handed[m] # {}

AccountInv ==
  /\ PublishedIsAccountedFor
  /\ PushedIsOnItsWay
  /\ ConfirmedIsPublished
  /\ RedeliversWhatWasPublished
  /\ AckedIsPublishedOrPushed

(* The steps that touch no channel, no queue and no history.                *)
Quiet(c) ==
  \/ Register(c) \/ CreateConsumer(c) \/ ConsumerRefused(c) \/ Fetch(c)
  \/ FetchFailed(c) \/ CatchUpDone(c) \/ CatchUpAborted(c) \/ IsContact(c)
  \/ LookUpRecipient(c) \/ RecipientVanished(c) \/ PublishFailed(c)
  \/ LeaveLoop(c) \/ ClientGone(c)

(* What a quiet step leaves alone.                                         *)
LEMMA QuietEffect ==
  ASSUME NEW c \in Conns, Quiet(c)
  PROVE  UNCHANGED <<chan, stored, seqOf, written, lost, expired, handed, redo,
                     verdict>>
BY DEF Quiet, Register, CreateConsumer, ConsumerRefused, Fetch, FetchFailed,
  CatchUpDone, CatchUpAborted, IsContact, LookUpRecipient, RecipientVanished,
  PublishFailed, LeaveLoop, ClientGone, Move, taskVars, redoVars, streamVars,
  pastVars

(* A step that leaves the channels alone leaves their messages alone.       *)
LEMMA SameTransit ==
  ASSUME UNCHANGED chan
  PROVE  InTransit' = InTransit
BY DEF InTransit, InChannels

(* Every step of the relay is of one of these kinds.                        *)
LEMMA StepKinds ==
  ASSUME [Next]_vars
  PROVE  \/ \E c \in Conns :
               \/ Quiet(c)
               \/ SendLive(c) \/ ForwardQueued(c)
               \/ NotAContact(c) \/ Queued(c) \/ QueueUnavailable(c)
               \/ ReplacePrevious(c)
               \/ \E m \in Msgs : ReceiveMalformed(c, m) \/ ReceiveSend(c, m)
               \/ AckQueued(c) \/ Publish(c) \/ WriteFrame(c)
         \/ \E m \in Msgs : RedeliverLookUp(m) \/ RedeliverSend(m)
                             \/ RedeliverDelete(m) \/ Expire(m)
         \/ (\E c \in Conns : WriteFails(c) \/ WriteClose(c) \/ CleanUp(c)) \/ Crash
         \/ (\E u \in Users : ConsumerLapses(u)) \/ UNCHANGED vars
BY DEF Next, Handler, Receive, ForwardTask, Redelivery, Environment, Quiet

(* A message leaves the channels only onto the record.                      *)
OnRecord ==
  /\ written \subseteq written' /\ lost \subseteq lost'
  /\ expired \subseteq expired'
  /\ InTransit \subseteq InTransit' \cup written' \cup lost'
  /\ \A m \in Msgs : handed[m] \subseteq handed'[m]
  /\ \A m \in Msgs : handed'[m] # handed[m] => m \in InTransit'

(* Every step of the relay keeps the record.                                *)
LEMMA LeavesOnRecord ==
  ASSUME TypeInv, [Next]_vars
  PROVE  OnRecord
<1> USE DEF OnRecord
<1>0. handed \in [Msgs -> SUBSET Conns]
  BY DEF TypeInv, TypeOK
<1>1. ASSUME NEW c \in Conns, Quiet(c) PROVE OnRecord
  BY <1>1, QuietEffect, SameTransit
<1>2. ASSUME NEW c \in Conns, SendLive(c) \/ ForwardQueued(c) PROVE OnRecord
  BY <1>0, <1>2, SendEffect
<1>3. ASSUME NEW c \in Conns,
             \/ NotAContact(c) \/ Queued(c) \/ QueueUnavailable(c)
             \/ ReplacePrevious(c) \/ \E m \in Msgs : ReceiveMalformed(c, m)
      PROVE  OnRecord
  <2>1. InTransit' = InTransit
    BY <1>3, AnswerEffect
  <2>2. UNCHANGED <<written, lost, expired, handed>>
    BY <1>3 DEF NotAContact, Queued, QueueUnavailable, ReplacePrevious,
      ReceiveMalformed, pastVars
  <2>3. QED
    BY <2>1, <2>2
<1>4. ASSUME NEW c \in Conns,
             \/ AckQueued(c) \/ Publish(c) \/ \E m \in Msgs : ReceiveSend(c, m)
      PROVE  OnRecord
  <2>1. UNCHANGED <<chan, written, lost, expired, handed>>
    BY <1>4 DEF AckQueued, Publish, ReceiveSend, pastVars
  <2>2. QED
    BY <2>1, SameTransit
<1>5. ASSUME NEW c \in Conns, WriteFrame(c) PROVE OnRecord
  BY <1>5, WriteEffect
<1>6. ASSUME NEW m \in Msgs, RedeliverSend(m) PROVE OnRecord
  BY <1>0, <1>6, RedeliverEffect
<1>7. ASSUME NEW m \in Msgs, RedeliverLookUp(m) \/ RedeliverDelete(m) \/ Expire(m)
      PROVE  OnRecord
  <2>1. /\ UNCHANGED <<chan, written, lost, handed>>
        /\ expired \subseteq expired'
    BY <1>7 DEF RedeliverLookUp, RedeliverDelete, Expire, pastVars
  <2>2. QED
    BY <2>1, SameTransit
<1>8. CASE \/ \E c \in Conns : WriteFails(c) \/ WriteClose(c) \/ CleanUp(c)
           \/ Crash
  BY <1>8, DropEffect
<1>9. CASE (\E u \in Users : ConsumerLapses(u)) \/ UNCHANGED vars
  <2>1. UNCHANGED <<chan, written, lost, expired, handed>>
    BY <1>9 DEF ConsumerLapses, vars, pastVars
  <2>2. QED
    BY <2>1, SameTransit
<1>10. QED
  BY <1>1, <1>2, <1>3, <1>4, <1>5, <1>6, <1>7, <1>8, <1>9, StepKinds

(* The queue gives up a message when it expires, or after it was pushed;    *)
(* a publish is the only source of sequence numbers.                        *)
LEMMA QueueOnRecord ==
  ASSUME TypeInv, DeliveryInv, AccountInv, [Next]_vars, NEW m \in Msgs
  PROVE  /\ m \in stored => m \in stored' \cup expired' \/ handed[m] # {}
         /\ seqOf'[m] # seqOf[m] => m \in stored'
         /\ seqOf[m] # 0 => seqOf'[m] # 0
<1> USE DEF TypeInv, TypeOK
<1>1. ASSUME NEW c \in Conns, AckQueued(c)
      PROVE  /\ UNCHANGED seqOf
             /\ m \in stored => m \in stored' \/ handed[m] # {}
  <2>1. PICK n \in Msgs : IsFirst(n, batch[c]) /\ stored' \in {stored, stored \ {n}}
    BY <1>1 DEF AckQueued
  <2>2. handed[n] # {}
    BY <1>1, <2>1 DEF AckQueued, DeliveryInv, ForwardedBeforeAck
  <2>3. QED
    BY <1>1, <2>1, <2>2 DEF AckQueued
<1>2. ASSUME NEW n \in Msgs, RedeliverDelete(n)
      PROVE  /\ UNCHANGED seqOf
             /\ m \in stored => m \in stored' \/ handed[m] # {}
  BY <1>2 DEF RedeliverDelete, AccountInv, RedeliversWhatWasPublished
<1>3. ASSUME NEW n \in Msgs, Expire(n)
      PROVE  UNCHANGED seqOf /\ (m \in stored => m \in stored' \cup expired')
  BY <1>3 DEF Expire
<1>4. ASSUME NEW c \in Conns, Publish(c)
      PROVE  /\ stored \subseteq stored'
             /\ seqOf'[m] # seqOf[m] => m \in stored'
             /\ seqOf[m] # 0 => seqOf'[m] # 0
  <2>1. cur[c] \in Msgs /\ lastSeq \in Nat
    BY <1>4 DEF Publish, HoldsWhatItUses, Handling
  <2>2. /\ stored' = stored \cup {cur[c]}
        /\ seqOf' = [seqOf EXCEPT ![cur[c]] = lastSeq + 1]
    BY <1>4 DEF Publish
  <2>3. CASE m = cur[c]
    BY <2>1, <2>2, <2>3
  <2>4. CASE m # cur[c]
    BY <2>1, <2>2, <2>4
  <2>5. QED
    BY <2>3, <2>4
<1>5. ASSUME NEW c \in Conns,
             \/ NotAContact(c) \/ Queued(c) \/ QueueUnavailable(c)
             \/ ReplacePrevious(c)
             \/ \E n \in Msgs : ReceiveMalformed(c, n) \/ ReceiveSend(c, n)
      PROVE  UNCHANGED <<stored, seqOf>>
  BY <1>5 DEF NotAContact, Queued, QueueUnavailable, ReplacePrevious,
    ReceiveMalformed, ReceiveSend, streamVars
<1>6. ASSUME \/ \E n \in Msgs : RedeliverLookUp(n)
             \/ \E u \in Users : ConsumerLapses(u)
             \/ UNCHANGED vars
      PROVE  UNCHANGED <<stored, seqOf>>
  BY <1>6 DEF RedeliverLookUp, ConsumerLapses, vars, streamVars
<1>7. ASSUME NEW n \in Msgs, RedeliverSend(n) PROVE UNCHANGED <<stored, seqOf>>
  BY <1>7, RedeliverEffect
<1>8. ASSUME NEW c \in Conns, SendLive(c) \/ ForwardQueued(c)
      PROVE  UNCHANGED <<stored, seqOf>>
  BY <1>8, SendEffect
<1>9. ASSUME NEW c \in Conns, Quiet(c) PROVE UNCHANGED <<stored, seqOf>>
  BY <1>9, QuietEffect
<1>10. ASSUME NEW c \in Conns, WriteFrame(c) PROVE UNCHANGED <<stored, seqOf>>
  BY <1>10, WriteEffect
<1>11. ASSUME \/ \E c \in Conns : WriteFails(c) \/ WriteClose(c) \/ CleanUp(c)
              \/ Crash
       PROVE  UNCHANGED <<stored, seqOf>>
  BY <1>11, DropEffect
<1>12. QED
  BY <1>1, <1>2, <1>3, <1>4, <1>5, <1>6, <1>7, <1>8, <1>9, <1>10, <1>11, StepKinds

(* What was published or pushed stays accounted for.                        *)
LEMMA AccountedNext ==
  TypeInv /\ DeliveryInv /\ AccountInv /\ [Next]_vars
    => PublishedIsAccountedFor' /\ PushedIsOnItsWay'
<1> SUFFICES ASSUME TypeInv, DeliveryInv, AccountInv, [Next]_vars
             PROVE  PublishedIsAccountedFor' /\ PushedIsOnItsWay'
  OBVIOUS
<1>1. OnRecord
  BY LeavesOnRecord
<1>2. ASSUME NEW m \in Msgs, m \in written \cup lost \cup InTransit
      PROVE  m \in written' \cup lost' \cup InTransit'
  BY <1>1, <1>2 DEF OnRecord
<1>3. ASSUME NEW m \in Msgs, handed'[m] # {}
      PROVE  m \in written' \cup lost' \cup InTransit'
  <2>1. CASE handed'[m] # handed[m]
    BY <1>1, <2>1 DEF OnRecord
  <2>2. CASE handed'[m] = handed[m]
    BY <1>2, <1>3, <2>2 DEF AccountInv, PushedIsOnItsWay
  <2>3. QED
    BY <2>1, <2>2
<1>4. ASSUME NEW m \in Msgs, seqOf'[m] # 0 PROVE Accounted(m)'
  <2>1. CASE seqOf'[m] # seqOf[m]
    BY <2>1, QueueOnRecord DEF Accounted
  <2>2. CASE seqOf'[m] = seqOf[m]
    <3>1. Accounted(m)
      BY <1>4, <2>2 DEF AccountInv, PublishedIsAccountedFor
    <3>2. CASE m \in stored
      <4>1. m \in stored' \cup expired' \/ handed[m] # {}
        BY <3>2, QueueOnRecord
      <4>2. handed[m] # {} => m \in written' \cup lost' \cup InTransit'
        BY <1>2 DEF AccountInv, PushedIsOnItsWay
      <4>3. QED
        BY <4>1, <4>2 DEF Accounted
    <3>3. CASE m \in written \cup lost \cup InTransit
      BY <1>2, <3>3 DEF Accounted
    <3>4. CASE m \in expired
      BY <1>1, <3>4 DEF OnRecord, Accounted
    <3>5. QED
      BY <3>1, <3>2, <3>3, <3>4 DEF Accounted
  <2>3. QED
    BY <2>1, <2>2
<1>5. QED
  BY <1>3, <1>4 DEF PublishedIsAccountedFor, PushedIsOnItsWay

(* A handler that got its PubAck has published.                             *)
LEMMA ConfirmedNext ==
  TypeInv /\ DeliveryInv /\ AccountInv /\ [Next]_vars => ConfirmedIsPublished'
<1> SUFFICES ASSUME TypeInv, DeliveryInv, AccountInv, [Next]_vars,
                    NEW d \in Conns, phase'[d] = "confirmed"
             PROVE  seqOf'[cur'[d]] # 0
  BY DEF ConfirmedIsPublished
<1> USE DEF TypeInv, TypeOK, Goto
<1>1. CASE Publish(d)
  <2>1. cur[d] \in Msgs /\ cur' = cur /\ lastSeq \in Nat
    BY <1>1 DEF Publish, HoldsWhatItUses, Handling
  <2>2. seqOf'[cur[d]] = lastSeq + 1
    BY <1>1, <2>1 DEF Publish
  <2>3. QED
    BY <2>1, <2>2
<1>2. CASE ~Publish(d)
  <2>1. ASSUME NEW c \in Conns, Handler(c) \/ Receive(c)
        PROVE  phase[d] = "confirmed" /\ cur'[d] = cur[d]
    <3>1. CASE ReplacePrevious(c) \/ CreateConsumer(c) \/ ConsumerRefused(c)
               \/ Fetch(c) \/ FetchFailed(c) \/ ForwardQueued(c) \/ AckQueued(c)
               \/ CatchUpDone(c) \/ CatchUpAborted(c)
      BY <3>1 DEF ReplacePrevious, CreateConsumer, ConsumerRefused, Fetch, FetchFailed,
        ForwardQueued, AckQueued, CatchUpDone, CatchUpAborted, Move
    <3>2. CASE IsContact(c) \/ NotAContact(c) \/ LookUpRecipient(c) \/ SendLive(c)
               \/ RecipientVanished(c) \/ PublishFailed(c) \/ Queued(c)
               \/ QueueUnavailable(c)
      BY <3>2 DEF IsContact, NotAContact, LookUpRecipient, SendLive, RecipientVanished,
        PublishFailed, Queued, QueueUnavailable, Move, Reply
    <3>3. CASE Publish(c) \/ LeaveLoop(c) \/ CleanUp(c) \/ Receive(c)
      BY <1>2, <3>3 DEF Publish, LeaveLoop, CleanUp, Move, Reply, Receive,
        ReceiveMalformed, ReceiveSend
    <3>4. QED
      BY <2>1, <3>1, <3>2, <3>3 DEF Handler
  <2>2. ASSUME NEW c \in Conns, Register(c)
        PROVE  phase[d] = "confirmed" /\ cur'[d] = cur[d]
    BY <2>2 DEF Register
  <2>3. ~Crash
    <3> HIDE DEF TypeInv, TypeOK
    <3>1. QED
      BY DEF Crash
  <2>4. ASSUME \/ \E c \in Conns : ForwardTask(c) \/ ClientGone(c)
               \/ \E m \in Msgs : Redelivery(m) \/ Expire(m)
               \/ \E u \in Users : ConsumerLapses(u)
               \/ UNCHANGED vars
        PROVE  UNCHANGED <<phase, cur>>
    <3> HIDE DEF TypeInv, TypeOK
    <3>1. QED
      BY <2>4 DEF ForwardTask, WriteFrame, WriteFails, WriteClose, ClientGone,
        Redelivery, RedeliverLookUp, RedeliverSend, RedeliverDelete, Expire,
        ConsumerLapses, vars, taskVars
  <2>5. phase[d] = "confirmed" /\ cur'[d] = cur[d]
    BY <2>1, <2>2, <2>3, <2>4 DEF Next, Environment
  <2>6. cur[d] \in Msgs /\ seqOf[cur[d]] # 0
    BY <2>5 DEF HoldsWhatItUses, Handling, AccountInv, ConfirmedIsPublished
  <2>7. QED
    BY <2>5, <2>6, QueueOnRecord
<1>3. QED
  BY <1>1, <1>2

(* Queued spawns the redelivery of a published message, and the task deletes *)
(* only after it pushed.                                                    *)
LEMMA RedeliversNext ==
  TypeInv /\ DeliveryInv /\ AccountInv /\ [Next]_vars => RedeliversWhatWasPublished'
<1> SUFFICES ASSUME TypeInv, DeliveryInv, AccountInv, [Next]_vars, NEW m \in Msgs
             PROVE  /\ redo'[m] \in {"spawned", "sending", "deleting"} => seqOf'[m] # 0
                    /\ redo'[m] = "deleting" => handed'[m] # {}
  BY DEF RedeliversWhatWasPublished
<1> USE DEF TypeInv, TypeOK
<1>1. /\ seqOf[m] # 0 => seqOf'[m] # 0
      /\ handed[m] # {} => handed'[m] # {}
  BY QueueOnRecord, LeavesOnRecord DEF OnRecord
<1>2. ASSUME redo'[m] = redo[m]
      PROVE  /\ redo'[m] \in {"spawned", "sending", "deleting"} => seqOf'[m] # 0
             /\ redo'[m] = "deleting" => handed'[m] # {}
  BY <1>1, <1>2 DEF AccountInv, RedeliversWhatWasPublished
<1>3. ASSUME NEW c \in Conns, Queued(c), cur[c] = m
      PROVE  redo'[m] = "spawned" /\ seqOf'[m] # 0
  BY <1>1, <1>3 DEF Queued, AccountInv, ConfirmedIsPublished
<1>4. ASSUME NEW c \in Conns, Queued(c), cur[c] # m PROVE redo'[m] = redo[m]
  BY <1>4 DEF Queued
<1>5. ASSUME RedeliverSend(m)
      PROVE  /\ seqOf'[m] # 0 /\ (redo'[m] = "deleting" => handed'[m] # {})
  <2>1. seqOf[m] # 0
    BY <1>5 DEF RedeliverSend, AccountInv, RedeliversWhatWasPublished
  <2>2. CASE ChannelOpen(redoPeer[m])
    <3>1. handed' = [handed EXCEPT ![m] = @ \cup {redoPeer[m]}]
      BY <1>5, <2>2 DEF RedeliverSend
    <3>2. QED
      BY <1>1, <2>1, <3>1
  <2>3. CASE ~ChannelOpen(redoPeer[m])
    BY <1>1, <1>5, <2>1, <2>3 DEF RedeliverSend
  <2>4. QED
    BY <2>2, <2>3
<1>6. ASSUME NEW n \in Msgs, RedeliverSend(n), n # m PROVE redo'[m] = redo[m]
  BY <1>6 DEF RedeliverSend
<1>7. ASSUME NEW n \in Msgs, RedeliverLookUp(n)
      PROVE  \/ redo'[m] = redo[m]
             \/ redo'[m] # "deleting" /\ seqOf'[m] # 0
  BY <1>1, <1>7 DEF RedeliverLookUp, AccountInv, RedeliversWhatWasPublished
<1>8. ASSUME NEW n \in Msgs, RedeliverDelete(n)
      PROVE  redo'[m] \in {redo[m], "done"}
  BY <1>8 DEF RedeliverDelete
<1>9. ASSUME NEW n \in Msgs, Expire(n) PROVE redo' = redo
  BY <1>9 DEF Expire, redoVars
<1>10. ASSUME \/ \E c \in Conns : WriteFails(c) \/ WriteClose(c) \/ CleanUp(c)
              \/ Crash
       PROVE  redo'[m] \in {redo[m], "none", "done"}
  BY <1>10 DEF WriteFails, WriteClose, CleanUp, Crash, redoVars
<1>11. ASSUME NEW c \in Conns,
              \/ Quiet(c) \/ SendLive(c) \/ ForwardQueued(c) \/ WriteFrame(c)
       PROVE  redo' = redo
  BY <1>11, QuietEffect, SendEffect, WriteEffect
<1>12. ASSUME \/ \E c \in Conns :
                  \/ NotAContact(c) \/ QueueUnavailable(c) \/ ReplacePrevious(c)
                  \/ \E n \in Msgs : ReceiveMalformed(c, n) \/ ReceiveSend(c, n)
                  \/ AckQueued(c) \/ Publish(c)
              \/ \E u \in Users : ConsumerLapses(u)
              \/ UNCHANGED vars
       PROVE  redo' = redo
  BY <1>12 DEF NotAContact, QueueUnavailable, ReplacePrevious, ReceiveMalformed,
    ReceiveSend, AckQueued, Publish, ConsumerLapses, vars, redoVars
<1>13. QED
  BY <1>2, <1>3, <1>4, <1>5, <1>6, <1>7, <1>8, <1>9, <1>10, <1>11, <1>12, StepKinds

(* A sender gets an ack after the push of the live path, or after the       *)
(* PubAck of the queue.                                                     *)
LEMMA AckedNext ==
  TypeInv /\ DeliveryInv /\ AccountInv /\ [Next]_vars => AckedIsPublishedOrPushed'
<1> SUFFICES ASSUME TypeInv, DeliveryInv, AccountInv, [Next]_vars, NEW m \in Msgs,
                    verdict'[m] = "ack"
             PROVE  seqOf'[m] # 0 \/ handed'[m] # {}
  BY DEF AckedIsPublishedOrPushed
<1> USE DEF TypeInv, TypeOK
<1>1. /\ seqOf[m] # 0 => seqOf'[m] # 0
      /\ handed[m] # {} => handed'[m] # {}
  BY QueueOnRecord, LeavesOnRecord DEF OnRecord
<1>2. CASE verdict[m] = "ack"
  BY <1>1, <1>2 DEF AccountInv, AckedIsPublishedOrPushed
<1>3. ASSUME NEW c \in Conns, SendLive(c), verdict[m] # "ack"
      PROVE  handed'[m] # {}
  <2>1. verdict' = [verdict EXCEPT ![cur[c]] = "ack"]
    BY <1>3 DEF SendLive, Reply
  <2>2. cur[c] = m
    BY <1>3, <2>1
  <2>3. QED
    BY <1>3, <2>2 DEF SendLive
<1>4. ASSUME NEW c \in Conns, Queued(c), verdict[m] # "ack"
      PROVE  seqOf[m] # 0
  <2>1. verdict' = [verdict EXCEPT ![cur[c]] = "ack"]
    BY <1>4 DEF Queued, Reply
  <2>2. cur[c] = m
    BY <1>4, <2>1
  <2>3. QED
    BY <1>4, <2>2 DEF Queued, AccountInv, ConfirmedIsPublished
<1>5. ASSUME NEW c \in Conns,
             \/ Quiet(c) \/ ForwardQueued(c) \/ NotAContact(c) \/ QueueUnavailable(c)
             \/ ReplacePrevious(c)
             \/ \E n \in Msgs : ReceiveMalformed(c, n) \/ ReceiveSend(c, n)
             \/ AckQueued(c) \/ Publish(c) \/ WriteFrame(c)
      PROVE  verdict[m] = "ack"
  <2>1. ASSUME NEW n, NEW v, v # "ack", verdict' = [verdict EXCEPT ![n] = v]
        PROVE  verdict[m] = "ack"
    BY <2>1
  <2>2. CASE NotAContact(c) \/ QueueUnavailable(c)
             \/ \E n \in Msgs : ReceiveMalformed(c, n) \/ ReceiveSend(c, n)
    BY <2>1, <2>2 DEF NotAContact, QueueUnavailable, ReceiveMalformed, ReceiveSend,
      Reply
  <2>3. CASE ForwardQueued(c) \/ ReplacePrevious(c) \/ AckQueued(c) \/ Publish(c)
    BY <2>3 DEF ForwardQueued, ReplacePrevious, AckQueued, Publish
  <2>4. QED
    BY <1>5, <2>2, <2>3, QuietEffect, WriteEffect
<1>6. ASSUME \/ \E n \in Msgs : RedeliverLookUp(n) \/ RedeliverSend(n)
                                \/ RedeliverDelete(n) \/ Expire(n)
             \/ (\E c \in Conns : WriteFails(c) \/ WriteClose(c) \/ CleanUp(c)) \/ Crash
             \/ (\E u \in Users : ConsumerLapses(u)) \/ UNCHANGED vars
      PROVE  verdict' = verdict
  BY <1>6 DEF RedeliverLookUp, RedeliverSend, RedeliverDelete, Expire, WriteFails,
    WriteClose, CleanUp, Crash, ConsumerLapses, vars
<1>7. QED
  BY <1>1, <1>2, <1>3, <1>4, <1>5, <1>6, StepKinds

(* At the start nothing was sent, published or pushed.                      *)
LEMMA InitAccounts == Init => AccountInv
BY DEF Init, AccountInv, PublishedIsAccountedFor, PushedIsOnItsWay,
  ConfirmedIsPublished, RedeliversWhatWasPublished, AckedIsPublishedOrPushed

(* The accounts hold in every reachable state.                              *)
LEMMA AccountsAreKept == Spec => [](TypeInv /\ DeliveryInv /\ AccountInv)
<1>1. TypeInv /\ DeliveryInv /\ AccountInv /\ [Next]_vars => AccountInv'
  BY AccountedNext, ConfirmedNext, RedeliversNext, AckedNext DEF AccountInv
<1>2. QED
  BY <1>1, InitAccounts, InductiveInvariant, PTL DEF Spec

(* A message whose sender got an ack is queued, on its way, written, lost   *)
(* with a channel, or expired: handle_send and the two delivery paths never *)
(* release what they have not pushed.                                       *)
THEOREM AckedMessagesAreAccountedFor == Spec => []AckedIsAccountedFor
<1>1. AccountInv => AckedIsAccountedFor
  BY DEF AccountInv, AckedIsPublishedOrPushed, PublishedIsAccountedFor,
    PushedIsOnItsWay, Accounted, AckedIsAccountedFor, InTransit, InChannels, InChannel
<1>2. QED
  BY <1>1, AccountsAreKept, PTL
----------------------------------------------------------------------------
(* The relay implements the Mailbox: each step is a step of the Mailbox on  *)
(* the messages held, delivered and dropped, or changes none of them.       *)
Held == {m \in Msgs : m \in stored \/ InChannel(m)}
Given == lost \cup expired

(* The Mailbox holds what is queued and what is on its way.                 *)
LEMMA HeldIs ==
  ASSUME TypeOK, TypeOK'
  PROVE  Held = stored \cup InTransit /\ Held' = stored' \cup InTransit'
BY DEF TypeOK, Held, InTransit, InChannels, InChannel

(* What one step of the relay is to the Mailbox.                            *)
MailStep ==
  \/ \E m \in Msgs : Promise!Submit(m) \/ Promise!Take(m) \/ Promise!Ack(m)
       \/ Promise!TakeAndAck(m) \/ Promise!Deliver(m) \/ Promise!Release(m)
  \/ \E m \in Msgs, v \in Verdicts \ {"ack"} : Promise!Refuse(m, v)
  \/ \E S \in SUBSET Held : \E R \in SUBSET S : Promise!Drop(S, R)
  \/ UNCHANGED <<verdict, Held, written, Given>>

(* The Mailbox's actions in the relay's terms.                              *)
LEMMA MailActions ==
  ASSUME NEW m \in Msgs
  PROVE  /\ (verdict[m] = "pending" \/ m \in Held \cup written \cup Given)
             /\ Held' = Held \cup {m} /\ UNCHANGED <<verdict, written, Given>>
               => Promise!Take(m)
         /\ verdict[m] = "pending" /\ m \in Held \cup written \cup Given
             /\ verdict' = [verdict EXCEPT ![m] = "ack"]
             /\ UNCHANGED <<Held, written, Given>>
               => Promise!Ack(m)
         /\ verdict[m] = "pending" /\ Held' = Held \cup {m}
             /\ verdict' = [verdict EXCEPT ![m] = "ack"]
             /\ UNCHANGED <<written, Given>>
               => Promise!TakeAndAck(m)
         /\ verdict[m] = "unsent" /\ verdict' = [verdict EXCEPT ![m] = "pending"]
             /\ UNCHANGED <<Held, written, Given>>
               => Promise!Submit(m)
         /\ m \in Held /\ written' = written \cup {m}
             /\ Held' \in {Held, Held \ {m}} /\ UNCHANGED <<verdict, Given>>
               => Promise!Deliver(m)
         /\ m \in Held /\ m \in written \cup Given /\ Held' = Held \ {m}
             /\ UNCHANGED <<verdict, written, Given>>
               => Promise!Release(m)
         /\ \A v : verdict[m] \in {"unsent", "pending"}
               /\ verdict' = [verdict EXCEPT ![m] = v]
               /\ UNCHANGED <<Held, written, Given>>
                 => Promise!Refuse(m, v)
BY DEF Promise!Take, Promise!Ack, Promise!TakeAndAck, Promise!Submit,
  Promise!Deliver, Promise!Release, Promise!Refuse, Promise!Accounted, Held, Given

(* Giving up messages that are held.                                        *)
LEMMA DropAction ==
  ASSUME NEW S \in SUBSET Held, NEW R \in SUBSET S,
         Given' = Given \cup S, Held' = Held \ R, UNCHANGED <<verdict, written>>
  PROVE  Promise!Drop(S, R)
BY DEF Promise!Drop, Held, Given

(* Steps that end a channel drop what is in it.                             *)
LEMMA DropRefines ==
  ASSUME TypeInv, TypeInv',
         \/ \E c \in Conns : WriteFails(c) \/ WriteClose(c) \/ CleanUp(c)
         \/ Crash
  PROVE  MailStep
<1>1. PICK S \in SUBSET InTransit :
        /\ InTransit' \subseteq InTransit
        /\ InTransit \subseteq InTransit' \cup S
        /\ lost' = lost \cup S
        /\ UNCHANGED <<stored, written, expired, verdict>>
  BY DropEffect
<1>2. Held = stored \cup InTransit /\ Held' = stored' \cup InTransit'
  BY HeldIs DEF TypeInv
<1>3. S \in SUBSET Held /\ \E R \in SUBSET S : Held' = Held \ R
  <2>1. Held \ Held' \in SUBSET S /\ Held' = Held \ (Held \ Held')
    BY <1>1, <1>2
  <2>2. QED
    BY <1>1, <1>2, <2>1
<1>4. PICK R \in SUBSET S : Held' = Held \ R /\ Given' = Given \cup S
  BY <1>1, <1>3 DEF Given
<1>5. Promise!Drop(S, R)
  BY <1>1, <1>3, <1>4, DropAction
<1>6. QED
  BY <1>3, <1>5 DEF MailStep

(* Every step of the relay is a step of the Mailbox.                        *)
LEMMA StepRefines ==
  ASSUME TypeInv, TypeInv', DeliveryInv, AccountInv, [Next]_vars
  PROVE  MailStep
<1> USE DEF MailStep
<1>1. Held = stored \cup InTransit /\ Held' = stored' \cup InTransit'
  BY HeldIs DEF TypeInv
<1>2. ASSUME UNCHANGED <<verdict, stored, written, lost, expired>>,
             InTransit' = InTransit
      PROVE  MailStep
  BY <1>1, <1>2 DEF Given
<1>3. ASSUME NEW m \in Msgs, seqOf[m] # 0 \/ handed[m] # {}
      PROVE  m \in Held \cup written \cup Given
  BY <1>1, <1>3 DEF AccountInv, PublishedIsAccountedFor, PushedIsOnItsWay,
    Accounted, Given
<1>4. ASSUME NEW c \in Conns, cur[c] \in Msgs PROVE verdict[cur[c]] = "pending"
  BY <1>4 DEF DeliveryInv, OneHandler
<1>5. ASSUME NEW c \in Conns, Quiet(c) PROVE MailStep
  BY <1>2, <1>5, QuietEffect, SameTransit
<1>6. ASSUME NEW c \in Conns, SendLive(c) PROVE MailStep
  <2>1. PICK m \in Msgs : m = cur[c]
    BY <1>6 DEF SendLive, TypeInv, HoldsWhatItUses, Handling
  <2>2. /\ InTransit' = InTransit \cup {m}
        /\ UNCHANGED <<stored, written, lost, expired>>
    BY <1>6, <2>1, SendEffect
  <2>3. verdict' = [verdict EXCEPT ![m] = "ack"]
    BY <1>6, <2>1 DEF SendLive, Reply
  <2>4. Held' = Held \cup {m} /\ UNCHANGED <<written, Given>>
    BY <1>1, <2>2 DEF Given
  <2>5. Promise!TakeAndAck(m)
    BY <1>4, <2>1, <2>3, <2>4, MailActions
  <2>6. QED
    BY <2>1, <2>5
<1>7. ASSUME NEW c \in Conns, ForwardQueued(c) PROVE MailStep
  <2>1. PICK m \in Msgs : /\ m \in batch[c]
                          /\ InTransit' = InTransit \cup {m}
                          /\ UNCHANGED <<stored, written, lost, expired>>
    BY <1>7, SendEffect
  <2>2. Held' = Held \cup {m} /\ UNCHANGED <<verdict, written, Given>>
    BY <1>1, <1>7, <2>1 DEF Given, ForwardQueued
  <2>3. m \in Held \cup written \cup Given
    BY <1>3, <2>1 DEF DeliveryInv, StreamOrder
  <2>4. Promise!Take(m)
    BY <2>2, <2>3, MailActions
  <2>5. QED
    BY <2>4
<1>8. ASSUME NEW c \in Conns, Queued(c) PROVE MailStep
  <2>1. PICK m \in Msgs : m = cur[c]
    BY <1>8 DEF Queued, TypeInv, HoldsWhatItUses, Handling
  <2>2. m \in Held \cup written \cup Given
    BY <1>3, <1>8, <2>1 DEF Queued, AccountInv, ConfirmedIsPublished
  <2>3. /\ verdict' = [verdict EXCEPT ![m] = "ack"]
        /\ UNCHANGED <<Held, written, Given>>
    BY <1>1, <1>8, <2>1, AnswerEffect DEF Queued, Reply, Given, streamVars, pastVars
  <2>4. Promise!Ack(m)
    BY <1>4, <2>1, <2>2, <2>3, MailActions
  <2>5. QED
    BY <2>1, <2>4
<1>9. ASSUME NEW c \in Conns, NotAContact(c) \/ QueueUnavailable(c) PROVE MailStep
  <2>1. PICK m \in Msgs : m = cur[c]
    BY <1>9 DEF NotAContact, QueueUnavailable, TypeInv, HoldsWhatItUses, Handling
  <2>2. PICK v \in Verdicts \ {"ack"} : verdict' = [verdict EXCEPT ![m] = v]
    BY <1>9, <2>1 DEF NotAContact, QueueUnavailable, Reply, Verdicts
  <2>3. UNCHANGED <<Held, written, Given>>
    BY <1>1, <1>9, AnswerEffect DEF NotAContact, QueueUnavailable, Given,
      streamVars, pastVars
  <2>4. Promise!Refuse(m, v)
    BY <1>4, <2>1, <2>2, <2>3, MailActions
  <2>5. QED
    BY <2>1, <2>2, <2>4
<1>10. ASSUME NEW c \in Conns, NEW m \in Msgs, ReceiveMalformed(c, m) PROVE MailStep
  <2>1. /\ verdict[m] = "unsent"
        /\ verdict' = [verdict EXCEPT ![m] = "invalid_payload"]
        /\ UNCHANGED <<Held, written, Given>>
    BY <1>1, <1>10, AnswerEffect DEF ReceiveMalformed, Reply, Given, streamVars,
      pastVars
  <2>2. Promise!Refuse(m, "invalid_payload")
    BY <2>1, MailActions
  <2>3. QED
    BY <2>2 DEF Verdicts
<1>11. ASSUME NEW c \in Conns, NEW m \in Msgs, ReceiveSend(c, m) PROVE MailStep
  <2>1. /\ verdict[m] = "unsent"
        /\ verdict' = [verdict EXCEPT ![m] = "pending"]
        /\ UNCHANGED <<Held, written, Given>>
    BY <1>1, <1>11, SameTransit DEF ReceiveSend, Given, streamVars, pastVars
  <2>2. QED
    BY <2>1, MailActions
<1>12. ASSUME NEW c \in Conns, ReplacePrevious(c) PROVE MailStep
  BY <1>2, <1>12, AnswerEffect DEF ReplacePrevious, streamVars, pastVars
<1>13. ASSUME NEW c \in Conns, AckQueued(c) PROVE MailStep
  <2>1. PICK n \in Msgs : IsFirst(n, batch[c]) /\ stored' \in {stored, stored \ {n}}
    BY <1>13 DEF AckQueued
  <2>2. n \in written \cup lost \cup InTransit
    BY <1>13, <2>1 DEF AckQueued, DeliveryInv, ForwardedBeforeAck, AccountInv,
      PushedIsOnItsWay
  <2>3. InTransit' = InTransit /\ UNCHANGED <<verdict, written, lost, expired>>
    BY <1>13, SameTransit DEF AckQueued, pastVars
  <2>4. CASE Held' = Held
    BY <2>3, <2>4 DEF Given
  <2>5. CASE Held' # Held
    <3>1. n \in Held /\ Held' = Held \ {n} /\ n \in written \cup Given
      BY <1>1, <2>1, <2>2, <2>3, <2>5 DEF Given
    <3>2. Promise!Release(n)
      BY <2>3, <3>1, MailActions DEF Given
    <3>3. QED
      BY <3>2
  <2>6. QED
    BY <2>4, <2>5
<1>14. ASSUME NEW c \in Conns, Publish(c) PROVE MailStep
  <2>1. PICK m \in Msgs : m = cur[c]
    BY <1>14 DEF Publish, TypeInv, HoldsWhatItUses, Handling
  <2>2. Held' = Held \cup {m} /\ UNCHANGED <<verdict, written, Given>>
    BY <1>1, <1>14, <2>1, SameTransit DEF Publish, Given, pastVars
  <2>3. Promise!Take(m)
    BY <1>4, <2>1, <2>2, MailActions
  <2>4. QED
    BY <2>1, <2>3
<1>15. ASSUME NEW c \in Conns, WriteFrame(c) PROVE MailStep
  <2> DEFINE W == {m \in Msgs : Head(chan[c]) = Message(m)}
  <2>1. /\ InTransit = InTransit' \cup W
        /\ written' = written \cup W
        /\ \A m, n \in W : m = n
        /\ UNCHANGED <<stored, lost, expired, verdict>>
    BY <1>15, WriteEffect
  <2>2. CASE W = {}
    BY <1>2, <2>1, <2>2
  <2>3. CASE W # {}
    <3>1. PICK m \in Msgs : W = {m}
      BY <2>1, <2>3
    <3>2. m \in Held /\ Held' \in {Held, Held \ {m}} /\ Given' = Given
      BY <1>1, <2>1, <3>1 DEF Given
    <3>3. Promise!Deliver(m)
      BY <2>1, <3>1, <3>2, MailActions
    <3>4. QED
      BY <3>3
  <2>4. QED
    BY <2>2, <2>3
<1>16. ASSUME NEW m \in Msgs, RedeliverSend(m) PROVE MailStep
  <2>1. m \in Held \cup written \cup Given
    BY <1>3, <1>16, RedeliverEffect DEF AccountInv, RedeliversWhatWasPublished
  <2>2. UNCHANGED <<stored, written, lost, expired, verdict>>
        /\ (InTransit' = InTransit \cup {m} \/ InTransit' = InTransit)
    BY <1>16, RedeliverEffect
  <2>3. CASE InTransit' = InTransit
    BY <1>2, <2>2, <2>3
  <2>4. CASE InTransit' = InTransit \cup {m}
    <3>1. Held' = Held \cup {m} /\ Given' = Given
      BY <1>1, <2>2, <2>4 DEF Given
    <3>2. Promise!Take(m)
      BY <2>1, <2>2, <3>1, MailActions
    <3>3. QED
      BY <3>2
  <2>5. QED
    BY <2>2, <2>3, <2>4
<1>17. ASSUME NEW m \in Msgs, RedeliverDelete(m) PROVE MailStep
  <2>1. m \in written \cup lost \cup InTransit
    BY <1>17 DEF RedeliverDelete, AccountInv, RedeliversWhatWasPublished,
      PushedIsOnItsWay
  <2>2. /\ stored' \in {stored, stored \ {m}} /\ InTransit' = InTransit
        /\ UNCHANGED <<verdict, written, lost, expired>>
    BY <1>17, SameTransit DEF RedeliverDelete, pastVars
  <2>3. CASE Held' = Held
    BY <2>2, <2>3 DEF Given
  <2>4. CASE Held' # Held
    <3>1. m \in Held /\ Held' = Held \ {m} /\ m \in written \cup Given
      BY <1>1, <2>1, <2>2, <2>4 DEF Given
    <3>2. Promise!Release(m)
      BY <2>2, <3>1, MailActions DEF Given
    <3>3. QED
      BY <3>2
  <2>5. QED
    BY <2>3, <2>4
<1>18. ASSUME NEW m \in Msgs, Expire(m) PROVE MailStep
  <2>1. /\ m \in stored /\ stored' = stored \ {m} /\ expired' = expired \cup {m}
        /\ InTransit' = InTransit /\ UNCHANGED <<verdict, written, lost>>
    BY <1>18, SameTransit DEF Expire, IsFirst
  <2>2. /\ {m} \in SUBSET Held /\ Given' = Given \cup {m}
        /\ Held' = Held \/ Held' = Held \ {m}
    BY <1>1, <2>1 DEF Given
  <2>3. PICK R \in SUBSET {m} : Held' = Held \ R
    BY <2>2
  <2>4. Promise!Drop({m}, R)
    BY <2>1, <2>2, <2>3, DropAction
  <2>5. QED
    BY <2>2, <2>3, <2>4
<1>19. ASSUME \/ \E m \in Msgs : RedeliverLookUp(m)
              \/ \E u \in Users : ConsumerLapses(u)
              \/ UNCHANGED vars
       PROVE  MailStep
  <2>1. UNCHANGED <<chan, verdict, stored, written, lost, expired>>
    BY <1>19 DEF RedeliverLookUp, ConsumerLapses, vars, streamVars, pastVars
  <2>2. QED
    BY <1>2, <2>1, SameTransit
<1>20. QED
  BY <1>5, <1>6, <1>7, <1>8, <1>9, <1>10, <1>11, <1>12, <1>13, <1>14, <1>15,
    <1>16, <1>17, <1>18, <1>19, DropRefines, StepKinds

(* The relay implements the Mailbox (ADR 0008): it acks only what it has     *)
(* taken, and what it has taken stays until it was delivered, expired, or   *)
(* went with a connection's channel.                                       *)
THEOREM RelayImplementsMailbox == Spec => ImplementsMailbox
<1>1. Init => Promise!Init
  BY DEF Init, Promise!Init, InChannel, Frames
<1>2. TypeInv /\ TypeInv' /\ DeliveryInv /\ AccountInv /\ [Next]_vars
        => [Promise!Next]_(Promise!vars)
  <2> SUFFICES ASSUME TypeInv, TypeInv', DeliveryInv, AccountInv, [Next]_vars
               PROVE  [Promise!Next]_(Promise!vars)
    OBVIOUS
  <2>1. MailStep
    BY StepRefines
  <2>2. QED
    BY <2>1 DEF MailStep, Promise!Next, Promise!vars, Held, Given
<1>3. QED
  BY <1>1, <1>2, AccountsAreKept, PTL DEF Spec, ImplementsMailbox, Promise!Spec
----------------------------------------------------------------------------
(* No connection is forgotten.                                              *)

(* Only a handler on its way from registry.insert to the close frame it     *)
(* sends knows a previous connection.                                      *)
PrevIsReplacing == \A d \in Conns : prev[d] # None => phase[d] = "replacing"

(* Some connection of the handlers knows c, or c was told.                  *)
Told(c) ==
  \/ ~ChannelOpen(c)
  \/ Close \in Frames(chan[c])
  \/ \E d \in Conns : prev[d] = c

(* prev is set by Register and cleared by ReplacePrevious and a crash.      *)
LEMMA PrevNext ==
  TypeInv /\ PrevIsReplacing /\ [Next]_vars => PrevIsReplacing'
<1> SUFFICES ASSUME TypeInv, PrevIsReplacing, [Next]_vars, NEW d \in Conns,
                    prev'[d] # None
             PROVE  phase'[d] = "replacing"
  BY DEF PrevIsReplacing
<1> USE DEF TypeInv, TypeOK, Goto
<1>1. ASSUME NEW c \in Conns, Register(c) PROVE phase'[d] = "replacing"
  BY <1>1 DEF Register, PrevIsReplacing
<1>2. ASSUME NEW c \in Conns, ReplacePrevious(c) PROVE phase'[d] = "replacing"
  BY <1>2 DEF ReplacePrevious, PrevIsReplacing
<1>3. ASSUME NEW c \in Conns, Handler(c) \/ Receive(c), ~ReplacePrevious(c)
      PROVE  phase'[d] = "replacing"
  <2>1. /\ UNCHANGED prev
        /\ phase[c] # "replacing"
        /\ \A e \in Conns \ {c} : phase'[e] = phase[e]
    BY <1>3 DEF Handler, Receive, CreateConsumer, ConsumerRefused, Fetch,
      FetchFailed, ForwardQueued, AckQueued, CatchUpDone, CatchUpAborted, IsContact,
      NotAContact, LookUpRecipient, SendLive, RecipientVanished, Publish,
      PublishFailed, Queued, QueueUnavailable, LeaveLoop, CleanUp, Move, Reply,
      ReceiveMalformed, ReceiveSend
  <2>2. QED
    BY <2>1 DEF PrevIsReplacing
<1>4. ~Crash
  BY DEF Crash
<1>5. CASE \/ \E c \in Conns : ForwardTask(c) \/ ClientGone(c)
           \/ \E m \in Msgs : Redelivery(m) \/ Expire(m)
           \/ \E u \in Users : ConsumerLapses(u)
           \/ UNCHANGED vars
  <2>1. UNCHANGED <<prev, phase>>
    BY <1>5 DEF ForwardTask, WriteFrame, WriteFails, WriteClose, ClientGone,
      Redelivery, RedeliverLookUp, RedeliverSend, RedeliverDelete, Expire,
      ConsumerLapses, vars, taskVars
  <2>2. QED
    BY <2>1 DEF PrevIsReplacing
<1>6. QED
  BY <1>1, <1>2, <1>3, <1>4, <1>5 DEF Next, Environment

(* A close frame stays in a channel until the forward task comes to it.     *)
LEMMA PushKeeps ==
  ASSUME NEW ch \in [Conns -> Seq(Frame)], NEW d \in Conns, NEW f \in Frame,
         NEW c \in Conns
  PROVE  Frames(ch[c]) \subseteq Frames(Push(ch, d, f)[c])
<1>1. CASE c = d
  BY <1>1, AppendFrames DEF Push
<1>2. CASE c # d
  BY <1>2 DEF Push
<1>3. QED
  BY <1>1, <1>2

(* A reply, and the message the live path pushes before it, leave what is   *)
(* in the channels where it is.                                            *)
LEMMA ReplyKeeps ==
  ASSUME NEW ch \in [Conns -> Seq(Frame)], NEW d \in Conns, NEW m \in Msgs,
         NEW v \in Verdicts, Reply(d, m, v, ch), NEW c \in Conns
  PROVE  Frames(ch[c]) \subseteq Frames(chan'[c])
<1>1. Answer(m, v) \in Frame
  BY FrameTypes
<1>2. chan' = Push(ch, d, Answer(m, v)) \/ chan' = ch
  BY DEF Reply
<1>3. QED
  BY <1>1, <1>2, PushKeeps

(* What no step takes from a channel: a close frame stays in it until the   *)
(* forward task or the handler gives the channel up, and a handler forgets  *)
(* its previous connection only after it told it.                          *)
LEMMA ToldNext ==
  ASSUME TypeInv, TypeInv', PrevIsReplacing, [Next]_vars, NEW c \in Conns,
         phase[c] # "idle", Told(c)
  PROVE  Told(c)'
<1> USE RelayAssumption DEF TypeInv, TypeOK, HoldsWhatItUses, ChannelOpen
<1>1. CASE rx'[c] # "open"
  BY <1>1 DEF Told
<1>2. ASSUME UNCHANGED <<rx, prev>>, Frames(chan[c]) \subseteq Frames(chan'[c])
      PROVE  Told(c)'
  BY <1>2 DEF Told
<1>3. ASSUME NEW d \in Conns, Register(d) PROVE Told(c)'
  <2>1. c # d /\ prev[d] = None
    BY <1>3 DEF Register, PrevIsReplacing
  <2>2. rx'[c] = rx[c] /\ chan' = chan
    BY <1>3, <2>1 DEF Register
  <2>3. ASSUME NEW e \in Conns, prev[e] = c PROVE prev'[e] = c
    BY <1>3, <2>1, <2>3 DEF Register
  <2>4. QED
    BY <2>2, <2>3 DEF Told
<1>4. ASSUME NEW d \in Conns, ReplacePrevious(d) PROVE Told(c)'
  <2>1. prev[d] \in Conns /\ Close \in Frame
    BY <1>4, FrameTypes DEF ReplacePrevious, Frame
  <2>2. Frames(chan[c]) \subseteq Frames(chan'[c]) /\ rx' = rx
    BY <1>4, <2>1, PushKeeps DEF ReplacePrevious
  <2>3. CASE prev[d] = c /\ ChannelOpen(c)
    <3>1. chan'[c] = Append(chan[c], Close)
      BY <1>4, <2>3 DEF ReplacePrevious, Push
    <3>2. Close \in Frames(chan'[c])
      BY <2>1, <3>1, AppendFrames
    <3>3. QED
      BY <3>2 DEF Told
  <2>4. CASE ~ChannelOpen(c)
    BY <2>2, <2>4 DEF Told
  <2>5. CASE prev[d] # c
    <3>1. ASSUME NEW e \in Conns, prev[e] = c PROVE prev'[e] = c
      BY <1>4, <2>5, <3>1 DEF ReplacePrevious
    <3>2. QED
      BY <2>2, <3>1 DEF Told
  <2>6. QED
    BY <2>3, <2>4, <2>5
<1>5. ASSUME NEW d \in Conns,
             \/ SendLive(d) \/ NotAContact(d) \/ Queued(d) \/ QueueUnavailable(d)
             \/ \E m \in Msgs : ReceiveMalformed(d, m)
      PROVE  Told(c)'
  <2>1. UNCHANGED <<rx, prev>>
    BY <1>5 DEF SendLive, NotAContact, Queued, QueueUnavailable, ReceiveMalformed
  <2>2. CASE SendLive(d)
    <3>1. cur[d] \in Msgs /\ peer[d] \in Conns
      BY <2>2 DEF SendLive, Handling
    <3>2. Push(chan, peer[d], Message(cur[d])) \in [Conns -> Seq(Frame)]
      BY <3>1, PushType, FrameTypes
    <3>3. Frames(chan[c]) \subseteq Frames(Push(chan, peer[d], Message(cur[d]))[c])
      BY <3>1, PushKeeps, FrameTypes
    <3>4. Frames(Push(chan, peer[d], Message(cur[d]))[c]) \subseteq Frames(chan'[c])
      BY <2>2, <3>1, <3>2, ReplyKeeps DEF SendLive, Verdicts
    <3>5. QED
      BY <1>2, <2>1, <3>3, <3>4
  <2>3. CASE NotAContact(d) \/ Queued(d) \/ QueueUnavailable(d)
    <3>1. cur[d] \in Msgs
      BY <2>3 DEF NotAContact, Queued, QueueUnavailable, Handling
    <3>2. \E v \in Verdicts : Reply(d, cur[d], v, chan)
      BY <2>3 DEF NotAContact, Queued, QueueUnavailable, Verdicts
    <3>3. QED
      BY <1>2, <2>1, <3>1, <3>2, ReplyKeeps
  <2>4. ASSUME NEW m \in Msgs, ReceiveMalformed(d, m) PROVE Told(c)'
    <3>1. Frames(chan[c]) \subseteq Frames(chan'[c])
      BY <2>4, ReplyKeeps DEF ReceiveMalformed, Verdicts
    <3>2. QED
      BY <1>2, <2>1, <3>1
  <2>5. QED
    BY <1>5, <2>2, <2>3, <2>4
<1>6. ASSUME NEW d \in Conns, ForwardQueued(d) PROVE Told(c)'
  <2>1. \E m \in Msgs : chan' = Push(chan, d, Message(m))
    BY <1>6 DEF ForwardQueued
  <2>2. UNCHANGED <<rx, prev>>
    BY <1>6 DEF ForwardQueued
  <2>3. QED
    BY <1>2, <2>1, <2>2, PushKeeps, FrameTypes
<1>7. ASSUME NEW m \in Msgs, RedeliverSend(m) PROVE Told(c)'
  <2>1. redoPeer[m] \in Conns
    BY <1>7 DEF RedeliverSend
  <2>2. chan' = Push(chan, redoPeer[m], Message(m)) \/ chan' = chan
    BY <1>7 DEF RedeliverSend
  <2>3. UNCHANGED <<rx, prev>>
    BY <1>7 DEF RedeliverSend, taskVars
  <2>4. Frames(chan[c]) \subseteq Frames(chan'[c])
    BY <2>1, <2>2, PushKeeps, FrameTypes
  <2>5. QED
    BY <1>2, <2>3, <2>4
<1>8. ASSUME NEW d \in Conns, WriteFrame(d) PROVE Told(c)'
  <2>1. /\ chan[d] # <<>> /\ Head(chan[d]) # Close
        /\ chan' = [chan EXCEPT ![d] = Tail(@)]
        /\ UNCHANGED <<rx, prev>>
    BY <1>8 DEF WriteFrame, ForwardNext, taskVars
  <2>2. Frames(chan[d]) = Frames(chan'[d]) \cup {Head(chan[d])}
    BY <2>1, TailFrames
  <2>3. Close \in Frames(chan[c]) => Close \in Frames(chan'[c])
    <3>1. CASE c = d
      BY <2>1, <2>2, <3>1
    <3>2. CASE c # d
      BY <2>1, <3>2
    <3>3. QED
      BY <3>1, <3>2
  <2>4. QED
    BY <2>1, <2>3 DEF Told
<1>9. ASSUME NEW d \in Conns, WriteFails(d) \/ WriteClose(d) \/ CleanUp(d)
      PROVE  Told(c)'
  <2>1. DropReceiver(d) /\ UNCHANGED prev
    BY <1>9 DEF WriteFails, WriteClose, CleanUp, taskVars
  <2>2. CASE c = d
    BY <1>1, <2>1, <2>2 DEF DropReceiver
  <2>3. CASE c # d
    BY <1>2, <2>1, <2>3 DEF DropReceiver, Told
  <2>4. QED
    BY <2>2, <2>3
<1>10. CASE Crash
  BY <1>1, <1>10 DEF Crash
<1>11. ASSUME \/ \E d \in Conns :
                  \/ Quiet(d) /\ ~Register(d)
                  \/ \E m \in Msgs : ReceiveSend(d, m)
                  \/ AckQueued(d) \/ Publish(d)
              \/ \E m \in Msgs : RedeliverLookUp(m) \/ RedeliverDelete(m) \/ Expire(m)
              \/ (\E u \in Users : ConsumerLapses(u)) \/ UNCHANGED vars
       PROVE  Told(c)'
  <2>1. UNCHANGED <<rx, prev, chan>>
    BY <1>11 DEF Quiet, CreateConsumer, ConsumerRefused, Fetch, FetchFailed,
      CatchUpDone, CatchUpAborted, IsContact, LookUpRecipient, RecipientVanished,
      PublishFailed, LeaveLoop, ClientGone, Move, ReceiveSend, AckQueued, Publish,
      RedeliverLookUp, RedeliverDelete, Expire, ConsumerLapses, vars, taskVars
  <2>2. QED
    BY <1>2, <2>1
<1>12. QED
  BY <1>3, <1>4, <1>5, <1>6, <1>7, <1>8, <1>9, <1>10, <1>11, StepKinds

(* A connection leaves the registry by its own cleanup or because a newer   *)
(* one took its place, which then knows it.                                *)
LEMMA ForgottenNext ==
  ASSUME TypeInv, TypeInv', PrevIsReplacing, NoConnectionForgotten, [Next]_vars
  PROVE  NoConnectionForgotten'
<1> SUFFICES ASSUME NEW c \in Conns, phase'[c] \notin {"idle"} \cup Ending
             PROVE  registry'[Owner[c]] = c \/ Told(c)'
  BY DEF NoConnectionForgotten, Told
<1> USE RelayAssumption DEF TypeInv, TypeOK, Ending, Goto
<1>1. CASE Register(c)
  BY <1>1 DEF Register
<1>2. CASE ~Register(c)
  <2>1. phase[c] \notin {"idle"} \cup Ending
    <3>1. ASSUME NEW d \in Conns, Handler(d) \/ Receive(d)
          PROVE  phase[c] \notin {"idle"} \cup Ending
      BY <3>1 DEF Handler, Receive, ReplacePrevious, CreateConsumer, ConsumerRefused,
        Fetch, FetchFailed, ForwardQueued, AckQueued, CatchUpDone, CatchUpAborted,
        IsContact, NotAContact, LookUpRecipient, SendLive, RecipientVanished, Publish,
        PublishFailed, Queued, QueueUnavailable, LeaveLoop, CleanUp, Move, Reply,
        ReceiveMalformed, ReceiveSend
    <3>2. ASSUME NEW d \in Conns, Register(d)
          PROVE  phase[c] \notin {"idle"} \cup Ending
      <4>1. d # c
        BY <1>2, <3>2
      <4>2. phase'[c] = phase[c]
        BY <3>2, <4>1 DEF Register
      <4>3. QED
        BY <4>2
    <3>3. ~Crash
      BY DEF Crash
    <3>4. ASSUME \/ \E d \in Conns : ForwardTask(d) \/ ClientGone(d)
                 \/ \E m \in Msgs : Redelivery(m) \/ Expire(m)
                 \/ \E u \in Users : ConsumerLapses(u)
                 \/ UNCHANGED vars
          PROVE  UNCHANGED phase
      BY <3>4 DEF ForwardTask, WriteFrame, WriteFails, WriteClose, ClientGone,
        Redelivery, RedeliverLookUp, RedeliverSend, RedeliverDelete, Expire,
        ConsumerLapses, vars, taskVars
    <3>5. QED
      BY <3>1, <3>2, <3>3, <3>4 DEF Next, Environment
  <2>2. CASE Told(c)
    BY <2>1, <2>2, ToldNext
  <2>3. CASE ~Told(c)
    <3>1. registry[Owner[c]] = c
      BY <2>1, <2>3 DEF NoConnectionForgotten, Told
    <3>2. ASSUME NEW d \in Conns, Register(d)
          PROVE  registry'[Owner[c]] = c \/ Told(c)'
      <4>1. CASE Owner[d] = Owner[c]
        <5>1. prev'[d] = c
          BY <3>1, <3>2, <4>1 DEF Register
        <5>2. QED
          BY <5>1 DEF Told
      <4>2. CASE Owner[d] # Owner[c]
        BY <3>1, <3>2, <4>2 DEF Register
      <4>3. QED
        BY <4>1, <4>2
    <3>3. ASSUME NEW d \in Conns, CleanUp(d) PROVE registry'[Owner[c]] = c
      <4>1. d # c
        BY <3>3 DEF CleanUp
      <4>2. QED
        BY <3>1, <3>3, <4>1 DEF CleanUp, RemoveIfCurrent
    <3>4. ASSUME NEW d \in Conns, Handler(d) \/ Receive(d), ~CleanUp(d)
          PROVE  UNCHANGED registry
      BY <3>4 DEF Handler, Receive, ReplacePrevious, CreateConsumer, ConsumerRefused,
        Fetch, FetchFailed, ForwardQueued, AckQueued, CatchUpDone, CatchUpAborted,
        IsContact, NotAContact, LookUpRecipient, SendLive, RecipientVanished, Publish,
        PublishFailed, Queued, QueueUnavailable, LeaveLoop, Move, ReceiveMalformed,
        ReceiveSend
    <3>5. ASSUME \/ \E d \in Conns : ForwardTask(d) \/ ClientGone(d)
                 \/ \E m \in Msgs : Redelivery(m) \/ Expire(m)
                 \/ \E u \in Users : ConsumerLapses(u)
                 \/ UNCHANGED vars
          PROVE  UNCHANGED registry
      BY <3>5 DEF ForwardTask, WriteFrame, WriteFails, WriteClose, ClientGone,
        Redelivery, RedeliverLookUp, RedeliverSend, RedeliverDelete, Expire,
        ConsumerLapses, vars
    <3>6. ~Crash
      BY DEF Crash
    <3>7. QED
      BY <3>1, <3>2, <3>3, <3>4, <3>5, <3>6 DEF Next, Environment
  <2>4. QED
    BY <2>2, <2>3
<1>3. QED
  BY <1>1, <1>2

(* A running connection is in the registry, or was told, or is about to be  *)
(* told, that a newer one took its place (registry.rs, remove_if_current).  *)
THEOREM NoConnectionIsForgotten == Spec => []NoConnectionForgotten
<1>1. Init => PrevIsReplacing /\ NoConnectionForgotten
  BY RelayAssumption DEF Init, PrevIsReplacing, NoConnectionForgotten, Ending
<1>2. TypeInv /\ TypeInv' /\ PrevIsReplacing /\ NoConnectionForgotten /\ [Next]_vars
        => PrevIsReplacing' /\ NoConnectionForgotten'
  BY PrevNext, ForgottenNext
<1>3. QED
  BY <1>1, <1>2, InductiveInvariant, PTL DEF Spec
----------------------------------------------------------------------------
(* Only what was replaced is closed.                                        *)

(* c has been told to close, or a newer connection is about to tell it.     *)
ToBeClosed(c) == Close \in Frames(chan[c]) \/ \E d \in Conns : prev[d] = c

(* Such a connection has registered once, and the registry no longer names  *)
(* it: nothing puts it back.                                               *)
ClosesReplaced ==
  \A c \in Conns : ToBeClosed(c) => phase[c] # "idle" /\ registry[Owner[c]] # c

(* Pushing another frame puts no close frame into any channel.              *)
LEMMA PushNoClose ==
  ASSUME NEW ch \in [Conns -> Seq(Frame)], NEW d \in Conns,
         NEW f \in Frame \ {Close}, NEW c \in Conns,
         Close \in Frames(Push(ch, d, f)[c])
  PROVE  Close \in Frames(ch[c])
<1>1. CASE c = d
  BY <1>1, AppendFrames DEF Push
<1>2. CASE c # d
  BY <1>2 DEF Push
<1>3. QED
  BY <1>1, <1>2

(* A message or an answer is not a close frame.                            *)
LEMMA NotClose ==
  ASSUME NEW m \in Msgs
  PROVE  /\ Message(m) \in Frame \ {Close}
         /\ \A v \in Verdicts : Answer(m, v) \in Frame \ {Close}
<1>1. ASSUME NEW v \in Verdicts PROVE Answer(m, v) # Close
  <2>1. Answer(m, v).type = v /\ Close.type = "close"
    BY DEF Answer, Close
  <2>2. v # "close"
    BY DEF Verdicts
  <2>3. QED
    BY <2>1, <2>2
<1>2. QED
  BY <1>1, FrameTypes, NoMessageInAnswer

(* An answer puts no close frame into any channel either.                   *)
LEMMA ReplyNoClose ==
  ASSUME NEW ch \in [Conns -> Seq(Frame)], NEW d \in Conns, NEW m \in Msgs,
         NEW v \in Verdicts, Reply(d, m, v, ch), NEW c \in Conns,
         Close \in Frames(chan'[c])
  PROVE  Close \in Frames(ch[c])
<1>1. chan' = Push(ch, d, Answer(m, v)) \/ chan' = ch
  BY DEF Reply
<1>2. Answer(m, v) \in Frame \ {Close}
  BY NotClose
<1>3. QED
  BY <1>1, <1>2, PushNoClose

(* A close frame gets into the channel of c only from a handler that        *)
(* registry.insert told of c.                                              *)
LEMMA CloseIsKnown ==
  ASSUME TypeInv, [Next]_vars, NEW c \in Conns, Close \in Frames(chan'[c])
  PROVE  ToBeClosed(c)
<1> USE DEF TypeInv, TypeOK, HoldsWhatItUses
<1>1. CASE UNCHANGED chan
  BY <1>1 DEF ToBeClosed
<1>2. ASSUME NEW d \in Conns, ReplacePrevious(d) PROVE ToBeClosed(c)
  <2>1. CASE prev[d] = c
    BY <2>1 DEF ToBeClosed
  <2>2. CASE prev[d] # c
    <3>1. chan'[c] = chan[c]
      BY <1>2, <2>2 DEF ReplacePrevious, Push
    <3>2. QED
      BY <3>1 DEF ToBeClosed
  <2>3. QED
    BY <2>1, <2>2
<1>3. ASSUME NEW d \in Conns, SendLive(d) PROVE ToBeClosed(c)
  <2>1. cur[d] \in Msgs /\ peer[d] \in Conns
    BY <1>3 DEF SendLive, Handling
  <2>2. Push(chan, peer[d], Message(cur[d])) \in [Conns -> Seq(Frame)]
    BY <2>1, PushType, FrameTypes
  <2>3. Close \in Frames(Push(chan, peer[d], Message(cur[d]))[c])
    BY <1>3, <2>1, <2>2, ReplyNoClose DEF SendLive, Verdicts
  <2>4. Close \in Frames(chan[c])
    BY <2>1, <2>3, PushNoClose, NotClose
  <2>5. QED
    BY <2>4 DEF ToBeClosed
<1>4. ASSUME NEW d \in Conns, NotAContact(d) \/ Queued(d) \/ QueueUnavailable(d)
      PROVE  ToBeClosed(c)
  <2>1. cur[d] \in Msgs
    BY <1>4 DEF NotAContact, Queued, QueueUnavailable, Handling
  <2>2. \E v \in Verdicts : Reply(d, cur[d], v, chan)
    BY <1>4 DEF NotAContact, Queued, QueueUnavailable, Verdicts
  <2>3. Close \in Frames(chan[c])
    BY <2>1, <2>2, ReplyNoClose
  <2>4. QED
    BY <2>3 DEF ToBeClosed
<1>5. ASSUME NEW d \in Conns, NEW m \in Msgs, ReceiveMalformed(d, m)
      PROVE  ToBeClosed(c)
  <2>1. Close \in Frames(chan[c])
    BY <1>5, ReplyNoClose DEF ReceiveMalformed, Verdicts
  <2>2. QED
    BY <2>1 DEF ToBeClosed
<1>6. ASSUME NEW d \in Conns, NEW m \in Msgs, chan' = Push(chan, d, Message(m))
      PROVE  ToBeClosed(c)
  <2>1. Close \in Frames(chan[c])
    BY <1>6, PushNoClose, NotClose
  <2>2. QED
    BY <2>1 DEF ToBeClosed
<1>7. ASSUME NEW d \in Conns, ForwardQueued(d) PROVE ToBeClosed(c)
  BY <1>6, <1>7 DEF ForwardQueued
<1>8. ASSUME NEW m \in Msgs, RedeliverSend(m) PROVE ToBeClosed(c)
  BY <1>1, <1>6, <1>8 DEF RedeliverSend
<1>9. ASSUME NEW d \in Conns, WriteFrame(d) PROVE ToBeClosed(c)
  <2>1. chan[d] # <<>> /\ chan' = [chan EXCEPT ![d] = Tail(@)]
    BY <1>9 DEF WriteFrame, ForwardNext
  <2>2. Frames(chan'[c]) \subseteq Frames(chan[c])
    BY <2>1, TailFrames
  <2>3. QED
    BY <2>2 DEF ToBeClosed
<1>10. ASSUME NEW d \in Conns, WriteFails(d) \/ WriteClose(d) \/ CleanUp(d)
       PROVE  ToBeClosed(c)
  <2>1. chan' = [chan EXCEPT ![d] = <<>>]
    BY <1>10 DEF WriteFails, WriteClose, CleanUp, DropReceiver
  <2>2. c # d /\ chan'[c] = chan[c]
    BY <2>1 DEF Frames
  <2>3. QED
    BY <2>2 DEF ToBeClosed
<1>11. ~Crash
  BY DEF Crash, Frames
<1>12. ASSUME \/ \E d \in Conns :
                   \/ Quiet(d)
                   \/ \E m \in Msgs : ReceiveSend(d, m)
                   \/ AckQueued(d) \/ Publish(d)
              \/ \E m \in Msgs : RedeliverLookUp(m) \/ RedeliverDelete(m) \/ Expire(m)
              \/ (\E u \in Users : ConsumerLapses(u)) \/ UNCHANGED vars
       PROVE  ToBeClosed(c)
  <2>1. UNCHANGED chan
    BY <1>12, QuietEffect DEF ReceiveSend, AckQueued, Publish, RedeliverLookUp,
      RedeliverDelete, Expire, ConsumerLapses, vars
  <2>2. QED
    BY <1>1, <2>1
<1>13. QED
  BY <1>2, <1>3, <1>4, <1>5, <1>7, <1>8, <1>9, <1>10, <1>11, <1>12, StepKinds

(* No step but a registration puts a connection into the registry, tells a  *)
(* handler of a previous one, or has anything to do with an unused one.     *)
LEMMA OnlyRegisterNames ==
  ASSUME TypeInv, [Next]_vars, \A d \in Conns : ~Register(d)
  PROVE  /\ \A u \in Users : registry'[u] \in {registry[u], None}
         /\ \A d \in Conns : /\ prev'[d] \in {prev[d], None}
                             /\ phase'[d] = "idle" => phase[d] = "idle"
<1> USE RelayAssumption DEF TypeInv, TypeOK, Goto
<1> DEFINE Goal == /\ \A u \in Users : registry'[u] \in {registry[u], None}
                   /\ \A d \in Conns : /\ prev'[d] \in {prev[d], None}
                                       /\ phase'[d] = "idle" => phase[d] = "idle"
<1>1. ASSUME NEW c \in Conns, CleanUp(c) PROVE Goal
  BY <1>1 DEF CleanUp, RemoveIfCurrent
<1>2. ASSUME NEW c \in Conns, ReplacePrevious(c) PROVE Goal
  BY <1>2 DEF ReplacePrevious
<1>3. ASSUME NEW c \in Conns, Handler(c) \/ Receive(c), ~CleanUp(c), ~ReplacePrevious(c)
      PROVE  Goal
  <2>1. UNCHANGED <<registry, prev>>
    BY <1>3 DEF Handler, Receive, CreateConsumer, ConsumerRefused, Fetch,
      FetchFailed, ForwardQueued, AckQueued, CatchUpDone, CatchUpAborted, IsContact,
      NotAContact, LookUpRecipient, SendLive, RecipientVanished, Publish,
      PublishFailed, Queued, QueueUnavailable, LeaveLoop, Move, ReceiveMalformed,
      ReceiveSend
  <2>2. \A d \in Conns : phase'[d] = "idle" => phase[d] = "idle"
    BY <1>3 DEF Handler, Receive, CreateConsumer, ConsumerRefused, Fetch,
      FetchFailed, ForwardQueued, AckQueued, CatchUpDone, CatchUpAborted, IsContact,
      NotAContact, LookUpRecipient, SendLive, RecipientVanished, Publish,
      PublishFailed, Queued, QueueUnavailable, LeaveLoop, Move, Reply,
      ReceiveMalformed, ReceiveSend
  <2>3. QED
    BY <2>1, <2>2
<1>4. ASSUME Crash PROVE Goal
  BY <1>4 DEF Crash
<1>5. ASSUME \/ \E c \in Conns : ForwardTask(c) \/ ClientGone(c)
             \/ \E m \in Msgs : Redelivery(m) \/ Expire(m)
             \/ \E u \in Users : ConsumerLapses(u)
             \/ UNCHANGED vars
      PROVE  Goal
  <2>1. UNCHANGED <<registry, prev, phase>>
    BY <1>5 DEF ForwardTask, WriteFrame, WriteFails, WriteClose, ClientGone,
      Redelivery, RedeliverLookUp, RedeliverSend, RedeliverDelete, Expire,
      ConsumerLapses, vars, taskVars
  <2>2. QED
    BY <2>1
<1> HIDE DEF Goal, TypeInv, TypeOK, Goto
<1>6. Goal
  BY <1>1, <1>2, <1>3, <1>4, <1>5 DEF Next, Environment
<1>7. QED
  BY <1>6 DEF Goal

(* A connection is marked for closing by the registration that takes its    *)
(* place, and no registration brings it back.                              *)
LEMMA ClosesReplacedNext ==
  ASSUME TypeInv, RegisteredIsRunning, ClosesReplaced, [Next]_vars
  PROVE  ClosesReplaced'
<1> SUFFICES ASSUME NEW c \in Conns, ToBeClosed(c)'
             PROVE  phase'[c] # "idle" /\ registry'[Owner[c]] # c
  BY DEF ClosesReplaced
<1> USE RelayAssumption DEF TypeInv, TypeOK, Goto
<1>1. Close \in Frames(chan'[c]) => ToBeClosed(c)
  BY CloseIsKnown
<1>2. ASSUME NEW d \in Conns, Register(d)
      PROVE  phase'[c] # "idle" /\ registry'[Owner[c]] # c
  <2>1. CASE ToBeClosed(c)
    <3>1. phase[c] # "idle" /\ registry[Owner[c]] # c /\ c # d
      BY <1>2, <2>1 DEF ClosesReplaced, Register
    <3>2. QED
      BY <1>2, <3>1 DEF Register
  <2>2. CASE ~ToBeClosed(c)
    <3>1. PICK e \in Conns : prev'[e] = c
      BY <1>1, <2>2 DEF ToBeClosed
    <3>2. e = d /\ registry[Owner[d]] = c
      BY <1>2, <2>2, <3>1 DEF Register, ToBeClosed
    <3>3. Owner[c] = Owner[d] /\ phase[c] # "idle" /\ c # d
      BY <1>2, <3>2 DEF RegisteredIsRunning, Register
    <3>4. QED
      BY <1>2, <3>3 DEF Register
  <2>3. QED
    BY <2>1, <2>2
<1>3. CASE \A d \in Conns : ~Register(d)
  <2>1. ToBeClosed(c)
    BY <1>1, <1>3, OnlyRegisterNames DEF ToBeClosed
  <2>2. phase[c] # "idle" /\ registry[Owner[c]] # c
    BY <2>1 DEF ClosesReplaced
  <2>3. QED
    BY <1>3, <2>2, OnlyRegisterNames
<1>4. QED
  BY <1>2, <1>3

(* However many connections of a user displace each other, the one that the *)
(* registry names is never told to close (ws.rs:100, quic.rs:287).          *)
THEOREM CurrentIsNeverClosed == Spec => []OnlyReplacedIsClosed
<1>1. Init => ClosesReplaced
  BY RelayAssumption DEF Init, ClosesReplaced, ToBeClosed, Frames
<1>2. TypeInv /\ DeliveryInv /\ ClosesReplaced /\ [Next]_vars => ClosesReplaced'
  BY ClosesReplacedNext DEF DeliveryInv
<1>3. ClosesReplaced => OnlyReplacedIsClosed
  BY DEF ClosesReplaced, ToBeClosed, OnlyReplacedIsClosed
<1>4. QED
  BY <1>1, <1>2, <1>3, InductiveInvariant, PTL DEF Spec
----------------------------------------------------------------------------
(* The live path and the queue exclude each other.                         *)

(* A message that was pushed and never published has its ack: handle_send  *)
(* answers in the step that pushes, and the other two tasks that push work  *)
(* on what was published.                                                  *)
PushedLiveIsAcked ==
  \A m \in Msgs : handed[m] # {} /\ seqOf[m] = 0 => verdict[m] = "ack"

LEMMA LiveNext ==
  ASSUME TypeInv, DeliveryInv, AccountInv, PushedLiveIsAcked, [Next]_vars
  PROVE  /\ PushedLiveIsAcked'
         /\ \A m \in Msgs : handed[m] # {} /\ seqOf[m] = 0 => seqOf'[m] = 0
<1> DEFINE Goal == /\ PushedLiveIsAcked'
                   /\ \A m \in Msgs : handed[m] # {} /\ seqOf[m] = 0 => seqOf'[m] = 0
<1>1. /\ handed \in [Msgs -> SUBSET Conns]
      /\ verdict \in [Msgs -> {"unsent", "pending"} \cup Verdicts]
      /\ seqOf \in [Msgs -> Nat]
  BY DEF TypeInv, TypeOK
<1>2. \A c \in Conns : cur[c] \in Msgs =>
        verdict[cur[c]] = "pending" /\ (handed[cur[c]] = {} \/ seqOf[cur[c]] # 0)
  <2>1. \A c \in Conns : cur[c] \in Msgs => verdict[cur[c]] = "pending"
    BY DEF DeliveryInv, OneHandler
  <2>2. QED
    BY <2>1 DEF PushedLiveIsAcked
<1>3. ASSUME NEW c \in Conns, Publish(c) PROVE Goal
  <2>1. cur[c] \in Msgs /\ seqOf[cur[c]] = 0
    BY <1>3 DEF Publish, TypeInv, HoldsWhatItUses, Handling, DeliveryInv, OneHandler
  <2>2. handed[cur[c]] = {}
    BY <1>2, <2>1
  <2>3. UNCHANGED <<handed, verdict>> /\ seqOf' = [seqOf EXCEPT ![cur[c]] = lastSeq + 1]
    BY <1>3 DEF Publish, pastVars
  <2>4. \A m \in Msgs \ {cur[c]} : seqOf'[m] = seqOf[m]
    BY <1>1, <2>3
  <2>5. QED
    BY <2>2, <2>3, <2>4 DEF PushedLiveIsAcked
<1>4. ASSUME NEW c \in Conns, SendLive(c) PROVE Goal
  <2>1. cur[c] \in Msgs
    BY <1>4 DEF SendLive, TypeInv, HoldsWhatItUses, Handling
  <2>2. /\ handed' = [handed EXCEPT ![cur[c]] = @ \cup {peer[c]}]
        /\ verdict' = [verdict EXCEPT ![cur[c]] = "ack"]
        /\ UNCHANGED seqOf
    BY <1>4 DEF SendLive, Reply, streamVars
  <2>3. verdict'[cur[c]] = "ack"
    BY <1>1, <2>1, <2>2
  <2>4. \A m \in Msgs \ {cur[c]} : handed'[m] = handed[m] /\ verdict'[m] = verdict[m]
    BY <1>1, <2>2
  <2>5. QED
    BY <2>2, <2>3, <2>4 DEF PushedLiveIsAcked
<1>5. ASSUME NEW m \in Msgs, NEW d, seqOf[m] # 0, UNCHANGED <<seqOf, verdict>>,
             handed' = [handed EXCEPT ![m] = @ \cup {d}]
      PROVE  Goal
  <2>1. \A n \in Msgs \ {m} : handed'[n] = handed[n]
    BY <1>1, <1>5
  <2>2. QED
    BY <1>5, <2>1 DEF PushedLiveIsAcked
<1>6. ASSUME NEW c \in Conns, ForwardQueued(c) PROVE Goal
  <2>1. PICK m \in batch[c] : m \in Msgs /\ handed' = [handed EXCEPT ![m] = @ \cup {c}]
    BY <1>6 DEF ForwardQueued, IsFirst
  <2>2. seqOf[m] # 0
    BY <2>1 DEF DeliveryInv, StreamOrder
  <2>3. UNCHANGED <<seqOf, verdict>>
    BY <1>6 DEF ForwardQueued, streamVars
  <2>4. QED
    BY <1>5, <2>1, <2>2, <2>3
<1>7. ASSUME UNCHANGED <<handed, seqOf, verdict>> PROVE Goal
  BY <1>7 DEF PushedLiveIsAcked
<1>8. ASSUME NEW m \in Msgs, RedeliverSend(m) PROVE Goal
  <2>1. redo[m] = "sending" /\ UNCHANGED <<seqOf, verdict>>
    BY <1>8, RedeliverEffect
  <2>2. seqOf[m] # 0
    BY <2>1 DEF AccountInv, RedeliversWhatWasPublished
  <2>3. UNCHANGED handed \/ \E d \in Conns : handed' = [handed EXCEPT ![m] = @ \cup {d}]
    BY <1>8, RedeliverEffect
  <2>4. QED
    BY <1>5, <1>7, <2>1, <2>2, <2>3
<1>9. ASSUME NEW m \in Msgs, NEW v, verdict' = [verdict EXCEPT ![m] = v],
             verdict[m] # "ack", UNCHANGED <<handed, seqOf>>
      PROVE  Goal
  <2>1. \A n \in Msgs \ {m} : verdict'[n] = verdict[n]
    BY <1>1, <1>9
  <2>2. handed[m] = {} \/ seqOf[m] # 0
    BY <1>9 DEF PushedLiveIsAcked
  <2>3. QED
    BY <1>9, <2>1, <2>2 DEF PushedLiveIsAcked
<1>10. ASSUME NEW c \in Conns, NotAContact(c) \/ Queued(c) \/ QueueUnavailable(c)
       PROVE  Goal
  <2>1. cur[c] \in Msgs
    BY <1>10 DEF NotAContact, Queued, QueueUnavailable, TypeInv, HoldsWhatItUses, Handling
  <2>2. \E v \in Verdicts : verdict' = [verdict EXCEPT ![cur[c]] = v]
    BY <1>10 DEF NotAContact, Queued, QueueUnavailable, Reply, Verdicts
  <2>3. UNCHANGED <<handed, seqOf>>
    BY <1>10 DEF NotAContact, Queued, QueueUnavailable, streamVars, pastVars
  <2>4. verdict[cur[c]] # "ack"
    BY <1>2, <2>1
  <2>5. QED
    BY <1>9, <2>1, <2>2, <2>3, <2>4
<1>11. ASSUME NEW c \in Conns, NEW m \in Msgs, ReceiveMalformed(c, m) \/ ReceiveSend(c, m)
       PROVE  Goal
  <2>1. \E v : verdict' = [verdict EXCEPT ![m] = v]
    BY <1>11 DEF ReceiveMalformed, ReceiveSend, Reply
  <2>2. verdict[m] # "ack" /\ UNCHANGED <<handed, seqOf>>
    BY <1>11 DEF ReceiveMalformed, ReceiveSend, streamVars, pastVars
  <2>3. QED
    BY <1>9, <2>1, <2>2
<1>12. ASSUME NEW c \in Conns, Quiet(c) PROVE Goal
  BY <1>7, <1>12, QuietEffect
<1>13. ASSUME NEW c \in Conns, ReplacePrevious(c) \/ AckQueued(c) \/ WriteFrame(c)
       PROVE  Goal
  <2>1. UNCHANGED <<handed, seqOf, verdict>>
    BY <1>13 DEF ReplacePrevious, AckQueued, WriteFrame, streamVars, pastVars
  <2>2. QED
    BY <1>7, <2>1
<1>14. ASSUME NEW m \in Msgs, RedeliverLookUp(m) \/ RedeliverDelete(m) \/ Expire(m)
       PROVE  Goal
  <2>1. UNCHANGED <<handed, seqOf, verdict>>
    BY <1>14 DEF RedeliverLookUp, RedeliverDelete, Expire, streamVars, pastVars
  <2>2. QED
    BY <1>7, <2>1
<1>15. ASSUME (\E c \in Conns : WriteFails(c) \/ WriteClose(c) \/ CleanUp(c)) \/ Crash
       PROVE  Goal
  BY <1>7, <1>15, DropEffect
<1>16. ASSUME (\E u \in Users : ConsumerLapses(u)) \/ UNCHANGED vars
       PROVE  Goal
  <2>1. UNCHANGED <<handed, seqOf, verdict>>
    BY <1>16 DEF ConsumerLapses, vars, streamVars, pastVars
  <2>2. QED
    BY <1>7, <2>1
<1> HIDE DEF Goal
<1>17. Goal
  BY <1>3, <1>4, <1>6, <1>8, <1>10, <1>11, <1>12, <1>13, <1>14, <1>15, <1>16, StepKinds
<1>18. QED
  BY <1>17 DEF Goal

(* What handle_send has pushed to a connected recipient is never published *)
(* to the recipient's queue afterwards (tests/ws.rs:776).                  *)
THEOREM LiveIsNeverQueued == Spec => LiveNeverQueued
<1>1. Init => PushedLiveIsAcked
  BY DEF Init, PushedLiveIsAcked
<1>2. TypeInv /\ DeliveryInv /\ AccountInv /\ PushedLiveIsAcked /\ [Next]_vars
        => /\ PushedLiveIsAcked'
           /\ [\A m \in Msgs : handed[m] # {} /\ seqOf[m] = 0 => seqOf'[m] = 0]_vars
  BY LiveNext
<1>3. QED
  BY <1>1, <1>2, AccountsAreKept, PTL DEF Spec, LiveNeverQueued
============================================================================
