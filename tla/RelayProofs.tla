---------------------------- MODULE RelayProofs ----------------------------
(***************************************************************************)
(* Theorems about the relay, for any users, connections and messages.      *)
(***************************************************************************)
EXTENDS RelayProperties, TLAPS

(* A task that works on a frame or on another connection holds it.         *)
HoldsWhatItUses ==
  /\ \A c \in Conns :
       /\ phase[c] = "replacing" => prev[c] \in Conns
       /\ phase[c] \in Handling => cur[c] \in Msgs
       /\ phase[c] = "sending" => peer[c] \in Conns
  /\ \A m \in Msgs : redo[m] \in {"sending", "deleting"} => redoPeer[m]
       \in Conns

TypeInv == TypeOK /\ HoldsWhatItUses

(* The three kinds of outbound frame (registry.rs, Frame) are Frames.       *)
LEMMA FrameTypes ==
  ASSUME NEW m \in Msgs
  PROVE  /\ Message(m) \in Frame
         /\ \A v \in Verdicts : Answer(m, v) \in Frame
         /\ Close \in Frame
  BY DEF Message, Answer, Close, Frame, Verdicts

(* Pushing a frame into a channel keeps the channels sequences of frames.   *)
LEMMA PushType ==
  ASSUME NEW ch \in [Conns -> Seq(Frame)], NEW c \in Conns, NEW f \in Frame
  PROVE  Push(ch, c, f) \in [Conns -> Seq(Frame)]
<1>1. Append(ch[c], f) \in Seq(Frame)
  OBVIOUS
<1>2. QED
  BY <1>1 DEF Push

(* What Reply does to the variables it changes.                            *)
Replied(c) ==
  /\ chan' \in [Conns -> Seq(Frame)]
  /\ verdict' \in [Msgs -> {"unsent", "pending"} \cup Verdicts]
  /\ cur' = [cur EXCEPT ![c] = None]
  /\ peer' = [peer EXCEPT ![c] = None]
  /\ phase' \in {[phase EXCEPT ![c] = "reading"],
                 [phase EXCEPT ![c] = "leaving"]}

(* Reply, the end of handle_send, keeps the types of what it assigns.       *)
LEMMA ReplyType ==
  ASSUME TypeInv, NEW c \in Conns, NEW m \in Msgs, NEW v \in Verdicts,
         NEW ch \in [Conns -> Seq(Frame)], Reply(c, m, v, ch)
  PROVE  Replied(c)
<1>1. Push(ch, c, Answer(m, v)) \in [Conns -> Seq(Frame)]
  BY FrameTypes, PushType
<1>2. chan' \in [Conns -> Seq(Frame)]
  BY <1>1 DEF Reply
<1>3. verdict' \in [Msgs -> {"unsent", "pending"} \cup Verdicts]
  BY DEF Reply, TypeInv, TypeOK
<1>4. QED
  BY <1>2, <1>3 DEF Reply, Goto, Replied

(* An action that ends in Reply keeps the types.                           *)
LEMMA RepliedTypes ==
  ASSUME TypeInv, NEW c \in Conns, Replied(c),
         UNCHANGED <<registry, prev, batch, rx, redoPeer, socket, crashes,
                     stored, seqOf, lastSeq, consumer, written, lost, expired,
                     caughtUp>>,
         handed' \in [Msgs -> SUBSET Conns],
         redo' \in [Msgs -> {"none", "spawned", "sending", "deleting", "done"}],
         \A m \in Msgs : redo'[m] \in {"sending", "deleting"} => redo'[m]
           = redo[m]
  PROVE  TypeInv'
<1> USE DEF TypeInv, TypeOK, HoldsWhatItUses, Phases, Starting, CatchUp,
  Handling, Ending
<1>1. /\ chan' \in [Conns -> Seq(Frame)]
      /\ verdict' \in [Msgs -> {"unsent", "pending"} \cup Verdicts]
      /\ cur' = [cur EXCEPT ![c] = None]
      /\ peer' = [peer EXCEPT ![c] = None]
  BY DEF Replied
<1>2. CASE phase' = [phase EXCEPT ![c] = "reading"]
  BY <1>1, <1>2
<1>3. CASE phase' = [phase EXCEPT ![c] = "leaving"]
  BY <1>1, <1>3
<1>4. QED
  BY <1>2, <1>3 DEF Replied

(* The type invariant is inductive: one step for each action of the relay.  *)
LEMMA TypeNext == TypeInv /\ [Next]_vars => TypeInv'
<1> SUFFICES ASSUME TypeInv, [Next]_vars PROVE TypeInv'
  OBVIOUS
<1> USE RelayAssumption DEF TypeInv, TypeOK, HoldsWhatItUses, Phases,
  Starting, CatchUp, Handling, Ending, Goto, redoVars, streamVars, pastVars,
  taskVars
<1>1. ASSUME NEW c \in Conns, Register(c) PROVE TypeInv'
  BY <1>1 DEF Register
<1>2. ASSUME NEW c \in Conns, ReplacePrevious(c) PROVE TypeInv'
  BY <1>2, PushType DEF ReplacePrevious, Close, Frame
<1>3. ASSUME NEW c \in Conns, CreateConsumer(c) PROVE TypeInv'
  BY <1>3 DEF CreateConsumer
<1>4. ASSUME NEW c \in Conns, ConsumerRefused(c) PROVE TypeInv'
  BY <1>4 DEF ConsumerRefused, Move
<1>5. ASSUME NEW c \in Conns, Fetch(c) PROVE TypeInv'
  BY <1>5 DEF Fetch, Oldest, Queue
<1>6. ASSUME NEW c \in Conns, ForwardQueued(c) PROVE TypeInv'
  <2>1. PICK m \in Msgs : /\ chan' = Push(chan, c, Message(m))
                          /\ handed' = [handed EXCEPT ![m] = @ \cup {c}]
    BY <1>6 DEF ForwardQueued
  <2>2. chan' \in [Conns -> Seq(Frame)]
    BY <2>1, PushType, FrameTypes
  <2>3. handed' \in [Msgs -> SUBSET Conns]
    BY <2>1
  <2>4. QED
    BY <1>6, <2>2, <2>3 DEF ForwardQueued
<1>7. ASSUME NEW c \in Conns, AckQueued(c) PROVE TypeInv'
  BY <1>7 DEF AckQueued
<1>8. ASSUME NEW c \in Conns, SendLive(c) PROVE TypeInv'
  <2>1. cur[c] \in Msgs /\ peer[c] \in Conns
    BY <1>8 DEF SendLive
  <2>2. Push(chan, peer[c], Message(cur[c])) \in [Conns -> Seq(Frame)]
    BY <2>1, PushType, FrameTypes
  <2>3. handed' \in [Msgs -> SUBSET Conns]
    BY <1>8, <2>1 DEF SendLive
  <2>4. Replied(c)
    BY <1>8, <2>1, <2>2, ReplyType DEF SendLive, Verdicts
  <2>5. /\ UNCHANGED <<registry, prev, batch, rx, redoPeer, socket, crashes,
             stored,
                      seqOf, lastSeq, consumer, written, lost, expired,
                        caughtUp>>
        /\ UNCHANGED redo
    BY <1>8 DEF SendLive
  <2>6. QED
    BY <2>3, <2>4, <2>5, RepliedTypes
<1>9. ASSUME NEW c \in Conns, Publish(c) PROVE TypeInv'
  <2>1. cur[c] \in Msgs
    BY <1>9 DEF Publish
  <2>2. stored' \subseteq Msgs /\ lastSeq' \in Nat /\ seqOf' \in [Msgs -> Nat]
    BY <1>9, <2>1 DEF Publish
  <2>3. phase' = [phase EXCEPT ![c] = "confirmed"]
        \/ phase' = [phase EXCEPT ![c] = "unconfirmed"]
    BY <1>9 DEF Publish
  <2>4. UNCHANGED <<registry, prev, cur, peer, batch, chan, rx, redo, redoPeer,
                   socket, verdict, crashes, consumer, handed, written, lost,
                   expired, caughtUp>>
    BY <1>9 DEF Publish
  <2>5. CASE phase' = [phase EXCEPT ![c] = "confirmed"]
    BY <2>1, <2>2, <2>4, <2>5
  <2>6. CASE phase' = [phase EXCEPT ![c] = "unconfirmed"]
    BY <2>1, <2>2, <2>4, <2>6
  <2>7. QED
    BY <2>3, <2>5, <2>6
<1>10. ASSUME NEW c \in Conns, WriteFrame(c) PROVE TypeInv'
  BY <1>10 DEF WriteFrame, ForwardNext
<1>11. ASSUME Crash PROVE TypeInv'
  BY <1>11 DEF Crash
<1>12. ASSUME NEW c \in Conns, FetchFailed(c) PROVE TypeInv'
  BY <1>12 DEF FetchFailed, Move
<1>13. ASSUME NEW c \in Conns, CatchUpDone(c) PROVE TypeInv'
  BY <1>13 DEF CatchUpDone, Move
<1>14. ASSUME NEW c \in Conns, CatchUpAborted(c) PROVE TypeInv'
  BY <1>14 DEF CatchUpAborted
<1>15. ASSUME NEW c \in Conns, IsContact(c) PROVE TypeInv'
  BY <1>15 DEF IsContact, Move
<1>16. ASSUME NEW c \in Conns, NotAContact(c) PROVE TypeInv'
  <2>1. cur[c] \in Msgs
    BY <1>16 DEF NotAContact
  <2>2. Replied(c)
    BY <1>16, <2>1, ReplyType DEF NotAContact, Verdicts
  <2>3. /\ UNCHANGED <<registry, prev, batch, rx, redoPeer, socket, crashes,
             stored,
                      seqOf, lastSeq, consumer, written, lost, expired,
                        caughtUp>>
         /\ UNCHANGED <<redo, handed>>
    BY <1>16 DEF NotAContact
  <2>4. QED
    BY <2>2, <2>3, RepliedTypes
<1>17. ASSUME NEW c \in Conns, LookUpRecipient(c) PROVE TypeInv'
  BY <1>17 DEF LookUpRecipient
<1>18. ASSUME NEW c \in Conns, RecipientVanished(c) PROVE TypeInv'
  BY <1>18 DEF RecipientVanished, Move
<1>19. ASSUME NEW c \in Conns, PublishFailed(c) PROVE TypeInv'
  BY <1>19 DEF PublishFailed, Move
<1>20. ASSUME NEW c \in Conns, Queued(c) PROVE TypeInv'
  <2>1. cur[c] \in Msgs
    BY <1>20 DEF Queued
  <2>2. Replied(c)
    BY <1>20, <2>1, ReplyType DEF Queued, Verdicts
  <2>3. /\ UNCHANGED <<registry, prev, batch, rx, redoPeer, socket, crashes,
             stored,
                      seqOf, lastSeq, consumer, written, lost, expired,
                        caughtUp>>
        /\ UNCHANGED handed
        /\ redo' = [redo EXCEPT ![cur[c]] = "spawned"]
    BY <1>20 DEF Queued
  <2>4. QED
    BY <2>1, <2>2, <2>3, RepliedTypes
<1>21. ASSUME NEW c \in Conns, QueueUnavailable(c) PROVE TypeInv'
  <2>1. cur[c] \in Msgs
    BY <1>21 DEF QueueUnavailable
  <2>2. Replied(c)
    BY <1>21, <2>1, ReplyType DEF QueueUnavailable, Verdicts
  <2>3. /\ UNCHANGED <<registry, prev, batch, rx, redoPeer, socket, crashes,
             stored,
                      seqOf, lastSeq, consumer, written, lost, expired,
                        caughtUp>>
         /\ UNCHANGED <<redo, handed>>
    BY <1>21 DEF QueueUnavailable
  <2>4. QED
    BY <2>2, <2>3, RepliedTypes
<1>22. ASSUME NEW c \in Conns, LeaveLoop(c) PROVE TypeInv'
  BY <1>22 DEF LeaveLoop, Move
<1>23. ASSUME NEW c \in Conns, CleanUp(c) PROVE TypeInv'
  BY <1>23 DEF CleanUp, RemoveIfCurrent, DropReceiver
<1>24. ASSUME NEW c \in Conns, WriteFails(c) PROVE TypeInv'
  BY <1>24 DEF WriteFails, ForwardNext, DropReceiver
<1>25. ASSUME NEW c \in Conns, WriteClose(c) PROVE TypeInv'
  BY <1>25 DEF WriteClose, ForwardNext, DropReceiver
<1>26. ASSUME NEW c \in Conns, ClientGone(c) PROVE TypeInv'
  BY <1>26 DEF ClientGone
<1>27. ASSUME NEW c \in Conns, NEW m \in Msgs, ReceiveMalformed(c, m)
         PROVE TypeInv'
  <2>1. Replied(c)
    BY <1>27, ReplyType DEF ReceiveMalformed, Verdicts
  <2>2. /\ UNCHANGED <<registry, prev, batch, rx, redoPeer, socket, crashes,
             stored,
                      seqOf, lastSeq, consumer, written, lost, expired,
                        caughtUp>>
         /\ UNCHANGED <<redo, handed>>
    BY <1>27 DEF ReceiveMalformed
  <2>3. QED
    BY <2>1, <2>2, RepliedTypes
<1>28. ASSUME NEW c \in Conns, NEW m \in Msgs, ReceiveSend(c, m) PROVE TypeInv'
  BY <1>28 DEF ReceiveSend
<1>29. ASSUME NEW m \in Msgs, RedeliverLookUp(m) PROVE TypeInv'
  BY <1>29 DEF RedeliverLookUp
<1>30. ASSUME NEW m \in Msgs, RedeliverSend(m) PROVE TypeInv'
  <2>1. redoPeer[m] \in Conns
    BY <1>30 DEF RedeliverSend
  <2>2. Push(chan, redoPeer[m], Message(m)) \in [Conns -> Seq(Frame)]
    BY <2>1, PushType, FrameTypes
  <2>3. UNCHANGED <<registry, phase, prev, cur, peer, batch, rx, redoPeer,
          socket,
                   verdict, crashes, stored, seqOf, lastSeq, consumer, written,
                   lost, expired, caughtUp>>
    BY <1>30 DEF RedeliverSend
  <2>4. chan' \in [Conns -> Seq(Frame)]
    BY <1>30, <2>2 DEF RedeliverSend
  <2>5. handed' \in [Msgs -> SUBSET Conns]
    <3>1. handed' = handed \/ handed' = [handed EXCEPT ![m] = @
            \cup {redoPeer[m]}]
      BY <1>30 DEF RedeliverSend
    <3>2. [handed EXCEPT ![m] = @ \cup {redoPeer[m]}] \in [Msgs -> SUBSET Conns]
      BY <2>1
    <3>3. QED
      BY <3>1, <3>2
  <2>6. redo' = [redo EXCEPT ![m] = "deleting"] \/ redo' = [redo EXCEPT ![m]
          = "done"]
    BY <1>30 DEF RedeliverSend
  <2>7. CASE redo' = [redo EXCEPT ![m] = "deleting"]
    BY <2>1, <2>3, <2>4, <2>5, <2>7
  <2>8. CASE redo' = [redo EXCEPT ![m] = "done"]
    BY <2>1, <2>3, <2>4, <2>5, <2>8
  <2>9. QED
    BY <2>6, <2>7, <2>8
<1>31. ASSUME NEW m \in Msgs, RedeliverDelete(m) PROVE TypeInv'
  BY <1>31 DEF RedeliverDelete
<1>32. ASSUME NEW m \in Msgs, Expire(m) PROVE TypeInv'
  BY <1>32 DEF Expire
<1>33. ASSUME NEW u \in Users, ConsumerLapses(u) PROVE TypeInv'
  BY <1>33 DEF ConsumerLapses
<1>34. CASE UNCHANGED vars
  BY <1>34 DEF vars
<1>35. QED
  BY <1>1, <1>2, <1>3, <1>4, <1>5, <1>6, <1>7, <1>8, <1>9, <1>10, <1>11,
    <1>12, <1>13, <1>14, <1>15, <1>16, <1>17, <1>18, <1>19, <1>20, <1>21,
    <1>22, <1>23, <1>24, <1>25, <1>26, <1>27, <1>28, <1>29, <1>30, <1>31,
    <1>32, <1>33, <1>34 DEF Next, Handler, Receive, ForwardTask, Redelivery,
    Environment

(* The type invariant holds when the first handlers are in their loops.     *)
LEMMA InitTypeInv == Init => TypeInv
  BY RelayAssumption DEF Init, TypeInv, TypeOK, HoldsWhatItUses, Phases,
    Starting, CatchUp, Handling, Ending

(* Every variable of the relay keeps its type.                             *)
THEOREM Typing == Spec => []TypeOK
  BY InitTypeInv, TypeNext, PTL DEF Spec, TypeInv
----------------------------------------------------------------------------
(* No message is stranded: each part of DeliveryInv is preserved.          *)

(* Only Register adds to the registry, only CleanUp makes a handler done,   *)
(* and it unregisters the connection in the same step.                      *)
LEMMA RegisteredNext ==
  TypeInv /\ RegisteredIsRunning /\ [Next]_vars => RegisteredIsRunning'
<1> SUFFICES ASSUME TypeInv, RegisteredIsRunning, [Next]_vars
      PROVE RegisteredIsRunning'
  OBVIOUS
<1> USE RelayAssumption DEF TypeInv, TypeOK, RegisteredIsRunning, Goto,
  taskVars
<1>1. ASSUME NEW c \in Conns, Register(c) PROVE RegisteredIsRunning'
  BY <1>1 DEF Register
<1>2. ASSUME NEW c \in Conns, CleanUp(c) PROVE RegisteredIsRunning'
  BY <1>2 DEF CleanUp, RemoveIfCurrent
<1>3. ASSUME Crash PROVE RegisteredIsRunning'
  BY <1>3 DEF Crash
<1>4. ASSUME NEW c \in Conns, Handler(c) \/ Receive(c), ~CleanUp(c)
      PROVE  RegisteredIsRunning'
  <2>1. /\ UNCHANGED registry
        /\ \A d \in Conns :
             phase'[d] \in {"idle", "done"} => phase'[d] = phase[d]
    BY <1>4 DEF Handler, Receive, ReplacePrevious, CreateConsumer,
      ConsumerRefused, Fetch, FetchFailed, ForwardQueued, AckQueued,
      CatchUpDone, CatchUpAborted, IsContact, NotAContact, LookUpRecipient,
      SendLive, RecipientVanished, Publish, PublishFailed, Queued,
      QueueUnavailable, LeaveLoop, Move, Reply, ReceiveMalformed, ReceiveSend
  <2>2. QED
    BY <2>1
<1>5. ASSUME \/ \E c \in Conns : ForwardTask(c) \/ ClientGone(c)
             \/ \E m \in Msgs : Redelivery(m) \/ Expire(m)
             \/ \E u \in Users : ConsumerLapses(u)
             \/ UNCHANGED vars
      PROVE  RegisteredIsRunning'
  <2>1. UNCHANGED <<registry, phase>>
    BY <1>5 DEF ForwardTask, WriteFrame, WriteFails, WriteClose, ClientGone,
      Redelivery, RedeliverLookUp, RedeliverSend, RedeliverDelete, Expire,
      ConsumerLapses, vars
  <2>2. QED
    BY <2>1
<1> HIDE RelayAssumption DEF TypeInv, TypeOK, RegisteredIsRunning, Goto, taskVars
<1>6. QED
  BY <1>1, <1>2, <1>3, <1>4, <1>5 DEF Next, Environment

(* Only the fetch marks a connection as caught up, and no handler goes back *)
(* to its catch-up.                                                         *)
LEMMA FetchedNext ==
  TypeInv /\ FetchedOnce /\ [Next]_vars => FetchedOnce'
<1> SUFFICES ASSUME TypeInv, FetchedOnce, [Next]_vars PROVE FetchedOnce'
  OBVIOUS
<1> USE DEF TypeInv, TypeOK, FetchedOnce, Goto, taskVars, pastVars, Starting
<1>1. ASSUME NEW c \in Conns, Fetch(c) PROVE FetchedOnce'
  BY <1>1 DEF Fetch
<1>2. ASSUME NEW c \in Conns, Register(c) PROVE FetchedOnce'
  BY <1>2 DEF Register
<1>3. CASE Crash
  BY <1>3 DEF Crash
<1>4. ASSUME NEW c \in Conns, Handler(c) \/ Receive(c), ~Fetch(c)
      PROVE  FetchedOnce'
  <2>1. /\ caughtUp' \subseteq caughtUp
        /\ phase[c] \notin {"replacing", "subscribing", "fetching"} =>
              phase'[c] \notin {"idle", "replacing", "subscribing", "fetching"}
        /\ \A d \in Conns \ {c} : phase'[d] = phase[d]
    BY <1>4 DEF Handler, Receive, ReplacePrevious, CreateConsumer,
      ConsumerRefused, FetchFailed, ForwardQueued, AckQueued, CatchUpDone,
      CatchUpAborted, IsContact, NotAContact, LookUpRecipient, SendLive,
      RecipientVanished, Publish, PublishFailed, Queued, QueueUnavailable,
      LeaveLoop, CleanUp, Move, Reply, ReceiveMalformed, ReceiveSend
  <2>2. QED
    BY <2>1
<1>5. CASE \/ \E c \in Conns : ForwardTask(c) \/ ClientGone(c)
           \/ \E m \in Msgs : Redelivery(m) \/ Expire(m)
           \/ \E u \in Users : ConsumerLapses(u)
           \/ UNCHANGED vars
  <2>1. UNCHANGED <<caughtUp, phase>>
    BY <1>5 DEF ForwardTask, WriteFrame, WriteFails, WriteClose, ClientGone,
      Redelivery, RedeliverLookUp, RedeliverSend, RedeliverDelete, Expire,
      ConsumerLapses, vars
  <2>2. QED
    BY <2>1
<1>6. QED
  BY <1>1, <1>2, <1>3, <1>4, <1>5 DEF Next, Environment

(* How the end of handle_send changes the invariant's variables.           *)
Answered(c, m, v) ==
  /\ cur' = [cur EXCEPT ![c] = None]
  /\ verdict' = [verdict EXCEPT ![m] = v]
  /\ phase' \in {[phase EXCEPT ![c] = "reading"],
                 [phase EXCEPT ![c] = "leaving"]}

(* The part of Reply that the delivery invariant reads.                     *)
LEMMA ReplyAnswers ==
  ASSUME NEW c, NEW m, NEW v, NEW ch, Reply(c, m, v, ch)
  PROVE  Answered(c, m, v)
BY DEF Reply, Answered, Goto

(* What the four ends of handle_send have in common.                        *)
LEMMA AnsweringHandlers ==
  ASSUME NEW c \in Conns,
         SendLive(c) \/ NotAContact(c) \/ Queued(c) \/ QueueUnavailable(c)
  PROVE  /\ phase[c] \in {"sending", "checking", "confirmed", "unconfirmed"}
         /\ Answered(c, cur[c], "ack") \/ Answered(c, cur[c], "not_a_contact")
              \/ Answered(c, cur[c], "queue_unavailable")
         /\ UNCHANGED <<stored, seqOf, lastSeq, batch, registry, rx, caughtUp>>
BY ReplyAnswers DEF SendLive, NotAContact, Queued, QueueUnavailable,
  streamVars, pastVars

(* Answering the message that a handler holds, or one that nobody has yet   *)
(* taken up, keeps OneHandler.                                              *)
LEMMA AnsweredOnce ==
  ASSUME TypeInv, OneHandler,
         NEW c \in Conns, NEW m \in Msgs, NEW v \in Verdicts,
         Answered(c, m, v), cur[c] = m \/ verdict[m] = "unsent", UNCHANGED seqOf
  PROVE  OneHandler'
<1> USE RelayAssumption DEF TypeInv, TypeOK, Answered, Verdicts
<1>1. \A d \in Conns, n \in Msgs : cur'[d] = n => cur[d] = n /\ n # m
  BY DEF OneHandler
<1>2. \A d \in Conns, n \in Msgs : cur'[d] = n => verdict'[n] = "pending"
  BY <1>1 DEF OneHandler
<1>3. \A d, e \in Conns : cur'[d] = cur'[e] /\ cur'[d] # None => d = e
  BY DEF OneHandler
<1>4. \A n \in Msgs : verdict'[n] = "unsent" => seqOf'[n] = 0
  BY DEF OneHandler
<1>5. \A d \in Conns :
       phase'[d] \in Handling \ {"confirmed", "unconfirmed"} =>
         phase'[d] = phase[d] /\ cur'[d] = cur[d]
  BY DEF Handling
<1>6. QED
  BY <1>2, <1>3, <1>4, <1>5 DEF OneHandler

(* A message has one handler until it is answered, and is not published     *)
(* before its publishing phase.                                             *)
LEMMA OneHandlerNext ==
  TypeInv /\ OneHandler /\ [Next]_vars => OneHandler'
<1> SUFFICES ASSUME TypeInv, OneHandler, [Next]_vars PROVE OneHandler'
  OBVIOUS
<1> USE RelayAssumption DEF TypeInv, TypeOK, OneHandler, Goto, taskVars,
  streamVars, Handling, HoldsWhatItUses
<1>1. ASSUME NEW c \in Conns, SendLive(c) \/ NotAContact(c) \/ Queued(c)
        \/ QueueUnavailable(c) PROVE OneHandler'
  <2>1. PICK v \in Verdicts : Answered(c, cur[c], v)
    BY <1>1, AnsweringHandlers DEF Verdicts
  <2>2. cur[c] \in Msgs
    BY <1>1, AnsweringHandlers
  <2>3. UNCHANGED seqOf
    BY <1>1, AnsweringHandlers
  <2>4. QED
    BY <2>1, <2>2, <2>3, AnsweredOnce
<1>2. ASSUME NEW c \in Conns, NEW m \in Msgs, ReceiveMalformed(c, m)
        PROVE OneHandler'
  <2>1. Answered(c, m, "invalid_payload")
    BY <1>2, ReplyAnswers DEF ReceiveMalformed
  <2>2. verdict[m] = "unsent" /\ UNCHANGED seqOf
    BY <1>2 DEF ReceiveMalformed
  <2>3. QED
    BY <2>1, <2>2, AnsweredOnce DEF Verdicts
<1>3. ASSUME NEW c \in Conns, NEW m \in Msgs, ReceiveSend(c, m)
        PROVE OneHandler'
  BY <1>3 DEF ReceiveSend
<1>4. ASSUME NEW c \in Conns, Publish(c) PROVE OneHandler'
  BY <1>4 DEF Publish
<1>5. CASE Crash
  BY <1>5 DEF Crash
<1>6. ASSUME NEW c \in Conns, \/ Register(c) \/ ReplacePrevious(c)
        \/ CreateConsumer(c) \/ ConsumerRefused(c)
                 \/ Fetch(c) \/ FetchFailed(c) \/ ForwardQueued(c)
                      \/ AckQueued(c) \/ CatchUpDone(c)
                 \/ CatchUpAborted(c) \/ IsContact(c) \/ LookUpRecipient(c)
                      \/ RecipientVanished(c) \/ PublishFailed(c)
                 \/ LeaveLoop(c) \/ CleanUp(c)
      PROVE OneHandler'
  <2>1. UNCHANGED <<cur, verdict, seqOf>>
    BY <1>6 DEF Register, ReplacePrevious, CreateConsumer, ConsumerRefused,
      Fetch, FetchFailed, ForwardQueued, AckQueued, CatchUpDone,
      CatchUpAborted, IsContact, LookUpRecipient, RecipientVanished,
      PublishFailed, LeaveLoop, CleanUp, Move
  <2>2. /\ \A d \in Conns \ {c} : phase'[d] = phase[d]
        /\ phase'[c] \in Handling \ {"confirmed", "unconfirmed"} => phase[c]
             \in Handling \ {"confirmed", "unconfirmed"}
    BY <1>6 DEF Register, ReplacePrevious, CreateConsumer, ConsumerRefused,
      Fetch, FetchFailed, ForwardQueued, AckQueued, CatchUpDone,
      CatchUpAborted, IsContact, LookUpRecipient, RecipientVanished,
      PublishFailed, LeaveLoop, CleanUp, Move
  <2>3. QED
    BY <2>1, <2>2
<1>7. CASE \/ \E c \in Conns : ForwardTask(c) \/ ClientGone(c)
           \/ \E m \in Msgs : Redelivery(m) \/ Expire(m)
           \/ \E u \in Users : ConsumerLapses(u)
           \/ UNCHANGED vars
  <2>1. UNCHANGED <<cur, verdict, seqOf, phase>>
    BY <1>7 DEF ForwardTask, WriteFrame, WriteFails, WriteClose, ClientGone,
      Redelivery, RedeliverLookUp, RedeliverSend, RedeliverDelete, Expire,
      ConsumerLapses, vars
  <2>2. QED
    BY <2>1
<1>8. QED
  BY <1>1, <1>2, <1>3, <1>4, <1>5, <1>6, <1>7 DEF Next, Handler, Receive,
    Environment

(* Publishing appends to the stream; the fetch reads it; nothing else adds  *)
(* to a batch or to the stream.                                             *)
LEMMA StreamOrderNext ==
  TypeInv /\ OneHandler /\ StreamOrder /\ [Next]_vars => StreamOrder'
<1> SUFFICES ASSUME TypeInv, OneHandler, StreamOrder, [Next]_vars
      PROVE StreamOrder'
  OBVIOUS
<1> USE RelayAssumption DEF TypeInv, TypeOK, StreamOrder, Goto, taskVars,
  streamVars
<1>1. ASSUME NEW c \in Conns, Publish(c) PROVE StreamOrder'
  <2>1. cur[c] \in Msgs
    BY <1>1 DEF Publish, HoldsWhatItUses, Handling
  <2>2. QED
    BY <1>1, <2>1 DEF Publish
<1>2. ASSUME NEW c \in Conns, Fetch(c) PROVE StreamOrder'
  BY <1>2 DEF Fetch, Oldest, Queue
<1>3. CASE Crash
  BY <1>3 DEF Crash
<1>4. ASSUME NEW c \in Conns, Handler(c) \/ Receive(c) \/ ForwardTask(c)
        \/ Register(c) \/ ClientGone(c), ~Publish(c), ~Fetch(c),
             ~AckQueued(c), ~CatchUpAborted(c)
      PROVE  StreamOrder'
  <2>1. UNCHANGED <<seqOf, lastSeq, stored, batch>>
    BY <1>4 DEF Handler, Receive, ReplacePrevious, CreateConsumer,
      ConsumerRefused, FetchFailed, ForwardQueued, CatchUpDone, IsContact,
      NotAContact, LookUpRecipient, SendLive, RecipientVanished,
      PublishFailed, Queued, QueueUnavailable, LeaveLoop, CleanUp, Move,
      ReceiveMalformed, ReceiveSend, ForwardTask, WriteFrame, WriteFails,
      WriteClose, Register, ClientGone, pastVars
  <2>2. QED
    BY <2>1
<1>5. ASSUME NEW c \in Conns, AckQueued(c) \/ CatchUpAborted(c)
        PROVE StreamOrder'
  <2>1. UNCHANGED <<seqOf, lastSeq>> /\ stored' \subseteq stored
    BY <1>5 DEF AckQueued, CatchUpAborted
  <2>2. \A d \in Conns : batch'[d] \subseteq batch[d]
    <3>1. CASE AckQueued(c)
      <4>1. PICK m \in Msgs : batch' = [batch EXCEPT ![c] = @ \ {m}]
        BY <3>1 DEF AckQueued
      <4>2. QED
        BY <4>1
    <3>2. CASE CatchUpAborted(c)
      BY <3>2 DEF CatchUpAborted
    <3>3. QED
      BY <1>5, <3>1, <3>2
  <2>3. QED
    BY <2>1, <2>2
<1>6. CASE \/ \E m \in Msgs : Redelivery(m) \/ Expire(m)
           \/ \E u \in Users : ConsumerLapses(u)
           \/ UNCHANGED vars
  <2>1. /\ UNCHANGED <<seqOf, lastSeq, batch>>
        /\ stored' \subseteq stored
    BY <1>6 DEF Redelivery, RedeliverLookUp, RedeliverSend, RedeliverDelete,
      Expire, ConsumerLapses, vars
  <2>2. QED
    BY <2>1
<1>7. QED
  BY <1>1, <1>2, <1>3, <1>4, <1>6, <1>5 DEF Next, Environment

(* The message a catch-up acknowledges next is the one it has just          *)
(* forwarded: batches only lose their first message, and new messages come  *)
(* after every fetched one.                                                 *)
LEMMA ForwardedNext ==
  TypeInv /\ OneHandler /\ StreamOrder /\ ForwardedBeforeAck /\ [Next]_vars
    => ForwardedBeforeAck'
<1> SUFFICES ASSUME TypeInv, OneHandler, StreamOrder, ForwardedBeforeAck,
      [Next]_vars,
                    NEW d \in Conns, NEW n \in Msgs, phase'[d] = "acking",
                      IsFirst(n, batch[d])'
             PROVE  d \in handed'[n]
  BY DEF ForwardedBeforeAck
<1> USE RelayAssumption DEF TypeInv, TypeOK, Goto, taskVars, streamVars,
  pastVars
<1>1. ASSUME NEW c \in Conns, ForwardQueued(c) PROVE d \in handed'[n]
  <2>1. PICK m \in Msgs : IsFirst(m, batch[c]) /\ handed' = [handed EXCEPT ![m]
          = @ \cup {c}]
    BY <1>1 DEF ForwardQueued
  <2>2. IsFirst(n, batch[d])
    BY <1>1 DEF ForwardQueued, IsFirst
  <2>3. CASE c = d
    <3>1. seqOf[m] = seqOf[n] /\ seqOf[m] # 0
      BY <2>1, <2>2, <2>3 DEF IsFirst, StreamOrder
    <3>2. m = n
      BY <3>1 DEF StreamOrder
    <3>3. QED
      BY <2>1, <2>3, <3>2
  <2>4. CASE c # d
    <3>1. d \in handed[n]
      BY <1>1, <2>2, <2>4 DEF ForwardQueued, ForwardedBeforeAck
    <3>2. QED
      BY <2>1, <3>1
  <2>5. QED
    BY <2>3, <2>4
<1>2. ASSUME NEW c \in Conns, Publish(c) PROVE d \in handed'[n]
  <2>1. cur[c] \in Msgs /\ seqOf[cur[c]] = 0
    BY <1>2 DEF Publish, HoldsWhatItUses, Handling, OneHandler
  <2>2. batch[d] \subseteq Msgs /\ cur[c] \notin batch[d]
    BY <2>1 DEF StreamOrder
  <2>3. UNCHANGED <<batch, handed>> /\ phase[d] = "acking"
    BY <1>2 DEF Publish
  <2>4. \A m \in batch[d] : seqOf'[m] = seqOf[m]
    BY <1>2, <2>2 DEF Publish
  <2>5. IsFirst(n, batch[d])
    BY <2>3, <2>4 DEF IsFirst
  <2>6. QED
    BY <2>3, <2>5 DEF ForwardedBeforeAck
<1>3. CASE Crash
  BY <1>3 DEF Crash
<1>4. ASSUME NEW c \in Conns, Handler(c) \/ Receive(c) \/ ForwardTask(c)
        \/ Register(c) \/ ClientGone(c), ~Publish(c), ~ForwardQueued(c)
      PROVE  d \in handed'[n]
  <2>1. /\ phase[d] = "acking"
        /\ UNCHANGED seqOf
        /\ batch'[d] = batch[d]
    BY <1>4 DEF Handler, Receive, ReplacePrevious, CreateConsumer,
      ConsumerRefused, Fetch, FetchFailed, AckQueued, CatchUpDone,
      CatchUpAborted, IsContact, NotAContact, LookUpRecipient, Reply,
      SendLive, RecipientVanished, PublishFailed, Queued, QueueUnavailable,
      LeaveLoop, CleanUp, Move, ReceiveMalformed, ReceiveSend, ForwardTask,
      WriteFrame, WriteFails, WriteClose, Register, ClientGone
  <2>2. handed[n] \subseteq handed'[n]
    <3>1. CASE SendLive(c)
      BY <3>1 DEF SendLive
    <3>2. CASE ~SendLive(c)
      BY <1>4, <3>2 DEF Handler, Receive, ReplacePrevious, CreateConsumer,
        ConsumerRefused, Fetch, FetchFailed, AckQueued, CatchUpDone,
        CatchUpAborted, IsContact, NotAContact, LookUpRecipient,
        RecipientVanished, PublishFailed, Queued, QueueUnavailable, LeaveLoop,
        CleanUp, Move, ReceiveMalformed, ReceiveSend, ForwardTask, WriteFrame,
        WriteFails, WriteClose, Register, ClientGone
    <3>3. QED
      BY <3>1, <3>2
  <2>3. QED
    BY <2>1, <2>2 DEF ForwardedBeforeAck, IsFirst
<1>5. CASE \/ \E m \in Msgs : Redelivery(m) \/ Expire(m)
           \/ \E u \in Users : ConsumerLapses(u)
           \/ UNCHANGED vars
  <2>1. UNCHANGED <<seqOf, batch, phase>>
    BY <1>5 DEF Redelivery, RedeliverLookUp, RedeliverSend, RedeliverDelete,
      Expire, ConsumerLapses, vars
  <2>2. handed[n] \subseteq handed'[n]
    <3>1. ASSUME NEW m \in Msgs, RedeliverSend(m)
            PROVE handed[n] \subseteq handed'[n]
      <4>1. \/ handed' = [handed EXCEPT ![m] = @ \cup {redoPeer[m]}]
            \/ UNCHANGED handed
        BY <3>1 DEF RedeliverSend
      <4>2. CASE handed' = [handed EXCEPT ![m] = @ \cup {redoPeer[m]}]
        BY <4>2
      <4>3. QED
        BY <4>1, <4>2
    <3>2. QED
      BY <1>5, <3>1 DEF Redelivery, RedeliverLookUp, RedeliverDelete,
        Expire, ConsumerLapses, vars
  <2>3. QED
    BY <2>1, <2>2 DEF ForwardedBeforeAck, IsFirst
<1>6. QED
  BY <1>1, <1>2, <1>3, <1>4, <1>5 DEF Next, Environment

(* The heart of the proof: whoever stops being responsible for a queued     *)
(* message hands it to somebody else in the same step.                      *)
LEMMA CoveredNext ==
  TypeInv /\ DeliveryInv /\ [Next]_vars => Covered'
<1> SUFFICES ASSUME TypeInv, DeliveryInv, [Next]_vars,
                    NEW d \in Conns, NEW n \in Msgs, BeingServed(d, n)'
             PROVE  CoveredBy(d, n)'
  BY DEF Covered
<1> USE RelayAssumption DEF TypeInv, TypeOK, Goto
<1>1. BeingServed(d, n) => CoveredBy(d, n)
  BY DEF DeliveryInv, Covered
<1>2. \A e \in Conns : cur[e] = n => verdict[n] = "pending"
  BY DEF DeliveryInv, OneHandler
<1>3. ASSUME NEW c \in Conns, Register(c) PROVE CoveredBy(d, n)'
  <2>1. d # c
    BY <1>3 DEF Register, DeliveryInv, FetchedOnce, Starting, BeingServed,
      pastVars
  <2>2. BeingServed(d, n)
    BY <1>3, <2>1 DEF Register, BeingServed, Connected, ChannelOpen,
      streamVars, pastVars
  <2>3. CoveredBy(d, n)
    BY <1>1, <2>2
  <2>4. UNCHANGED <<batch, handed, redo, redoPeer, cur, verdict>> /\ phase[c]
          = "idle"
        /\ \A e \in Conns \ {c} : phase'[e] = phase[e]
    BY <1>3 DEF Register, redoVars, pastVars
  <2>5. QED
    BY <2>3, <2>4 DEF CoveredBy
<1>4. ASSUME NEW c \in Conns, Fetch(c) PROVE CoveredBy(d, n)'
  <2>1. /\ UNCHANGED <<registry, rx, stored, handed, redo, redoPeer, cur, verdict>>
        /\ phase[c] = "fetching"
        /\ \A e \in Conns \ {c} :
             /\ phase'[e] = phase[e] /\ batch'[e] = batch[e]
             /\ e \in caughtUp' => e \in caughtUp
    BY <1>4 DEF Fetch, redoVars, streamVars
  <2>2. CASE c = d
    <3>1. d \notin caughtUp
      BY <2>1, <2>2 DEF DeliveryInv, FetchedOnce
    <3>2. batch'[d] = Queue(Owner[d])
      BY <1>4, <2>2, <3>1 DEF Fetch, BeingServed
    <3>3. Owner[d] = To[n] /\ n \in stored
      BY <2>1 DEF BeingServed, Connected, DeliveryInv, RegisteredIsRunning
    <3>4. QED
      BY <3>2, <3>3 DEF Queue, CoveredBy
  <2>3. CASE c # d
    <3>1. CoveredBy(d, n)
      BY <2>1, <2>3, <1>1 DEF BeingServed, Connected, ChannelOpen
    <3>2. QED
      BY <2>1, <2>3, <3>1 DEF CoveredBy
  <2>4. QED
    BY <2>2, <2>3
<1>5. ASSUME NEW c \in Conns, ForwardQueued(c) PROVE CoveredBy(d, n)'
  <2>1. PICK m \in Msgs : handed' = [handed EXCEPT ![m] = @ \cup {c}]
    BY <1>5 DEF ForwardQueued
  <2>2. UNCHANGED <<registry, rx, stored, caughtUp, batch, redo, redoPeer, cur,
          verdict>> /\ phase[c] = "forwarding"
        /\ \A e \in Conns \ {c} : phase'[e] = phase[e]
    BY <1>5 DEF ForwardQueued, redoVars, streamVars
  <2>3. CoveredBy(d, n)
    BY <2>2, <1>1 DEF BeingServed, Connected, ChannelOpen
  <2>4. handed[n] \subseteq handed'[n]
    BY <2>1
  <2>5. QED
    BY <2>2, <2>3, <2>4 DEF CoveredBy
<1>6. ASSUME NEW c \in Conns, AckQueued(c) PROVE CoveredBy(d, n)'
  <2>1. PICK m \in Msgs : IsFirst(m, batch[c]) /\ batch' = [batch EXCEPT ![c]
          = @ \ {m}]
    BY <1>6 DEF AckQueued
  <2>2. UNCHANGED <<registry, rx, caughtUp, handed, redo, redoPeer, cur,
          verdict>> /\ phase[c] = "acking"
        /\ \A e \in Conns \ {c} : phase'[e] = phase[e]
    BY <1>6 DEF AckQueued, redoVars, pastVars
  <2>3. stored' \subseteq stored
    BY <1>6 DEF AckQueued
  <2>4. CoveredBy(d, n)
    BY <2>2, <2>3, <1>1 DEF BeingServed, Connected, ChannelOpen
  <2>5. CASE c = d /\ m = n
    BY <2>1, <2>2, <2>5 DEF DeliveryInv, ForwardedBeforeAck, CoveredBy
  <2>6. CASE ~(c = d /\ m = n)
    <3>1. n \in batch[d] => n \in batch'[d]
      BY <2>1, <2>6
    <3>2. QED
      BY <2>2, <2>4, <3>1 DEF CoveredBy
  <2>7. QED
    BY <2>5, <2>6
<1>7. ASSUME NEW c \in Conns, CatchUpAborted(c) PROVE CoveredBy(d, n)'
  <2>1. UNCHANGED <<registry, rx, stored, handed, redo, redoPeer, cur,
          verdict>> /\ phase[c] = "forwarding"
        /\ caughtUp' = caughtUp \ {c}
        /\ \A e \in Conns \ {c} : phase'[e] = phase[e] /\ batch'[e] = batch[e]
    BY <1>7 DEF CatchUpAborted, redoVars, streamVars
  <2>2. c # d /\ CoveredBy(d, n)
    BY <2>1, <1>1 DEF BeingServed, Connected, ChannelOpen
  <2>3. QED
    BY <2>1, <2>2 DEF CoveredBy
<1>8. ASSUME NEW c \in Conns, SendLive(c) \/ NotAContact(c) \/ Queued(c)
        \/ QueueUnavailable(c)
      PROVE  CoveredBy(d, n)'
  <2>1. PICK v \in Verdicts : Answered(c, cur[c], v)
    BY <1>8, AnsweringHandlers DEF Verdicts
  <2>2. /\ phase[c] \in {"sending", "checking", "confirmed", "unconfirmed"}
        /\ UNCHANGED <<registry, rx, stored, caughtUp, batch>>
    BY <1>8, AnsweringHandlers
  <2>3. cur[c] \in Msgs
    BY <2>2 DEF HoldsWhatItUses, Handling
  <2>4. /\ UNCHANGED redoPeer
        /\ redo' = redo \/ redo' = [redo EXCEPT ![cur[c]] = "spawned"]
    <3>1. CASE Queued(c)
      BY <3>1 DEF Queued
    <3>2. CASE ~Queued(c)
      BY <1>8, <3>2 DEF SendLive, NotAContact, QueueUnavailable, redoVars
    <3>3. QED
      BY <3>1, <3>2
  <2>5. handed[n] \subseteq handed'[n]
    <3>1. CASE SendLive(c)
      BY <3>1 DEF SendLive
    <3>2. CASE ~SendLive(c)
      BY <1>8, <3>2 DEF NotAContact, Queued, QueueUnavailable, pastVars
    <3>3. QED
      BY <3>1, <3>2
  <2>6. CoveredBy(d, n)
    BY <2>2, <1>1 DEF BeingServed, Connected, ChannelOpen
  <2>7. CASE cur[c] = n /\ phase[c] = "confirmed"
    BY <1>8, <2>7, <2>3 DEF SendLive, NotAContact, Queued, QueueUnavailable,
      CoveredBy
  <2>8. CASE cur[c] = n /\ phase[c] = "unconfirmed"
    <3>1. verdict' = [verdict EXCEPT ![n] = "queue_unavailable"]
      BY <1>8, <2>8 DEF SendLive, NotAContact, Queued, QueueUnavailable,
        Reply
    <3>2. QED
      BY <3>1 DEF CoveredBy
  <2>9. CASE cur[c] = n /\ phase[c] \in {"sending", "checking"}
    <3>1. verdict[n] = "pending"
      BY <1>2, <2>9
    <3>2. UNCHANGED redo
      BY <1>8, <2>9 DEF SendLive, NotAContact, Queued, QueueUnavailable,
        redoVars
    <3>3. ASSUME NEW e \in Conns, cur[e] = n
          PROVE  phase[e] \notin {"confirmed", "unconfirmed"}
      <4>1. n # None
        BY RelayAssumption
      <4>2. e = c
        BY <2>9, <3>3, <4>1 DEF DeliveryInv, OneHandler
      <4>3. QED
        BY <2>9, <4>2
    <3>4. QED
      BY <2>2, <2>4, <2>5, <2>6, <3>1, <3>2, <3>3 DEF CoveredBy
  <2>10. CASE cur[c] # n
    <3>1. verdict'[n] = verdict[n] /\ redo'[n] = redo[n]
      BY <2>1, <2>3, <2>4, <2>10 DEF Answered
    <3>2. \A e \in Conns \ {c} : cur'[e] = cur[e] /\ phase'[e] = phase[e]
      BY <2>1 DEF Answered
    <3>3. QED
      BY <2>2, <2>4, <2>5, <2>6, <2>10, <3>1, <3>2 DEF CoveredBy
  <2>11. QED
    BY <2>2, <2>7, <2>8, <2>9, <2>10
<1>9. ASSUME NEW c \in Conns, NEW m \in Msgs, ReceiveMalformed(c, m)
        \/ ReceiveSend(c, m)
      PROVE  CoveredBy(d, n)'
  <2>1. /\ UNCHANGED <<registry, rx, stored, caughtUp, batch, handed, redo,
             redoPeer>>
        /\ phase[c] = "reading" /\ verdict[m] = "unsent"
        /\ \E v \in Verdicts \cup {"pending"} : verdict' = [verdict EXCEPT ![m]
             = v]
        /\ \A e \in Conns \ {c} : cur'[e] = cur[e] /\ phase'[e] = phase[e]
    BY <1>9 DEF ReceiveMalformed, ReceiveSend, Reply, Verdicts, redoVars,
      streamVars, pastVars
  <2>2. CoveredBy(d, n)
    BY <2>1, <1>1 DEF BeingServed, Connected, ChannelOpen
  <2>3. verdict[n] = "queue_unavailable" => verdict'[n] = "queue_unavailable"
    BY <2>1
  <2>4. QED
    BY <2>1, <2>2, <2>3 DEF CoveredBy
<1>10. ASSUME NEW c \in Conns, Publish(c) PROVE CoveredBy(d, n)'
  <2>1. /\ UNCHANGED <<registry, rx, caughtUp, batch, handed, redo, redoPeer,
             cur, verdict>>
        /\ stored' = stored \cup {cur[c]} /\ phase[c] = "publishing"
        /\ \A e \in Conns \ {c} : phase'[e] = phase[e]
        /\ phase'[c] \in {"confirmed", "unconfirmed"}
    BY <1>10 DEF Publish, redoVars, pastVars
  <2>2. CASE cur[c] = n
    BY <2>1, <2>2 DEF CoveredBy
  <2>3. CASE cur[c] # n
    <3>1. CoveredBy(d, n)
      BY <2>1, <2>3, <1>1 DEF BeingServed, Connected, ChannelOpen
    <3>2. QED
      BY <2>1, <3>1 DEF CoveredBy
  <2>4. QED
    BY <2>2, <2>3
<1>11. ASSUME NEW m \in Msgs, RedeliverLookUp(m) PROVE CoveredBy(d, n)'
  <2>1. UNCHANGED <<registry, rx, stored, caughtUp, batch, handed, cur, phase,
          verdict>>
    BY <1>11 DEF RedeliverLookUp, taskVars, streamVars, pastVars
  <2>2. CoveredBy(d, n) /\ registry[To[n]] = d
    BY <2>1, <1>1 DEF BeingServed, Connected, ChannelOpen
  <2>3. CASE m = n
    BY <1>11, <2>1, <2>2, <2>3 DEF RedeliverLookUp, CoveredBy
  <2>4. CASE m # n
    <3>1. redo'[n] = redo[n] /\ redoPeer'[n] = redoPeer[n]
      BY <1>11, <2>4 DEF RedeliverLookUp
    <3>2. QED
      BY <2>1, <2>2, <3>1 DEF CoveredBy
  <2>5. QED
    BY <2>3, <2>4
<1>12. ASSUME NEW m \in Msgs, RedeliverSend(m) PROVE CoveredBy(d, n)'
  <2>1. UNCHANGED <<registry, rx, stored, caughtUp, batch, redoPeer, cur,
          phase, verdict>>
    BY <1>12 DEF RedeliverSend, taskVars, streamVars
  <2>2. CoveredBy(d, n) /\ rx[d] = "open"
    BY <2>1, <1>1 DEF BeingServed, Connected, ChannelOpen
  <2>3. \/ rx[redoPeer[m]] = "open" /\ handed' = [handed EXCEPT ![m] = @
             \cup {redoPeer[m]}]
        \/ rx[redoPeer[m]] # "open" /\ UNCHANGED handed
    BY <1>12 DEF RedeliverSend, ChannelOpen
  <2>4. \A e \in Msgs \ {m} : redo'[e] = redo[e]
    BY <1>12 DEF RedeliverSend
  <2>5. CASE rx[redoPeer[m]] = "open" /\ handed' = [handed EXCEPT ![m] = @
          \cup {redoPeer[m]}]
    BY <1>12, <2>1, <2>2, <2>4, <2>5 DEF RedeliverSend, CoveredBy
  <2>6. CASE rx[redoPeer[m]] # "open" /\ UNCHANGED handed
    BY <1>12, <2>1, <2>2, <2>4, <2>6 DEF RedeliverSend, CoveredBy
  <2>7. QED
    BY <2>3, <2>5, <2>6
<1>13. ASSUME NEW m \in Msgs, RedeliverDelete(m) PROVE CoveredBy(d, n)'
  <2>1. UNCHANGED <<registry, rx, caughtUp, batch, handed, redoPeer, cur,
          phase, verdict>>
        /\ stored' \subseteq stored
        /\ redo[m] = "deleting" /\ \A e \in Msgs \ {m} : redo'[e] = redo[e]
    BY <1>13 DEF RedeliverDelete, taskVars, pastVars
  <2>2. CoveredBy(d, n)
    BY <2>1, <1>1 DEF BeingServed, Connected, ChannelOpen
  <2>3. QED
    BY <2>1, <2>2 DEF CoveredBy
<1>14. ASSUME NEW c \in Conns, CleanUp(c) PROVE CoveredBy(d, n)'
  <2>1. UNCHANGED <<stored, caughtUp, batch, handed, redo, redoPeer, cur,
          verdict>>
    BY <1>14 DEF CleanUp, redoVars, streamVars
  <2>2. phase[c] = "leaving" /\ phase' = [phase EXCEPT ![c] = "done"]
    BY <1>14 DEF CleanUp
  <2>3. registry[To[n]] = d /\ rx[d] = "open"
    BY <1>14 DEF CleanUp, RemoveIfCurrent, BeingServed, Connected,
      ChannelOpen, DropReceiver
  <2>4. CoveredBy(d, n)
    BY <1>1, <2>1, <2>3 DEF BeingServed, Connected, ChannelOpen
  <2>5. QED
    BY <2>1, <2>2, <2>4 DEF CoveredBy
<1>15. ASSUME NEW c \in Conns, ForwardTask(c) \/ ClientGone(c)
         PROVE CoveredBy(d, n)'
  <2>1. UNCHANGED <<stored, caughtUp, handed, redo, redoPeer, verdict>>
    BY <1>15 DEF ForwardTask, WriteFrame, WriteFails, WriteClose,
      ClientGone, taskVars, redoVars, streamVars, pastVars
  <2>2. UNCHANGED <<registry, batch, cur, phase>>
    BY <1>15 DEF ForwardTask, WriteFrame, WriteFails, WriteClose,
      ClientGone, taskVars, redoVars, streamVars, pastVars
  <2>3. rx[d] = "open"
    BY <1>15 DEF ForwardTask, WriteFrame, WriteFails, WriteClose,
      ClientGone, BeingServed, Connected, ChannelOpen, DropReceiver
  <2>4. CoveredBy(d, n)
    BY <1>1, <2>1, <2>2, <2>3 DEF BeingServed, Connected, ChannelOpen
  <2>5. QED
    BY <2>1, <2>2, <2>4 DEF CoveredBy
<1>16. CASE Crash
  BY <1>16 DEF Crash, BeingServed, Connected
<1>17. ASSUME NEW c \in Conns, \/ ReplacePrevious(c) \/ CreateConsumer(c)
         \/ ConsumerRefused(c) \/ FetchFailed(c)
            \/ CatchUpDone(c) \/ IsContact(c) \/ LookUpRecipient(c)
                 \/ RecipientVanished(c) \/ PublishFailed(c) \/ LeaveLoop(c)
      PROVE CoveredBy(d, n)'
  <2>1. /\ UNCHANGED <<registry, rx, stored, caughtUp, batch, handed, redo,
             redoPeer, cur, verdict>>
        /\ phase[c] \notin {"confirmed", "unconfirmed"}
        /\ \A e \in Conns \ {c} : phase'[e] = phase[e]
    BY <1>17 DEF ReplacePrevious, CreateConsumer, ConsumerRefused,
      FetchFailed, CatchUpDone, IsContact, LookUpRecipient, RecipientVanished,
      PublishFailed, LeaveLoop, Move, redoVars, streamVars, pastVars
  <2>2. CoveredBy(d, n)
    BY <1>1, <2>1 DEF BeingServed, Connected, ChannelOpen
  <2>3. QED
    BY <2>1, <2>2 DEF CoveredBy
<1>18. CASE (\E m \in Msgs : Expire(m)) \/ (\E u \in Users : ConsumerLapses(u))
         \/ UNCHANGED vars
  <2>1. /\ UNCHANGED <<registry, rx, caughtUp, batch, handed, redo, redoPeer,
             cur, phase, verdict>>
        /\ stored' \subseteq stored
    BY <1>18 DEF Expire, ConsumerLapses, vars, taskVars, redoVars,
      streamVars, pastVars
  <2>2. CoveredBy(d, n)
    BY <1>1, <2>1 DEF BeingServed, Connected, ChannelOpen
  <2>3. QED
    BY <2>1, <2>2 DEF CoveredBy
<1>19. QED
  BY <1>3, <1>4, <1>5, <1>6, <1>7, <1>8, <1>9, <1>10, <1>11, <1>12, <1>13,
    <1>14, <1>16, <1>17, <1>18, <1>15 DEF Next, Handler, Receive, Redelivery,
    Environment

(* The inductive invariant of the relay: it holds at the start, and every   *)
(* step keeps it.                                                          *)
LEMMA InductiveInvariant == Spec => [](TypeInv /\ DeliveryInv)
<1>1. Init => TypeInv /\ DeliveryInv
  BY InitTypeInv, RelayAssumption DEF Init, DeliveryInv,
    RegisteredIsRunning, FetchedOnce, OneHandler, StreamOrder,
    ForwardedBeforeAck, Covered, BeingServed, Handling
<1>2. TypeInv /\ DeliveryInv /\ [Next]_vars => TypeInv' /\ DeliveryInv'
  BY TypeNext, RegisteredNext, FetchedNext, OneHandlerNext, StreamOrderNext,
    ForwardedNext, CoveredNext DEF DeliveryInv
<1>3. QED
  BY <1>1, <1>2, PTL DEF Spec

(* One handler works on a message, stream sequences are unique, a catch-up  *)
(* forwards before it acknowledges, and every message queued for a caught-  *)
(* up user has somebody responsible for it.                                *)
THEOREM DeliveryHolds == Spec => []DeliveryInv
  BY InductiveInvariant, PTL

(* While a user is connected and caught up, no acknowledged message waits   *)
(* in the queue with nobody about to forward it.                           *)
THEOREM NoMessageIsStranded == Spec => []NoStrandedMessage
<1>1. TypeInv /\ DeliveryInv => NoStrandedMessage
  <2> SUFFICES ASSUME TypeInv, DeliveryInv, NEW c \in Conns, NEW m \in Msgs,
                      BeingServed(c, m), verdict[m] = "ack"
               PROVE  CoveredBy(c, m) /\ (\A d \in Conns : cur[d] # m)
    BY DEF NoStrandedMessage, BeingServed, CoveredBy
  <2>1. QED
    BY DEF DeliveryInv, Covered, OneHandler
<1>2. QED
  BY InductiveInvariant, <1>1, PTL
============================================================================
