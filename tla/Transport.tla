----------------------------- MODULE Transport -----------------------------
(***************************************************************************)
(* The connection of the mobile app to the relay: the transport store      *)
(* (transport/store.ts) over its QUIC driver (transport/quic.ts) and the   *)
(* native client beneath that (quic-relay-client).                         *)
(*                                                                         *)
(* JavaScript runs one callback at a time: an action is one callback, from *)
(* its event to its end or its await.  The native client has a thread of   *)
(* its own, whose results reach JavaScript as events.  Every call of       *)
(* attemptConnect is an attempt with its own local variables.              *)
(***************************************************************************)
EXTENDS Naturals

CONSTANTS
  MaxConnects,  \* bound on the calls of connect()
  MaxFaults,    \* bound on what the network and the server break
  None

ASSUME TransportAssumption ==
  /\ MaxConnects \in Nat \ {0} /\ MaxFaults \in Nat
  /\ None \notin Nat /\ None \notin {"ws", "quic"} /\ None \notin Nat \X Nat

(* Every attempt but the first of a connect() follows a fault.             *)
Attempts == 1..(MaxConnects + MaxFaults)

(* The WebSockets an attempt may dial, the latest of which it calls ws.    *)
Sockets == {1, 2}

VARIABLES
  status,          \* what the screens see
  active,          \* activeTransport
  socket,          \* the WebSocket the variable holds: an attempt and its number
  quicConnection,  \* the attempt whose QUIC connection the variable holds
  timers,          \* the reconnect timers of this generation that are pending
  closed,
  generation,
  attemptId,
  at,              \* the attempts: local variables and both connections
  refused,         \* history: the generation the server answered 4001 to
  connects, faults \* history: what the bounds count

store == <<status, active, socket, quicConnection, timers, closed, generation, attemptId>>
vars == <<store, at, refused, connects, faults>>

Attempt ==
  [gen       : Nat,
   pc        : {"none", "token", "dialing", "ended", "threw"},
   settled   : BOOLEAN,
   known     : BOOLEAN,  \* thisQuicConn is set
   quicTimer : BOOLEAN,
   promise   : {"none", "pending", "resolved", "rejected"},
   quic      : {"none", "handshake", "failed", "up", "lost", "refused", "closed"},
   dialled   : 0..2,     \* how many WebSockets it has created
   ws        : [Sockets -> {"none", "dialing", "open", "closing", "closed"}],
   discarded : BOOLEAN,
   early     : BOOLEAN]  \* history: onClosed was heeded before connectQuic resolved

Unused == [gen |-> 0, pc |-> "none", settled |-> FALSE, known |-> FALSE,
           quicTimer |-> FALSE, promise |-> "none", quic |-> "none",
           dialled |-> 0, ws |-> [i \in Sockets |-> "none"], discarded |-> FALSE,
           early |-> FALSE]

TypeOK ==
  /\ status \in {"connecting", "connected", "reconnecting", "disconnected"}
  /\ active \in {"ws", "quic", None}
  /\ (active # None) = (status = "connected")
  /\ socket \in (Attempts \X Sockets) \cup {None}
  /\ quicConnection \in Attempts \cup {None}
  /\ timers \in 0..MaxFaults
  /\ closed \in BOOLEAN
  /\ generation \in 0..(2 * MaxConnects)
  /\ attemptId \in {0} \cup Attempts
  /\ at \in [Attempts -> Attempt]
  /\ refused \in {None} \cup 1..(2 * MaxConnects)
  /\ connects \in 0..MaxConnects /\ faults \in 0..MaxFaults

Init ==
  /\ status = "disconnected" /\ active = None
  /\ socket = None /\ quicConnection = None
  /\ timers = 0 /\ closed = TRUE
  /\ generation = 0 /\ attemptId = 0
  /\ at = [a \in Attempts |-> Unused]
  /\ refused = None /\ connects = 0 /\ faults = 0
----------------------------------------------------------------------------
(* Helpers.                                                                *)

Stale(a) == closed \/ at[a].gen # generation \/ attemptId # a

(* The guard of the QUIC listeners; before the promise resolves,           *)
(* thisQuicConn is null.                                                   *)
Foreign(a) ==
  \/ closed \/ at[a].gen # generation
  \/ quicConnection # (IF at[a].known THEN a ELSE None)

(* WebSocket.close(), and QuicConnection::close, which aborts the reader   *)
(* unless it is calling on_closed already.                                 *)
ShutWs(w)   == IF w \in {"dialing", "open"} THEN "closing" ELSE w
ShutQuic(q) == IF q = "up" THEN "closed" ELSE q

(* Whether a frame that arrives on a connection reaches lastFrame.         *)
HearsQuic(a) == ~Foreign(a)
HearsWs(a)   == ~Stale(a) /\ ~at[a].discarded

(* Whether send() hands a frame to this connection.                        *)
SendsOnQuic(a)  == active = "quic" /\ quicConnection = a
SendsOnWs(a, i) == ~(active = "quic" /\ quicConnection # None) /\ socket = <<a, i>>

NextAttempt == {a \in Attempts : at[a].pc = "none" /\ \A b \in 1..(a - 1) : at[b].pc # "none"}

Fault == faults < MaxFaults /\ faults' = faults + 1

\* mutant: activeTransport is not reset
ReconnectKeepsActive ==
  status' = "reconnecting" /\ timers' = timers + 1 /\ UNCHANGED active

(* scheduleReconnect, whose guard its callers have passed.                 *)
Reconnect == status' = "reconnecting" /\ active' = None /\ timers' = timers + 1

Disconnected == status' = "disconnected" /\ active' = None /\ UNCHANGED timers

\* mutant: 4001 is tried again
EndsAlike(why) ==
  Reconnect /\ refused' = IF why = "refused" THEN generation ELSE refused

(* The server's 4001 is terminal, any other end starts again.              *)
Ends(why) ==
  IF why = "refused"
  THEN Disconnected /\ refused' = generation
  ELSE Reconnect /\ UNCHANGED refused
----------------------------------------------------------------------------
(* connect(), close() and the reconnect timer.                             *)

(* MainTabs connects when it is mounted and closes when it is unmounted.   *)
Connect ==
  /\ closed /\ connects < MaxConnects
  /\ connects' = connects + 1
  /\ closed' = FALSE
  /\ generation' = generation + 1
  /\ status' = "connecting" /\ active' = None
  /\ timers' = 0
  /\ \E a \in NextAttempt :
       at' = [at EXCEPT ![a] = [Unused EXCEPT !.gen = generation + 1, !.pc = "token"]]
  /\ UNCHANGED <<socket, quicConnection, attemptId, refused, faults>>

Close ==
  /\ ~closed
  /\ closed' = TRUE
  /\ generation' = generation + 1
  /\ timers' = 0
  /\ at' = [a \in Attempts |->
              [at[a] EXCEPT !.ws   = [i \in Sockets |->
                                        IF socket = <<a, i>> THEN ShutWs(at[a].ws[i])
                                        ELSE at[a].ws[i]],
                            !.quic = IF a = quicConnection THEN ShutQuic(at[a].quic)
                                     ELSE at[a].quic]]
  /\ socket' = None /\ quicConnection' = None
  /\ status' = "disconnected" /\ active' = None
  /\ UNCHANGED <<attemptId, refused, connects, faults>>

(* A timer of an earlier generation does nothing and is left out.          *)
TimerFires ==
  /\ timers > 0
  /\ timers' = timers - 1
  /\ \E a \in NextAttempt :
       at' = [at EXCEPT ![a] = [Unused EXCEPT !.gen = generation, !.pc = "token"]]
  /\ UNCHANGED <<status, active, socket, quicConnection, closed, generation, attemptId,
                 refused, connects, faults>>
----------------------------------------------------------------------------
(* attemptConnect.                                                         *)

NeverSuperseded(a) == FALSE \* mutant: no second look after getToken
Superseded(a) == closed \/ at[a].gen # generation

(* getToken resolves to a token: QUIC is dialled.                          *)
GotToken(a) ==
  /\ at[a].pc = "token"
  /\ IF Superseded(a)
     THEN at' = [at EXCEPT ![a].pc = "ended"] /\ UNCHANGED attemptId
     ELSE /\ attemptId' = a
          /\ at' = [at EXCEPT ![a] = [@ EXCEPT !.pc = "dialing", !.quicTimer = TRUE,
                                               !.promise = "pending", !.quic = "handshake"]]
  /\ UNCHANGED <<status, active, socket, quicConnection, timers, closed, generation,
                 refused, connects, faults>>

(* getToken resolves to null: there is no session.                         *)
NoToken(a) ==
  /\ at[a].pc = "token"
  /\ at' = [at EXCEPT ![a].pc = "ended"]
  /\ IF Superseded(a) THEN UNCHANGED <<status, active>>
     ELSE status' = "disconnected" /\ active' = None
  /\ UNCHANGED <<socket, quicConnection, timers, closed, generation, attemptId,
                 refused, connects, faults>>

(* getToken rejects: nobody handles the promise of attemptConnect.         *)
TokenThrows(a) ==
  /\ at[a].pc = "token" /\ ~Superseded(a) /\ Fault
  /\ at' = [at EXCEPT ![a].pc = "threw"]
  /\ UNCHANGED <<store, refused, connects>>

(* startWs.                                                                *)
StartWs(a, attempt) ==
  IF Stale(a) \/ at[a].settled
  THEN at' = [at EXCEPT ![a] = attempt] /\ UNCHANGED socket
  ELSE LET i == attempt.dialled + 1 IN
       /\ at' = [at EXCEPT ![a] = [attempt EXCEPT !.dialled = i, !.ws[i] = "dialing"]]
       /\ socket' = <<a, i>>

QuicTimeout(a) ==
  /\ at[a].quicTimer
  /\ StartWs(a, [at[a] EXCEPT !.quicTimer = FALSE])
  /\ UNCHANGED <<status, active, quicConnection, timers, closed, generation, attemptId,
                 refused, connects, faults>>

(* finishWithQuic, or a success that comes too late.                       *)
TooLateIfSettled(a) == at[a].settled \* mutant: a success of a stale attempt counts
TooLateIfStale(a) == Stale(a)        \* mutant: QUIC displaces a connected WebSocket
TooLate(a) == Stale(a) \/ at[a].settled

FinishWithQuic(a) ==
  /\ at' = [at EXCEPT ![a] = [@ EXCEPT !.promise = "resolved", !.known = TRUE,
                                       !.settled = TRUE, !.quicTimer = FALSE,
                                       !.discarded = (at[a].discarded \/ at[a].dialled > 0),
                                       !.ws = [i \in Sockets |->
                                         IF i = at[a].dialled /\ ~at[a].discarded
                                         THEN ShutWs(at[a].ws[i]) ELSE at[a].ws[i]]]]
  /\ quicConnection' = a
  /\ socket' = IF socket = <<a, at[a].dialled>> THEN None ELSE socket
  /\ status' = "connected" /\ active' = "quic"

Resolved(a) ==
  /\ at[a].promise = "pending"
  /\ at[a].quic \in {"up", "lost", "refused", "closed"}
  /\ \/ ~TooLate(a) /\ FinishWithQuic(a)
     \/ /\ TooLate(a)
        /\ at' = [at EXCEPT ![a] = [@ EXCEPT !.promise = "resolved", !.known = TRUE,
                                             !.quicTimer = FALSE, !.quic = ShutQuic(at[a].quic)]]
        /\ UNCHANGED <<status, active, socket, quicConnection>>
  /\ UNCHANGED <<timers, closed, generation, attemptId, refused, connects, faults>>

\* mutant: a failure of QUIC waits for a timer that has been cleared
RejectedWithoutFallback(a) ==
  /\ at[a].promise = "pending" /\ at[a].quic = "failed"
  /\ at' = [at EXCEPT ![a] = [@ EXCEPT !.promise = "rejected", !.quicTimer = FALSE]]
  /\ UNCHANGED <<store, refused, connects, faults>>

(* QUIC failed outright: a WebSocket is dialled at once, a second one when *)
(* the timer has dialled the first.  A stale attempt's timer stays, and    *)
(* does nothing.                                                           *)
Rejected(a) ==
  /\ at[a].promise = "pending" /\ at[a].quic = "failed"
  /\ LET attempt == [at[a] EXCEPT !.promise = "rejected",
                                  !.quicTimer = @ /\ Stale(a)] IN
     StartWs(a, attempt)
  /\ UNCHANGED <<status, active, quicConnection, timers, closed, generation, attemptId,
                 refused, connects, faults>>
----------------------------------------------------------------------------
(* The WebSocket's events.                                                 *)

WsOpens(a, i) ==
  /\ at[a].ws[i] = "dialing"
  /\ LET loses == Stale(a) \/ at[a].settled IN
     /\ at' = [at EXCEPT ![a] = [@ EXCEPT
                 !.ws[i] = IF loses THEN "closing" ELSE "open",
                 !.settled = at[a].settled \/ ~Stale(a),
                 !.discarded = at[a].discarded \/ (~Stale(a) /\ at[a].settled)]]
     /\ IF loses THEN UNCHANGED <<status, active>>
        ELSE status' = "connected" /\ active' = "ws"
  /\ UNCHANGED <<socket, quicConnection, timers, closed, generation, attemptId,
                 refused, connects, faults>>

(* onclose of a connection or an attempt that this attempt still uses.     *)
WsEnds(a, why) ==
  IF Stale(a) \/ at[a].discarded THEN UNCHANGED <<status, active, timers, refused>>
  ELSE Ends(why)

WsCloses(a, i, why) ==
  /\ \/ at[a].ws[i] \in {"dialing", "open"} /\ Fault
     \/ at[a].ws[i] = "closing" /\ why = "lost" /\ UNCHANGED faults
  /\ at' = [at EXCEPT ![a] = [@ EXCEPT
              !.ws[i] = "closed",
              !.settled = at[a].settled \/ (~Stale(a) /\ ~at[a].discarded)]]
  /\ socket' = IF socket = <<a, i>> THEN None ELSE socket
  /\ WsEnds(a, why)
  /\ UNCHANGED <<quicConnection, closed, generation, attemptId, connects>>
----------------------------------------------------------------------------
(* quic-relay-client, and the peer beneath it.                             *)

NativeStep(a, quic) ==
  /\ at' = [at EXCEPT ![a].quic = quic]
  /\ UNCHANGED <<store, refused, connects>>

(* connect_impl, of whose steps JavaScript learns nothing but the result:  *)
(* resolve_addr to open_bi, the auth frame, and AUTH_RESULT_GRACE, within  *)
(* which the peer closes, or it has not.                                   *)
ConnectImpl(a) ==
  /\ at[a].quic = "handshake"
  /\ \/ NativeStep(a, "up") /\ UNCHANGED faults
     \/ NativeStep(a, "failed") /\ Fault

(* A refusal that arrives late, a replacement, the idle timeout.           *)
PeerCloses(a, why) ==
  /\ at[a].quic = "up" /\ Fault
  /\ NativeStep(a, why)

(* The reader loop has ended and calls on_closed: onClosed of the store.    *)
(* connect_impl spawns the reader before it returns, so that this may come *)
(* before connectQuic resolves; then Foreign compares null with null.      *)
OnClosed(a) ==
  /\ at[a].quic \in {"lost", "refused"}
  /\ at' = [at EXCEPT ![a] = [@ EXCEPT !.quic = "closed",
                                       !.early = ~at[a].known /\ ~Foreign(a)]]
  /\ IF Foreign(a) THEN UNCHANGED <<status, active, timers, quicConnection, refused>>
     ELSE quicConnection' = None /\ Ends(at[a].quic)
  /\ UNCHANGED <<socket, closed, generation, attemptId, connects, faults>>
----------------------------------------------------------------------------
Event(a) ==
  \/ GotToken(a) \/ NoToken(a)
  \/ QuicTimeout(a) \/ Resolved(a) \/ Rejected(a) \/ OnClosed(a)
  \/ ConnectImpl(a)
  \/ \E i \in Sockets : WsOpens(a, i) \/ WsCloses(a, i, "lost")

Breaks(a) ==
  \/ TokenThrows(a)
  \/ \E why \in {"lost", "refused"} : PeerCloses(a, why)
  \/ \E i \in Sockets : WsCloses(a, i, "refused")

Next ==
  \/ Connect \/ Close \/ TimerFires
  \/ \E a \in Attempts : Event(a) \/ Breaks(a)

Spec == Init /\ [][Next]_vars

(* JavaScript's event loop goes on while a timer or an event is due, and   *)
(* whatever was begun ends: getToken resolves, QUIC's idle timeout bounds  *)
(* connect, the platform bounds the WebSocket's.                           *)
FairSpec == Spec /\ WF_vars(TimerFires \/ \E a \in Attempts : Event(a))
=============================================================================
