-------------------------- MODULE TransportProofs --------------------------
(***************************************************************************)
(* Theorems about the transport store, for any number of calls of          *)
(* connect() and any number of faults.                                     *)
(***************************************************************************)
EXTENDS TransportProperties, FiniteSetTheorems, TLAPS

WsStates   == {"none", "dialing", "open", "closing", "closed"}
QuicStates == {"none", "handshake", "failed", "up", "lost", "refused", "closed"}

(* The attempts are positive numbers, finitely many.                        *)
LEMMA AttemptNumbers ==
  Attempts \subseteq Nat \ {0} /\ IsFiniteSet(Attempts)
<1>1. MaxConnects + MaxFaults \in Nat  BY TransportAssumption
<1>2. Attempts \subseteq Nat \ {0}  BY <1>1 DEF Attempts
<1>3. IsFiniteSet(Attempts)  BY <1>1, FS_Interval DEF Attempts
<1> QED  BY <1>2, <1>3

(* None is neither an attempt nor a socket.                                 *)
LEMMA NoneIsFree == None \notin Attempts /\ None \notin Attempts \X Sockets
<1>1. Attempts \subseteq Nat /\ Sockets \subseteq Nat
  BY AttemptNumbers DEF Sockets
<1>2. Attempts \X Sockets \subseteq Nat \X Nat  BY <1>1
<1> QED  BY <1>1, <1>2, TransportAssumption
----------------------------------------------------------------------------
(* What one callback does to the attempts.                                 *)

(* Only the variables of attempt a change, and nothing that upset it is     *)
(* undone.                                                                 *)
Only(a) ==
  /\ at' \in [Attempts -> Attempt]
  /\ at'[a].dialled \in {at[a].dialled, at[a].dialled + 1}
  /\ at[a].early => at'[a].early
  /\ \A b \in Attempts \ {a} : at'[b] = at[b]

LEMMA SetAttempt ==
  ASSUME at \in [Attempts -> Attempt], NEW a \in Attempts,
         NEW r \in Attempt, at' = [at EXCEPT ![a] = r],
         r.dialled \in {at[a].dialled, at[a].dialled + 1}, at[a].early => r.early
  PROVE  Only(a) /\ at'[a] = r
BY DEF Only

(* startWs: nothing, or one more socket.                                    *)
LEMMA StartWsEffect ==
  ASSUME at \in [Attempts -> Attempt], NEW a \in Attempts,
         NEW r \in Attempt, r.dialled = at[a].dialled, r.dialled < 2,
         r.early = at[a].early, StartWs(a, r)
  PROVE  /\ Only(a)
         /\ \/ (Stale(a) \/ at[a].settled) /\ at'[a] = r /\ socket' = socket
            \/ /\ ~Stale(a) /\ ~at[a].settled
               /\ r.dialled + 1 \in Sockets
               /\ at'[a] = [r EXCEPT !.dialled = r.dialled + 1,
                                     !.ws[r.dialled + 1] = "dialing"]
               /\ socket' = <<a, r.dialled + 1>>
<1> DEFINE i == r.dialled + 1
           w == [r.ws EXCEPT ![i] = "dialing"]
<1>1. i \in 1..2 /\ i \in 0..2 /\ i \in Sockets /\ i = at[a].dialled + 1
  BY DEF Attempt, Sockets
<1>2. w \in [Sockets -> WsStates]  BY <1>1 DEF Attempt, WsStates
<1>3. [r EXCEPT !.dialled = i, !.ws[i] = "dialing"] = [r EXCEPT !.dialled = i, !.ws = w]
  BY DEF Attempt
<1> HIDE DEF i, w
<1>4. [r EXCEPT !.dialled = i, !.ws = w] \in Attempt  BY <1>1, <1>2 DEF Attempt, WsStates
<1>5. /\ [r EXCEPT !.dialled = i, !.ws = w].dialled = i
      /\ [r EXCEPT !.dialled = i, !.ws = w].early = at[a].early
  BY DEF Attempt
<1>6. CASE Stale(a) \/ at[a].settled
  BY <1>6, SetAttempt DEF StartWs, Attempt
<1>7. CASE ~(Stale(a) \/ at[a].settled)
  <2>1. at' = [at EXCEPT ![a] = [r EXCEPT !.dialled = i, !.ws = w]] /\ socket' = <<a, i>>
    BY <1>3, <1>7 DEF StartWs, i
  <2>2. Only(a) /\ at'[a] = [r EXCEPT !.dialled = i, !.ws = w]
    BY <1>1, <1>4, <1>5, <2>1, Zenon, SetAttempt
  <2> QED  BY <1>1, <1>3, <1>7, <2>1, <2>2 DEF i
<1> QED  BY <1>6, <1>7

(* getToken resolves or rejects.                                            *)
LEMMA TokenEffect ==
  ASSUME at \in [Attempts -> Attempt], NEW a \in Attempts,
         GotToken(a) \/ NoToken(a) \/ TokenThrows(a)
  PROVE  /\ Only(a)
         /\ \/ /\ GotToken(a) /\ ~Superseded(a)
               /\ at'[a] = [at[a] EXCEPT !.pc = "dialing", !.quicTimer = TRUE,
                                         !.promise = "pending", !.quic = "handshake"]
            \/ /\ attemptId' = attemptId
               /\ \E pc \in {"ended", "threw"} : at'[a] = [at[a] EXCEPT !.pc = pc]
<1> DEFINE r == [at[a] EXCEPT !.pc = "dialing", !.quicTimer = TRUE,
                              !.promise = "pending", !.quic = "handshake"]
<1>0. at[a] \in Attempt  OBVIOUS
<1>1. r \in Attempt /\ r.dialled = at[a].dialled /\ r.early = at[a].early
  BY <1>0 DEF Attempt
<1>2. \A pc \in {"ended", "threw"} :
        /\ [at[a] EXCEPT !.pc = pc] \in Attempt
        /\ [at[a] EXCEPT !.pc = pc].dialled = at[a].dialled
        /\ [at[a] EXCEPT !.pc = pc].early = at[a].early
  BY <1>0 DEF Attempt
<1>3. at[a].dialled \in Nat  BY <1>0 DEF Attempt
<1>4. CASE GotToken(a) /\ ~Superseded(a)
  <2>1. at' = [at EXCEPT ![a] = r]  BY <1>4 DEF GotToken
  <2>2. Only(a) /\ at'[a] = r
    <3> HIDE DEF r
    <3> QED  BY <1>1, <1>3, <2>1, Zenon, SetAttempt
  <2> QED  BY <1>4, <2>2
<1>5. CASE ~(GotToken(a) /\ ~Superseded(a))
  <2>1. attemptId' = attemptId
    BY <1>5 DEF GotToken, NoToken, TokenThrows, store
  <2>2. \E pc \in {"ended", "threw"} : at' = [at EXCEPT ![a] = [at[a] EXCEPT !.pc = pc]]
    BY <1>5 DEF GotToken, NoToken, TokenThrows
  <2> QED  BY <1>2, <1>3, <2>1, <2>2, Zenon, SetAttempt
<1> QED  BY <1>4, <1>5

(* A step of QUIC alone.                                                    *)
LEMMA NativeEffect ==
  ASSUME at \in [Attempts -> Attempt], NEW a \in Attempts, NEW q \in QuicStates,
         at' = [at EXCEPT ![a].quic = q]
  PROVE  Only(a) /\ at'[a] = [at[a] EXCEPT !.quic = q]
<1>0. at[a] \in Attempt  OBVIOUS
<1>1. [at[a] EXCEPT !.quic = q] \in Attempt /\ at[a].dialled \in Nat
      /\ [at[a] EXCEPT !.quic = q].dialled = at[a].dialled
      /\ [at[a] EXCEPT !.quic = q].early = at[a].early
  BY <1>0 DEF Attempt, QuicStates
<1> QED  BY <1>1, Zenon, SetAttempt

(* connectQuic resolves.                                                    *)
LEMMA ResolvedEffect ==
  ASSUME at \in [Attempts -> Attempt], NEW a \in Attempts, Resolved(a)
  PROVE  /\ Only(a)
         /\ \/ /\ ~TooLate(a) /\ FinishWithQuic(a)
               /\ \E d \in BOOLEAN, w \in [Sockets -> WsStates] :
                    /\ d <=> (at[a].discarded \/ at[a].dialled > 0)
                    /\ w = [i \in Sockets |-> IF i = at[a].dialled /\ ~at[a].discarded
                                              THEN ShutWs(at[a].ws[i]) ELSE at[a].ws[i]]
                    /\ at'[a] = [at[a] EXCEPT !.promise = "resolved", !.known = TRUE,
                                              !.settled = TRUE, !.quicTimer = FALSE,
                                              !.discarded = d, !.ws = w]
            \/ /\ TooLate(a)
               /\ UNCHANGED <<status, active, socket, quicConnection>>
               /\ at'[a] = [at[a] EXCEPT !.promise = "resolved", !.known = TRUE,
                                         !.quicTimer = FALSE,
                                         !.quic = ShutQuic(at[a].quic)]
<1>0. at[a] \in Attempt  OBVIOUS
<1>1. at[a].dialled \in Nat  BY <1>0 DEF Attempt
<1>2. CASE ~TooLate(a) /\ FinishWithQuic(a)
  <2> DEFINE w == [i \in Sockets |-> IF i = at[a].dialled /\ ~at[a].discarded
                                     THEN ShutWs(at[a].ws[i]) ELSE at[a].ws[i]]
             d == at[a].discarded \/ at[a].dialled > 0
             r == [at[a] EXCEPT !.promise = "resolved", !.known = TRUE,
                                !.settled = TRUE, !.quicTimer = FALSE,
                                !.discarded = d, !.ws = w]
  <2>1. w \in [Sockets -> WsStates]  BY <1>0 DEF Attempt, ShutWs, WsStates
  <2>2. d \in BOOLEAN  OBVIOUS
  <2>3. at' = [at EXCEPT ![a] = r]  BY <1>2, Zenon DEF FinishWithQuic
  <2>4. r \in Attempt /\ r.dialled = at[a].dialled /\ r.early = at[a].early
    <3> HIDE DEF d, w
    <3> QED  BY <1>0, <2>1, <2>2 DEF Attempt, WsStates
  <2>5. Only(a) /\ at'[a] = r
    <3> HIDE DEF r
    <3> QED  BY <1>1, <2>3, <2>4, Zenon, SetAttempt
  <2> HIDE DEF d, w
  <2> QED  BY <1>2, <2>1, <2>2, <2>5, Zenon DEF d, w
<1>3. CASE ~(~TooLate(a) /\ FinishWithQuic(a))
  <2> DEFINE q == ShutQuic(at[a].quic)
             r == [at[a] EXCEPT !.promise = "resolved", !.known = TRUE,
                                !.quicTimer = FALSE, !.quic = q]
  <2>1. q \in QuicStates  BY <1>0 DEF ShutQuic, Attempt, QuicStates
  <2>2. /\ at' = [at EXCEPT ![a] = r] /\ TooLate(a)
        /\ UNCHANGED <<status, active, socket, quicConnection>>
    BY <1>3, Zenon DEF Resolved
  <2>3. r \in Attempt /\ r.dialled = at[a].dialled /\ r.early = at[a].early
    <3> HIDE DEF q
    <3> QED  BY <1>0, <2>1 DEF Attempt, QuicStates
  <2>4. Only(a) /\ at'[a] = r
    <3> HIDE DEF r
    <3> QED  BY <1>1, <2>2, <2>3, Zenon, SetAttempt
  <2> QED  BY <2>2, <2>4
<1> QED  BY <1>2, <1>3

(* An event of a WebSocket.                                                 *)
LEMMA SocketEffect ==
  ASSUME at \in [Attempts -> Attempt], NEW a \in Attempts, NEW i \in Sockets,
         NEW w \in WsStates, NEW s \in BOOLEAN, NEW d \in BOOLEAN,
         at' = [at EXCEPT ![a] = [@ EXCEPT !.ws[i] = w, !.settled = s, !.discarded = d]]
  PROVE  /\ Only(a)
         /\ at'[a] = [at[a] EXCEPT !.ws[i] = w, !.settled = s, !.discarded = d]
<1> DEFINE ws == [at[a].ws EXCEPT ![i] = w]
           r == [at[a] EXCEPT !.ws = ws, !.settled = s, !.discarded = d]
<1>0. at[a] \in Attempt  OBVIOUS
<1>1. ws \in [Sockets -> WsStates]  BY <1>0 DEF Attempt, WsStates
<1>2. at' = [at EXCEPT ![a] = r]  OBVIOUS
<1>3. r \in Attempt /\ r.dialled = at[a].dialled /\ r.early = at[a].early
  <2> HIDE DEF ws
  <2> QED  BY <1>0, <1>1 DEF Attempt, WsStates
<1>4. Only(a) /\ at'[a] = r
  <2> HIDE DEF r
  <2> QED  BY <1>2, <1>3, Zenon, SetAttempt
<1> QED  BY <1>4

LEMMA WsOpensEffect ==
  ASSUME at \in [Attempts -> Attempt], NEW a \in Attempts, NEW i \in Sockets,
         WsOpens(a, i)
  PROVE  /\ Only(a)
         /\ \/ /\ Stale(a)
               /\ at'[a] = [at[a] EXCEPT !.ws[i] = "closing",
                                         !.settled = at[a].settled,
                                         !.discarded = at[a].discarded]
               /\ UNCHANGED <<status, active>>
            \/ /\ ~Stale(a) /\ at[a].settled
               /\ at'[a] = [at[a] EXCEPT !.ws[i] = "closing", !.settled = TRUE,
                                         !.discarded = TRUE]
               /\ UNCHANGED <<status, active>>
            \/ /\ ~Stale(a) /\ ~at[a].settled
               /\ at'[a] = [at[a] EXCEPT !.ws[i] = "open", !.settled = TRUE,
                                         !.discarded = at[a].discarded]
               /\ status' = "connected" /\ active' = "ws"
<1>0. at[a] \in Attempt  OBVIOUS
<1>1. at[a].settled \in BOOLEAN /\ at[a].discarded \in BOOLEAN  BY <1>0 DEF Attempt
<1>2. "closing" \in WsStates /\ "open" \in WsStates  BY DEF WsStates
<1>3. CASE Stale(a)
  <2>1. at' = [at EXCEPT ![a] = [@ EXCEPT !.ws[i] = "closing", !.settled = at[a].settled,
                                          !.discarded = at[a].discarded]]
    BY <1>1, <1>3 DEF WsOpens
  <2>2. Only(a) /\ at'[a] = [at[a] EXCEPT !.ws[i] = "closing", !.settled = at[a].settled,
                                         !.discarded = at[a].discarded]
    BY <1>1, <1>2, <2>1, SocketEffect
  <2> QED  BY <1>3, <2>2 DEF WsOpens
<1>4. CASE ~Stale(a) /\ at[a].settled
  <2>1. at' = [at EXCEPT ![a] = [@ EXCEPT !.ws[i] = "closing", !.settled = TRUE,
                                          !.discarded = TRUE]]
    BY <1>1, <1>4 DEF WsOpens
  <2>2. Only(a) /\ at'[a] = [at[a] EXCEPT !.ws[i] = "closing", !.settled = TRUE,
                                         !.discarded = TRUE]
    BY <1>1, <1>2, <2>1, SocketEffect
  <2> QED  BY <1>4, <2>2 DEF WsOpens
<1>5. CASE ~Stale(a) /\ ~at[a].settled
  <2>1. at' = [at EXCEPT ![a] = [@ EXCEPT !.ws[i] = "open", !.settled = TRUE,
                                          !.discarded = at[a].discarded]]
    BY <1>1, <1>5 DEF WsOpens
  <2>2. Only(a) /\ at'[a] = [at[a] EXCEPT !.ws[i] = "open", !.settled = TRUE,
                                         !.discarded = at[a].discarded]
    BY <1>1, <1>2, <2>1, SocketEffect
  <2> QED  BY <1>5, <2>2 DEF WsOpens
<1> QED  BY <1>3, <1>4, <1>5

LEMMA WsClosesEffect ==
  ASSUME at \in [Attempts -> Attempt], NEW a \in Attempts, NEW i \in Sockets,
         NEW why, WsCloses(a, i, why)
  PROVE  /\ Only(a)
         /\ \E s \in BOOLEAN :
              /\ s <=> at[a].settled \/ (~Stale(a) /\ ~at[a].discarded)
              /\ at'[a] = [at[a] EXCEPT !.ws[i] = "closed", !.settled = s,
                                        !.discarded = at[a].discarded]
<1> DEFINE s == at[a].settled \/ (~Stale(a) /\ ~at[a].discarded)
<1>0. at[a] \in Attempt  OBVIOUS
<1>1. s \in BOOLEAN /\ at[a].discarded \in BOOLEAN /\ "closed" \in WsStates
  BY <1>0 DEF Attempt, WsStates
<1>2. at' = [at EXCEPT ![a] = [@ EXCEPT !.ws[i] = "closed", !.settled = s]]
  BY Zenon DEF WsCloses
<1>3. [at[a] EXCEPT !.ws[i] = "closed", !.settled = s]
       = [at[a] EXCEPT !.ws[i] = "closed", !.settled = s, !.discarded = at[a].discarded]
  <2> HIDE DEF s
  <2> QED  BY <1>0, <1>1 DEF Attempt
<1> HIDE DEF s
<1>4. at' = [at EXCEPT ![a] = [at[a] EXCEPT !.ws[i] = "closed", !.settled = s,
                                            !.discarded = at[a].discarded]]
  BY <1>2, <1>3
<1>5. /\ Only(a)
      /\ at'[a] = [at[a] EXCEPT !.ws[i] = "closed", !.settled = s,
                                !.discarded = at[a].discarded]
  BY <1>1, <1>4, SocketEffect
<1> QED  BY <1>1, <1>5 DEF s
----------------------------------------------------------------------------
(* The types, with what bounds the counters.                               *)

Typed ==
  /\ status \in {"connecting", "connected", "reconnecting", "disconnected"}
  /\ active \in {"ws", "quic", None} /\ (active # None <=> status = "connected")
  /\ socket \in (Attempts \X Sockets) \cup {None}
  /\ quicConnection \in Attempts \cup {None}
  /\ timers \in Nat /\ closed \in BOOLEAN /\ generation \in Nat
  /\ attemptId \in {0} \cup Attempts
  /\ at \in [Attempts -> Attempt]
  /\ refused \in {None} \cup (Nat \ {0})
  /\ connects \in 0..MaxConnects /\ faults \in 0..MaxFaults

(* Connections of QUIC whose end is still to be notified.                   *)
LostQuic == {a \in Attempts : at[a].quic \in {"lost", "refused"}}

(* A generation is a connect() or a close(); a fault is followed by one     *)
(* timer at most.                                                          *)
Counted ==
  /\ closed => generation = 2 * connects
  /\ ~closed => generation = 2 * connects - 1
  /\ timers + Cardinality(LostQuic) <= faults
  /\ refused # None => refused <= generation

(* What an attempt's variables say of each other.                           *)
Coherent(a) ==
  /\ at[a].gen <= generation
  /\ at[a].pc # "dialing" =>
       /\ at[a].promise = "none" /\ at[a].quic = "none" /\ at[a].dialled = 0
       /\ ~at[a].settled /\ ~at[a].quicTimer /\ ~at[a].discarded /\ ~at[a].known
       /\ at[a].ws[1] = "none" /\ at[a].ws[2] = "none"
       /\ attemptId # a
  /\ at[a].pc = "dialing" => at[a].promise # "none"
  /\ at[a].known <=> at[a].promise = "resolved"
  /\ at[a].known => at[a].quic \in {"up", "lost", "refused", "closed"}
  /\ at[a].early => at[a].quic = "closed"
  /\ quicConnection = a => at[a].known
  /\ at[a].discarded => at[a].settled
  /\ at[a].dialled = 0 => at[a].ws[1] = "none"
  /\ at[a].dialled < 2 => at[a].ws[2] = "none"
  /\ at[a].quicTimer => at[a].dialled = 0
  /\ at[a].promise = "pending" => at[a].dialled < 2
  /\ at[a].promise = "rejected" => at[a].quic = "failed"
  /\ \A i \in Sockets : at[a].ws[i] = "closing" => at[a].discarded \/ Stale(a)

TypeInv == Typed /\ Counted /\ \A a \in Attempts : Coherent(a)

----------------------------------------------------------------------------
(* connect() and the reconnect timer begin an attempt.                      *)
Begins(a, g) ==
  /\ at[a].pc = "none" /\ Only(a)
  /\ at'[a] = [Unused EXCEPT !.gen = g, !.pc = "token"]

LEMMA BeginsEffect ==
  ASSUME TypeInv, NEW a \in NextAttempt, NEW g \in Nat,
         at' = [at EXCEPT ![a] = [Unused EXCEPT !.gen = g, !.pc = "token"]]
  PROVE  a \in Attempts /\ Begins(a, g)
<1> DEFINE r == [Unused EXCEPT !.gen = g, !.pc = "token"]
<1>1. a \in Attempts /\ at[a].pc = "none"  BY DEF NextAttempt
<1>2. at \in [Attempts -> Attempt] /\ at[a].dialled = 0 /\ ~at[a].early
  BY <1>1 DEF TypeInv, Typed, Coherent
<1>3. r \in Attempt /\ r.dialled = 0
  <2> DEFINE none == [i \in Sockets |-> "none"]
  <2>1. none \in [Sockets -> WsStates]  BY DEF WsStates
  <2>2. Unused \in Attempt /\ Unused.dialled = 0
    <3>1. Unused = [gen |-> 0, pc |-> "none", settled |-> FALSE, known |-> FALSE,
                    quicTimer |-> FALSE, promise |-> "none", quic |-> "none",
                    dialled |-> 0, ws |-> none, discarded |-> FALSE,
                    early |-> FALSE]
      BY DEF Unused
    <3> HIDE DEF none
    <3> QED  BY <2>1, <3>1 DEF Attempt, WsStates
  <2> QED  BY <2>2 DEF Attempt
<1>4. Only(a) /\ at'[a] = r
  <2>1. at' = [at EXCEPT ![a] = r]  OBVIOUS
  <2> HIDE DEF r
  <2> QED  BY <1>1, <1>2, <1>3, <2>1, Zenon, SetAttempt
<1> QED  BY <1>1, <1>4 DEF Begins

(* close() shuts what the store holds.                                      *)
LEMMA CloseEffect ==
  ASSUME at \in [Attempts -> Attempt], Close
  PROVE  /\ at' \in [Attempts -> Attempt]
         /\ \A a \in Attempts : \E q \in QuicStates, ws \in [Sockets -> WsStates] :
              /\ at'[a] = [at[a] EXCEPT !.ws = ws, !.quic = q]
              /\ q = IF a = quicConnection THEN ShutQuic(at[a].quic) ELSE at[a].quic
              /\ \A i \in Sockets : ws[i] = IF socket = <<a, i>> THEN ShutWs(at[a].ws[i])
                                            ELSE at[a].ws[i]
<1> DEFINE q(a) == IF a = quicConnection THEN ShutQuic(at[a].quic) ELSE at[a].quic
           ws(a) == [i \in Sockets |-> IF socket = <<a, i>> THEN ShutWs(at[a].ws[i])
                                       ELSE at[a].ws[i]]
           r(a) == [at[a] EXCEPT !.ws = ws(a), !.quic = q(a)]
<1>1. \A a \in Attempts : at[a] \in Attempt  OBVIOUS
<1>2. \A a \in Attempts : q(a) \in QuicStates
  BY <1>1 DEF Attempt, QuicStates, ShutQuic
<1>3. \A a \in Attempts : ws(a) \in [Sockets -> WsStates]
  BY <1>1 DEF Attempt, WsStates, ShutWs
<1>4. at' = [a \in Attempts |-> r(a)]  BY Zenon DEF Close
<1>5. \A a \in Attempts : r(a) \in Attempt
  <2>1. ASSUME NEW x \in Attempt, NEW y \in QuicStates, NEW w \in [Sockets -> WsStates]
        PROVE  [x EXCEPT !.ws = w, !.quic = y] \in Attempt
    BY DEF Attempt, WsStates, QuicStates
  <2> HIDE DEF q, ws
  <2> QED  BY <1>1, <1>2, <1>3, <2>1
<1>6. at' \in [Attempts -> Attempt] /\ \A a \in Attempts : at'[a] = r(a)
  <2> HIDE DEF r
  <2> QED  BY <1>4, <1>5
<1>7. \A a \in Attempts, i \in Sockets :
        ws(a)[i] = IF socket = <<a, i>> THEN ShutWs(at[a].ws[i]) ELSE at[a].ws[i]
  OBVIOUS
<1>8. ASSUME NEW a \in Attempts
      PROVE  \E x \in QuicStates, w \in [Sockets -> WsStates] :
               /\ at'[a] = [at[a] EXCEPT !.ws = w, !.quic = x]
               /\ x = IF a = quicConnection THEN ShutQuic(at[a].quic) ELSE at[a].quic
               /\ \A i \in Sockets : w[i] = IF socket = <<a, i>> THEN ShutWs(at[a].ws[i])
                                            ELSE at[a].ws[i]
  <2>1. q(a) = IF a = quicConnection THEN ShutQuic(at[a].quic) ELSE at[a].quic
    OBVIOUS
  <2> HIDE DEF q, ws
  <2>2. q(a) \in QuicStates /\ ws(a) \in [Sockets -> WsStates]  BY <1>2, <1>3
  <2>3. at'[a] = [at[a] EXCEPT !.ws = ws(a), !.quic = q(a)]  BY <1>6
  <2>4. \A i \in Sockets : ws(a)[i] = IF socket = <<a, i>> THEN ShutWs(at[a].ws[i])
                                      ELSE at[a].ws[i]
    BY <1>7
  <2> QED  BY <2>1, <2>2, <2>3, <2>4, Zenon
<1> QED  BY <1>6, <1>8

(* A callback of an attempt leaves the generation alone.                    *)
LEMMA EventFrame ==
  ASSUME NEW a \in Attempts, Event(a) \/ Breaks(a)
  PROVE  UNCHANGED <<closed, generation, connects>>
BY DEF Event, Breaks, GotToken, NoToken, QuicTimeout, Resolved, Rejected, OnClosed,
       ConnectImpl, WsOpens, WsCloses, TokenThrows, PeerCloses, NativeStep, store
----------------------------------------------------------------------------
(* The attempts stay coherent.                                             *)

(* What all callbacks after GotToken leave alone.                           *)
Keeps(a) ==
  /\ UNCHANGED <<closed, generation, attemptId>>
  /\ at'[a].gen = at[a].gen /\ at'[a].pc = at[a].pc

(* A callback of one attempt does not disturb the others.                   *)
LEMMA OthersCoherent ==
  ASSUME TypeInv, NEW a \in Attempts, Only(a), UNCHANGED <<closed, generation>>,
         attemptId' \in {attemptId, a}, quicConnection' \in {quicConnection, a, None},
         Coherent(a)'
  PROVE  \A b \in Attempts : Coherent(b)'
<1> SUFFICES ASSUME NEW b \in Attempts \ {a} PROVE Coherent(b)'
  OBVIOUS
<1>1. at'[b] = at[b]  BY DEF Only
<1>2. attemptId' = b => attemptId = b  OBVIOUS
<1>3. quicConnection' = b => quicConnection = b  BY NoneIsFree
<1>4. Stale(b) => Stale(b)'  BY <1>1 DEF Stale
<1> QED  BY <1>1, <1>2, <1>3, <1>4 DEF TypeInv, Coherent

LEMMA TokenCoherent ==
  ASSUME TypeInv, NEW a \in Attempts, GotToken(a) \/ NoToken(a) \/ TokenThrows(a)
  PROVE  Coherent(a)'
<1>1. at[a] \in Attempt /\ at[a].pc = "token" /\ Coherent(a)
      /\ UNCHANGED <<closed, generation, quicConnection>>
  BY DEF TypeInv, Typed, GotToken, NoToken, TokenThrows, store
<1>2. quicConnection # a  BY <1>1 DEF Coherent
<1>3. CASE GotToken(a) /\ ~Superseded(a)
  <2>1. at'[a] = [at[a] EXCEPT !.pc = "dialing", !.quicTimer = TRUE,
                               !.promise = "pending", !.quic = "handshake"]
    BY <1>3, TokenEffect, <1>1 DEF TypeInv, Typed, GotToken, Attempt
  <2> QED  BY <1>1, <1>2, <2>1 DEF Coherent, Attempt, Sockets
<1>4. CASE ~(GotToken(a) /\ ~Superseded(a))
  <2>1. attemptId' = attemptId
        /\ \E pc \in {"ended", "threw"} : at'[a] = [at[a] EXCEPT !.pc = pc]
    BY <1>4, TokenEffect DEF TypeInv, Typed
  <2> QED  BY <1>1, <1>2, <2>1 DEF Coherent, Attempt, Sockets
<1> QED  BY <1>3, <1>4

(* The fallback, after the timeout or a failure: nothing, or one more       *)
(* socket.                                                                 *)
Fallback(a) ==
  /\ Only(a) /\ Keeps(a) /\ UNCHANGED quicConnection
  /\ at'[a].quic = at[a].quic /\ at'[a].known = at[a].known
  /\ at'[a].settled = at[a].settled /\ at'[a].discarded = at[a].discarded
  /\ at'[a].early = at[a].early
  /\ at'[a].promise # at[a].promise => /\ at'[a].promise = "rejected"
                                       /\ at[a].promise = "pending"
                                       /\ at[a].quic = "failed"
  /\ at'[a].quicTimer => at[a].quicTimer

DialsNone(a) ==
  /\ Stale(a) \/ at[a].settled
  /\ at'[a].dialled = at[a].dialled /\ at'[a].ws = at[a].ws /\ socket' = socket

Dials(a, i) ==
  /\ ~Stale(a) /\ ~at[a].settled
  /\ i = at[a].dialled + 1 /\ at'[a].dialled = i /\ socket' = <<a, i>>
  /\ at'[a].ws[i] = "dialing" /\ \A j \in Sockets \ {i} : at'[a].ws[j] = at[a].ws[j]
  /\ ~at'[a].quicTimer
  /\ at'[a].promise = "pending" => i = 1

LEMMA FallbackEffect ==
  ASSUME TypeInv, NEW a \in Attempts, QuicTimeout(a) \/ Rejected(a)
  PROVE  Fallback(a) /\ (DialsNone(a) \/ \E i \in Sockets : Dials(a, i))
<1>1. at \in [Attempts -> Attempt] /\ at[a] \in Attempt /\ Coherent(a)
      /\ UNCHANGED <<closed, generation, quicConnection, attemptId>>
  BY DEF TypeInv, Typed, QuicTimeout, Rejected
<1>2. at[a].dialled \in Nat  BY <1>1 DEF Attempt
<1>3. ASSUME NEW p \in {"none", "pending", "resolved", "rejected"}, NEW t \in BOOLEAN,
             StartWs(a, [at[a] EXCEPT !.promise = p, !.quicTimer = t]),
             at[a].dialled < 2, t => at[a].quicTimer, ~Stale(a) => ~t,
             p # at[a].promise =>
               p = "rejected" /\ at[a].promise = "pending" /\ at[a].quic = "failed",
             p = "pending" => at[a].dialled = 0
      PROVE  Fallback(a) /\ (DialsNone(a) \/ \E i \in Sockets : Dials(a, i))
  <2> DEFINE r == [at[a] EXCEPT !.promise = p, !.quicTimer = t]
  <2>1. r \in Attempt /\ r.dialled = at[a].dialled /\ r.early = at[a].early
    BY <1>1 DEF Attempt
  <2>2. /\ Only(a)
        /\ \/ (Stale(a) \/ at[a].settled) /\ at'[a] = r /\ socket' = socket
           \/ /\ ~Stale(a) /\ ~at[a].settled
              /\ r.dialled + 1 \in Sockets
              /\ at'[a] = [r EXCEPT !.dialled = r.dialled + 1,
                                    !.ws[r.dialled + 1] = "dialing"]
              /\ socket' = <<a, r.dialled + 1>>
    <3> HIDE DEF r
    <3>1. StartWs(a, r)  BY <1>3 DEF r
    <3> QED  BY <1>1, <1>3, <2>1, <3>1, StartWsEffect
  <2>3. CASE Stale(a) \/ at[a].settled
    <3>1. at'[a] = r /\ socket' = socket
      <4> HIDE DEF r
      <4> QED  BY <2>2, <2>3
    <3> QED  BY <1>1, <1>3, <2>2, <2>3, <3>1 DEF Fallback, Keeps, DialsNone, Attempt
  <2>4. CASE ~Stale(a) /\ ~at[a].settled
    <3>1. PICK i \in Sockets :
            /\ i = at[a].dialled + 1 /\ socket' = <<a, i>>
            /\ at'[a] = [r EXCEPT !.dialled = i, !.ws[i] = "dialing"]
      <4> HIDE DEF r
      <4> QED  BY <2>1, <2>2, <2>4
    <3>2. /\ at'[a].ws[i] = "dialing" /\ \A j \in Sockets \ {i} : at'[a].ws[j] = at[a].ws[j]
          /\ at'[a].dialled = i /\ at'[a].quicTimer = t
          /\ at'[a].promise = p /\ at'[a].quic = at[a].quic
          /\ at'[a].known = at[a].known /\ at'[a].settled = at[a].settled
          /\ at'[a].discarded = at[a].discarded /\ at'[a].gen = at[a].gen
          /\ at'[a].early = at[a].early /\ at'[a].pc = at[a].pc
      <4>1. i = 1 \/ i = 2  BY DEF Sockets
      <4> QED  BY <1>1, <3>1, <4>1 DEF Attempt, Sockets
    <3>3. p = "pending" => i = 1  BY <1>3, <3>1
    <3> HIDE DEF r
    <3> QED  BY <1>1, <1>3, <2>2, <2>4, <3>1, <3>2, <3>3 DEF Fallback, Keeps, Dials
  <2> QED  BY <2>3, <2>4
<1>4. CASE QuicTimeout(a)
  <2>1. at[a].dialled = 0 /\ at[a].quicTimer  BY <1>1, <1>4 DEF QuicTimeout, Coherent
  <2>2. [at[a] EXCEPT !.quicTimer = FALSE]
          = [at[a] EXCEPT !.promise = at[a].promise, !.quicTimer = FALSE]
    BY <1>1 DEF Attempt
  <2>3. StartWs(a, [at[a] EXCEPT !.promise = at[a].promise, !.quicTimer = FALSE])
    BY <1>4, <2>2 DEF QuicTimeout
  <2> DEFINE p == at[a].promise
             t == FALSE
  <2>4. p \in {"none", "pending", "resolved", "rejected"}
    BY <1>1 DEF Attempt
  <2>5. /\ t \in BOOLEAN /\ ~t /\ p = at[a].promise
        /\ StartWs(a, [at[a] EXCEPT !.promise = p, !.quicTimer = t])
    BY <2>3
  <2>6. at[a].dialled < 2  BY <2>1
  <2> HIDE DEF p, t
  <2> QED  BY <1>3, <2>1, <2>4, <2>5, <2>6
<1>5. CASE Rejected(a)
  <2> DEFINE t == at[a].quicTimer /\ Stale(a)
  <2>1. at[a].promise = "pending" /\ at[a].quic = "failed" /\ at[a].dialled < 2
    BY <1>1, <1>5 DEF Rejected, Coherent
  <2>2. StartWs(a, [at[a] EXCEPT !.promise = "rejected", !.quicTimer = t])
    BY <1>5, Zenon DEF Rejected
  <2>3. t \in BOOLEAN /\ (t => at[a].quicTimer) /\ (~Stale(a) => ~t)
    OBVIOUS
  <2> HIDE DEF t
  <2> QED  BY <1>3, <2>1, <2>2, <2>3
<1> QED  BY <1>4, <1>5

LEMMA FallbackCoherent ==
  ASSUME TypeInv, NEW a \in Attempts, QuicTimeout(a) \/ Rejected(a)
  PROVE  Coherent(a)'
<1>1. Fallback(a) /\ (DialsNone(a) \/ \E i \in Sockets : Dials(a, i))
  BY FallbackEffect
<1>2. at[a] \in Attempt /\ Coherent(a)  BY DEF TypeInv, Typed
<1>3. Stale(a)' <=> Stale(a)  BY <1>1 DEF Fallback, Keeps, Stale
<1>4. at[a].promise = "pending" => at[a].pc = "dialing"  BY <1>2 DEF Coherent
<1>5. CASE DialsNone(a)
  BY <1>1, <1>2, <1>3, <1>5 DEF Fallback, Keeps, DialsNone, Coherent
<1>6. ASSUME NEW i \in Sockets, Dials(a, i) PROVE Coherent(a)'
  <2>1. ~Stale(a) => at[a].pc = "dialing"  BY <1>2 DEF Coherent, Stale
  <2>2. CASE i = 1
    <3>1. at[a].dialled = 0  BY <1>2, <1>6, <2>2 DEF Dials, Attempt
    <3> QED  BY <1>1, <1>2, <1>3, <1>6, <2>1, <2>2, <3>1
                DEF Fallback, Keeps, Dials, Coherent, Sockets
  <2>3. CASE i = 2
    BY <1>1, <1>2, <1>3, <1>6, <2>1, <2>3 DEF Fallback, Keeps, Dials, Coherent, Sockets
  <2> QED  BY <2>2, <2>3 DEF Sockets
<1> QED  BY <1>1, <1>5, <1>6

(* It dials no third one.                                                   *)
LEMMA FallbackSocket ==
  ASSUME TypeInv, NEW a \in Attempts, QuicTimeout(a) \/ Rejected(a)
  PROVE  socket' = socket \/ \E i \in Sockets : socket' = <<a, i>>
BY FallbackEffect DEF DialsNone, Dials

LEMMA ResolvedCoherent ==
  ASSUME TypeInv, NEW a \in Attempts, Resolved(a)
  PROVE  Coherent(a)'
<1>1. at \in [Attempts -> Attempt] /\ at[a] \in Attempt /\ Coherent(a)
      /\ UNCHANGED <<closed, generation, attemptId>>
      /\ at[a].promise = "pending" /\ at[a].quic \in {"up", "lost", "refused", "closed"}
  BY DEF TypeInv, Typed, Resolved
<1>2. CASE ~TooLate(a) /\ FinishWithQuic(a)
  <2>1. PICK d \in BOOLEAN, w \in [Sockets -> WsStates] :
          /\ d <=> (at[a].discarded \/ at[a].dialled > 0)
          /\ w = [i \in Sockets |-> IF i = at[a].dialled /\ ~at[a].discarded
                                    THEN ShutWs(at[a].ws[i]) ELSE at[a].ws[i]]
          /\ at'[a] = [at[a] EXCEPT !.promise = "resolved", !.known = TRUE,
                                    !.settled = TRUE, !.quicTimer = FALSE,
                                    !.discarded = d, !.ws = w]
    BY <1>1, <1>2, ResolvedEffect
  <2>2. quicConnection' = a  BY <1>2 DEF FinishWithQuic
  <2>3. Keeps(a)  BY <1>1, <2>1 DEF Keeps, Attempt
  <2>4. /\ at'[a].ws = w /\ at'[a].discarded = d /\ at'[a].settled /\ at'[a].known
        /\ at'[a].promise = "resolved" /\ ~at'[a].quicTimer
        /\ at'[a].early = at[a].early /\ at'[a].quic = at[a].quic /\ at'[a].dialled = at[a].dialled
    BY <1>1, <2>1 DEF Attempt
  <2>5. \A i \in Sockets : w[i] = at[a].ws[i] \/ at[a].dialled = i
    BY <2>1
  <2>9. at[a].dialled \in 0..2 /\ at[a].discarded \in BOOLEAN  BY <1>1 DEF Attempt
  <2>6. d \/ (at[a].dialled = 0 /\ ~at[a].discarded)  BY <2>1, <2>9
  <2>7. at[a].dialled = 0 => \A i \in Sockets : w[i] = "none"
    BY <1>1, <2>5 DEF Coherent, Sockets
  <2>8. at[a].dialled < 2 => w[2] = "none"
    BY <1>1, <2>5 DEF Coherent, Sockets
  <2> QED  BY <1>1, <2>2, <2>3, <2>4, <2>6, <2>7, <2>8 DEF Coherent, Sockets, Keeps, Stale
<1>3. CASE ~(~TooLate(a) /\ FinishWithQuic(a))
  <2>1. /\ quicConnection' = quicConnection
        /\ at'[a] = [at[a] EXCEPT !.promise = "resolved", !.known = TRUE,
                                  !.quicTimer = FALSE, !.quic = ShutQuic(at[a].quic)]
    BY <1>1, <1>3, ResolvedEffect
  <2>2. /\ ShutQuic(at[a].quic) \in {"lost", "refused", "closed"}
        /\ at[a].quic = "closed" => ShutQuic(at[a].quic) = "closed"
    BY <1>1 DEF ShutQuic
  <2> QED  BY <1>1, <2>1, <2>2 DEF Coherent, Attempt, Sockets, Stale
<1> QED  BY <1>2, <1>3

(* onClosed ends the connection for JavaScript too.                         *)
LEMMA OnClosedEffect ==
  ASSUME at \in [Attempts -> Attempt], NEW a \in Attempts, OnClosed(a),
         at[a].early => at[a].quic = "closed"
  PROVE  /\ Only(a)
         /\ \E e \in BOOLEAN :
              /\ e <=> (~at[a].known /\ ~Foreign(a))
              /\ at'[a] = [at[a] EXCEPT !.quic = "closed", !.early = e]
<1> DEFINE e == ~at[a].known /\ ~Foreign(a)
           r == [at[a] EXCEPT !.quic = "closed", !.early = e]
<1>0. at[a] \in Attempt /\ at[a].dialled \in Nat /\ ~at[a].early /\ e \in BOOLEAN
  BY DEF Attempt, OnClosed
<1>1. at' = [at EXCEPT ![a] = r]  BY Zenon DEF OnClosed
<1>2. r \in Attempt /\ r.dialled = at[a].dialled
  <2> HIDE DEF e
  <2> QED  BY <1>0 DEF Attempt
<1>3. Only(a) /\ at'[a] = r
  <2> HIDE DEF r
  <2> QED  BY <1>0, <1>1, <1>2, SetAttempt
<1> HIDE DEF e
<1> QED  BY <1>0, <1>3 DEF e

LEMMA OnClosedCoherent ==
  ASSUME TypeInv, NEW a \in Attempts, OnClosed(a)
  PROVE  Only(a) /\ Coherent(a)'
<1>1. at \in [Attempts -> Attempt] /\ at[a] \in Attempt /\ Coherent(a)
      /\ UNCHANGED <<closed, generation, attemptId>>
      /\ quicConnection' \in {quicConnection, None} /\ at[a].quic \in {"lost", "refused"}
  BY DEF TypeInv, Typed, OnClosed
<1>2. at[a].early => at[a].quic = "closed"  BY <1>1 DEF Coherent
<1>3. Only(a)  BY <1>1, <1>2, OnClosedEffect
<1>4. PICK e \in BOOLEAN : at'[a] = [at[a] EXCEPT !.quic = "closed", !.early = e]
  BY <1>1, <1>2, OnClosedEffect
<1> QED  BY <1>1, <1>3, <1>4, NoneIsFree DEF Coherent, Attempt, Sockets, Stale

LEMMA NativeCoherent ==
  ASSUME TypeInv, NEW a \in Attempts,
         \/ ConnectImpl(a)
         \/ \E why \in {"lost", "refused"} : PeerCloses(a, why)
  PROVE  Only(a) /\ Coherent(a)'
<1>1. at \in [Attempts -> Attempt] /\ at[a] \in Attempt /\ Coherent(a)
      /\ UNCHANGED <<closed, generation, attemptId, quicConnection>>
  BY DEF TypeInv, Typed, ConnectImpl, PeerCloses, NativeStep, store
<1>2. PICK q \in {"failed", "up", "lost", "refused"} :
        /\ at' = [at EXCEPT ![a].quic = q]
        /\ q \in {"failed", "up"} => at[a].quic = "handshake"
        /\ q \in {"lost", "refused"} => at[a].quic = "up"
  BY DEF ConnectImpl, PeerCloses, NativeStep
<1>3. q \in QuicStates  BY DEF QuicStates
<1>4. Only(a) /\ at'[a] = [at[a] EXCEPT !.quic = q]  BY <1>1, <1>2, <1>3, NativeEffect
<1> QED  BY <1>1, <1>2, <1>4, NoneIsFree DEF Coherent, Attempt, Sockets, Stale

(* What an event of socket i leaves alone or may change.                    *)
SocketMoves(a, i) ==
  /\ Keeps(a)
  /\ \A j \in Sockets \ {i} : at'[a].ws[j] = at[a].ws[j]
  /\ at'[a].promise = at[a].promise /\ at'[a].quic = at[a].quic
  /\ at'[a].known = at[a].known /\ at'[a].dialled = at[a].dialled
  /\ at'[a].quicTimer = at[a].quicTimer /\ at'[a].early = at[a].early
  /\ at'[a].ws[i] = "closing" => at'[a].discarded \/ Stale(a)
  /\ at'[a].discarded => at'[a].settled

LEMMA SocketKeepsCoherent ==
  ASSUME TypeInv, NEW a \in Attempts, NEW i \in Sockets, at[a].ws[i] # "none",
         SocketMoves(a, i), at[a].discarded => at'[a].discarded,
         UNCHANGED quicConnection
  PROVE  Coherent(a)'
<1>1. at[a] \in Attempt /\ Coherent(a)  BY DEF TypeInv, Typed
<1>2. at[a].dialled >= i /\ at[a].dialled \in Nat /\ at[a].pc = "dialing"
  BY <1>1 DEF Coherent, Attempt, Sockets
<1>3. Stale(a)' <=> Stale(a)  BY DEF SocketMoves, Keeps, Stale
<1> QED  BY <1>1, <1>2, <1>3 DEF Coherent, Sockets, SocketMoves, Keeps

LEMMA SocketCoherent ==
  ASSUME TypeInv, NEW a \in Attempts, NEW i \in Sockets,
         WsOpens(a, i) \/ \E why \in {"lost", "refused"} : WsCloses(a, i, why)
  PROVE  Only(a) /\ SocketMoves(a, i) /\ Coherent(a)'
<1>1. at \in [Attempts -> Attempt] /\ at[a] \in Attempt /\ Coherent(a)
      /\ UNCHANGED <<closed, generation, attemptId, quicConnection>>
      /\ at[a].ws[i] # "none"
  BY DEF TypeInv, Typed, WsOpens, WsCloses
<1>2. at[a].discarded => at[a].settled  BY <1>1 DEF Coherent
<1>3. Only(a) /\ SocketMoves(a, i) /\ (at[a].discarded => at'[a].discarded)
  <2>1. CASE WsOpens(a, i)
    <3>1. \/ /\ Stale(a)
             /\ at'[a] = [at[a] EXCEPT !.ws[i] = "closing", !.settled = at[a].settled,
                                       !.discarded = at[a].discarded]
          \/ at'[a] = [at[a] EXCEPT !.ws[i] = "closing", !.settled = TRUE,
                                    !.discarded = TRUE]
          \/ at'[a] = [at[a] EXCEPT !.ws[i] = "open", !.settled = TRUE,
                                    !.discarded = at[a].discarded]
      BY <1>1, <2>1, WsOpensEffect
    <3>2. Only(a)  BY <1>1, <2>1, WsOpensEffect
    <3>3. UNCHANGED <<closed, generation, attemptId>>  BY <1>1
    <3>4. CASE /\ Stale(a)
               /\ at'[a] = [at[a] EXCEPT !.ws[i] = "closing", !.settled = at[a].settled,
                                         !.discarded = at[a].discarded]
      BY <1>1, <1>2, <3>2, <3>3, <3>4 DEF SocketMoves, Keeps, Attempt
    <3>5. CASE at'[a] = [at[a] EXCEPT !.ws[i] = "closing", !.settled = TRUE,
                                      !.discarded = TRUE]
      BY <1>1, <3>2, <3>3, <3>5 DEF SocketMoves, Keeps, Attempt
    <3>6. CASE at'[a] = [at[a] EXCEPT !.ws[i] = "open", !.settled = TRUE,
                                      !.discarded = at[a].discarded]
      BY <1>1, <3>2, <3>3, <3>6 DEF SocketMoves, Keeps, Attempt
    <3> QED  BY <3>1, <3>4, <3>5, <3>6
  <2>2. ASSUME NEW why \in {"lost", "refused"}, WsCloses(a, i, why)
        PROVE  Only(a) /\ SocketMoves(a, i) /\ (at[a].discarded => at'[a].discarded)
    <3>1. PICK s \in BOOLEAN :
          /\ s <=> at[a].settled \/ (~Stale(a) /\ ~at[a].discarded)
          /\ at'[a] = [at[a] EXCEPT !.ws[i] = "closed", !.settled = s,
                                    !.discarded = at[a].discarded]
      BY <1>1, <2>2, WsClosesEffect
    <3>2. Only(a)  BY <1>1, <2>2, WsClosesEffect
    <3> QED  BY <1>1, <1>2, <3>1, <3>2 DEF SocketMoves, Keeps, Attempt
  <2> QED  BY <2>1, <2>2
<1> QED  BY <1>1, <1>3, SocketKeepsCoherent

LEMMA EventCoherent ==
  ASSUME TypeInv, NEW a \in Attempts, Event(a) \/ Breaks(a)
  PROVE  Only(a) /\ \A b \in Attempts : Coherent(b)'
<1>1. at \in [Attempts -> Attempt]  BY DEF TypeInv, Typed
<1>2. attemptId' \in {attemptId, a} /\ quicConnection' \in {quicConnection, a, None}
  BY DEF Event, Breaks, GotToken, NoToken, QuicTimeout, Resolved, FinishWithQuic, Rejected,
         OnClosed, ConnectImpl, WsOpens, WsCloses, TokenThrows, PeerCloses,
         NativeStep, store
<1>3. Only(a) /\ Coherent(a)'
  <2>1. CASE GotToken(a) \/ NoToken(a) \/ TokenThrows(a)
    BY <1>1, <2>1, TokenEffect, TokenCoherent
  <2>2. CASE QuicTimeout(a) \/ Rejected(a)
    BY <2>2, FallbackEffect, FallbackCoherent DEF Fallback
  <2>3. CASE Resolved(a)  BY <1>1, <2>3, ResolvedEffect, ResolvedCoherent
  <2>4. CASE \/ ConnectImpl(a)
             \/ \E why \in {"lost", "refused"} : PeerCloses(a, why)
    BY <2>4, NativeCoherent
  <2>5. CASE OnClosed(a)  BY <2>5, OnClosedCoherent
  <2>6. CASE \E i \in Sockets : \/ WsOpens(a, i)
                                \/ \E why \in {"lost", "refused"} : WsCloses(a, i, why)
    BY <2>6, SocketCoherent
  <2> QED  BY <2>1, <2>2, <2>3, <2>4, <2>6, <2>5 DEF Event, Breaks
<1> QED  BY <1>2, <1>3, EventFrame, OthersCoherent

LEMMA BeginsCoherent ==
  ASSUME TypeInv, NEW a \in Attempts, NEW g \in Nat, Begins(a, g),
         UNCHANGED <<attemptId, quicConnection>>,
         \/ g = generation /\ UNCHANGED <<closed, generation>>
         \/ g = generation + 1 /\ generation' = generation + 1
  PROVE  \A b \in Attempts : Coherent(b)'
<1>1. at[a] \in Attempt /\ Coherent(a) /\ at[a].pc = "none" /\ generation \in Nat
      /\ generation <= generation' /\ generation' = g
  BY DEF TypeInv, Typed, Begins
<1>2. Coherent(a)'
  <2>1. /\ at'[a].gen = g /\ at'[a].pc = "token" /\ at'[a].promise = "none"
        /\ at'[a].quic = "none" /\ at'[a].dialled = 0 /\ ~at'[a].settled
        /\ ~at'[a].quicTimer /\ ~at'[a].discarded /\ ~at'[a].known /\ ~at'[a].early
        /\ at'[a].ws[1] = "none" /\ at'[a].ws[2] = "none"
    BY DEF Begins, Unused, Sockets
  <2> QED  BY <1>1, <2>1 DEF Coherent, Sockets
<1>3. ASSUME NEW b \in Attempts \ {a} PROVE Coherent(b)'
  <2>1. at'[b] = at[b] /\ at[b].gen \in Nat /\ Coherent(b)
    BY DEF Begins, Only, TypeInv, Typed, Attempt
  <2>2. Stale(b) => Stale(b)'  BY <1>1, <2>1 DEF Stale, Coherent
  <2>3. at'[b].gen <= generation'  BY <1>1, <2>1 DEF Coherent
  <2> QED  BY <2>1, <2>2, <2>3 DEF Coherent
<1> QED  BY <1>2, <1>3

LEMMA CloseCoherent ==
  ASSUME TypeInv, Close
  PROVE  \A b \in Attempts : Coherent(b)'
<1> SUFFICES ASSUME NEW a \in Attempts PROVE Coherent(a)'
  OBVIOUS
<1>1. /\ at \in [Attempts -> Attempt] /\ at[a] \in Attempt /\ Coherent(a)
      /\ generation \in Nat /\ generation' = generation + 1 /\ closed'
      /\ attemptId' = attemptId /\ quicConnection' = None
  BY DEF TypeInv, Typed, Close
<1>2. PICK q \in QuicStates, ws \in [Sockets -> WsStates] :
        /\ at'[a] = [at[a] EXCEPT !.ws = ws, !.quic = q]
        /\ q = IF a = quicConnection THEN ShutQuic(at[a].quic) ELSE at[a].quic
        /\ \A i \in Sockets : ws[i] = IF socket = <<a, i>> THEN ShutWs(at[a].ws[i])
                                      ELSE at[a].ws[i]
  BY <1>1, CloseEffect
<1>3. \A i \in Sockets : at[a].ws[i] = "none" => ws[i] = "none"
  BY <1>2 DEF ShutWs
<1>4. q = at[a].quic \/ (at[a].known /\ q = "closed")
  BY <1>1, <1>2 DEF ShutQuic, Coherent
<1>5. Stale(a)' /\ quicConnection' # a  BY <1>1, NoneIsFree DEF Stale
<1>6. /\ at'[a].ws = ws /\ at'[a].quic = q /\ at'[a].gen = at[a].gen /\ at[a].gen \in Nat
      /\ at'[a].pc = at[a].pc /\ at'[a].promise = at[a].promise
      /\ at'[a].settled = at[a].settled /\ at'[a].known = at[a].known
      /\ at'[a].quicTimer = at[a].quicTimer /\ at'[a].dialled = at[a].dialled
      /\ at'[a].discarded = at[a].discarded /\ at'[a].early = at[a].early
  BY <1>1, <1>2 DEF Attempt
<1> QED  BY <1>1, <1>3, <1>4, <1>5, <1>6 DEF Coherent, Sockets

LEMMA CoherentNext ==
  ASSUME TypeInv, [Next]_vars
  PROVE  at' \in [Attempts -> Attempt] /\ \A a \in Attempts : Coherent(a)'
<1>0. generation \in Nat /\ at \in [Attempts -> Attempt]  BY DEF TypeInv, Typed
<1>1. CASE UNCHANGED vars
  BY <1>0, <1>1 DEF vars, store, TypeInv, Coherent, Stale
<1>2. CASE Connect
  <2> DEFINE g == generation + 1
  <2>1. PICK a \in NextAttempt :
          at' = [at EXCEPT ![a] = [Unused EXCEPT !.gen = g, !.pc = "token"]]
    BY <1>2 DEF Connect
  <2>2. g \in Nat /\ g = generation + 1 /\ generation' = g
        /\ UNCHANGED <<attemptId, quicConnection>>
    BY <1>0, <1>2 DEF Connect
  <2> HIDE DEF g
  <2>3. a \in Attempts /\ Begins(a, g)  BY <2>1, <2>2, BeginsEffect
  <2> QED  BY <2>2, <2>3, BeginsCoherent DEF Begins, Only
<1>3. CASE TimerFires
  <2>1. PICK a \in NextAttempt :
          at' = [at EXCEPT ![a] = [Unused EXCEPT !.gen = generation, !.pc = "token"]]
    BY <1>3 DEF TimerFires
  <2>2. a \in Attempts /\ Begins(a, generation)  BY <1>0, <2>1, BeginsEffect
  <2> QED  BY <1>0, <1>3, <2>2, BeginsCoherent DEF TimerFires, Begins, Only
<1>4. CASE Close  BY <1>0, <1>4, CloseCoherent, CloseEffect
<1>5. ASSUME NEW a \in Attempts, Event(a) \/ Breaks(a)
      PROVE  at' \in [Attempts -> Attempt] /\ \A b \in Attempts : Coherent(b)'
  BY <1>5, EventCoherent DEF Only
<1> QED  BY <1>1, <1>2, <1>3, <1>4, <1>5 DEF Next
----------------------------------------------------------------------------
(* Types and counters.                                                     *)

LEMMA LostAreFinite ==
  /\ IsFiniteSet(LostQuic) /\ Cardinality(LostQuic) \in Nat
  /\ IsFiniteSet(LostQuic') /\ Cardinality(LostQuic') \in Nat
<1>1. LostQuic \subseteq Attempts /\ LostQuic' \subseteq Attempts  BY DEF LostQuic
<1>2. IsFiniteSet(LostQuic) /\ IsFiniteSet(LostQuic')
  BY <1>1, AttemptNumbers, FS_Subset
<1> QED  BY <1>2, FS_CardinalityType

(* Only the peer ends a connection of QUIC.                                 *)
LEMMA LostKept ==
  ASSUME TypeInv, Next, \A a \in Attempts, why \in {"lost", "refused"} : ~PeerCloses(a, why)
  PROVE  LostQuic' \subseteq LostQuic
<1>0. at \in [Attempts -> Attempt]  BY DEF TypeInv, Typed
<1> SUFFICES ASSUME NEW a \in Attempts, at'[a].quic \in {"lost", "refused"}
             PROVE  at[a].quic \in {"lost", "refused"}
  BY DEF LostQuic
<1>1. CASE Connect \/ TimerFires
  <2>1. PICK b \in NextAttempt, g \in Nat :
          at' = [at EXCEPT ![b] = [Unused EXCEPT !.gen = g, !.pc = "token"]]
    <3>1. CASE Connect
      <4>1. generation + 1 \in Nat  BY DEF TypeInv, Typed
      <4> QED  BY <3>1, <4>1 DEF Connect
    <3>2. CASE TimerFires  BY <3>2 DEF TimerFires, TypeInv, Typed
    <3> QED  BY <1>1, <3>1, <3>2
  <2>2. b \in Attempts /\ Begins(b, g)  BY <2>1, BeginsEffect
  <2>3. at'[b].quic = "none"  BY <2>2 DEF Begins, Unused
  <2> QED  BY <2>2, <2>3 DEF Begins, Only
<1>2. CASE Close
  <2>1. PICK q \in QuicStates, ws \in [Sockets -> WsStates] :
          /\ at'[a] = [at[a] EXCEPT !.ws = ws, !.quic = q]
          /\ q = IF a = quicConnection THEN ShutQuic(at[a].quic) ELSE at[a].quic
    BY <1>0, <1>2, CloseEffect
  <2>2. at'[a].quic = q  BY <1>0, <2>1 DEF Attempt
  <2> QED  BY <2>1, <2>2 DEF ShutQuic
<1>3. ASSUME NEW b \in Attempts, Event(b) \/ Breaks(b)
      PROVE  at[a].quic \in {"lost", "refused"}
  <2>0. at[b] \in Attempt /\ (a # b => at'[a] = at[a])
    BY <1>0, <1>3, EventCoherent DEF Only
  <2>1. CASE GotToken(b) \/ NoToken(b) \/ TokenThrows(b)
    <3>1. \/ at'[b] = [at[b] EXCEPT !.pc = "dialing", !.quicTimer = TRUE,
                                    !.promise = "pending", !.quic = "handshake"]
          \/ \E pc \in {"ended", "threw"} : at'[b] = [at[b] EXCEPT !.pc = pc]
      BY <1>0, <2>1, TokenEffect
    <3>2. at'[b].quic \in {at[b].quic, "handshake"}  BY <2>0, <3>1 DEF Attempt
    <3> QED  BY <2>0, <3>2
  <2>2. CASE QuicTimeout(b) \/ Rejected(b)
    BY <2>0, <2>2, FallbackEffect DEF Fallback
  <2>4. CASE Resolved(b)
    <3>1. at'[b].quic \in {at[b].quic, ShutQuic(at[b].quic)}
      <4>1. \/ \E d \in BOOLEAN, w \in [Sockets -> WsStates] :
                 at'[b] = [at[b] EXCEPT !.promise = "resolved", !.known = TRUE,
                                        !.settled = TRUE, !.quicTimer = FALSE,
                                        !.discarded = d, !.ws = w]
            \/ at'[b] = [at[b] EXCEPT !.promise = "resolved", !.known = TRUE,
                                      !.quicTimer = FALSE,
                                      !.quic = ShutQuic(at[b].quic)]
        BY <1>0, <2>4, ResolvedEffect
      <4> QED  BY <2>0, <4>1 DEF Attempt
    <3> QED  BY <2>0, <3>1 DEF ShutQuic
  <2>5. CASE ConnectImpl(b) \/ OnClosed(b)
    BY <1>0, <2>0, <2>5 DEF ConnectImpl, OnClosed, NativeStep, Attempt
  <2>6. ASSUME NEW i \in Sockets,
               WsOpens(b, i) \/ \E why \in {"lost", "refused"} : WsCloses(b, i, why)
        PROVE  at[a].quic \in {"lost", "refused"}
    BY <2>0, <2>6, SocketCoherent DEF SocketMoves
  <2> QED  BY <1>3, <2>1, <2>2, <2>4, <2>5, <2>6 DEF Event, Breaks
<1> QED  BY <1>1, <1>2, <1>3 DEF Next

(* Every pending timer and every end of QUIC still to come follows a fault  *)
(* of its own: a socket that closes without one is of no attempt's concern. *)
LEMMA CountedNext ==
  ASSUME TypeInv, [Next]_vars
  PROVE  /\ Counted' /\ timers' \in Nat /\ generation' \in Nat
         /\ connects' \in 0..MaxConnects /\ faults' \in 0..MaxFaults
<1> DEFINE n == Cardinality(LostQuic)
<1>1. /\ timers \in Nat /\ generation \in Nat /\ connects \in Nat /\ faults \in Nat
      /\ connects \in 0..MaxConnects /\ faults \in 0..MaxFaults /\ Counted
      /\ n \in Nat /\ n' \in Nat /\ closed \in BOOLEAN /\ timers + n <= faults
      /\ refused \in {None} \cup (Nat \ {0}) /\ MaxConnects \in Nat /\ MaxFaults \in Nat
  BY LostAreFinite, TransportAssumption DEF TypeInv, Typed, Counted
<1>2. CASE UNCHANGED vars
  BY <1>1, <1>2 DEF vars, store, Counted, LostQuic
<1>3. CASE Next
  <2>1. timers' \in Nat /\ faults' \in 0..MaxFaults /\ timers' + n' <= faults'
    <3>1. CASE \E a \in Attempts, why \in {"lost", "refused"} : PeerCloses(a, why)
      <4>1. PICK a \in Attempts, why \in {"lost", "refused"} : PeerCloses(a, why)
        BY <3>1
      <4>2. LostQuic' \subseteq LostQuic \cup {a}
        BY <4>1, EventCoherent DEF Breaks, Only, LostQuic
      <4>3. IsFiniteSet(LostQuic \cup {a}) /\ Cardinality(LostQuic \cup {a}) <= n + 1
        <5>1. IsFiniteSet(LostQuic)  BY LostAreFinite
        <5>2. Cardinality(LostQuic \cup {a}) \in {n, n + 1} /\ IsFiniteSet(LostQuic \cup {a})
          BY <5>1, FS_AddElement
        <5> QED  BY <1>1, <5>2
      <4>4. n' <= n + 1
        BY <1>1, <4>2, <4>3, FS_Subset, FS_CardinalityType
      <4> QED  BY <1>1, <4>1, <4>4 DEF PeerCloses, NativeStep, store, Fault
    <3>2. CASE \A a \in Attempts, why \in {"lost", "refused"} : ~PeerCloses(a, why)
      <4>1. LostQuic' \subseteq LostQuic  BY <1>3, <3>2, LostKept
      <4>2. n' <= n  BY <1>1, <4>1, LostAreFinite, FS_Subset
      <4>3. CASE Connect \/ Close \/ TimerFires
        <5>1. timers' = 0 \/ (timers > 0 /\ timers' = timers - 1)
          <6>1. Connect \/ Close => timers' = 0  BY Zenon DEF Connect, Close
          <6>2. TimerFires => timers > 0 /\ timers' = timers - 1  BY DEF TimerFires
          <6> QED  BY <4>3, <6>1, <6>2
        <5>2. faults' = faults  BY <4>3 DEF Connect, Close, TimerFires
        <5> QED  BY <1>1, <4>2, <5>1, <5>2
      <4>4. ASSUME NEW a \in Attempts, OnClosed(a)
            PROVE  timers' \in Nat /\ faults' \in 0..MaxFaults /\ timers' + n' <= faults'
        <5>1. at[a].quic \in {"lost", "refused"} /\ at'[a].quic = "closed"
          BY <4>4 DEF OnClosed, TypeInv, Typed, Attempt
        <5>2. a \in LostQuic /\ LostQuic' \subseteq LostQuic \ {a}
          BY <4>1, <5>1 DEF LostQuic
        <5>3. IsFiniteSet(LostQuic \ {a}) /\ Cardinality(LostQuic \ {a}) = n - 1
          BY <5>2, LostAreFinite, FS_RemoveElement
        <5>4. n' <= n - 1  BY <1>1, <5>2, <5>3, FS_Subset
        <5>5. timers' \in {timers, timers + 1} /\ faults' = faults
          BY <4>4 DEF OnClosed, Ends, Reconnect, Disconnected
        <5> QED  BY <1>1, <5>4, <5>5
      <4>5. ASSUME NEW a \in Attempts, NEW i \in Sockets, NEW why \in {"lost", "refused"},
                   WsCloses(a, i, why)
            PROVE  timers' \in Nat /\ faults' \in 0..MaxFaults /\ timers' + n' <= faults'
        <5>1. CASE at[a].ws[i] = "closing"
          <6>1. at[a].discarded \/ Stale(a)  BY <5>1 DEF TypeInv, Coherent
          <6>2. timers' = timers  BY <4>5, <6>1 DEF WsCloses, WsEnds
          <6>3. faults' = faults  BY <4>5, <5>1 DEF WsCloses
          <6> QED  BY <1>1, <4>2, <6>2, <6>3
        <5>2. CASE at[a].ws[i] # "closing"
          <6>1. timers' \in {timers, timers + 1}
            BY <4>5 DEF WsCloses, WsEnds, Ends, Reconnect, Disconnected
          <6>2. faults' = faults + 1 /\ faults < MaxFaults
            BY <4>5, <5>2 DEF WsCloses, Fault
          <6> QED  BY <1>1, <4>2, <6>1, <6>2
        <5> QED  BY <5>1, <5>2
      <4>6. ASSUME NEW a \in Attempts,
                   \/ GotToken(a) \/ NoToken(a) \/ TokenThrows(a) \/ QuicTimeout(a)
                   \/ Resolved(a) \/ Rejected(a) \/ ConnectImpl(a)
                   \/ \E i \in Sockets : WsOpens(a, i)
            PROVE  timers' \in Nat /\ faults' \in 0..MaxFaults /\ timers' + n' <= faults'
        <5>1. timers' = timers /\ (faults' = faults \/ Fault)
          BY <4>6 DEF GotToken, NoToken, TokenThrows, QuicTimeout, Resolved, Rejected,
                      ConnectImpl, NativeStep, store, WsOpens
        <5> QED  BY <1>1, <4>2, <5>1 DEF Fault
      <4> QED  BY <1>3, <3>2, <4>3, <4>4, <4>5, <4>6 DEF Next, Event, Breaks
    <3> QED  BY <3>1, <3>2
  <2>2. /\ generation' \in Nat /\ connects' \in 0..MaxConnects
        /\ closed' => generation' = 2 * connects'
        /\ ~closed' => generation' = 2 * connects' - 1
        /\ refused' # None => refused' <= generation'
    <3>0. /\ closed => generation = 2 * connects
          /\ ~closed => generation = 2 * connects - 1
          /\ refused # None => refused \in Nat /\ refused <= generation
      BY <1>1 DEF Counted
    <3>1. CASE Connect
      <4>1. /\ closed /\ connects < MaxConnects /\ connects' = connects + 1 /\ closed' = FALSE
            /\ generation' = generation + 1 /\ refused' = refused
        BY <3>1 DEF Connect
      <4> QED  BY <1>1, <3>0, <4>1
    <3>2. CASE Close
      <4>1. /\ ~closed /\ closed' = TRUE /\ generation' = generation + 1
            /\ refused' = refused /\ connects' = connects
        BY <3>2 DEF Close
      <4> QED  BY <1>1, <3>0, <4>1
    <3>3. CASE TimerFires
      <4>1. UNCHANGED <<closed, generation, refused, connects>>  BY <3>3 DEF TimerFires
      <4> QED  BY <1>1, <3>0, <4>1
    <3>4. ASSUME NEW a \in Attempts, Event(a) \/ Breaks(a)
          PROVE  /\ UNCHANGED <<closed, generation, connects>>
                 /\ refused' \in {refused, generation}
      BY <3>4, EventFrame
         DEF Event, Breaks, GotToken, NoToken, QuicTimeout, Resolved, Rejected, OnClosed,
             ConnectImpl, WsOpens, WsCloses, TokenThrows, PeerCloses, NativeStep,
             store, WsEnds, Ends, Reconnect
    <3>5. CASE \E a \in Attempts : Event(a) \/ Breaks(a)
      <4>1. UNCHANGED <<closed, generation, connects>> /\ refused' \in {refused, generation}
        BY <3>4, <3>5
      <4> QED  BY <1>1, <3>0, <4>1
    <3> QED  BY <1>3, <3>1, <3>2, <3>3, <3>5 DEF Next
  <2> QED  BY <2>1, <2>2 DEF Counted
<1> QED  BY <1>2, <1>3

LEMMA TypedNext ==
  ASSUME TypeInv, [Next]_vars
  PROVE  Typed'
<1>1. at' \in [Attempts -> Attempt]  BY CoherentNext
<1>2. /\ timers' \in Nat /\ generation' \in Nat
      /\ connects' \in 0..MaxConnects /\ faults' \in 0..MaxFaults
  BY CountedNext
<1>3. /\ status' \in {"connecting", "connected", "reconnecting", "disconnected"}
      /\ active' \in {"ws", "quic", None} /\ (active' # None <=> status' = "connected")
      /\ socket' \in (Attempts \X Sockets) \cup {None}
      /\ quicConnection' \in Attempts \cup {None}
      /\ closed' \in BOOLEAN /\ attemptId' \in {0} \cup Attempts
      /\ refused' \in {None} \cup (Nat \ {0})
  <2>0. /\ Typed /\ None \notin {"ws", "quic"}
        /\ (~closed => generation \in Nat \ {0})
    <3>1. ~closed => generation = 2 * connects - 1  BY DEF TypeInv, Counted
    <3>2. generation \in Nat /\ connects \in Nat
      BY TransportAssumption DEF TypeInv, Typed
    <3> QED  BY <3>1, <3>2, TransportAssumption DEF TypeInv
  <2>1. CASE UNCHANGED vars  BY <2>0, <2>1 DEF vars, store, Typed
  <2>2. CASE Connect  BY <2>0, <2>2, Zenon DEF Connect, Typed
  <2>3. CASE Close  BY <2>0, <2>3, Zenon DEF Close, Typed
  <2>4. CASE TimerFires  BY <2>0, <2>4, Zenon DEF TimerFires, Typed
  <2>5. ASSUME NEW a \in Attempts,
               \/ GotToken(a) \/ NoToken(a) \/ TokenThrows(a) \/ ConnectImpl(a)
               \/ \E why \in {"lost", "refused"} : PeerCloses(a, why)
        PROVE  /\ UNCHANGED <<socket, quicConnection, closed, refused>>
               /\ \/ UNCHANGED <<status, active>>
                  \/ status' = "disconnected" /\ active' = None
               /\ attemptId' \in {attemptId, a}
    BY <2>5 DEF GotToken, NoToken, TokenThrows, ConnectImpl, PeerCloses,
                NativeStep, store
  <2>6. ASSUME NEW a \in Attempts, QuicTimeout(a) \/ Rejected(a)
        PROVE  /\ UNCHANGED <<status, active, quicConnection, closed, attemptId, refused>>
               /\ socket' = socket \/ \E i \in Sockets : socket' = <<a, i>>
    <3>1. UNCHANGED <<status, active, quicConnection, closed, attemptId, refused>>
      BY <2>6 DEF QuicTimeout, Rejected
    <3>2. socket' = socket \/ \E i \in Sockets : socket' = <<a, i>>
      BY <2>6, FallbackSocket
    <3> QED  BY <3>1, <3>2
  <2>7. ASSUME NEW a \in Attempts, Resolved(a)
        PROVE  /\ UNCHANGED <<closed, attemptId, refused>>
               /\ quicConnection' \in {quicConnection, a} /\ socket' \in {socket, None}
               /\ \/ UNCHANGED <<status, active>>
                  \/ (status' = "connected" /\ active' = "quic")
    BY <2>7 DEF Resolved, FinishWithQuic
  <2>8. ASSUME NEW a \in Attempts,
               \/ OnClosed(a)
               \/ \E i \in Sockets, why \in {"lost", "refused"} : WsCloses(a, i, why)
        PROVE  /\ UNCHANGED <<closed, attemptId>>
               /\ quicConnection' \in {quicConnection, None} /\ socket' \in {socket, None}
               /\ \/ UNCHANGED <<status, active, refused>>
                  \/ /\ status' \in {"reconnecting", "disconnected"} /\ active' = None
                     /\ refused' \in {refused, generation} /\ ~closed
    BY <2>8 DEF OnClosed, WsCloses, WsEnds, Ends, Reconnect, Disconnected, Foreign, Stale
  <2>9. ASSUME NEW a \in Attempts, NEW i \in Sockets, WsOpens(a, i)
        PROVE  /\ UNCHANGED <<closed, attemptId, refused, socket, quicConnection>>
               /\ \/ UNCHANGED <<status, active>>
                  \/ (status' = "connected" /\ active' = "ws")
    BY <2>9 DEF WsOpens
  <2> QED  BY <2>0, <2>1, <2>2, <2>3, <2>4, <2>5, <2>6, <2>7, <2>8, <2>9
              DEF Next, Event, Breaks, Typed
<1> QED  BY <1>1, <1>2, <1>3 DEF Typed

LEMMA TypeInit == Init => TypeInv
<1> SUFFICES ASSUME Init PROVE TypeInv
  OBVIOUS
<1> DEFINE none == [i \in Sockets |-> "none"]
<1>1. none \in [Sockets -> WsStates]  BY DEF WsStates
<1>2. Unused \in Attempt
  <2>1. Unused = [gen |-> 0, pc |-> "none", settled |-> FALSE, known |-> FALSE,
                  quicTimer |-> FALSE, promise |-> "none", quic |-> "none",
                  dialled |-> 0, ws |-> none, discarded |-> FALSE,
                    early |-> FALSE]
    BY DEF Unused
  <2> HIDE DEF none
  <2> QED  BY <1>1, <2>1 DEF Attempt, WsStates
<1>3. at \in [Attempts -> Attempt] /\ \A a \in Attempts : at[a] = Unused
  BY <1>2 DEF Init
<1>4. LostQuic = {}  BY <1>3 DEF LostQuic, Unused
<1>5. Cardinality(LostQuic) = 0  BY <1>4, FS_EmptySet
<1>6. Typed  BY <1>3, TransportAssumption DEF Init, Typed
<1>7. Counted  BY <1>5 DEF Init, Counted
<1>8. \A a \in Attempts : Coherent(a)
  BY <1>3, AttemptNumbers, NoneIsFree DEF Init, Coherent, Unused, Sockets
<1> QED  BY <1>6, <1>7, <1>8 DEF TypeInv

LEMMA TypeNext ==
  ASSUME TypeInv, [Next]_vars
  PROVE  TypeInv'
BY CoherentNext, CountedNext, TypedNext DEF TypeInv

LEMMA TypeInvariance == Spec => []TypeInv
<1>1. TypeInv /\ [Next]_vars => TypeInv'  BY TypeNext
<1> QED  BY <1>1, TypeInit, PTL DEF Spec

(* Every variable keeps its type: the screens are told of a transport       *)
(* exactly while they are told "connected", and no more reconnect timers    *)
(* are pending than things have broken.                                     *)
THEOREM TypeCorrect == Spec => []TypeOK
<1>1. TypeInv => TypeOK
  <2> SUFFICES ASSUME TypeInv PROVE TypeOK
    OBVIOUS
  <2>1. /\ timers \in Nat /\ generation \in Nat /\ connects \in Nat /\ faults \in Nat
        /\ connects <= MaxConnects /\ faults <= MaxFaults
        /\ MaxConnects \in Nat /\ MaxFaults \in Nat /\ Cardinality(LostQuic) \in Nat
        /\ timers + Cardinality(LostQuic) <= faults
        /\ (generation = 2 * connects \/ generation = 2 * connects - 1)
        /\ (refused # None => refused \in Nat \ {0} /\ refused <= generation)
    BY LostAreFinite, TransportAssumption DEF TypeInv, Typed, Counted
  <2>2. timers \in 0..MaxFaults /\ generation \in 0..(2 * MaxConnects)
        /\ refused \in {None} \cup 1..(2 * MaxConnects)
    BY <2>1
  <2> QED  BY <2>2 DEF TypeInv, Typed, TypeOK
<1> QED  BY <1>1, TypeInvariance, PTL
----------------------------------------------------------------------------
(* One thing at a time.  While every attempt was orderly, the current      *)
(* generation is in one pair of hands: a pending timer, an attempt that    *)
(* waits for its token, or one whose end is still to come.                 *)

Waits(a) == at[a].pc = "token" /\ ~Superseded(a)
Live(a)  == ~Stale(a) /\ (~at[a].settled \/ socket = <<a, 1>> \/ quicConnection = a)
Busy(a)  == Waits(a) \/ Live(a)

OneAtATime ==
  /\ timers > 0 => timers = 1 /\ \A a \in Attempts : ~Busy(a)
  /\ \A a, b \in Attempts : Busy(a) /\ Busy(b) => a = b
  /\ refused = generation =>
       /\ status = "disconnected" /\ timers = 0
       /\ \A a \in Attempts : ~Busy(a)

(* The store's variable holds the WebSocket that is dialling or open, and   *)
(* no socket of an attempt that is over.                                   *)
HoldsSocket(a) ==
  /\ socket # <<a, 2>>
  /\ socket = <<a, 1>> =>
       /\ ~Stale(a) /\ ~at[a].discarded
       /\ at[a].ws[1] = IF at[a].settled THEN "open" ELSE "dialing"
  /\ at[a].ws[1] \in {"dialing", "open"} => socket = <<a, 1>>

(* It holds every QUIC connection that is up, once connectQuic resolved;    *)
(* one that ended before is of an attempt that is over.                     *)
HoldsQuic(a) ==
  /\ quicConnection = a => /\ ~Stale(a) /\ at[a].settled
                           /\ at[a].quic \in {"up", "lost", "refused"}
  /\ at[a].known /\ at[a].quic = "up" => quicConnection = a
  /\ at[a].quic = "closed" /\ ~at[a].known => Stale(a)

ActiveIsUp ==
  /\ active = "quic" <=> quicConnection # None
  /\ \A a \in Attempts : socket = <<a, 1>> /\ at[a].settled => active = "ws"
  /\ active = "ws" => \E a \in Attempts : socket = <<a, 1>> /\ at[a].settled

Single ==
  OneAtATime /\ ActiveIsUp /\ \A a \in Attempts : HoldsSocket(a) /\ HoldsQuic(a)

SingleInv == Orderly => Single

(* What the variables hold is of a live attempt.                            *)
LEMMA HeldIsLive ==
  ASSUME TypeInv, Single, NEW a \in Attempts
  PROVE  /\ socket = <<a, 1>> \/ quicConnection = a => Live(a)
         /\ Live(a) => at[a].pc = "dialing" /\ attemptId = a /\ ~closed
         /\ Waits(a) => ~Live(a) /\ socket # <<a, 1>> /\ quicConnection # a
BY DEF TypeInv, Coherent, Single, HoldsSocket, HoldsQuic, Live, Waits, Stale, Superseded

(* How a callback may hand the generation on.                               *)
HandsOn(a) ==
  \/ /\ Busy(a)' => Busy(a)
     /\ UNCHANGED <<timers, refused>> /\ (status' = status \/ Busy(a))
  \/ /\ Busy(a) /\ ~Busy(a)'
     /\ \/ timers' = timers + 1 /\ refused' = refused
        \/ timers' = timers /\ refused' = generation /\ status' = "disconnected"

LEMMA OneAtATimeNext ==
  ASSUME TypeInv, OneAtATime, NEW a \in Attempts, UNCHANGED generation,
         \A b \in Attempts \ {a} : Busy(b)' => Busy(b), HandsOn(a)
  PROVE  OneAtATime'
<1>1. timers \in Nat  BY DEF TypeInv, Typed
<1>2. CASE /\ Busy(a)' => Busy(a)
           /\ UNCHANGED <<timers, refused>> /\ (status' = status \/ Busy(a))
  <2>1. \A b \in Attempts : Busy(b)' => Busy(b)  BY <1>2
  <2> HIDE DEF Busy
  <2> QED  BY <1>1, <1>2, <2>1 DEF OneAtATime
<1>3. CASE /\ Busy(a) /\ ~Busy(a)'
           /\ \/ timers' = timers + 1 /\ refused' = refused
              \/ timers' = timers /\ refused' = generation /\ status' = "disconnected"
  <2>1. timers = 0 /\ refused # generation  BY <1>1, <1>3 DEF OneAtATime
  <2>2. \A b \in Attempts : ~Busy(b)'  BY <1>3 DEF OneAtATime
  <2> QED  BY <1>1, <1>3, <2>1, <2>2 DEF OneAtATime
<1> QED  BY <1>2, <1>3 DEF HandsOn

(* What a callback of attempt a may do to what the store holds.             *)
Handles(a) ==
  /\ Only(a) /\ UNCHANGED <<closed, generation>>
  /\ attemptId' = attemptId \/ (attemptId' = a /\ Waits(a))
  /\ \/ socket' = socket
     \/ socket' = None /\ socket \in {<<a, 1>>, <<a, 2>>}
     \/ socket' \in {<<a, 1>>, <<a, 2>>} /\ ~Stale(a)
  /\ \/ quicConnection' = quicConnection
     \/ quicConnection' = None /\ quicConnection = a
     \/ quicConnection' = a /\ ~Stale(a)

LEMMA OthersHold ==
  ASSUME TypeInv, Single, NEW a \in Attempts, Handles(a), NEW b \in Attempts \ {a}
  PROVE  /\ HoldsSocket(b)' /\ HoldsQuic(b)' /\ (Busy(b)' => Busy(b))
         /\ socket' = <<b, 1>> <=> socket = <<b, 1>>
         /\ quicConnection' = b <=> quicConnection = b
<1>1. /\ at'[b] = at[b] /\ UNCHANGED <<closed, generation>>
      /\ HoldsSocket(b) /\ HoldsQuic(b) /\ None # b
  BY NoneIsFree DEF Handles, Only, Single
<1>2. attemptId' # attemptId => ~Live(b) /\ socket # <<b, 1>> /\ quicConnection # b
  BY HeldIsLive DEF Handles, Single, OneAtATime, Busy
<1>3. ~Stale(a) => Stale(b)  BY DEF Stale
<1>4. attemptId' = b => attemptId = b  BY DEF Handles
<1>5. Stale(b)' <=> Stale(b) \/ attemptId' # attemptId
  BY <1>1, <1>4 DEF Stale, Handles
<1>6. None # <<b, 1>> /\ None # <<b, 2>>  BY NoneIsFree DEF Sockets
<1>7. /\ socket' = <<b, 1>> => socket = <<b, 1>>
      /\ socket' = <<b, 2>> => socket = <<b, 2>>
      /\ socket = <<b, 1>> => socket' = <<b, 1>>
  BY <1>1, <1>3, <1>6 DEF Handles, HoldsSocket
<1>8. quicConnection' = b <=> quicConnection = b
  BY <1>1, <1>3 DEF Handles, HoldsQuic
<1>9. HoldsSocket(b)'  BY <1>1, <1>2, <1>5, <1>7 DEF HoldsSocket
<1>10. HoldsQuic(b)'  BY <1>1, <1>2, <1>5, <1>8 DEF HoldsQuic
<1>11. Busy(b)' => Busy(b)
  BY <1>1, <1>5, <1>7, <1>8 DEF Busy, Waits, Live, Superseded
<1> QED  BY <1>7, <1>8, <1>9, <1>10, <1>11

(* A callback keeps everything that it keeps for its own attempt.           *)
LEMMA SingleStep ==
  ASSUME TypeInv, Single, NEW a \in Attempts, Handles(a), HandsOn(a),
         HoldsSocket(a)', HoldsQuic(a)', ActiveIsUp'
  PROVE  Single'
<1>1. \A b \in Attempts \ {a} : HoldsSocket(b)' /\ HoldsQuic(b)' /\ (Busy(b)' => Busy(b))
  BY OthersHold
<1>2. OneAtATime'  BY <1>1, OneAtATimeNext DEF Handles, Single
<1> QED  BY <1>1, <1>2 DEF Single

(* Only one attempt at a time is busy.                                      *)
LEMMA BusyAlone ==
  ASSUME TypeInv, Single, NEW a \in Attempts, Busy(a)
  PROVE  /\ timers = 0 /\ refused # generation
         /\ \A b \in Attempts : Live(b) => b = a
         /\ quicConnection \in {None, a} /\ socket \in {None, <<a, 1>>}
         /\ Waits(a) => quicConnection = None /\ socket = None /\ active = None
         /\ Live(a) /\ ~at[a].settled => quicConnection = None /\ active = None
<1>1. timers = 0 /\ refused # generation /\ \A b \in Attempts : Live(b) => b = a
  BY DEF TypeInv, Typed, Single, OneAtATime, Busy
<1>2. quicConnection \in {None, a}  BY <1>1, HeldIsLive DEF TypeInv, Typed
<1>3. socket \in {None, <<a, 1>>}
  <2>1. CASE socket # None
    <3>1. PICK b \in Attempts, i \in Sockets : socket = <<b, i>>
      BY <2>1 DEF TypeInv, Typed
    <3>2. i = 1  BY <3>1 DEF Single, HoldsSocket, Sockets
    <3> QED  BY <1>1, <3>1, <3>2, HeldIsLive
  <2> QED  BY <2>1
<1>4. ASSUME Waits(a) PROVE quicConnection = None /\ socket = None /\ active = None
  <2>1. quicConnection = None /\ socket = None  BY <1>2, <1>3, <1>4, HeldIsLive
  <2>2. \A b \in Attempts : socket # <<b, 1>>  BY <2>1, NoneIsFree DEF Sockets
  <2> QED  BY <2>1, <2>2 DEF Single, ActiveIsUp, TypeInv, Typed
<1>5. ASSUME Live(a), ~at[a].settled PROVE quicConnection = None /\ active = None
  <2>1. quicConnection = None  BY <1>2, <1>5 DEF Single, HoldsQuic
  <2>2. \A b \in Attempts : ~(socket = <<b, 1>> /\ at[b].settled)
    BY <1>1, <1>5, HeldIsLive
  <2> QED  BY <2>1, <2>2 DEF Single, ActiveIsUp, TypeInv, Typed
<1> QED  BY <1>1, <1>2, <1>3, <1>4, <1>5
----------------------------------------------------------------------------
(* Every callback leaves one thing at a time.                              *)

LEMMA ActiveStays ==
  ASSUME Single, NEW a \in Attempts, Only(a), UNCHANGED <<active, socket, quicConnection>>,
         socket = <<a, 1>> => (at'[a].settled <=> at[a].settled)
  PROVE  ActiveIsUp'
<1>1. \A b \in Attempts \ {a} : at'[b] = at[b]  BY DEF Only
<1>2. \A b \in Attempts : socket = <<b, 1>> => (at'[b].settled <=> at[b].settled)
  BY <1>1
<1>3. ActiveIsUp  BY DEF Single
<1> QED  BY <1>2, <1>3 DEF ActiveIsUp

LEMMA ActiveIsNone ==
  ASSUME active' = None, quicConnection' = None,
         \A b \in Attempts : socket' = <<b, 1>> => ~at'[b].settled
  PROVE  ActiveIsUp'
BY TransportAssumption DEF ActiveIsUp

LEMMA TokenSingle ==
  ASSUME TypeInv, Single, NEW a \in Attempts,
         GotToken(a) \/ NoToken(a) \/ TokenThrows(a)
  PROVE  Single'
<1>1. /\ at \in [Attempts -> Attempt] /\ at[a] \in Attempt /\ Coherent(a)
      /\ at[a].pc = "token" /\ HoldsSocket(a)
      /\ UNCHANGED <<closed, generation, socket, quicConnection, timers, refused>>
  BY DEF TypeInv, Typed, Single, GotToken, NoToken, TokenThrows, store
<1>2. /\ attemptId # a /\ quicConnection # a /\ socket # <<a, 1>> /\ socket # <<a, 2>>
      /\ ~at[a].known /\ at[a].ws[1] = "none" /\ at[a].quic = "none"
  BY <1>1 DEF Coherent, HoldsSocket, Stale
<1>3. Only(a)  BY <1>1, TokenEffect
<1>4. CASE GotToken(a) /\ ~Superseded(a)
  <2>1. UNCHANGED <<status, active>> /\ attemptId' = a  BY <1>4 DEF GotToken
  <2>2. at'[a] = [at[a] EXCEPT !.pc = "dialing", !.quicTimer = TRUE,
                               !.promise = "pending", !.quic = "handshake"]
    BY <1>1, <1>4, TokenEffect DEF GotToken, Attempt
  <2>3. Waits(a) /\ Busy(a)  BY <1>1, <1>4 DEF Waits, Busy
  <2>4. quicConnection = None /\ socket = None /\ active = None  BY <2>3, BusyAlone
  <2>5. ~at'[a].known /\ at'[a].ws[1] = "none" /\ at'[a].quic = "handshake"
    BY <1>1, <1>2, <2>2 DEF Attempt
  <2>6. Handles(a)  BY <1>1, <1>3, <2>1, <2>3 DEF Handles
  <2>7. HandsOn(a)  BY <1>1, <2>1, <2>3 DEF HandsOn
  <2>8. HoldsSocket(a)' /\ HoldsQuic(a)'
    BY <1>1, <1>2, <2>5 DEF HoldsSocket, HoldsQuic
  <2>9. ActiveIsUp'  BY <1>1, <1>2, <1>3, <2>1, ActiveStays
  <2> QED  BY <2>6, <2>7, <2>8, <2>9, SingleStep
<1>5. CASE ~(GotToken(a) /\ ~Superseded(a))
  <2>1. PICK pc \in {"ended", "threw"} :
          attemptId' = attemptId /\ at'[a] = [at[a] EXCEPT !.pc = pc]
    BY <1>1, <1>5, TokenEffect
  <2>2. at'[a].pc = pc /\ ~at'[a].known /\ at'[a].ws[1] = "none" /\ at'[a].quic = "none"
    BY <1>1, <1>2, <2>1 DEF Attempt
  <2>3. ~Busy(a)'  BY <1>2, <2>1, <2>2 DEF Busy, Waits, Live, Stale
  <2>4. \/ UNCHANGED <<status, active>>
        \/ Waits(a) /\ status' = "disconnected" /\ active' = None
    BY <1>1 DEF GotToken, NoToken, TokenThrows, Waits, store
  <2>5. Waits(a) => /\ Busy(a)
                    /\ quicConnection = None /\ socket = None /\ active = None
    BY BusyAlone DEF Busy
  <2>6. Handles(a)  BY <1>1, <1>3, <2>1 DEF Handles
  <2>7. HandsOn(a)  BY <1>1, <2>3, <2>4, <2>5 DEF HandsOn
  <2>8. HoldsSocket(a)' /\ HoldsQuic(a)'
    BY <1>1, <1>2, <2>2 DEF HoldsSocket, HoldsQuic
  <2>9. ActiveIsUp'
    <3>1. active' = active  BY <2>4, <2>5
    <3> QED  BY <1>1, <1>2, <1>3, <3>1, ActiveStays
  <2> QED  BY <2>6, <2>7, <2>8, <2>9, SingleStep
<1> QED  BY <1>4, <1>5

(* A step of QUIC that JavaScript does not hear of.                         *)
LEMMA NativeSingle ==
  ASSUME TypeInv, Single, NEW a \in Attempts,
         \/ ConnectImpl(a)
         \/ \E why \in {"lost", "refused"} : PeerCloses(a, why)
  PROVE  Single'
<1>1. /\ at \in [Attempts -> Attempt] /\ at[a] \in Attempt /\ Coherent(a)
      /\ HoldsSocket(a) /\ HoldsQuic(a)
      /\ UNCHANGED <<store, refused>>
  BY DEF TypeInv, Typed, Single, ConnectImpl, PeerCloses, NativeStep
<1>2. PICK q \in {"failed", "up", "lost", "refused"} :
        /\ at' = [at EXCEPT ![a].quic = q]
        /\ q \in {"failed", "up"} => at[a].quic = "handshake"
        /\ q \in {"lost", "refused"} => at[a].quic = "up"
  BY DEF ConnectImpl, PeerCloses, NativeStep
<1>3. q \in QuicStates  BY DEF QuicStates
<1>4. Only(a) /\ at'[a] = [at[a] EXCEPT !.quic = q]  BY <1>1, <1>2, <1>3, NativeEffect
<1>5. /\ at'[a].quic = q /\ at'[a].pc = at[a].pc /\ at'[a].gen = at[a].gen
      /\ at'[a].settled = at[a].settled /\ at'[a].discarded = at[a].discarded
      /\ at'[a].known = at[a].known /\ at'[a].ws = at[a].ws
  BY <1>1, <1>4 DEF Attempt
<1>6. UNCHANGED <<status, active, socket, quicConnection, timers, closed, generation,
                  attemptId, refused>>
  BY <1>1 DEF store
<1>7. Busy(a)' <=> Busy(a)
  BY <1>5, <1>6 DEF Busy, Waits, Live, Superseded, Stale
<1>8. Handles(a) /\ HandsOn(a)  BY <1>4, <1>6, <1>7 DEF Handles, HandsOn
<1>9. HoldsSocket(a)'  BY <1>1, <1>5, <1>6 DEF HoldsSocket, Stale
<1>10. HoldsQuic(a)'
  <2>1. q \in {"failed", "up"} => ~at[a].known /\ quicConnection # a
    BY <1>1, <1>2 DEF Coherent
  <2> QED  BY <1>1, <1>5, <1>6, <2>1 DEF HoldsQuic, Stale
<1>11. ActiveIsUp'  BY <1>4, <1>5, <1>6, ActiveStays
<1> QED  BY <1>8, <1>9, <1>10, <1>11, SingleStep

(* An onClosed that comes early is not heeded.                              *)
LEMMA EarlyIsStale ==
  ASSUME TypeInv, Single, NEW a \in Attempts, ~at[a].known, Foreign(a)
  PROVE  Stale(a)
<1>1. CASE closed \/ at[a].gen # generation  BY <1>1 DEF Stale
<1>2. CASE quicConnection # None
  <2>1. PICK b \in Attempts : quicConnection = b
    BY <1>2 DEF TypeInv, Typed
  <2>2. b # a /\ ~Stale(b)  BY <2>1 DEF TypeInv, Coherent, Single, HoldsQuic
  <2> QED  BY <2>2 DEF Stale
<1> QED  BY <1>1, <1>2 DEF Foreign

LEMMA OnClosedSingle ==
  ASSUME TypeInv, Single, NEW a \in Attempts, OnClosed(a), Orderly'
  PROVE  Single'
<1>1. /\ at \in [Attempts -> Attempt] /\ at[a] \in Attempt /\ Coherent(a)
      /\ HoldsSocket(a) /\ HoldsQuic(a)
      /\ UNCHANGED <<socket, closed, generation, attemptId>>
      /\ at[a].early => at[a].quic = "closed"
  BY DEF TypeInv, Typed, Single, OnClosed, Coherent
<1>2. PICK e \in BOOLEAN :
        /\ e <=> (~at[a].known /\ ~Foreign(a))
        /\ at'[a] = [at[a] EXCEPT !.quic = "closed", !.early = e]
  BY <1>1, OnClosedEffect
<1>3. Only(a)  BY <1>1, OnClosedEffect
<1>4. at[a].known \/ Foreign(a)
  <2>1. at'[a].early = e /\ ~at'[a].early  BY <1>1, <1>2 DEF Attempt, Orderly
  <2> QED  BY <1>2, <2>1
<1>5. /\ at'[a].known = at[a].known /\ at'[a].quic = "closed"
      /\ at'[a].pc = at[a].pc /\ at'[a].gen = at[a].gen
      /\ at'[a].settled = at[a].settled /\ at'[a].discarded = at[a].discarded
      /\ at'[a].ws = at[a].ws
  BY <1>1, <1>2 DEF Attempt
<1>6. HoldsSocket(a)'  BY <1>1, <1>5 DEF HoldsSocket, Stale
<1>7. CASE Foreign(a)
  <2>1. UNCHANGED <<status, active, timers, quicConnection, refused>>
    BY <1>7 DEF OnClosed
  <2>2. quicConnection # a  BY <1>1, <1>7 DEF Foreign, HoldsQuic, Stale, Coherent
  <2>3. Busy(a)' <=> Busy(a)
    BY <1>1, <1>5, <2>1 DEF Busy, Waits, Live, Superseded, Stale
  <2>4. Handles(a) /\ HandsOn(a)  BY <1>1, <1>3, <2>1, <2>3 DEF Handles, HandsOn
  <2>5. HoldsQuic(a)'
    <3>1. ~at[a].known => Stale(a)'
      BY <1>1, <1>5, <1>7, EarlyIsStale DEF Stale
    <3> QED  BY <1>5, <2>1, <2>2, <3>1 DEF HoldsQuic
  <2>6. ActiveIsUp'  BY <1>1, <1>3, <1>5, <2>1, ActiveStays
  <2> QED  BY <1>6, <2>4, <2>5, <2>6, SingleStep
<1>8. CASE ~Foreign(a)
  <2>1. quicConnection = a /\ quicConnection' = None /\ Ends(at[a].quic)
    BY <1>1, <1>8, <1>4 DEF Foreign, OnClosed
  <2>2. Live(a) /\ Busy(a) /\ at[a].settled /\ at[a].pc = "dialing"
    BY <1>1, <2>1, HeldIsLive DEF HoldsQuic, Busy
  <2>3. active = "quic"
    BY <2>1, NoneIsFree DEF Single, ActiveIsUp
  <2>4. \A b \in Attempts : socket # <<b, 1>>
    BY <2>2, <2>3, BusyAlone, HeldIsLive DEF Single, ActiveIsUp
  <2>5. ~Busy(a)'
    BY <1>1, <1>5, <2>1, <2>2, <2>4, NoneIsFree DEF Busy, Waits, Live
  <2>6. active' = None
        /\ \/ timers' = timers + 1 /\ refused' = refused
           \/ timers' = timers /\ refused' = generation /\ status' = "disconnected"
    BY <2>1 DEF Ends, Reconnect, Disconnected
  <2>7. Handles(a) /\ HandsOn(a)  BY <1>1, <1>3, <2>1, <2>2, <2>5, <2>6 DEF Handles, HandsOn
  <2>8. HoldsQuic(a)'  BY <1>5, <1>8, <1>4, <2>1, NoneIsFree DEF HoldsQuic
  <2>9. ActiveIsUp'  BY <1>1, <2>1, <2>4, <2>6, ActiveIsNone
  <2> QED  BY <1>6, <2>7, <2>8, <2>9, SingleStep
<1> QED  BY <1>7, <1>8

LEMMA FallbackSingle ==
  ASSUME TypeInv, Single, NEW a \in Attempts, QuicTimeout(a) \/ Rejected(a),
         Orderly'
  PROVE  Single'
<1>1. /\ at[a] \in Attempt /\ Coherent(a) /\ HoldsSocket(a) /\ HoldsQuic(a)
      /\ UNCHANGED <<status, active, quicConnection, timers, closed, generation,
                     attemptId, refused>>
  BY DEF TypeInv, Typed, Single, QuicTimeout, Rejected
<1>2. Fallback(a) /\ (DialsNone(a) \/ \E i \in Sockets : Dials(a, i))
  BY FallbackEffect
<1>3. Only(a) /\ at'[a].pc = at[a].pc /\ at'[a].gen = at[a].gen
      /\ at'[a].settled = at[a].settled /\ at'[a].discarded = at[a].discarded
      /\ at'[a].known = at[a].known /\ at'[a].quic = at[a].quic
  BY <1>2 DEF Fallback, Keeps
<1>4. HoldsQuic(a)'  BY <1>1, <1>3 DEF HoldsQuic, Stale
<1>5. CASE DialsNone(a)
  <2>1. socket' = socket /\ at'[a].ws = at[a].ws  BY <1>5 DEF DialsNone
  <2>2. Busy(a)' <=> Busy(a)
    BY <1>1, <1>3, <2>1 DEF Busy, Waits, Live, Superseded, Stale
  <2>3. Handles(a) /\ HandsOn(a)  BY <1>1, <1>3, <2>1, <2>2 DEF Handles, HandsOn
  <2>4. HoldsSocket(a)'  BY <1>1, <1>3, <2>1 DEF HoldsSocket, Stale
  <2>5. ActiveIsUp'  BY <1>1, <1>3, <2>1, ActiveStays
  <2> QED  BY <1>4, <2>3, <2>4, <2>5, SingleStep
<1>6. ASSUME NEW i \in Sockets, Dials(a, i) PROVE Single'
  <2>1. i = 1  BY <1>6 DEF Dials, Orderly, Attempt, Sockets
  <2>2. ~Stale(a) /\ ~at[a].settled /\ socket' = <<a, 1>> /\ at'[a].ws[1] = "dialing"
    BY <1>6, <2>1 DEF Dials
  <2>3. Live(a) /\ Busy(a)  BY <2>2 DEF Live, Busy
  <2>4. quicConnection = None /\ active = None  BY <2>2, <2>3, BusyAlone
  <2>5. Handles(a) /\ HandsOn(a)  BY <1>1, <1>3, <2>2, <2>3 DEF Handles, HandsOn
  <2>6. HoldsSocket(a)'
    <3>1. ~at[a].discarded  BY <1>1, <2>2 DEF Coherent
    <3>2. ~Stale(a)'  BY <1>1, <1>3, <2>2 DEF Stale
    <3> QED  BY <1>3, <2>2, <3>1, <3>2 DEF HoldsSocket
  <2>7. ActiveIsUp'  BY <1>1, <1>3, <2>2, <2>4, ActiveIsNone
  <2> QED  BY <1>4, <2>5, <2>6, <2>7, SingleStep
<1> QED  BY <1>2, <1>5, <1>6

LEMMA ResolvedSingle ==
  ASSUME TypeInv, Single, NEW a \in Attempts, Resolved(a), Orderly
  PROVE  Single'
<1>1. /\ at \in [Attempts -> Attempt] /\ at[a] \in Attempt /\ Coherent(a)
      /\ HoldsSocket(a) /\ HoldsQuic(a) /\ at[a].promise = "pending"
      /\ at[a].quic \in {"up", "lost", "refused", "closed"}
      /\ UNCHANGED <<timers, closed, generation, attemptId, refused>>
  BY DEF TypeInv, Typed, Single, Resolved
<1>2. ~at[a].known /\ quicConnection # a /\ (at[a].quic = "closed" => Stale(a))
      /\ at[a].pc = "dialing"
  BY <1>1 DEF Coherent, HoldsQuic
<1>3. Only(a)  BY <1>1, ResolvedEffect
<1>4. CASE ~TooLate(a) /\ FinishWithQuic(a)
  <2>1. PICK d \in BOOLEAN, w \in [Sockets -> WsStates] :
          /\ w = [i \in Sockets |-> IF i = at[a].dialled /\ ~at[a].discarded
                                    THEN ShutWs(at[a].ws[i]) ELSE at[a].ws[i]]
          /\ at'[a] = [at[a] EXCEPT !.promise = "resolved", !.known = TRUE,
                                    !.settled = TRUE, !.quicTimer = FALSE,
                                    !.discarded = d, !.ws = w]
    BY <1>1, <1>4, ResolvedEffect
  <2>2. /\ at'[a].settled /\ at'[a].quic = at[a].quic /\ at'[a].ws = w
        /\ at'[a].gen = at[a].gen
    BY <1>1, <2>1 DEF Attempt
  <2>3. ~Stale(a) /\ ~at[a].settled /\ ~at[a].discarded
    BY <1>1, <1>4 DEF TooLate, Coherent
  <2>4. Live(a) /\ Busy(a)  BY <2>3 DEF Live, Busy
  <2>5. at[a].dialled \in {0, 1} /\ (at[a].dialled = 0 => at[a].ws[1] = "none")
    BY <1>1 DEF Orderly, Attempt, Coherent
  <2>6. w[1] \notin {"dialing", "open"}  BY <2>1, <2>3, <2>5 DEF ShutWs, Sockets
  <2>7. socket' = None
    <3>1. socket' = IF socket = <<a, at[a].dialled>> THEN None ELSE socket
      BY <1>4 DEF FinishWithQuic
    <3>2. socket \in {None, <<a, 1>>}  BY <2>4, BusyAlone
    <3>3. socket = <<a, 1>> => at[a].dialled = 1
      BY <1>1, <2>3, <2>5 DEF HoldsSocket
    <3> QED  BY <3>1, <3>2, <3>3
  <2>8. quicConnection' = a /\ status' = "connected" /\ active' = "quic"
    BY <1>4 DEF FinishWithQuic
  <2>9. Handles(a)
    <3>1. socket' = socket \/ socket = <<a, 1>>  BY <2>4, <2>7, BusyAlone
    <3> QED  BY <1>1, <1>3, <2>3, <2>7, <2>8, <3>1 DEF Handles
  <2>10. HandsOn(a)  BY <1>1, <2>4 DEF HandsOn
  <2>11. HoldsSocket(a)'  BY <2>2, <2>6, <2>7, NoneIsFree DEF HoldsSocket, Sockets
  <2>12. HoldsQuic(a)'
    BY <1>1, <1>2, <2>2, <2>3, <2>8 DEF HoldsQuic, Stale
  <2>13. ActiveIsUp'  BY <2>7, <2>8, NoneIsFree DEF ActiveIsUp, Sockets
  <2> QED  BY <2>9, <2>10, <2>11, <2>12, <2>13, SingleStep
<1>5. CASE ~(~TooLate(a) /\ FinishWithQuic(a))
  <2>1. /\ UNCHANGED <<status, active, socket, quicConnection>>
        /\ at'[a] = [at[a] EXCEPT !.promise = "resolved", !.known = TRUE,
                                  !.quicTimer = FALSE, !.quic = ShutQuic(at[a].quic)]
    BY <1>1, <1>5, ResolvedEffect
  <2>2. /\ at'[a].quic # "up" /\ at'[a].pc = at[a].pc /\ at'[a].gen = at[a].gen
        /\ at'[a].settled = at[a].settled /\ at'[a].discarded = at[a].discarded
        /\ at'[a].ws = at[a].ws
    BY <1>1, <2>1 DEF Attempt, ShutQuic
  <2>3. Busy(a)' <=> Busy(a)
    BY <1>1, <2>1, <2>2 DEF Busy, Waits, Live, Superseded, Stale
  <2>4. Handles(a) /\ HandsOn(a)  BY <1>1, <1>3, <2>1, <2>3 DEF Handles, HandsOn
  <2>5. HoldsSocket(a)'  BY <1>1, <2>1, <2>2 DEF HoldsSocket, Stale
  <2>6. HoldsQuic(a)'  BY <1>2, <2>1, <2>2 DEF HoldsQuic
  <2>7. ActiveIsUp'  BY <1>3, <2>1, <2>2, ActiveStays
  <2> QED  BY <2>4, <2>5, <2>6, <2>7, SingleStep
<1> QED  BY <1>4, <1>5

(* An event of a WebSocket is of the first one.                             *)
LEMMA FirstSocket ==
  ASSUME TypeInv, Orderly, NEW a \in Attempts, NEW i \in Sockets,
         at[a].ws[i] # "none"
  PROVE  i = 1
<1>1. at[a] \in Attempt /\ Coherent(a)  BY DEF TypeInv, Typed
<1>2. at[a].dialled < 2  BY <1>1 DEF Orderly, Attempt
<1> QED  BY <1>1, <1>2 DEF Coherent, Sockets

LEMMA WsOpensSingle ==
  ASSUME TypeInv, Single, Orderly, NEW a \in Attempts, NEW i \in Sockets,
         WsOpens(a, i)
  PROVE  Single'
<1>1. /\ at \in [Attempts -> Attempt] /\ at[a] \in Attempt /\ Coherent(a)
      /\ HoldsSocket(a) /\ HoldsQuic(a)
      /\ UNCHANGED <<socket, quicConnection, timers, closed, generation, attemptId,
                     refused>>
  BY DEF TypeInv, Typed, Single, WsOpens
<1>2. i = 1 /\ at[a].ws[1] = "dialing"  BY FirstSocket DEF WsOpens
<1>3. socket = <<a, 1>> /\ ~Stale(a) /\ ~at[a].discarded /\ ~at[a].settled
  BY <1>1, <1>2 DEF HoldsSocket
<1>4. /\ Only(a) /\ status' = "connected" /\ active' = "ws"
      /\ at'[a] = [at[a] EXCEPT !.ws[1] = "open", !.settled = TRUE,
                                !.discarded = at[a].discarded]
  BY <1>1, <1>2, <1>3, WsOpensEffect
<1>5. /\ at'[a].ws[1] = "open" /\ at'[a].settled /\ ~at'[a].discarded
      /\ at'[a].quic = at[a].quic /\ at'[a].known = at[a].known
      /\ at'[a].gen = at[a].gen
  BY <1>1, <1>3, <1>4 DEF Attempt, Sockets
<1>6. Live(a) /\ Busy(a)  BY <1>3 DEF Live, Busy
<1>7. quicConnection = None  BY <1>3, <1>6, BusyAlone
<1>8. Handles(a) /\ HandsOn(a)  BY <1>1, <1>4, <1>6 DEF Handles, HandsOn
<1>9. ~Stale(a)'  BY <1>1, <1>3, <1>5 DEF Stale
<1>10. HoldsSocket(a)'  BY <1>1, <1>3, <1>5, <1>9 DEF HoldsSocket
<1>11. HoldsQuic(a)'  BY <1>1, <1>3, <1>5, <1>7, NoneIsFree DEF HoldsQuic
<1>12. ActiveIsUp'  BY <1>1, <1>3, <1>4, <1>5, <1>7 DEF ActiveIsUp
<1> QED  BY <1>8, <1>10, <1>11, <1>12, SingleStep

LEMMA WsClosesSingle ==
  ASSUME TypeInv, Single, Orderly, NEW a \in Attempts, NEW i \in Sockets,
         NEW why \in {"lost", "refused"}, WsCloses(a, i, why)
  PROVE  Single'
<1>1. /\ at \in [Attempts -> Attempt] /\ at[a] \in Attempt /\ Coherent(a)
      /\ HoldsSocket(a) /\ HoldsQuic(a) /\ at[a].ws[i] # "none"
      /\ UNCHANGED <<quicConnection, closed, generation, attemptId>>
  BY DEF TypeInv, Typed, Single, WsCloses
<1>2. i = 1 /\ at[a].ws[1] \in {"dialing", "open", "closing"}
  BY <1>1, FirstSocket DEF WsCloses
<1>3. socket' = (IF socket = <<a, 1>> THEN None ELSE socket) /\ WsEnds(a, why)
  BY <1>2 DEF WsCloses
<1>4. Only(a) /\ \E s \in BOOLEAN :
        /\ s <=> (at[a].settled \/ (~Stale(a) /\ ~at[a].discarded))
        /\ at'[a] = [at[a] EXCEPT !.ws[1] = "closed", !.settled = s,
                                  !.discarded = at[a].discarded]
  BY <1>1, <1>2, WsClosesEffect
<1>5. /\ at'[a].ws[1] = "closed" /\ at'[a].discarded = at[a].discarded
      /\ at'[a].settled <=> (at[a].settled \/ (~Stale(a) /\ ~at[a].discarded))
      /\ at'[a].pc = at[a].pc /\ at'[a].gen = at[a].gen
      /\ at'[a].quic = at[a].quic /\ at'[a].known = at[a].known
  <2>1. PICK s \in BOOLEAN :
          /\ s <=> (at[a].settled \/ (~Stale(a) /\ ~at[a].discarded))
          /\ at'[a] = [at[a] EXCEPT !.ws[1] = "closed", !.settled = s,
                                    !.discarded = at[a].discarded]
    BY <1>4
  <2> QED  BY <1>1, <2>1 DEF Attempt, Sockets
<1>6. CASE Stale(a) \/ at[a].discarded
  <2>1. socket # <<a, 1>>  BY <1>1, <1>6 DEF HoldsSocket
  <2>2. UNCHANGED <<status, active, timers, refused, socket>>
    BY <1>3, <1>6, <2>1 DEF WsEnds
  <2>3. at'[a].settled <=> at[a].settled  BY <1>5, <1>6
  <2>4. Busy(a)' <=> Busy(a)
    BY <1>1, <1>5, <2>2, <2>3 DEF Busy, Waits, Live, Superseded, Stale
  <2>5. Handles(a) /\ HandsOn(a)  BY <1>1, <1>4, <2>2, <2>4 DEF Handles, HandsOn
  <2>6. HoldsSocket(a)'  BY <1>1, <1>5, <2>1, <2>2 DEF HoldsSocket
  <2>7. HoldsQuic(a)'  BY <1>1, <1>5, <2>2, <2>3 DEF HoldsQuic, Stale
  <2>8. ActiveIsUp'  BY <1>1, <1>4, <2>1, <2>2, ActiveStays
  <2> QED  BY <2>5, <2>6, <2>7, <2>8, SingleStep
<1>7. CASE ~Stale(a) /\ ~at[a].discarded
  <2>1. at[a].ws[1] # "closing"  BY <1>1, <1>7 DEF Coherent, Sockets
  <2>2. socket = <<a, 1>> /\ socket' = None  BY <1>1, <1>2, <1>3, <2>1 DEF HoldsSocket
  <2>3. Live(a) /\ Busy(a) /\ at[a].pc = "dialing"  BY <2>2, HeldIsLive DEF Busy
  <2>4. quicConnection = None
    <3>1. CASE at[a].settled
      <4>1. active = "ws"  BY <2>2, <3>1 DEF Single, ActiveIsUp
      <4> QED  BY <4>1 DEF Single, ActiveIsUp
    <3>2. CASE ~at[a].settled  BY <2>3, <3>2, BusyAlone
    <3> QED  BY <3>1, <3>2
  <2>5. ~Busy(a)'
    <3>1. socket' # <<a, 1>> /\ quicConnection' # a
      BY <1>1, <2>2, <2>4, NoneIsFree DEF Sockets
    <3> QED  BY <1>5, <1>7, <2>3, <3>1 DEF Busy, Waits, Live
  <2>6. active' = None
        /\ \/ timers' = timers + 1 /\ refused' = refused
           \/ timers' = timers /\ refused' = generation /\ status' = "disconnected"
    BY <1>3, <1>7 DEF WsEnds, Ends, Reconnect, Disconnected
  <2>7. Handles(a) /\ HandsOn(a)
    BY <1>1, <1>4, <2>2, <2>3, <2>5, <2>6 DEF Handles, HandsOn
  <2>8. HoldsSocket(a)'  BY <1>5, <2>2, NoneIsFree DEF HoldsSocket, Sockets
  <2>9. HoldsQuic(a)'  BY <1>1, <1>5, <1>7, <2>4, NoneIsFree DEF HoldsQuic
  <2>10. ActiveIsUp'
    BY <1>1, <2>2, <2>4, <2>6, NoneIsFree, ActiveIsNone DEF Sockets
  <2> QED  BY <2>7, <2>8, <2>9, <2>10, SingleStep
<1> QED  BY <1>6, <1>7
----------------------------------------------------------------------------
(* A new attempt, and the end of a generation.                              *)

LEMMA BeginsHolds ==
  ASSUME TypeInv, Single, NEW a \in Attempts, NEW g \in Nat, Begins(a, g),
         UNCHANGED <<socket, attemptId>>, quicConnection' \in {quicConnection, None},
         \A b \in Attempts : ~Live(b),
         \/ UNCHANGED <<closed, generation>>
         \/ g = generation + 1 /\ generation' = g
  PROVE  \A b \in Attempts : /\ HoldsSocket(b)' /\ HoldsQuic(b)' /\ socket # <<b, 1>>
                             /\ b # a => (Busy(b)' => Busy(b))
<1> SUFFICES ASSUME NEW b \in Attempts
             PROVE  /\ HoldsSocket(b)' /\ HoldsQuic(b)' /\ socket # <<b, 1>>
                    /\ b # a => (Busy(b)' => Busy(b))
  OBVIOUS
<1>1. /\ socket # <<b, 1>> /\ quicConnection # b /\ quicConnection' # b
      /\ HoldsSocket(b) /\ HoldsQuic(b) /\ Coherent(b) /\ Coherent(a)
      /\ generation \in Nat /\ at[b] \in Attempt
  BY HeldIsLive, NoneIsFree DEF TypeInv, Typed, Single
<1>2. /\ at'[a].ws[1] = "none" /\ ~at'[a].known /\ at'[a].quic = "none"
      /\ attemptId' # a
  BY <1>1 DEF Begins, Unused, Sockets, Coherent
<1>3. b # a => at'[b] = at[b]  BY DEF Begins, Only
<1>4. HoldsSocket(b)'  BY <1>1, <1>2, <1>3 DEF HoldsSocket
<1>5. at[b].gen # generation + 1  BY <1>1 DEF Coherent, Attempt
<1>6. b # a /\ Stale(b) => Stale(b)'  BY <1>1, <1>3, <1>5 DEF Stale, Coherent, Attempt
<1>7. HoldsQuic(b)'  BY <1>1, <1>2, <1>3, <1>6 DEF HoldsQuic
<1>8. ~Live(b)'
  <2>1. CASE b = a  BY <1>2, <2>1 DEF Live, Stale
  <2>2. CASE b # a
    <3>1. CASE UNCHANGED <<closed, generation>>
      BY <1>1, <1>3, <2>2, <3>1 DEF Live, Stale
    <3>2. CASE generation' = generation + 1
      BY <1>3, <1>5, <2>2, <3>2 DEF Live, Stale
    <3> QED  BY <3>1, <3>2
  <2> QED  BY <2>1, <2>2
<1>9. b # a => (Waits(b)' => Waits(b))  BY <1>3, <1>5 DEF Waits, Superseded
<1> QED  BY <1>1, <1>4, <1>7, <1>8, <1>9 DEF Busy

LEMMA ConnectSingle ==
  ASSUME TypeInv, Single, Connect
  PROVE  Single'
<1> DEFINE g == generation + 1
<1>1. /\ closed /\ g \in Nat /\ generation \in Nat /\ generation' = g /\ g = generation + 1
      /\ timers' = 0 /\ active' = None
      /\ UNCHANGED <<socket, quicConnection, attemptId, refused>>
  BY DEF Connect, TypeInv, Typed
<1>2. PICK a \in NextAttempt :
        at' = [at EXCEPT ![a] = [Unused EXCEPT !.gen = g, !.pc = "token"]]
  BY DEF Connect
<1> HIDE DEF g
<1>3. a \in Attempts /\ Begins(a, g)  BY <1>1, <1>2, BeginsEffect
<1>4. \A b \in Attempts : ~Live(b) /\ ~Busy(b)
  BY <1>1 DEF Busy, Live, Waits, Stale, Superseded
<1>5. \A b \in Attempts : /\ HoldsSocket(b)' /\ HoldsQuic(b)' /\ (b # a => ~Busy(b)')
                          /\ socket # <<b, 1>>
  BY <1>1, <1>3, <1>4, BeginsHolds
<1>6. refused' # generation'
  BY <1>1, TransportAssumption DEF TypeInv, Typed, Counted
<1>7. quicConnection = None
  BY <1>4, HeldIsLive DEF TypeInv, Typed
<1>8. ActiveIsUp'  BY <1>1, <1>5, <1>7, ActiveIsNone
<1>9. OneAtATime'  BY <1>1, <1>5, <1>6 DEF OneAtATime
<1> QED  BY <1>5, <1>8, <1>9 DEF Single

LEMMA TimerSingle ==
  ASSUME TypeInv, Single, TimerFires
  PROVE  Single'
<1>1. /\ generation \in Nat /\ timers > 0 /\ timers = 1 /\ timers' = 0
      /\ \A b \in Attempts : ~Busy(b)
      /\ UNCHANGED <<active, socket, quicConnection, closed, generation, attemptId, refused>>
  BY DEF TimerFires, TypeInv, Typed, Single, OneAtATime
<1>2. PICK a \in NextAttempt :
        at' = [at EXCEPT ![a] = [Unused EXCEPT !.gen = generation, !.pc = "token"]]
  BY DEF TimerFires
<1>3. a \in Attempts /\ Begins(a, generation)  BY <1>1, <1>2, BeginsEffect
<1>4. \A b \in Attempts : ~Live(b)  BY <1>1 DEF Busy
<1>5. \A b \in Attempts : /\ HoldsSocket(b)' /\ HoldsQuic(b)' /\ (b # a => ~Busy(b)')
                          /\ socket # <<b, 1>>
  BY <1>1, <1>3, <1>4, BeginsHolds
<1>6. refused' # generation'  BY <1>1 DEF Single, OneAtATime
<1>7. ActiveIsUp'
  BY <1>1, <1>3, <1>5, ActiveStays DEF Begins
<1>8. OneAtATime'  BY <1>1, <1>5, <1>6 DEF OneAtATime
<1> QED  BY <1>5, <1>7, <1>8 DEF Single

LEMMA CloseSingle ==
  ASSUME TypeInv, Single, Close
  PROVE  Single'
<1>1. /\ at \in [Attempts -> Attempt] /\ generation \in Nat /\ generation' = generation + 1
      /\ closed' /\ timers' = 0 /\ active' = None /\ socket' = None
      /\ quicConnection' = None /\ refused' = refused
  BY Zenon DEF Close, TypeInv, Typed
<1>2. ASSUME NEW a \in Attempts
      PROVE  HoldsSocket(a)' /\ HoldsQuic(a)' /\ ~Busy(a)'
  <2>1. PICK q \in QuicStates, ws \in [Sockets -> WsStates] :
          /\ at'[a] = [at[a] EXCEPT !.ws = ws, !.quic = q]
          /\ q = IF a = quicConnection THEN ShutQuic(at[a].quic) ELSE at[a].quic
          /\ \A i \in Sockets : ws[i] = IF socket = <<a, i>> THEN ShutWs(at[a].ws[i])
                                        ELSE at[a].ws[i]
    BY <1>1, CloseEffect
  <2>2. at'[a].ws = ws /\ at'[a].quic = q /\ at'[a].known = at[a].known
    BY <1>1, <2>1 DEF Attempt
  <2>3. ws[1] \notin {"dialing", "open"}
    BY <2>1 DEF Single, HoldsSocket, ShutWs, Sockets
  <2>4. ~(at[a].known /\ q = "up")  BY <2>1 DEF Single, HoldsQuic, ShutQuic
  <2>5. HoldsSocket(a)'  BY <1>1, <2>2, <2>3, NoneIsFree DEF HoldsSocket, Sockets
  <2>6. HoldsQuic(a)'  BY <1>1, <2>2, <2>4, NoneIsFree DEF HoldsQuic, Stale
  <2>7. ~Busy(a)'  BY <1>1 DEF Busy, Waits, Live, Superseded, Stale
  <2> QED  BY <2>5, <2>6, <2>7
<1>3. refused' # generation'
  BY <1>1, TransportAssumption DEF TypeInv, Typed, Counted
<1>4. ActiveIsUp'  BY <1>1, NoneIsFree, ActiveIsNone DEF Sockets
<1>5. OneAtATime'  BY <1>1, <1>2, <1>3 DEF OneAtATime
<1> QED  BY <1>2, <1>4, <1>5 DEF Single

(* What upset an attempt is not undone.                                     *)
LEMMA OrderlyBefore ==
  ASSUME TypeInv, [Next]_vars, Orderly'
  PROVE  Orderly
<1>0. at \in [Attempts -> Attempt] /\ at' \in [Attempts -> Attempt]
  BY CoherentNext DEF TypeInv, Typed
<1> SUFFICES ASSUME NEW a \in Attempts
             PROVE  at[a].dialled <= at'[a].dialled /\ (at[a].early => at'[a].early)
  BY <1>0 DEF Orderly, Attempt
<1>1. at[a] \in Attempt /\ at'[a] \in Attempt  BY <1>0
<1>2. at[a].dialled \in Nat /\ at'[a].dialled \in Nat  BY <1>1 DEF Attempt
<1>3. ASSUME NEW b \in Attempts, Only(b)
      PROVE  at[a].dialled <= at'[a].dialled /\ (at[a].early => at'[a].early)
  BY <1>2, <1>3 DEF Only
<1>4. CASE UNCHANGED vars  BY <1>2, <1>4 DEF vars
<1>5. CASE Connect \/ TimerFires
  <2>1. generation \in Nat /\ generation + 1 \in Nat  BY DEF TypeInv, Typed
  <2>2. PICK b \in NextAttempt, g \in Nat :
          at' = [at EXCEPT ![b] = [Unused EXCEPT !.gen = g, !.pc = "token"]]
    BY <1>5, <2>1 DEF Connect, TimerFires
  <2>3. b \in Attempts /\ Only(b)  BY <2>2, BeginsEffect DEF Begins
  <2> QED  BY <1>3, <2>3
<1>6. CASE Close
  <2>1. PICK q \in QuicStates, ws \in [Sockets -> WsStates] :
          /\ at'[a] = [at[a] EXCEPT !.ws = ws, !.quic = q]
          /\ q = IF a = quicConnection THEN ShutQuic(at[a].quic) ELSE at[a].quic
    BY <1>0, <1>6, CloseEffect
  <2>2. at'[a].dialled = at[a].dialled /\ at'[a].early = at[a].early
    BY <1>1, <2>1 DEF Attempt
  <2> QED  BY <1>2, <2>2
<1>7. ASSUME NEW b \in Attempts, Event(b) \/ Breaks(b) PROVE Only(b)
  BY <1>7, EventCoherent
<1> QED  BY <1>3, <1>4, <1>5, <1>6, <1>7 DEF Next

LEMMA SingleNext ==
  ASSUME TypeInv, SingleInv, [Next]_vars
  PROVE  SingleInv'
<1> SUFFICES ASSUME Orderly' PROVE Single'
  BY DEF SingleInv
<1>1. Orderly /\ Single  BY OrderlyBefore DEF SingleInv
<1>2. CASE UNCHANGED vars
  BY <1>1, <1>2 DEF vars, store, Single, OneAtATime, ActiveIsUp, HoldsSocket, HoldsQuic,
                    Busy, Waits, Live, Superseded, Stale
<1>3. CASE Connect  BY <1>1, <1>3, ConnectSingle
<1>4. CASE Close  BY <1>1, <1>4, CloseSingle
<1>5. CASE TimerFires  BY <1>1, <1>5, TimerSingle
<1>6. ASSUME NEW a \in Attempts, Event(a) \/ Breaks(a) PROVE Single'
  <2>1. CASE GotToken(a) \/ NoToken(a) \/ TokenThrows(a)
    BY <1>1, <2>1, TokenSingle
  <2>2. CASE QuicTimeout(a) \/ Rejected(a)  BY <1>1, <2>2, FallbackSingle
  <2>3. CASE Resolved(a)  BY <1>1, <2>3, ResolvedSingle
  <2>4. CASE OnClosed(a)  BY <1>1, <2>4, OnClosedSingle
  <2>5. CASE \/ ConnectImpl(a)
             \/ \E why \in {"lost", "refused"} : PeerCloses(a, why)
    BY <1>1, <2>5, NativeSingle
  <2>6. ASSUME NEW i \in Sockets, WsOpens(a, i) PROVE Single'
    BY <1>1, <2>6, WsOpensSingle
  <2>7. ASSUME NEW i \in Sockets, NEW why \in {"lost", "refused"}, WsCloses(a, i, why)
        PROVE  Single'
    BY <1>1, <2>7, WsClosesSingle
  <2> QED  BY <1>6, <2>1, <2>2, <2>3, <2>4, <2>5, <2>6, <2>7 DEF Event, Breaks
<1> QED  BY <1>2, <1>3, <1>4, <1>5, <1>6 DEF Next

LEMMA SingleInit == Init => SingleInv
<1> SUFFICES ASSUME Init PROVE Single
  BY DEF SingleInv
<1>1. /\ timers = 0 /\ closed /\ generation = 0 /\ refused = None /\ active = None
      /\ socket = None /\ quicConnection = None
      /\ \A a \in Attempts : at[a] = Unused
  BY DEF Init
<1>2. \A a \in Attempts : ~Busy(a)
  BY <1>1 DEF Busy, Waits, Live, Superseded, Stale
<1>3. OneAtATime  BY <1>1, <1>2, TransportAssumption DEF OneAtATime
<1>4. \A a \in Attempts : HoldsSocket(a) /\ HoldsQuic(a)
  BY <1>1, NoneIsFree DEF HoldsSocket, HoldsQuic, Unused, Sockets
<1>5. ActiveIsUp  BY <1>1, NoneIsFree, TransportAssumption DEF ActiveIsUp, Sockets
<1> QED  BY <1>3, <1>4, <1>5 DEF Single

LEMMA SingleInvariance == Spec => [](TypeInv /\ SingleInv)
<1>1. Init => TypeInv /\ SingleInv  BY TypeInit, SingleInit
<1>2. TypeInv /\ SingleInv /\ [Next]_vars => (TypeInv /\ SingleInv)'
  BY TypeNext, SingleNext
<1> QED  BY <1>1, <1>2, PTL DEF Spec
----------------------------------------------------------------------------
(* The screens are told "connected" only while there is a connection that   *)
(* send() would use and whose frames are heard, and whose end, if it has    *)
(* ended, is still to be notified: while no attempt has dialled a second    *)
(* WebSocket and no onClosed was heeded before connectQuic resolved         *)
(* (finishWithQuic, ws.onopen, onClosed, ws.onclose).                      *)
THEOREM ConnectedIsTrue == Spec => []UsableIfOrderly
<1>1. TypeInv /\ SingleInv => UsableIfOrderly
  <2> SUFFICES ASSUME TypeInv, Single, status = "connected" PROVE Usable
    BY DEF UsableIfOrderly, ConnectedIsUsable, SingleInv
  <2>1. active \in {"ws", "quic"}  BY DEF TypeInv, Typed
  <2>2. CASE active = "quic"
    <3>1. PICK a \in Attempts : quicConnection = a
      BY <2>2 DEF Single, ActiveIsUp, TypeInv, Typed
    <3>2. HoldsQuic(a) /\ at[a].known  BY <3>1 DEF Single, TypeInv, Coherent
    <3>3. HearsQuic(a) /\ at[a].quic \in {"up", "lost", "refused"}
      BY <3>1, <3>2 DEF HearsQuic, Foreign, HoldsQuic, Stale
    <3> QED  BY <2>2, <3>1, <3>3 DEF Usable, SendsOnQuic
  <2>3. CASE active = "ws"
    <3>1. PICK a \in Attempts : socket = <<a, 1>> /\ at[a].settled
      BY <2>3 DEF Single, ActiveIsUp
    <3>2. ~Stale(a) /\ ~at[a].discarded /\ at[a].ws[1] = "open"
      BY <3>1 DEF Single, HoldsSocket
    <3> QED  BY <2>3, <3>1, <3>2 DEF Usable, SendsOnWs, HearsWs, Sockets
  <2> QED  BY <2>1, <2>2, <2>3
<1> QED  BY <1>1, SingleInvariance, PTL

(* Whatever is up is in the store's hands, or its promise is still to be    *)
(* resolved: a late or superseded connection of QUIC is closed, and so is   *)
(* the WebSocket that loses, while every attempt was orderly               *)
(* (attemptConnect, close()).                                              *)
THEOREM NothingLeaks == Spec => []NothingIsLeftOpen
<1>1. TypeInv /\ SingleInv => NothingIsLeftOpen
  <2> SUFFICES ASSUME TypeInv, Single, Orderly, NEW a \in Attempts
               PROVE  /\ at[a].quic = "up" => at[a].promise = "pending" \/ quicConnection = a
                      /\ \A i \in Sockets : at[a].ws[i] = "open" => socket = <<a, i>>
    BY DEF NothingIsLeftOpen, SingleInv
  <2>1. at[a] \in Attempt /\ Coherent(a) /\ HoldsSocket(a) /\ HoldsQuic(a)
    BY DEF TypeInv, Typed, Single
  <2>2. at[a].quic = "up" => at[a].promise = "pending" \/ quicConnection = a
    BY <2>1 DEF Coherent, HoldsQuic, Attempt
  <2>3. ASSUME NEW i \in Sockets, at[a].ws[i] = "open" PROVE socket = <<a, i>>
    <3>1. i = 1  BY <2>3, FirstSocket
    <3> QED  BY <2>1, <2>3, <3>1 DEF HoldsSocket
  <2> QED  BY <2>2, <2>3
<1> QED  BY <1>1, SingleInvariance, PTL

(* After a 4001 no timer is pending and the status stays "disconnected"     *)
(* until the next connect(): nothing else of that generation is at work     *)
(* that could start again, while every attempt was orderly (onClosed,      *)
(* ws.onclose).                                                            *)
THEOREM RefusalEndsIt == Spec => []RefusedIsTerminal
<1>1. SingleInv => RefusedIsTerminal
  BY DEF SingleInv, Single, OneAtATime, RefusedIsTerminal
<1> QED  BY <1>1, SingleInvariance, PTL

(* A success of QUIC that comes after a WebSocket has connected is          *)
(* discarded: no step displaces the WebSocket the app is using, while every *)
(* attempt was orderly (attemptConnect, where connectQuic resolves).        *)
THEOREM LateSuccessIsDiscarded == Spec => DiscardedIfOrderly
<1> DEFINE Displaces == /\ Orderly /\ active = "ws" /\ active' = "quic"
<1>1. TypeInv /\ SingleInv /\ [Next]_vars => ~Displaces
  <2> SUFFICES ASSUME TypeInv, Single, [Next]_vars, active = "ws", active' = "quic"
               PROVE  FALSE
    BY DEF SingleInv
  <2>0. "ws" # "quic" /\ None # "quic"  BY TransportAssumption
  <2>1. PICK a \in Attempts : FinishWithQuic(a) /\ ~TooLate(a)
    <3>1. CASE UNCHANGED vars \/ TimerFires  BY <2>0, <3>1 DEF vars, store, TimerFires
    <3>2. CASE Connect \/ Close  BY <2>0, <3>2, Zenon DEF Connect, Close
    <3>3. ASSUME NEW a \in Attempts, Resolved(a) PROVE FinishWithQuic(a) /\ ~TooLate(a)
      BY <2>0, <3>3 DEF Resolved
    <3>4. ASSUME NEW a \in Attempts,
                 \/ GotToken(a) \/ NoToken(a) \/ TokenThrows(a)
                 \/ QuicTimeout(a) \/ Rejected(a) \/ ConnectImpl(a)
                 \/ \E why \in {"lost", "refused"} : PeerCloses(a, why)
          PROVE  FALSE
      BY <2>0, <3>4 DEF GotToken, NoToken, TokenThrows, QuicTimeout, Rejected, ConnectImpl,
                        PeerCloses, NativeStep, store
    <3>5. ASSUME NEW a \in Attempts,
                 \/ OnClosed(a)
                 \/ \E i \in Sockets : \/ WsOpens(a, i)
                                       \/ \E why \in {"lost", "refused"} :
                                            WsCloses(a, i, why)
          PROVE  FALSE
      BY <2>0, <3>5 DEF OnClosed, WsOpens, WsCloses, WsEnds, Ends, Reconnect, Disconnected
    <3> QED  BY <3>1, <3>2, <3>3, <3>4, <3>5 DEF Next, Event, Breaks
  <2>2. Live(a) /\ Busy(a) /\ ~at[a].settled  BY <2>1 DEF TooLate, Live, Busy
  <2>3. active = None  BY <2>2, BusyAlone
  <2> QED  BY <2>3, TransportAssumption
<1>2. ~Displaces =>
        (Orderly /\ active = "ws" /\ active' = "quic" =>
           \A a \in Attempts, i \in Sockets : at[a].ws[i] # "open")
  OBVIOUS
<1>3. TypeInv /\ SingleInv /\ [Next]_vars =>
        [Orderly /\ active = "ws" /\ active' = "quic" =>
           \A a \in Attempts, i \in Sockets : at[a].ws[i] # "open"]_vars
  BY <1>1, <1>2
<1> QED  BY <1>3, SingleInvariance, PTL DEF Spec, DiscardedIfOrderly
=============================================================================
