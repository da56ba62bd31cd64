------------------------------ MODULE MCRelay ------------------------------
(***************************************************************************)
(* Instances of the relay for TLC.  alice sends to bob, who connects more  *)
(* than once: the interesting races are between a message and the life of  *)
(* its recipient's connections.                                            *)
(***************************************************************************)
EXTENDS RelayProperties

CONSTANTS alice, bob, a1, b1, b2, m1, m2

MCOwner == [c \in Conns |-> IF c = a1 THEN alice ELSE bob]
MCFrom  == [m \in Msgs |-> alice]
MCTo    == [m \in Msgs |-> bob]
=============================================================================
