---------------------------- MODULE MCHandshake ----------------------------
(***************************************************************************)
(* Instances of Handshake for TLC: two users, one with a certificate that  *)
(* runs out within the bound on time, and a server whose certificate is not*)
(* valid yet on a client that is late by a second.                         *)
(***************************************************************************)
EXTENDS Handshake

MCUserOf == [c \in Client |-> IF c = "c1" THEN "alice" ELSE "bob"]
MCNotBefore == [u \in {"alice", "bob", "server"} |->
                  IF u = "server" /\ MaxTime > 0 THEN 1 ELSE 0]
MCNotAfter == [u \in {"alice", "bob", "server"} |-> IF u = "bob" THEN 0 ELSE 9]
=============================================================================
