---------------------------- MODULE MCMessenger ----------------------------
(***************************************************************************)
(* Instances of Messenger for TLC.                                         *)
(***************************************************************************)
EXTENDS Messenger

(* The phone is bob's; every other installation belongs to alice.          *)
Names == [c \in Client |-> IF c = "phone" THEN "bob" ELSE "alice"]

(* To register, connect (two requests) and send twice; to register and poll. *)
SenderAndReader == [c \in Client |-> IF c = "phone" THEN 2 ELSE 5]

(* To register, connect and send, and to register and connect; or to poll,  *)
(* or to load an identity.                                                 *)
SenderAndPeer == [c \in Client |-> IF c = "phone" THEN 3 ELSE 4]

(* To register, connect and send twice, or to connect again, or to close and *)
(* come back; the second installation only registers.                      *)
TwoInstallations == [c \in Client |-> IF c = "laptop" THEN 5 ELSE 1]
=============================================================================
