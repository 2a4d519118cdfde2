----------------------------- MODULE MCSession -----------------------------
(***************************************************************************)
(* Instances of Session for TLC.                                           *)
(***************************************************************************)
EXTENDS Session

(* Every session belongs to the same client, as after a reconnect.         *)
MCClientOf == [s \in Sessions |-> "alice"]
=============================================================================
