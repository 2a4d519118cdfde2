---------------------------- MODULE MCEnrolment ----------------------------
(***************************************************************************)
(* Instances of Enrolment for TLC: "a.b" and "ab" share the file ab.json.  *)
(***************************************************************************)
EXTENDS Enrolment, TLC

MCFileName == [u \in User |-> "ab"]
Fresh == Permutations(Key) \cup Permutations(Password) \cup Permutations(Process)
         \cup Permutations(Serial)
=============================================================================
