------------------------------- MODULE Relay -------------------------------
(***************************************************************************)
(* What the server promises about messages, without HTTP, handshakes or    *)
(* sessions: a mailbox per user, into which every envelope goes at most    *)
(* once and after its predecessors in its session, and which is emptied as *)
(* a whole.                                                                *)
(***************************************************************************)
EXTENDS Naturals, Sequences

CONSTANTS User, Envelope   \* an envelope has a session, a seq and a recipient, to

VARIABLES mailbox,   \* mailbox[u]: what waits for u
          accepted   \* every envelope that was ever put into a mailbox

vars == <<mailbox, accepted>>

Init == mailbox = [u \in User |-> <<>>] /\ accepted = {}

Accept(e) ==
  /\ \A a \in accepted : a.session = e.session => a.seq < e.seq
  /\ accepted' = accepted \cup {e}
  /\ mailbox' = [mailbox EXCEPT ![e.to] = Append(@, e)]

(* Some mailboxes are emptied: by their reader, or with the server.        *)
Empty == /\ \E U \in SUBSET User :
              mailbox' = [u \in User |-> IF u \in U THEN <<>> ELSE mailbox[u]]
         /\ UNCHANGED accepted

Next == Empty \/ \E e \in Envelope : Accept(e)

Spec == Init /\ [][Next]_vars
-----------------------------------------------------------------------------
(* What a reader may rely on.  A mailbox holds its owner's envelopes only,  *)
(* those of one session in the order of their numbers and none twice, and  *)
(* no session has two envelopes that are not one before the other:         *)
(* send_message and poll_messages of server/app.py.                        *)
MailboxesInOrder ==
  /\ \A u \in User : \A i \in 1..Len(mailbox[u]) :
       /\ mailbox[u][i].to = u /\ mailbox[u][i] \in accepted
       /\ \A j \in 1..(i - 1) : mailbox[u][j].session = mailbox[u][i].session =>
            mailbox[u][j].seq < mailbox[u][i].seq
  /\ \A a, b \in accepted : a.session = b.session => a = b \/ a.seq < b.seq \/ b.seq < a.seq
=============================================================================
