--------------------------- MODULE SecureChannel ---------------------------
(***************************************************************************)
(* What a session promises its users, without keys, sequence numbers on    *)
(* the wire or clocks: every direction of a conversation is a lossy        *)
(* channel that never duplicates, reorders or invents a message.           *)
(***************************************************************************)
EXTENDS Naturals, Sequences

CONSTANTS Channel,   \* the directions of all conversations
          Payload    \* what may be said

VARIABLES sent,      \* sent[c]: the payloads put into c, in order
          delivered  \* delivered[c]: what came out, with its position in sent[c]

vars == <<sent, delivered>>

Init == /\ sent = [c \in Channel |-> <<>>]
        /\ delivered = [c \in Channel |-> <<>>]

Send(c) == /\ \E p \in Payload : sent' = [sent EXCEPT ![c] = Append(@, p)]
           /\ UNCHANGED delivered

(* The payload at position i comes out, provided nothing at or after i has *)
(* come out before; the positions that are skipped are lost for good.      *)
Deliver(c) ==
  /\ \E i \in 1..Len(sent[c]) :
        /\ \A k \in 1..Len(delivered[c]) : delivered[c][k].sequence_number < i
        /\ delivered' = [delivered EXCEPT ![c] =
              Append(@, [sequence_number |-> i, payload |-> sent[c][i]])]
  /\ UNCHANGED sent

Next == \E c \in Channel : Send(c) \/ Deliver(c)

Spec == Init /\ [][Next]_vars
=============================================================================
