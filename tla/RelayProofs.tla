---------------------------- MODULE RelayProofs ----------------------------
(***************************************************************************)
(* What the rules of Relay add up to, for any users and envelopes, and so  *)
(* for every system that implements it.                                    *)
(***************************************************************************)
EXTENDS Relay, TLAPS

RInv == mailbox \in [User -> Seq(accepted)] /\ MailboxesInOrder

LEMMA AcceptRInv ==
  ASSUME RInv, NEW e \in Envelope, Accept(e)
  PROVE  RInv'
<1>1. /\ \A a \in accepted : a.session = e.session => a.seq < e.seq
      /\ accepted' = accepted \cup {e}
      /\ mailbox' = [mailbox EXCEPT ![e.to] = Append(@, e)]
  BY DEF Accept
<1>2. \A s \in Seq(accepted) : s \in Seq(accepted') /\ Append(s, e) \in Seq(accepted')
  BY <1>1
<1>3. mailbox' \in [User -> Seq(accepted')]
  BY <1>1, <1>2 DEF RInv
<1>4. ASSUME NEW u \in User, NEW i \in 1..Len(mailbox'[u])
      PROVE  /\ mailbox'[u][i].to = u /\ mailbox'[u][i] \in accepted'
             /\ \A j \in 1..(i - 1) : mailbox'[u][j].session = mailbox'[u][i].session =>
                  mailbox'[u][j].seq < mailbox'[u][i].seq
  <2>1. mailbox[u] \in Seq(accepted)
    BY DEF RInv
  <2>2. CASE mailbox'[u] = mailbox[u]
    BY <1>1, <1>4, <2>2 DEF RInv, MailboxesInOrder
  <2>3. CASE mailbox'[u] = Append(mailbox[u], e) /\ e.to = u
    <3>1. CASE i \in 1..Len(mailbox[u])
      <4>1. /\ mailbox'[u][i] = mailbox[u][i]
            /\ \A j \in 1..(i - 1) : mailbox'[u][j] = mailbox[u][j]
        BY <2>1, <2>3, <3>1
      <4> QED  BY <1>1, <3>1, <4>1 DEF RInv, MailboxesInOrder
    <3>2. CASE i = Len(mailbox[u]) + 1
      <4>1. /\ mailbox'[u][i] = e
            /\ \A j \in 1..(i - 1) : mailbox'[u][j] = mailbox[u][j] /\ mailbox[u][j] \in accepted
        BY <2>1, <2>3, <3>2
      <4> QED  BY <1>1, <2>3, <4>1
    <3> QED  BY <1>4, <2>1, <2>3, <3>1, <3>2
  <2> QED  BY <1>1, <2>2, <2>3 DEF RInv
<1>5. \A a, b \in accepted' : a.session = b.session => a = b \/ a.seq < b.seq \/ b.seq < a.seq
  BY <1>1 DEF RInv, MailboxesInOrder
<1> QED  BY <1>3, <1>4, <1>5 DEF RInv, MailboxesInOrder

LEMMA EmptyRInv ==
  ASSUME RInv, Empty
  PROVE  RInv'
<1>1. PICK U \in SUBSET User : mailbox' = [u \in User |-> IF u \in U THEN <<>> ELSE mailbox[u]]
  BY DEF Empty
<1>2. accepted' = accepted
  BY DEF Empty
<1>3. \A u \in User : mailbox'[u] = <<>> \/ mailbox'[u] = mailbox[u]
  BY <1>1
<1>4. mailbox' \in [User -> Seq(accepted')]
  BY <1>1, <1>2 DEF RInv
<1>5. ASSUME NEW u \in User, NEW i \in 1..Len(mailbox'[u])
      PROVE  /\ mailbox'[u][i].to = u /\ mailbox'[u][i] \in accepted
             /\ \A j \in 1..(i - 1) : mailbox'[u][j].session = mailbox'[u][i].session =>
                  mailbox'[u][j].seq < mailbox'[u][i].seq
  <2>1. mailbox'[u] # <<>>
    BY <1>5
  <2>2. mailbox'[u] = mailbox[u]
    BY <1>3, <2>1
  <2>3. i \in 1..Len(mailbox[u])
    BY <1>5, <2>2
  <2> QED  BY <2>2, <2>3 DEF RInv, MailboxesInOrder
<1>6. MailboxesInOrder'
  BY <1>2, <1>5 DEF RInv, MailboxesInOrder
<1> QED  BY <1>4, <1>6 DEF RInv

(* Mailboxes stay in order and without duplicates.                         *)
THEOREM StaysInOrder == Spec => []MailboxesInOrder
<1>1. Init => RInv
  BY DEF Init, RInv, MailboxesInOrder
<1>2. RInv /\ [Next]_vars => RInv'
  <2> SUFFICES ASSUME RInv, [Next]_vars PROVE RInv'
    OBVIOUS
  <2>1. CASE UNCHANGED vars
    BY <2>1 DEF vars, RInv, MailboxesInOrder
  <2> QED  BY <2>1, AcceptRInv, EmptyRInv DEF Next
<1>3. RInv => MailboxesInOrder
  BY DEF RInv
<1> QED  BY <1>1, <1>2, <1>3, PTL DEF Spec
=============================================================================
