--------------------------- MODULE SessionProofs ---------------------------
(***************************************************************************)
(* Theorems about Session, for any number of sessions, users, payloads and *)
(* any value of the limits and bounds.                                     *)
(***************************************************************************)
EXTENDS Session, TLAPS

LEMMA PeerFacts ==
  ASSUME NEW e \in Endpoint
  PROVE  /\ Peer(e) \in Endpoint
         /\ Peer(Peer(e)) = e
         /\ RecvKey(e) = SendKey(Peer(e))
         /\ e[1] \in Sessions /\ e[2] \in Role
BY DEF Endpoint, Role, Peer, OtherRole, RecvKey, SendKey

(* The two directions of a session, and any two sessions, use different    *)
(* keys.                                                                   *)
LEMMA SendKeyInjective ==
  ASSUME NEW e \in Endpoint, NEW f \in Endpoint, SendKey(e) = SendKey(f)
  PROVE  e = f
BY DEF Endpoint, Role, SendKey

(* What encrypt builds is well formed.                                     *)
LEMMA EncryptTypes ==
  ASSUME TypeOK, NEW e \in Endpoint, NEW p \in Payload
  PROVE  /\ EnvelopeOf(e, p) \in Envelope
         /\ EncryptionOf(e, p) \in Encryption
<1>1. e[1] \in Sessions /\ e[2] \in Role
  BY PeerFacts
<1>2. SendKey(e) \in Sessions \X KeyName
  BY <1>1 DEF SendKey, KeyName
<1>3. send_seq[e] \in Nat /\ clock[e[2]] \in Nat
  BY <1>1 DEF TypeOK
<1>4. QED
  BY <1>1, <1>2, <1>3 DEF EnvelopeOf, EncryptionOf, Envelope, Encryption

(* TypeOK is inductive.                                                    *)
LEMMA TypeOKStep ==
  ASSUME TypeOK, [Next]_vars
  PROVE  TypeOK'
<1> USE DEF TypeOK
<1>1. ASSUME NEW e \in Endpoint, Open(e)
      PROVE  TypeOK'
  BY <1>1, PeerFacts DEF Open
<1>2. ASSUME NEW e \in Endpoint, Close(e)
      PROVE  TypeOK'
  BY <1>2 DEF Close
<1>3. ASSUME NEW e \in Endpoint, NEW p \in Payload, Encrypt(e, p)
      PROVE  TypeOK'
  <2>1. wire' \subseteq Envelope /\ aead' \subseteq Encryption
    BY <1>3, EncryptTypes DEF Encrypt
  <2>2. needs_rekey' \in [Endpoint -> BOOLEAN]
    BY <1>3 DEF Encrypt, CheckRekeyPolicy, RekeyDue
  <2>3. sent' \in [Endpoint -> Seq(Payload)]
    BY <1>3 DEF Encrypt
  <2>4. send_seq' \in [Endpoint -> Nat] /\ messages_sent' \in [Endpoint -> Nat]
    BY <1>3 DEF Encrypt
  <2>5. QED
    BY <1>3, <2>1, <2>2, <2>3, <2>4 DEF Encrypt
<1>4. ASSUME NEW e \in Endpoint, NEW p \in Payload, EncryptSignFails(e, p)
      PROVE  TypeOK'
  <2>1. aead' \subseteq Encryption
    BY <1>4, EncryptTypes DEF EncryptSignFails
  <2>2. needs_rekey' \in [Endpoint -> BOOLEAN]
    BY <1>4 DEF EncryptSignFails, CheckRekeyPolicy, RekeyDue
  <2>3. QED
    BY <1>4, <2>1, <2>2 DEF EncryptSignFails
<1>5. ASSUME NEW e \in Endpoint, NEW w \in wire, Decrypt(e, w)
      PROVE  TypeOK'
  <2>1. w.sequence_number \in Nat /\ w.payload \in Payload
    BY DEF Envelope
  <2>2. [sequence_number |-> w.sequence_number, payload |-> w.payload] \in Message
    BY <2>1 DEF Message
  <2>3. recv_seq' \in [Endpoint -> Nat] /\ returned' \in [Endpoint -> Seq(Message)]
    BY <1>5, <2>1, <2>2 DEF Decrypt
  <2>4. QED
    BY <1>5, <2>3 DEF Decrypt
<1>6. ASSUME NEW r \in Role, Tick(r)
      PROVE  TypeOK'
  BY <1>6 DEF Tick
<1>7. CASE UNCHANGED vars
  BY <1>7 DEF vars
<1>8. QED
  BY <1>1, <1>2, <1>3, <1>4, <1>5, <1>6, <1>7 DEF Next

(* Every variable of a session stays in its type: session.py.               *)
THEOREM TypeCorrect == Spec => []TypeOK
<1>1. Init => TypeOK
  BY DEF Init, TypeOK, Role
<1>2. TypeOK /\ [Next]_vars => TypeOK'
  BY TypeOKStep
<1>3. QED
  BY <1>1, <1>2, PTL DEF Spec
-----------------------------------------------------------------------------
(* The inductive invariant.  What an endpoint has encrypted is             *)
(* counted by its send_seq; every envelope on the wire carries one of those*)
(* plaintexts, at its position and under its sender's key, and there is one*)
(* envelope per position; a receive window is above everything returned    *)
(* and at most the peer's next number.                                     *)
CountInv == \A e \in Endpoint :
  /\ Len(sent[e]) = send_seq[e] - 1
  /\ recv_seq[e] >= 1
  /\ phase[e] = "none" => send_seq[e] = 1 /\ recv_seq[e] = 1

Sound(e, w) == /\ w.key = SendKey(e)
               /\ w.nonce = w.sequence_number
               /\ w.sequence_number \in 1..Len(sent[e])
               /\ w.payload = sent[e][w.sequence_number]

WireInv == \A w \in wire : \E e \in Endpoint : Sound(e, w)

WireUnique == \A v, w \in wire :
  v.key = w.key /\ v.sequence_number = w.sequence_number => v = w

ReturnedInv == \A e \in Endpoint : \A i \in 1..Len(returned[e]) :
  returned[e][i].sequence_number < recv_seq[e]

IInv == /\ TypeOK
        /\ CountInv
        /\ WireInv
        /\ WireUnique
        /\ ReturnedInv
        /\ WindowBehindSender
        /\ AtMostOnceInOrder
        /\ Authentic

LEMMA InitIInv == Init => IInv
<1> SUFFICES ASSUME Init PROVE IInv
  OBVIOUS
<1>1. TypeOK
  BY DEF Init, TypeOK, Role
<1>2. CountInv /\ WindowBehindSender
  BY PeerFacts DEF Init, CountInv, WindowBehindSender
<1>3. WireInv /\ WireUnique
  BY DEF Init, WireInv, WireUnique
<1>4. ReturnedInv /\ AtMostOnceInOrder /\ Authentic
  BY DEF Init, ReturnedInv, AtMostOnceInOrder, Authentic
<1>5. QED
  BY <1>1, <1>2, <1>3, <1>4 DEF IInv

(* IInv speaks only of these variables.                                    *)
LEMMA IInvFrame ==
  ASSUME IInv, TypeOK',
         \A e \in Endpoint : phase'[e] = "none" => phase[e] = "none",
         UNCHANGED <<send_seq, recv_seq, wire, sent, returned>>
  PROVE  IInv'
<1> USE DEF IInv
<1>1. CountInv' /\ WindowBehindSender'
  BY DEF CountInv, WindowBehindSender
<1>2. WireInv' /\ WireUnique'
  BY DEF WireInv, WireUnique, Sound
<1>3. ReturnedInv' /\ AtMostOnceInOrder' /\ Authentic'
  BY DEF ReturnedInv, AtMostOnceInOrder, Authentic
<1>4. QED
  BY <1>1, <1>2, <1>3

LEMMA OpenIInv ==
  ASSUME IInv, TypeOK', NEW e \in Endpoint, Open(e)
  PROVE  IInv'
<1>1. send_seq' = send_seq /\ recv_seq' = recv_seq
  BY DEF Open, IInv, CountInv, TypeOK
<1>2. \A f \in Endpoint : phase'[f] = "none" => phase[f] = "none"
  BY DEF Open, IInv, TypeOK
<1>3. QED
  BY <1>1, <1>2, IInvFrame DEF Open

LEMMA EncryptIInv ==
  ASSUME IInv, TypeOK', NEW e \in Endpoint, NEW p \in Payload, Encrypt(e, p)
  PROVE  IInv'
<1> USE DEF IInv
<1>0. PICK n, new : n = send_seq[e] /\ new = EnvelopeOf(e, p)
  OBVIOUS
<1>1. /\ n \in Nat /\ n >= 1 /\ Len(sent[e]) = n - 1
      /\ sent[e] \in Seq(Payload)
      /\ wire' = wire \cup {new}
      /\ new.key = SendKey(e) /\ new.nonce = n
      /\ new.sequence_number = n /\ new.payload = p
  BY <1>0 DEF TypeOK, CountInv, Encrypt, EnvelopeOf
<1>2. /\ send_seq'[e] = n + 1
      /\ sent'[e] = Append(sent[e], p)
      /\ \A f \in Endpoint : f # e => /\ send_seq'[f] = send_seq[f]
                                     /\ sent'[f] = sent[f]
  BY <1>0 DEF Encrypt, TypeOK
<1>3. /\ Len(sent'[e]) = n
      /\ sent'[e][n] = p
      /\ \A i \in 1..Len(sent[e]) : sent'[e][i] = sent[e][i]
  BY <1>1, <1>2
<1>4. \A f \in Endpoint : /\ Len(sent[f]) <= Len(sent'[f])
                          /\ \A i \in 1..Len(sent[f]) :
                                i \in 1..Len(sent'[f]) /\ sent'[f][i] = sent[f][i]
  <2> TAKE f \in Endpoint
  <2>1. sent[f] \in Seq(Payload)
    BY DEF TypeOK
  <2>2. CASE f = e
    BY <1>1, <1>3, <2>2
  <2>3. CASE f # e
    BY <1>2, <2>1, <2>3
  <2>4. QED
    BY <2>2, <2>3
<1>5. CountInv'
  BY <1>1, <1>2, <1>3 DEF CountInv, Encrypt
<1>6. Sound(e, new)'
  BY <1>1, <1>3 DEF Sound
<1>7. WireInv'
  <2>1. ASSUME NEW w \in wire PROVE \E f \in Endpoint : Sound(f, w)'
    <3>1. PICK f \in Endpoint : Sound(f, w)
      BY DEF WireInv
    <3>2. Sound(f, w)'
      BY <1>4, <3>1 DEF Sound
    <3>3. QED
      BY <3>2
  <2>2. QED
    BY <1>1, <1>6, <2>1 DEF WireInv
<1>8. \A w \in wire : ~(w.key = new.key /\ w.sequence_number = new.sequence_number)
  <2> SUFFICES ASSUME NEW w \in wire, w.key = SendKey(e), w.sequence_number = n
               PROVE  FALSE
    BY <1>1
  <2>1. PICK f \in Endpoint : Sound(f, w)
    BY DEF WireInv
  <2>2. f = e
    BY <2>1, SendKeyInjective DEF Sound
  <2>3. QED
    BY <1>1, <2>1, <2>2 DEF Sound
<1>9. WireUnique'
  BY <1>1, <1>8 DEF WireUnique
<1>10. WindowBehindSender'
  <2> SUFFICES ASSUME NEW f \in Endpoint
               PROVE  recv_seq[f] <= send_seq'[Peer(f)]
    BY DEF WindowBehindSender, Encrypt
  <2>1. /\ Peer(f) \in Endpoint
        /\ recv_seq[f] \in Nat /\ send_seq[Peer(f)] \in Nat
        /\ recv_seq[f] <= send_seq[Peer(f)]
    BY PeerFacts DEF WindowBehindSender, TypeOK
  <2>2. QED
    BY <1>0, <1>1, <1>2, <2>1
<1>11. ReturnedInv' /\ AtMostOnceInOrder'
  BY DEF ReturnedInv, AtMostOnceInOrder, Encrypt
<1>12. Authentic'
  <2> SUFFICES ASSUME NEW f \in Endpoint, NEW i \in 1..Len(returned[f])
               PROVE  /\ returned[f][i].sequence_number \in 1..Len(sent'[Peer(f)])
                      /\ returned[f][i].payload =
                           sent'[Peer(f)][returned[f][i].sequence_number]
    BY DEF Authentic, Encrypt
  <2>1. Peer(f) \in Endpoint
    BY PeerFacts
  <2>2. QED
    BY <1>4, <2>1 DEF Authentic
<1>13. QED
  BY <1>5, <1>7, <1>9, <1>10, <1>11, <1>12

LEMMA DecryptIInv ==
  ASSUME IInv, TypeOK', NEW e \in Endpoint, NEW w \in wire, Decrypt(e, w)
  PROVE  IInv'
<1> USE DEF IInv
<1>0. PICK n, m : /\ n = w.sequence_number
                  /\ m = [sequence_number |-> n, payload |-> w.payload]
  OBVIOUS
<1>1. /\ Sound(Peer(e), w)
      /\ Peer(e) \in Endpoint
  <2>1. PICK f \in Endpoint : Sound(f, w)
    BY DEF WireInv
  <2>2. w.key = SendKey(Peer(e)) /\ Peer(e) \in Endpoint
    BY PeerFacts DEF Decrypt, DecryptsUnder
  <2>3. f = Peer(e)
    BY <2>1, <2>2, SendKeyInjective DEF Sound
  <2>4. QED
    BY <2>1, <2>2, <2>3
<1>2. /\ n \in Nat /\ n >= recv_seq[e]
      /\ returned[e] \in Seq(Message) /\ m \in Message
      /\ recv_seq \in [Endpoint -> Nat] /\ send_seq \in [Endpoint -> Nat]
  BY <1>0 DEF TypeOK, Decrypt, ValidHeader, Envelope, Message
<1>3. /\ returned'[e] = Append(returned[e], m)
      /\ recv_seq'[e] = n + 1
      /\ \A f \in Endpoint : f # e => /\ returned'[f] = returned[f]
                                     /\ recv_seq'[f] = recv_seq[f]
  BY <1>0 DEF Decrypt, TypeOK
<1>4. /\ Len(returned'[e]) = Len(returned[e]) + 1
      /\ returned'[e][Len(returned[e]) + 1] = m
      /\ \A i \in 1..Len(returned[e]) : returned'[e][i] = returned[e][i]
      /\ Len(returned[e]) \in Nat
  BY <1>2, <1>3
<1>5. \A i \in 1..Len(returned[e]) : /\ returned[e][i].sequence_number \in Nat
                                     /\ returned[e][i].sequence_number < n
  <2> TAKE i \in 1..Len(returned[e])
  <2>1. returned[e][i] \in Message
    BY <1>2
  <2>2. QED
    BY <1>2, <2>1 DEF ReturnedInv, Message
<1>6. CountInv'
  BY <1>2, <1>3 DEF CountInv, Decrypt
<1>7. WireInv' /\ WireUnique'
  BY DEF WireInv, WireUnique, Sound, Decrypt
<1>8. ReturnedInv'
  <2> SUFFICES ASSUME NEW f \in Endpoint, NEW i \in 1..Len(returned'[f])
               PROVE  returned'[f][i].sequence_number < recv_seq'[f]
    BY DEF ReturnedInv
  <2>1. CASE f # e
    BY <1>3, <2>1 DEF ReturnedInv
  <2>2. CASE f = e /\ i = Len(returned[e]) + 1
    BY <1>0, <1>2, <1>3, <1>4, <2>2
  <2>3. CASE f = e /\ i \in 1..Len(returned[e])
    <3>1. returned'[e][i].sequence_number \in Nat /\ returned'[e][i].sequence_number < n
      BY <1>4, <1>5, <2>3
    <3>2. \A k \in Nat : k < n => k < n + 1
      BY <1>2
    <3>3. returned'[e][i].sequence_number < n + 1
      BY <3>1, <3>2
    <3>4. QED
      BY <1>3, <2>3, <3>3
  <2>4. QED
    BY <1>4, <2>1, <2>2, <2>3
<1>9. WindowBehindSender'
  <2> SUFFICES ASSUME NEW f \in Endpoint
               PROVE  recv_seq'[f] <= send_seq[Peer(f)]
    BY DEF WindowBehindSender, Decrypt
  <2>1. n + 1 <= send_seq[Peer(e)]
    BY <1>0, <1>1, <1>2 DEF Sound, CountInv
  <2>2. QED
    BY <1>2, <1>3, <2>1 DEF WindowBehindSender
<1>10. AtMostOnceInOrder'
  <2> SUFFICES ASSUME NEW f \in Endpoint,
                      NEW i \in 1..Len(returned'[f]), NEW j \in 1..Len(returned'[f]),
                      i < j
               PROVE  returned'[f][i].sequence_number < returned'[f][j].sequence_number
    BY DEF AtMostOnceInOrder
  <2>1. CASE f # e
    BY <1>3, <2>1 DEF AtMostOnceInOrder
  <2>2. CASE f = e /\ j = Len(returned[e]) + 1
    <3>1. i \in 1..Len(returned[e])
      BY <1>4, <2>2
    <3>2. returned'[e][i].sequence_number < n /\ returned'[e][j].sequence_number = n
      BY <1>0, <1>4, <1>5, <2>2, <3>1
    <3>3. QED
      BY <2>2, <3>2
  <2>3. CASE f = e /\ j \in 1..Len(returned[e])
    <3>1. i \in 1..Len(returned[e])
      BY <1>4, <2>3
    <3>2. QED
      BY <1>4, <2>3, <3>1 DEF AtMostOnceInOrder
  <2>4. QED
    BY <1>4, <2>1, <2>2, <2>3
<1>11. Authentic'
  <2> SUFFICES ASSUME NEW f \in Endpoint, NEW i \in 1..Len(returned'[f])
               PROVE  /\ returned'[f][i].sequence_number \in 1..Len(sent[Peer(f)])
                      /\ returned'[f][i].payload =
                           sent[Peer(f)][returned'[f][i].sequence_number]
    BY DEF Authentic, Decrypt
  <2>1. CASE f # e
    BY <1>3, <2>1 DEF Authentic
  <2>2. CASE f = e /\ i = Len(returned[e]) + 1
    BY <1>0, <1>1, <1>4, <2>2 DEF Sound
  <2>3. CASE f = e /\ i \in 1..Len(returned[e])
    BY <1>4, <2>3 DEF Authentic
  <2>4. QED
    BY <1>4, <2>1, <2>2, <2>3
<1>12. QED
  BY <1>6, <1>7, <1>8, <1>9, <1>10, <1>11

LEMMA StepIInv == IInv /\ [Next]_vars => IInv'
<1> SUFFICES ASSUME IInv, [Next]_vars PROVE IInv'
  OBVIOUS
<1>1. TypeOK'
  BY TypeOKStep DEF IInv
<1>2. ASSUME NEW e \in Endpoint, Open(e) PROVE IInv'
  BY <1>1, <1>2, OpenIInv
<1>3. ASSUME NEW e \in Endpoint, Close(e) PROVE IInv'
  <2>1. \A f \in Endpoint : phase'[f] = "none" => phase[f] = "none"
    BY <1>3 DEF Close, IInv, TypeOK
  <2>2. QED
    BY <1>1, <1>3, <2>1, IInvFrame DEF Close
<1>4. ASSUME NEW e \in Endpoint, NEW p \in Payload, Encrypt(e, p) PROVE IInv'
  BY <1>1, <1>4, EncryptIInv
<1>5. ASSUME NEW e \in Endpoint, NEW p \in Payload, EncryptSignFails(e, p)
      PROVE  IInv'
  BY <1>1, <1>5, IInvFrame DEF EncryptSignFails
<1>6. ASSUME NEW e \in Endpoint, NEW w \in wire, Decrypt(e, w) PROVE IInv'
  BY <1>1, <1>6, DecryptIInv
<1>7. ASSUME NEW r \in Role, Tick(r) PROVE IInv'
  BY <1>1, <1>7, IInvFrame DEF Tick
<1>8. CASE UNCHANGED vars
  BY <1>1, <1>8, IInvFrame DEF vars
<1>9. QED
  BY <1>2, <1>3, <1>4, <1>5, <1>6, <1>7, <1>8 DEF Next

LEMMA Invariance == Spec => []IInv
BY InitIInv, StepIInv, PTL DEF Spec

(* Whatever the transport repeats or reorders, decrypt returns a message at *)
(* most once and in order: _validate_header and the advance in decrypt.    *)
THEOREM NoReplays == Spec => []AtMostOnceInOrder
<1>1. IInv => AtMostOnceInOrder
  BY DEF IInv
<1>2. QED
  BY <1>1, Invariance, PTL

(* decrypt returns only what the peer endpoint of the same handshake        *)
(* encrypted under that number: the checks of decrypt, the keys by role.   *)
THEOREM NoForeignMessages == Spec => []Authentic
<1>1. IInv => Authentic
  BY DEF IInv
<1>2. QED
  BY <1>1, Invariance, PTL

(* No two envelopes that leave encrypt share a key and a nonce: one counter *)
(* per key, advanced before the envelope is released.                      *)
THEOREM NoSharedNonces == Spec => []WireNoncesUnique
<1>1. IInv => WireNoncesUnique
  BY DEF IInv, WireNoncesUnique, WireInv, WireUnique, Sound
<1>2. QED
  BY <1>1, Invariance, PTL

(* The receive window never overtakes the sender: _recv_seq only follows   *)
(* numbers that the peer has used.                                         *)
THEOREM NoFalseReplays == Spec => []WindowBehindSender
<1>1. IInv => WindowBehindSender
  BY DEF IInv
<1>2. QED
  BY <1>1, Invariance, PTL
-----------------------------------------------------------------------------
LEMMA RekeyStep ==
  TypeOK /\ RekeyFlagExact /\ [Next]_vars => RekeyFlagExact'
<1> SUFFICES ASSUME TypeOK, RekeyFlagExact, [Next]_vars
             PROVE  RekeyFlagExact'
  OBVIOUS
<1> USE SessionAssumption
<1>1. ASSUME NEW e \in Endpoint, Open(e)
      PROVE  RekeyFlagExact'
  BY <1>1 DEF Open, TypeOK, RekeyFlagExact, RekeyDue
<1>2. ASSUME NEW e \in Endpoint, NEW p \in Payload,
             Encrypt(e, p) \/ EncryptSignFails(e, p)
      PROVE  RekeyFlagExact'
  <2> SUFFICES ASSUME NEW f \in Endpoint
               PROVE  /\ messages_sent'[f] > RekeyAfterMessages => needs_rekey'[f]
                      /\ needs_rekey'[f] => RekeyDue(f)'
    BY DEF RekeyFlagExact
  <2>1. /\ needs_rekey' = [needs_rekey EXCEPT ![e] = @ \/ RekeyDue(e)]
        /\ \/ messages_sent' = [messages_sent EXCEPT ![e] = @ + 1]
           \/ messages_sent' = messages_sent
        /\ clock' = clock /\ session_start' = session_start
    BY <1>2 DEF Encrypt, EncryptSignFails, CheckRekeyPolicy
  <2>2. /\ messages_sent \in [Endpoint -> Nat] /\ session_start \in [Endpoint -> Nat]
        /\ needs_rekey \in [Endpoint -> BOOLEAN] /\ clock \in [Role -> Nat]
        /\ f[2] \in Role
    BY DEF TypeOK, Endpoint
  <2>3. CASE f = e
    <3>1. needs_rekey'[f] <=> needs_rekey[f] \/ RekeyDue(f)
      BY <2>1, <2>2, <2>3
    <3>2. messages_sent'[f] = messages_sent[f] \/ messages_sent'[f] = messages_sent[f] + 1
      BY <2>1, <2>2, <2>3
    <3>3. RekeyDue(f) => RekeyDue(f)'
      BY <2>1, <2>2, <3>2 DEF RekeyDue
    <3>4. messages_sent'[f] > RekeyAfterMessages => RekeyDue(f)
      BY <2>2, <3>2 DEF RekeyDue
    <3>5. QED
      BY <3>1, <3>3, <3>4 DEF RekeyFlagExact
  <2>4. CASE f # e
    <3>1. needs_rekey'[f] = needs_rekey[f] /\ messages_sent'[f] = messages_sent[f]
      BY <2>1, <2>2, <2>4
    <3>2. QED
      BY <2>1, <3>1 DEF RekeyFlagExact, RekeyDue
  <2>5. QED
    BY <2>3, <2>4
<1>3. ASSUME NEW r \in Role, Tick(r)
      PROVE  RekeyFlagExact'
  <2>1. \A f \in Endpoint : f[2] \in Role /\ clock'[f[2]] >= clock[f[2]]
    BY <1>3 DEF Tick, TypeOK, Endpoint
  <2>2. \A f \in Endpoint : clock[f[2]] \in Nat /\ clock'[f[2]] \in Nat
    BY <1>3 DEF Tick, TypeOK, Endpoint
  <2>3. UNCHANGED <<needs_rekey, messages_sent, session_start>>
    BY <1>3 DEF Tick
  <2>4. \A f \in Endpoint : RekeyDue(f) => RekeyDue(f)'
    BY <2>1, <2>2, <2>3 DEF RekeyDue, TypeOK
  <2>5. QED
    BY <2>3, <2>4 DEF RekeyFlagExact
<1>4. ASSUME UNCHANGED <<clock, messages_sent, session_start, needs_rekey>>
      PROVE  RekeyFlagExact'
  BY <1>4 DEF RekeyFlagExact, RekeyDue
<1>5. ASSUME NEW e \in Endpoint, NEW w \in wire, Decrypt(e, w)
      PROVE  RekeyFlagExact'
  BY <1>4, <1>5 DEF Decrypt
<1>6. ASSUME NEW e \in Endpoint, Close(e)
      PROVE  RekeyFlagExact'
  BY <1>4, <1>6 DEF Close
<1>7. CASE UNCHANGED vars
  BY <1>4, <1>7 DEF vars
<1>8. QED
  BY <1>1, <1>2, <1>3, <1>5, <1>6, <1>7 DEF Next

(* needs_rekey is raised in time and never without a reason, whatever the   *)
(* thresholds: _check_rekey_policy at the head of every encrypt.           *)
THEOREM RekeyFlagCorrect == Spec => []RekeyFlagExact
<1>1. Init => RekeyFlagExact
  BY SessionAssumption DEF Init, RekeyFlagExact
<1>2. QED
  BY <1>1, TypeCorrect, RekeyStep, PTL DEF Spec
-----------------------------------------------------------------------------
(* Refinement: encrypt is a Send on the channel of its endpoint, decrypt a  *)
(* Deliver on the channel of its peer, everything else a stuttering step.  *)
Given == [e \in Endpoint |-> returned[Peer(e)]]

LEMMA EncryptSends ==
  ASSUME IInv, NEW e \in Endpoint, NEW p \in Payload, Encrypt(e, p)
  PROVE  Chan!Send(e)
<1>1. sent' = [sent EXCEPT ![e] = Append(@, p)] /\ returned' = returned
  BY DEF Encrypt
<1>2. QED
  BY <1>1 DEF Chan!Send

LEMMA DecryptDelivers ==
  ASSUME IInv, NEW e \in Endpoint, NEW w \in wire, Decrypt(e, w)
  PROVE  Chan!Deliver(Peer(e))
<1> DEFINE c == Peer(e)
<1>0. PICK n, m : /\ n = w.sequence_number
                  /\ m = [sequence_number |-> n, payload |-> w.payload]
  OBVIOUS
<1>1. c \in Endpoint /\ Peer(c) = e
  BY PeerFacts
<1>2. Given[c] = returned[e]
  BY <1>1 DEF Given
<1>3. PICK f \in Endpoint : Sound(f, w)
  BY DEF IInv, WireInv
<1>4. f = c
  <2>1. SendKey(f) = SendKey(c)
    BY <1>3, PeerFacts DEF Sound, Decrypt, DecryptsUnder
  <2>2. QED
    BY <1>1, <2>1, SendKeyInjective
<1>5. n \in 1..Len(sent[c]) /\ m = [sequence_number |-> n, payload |-> sent[c][n]]
  BY <1>0, <1>3, <1>4 DEF Sound
<1>6. \A k \in 1..Len(returned[e]) : returned[e][k].sequence_number < n
  <2> TAKE k \in 1..Len(returned[e])
  <2>1. returned[e][k].sequence_number < recv_seq[e]
    BY DEF IInv, ReturnedInv
  <2>2. /\ returned[e] \in Seq(Message) /\ recv_seq[e] \in Nat
        /\ n \in Nat /\ recv_seq[e] <= n
    BY <1>0 DEF IInv, TypeOK, Decrypt, ValidHeader, Envelope
  <2>3. returned[e][k].sequence_number \in Nat
    <3>1. returned[e][k] \in Message
      BY <2>2
    <3>2. QED
      BY <3>1 DEF Message
  <2>4. \A a, b, d \in Nat : a < b /\ b <= d => a < d
    OBVIOUS
  <2>5. QED
    BY <2>1, <2>2, <2>3, <2>4
<1>7. \A k \in 1..Len(Given[c]) : Given[c][k].sequence_number < n
  BY <1>2, <1>6
<1>8. Given' = [Given EXCEPT ![c] = Append(@, m)]
  <2>1. returned' = [returned EXCEPT ![e] = Append(@, m)]
    BY <1>0 DEF Decrypt
  <2>2. \A g \in Endpoint :
          /\ Peer(g) \in Endpoint
          /\ returned'[Peer(g)] = IF g = c THEN Append(returned[e], m) ELSE returned[Peer(g)]
    <3> TAKE g \in Endpoint
    <3>1. Peer(g) \in Endpoint /\ (Peer(g) = e <=> g = c)
      BY PeerFacts
    <3>2. returned \in [Endpoint -> Seq(Message)]
      BY DEF IInv, TypeOK
    <3>3. QED
      BY <2>1, <3>1, <3>2
  <2>3. QED
    BY <1>1, <1>2, <2>2 DEF Given
<1>9. sent' = sent
  BY DEF Decrypt
<1>10. QED
  BY <1>5, <1>7, <1>8, <1>9 DEF Chan!Deliver, Given

LEMMA StepRefines == IInv /\ [Next]_vars => [Chan!Next]_(Chan!vars)
<1> SUFFICES ASSUME IInv, [Next]_vars PROVE [Chan!Next]_(Chan!vars)
  OBVIOUS
<1>1. ASSUME NEW e \in Endpoint, NEW p \in Payload, Encrypt(e, p)
      PROVE  Chan!Next
  BY <1>1, EncryptSends DEF Chan!Next
<1>2. ASSUME NEW e \in Endpoint, NEW w \in wire, Decrypt(e, w)
      PROVE  Chan!Next
  BY <1>2, DecryptDelivers, PeerFacts DEF Chan!Next
<1>3. ASSUME UNCHANGED <<sent, returned>>
      PROVE  UNCHANGED Chan!vars
  BY <1>3 DEF Chan!vars
<1>4. ASSUME NEW e \in Endpoint, Open(e) \/ Close(e)
      PROVE  UNCHANGED Chan!vars
  BY <1>3, <1>4 DEF Open, Close
<1>5. ASSUME NEW e \in Endpoint, NEW p \in Payload, EncryptSignFails(e, p)
      PROVE  UNCHANGED Chan!vars
  BY <1>3, <1>5 DEF EncryptSignFails
<1>6. ASSUME NEW r \in Role, Tick(r)
      PROVE  UNCHANGED Chan!vars
  BY <1>3, <1>6 DEF Tick
<1>7. CASE UNCHANGED vars
  BY <1>3, <1>7 DEF vars
<1>8. QED
  BY <1>1, <1>2, <1>4, <1>5, <1>6, <1>7 DEF Next

(* Both directions of every session are secure channels in the sense of    *)
(* SecureChannel: nothing duplicated, reordered or invented, losses only.  *)
THEOREM SessionImplementsChannel == Spec => ChannelRefinement
<1>1. Init => Chan!Init
  <2> SUFFICES ASSUME Init PROVE Chan!Init
    OBVIOUS
  <2>1. \A e \in Endpoint : returned[Peer(e)] = <<>>
    BY PeerFacts DEF Init
  <2>2. QED
    BY <2>1 DEF Init, Chan!Init
<1>2. QED
  BY <1>1, Invariance, StepRefines, PTL DEF Spec, ChannelRefinement, Chan!Spec
=============================================================================
