-------------------------- MODULE HandshakeProofs --------------------------
(***************************************************************************)
(* Theorems about Handshake, for any objects, users, certificates, clocks  *)
(* and bounds.                                                             *)
(***************************************************************************)
EXTENDS Handshake, TLAPS

Object == Client \cup Server
Secret == [by : Object, n : Nat]
Peers == {UserOf[c] : c \in Client} \cup {ServerUser}
Sessions == [secret : Secret, session_id : Seq(net), peer : Peers]

(* Everything that was hashed has been on the wire.                        *)
Shapes ==
  /\ clock \in [Role -> Nat]
  /\ builds \in [Client -> Nat] /\ kem_keypair \in [Client -> Nat]
  /\ encaps \in [Server -> Nat]
  /\ transcript \in [Object -> Seq(net)]
  /\ session \in [Server -> Sessions \cup {NoSession}]
  /\ derived \in [Server -> SUBSET Sessions]
  /\ returned \in [Object -> Seq(Sessions)]

(* What is known of a message on the wire.  A ServerHello answers the      *)
(* ClientHello that it signs last, and its server derived a session that   *)
(* ends with it; a ClientFinished is for a session that a client returned. *)
HelloInv(m) ==
  /\ m.kem \in Client \X Nat
  /\ m.kem[2] \in 1..builds[m.kem[1]]
  /\ m.user = UserOf[m.kem[1]]

ServerHelloInv(m) ==
  /\ m.user = ServerUser
  /\ m.secret \in Secret /\ m.secret.by \in Server
  /\ m.secret.n \in 1..encaps[m.secret.by]
  /\ m.signed \in Seq(net) /\ m.signed # <<>>
  /\ LET h == Last(m.signed)
     IN  /\ h.type = "ClientHello"
         /\ m.kem = h.kem
         /\ EstablishedSession(m.secret, Append(m.signed, m), h.user)
               \in derived[m.secret.by]

FinishedInv(m) == \E c \in Client : \E a \in Returned(c) : m = ClientFinished(a)

MessageInv(m) ==
  \/ m.type = "ClientHello" /\ HelloInv(m)
  \/ m.type = "ServerHello" /\ ServerHelloInv(m)
  \/ m.type = "ClientFinished" /\ FinishedInv(m)

NetInv == \A m \in net : MessageInv(m)

(* An object that holds a decapsulation key ends its transcript with the    *)
(* hello for that key; a packer that raises leaves nothing on the wire.    *)
KeyPairInv ==
  /\ \A c \in Client :
       /\ kem_keypair[c] \in 0..builds[c]
       /\ kem_keypair[c] # 0 /\ BinKeywordAccepted =>
            /\ transcript[c] # <<>>
            /\ Last(transcript[c]).type = "ClientHello"
            /\ Last(transcript[c]).kem = <<c, kem_keypair[c]>>
  /\ ~BinKeywordAccepted => net = {}

(* A session id ends with the ServerHello that brought the secret, which is *)
(* fresh.                                                                  *)
DerivedInv ==
  \A s \in Server :
    /\ session[s] \in derived[s] \cup {NoSession}
    /\ \A a \in derived[s] :
         /\ a.session_id # <<>>
         /\ Last(a.session_id).secret = a.secret
         /\ a.secret.by = s /\ a.secret.n \in 1..encaps[s]
    /\ \A a, b \in derived[s] : a.secret = b.secret => a = b

(* A session that a client returned ends with an answer to its own hello.   *)
ReturnedInv ==
  \A c \in Client : \A a \in Returned(c) :
    a.session_id # <<>> /\ Last(a.session_id).kem[1] = c

IInv == Shapes /\ NetInv /\ KeyPairInv /\ DerivedInv /\ ReturnedInv
        /\ ClientAgreement /\ ServerAgreement
-----------------------------------------------------------------------------
(* Sequences.                                                              *)

LEMMA AppendFacts ==
  ASSUME NEW S, NEW s \in Seq(S), NEW x \in S
  PROVE  /\ Append(s, x) \in Seq(S)
         /\ Append(s, x) # <<>>
         /\ Last(Append(s, x)) = x
         /\ ToSet(Append(s, x)) = ToSet(s) \cup {x}
<1>1. /\ Append(s, x) \in Seq(S) /\ Len(Append(s, x)) = Len(s) + 1
      /\ Append(s, x)[Len(s) + 1] = x
      /\ \A i \in 1..Len(s) : Append(s, x)[i] = s[i]
  OBVIOUS
<1>2. Last(Append(s, x)) = x /\ Append(s, x) # <<>>
  BY <1>1 DEF Last
<1>3. ToSet(Append(s, x)) = ToSet(s) \cup {x}
  BY <1>1 DEF ToSet
<1> QED  BY <1>1, <1>2, <1>3

LEMMA AppendTwice ==
  ASSUME NEW S, NEW s \in Seq(S), NEW x \in S, NEW y \in S
  PROVE  s \o <<x, y>> = Append(Append(s, x), y)
OBVIOUS

LEMMA LastIn ==
  ASSUME NEW S, NEW s \in Seq(S), s # <<>>
  PROVE  Last(s) \in S /\ Last(s) \in ToSet(s)
BY DEF Last, ToSet

LEMMA SeqGrows ==
  ASSUME NEW S, NEW T, S \subseteq T
  PROVE  Seq(S) \subseteq Seq(T)
OBVIOUS
-----------------------------------------------------------------------------
(* Steps add to what is on the wire, to the counters and to the history.   *)
Grows ==
  /\ net \subseteq net'
  /\ \A c \in Client : builds[c] <= builds'[c]
  /\ \A s \in Server : encaps[s] <= encaps'[s] /\ derived[s] \subseteq derived'[s]
  /\ \A o \in Object : Returned(o) \subseteq Returned(o)'

(* Nothing that was known of a message gets lost.                          *)
LEMMA OldMessages ==
  ASSUME IInv, Shapes', Grows, NEW m \in net
  PROVE  MessageInv(m)'
<1>1. MessageInv(m)
  BY DEF IInv, NetInv
<1>2. Seq(net) \subseteq Seq(net')
  BY SeqGrows DEF Grows
<1>3. CASE m.type = "ClientHello" /\ HelloInv(m)
  <2>1. m.kem[1] \in Client /\ m.kem[2] \in 1..builds[m.kem[1]]
    BY <1>3 DEF HelloInv
  <2>2. builds[m.kem[1]] <= builds'[m.kem[1]] /\ builds[m.kem[1]] \in Nat
        /\ builds'[m.kem[1]] \in Nat
    BY <2>1 DEF Grows, IInv, Shapes
  <2>3. m.kem[2] \in 1..builds'[m.kem[1]]
    BY <2>1, <2>2
  <2> QED  BY <1>3, <2>3 DEF HelloInv, MessageInv
<1>4. CASE m.type = "ServerHello" /\ ServerHelloInv(m)
  <2> DEFINE s == m.secret.by
  <2>1. s \in Server /\ m.secret.n \in 1..encaps[s]
    BY <1>4 DEF ServerHelloInv
  <2>2. encaps[s] <= encaps'[s] /\ encaps[s] \in Nat /\ encaps'[s] \in Nat
    BY <2>1 DEF Grows, IInv, Shapes
  <2>3. m.secret.n \in 1..encaps'[s]
    BY <2>1, <2>2
  <2>4. derived[s] \subseteq derived'[s]
    BY <2>1 DEF Grows
  <2> QED  BY <1>2, <1>4, <2>3, <2>4 DEF ServerHelloInv, MessageInv
<1>5. CASE m.type = "ClientFinished" /\ FinishedInv(m)
  BY <1>5 DEF FinishedInv, Grows, Object, MessageInv
<1> QED  BY <1>1, <1>3, <1>4, <1>5 DEF MessageInv

LEMMA ShapesGrow ==
  ASSUME IInv, net \subseteq net'
  PROVE  /\ transcript \in [Object -> Seq(net')]
         /\ Sessions \subseteq Sessions'
         /\ session \in [Server -> Sessions' \cup {NoSession}]
         /\ derived \in [Server -> SUBSET Sessions']
         /\ returned \in [Object -> Seq(Sessions')]
<1>1. Seq(net) \subseteq Seq(net')
  BY SeqGrows
<1>2. Sessions \subseteq Sessions'
  BY <1>1 DEF Sessions
<1>3. Seq(Sessions) \subseteq Seq(Sessions')
  BY <1>2, SeqGrows
<1> QED  BY <1>1, <1>2, <1>3 DEF IInv, Shapes

(* A step that hands out nothing keeps what was agreed.                    *)
LEMMA AgreementKept ==
  ASSUME IInv, UNCHANGED returned,
         \A s \in Server : derived[s] \subseteq derived'[s]
  PROVE  ReturnedInv' /\ ClientAgreement' /\ ServerAgreement'
BY DEF IInv, ReturnedInv, ClientAgreement, ServerAgreement, Returned

LEMMA DerivedKept ==
  ASSUME IInv, UNCHANGED serverVars
  PROVE  DerivedInv'
BY DEF IInv, DerivedInv, serverVars

(* A step of the other side.                                               *)
LEMMA KeyPairKept ==
  ASSUME IInv, UNCHANGED clientVars, \A c \in Client : transcript'[c] = transcript[c],
         net = {} => net' = {}
  PROVE  KeyPairInv'
BY DEF IInv, KeyPairInv, clientVars
-----------------------------------------------------------------------------
LEMMA BuildClientHelloIInv ==
  ASSUME IInv, NEW c \in Client, BuildClientHello(c)
  PROVE  IInv'
<1> DEFINE hello == ClientHello(c)
<1>1. /\ builds' = [builds EXCEPT ![c] = builds[c] + 1]
      /\ kem_keypair' = [kem_keypair EXCEPT ![c] = builds[c] + 1]
      /\ builds[c] \in Nat /\ builds' \in [Client -> Nat]
      /\ kem_keypair' \in [Client -> Nat]
  BY DEF BuildClientHello, IInv, Shapes
<1>2. UNCHANGED <<clock, serverVars, returned>> /\ net \subseteq net'
  BY DEF BuildClientHello
<1>3. c \in Object /\ transcript[c] \in Seq(net')
  BY <1>2, ShapesGrow DEF Object
<1>4. Shapes'
  <2>1. CASE BinKeywordAccepted
    <3>1. hello \in net' /\ transcript' = [transcript EXCEPT ![c] = Append(@, hello)]
      BY <2>1 DEF BuildClientHello
    <3>2. Append(transcript[c], hello) \in Seq(net')
      BY <1>3, <3>1
    <3> QED  BY <1>1, <1>2, <3>1, <3>2, ShapesGrow DEF Shapes, IInv, serverVars
  <2>2. CASE ~BinKeywordAccepted
    <3>1. UNCHANGED <<net, transcript>>
      BY <2>2 DEF BuildClientHello
    <3> QED  BY <1>1, <1>2, <3>1, ShapesGrow DEF Shapes, IInv, serverVars
  <2> QED  BY <2>1, <2>2
<1>5. Grows
  BY <1>1, <1>2 DEF Grows, IInv, Shapes, serverVars, Returned
<1>6. NetInv'
  <2> SUFFICES ASSUME NEW m \in net'
               PROVE  MessageInv(m)'
    BY DEF NetInv
  <2>1. CASE m \in net
    BY <2>1, <1>4, <1>5, OldMessages
  <2>2. CASE m = hello
    <3>1. /\ m.type = "ClientHello" /\ m.kem = <<c, builds[c] + 1>>
          /\ m.user = UserOf[c]
      BY <2>2 DEF ClientHello
    <3>2. builds'[c] = builds[c] + 1
      BY <1>1
    <3> QED  BY <1>1, <3>1, <3>2 DEF MessageInv, HelloInv
  <2> QED  BY <2>1, <2>2 DEF BuildClientHello
<1>7. KeyPairInv'
  <2>1. ~BinKeywordAccepted => net' = {}
    BY DEF BuildClientHello, IInv, KeyPairInv
  <2> SUFFICES ASSUME NEW d \in Client
               PROVE  /\ kem_keypair'[d] \in 0..builds'[d]
                      /\ kem_keypair'[d] # 0 /\ BinKeywordAccepted =>
                            /\ transcript'[d] # <<>>
                            /\ Last(transcript'[d]).type = "ClientHello"
                            /\ Last(transcript'[d]).kem = <<d, kem_keypair'[d]>>
    BY <2>1 DEF KeyPairInv
  <2>2. CASE d # c
    <3>1. /\ kem_keypair'[d] = kem_keypair[d] /\ builds'[d] = builds[d]
          /\ transcript'[d] = transcript[d]
      BY <2>2, <1>1 DEF BuildClientHello, IInv, Shapes, Object
    <3> QED  BY <3>1 DEF IInv, KeyPairInv
  <2>3. CASE d = c
    <3>1. kem_keypair'[c] = builds[c] + 1 /\ builds'[c] = builds[c] + 1
      BY <1>1 DEF IInv, Shapes
    <3>2. CASE BinKeywordAccepted
      <4>1. transcript'[c] = Append(transcript[c], hello) /\ hello \in net'
        BY <3>2, <1>3 DEF BuildClientHello, IInv, Shapes
      <4>2. transcript'[c] # <<>> /\ Last(transcript'[c]) = hello
        BY <4>1, <1>3, AppendFacts
      <4>3. hello.type = "ClientHello" /\ hello.kem = <<c, builds[c] + 1>>
        BY DEF ClientHello
      <4> QED  BY <1>1, <2>3, <3>1, <4>2, <4>3
    <3> QED  BY <1>1, <2>3, <3>1, <3>2
  <2> QED  BY <2>2, <2>3
<1>8. DerivedInv' /\ ReturnedInv' /\ ClientAgreement' /\ ServerAgreement'
  BY <1>2, <1>5, DerivedKept, AgreementKept DEF Grows
<1> QED  BY <1>4, <1>6, <1>7, <1>8 DEF IInv

(* The server hashes what it refuses.                                       *)
LEMMA RejectClientHelloIInv ==
  ASSUME IInv, NEW s \in Server, NEW m \in net, RejectClientHello(s, m)
  PROVE  IInv'
<1>1. UNCHANGED <<clock, net, clientVars, serverVars, returned>>
  BY DEF RejectClientHello
<1>2. s \in Object /\ transcript[s] \in Seq(net)
  BY DEF Object, IInv, Shapes
<1>3. transcript' = [transcript EXCEPT ![s] = Append(@, m)]
  BY DEF RejectClientHello
<1>4. transcript' \in [Object -> Seq(net)]
  BY <1>2, <1>3 DEF IInv, Shapes
<1>5. Shapes'
  BY <1>1, <1>4 DEF IInv, Shapes, Sessions, clientVars, serverVars
<1>6. NetInv'
  BY <1>1 DEF IInv, NetInv, MessageInv, HelloInv, ServerHelloInv, FinishedInv, Returned,
       clientVars, serverVars
<1>7. KeyPairInv'
  <2>1. \A c \in Client : c # s /\ transcript'[c] = transcript[c]
    BY <1>3, HandshakeAssumption DEF IInv, Shapes, Object
  <2> QED  BY <1>1, <2>1, KeyPairKept
<1>8. DerivedInv' /\ ReturnedInv' /\ ClientAgreement' /\ ServerAgreement'
  BY <1>1, DerivedKept, AgreementKept DEF serverVars
<1> QED  BY <1>5, <1>6, <1>7, <1>8 DEF IInv

LEMMA TickIInv ==
  ASSUME IInv, NEW r \in Role, Tick(r)
  PROVE  IInv'
<1>1. UNCHANGED <<net, transcript, clientVars, serverVars, returned>>
  BY DEF Tick
<1>2. clock' \in [Role -> Nat]
  BY DEF Tick, IInv, Shapes
<1>3. Shapes'
  BY <1>1, <1>2 DEF IInv, Shapes, Sessions, clientVars, serverVars
<1>4. NetInv'
  BY <1>1 DEF IInv, NetInv, MessageInv, HelloInv, ServerHelloInv, FinishedInv, Returned,
       clientVars, serverVars
<1>5. KeyPairInv'
  BY <1>1, KeyPairKept
<1>6. DerivedInv' /\ ReturnedInv' /\ ClientAgreement' /\ ServerAgreement'
  BY <1>1, DerivedKept, AgreementKept DEF serverVars
<1> QED  BY <1>3, <1>4, <1>5, <1>6 DEF IInv

LEMMA StutterIInv ==
  ASSUME IInv, UNCHANGED vars
  PROVE  IInv'
<1>1. Shapes'
  BY DEF IInv, Shapes, Sessions, vars
<1>2. NetInv'
  BY DEF IInv, NetInv, MessageInv, HelloInv, ServerHelloInv, FinishedInv, Returned, vars
<1>3. KeyPairInv' /\ DerivedInv'
  BY KeyPairKept, DerivedKept DEF vars, clientVars, serverVars
<1>4. ReturnedInv' /\ ClientAgreement' /\ ServerAgreement'
  BY AgreementKept DEF vars
<1> QED  BY <1>1, <1>2, <1>3, <1>4 DEF IInv

(* The secret is fresh, the id ends with the hello that carries it.         *)
LEMMA ProcessClientHelloIInv ==
  ASSUME IInv, NEW s \in Server, NEW m \in net, ProcessClientHello(s, m)
  PROVE  IInv'
<1> DEFINE hello == ServerHello(s, m)
           tr == Append(Append(transcript[s], m), hello)
           est == EstablishedSession(hello.secret, tr, m.user)
<1>1. /\ UNCHANGED <<clock, clientVars, returned>>
      /\ net' = net \cup {hello}
      /\ encaps' = [encaps EXCEPT ![s] = encaps[s] + 1]
      /\ encaps[s] \in Nat /\ encaps' \in [Server -> Nat]
  BY DEF ProcessClientHello, IInv, Shapes
<1>2. /\ s \in Object /\ transcript[s] \in Seq(net) /\ transcript[s] \in Seq(net')
      /\ Append(transcript[s], m) \in Seq(net)
      /\ Append(transcript[s], m) \in Seq(net') /\ tr \in Seq(net')
      /\ tr = transcript[s] \o <<m, hello>>
  BY <1>1, ShapesGrow, AppendTwice DEF Object, IInv, Shapes
<1>3. /\ transcript' = [transcript EXCEPT ![s] = tr]
      /\ session' = [session EXCEPT ![s] = est]
      /\ derived' = [derived EXCEPT ![s] = @ \cup {est}]
  BY <1>2 DEF ProcessClientHello
<1>4. m.type = "ClientHello" /\ HelloInv(m)
  BY DEF ProcessClientHello, IInv, NetInv, MessageInv
<1>5. /\ hello.type = "ServerHello" /\ hello.kem = m.kem
      /\ hello.secret = [by |-> s, n |-> encaps[s] + 1]
      /\ hello.user = ServerUser /\ hello.signed = Append(transcript[s], m)
  BY DEF ServerHello
<1>6. /\ est.secret = hello.secret /\ est.session_id = tr /\ est.peer = m.user
      /\ hello.secret \in Secret /\ est \in Sessions'
  <2>1. hello.secret \in Secret
    BY <1>1, <1>2, <1>5 DEF Secret
  <2>2. m.user \in Peers
    BY <1>4 DEF HelloInv, Peers
  <2> QED  BY <1>2, <2>1, <2>2 DEF EstablishedSession, Sessions
<1>7. Shapes'
  <2>1. transcript' \in [Object -> Seq(net')]
    BY <1>1, <1>2, <1>3, ShapesGrow
  <2>2. session' \in [Server -> Sessions' \cup {NoSession}]
    BY <1>1, <1>3, <1>6, ShapesGrow
  <2>3. derived' \in [Server -> SUBSET Sessions']
    BY <1>1, <1>3, <1>6, ShapesGrow
  <2> QED  BY <1>1, <2>1, <2>2, <2>3, ShapesGrow DEF IInv, Shapes, clientVars
<1>8. Grows
  BY <1>1, <1>3 DEF Grows, IInv, Shapes, clientVars, Returned
<1>9. NetInv'
  <2> SUFFICES ASSUME NEW x \in net'
               PROVE  MessageInv(x)'
    BY DEF NetInv
  <2>1. CASE x \in net
    BY <2>1, <1>7, <1>8, OldMessages
  <2>2. CASE x = hello
    <3>1. x.signed # <<>> /\ Last(x.signed) = m
      BY <2>2, <1>2, <1>5, AppendFacts
    <3>2. EstablishedSession(x.secret, Append(x.signed, x), m.user) \in derived'[s]
      BY <2>2, <1>3, <1>5 DEF IInv, Shapes
    <3>3. x.secret.by = s /\ x.secret.n \in 1..encaps'[s]
      BY <2>2, <1>1, <1>5
    <3>4. ServerHelloInv(x)'
      BY <2>2, <1>2, <1>4, <1>5, <1>6, <3>1, <3>2, <3>3 DEF ServerHelloInv
    <3> QED  BY <2>2, <1>5, <3>4 DEF MessageInv
  <2> QED  BY <1>1, <2>1, <2>2
<1>10. KeyPairInv'
  <2>1. \A c \in Client : transcript'[c] = transcript[c]
    BY <1>3, HandshakeAssumption DEF IInv, Shapes, Object
  <2> QED  BY <1>1, <2>1, KeyPairKept
<1>11. DerivedInv'
  <2> SUFFICES ASSUME NEW t \in Server
               PROVE  /\ session'[t] \in derived'[t] \cup {NoSession}
                      /\ \A a \in derived'[t] :
                           /\ a.session_id # <<>>
                           /\ Last(a.session_id).secret = a.secret
                           /\ a.secret.by = t /\ a.secret.n \in 1..encaps'[t]
                      /\ \A a, b \in derived'[t] : a.secret = b.secret => a = b
    BY DEF DerivedInv
  <2>1. CASE t # s
    BY <2>1, <1>1, <1>3 DEF IInv, DerivedInv, Shapes
  <2>2. CASE t = s
    <3>1. session'[s] = est /\ derived'[s] = derived[s] \cup {est} /\ encaps'[s] = encaps[s] + 1
      BY <1>1, <1>3 DEF IInv, Shapes
    <3>2. est.session_id # <<>> /\ Last(est.session_id) = hello
      <4>1. hello \in net'
        BY <1>1
      <4>2. tr # <<>> /\ Last(tr) = hello
        BY <1>2, <4>1, AppendFacts
      <4> QED  BY <1>6, <4>2
    <3>3. est.secret.by = s /\ est.secret.n = encaps[s] + 1
      BY <1>5, <1>6
    <3>4. \A a \in derived[s] :
            /\ a.session_id # <<>> /\ Last(a.session_id).secret = a.secret
            /\ a.secret.by = s /\ a.secret.n \in 1..encaps[s]
      BY DEF IInv, DerivedInv
    <3>5. \A a \in derived[s] : a.secret # est.secret
      BY <1>1, <3>3, <3>4
    <3>6. \A a, b \in derived'[s] : a.secret = b.secret => a = b
      BY <3>1, <3>5 DEF IInv, DerivedInv
    <3>7. \A a \in derived'[s] :
            /\ a.session_id # <<>> /\ Last(a.session_id).secret = a.secret
            /\ a.secret.by = s /\ a.secret.n \in 1..encaps'[s]
      <4>1. \A n \in 1..encaps[s] : n \in 1..encaps'[s]
        BY <1>1, <3>1
      <4>2. encaps[s] + 1 \in 1..encaps'[s]
        BY <1>1, <3>1
      <4> HIDE DEF est, hello, tr
      <4>3. Last(est.session_id).secret = est.secret
        BY <1>6, <3>2
      <4> QED  BY <3>1, <3>2, <3>3, <3>4, <4>1, <4>2, <4>3
    <3> QED  BY <2>2, <3>1, <3>6, <3>7
  <2> QED  BY <2>1, <2>2
<1>12. ReturnedInv' /\ ClientAgreement' /\ ServerAgreement'
  BY <1>1, <1>8, AgreementKept DEF Grows
<1> QED  BY <1>7, <1>9, <1>10, <1>11, <1>12 DEF IInv

(* What a client hands out when it accepts m: it holds the key that m was   *)
(* encapsulated to, and m signs the client's transcript, which ends with   *)
(* its own hello, so that both sides derive the same.                      *)
LEMMA AcceptedServerHello ==
  ASSUME IInv, NEW c \in Client, NEW m \in net, ProcessServerHello(c, m)
  PROVE  /\ Decapsulate(c, m) = m.secret /\ m.secret \in Secret
         /\ m.user = ServerUser /\ m.kem[1] = c
         /\ m.secret.by \in Server
         /\ EstablishedSession(m.secret, Append(transcript[c], m), UserOf[c])
               \in derived[m.secret.by]
<1> DEFINE h == Last(transcript[c])
<1>1. kem_keypair[c] # 0 /\ m.signed = transcript[c]
  BY DEF ProcessServerHello
<1>2. m.type = "ServerHello" /\ ServerHelloInv(m)
  BY DEF ProcessServerHello, IInv, NetInv, MessageInv
<1>3. BinKeywordAccepted
  BY DEF IInv, KeyPairInv
<1>4. transcript[c] # <<>> /\ h.type = "ClientHello" /\ h.kem = <<c, kem_keypair[c]>>
  BY <1>1, <1>3 DEF IInv, KeyPairInv
<1>5. m.kem = <<c, kem_keypair[c]>>
  BY <1>1, <1>2, <1>4 DEF ServerHelloInv
<1>6. h \in net
  BY <1>4, LastIn DEF IInv, Shapes, Object
<1>7. h.user = UserOf[c]
  BY <1>4, <1>6 DEF IInv, NetInv, MessageInv, HelloInv
<1>8. Decapsulate(c, m) = m.secret
  BY <1>5 DEF Decapsulate
<1> QED  BY <1>1, <1>2, <1>5, <1>7, <1>8 DEF ServerHelloInv

LEMMA ProcessServerHelloIInv ==
  ASSUME IInv, NEW c \in Client, NEW m \in net, ProcessServerHello(c, m)
  PROVE  IInv'
<1> DEFINE tr == Append(transcript[c], m)
           est == EstablishedSession(m.secret, tr, ServerUser)
           fin == ClientFinished(est)
<1>1. /\ UNCHANGED <<clock, builds, serverVars>>
      /\ net' = net \cup {fin}
      /\ transcript' = [transcript EXCEPT ![c] = Append(tr, fin)]
      /\ returned' = [returned EXCEPT ![c] = Append(@, est)]
      /\ kem_keypair' = [kem_keypair EXCEPT ![c] = 0]
  BY AcceptedServerHello DEF ProcessServerHello
<1>2. /\ c \in Object /\ transcript[c] \in Seq(net) /\ tr \in Seq(net)
      /\ tr \in Seq(net') /\ Append(tr, fin) \in Seq(net')
  <2>1. c \in Object /\ transcript[c] \in Seq(net) /\ tr \in Seq(net)
    BY DEF Object, IInv, Shapes
  <2>2. tr \in Seq(net') /\ fin \in net'
    BY <1>1, <2>1, SeqGrows
  <2> QED  BY <2>1, <2>2
<1>3. /\ est.secret = m.secret /\ est.session_id = tr /\ est.peer = ServerUser
      /\ est \in Sessions'
      /\ [est EXCEPT !.peer = UserOf[c]] \in derived[m.secret.by]
  <2>1. est.secret = m.secret /\ est.session_id = tr /\ est.peer = ServerUser
    BY DEF EstablishedSession
  <2>2. est \in Sessions'
    <3>1. m.secret \in Secret /\ ServerUser \in Peers
      BY AcceptedServerHello DEF Peers
    <3> QED  BY <1>2, <3>1 DEF EstablishedSession, Sessions
  <2>3. [est EXCEPT !.peer = UserOf[c]] = EstablishedSession(m.secret, tr, UserOf[c])
    BY DEF EstablishedSession
  <2> QED  BY <2>1, <2>2, <2>3, AcceptedServerHello
<1>4. Last(est.session_id) = m /\ est.session_id # <<>>
  BY <1>2, <1>3, AppendFacts
<1>5. Shapes'
  <2>1. transcript' \in [Object -> Seq(net')]
    BY <1>1, <1>2, ShapesGrow
  <2>2. returned' \in [Object -> Seq(Sessions')]
    BY <1>1, <1>2, <1>3, ShapesGrow
  <2>3. kem_keypair' \in [Client -> Nat]
    BY <1>1 DEF IInv, Shapes
  <2> QED  BY <1>1, <2>1, <2>2, <2>3, ShapesGrow DEF IInv, Shapes, serverVars
<1>6. Returned(c)' = Returned(c) \cup {est}
  <2>1. returned'[c] = Append(returned[c], est)
    BY <1>1, <1>2 DEF IInv, Shapes
  <2>2. returned[c] \in Seq(Sessions')
    BY <1>1, <1>2, ShapesGrow
  <2> QED  BY <1>3, <2>1, <2>2, AppendFacts DEF Returned
<1>7. \A o \in Object : o # c => Returned(o)' = Returned(o)
  BY <1>1 DEF IInv, Shapes, Returned
<1>8. Grows
  <2>1. \A o \in Object : Returned(o) \subseteq Returned(o)'
    BY <1>6, <1>7
  <2>2. \A d \in Client : builds[d] \in Nat
    BY DEF IInv, Shapes
  <2>3. \A t \in Server : encaps[t] \in Nat
    BY DEF IInv, Shapes
  <2> QED  BY <1>1, <2>1, <2>2, <2>3 DEF Grows, serverVars
<1>9. NetInv'
  <2> SUFFICES ASSUME NEW x \in net'
               PROVE  MessageInv(x)'
    BY DEF NetInv
  <2>1. CASE x \in net
    BY <2>1, <1>5, <1>8, OldMessages
  <2>2. CASE x = fin
    BY <2>2, <1>6 DEF MessageInv, FinishedInv, ClientFinished
  <2> QED  BY <1>1, <2>1, <2>2
<1>10. KeyPairInv'
  <2>1. ~BinKeywordAccepted => net' = {}
    BY DEF IInv, KeyPairInv
  <2>2. \A d \in Client : d # c =>
          transcript'[d] = transcript[d] /\ kem_keypair'[d] = kem_keypair[d]
    BY <1>1 DEF IInv, Shapes, Object
  <2>3. kem_keypair'[c] = 0 /\ builds[c] \in Nat /\ builds' = builds
    BY <1>1 DEF IInv, Shapes
  <2> SUFFICES ASSUME NEW d \in Client
               PROVE  /\ kem_keypair'[d] \in 0..builds'[d]
                      /\ kem_keypair'[d] # 0 /\ BinKeywordAccepted =>
                            /\ transcript'[d] # <<>>
                            /\ Last(transcript'[d]).type = "ClientHello"
                            /\ Last(transcript'[d]).kem = <<d, kem_keypair'[d]>>
    BY <2>1 DEF KeyPairInv
  <2>4. CASE d = c
    BY <2>3, <2>4
  <2>5. CASE d # c
    BY <2>2, <2>3, <2>5 DEF IInv, KeyPairInv
  <2> QED  BY <2>4, <2>5
<1>11. DerivedInv'
  BY <1>1, DerivedKept
<1>12. ReturnedInv'
  BY <1>4, <1>6, <1>7, AcceptedServerHello DEF IInv, ReturnedInv, Object
<1>13. ClientAgreement'
  <2> SUFFICES ASSUME NEW d \in Client, NEW a \in Returned(d)'
               PROVE  \E s \in Server : [a EXCEPT !.peer = UserOf[d]] \in derived'[s]
                                       /\ a.peer = ServerUser
    BY DEF ClientAgreement
  <2>1. CASE a \in Returned(d)
    BY <2>1, <1>1 DEF IInv, ClientAgreement, serverVars
  <2>2. CASE a = est /\ d = c
    BY <2>2, <1>1, <1>3, AcceptedServerHello DEF serverVars
  <2> QED  BY <1>6, <1>7, <2>1, <2>2 DEF Object
<1>14. ServerAgreement'
  <2>1. \A s \in Server : Returned(s)' = Returned(s)
    BY <1>7, HandshakeAssumption DEF Object
  <2>2. \A d \in Client : Returned(d) \subseteq Returned(d)'
    BY <1>8 DEF Grows, Object
  <2> QED  BY <2>1, <2>2 DEF IInv, ServerAgreement
<1> QED  BY <1>5, <1>9, <1>10, <1>11, <1>12, <1>13, <1>14 DEF IInv

(* A confirmation under the secret of the server's session comes from the   *)
(* client that the session is for: secrets are fresh, so no other session  *)
(* of any server has it.                                                   *)
LEMMA AcceptedFinished ==
  ASSUME IInv, NEW s \in Server, NEW m \in net, ProcessClientFinished(s, m)
  PROVE  /\ session[s] \in derived[s]
         /\ \E c \in Client : /\ session[s].peer = UserOf[c]
                             /\ [session[s] EXCEPT !.peer = ServerUser] \in Returned(c)
<1>1. session[s] \in derived[s] /\ session[s] \in Sessions
  BY DEF ProcessClientFinished, IInv, DerivedInv, Shapes
<1>2. m.type = "ClientFinished" /\ m.secret = session[s].secret
  BY DEF ProcessClientFinished, FinishedMatches
<1>3. PICK c \in Client : \E a \in Returned(c) : m = ClientFinished(a)
  BY <1>2 DEF IInv, NetInv, MessageInv, FinishedInv
<1>4. PICK a \in Returned(c) : m = ClientFinished(a)
  BY <1>3
<1>5. PICK t \in Server : [a EXCEPT !.peer = UserOf[c]] \in derived[t] /\ a.peer = ServerUser
  BY DEF IInv, ClientAgreement
<1>6. a \in Sessions
  BY DEF Returned, ToSet, IInv, Shapes, Object
<1> DEFINE b == [a EXCEPT !.peer = UserOf[c]]
<1>7. b.secret = a.secret /\ b.peer = UserOf[c] /\ [b EXCEPT !.peer = ServerUser] = a
  BY <1>5, <1>6 DEF Sessions
<1>8. b.secret = session[s].secret
  BY <1>2, <1>4, <1>7 DEF ClientFinished
<1>9. t = s
  <2>1. b.secret.by = t
    BY <1>5 DEF IInv, DerivedInv
  <2>2. session[s].secret.by = s
    BY <1>1 DEF IInv, DerivedInv
  <2> QED  BY <1>8, <2>1, <2>2
<1>10. b = session[s]
  BY <1>1, <1>5, <1>8, <1>9 DEF IInv, DerivedInv
<1> QED  BY <1>1, <1>7, <1>10

LEMMA ProcessClientFinishedIInv ==
  ASSUME IInv, NEW s \in Server, NEW m \in net, ProcessClientFinished(s, m)
  PROVE  IInv'
<1> DEFINE est == session[s]
<1>1. /\ UNCHANGED <<clock, net, clientVars, serverVars>>
      /\ transcript' = [transcript EXCEPT ![s] = Append(@, m)]
      /\ returned' = [returned EXCEPT ![s] = Append(@, est)]
  BY DEF ProcessClientFinished
<1>2. s \in Object /\ est \in Sessions /\ returned[s] \in Seq(Sessions)
  BY AcceptedFinished DEF Object, IInv, Shapes
<1>3. /\ transcript' \in [Object -> Seq(net)]
      /\ returned' \in [Object -> Seq(Sessions)]
  BY <1>1, <1>2 DEF IInv, Shapes
<1>4. Shapes'
  BY <1>1, <1>3 DEF IInv, Shapes, Sessions, clientVars, serverVars
<1>5. Returned(s)' = Returned(s) \cup {est}
  <2>1. returned'[s] = Append(returned[s], est)
    BY <1>1, <1>2 DEF IInv, Shapes
  <2> QED  BY <1>2, <2>1, AppendFacts DEF Returned
<1>6. \A o \in Object : o # s => Returned(o)' = Returned(o)
  BY <1>1 DEF IInv, Shapes, Returned
<1>7. \A c \in Client : Returned(c)' = Returned(c) /\ transcript'[c] = transcript[c]
  BY <1>1, <1>6, HandshakeAssumption DEF IInv, Shapes, Object
<1>8. Grows
  <2>1. \A o \in Object : Returned(o) \subseteq Returned(o)'
    BY <1>5, <1>6
  <2>2. \A c \in Client : builds[c] \in Nat
    BY DEF IInv, Shapes
  <2>3. \A t \in Server : encaps[t] \in Nat
    BY DEF IInv, Shapes
  <2> QED  BY <1>1, <2>1, <2>2, <2>3 DEF Grows, clientVars, serverVars
<1>9. NetInv'
  BY <1>1, <1>4, <1>8, OldMessages DEF NetInv
<1>10. KeyPairInv' /\ DerivedInv'
  BY <1>1, <1>7, KeyPairKept, DerivedKept
<1>11. ReturnedInv' /\ ClientAgreement'
  BY <1>1, <1>7 DEF IInv, ReturnedInv, ClientAgreement, serverVars
<1>12. ServerAgreement'
  <2> SUFFICES ASSUME NEW t \in Server, NEW b \in Returned(t)'
               PROVE  \E c \in Client : /\ b.peer = UserOf[c]
                                       /\ [b EXCEPT !.peer = ServerUser] \in Returned(c)'
    BY DEF ServerAgreement
  <2>1. CASE b \in Returned(t)
    BY <2>1, <1>7 DEF IInv, ServerAgreement
  <2>2. CASE b = est
    BY <2>2, <1>7, AcceptedFinished
  <2> QED  BY <1>5, <1>6, <2>1, <2>2 DEF Object
<1> QED  BY <1>4, <1>9, <1>10, <1>11, <1>12 DEF IInv
-----------------------------------------------------------------------------
LEMMA InitIInv == Init => IInv
<1> SUFFICES ASSUME Init
             PROVE  IInv
  OBVIOUS
<1>1. Shapes
  BY DEF Init, Shapes, Object
<1>2. \A o \in Object : Returned(o) = {}
  BY DEF Init, Returned, ToSet, Object
<1>3. NetInv /\ KeyPairInv /\ DerivedInv
  BY DEF Init, NetInv, KeyPairInv, DerivedInv
<1>4. ReturnedInv /\ ClientAgreement /\ ServerAgreement
  BY <1>2 DEF ReturnedInv, ClientAgreement, ServerAgreement, Object
<1> QED  BY <1>1, <1>3, <1>4 DEF IInv

LEMMA NextIInv == IInv /\ [Next]_vars => IInv'
<1> SUFFICES ASSUME IInv, [Next]_vars
             PROVE  IInv'
  OBVIOUS
<1>1. ASSUME NEW c \in Client, BuildClientHello(c)
      PROVE  IInv'
  BY <1>1, BuildClientHelloIInv
<1>2. ASSUME NEW c \in Client, NEW m \in net, ProcessServerHello(c, m)
      PROVE  IInv'
  BY <1>2, ProcessServerHelloIInv
<1>3. ASSUME NEW s \in Server, NEW m \in net, ProcessClientHello(s, m)
      PROVE  IInv'
  BY <1>3, ProcessClientHelloIInv
<1>4. ASSUME NEW s \in Server, NEW m \in net, RejectClientHello(s, m)
      PROVE  IInv'
  BY <1>4, RejectClientHelloIInv
<1>5. ASSUME NEW s \in Server, NEW m \in net, ProcessClientFinished(s, m)
      PROVE  IInv'
  BY <1>5, ProcessClientFinishedIInv
<1>6. ASSUME NEW r \in Role, Tick(r)
      PROVE  IInv'
  BY <1>6, TickIInv
<1>7. CASE UNCHANGED vars
  BY <1>7, StutterIInv
<1> QED  BY <1>1, <1>2, <1>3, <1>4, <1>5, <1>6, <1>7 DEF Next

LEMMA SpecIInv == Spec => []IInv
BY InitIInv, NextIInv, PTL DEF Spec

(* Counters and histories have their types, every message on the wire was   *)
(* built from a key pair or a secret that exists, only messages from the    *)
(* wire are hashed, and a server's session is one that it derived.          *)
THEOREM TypeCorrect == Spec => []TypeOK
<1>1. IInv => TypeOK
  <2> SUFFICES ASSUME IInv
               PROVE  TypeOK
    OBVIOUS
  <2>1. \A m \in net : Message(m)
    BY DEF IInv, NetInv, MessageInv, HelloInv, ServerHelloInv, Message
  <2>2. \A o \in Client \cup Server : \A i \in 1..Len(transcript[o]) : transcript[o][i] \in net
    BY DEF IInv, Shapes, Object
  <2> QED  BY <2>1, <2>2 DEF IInv, Shapes, KeyPairInv, DerivedInv, TypeOK
<1> QED  BY <1>1, SpecIInv, PTL

(* A session that process_client_finished hands out was handed out by a     *)
(* client object of the user in its peer_id, with the same keys and id, and *)
(* for the server as its peer, whatever was lost, replayed or misrouted.    *)
THEOREM ServersAgree == Spec => []ServerAgreement
<1>1. IInv => ServerAgreement
  BY DEF IInv
<1> QED  BY <1>1, SpecIInv, PTL

(* The same for process_server_hello: the server derived this session, with *)
(* the same keys and id, for this client's user.                            *)
THEOREM ClientsAgree == Spec => []ClientAgreement
<1>1. IInv => ClientAgreement
  BY DEF IInv
<1> QED  BY <1>1, SpecIInv, PTL

(* No two client objects ever hold a session with the same id, no two       *)
(* sessions of the servers share an id or a secret: a ClientHello processed *)
(* twice gives two sessions.                                                *)
THEOREM SessionsStayDistinct == Spec => []SessionsDistinct
<1>1. IInv => SessionsDistinct
  <2> SUFFICES ASSUME IInv
               PROVE  SessionsDistinct
    OBVIOUS
  <2>1. ASSUME NEW c \in Client, NEW d \in Client, c # d,
               NEW a \in Returned(c), NEW b \in Returned(d)
        PROVE  a.session_id # b.session_id
    BY <2>1 DEF IInv, ReturnedInv
  <2>2. ASSUME NEW s \in Server, NEW t \in Server, NEW a \in derived[s], NEW b \in derived[t],
               a.secret = b.secret
        PROVE  a = b /\ s = t
    BY <2>2 DEF IInv, DerivedInv
  <2>3. ASSUME NEW s \in Server, NEW t \in Server, NEW a \in derived[s], NEW b \in derived[t],
               a.session_id = b.session_id
        PROVE  a.secret = b.secret
    BY <2>3 DEF IInv, DerivedInv
  <2> QED  BY <2>1, <2>2, <2>3 DEF SessionsDistinct
<1> QED  BY <1>1, SpecIInv, PTL
=============================================================================
