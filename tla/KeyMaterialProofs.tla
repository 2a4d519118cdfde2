------------------------ MODULE KeyMaterialProofs --------------------------
(***************************************************************************)
(* What is proved of KeyMaterial, for any bounds.                          *)
(***************************************************************************)
EXTENDS KeyMaterial, TLAPS

(* What the assumption on the constants says, one by one.                  *)
LEMMA Bounds ==
  /\ SequenceWidth \in Nat \ {0}
  /\ MaxIdentity \in Nat /\ MaxConnect \in Nat /\ MaxServed \in Nat /\ MaxSeq \in Nat
  /\ None \notin Nat
BY KeyMaterialAssumption

(* Buffers of different kinds, and of different numbers, are different.     *)
LEMMA BuffersDiffer ==
  /\ \A m, n : Identity(m) # DecapKey(n) /\ Identity(m) # ClientKeys(n)
  /\ \A m, n : Identity(m) # ServerKeys(n) /\ DecapKey(m) # ClientKeys(n)
  /\ \A m, n : DecapKey(m) # ServerKeys(n) /\ ClientKeys(m) # ServerKeys(n)
  /\ \A m, n : Identity(m) = Identity(n) => m = n
  /\ \A m, n : DecapKey(m) = DecapKey(n) => m = n
  /\ \A m, n : ClientKeys(m) = ClientKeys(n) => m = n
  /\ \A m, n : ServerKeys(m) = ServerKeys(n) => m = n
  /\ \A n \in Nat : {Identity(n), DecapKey(n), ClientKeys(n), ServerKeys(n)} \subseteq Buffer
BY DEF Identity, DecapKey, ClientKeys, ServerKeys, Buffer
-----------------------------------------------------------------------------
(* The inductive invariant.                                                *)

(* The shape of records and sequences.                                     *)
Shapes ==
  /\ kem \in Seq(Nat)
  /\ connecting # None =>
        connecting \in [n : Nat, handshake : Nat \cup {None}, identity : Nat]
  /\ session # None => session \in [handshake : Nat, identity : Nat, send_seq : Nat]

(* A ServerHello names the handshake that answered its hello.              *)
HttpInv ==
  \A q \in http :
    /\ q.type = "hello" => q.n \in 1..connects
    /\ q.type = "server hello" => q.handshake \in Handshakes /\ q.n = kem[q.handshake]

(* The client's objects still hold their keys, and a handshake that has its *)
(* session keys no longer has the ephemeral one.                           *)
ConnectingInv ==
  connecting # None =>
    /\ ~closed
    /\ Identity(connecting.identity) \in live
    /\ connecting.handshake = None => DecapKey(connecting.n) \in live
    /\ connecting.handshake # None =>
          /\ ClientKeys(connecting.handshake) \in live
          /\ DecapKey(kem[connecting.handshake]) \notin live

ClientInv ==
  /\ identity # None => ~closed /\ Identity(identity) \in live
  /\ session # None =>
        /\ Identity(session.identity) \in live
        /\ ClientKeys(session.handshake) \in live
        /\ DecapKey(kem[session.handshake]) \notin live

ServerInv == serving => ServerIdentity \in live

(* Only closing a session zeroes keys of the server.                        *)
ServerKeysInv ==
  \A k \in Handshakes : ServerKeys(k) \in live <=> <<"server", k>> \notin ended

(* A confirmed handshake is out of pending_handshakes for good, and its     *)
(* session is served until it is closed.                                   *)
ConfirmedInv ==
  \A q \in http : q.type = "confirmed" =>
    /\ q.handshake \in Handshakes \ pending
    /\ <<"server", q.handshake>> \in ended \/ (serving /\ q.handshake \in active)

(* Whoever closed a session keeps nothing of it, and never gets it back.    *)
EndedInv ==
  \A k \in Handshakes :
    /\ <<"client", k>> \in ended =>
          closed /\ DecapKey(kem[k]) \notin live /\ ClientKeys(k) \notin live
    /\ <<"server", k>> \in ended => k \notin pending /\ (serving => k \notin active)

IInv == TypeOK /\ Shapes /\ HttpInv /\ ConnectingInv /\ ClientInv /\ ServerInv
        /\ ServerKeysInv /\ ConfirmedInv /\ EndedInv /\ NoZeroedKeyUsed
-----------------------------------------------------------------------------
(* The steps of the client.                                                *)
LEMMA RegisterIInv ==
  ASSUME IInv, Register
  PROVE  IInv'
<1>1. TypeOK'
  <2>1. live' \subseteq Buffer
    BY BuffersDiffer DEF IInv, TypeOK, Register, NewIdentity
  <2>2. identities' \in 0..MaxIdentity
    BY Bounds DEF IInv, TypeOK, Register
  <2>3. identity' \in (1..identities') \cup {None}
    BY Bounds DEF IInv, TypeOK, Register
  <2>4. connecting' = connecting /\ (session # None => session.identity \in 1..identities')
    BY DEF IInv, TypeOK, Register
  <2>5. connecting = None
    BY DEF Register, Ready
  <2> QED  BY <2>1, <2>2, <2>3, <2>4, <2>5 DEF IInv, TypeOK, Handshakes, Register,
      serverVars
<1>2. Shapes'
  BY DEF IInv, Shapes, Register, clientVars, serverVars
<1>3. HttpInv'
  BY DEF IInv, HttpInv, Register, clientVars, serverVars, Handshakes
<1>4. ConnectingInv'
  BY DEF IInv, ConnectingInv, Register, Ready
<1>5. ClientInv'
  BY BuffersDiffer DEF IInv, ClientInv, Register, serverVars, NewIdentity, Ready
<1>6. ServerInv'
  BY DEF IInv, ServerInv, Register, serverVars
<1>7. ServerKeysInv'
  BY BuffersDiffer DEF IInv, ServerKeysInv, Register, Handshakes, serverVars,
      NewIdentity
<1>8. EndedInv'
  BY DEF IInv, EndedInv, Register, Handshakes, serverVars, Ready
<1>9. NoZeroedKeyUsed'
  BY DEF IInv, NoZeroedKeyUsed, Register
<1>10. ConfirmedInv'
  BY DEF IInv, ConfirmedInv, Register, Handshakes, clientVars, serverVars
<1> QED  BY <1>1, <1>2, <1>3, <1>4, <1>5, <1>6, <1>7, <1>8, <1>9, <1>10 DEF IInv

LEMMA LoadIdentityIInv ==
  ASSUME IInv, LoadIdentity
  PROVE  IInv'
<1>1. TypeOK'
  <2>1. live' \subseteq Buffer
    BY BuffersDiffer DEF IInv, TypeOK, LoadIdentity, NewIdentity
  <2>2. identities' \in 0..MaxIdentity
    BY Bounds DEF IInv, TypeOK, LoadIdentity
  <2>3. identity' \in (1..identities') \cup {None}
    BY Bounds DEF IInv, TypeOK, LoadIdentity
  <2>4. connecting' = connecting /\ (session # None => session.identity \in 1..identities')
    BY DEF IInv, TypeOK, LoadIdentity
  <2>5. connecting = None
    BY DEF LoadIdentity, Ready
  <2> QED  BY <2>1, <2>2, <2>3, <2>4, <2>5 DEF IInv, TypeOK, Handshakes, LoadIdentity,
      serverVars
<1>2. Shapes'
  BY DEF IInv, Shapes, LoadIdentity, clientVars, serverVars
<1>3. HttpInv'
  BY DEF IInv, HttpInv, LoadIdentity, clientVars, serverVars, Handshakes
<1>4. ConnectingInv'
  BY DEF IInv, ConnectingInv, LoadIdentity, Ready
<1>5. ClientInv'
  BY BuffersDiffer DEF IInv, ClientInv, LoadIdentity, serverVars, NewIdentity, Ready
<1>6. ServerInv'
  BY DEF IInv, ServerInv, LoadIdentity, serverVars
<1>7. ServerKeysInv'
  BY BuffersDiffer DEF IInv, ServerKeysInv, LoadIdentity, Handshakes, serverVars,
      NewIdentity
<1>8. EndedInv'
  BY DEF IInv, EndedInv, LoadIdentity, Handshakes, serverVars, Ready
<1>9. NoZeroedKeyUsed'
  BY DEF IInv, NoZeroedKeyUsed, LoadIdentity
<1>10. ConfirmedInv'
  BY DEF IInv, ConfirmedInv, LoadIdentity, Handshakes, clientVars, serverVars
<1> QED  BY <1>1, <1>2, <1>3, <1>4, <1>5, <1>6, <1>7, <1>8, <1>9, <1>10 DEF IInv

LEMMA StartConnectIInv ==
  ASSUME IInv, StartConnect
  PROVE  IInv'
<1>1. TypeOK'
  <2>1. connects' \in 0..MaxConnect /\ connects' = connects + 1
    BY Bounds DEF IInv, TypeOK, StartConnect
  <2>2. live' \subseteq Buffer
    BY BuffersDiffer DEF IInv, TypeOK, StartConnect, NewDecapKey
  <2>3. identity \in 1..identities /\ identity \in Nat
    BY Bounds DEF IInv, TypeOK, StartConnect
  <2>4. misused' \subseteq Buffer
    BY <2>3, BuffersDiffer DEF IInv, TypeOK, StartConnect, Use
  <2>5. \A k \in Handshakes : kem[k] \in 1..connects'
    BY <2>1 DEF IInv, TypeOK, StartConnect
  <2>6. /\ connecting'.n = connects'
        /\ connecting'.handshake \in Handshakes \cup {None}
        /\ connecting'.identity \in 1..identities
    BY <2>3 DEF StartConnect
  <2> QED  BY <2>1, <2>2, <2>4, <2>5, <2>6 DEF IInv, TypeOK, Handshakes, StartConnect,
      serverVars
<1>2. Shapes'
  BY DEF IInv, Shapes, StartConnect, TypeOK, serverVars
<1>3. HttpInv'
  <2> SUFFICES ASSUME NEW m \in http'
               PROVE  /\ m.type = "hello" => m.n \in 1..connects'
                      /\ m.type = "server hello" =>
                            m.handshake \in Handshakes' /\ m.n = kem'[m.handshake]
    BY DEF HttpInv
  <2>1. connects \in Nat /\ connects' = connects + 1 /\ kem' = kem
    BY DEF IInv, TypeOK, StartConnect, serverVars
  <2>2. CASE m \in http
    <3>1. /\ m.type = "hello" => m.n \in 1..connects
          /\ m.type = "server hello" => m.handshake \in Handshakes /\ m.n = kem[m.handshake]
      BY <2>2 DEF IInv, HttpInv
    <3>2. 1..connects \subseteq 1..connects' /\ Handshakes' = Handshakes
      BY <2>1 DEF Handshakes
    <3> QED  BY <2>1, <3>1, <3>2
  <2>3. CASE m = [type |-> "hello", n |-> connects + 1]
    BY <2>1, <2>3
  <2> QED  BY <2>2, <2>3 DEF StartConnect
<1>4. ConnectingInv'
  BY DEF IInv, ConnectingInv, StartConnect, ClientInv, NewDecapKey
<1>5. ClientInv'
  BY BuffersDiffer DEF IInv, ClientInv, StartConnect, TypeOK, serverVars, NewDecapKey
<1>6. ServerInv'
  BY DEF IInv, ServerInv, StartConnect, serverVars
<1>7. ServerKeysInv'
  BY BuffersDiffer DEF IInv, ServerKeysInv, StartConnect, Handshakes, serverVars,
      NewDecapKey
<1>8. EndedInv'
  BY DEF IInv, EndedInv, StartConnect, Handshakes, serverVars, Ready
<1>9. NoZeroedKeyUsed'
  BY DEF IInv, NoZeroedKeyUsed, StartConnect, ClientInv, Use
<1>10. ConfirmedInv'
  BY DEF IInv, ConfirmedInv, StartConnect, Handshakes, clientVars, serverVars
<1> QED  BY <1>1, <1>2, <1>3, <1>4, <1>5, <1>6, <1>7, <1>8, <1>9, <1>10 DEF IInv

LEMMA ConnectFailsIInv ==
  ASSUME IInv, ConnectFails
  PROVE  IInv'
<1>1. TypeOK'
  BY DEF IInv, TypeOK, ConnectFails, Handshakes, serverVars
<1>2. Shapes'
  BY DEF IInv, Shapes, ConnectFails, serverVars
<1>3. HttpInv'
  BY DEF IInv, HttpInv, ConnectFails, clientVars, serverVars, Handshakes
<1>4. ConnectingInv'
  BY DEF IInv, ConnectingInv, ConnectFails
<1>5. ClientInv'
  BY DEF IInv, ClientInv, ConnectFails, clientVars, serverVars
<1>6. ServerInv'
  BY DEF IInv, ServerInv, ConnectFails, serverVars
<1>7. ServerKeysInv'
  BY DEF IInv, ServerKeysInv, ConnectFails, serverVars, Handshakes
<1>8. EndedInv'
  BY DEF IInv, EndedInv, ConnectFails, clientVars, serverVars, Handshakes
<1>9. NoZeroedKeyUsed'
  BY DEF IInv, NoZeroedKeyUsed, ConnectFails
<1>10. ConfirmedInv'
  BY DEF IInv, ConfirmedInv, ConnectFails, Handshakes, clientVars, serverVars
<1> QED  BY <1>1, <1>2, <1>3, <1>4, <1>5, <1>6, <1>7, <1>8, <1>9, <1>10 DEF IInv

LEMMA SendIInv ==
  ASSUME IInv, Send
  PROVE  IInv'
<1>1. TypeOK'
  <2>1. session \in [handshake : Nat, identity : Nat, send_seq : Nat]
    BY DEF IInv, Shapes, Send
  <2>2. session'.handshake = session.handshake /\ session'.identity = session.identity
    BY <2>1 DEF Send
  <2>3. misused' \subseteq Buffer
    BY <2>1, BuffersDiffer DEF IInv, TypeOK, Send, Use
  <2> QED  BY <2>2, <2>3 DEF IInv, TypeOK, Handshakes, Send, serverVars
<1>2. Shapes'
  <2>1. session \in [handshake : Nat, identity : Nat, send_seq : Nat]
    BY DEF IInv, Shapes, Send
  <2>2. session' \in [handshake : Nat, identity : Nat, send_seq : Nat]
    BY <2>1 DEF Send
  <2> QED  BY <2>2 DEF IInv, Shapes, Send, serverVars
<1>3. HttpInv'
  <2> SUFFICES ASSUME NEW m \in http'
               PROVE  /\ m.type = "hello" => m.n \in 1..connects'
                      /\ m.type = "server hello" =>
                            m.handshake \in Handshakes' /\ m.n = kem'[m.handshake]
    BY DEF HttpInv
  <2>1. connects' = connects /\ kem' = kem
    BY DEF Send, serverVars
  <2>2. CASE m \in http
    BY <2>1, <2>2 DEF IInv, HttpInv, Handshakes
  <2>3. CASE m \notin http
    <3>1. http' = http \cup {[type |-> "message", handshake |-> session.handshake]}
      BY DEF Send
    <3>2. m.type = "message"
      BY <2>3, <3>1
    <3> QED  BY <3>2
  <2> QED  BY <2>2, <2>3
<1>4. ConnectingInv'
  BY DEF IInv, ConnectingInv, Send, clientVars, serverVars
<1>5. ClientInv'
  BY DEF IInv, ClientInv, Send, serverVars
<1>6. ServerInv'
  BY DEF IInv, ServerInv, Send, serverVars
<1>7. ServerKeysInv'
  BY DEF IInv, ServerKeysInv, Send, serverVars, Handshakes
<1>8. EndedInv'
  BY DEF IInv, EndedInv, Send, clientVars, serverVars, Handshakes
<1>9. NoZeroedKeyUsed'
  BY DEF IInv, NoZeroedKeyUsed, Send, ClientInv, Use
<1>10. ConfirmedInv'
  BY DEF IInv, ConfirmedInv, Send, Handshakes, clientVars, serverVars
<1> QED  BY <1>1, <1>2, <1>3, <1>4, <1>5, <1>6, <1>7, <1>8, <1>9, <1>10 DEF IInv

LEMMA CloseIInv ==
  ASSUME IInv, Close
  PROVE  IInv'
<1>1. TypeOK'
  <2>1. live' \subseteq Buffer
    BY DEF IInv, TypeOK, Close, SecureZero
  <2>2. session # None => session.handshake \in Handshakes
    BY DEF IInv, TypeOK
  <2>3. ended' \subseteq {"client", "server"} \X Handshakes
    BY <2>2 DEF IInv, TypeOK, Close
  <2>4. session' = None /\ identity' = None /\ closed' = TRUE /\ connecting = None
    BY DEF Close, Ready
  <2> QED  BY <2>1, <2>3, <2>4 DEF IInv, TypeOK, Handshakes, Close, serverVars
<1>2. Shapes'
  BY DEF IInv, Shapes, Close, serverVars
<1>3. HttpInv'
  <2> SUFFICES ASSUME NEW m \in http'
               PROVE  /\ m.type = "hello" => m.n \in 1..connects'
                      /\ m.type = "server hello" =>
                            m.handshake \in Handshakes' /\ m.n = kem'[m.handshake]
    BY DEF HttpInv
  <2>1. connects' = connects /\ kem' = kem
    BY DEF Close, serverVars
  <2>2. CASE m \in http
    BY <2>1, <2>2 DEF IInv, HttpInv, Handshakes
  <2>3. CASE m \notin http
    <3>1. \E K : http' = http \cup {[type |-> "delete", handshake |-> k] : k \in K}
      BY DEF Close
    <3>2. m.type = "delete"
      BY <2>3, <3>1
    <3> QED  BY <3>2
  <2> QED  BY <2>2, <2>3
<1>4. ConnectingInv'
  BY DEF IInv, ConnectingInv, Close, Ready
<1>5. ClientInv'
  BY DEF IInv, ClientInv, Close
<1>6. ServerInv'
  BY BuffersDiffer DEF IInv, ServerInv, Close, TypeOK, ServerIdentity, serverVars,
      SecureZero
<1>7. ServerKeysInv'
  BY BuffersDiffer DEF IInv, ServerKeysInv, Close, Handshakes, serverVars,
      SecureZero
<1>8. EndedInv'
  BY DEF IInv, EndedInv, Close, ClientInv, Handshakes, serverVars, SecureZero
<1>9. NoZeroedKeyUsed'
  BY DEF IInv, NoZeroedKeyUsed, Close
<1>10. ConfirmedInv'
  BY DEF IInv, ConfirmedInv, Close, Handshakes, clientVars, serverVars
<1> QED  BY <1>1, <1>2, <1>3, <1>4, <1>5, <1>6, <1>7, <1>8, <1>9, <1>10 DEF IInv

LEMMA ProcessServerHelloIInv ==
  ASSUME IInv, NEW r \in http, ProcessServerHello(r)
  PROVE  IInv'
<1>a. /\ r.handshake \in Handshakes /\ r.handshake \in Nat
      /\ r.n \in Nat /\ r.n = kem[r.handshake]
      /\ connecting \in [n : Nat, handshake : Nat \cup {None}, identity : Nat]
  <2>1. /\ connecting \in [n : Nat, handshake : Nat \cup {None}, identity : Nat]
        /\ r.n = connecting.n
    BY DEF IInv, Shapes, ProcessServerHello
  <2>2. r.handshake \in Handshakes /\ r.n = kem[r.handshake]
    BY DEF IInv, HttpInv, ProcessServerHello
  <2>3. r.handshake \in Nat
    BY <2>2 DEF Handshakes
  <2>4. connecting.n \in Nat
    BY <2>1
  <2>5. r.n \in Nat
    BY <2>1, <2>4
  <2> QED  BY <2>1, <2>2, <2>3, <2>5
<1>1. TypeOK'
  <2>1. live \subseteq Buffer /\ misused \subseteq Buffer
    BY DEF IInv, TypeOK
  <2>2. ClientKeys(r.handshake) \in Buffer /\ DecapKey(r.n) \in Buffer
    BY <1>a, BuffersDiffer
  <2>3. /\ connecting'.n = connecting.n
        /\ connecting'.identity = connecting.identity
        /\ connecting'.handshake = r.handshake
    BY <1>a DEF ProcessServerHello
  <2>4. live' = (live \ {DecapKey(r.n)}) \cup {ClientKeys(r.handshake)}
    BY DEF ProcessServerHello, SecureZero
  <2>5. misused' = misused \cup ({DecapKey(r.n)} \ live)
    BY DEF ProcessServerHello, Use
  <2>6. live' \subseteq Buffer /\ misused' \subseteq Buffer
    BY <2>1, <2>2, <2>4, <2>5
  <2> QED  BY <1>a, <2>3, <2>6 DEF IInv, TypeOK, Handshakes, ProcessServerHello,
      serverVars
<1>2. Shapes'
  <2>3. connecting' \in [n : Nat, handshake : Nat \cup {None}, identity : Nat]
    BY <1>a DEF ProcessServerHello
  <2> QED  BY <2>3 DEF IInv, Shapes, ProcessServerHello, serverVars
<1>3. HttpInv'
  <2> SUFFICES ASSUME NEW m \in http'
               PROVE  /\ m.type = "hello" => m.n \in 1..connects'
                      /\ m.type = "server hello" =>
                            m.handshake \in Handshakes' /\ m.n = kem'[m.handshake]
    BY DEF HttpInv
  <2>1. connects' = connects /\ kem' = kem
    BY DEF ProcessServerHello, serverVars
  <2>2. CASE m \in http
    BY <2>1, <2>2 DEF IInv, HttpInv, Handshakes
  <2>3. CASE m \notin http
    <3>1. http' = http \cup {[type |-> "finish", handshake |-> r.handshake]}
      BY DEF ProcessServerHello
    <3>2. m.type = "finish"
      BY <2>3, <3>1
    <3> QED  BY <3>2
  <2> QED  BY <2>2, <2>3
<1>4. ConnectingInv'
  <2>3. connecting'.handshake = r.handshake /\ connecting'.identity = connecting.identity
    BY <1>a DEF ProcessServerHello
  <2>4. connecting'.handshake # None
    BY <1>a, <2>3, Bounds
  <2>5. ~closed' /\ kem' = kem
    BY DEF IInv, ConnectingInv, ProcessServerHello, serverVars
  <2>6. Identity(connecting.identity) \in live'
    BY BuffersDiffer DEF IInv, ConnectingInv, ProcessServerHello, SecureZero
  <2>7. ClientKeys(r.handshake) \in live' /\ DecapKey(kem[r.handshake]) \notin live'
    BY <1>a, BuffersDiffer DEF ProcessServerHello, SecureZero
  <2> QED  BY <2>3, <2>4, <2>5, <2>6, <2>7 DEF ConnectingInv
<1>5. ClientInv'
  BY BuffersDiffer DEF IInv, ClientInv, ProcessServerHello, serverVars, SecureZero
<1>6. ServerInv'
  BY BuffersDiffer DEF IInv, ServerInv, ProcessServerHello, ServerIdentity,
      serverVars, SecureZero
<1>7. ServerKeysInv'
  BY BuffersDiffer DEF IInv, ServerKeysInv, ProcessServerHello, Handshakes,
      serverVars, SecureZero
<1>8. EndedInv'
  BY DEF IInv, EndedInv, ProcessServerHello, ConnectingInv, Handshakes, serverVars
<1>9. NoZeroedKeyUsed'
  BY DEF IInv, NoZeroedKeyUsed, ProcessServerHello, ConnectingInv, Use
<1>10. ConfirmedInv'
  <2>1. /\ UNCHANGED <<serving, kem, pending, active, ended>>
        /\ http' = http \cup {[type |-> "finish", handshake |-> r.handshake]}
    BY DEF ProcessServerHello, serverVars
  <2>2. \A m \in http' : m.type = "confirmed" => m \in http
    BY <2>1
  <2> QED  BY <2>1, <2>2 DEF IInv, ConfirmedInv, Handshakes
<1> QED  BY <1>1, <1>2, <1>3, <1>4, <1>5, <1>6, <1>7, <1>8, <1>9, <1>10 DEF IInv

LEMMA FinishConnectIInv ==
  ASSUME IInv, NEW r \in http, FinishConnect(r)
  PROVE  IInv'
<1>1. TypeOK'
  BY DEF IInv, TypeOK, FinishConnect, Handshakes, serverVars
<1>2. Shapes'
  <2>1. connecting \in [n : Nat, handshake : Nat \cup {None}, identity : Nat]
    BY DEF IInv, Shapes, FinishConnect
  <2>2. connecting.handshake \in Nat
    BY <2>1 DEF FinishConnect
  <2>3. session' \in [handshake : Nat, identity : Nat, send_seq : Nat]
    BY <2>1, <2>2 DEF FinishConnect, FirstSequenceNumber
  <2> QED  BY <2>3 DEF IInv, Shapes, FinishConnect, serverVars
<1>3. HttpInv'
  BY DEF IInv, HttpInv, FinishConnect, clientVars, serverVars, Handshakes
<1>4. ConnectingInv'
  BY DEF IInv, ConnectingInv, FinishConnect
<1>5. ClientInv'
  BY DEF IInv, ClientInv, FinishConnect, ConnectingInv, serverVars
<1>6. ServerInv'
  BY DEF IInv, ServerInv, FinishConnect, serverVars
<1>7. ServerKeysInv'
  BY DEF IInv, ServerKeysInv, FinishConnect, serverVars, Handshakes
<1>8. EndedInv'
  BY DEF IInv, EndedInv, FinishConnect, clientVars, serverVars, Handshakes
<1>9. NoZeroedKeyUsed'
  BY DEF IInv, NoZeroedKeyUsed, FinishConnect
<1>10. ConfirmedInv'
  BY DEF IInv, ConfirmedInv, FinishConnect, Handshakes, clientVars, serverVars
<1> QED  BY <1>1, <1>2, <1>3, <1>4, <1>5, <1>6, <1>7, <1>8, <1>9, <1>10 DEF IInv

-----------------------------------------------------------------------------
(* The steps of the server.                                                *)
LEMMA HandshakeHelloIInv ==
  ASSUME IInv, NEW q \in http, serving, HandshakeHello(q)
  PROVE  IInv'
<1>a. /\ Len(kem) \in Nat /\ Len(kem) + 1 \notin Handshakes
      /\ kem' \in Seq(Nat)
      /\ Handshakes' = Handshakes \cup {Len(kem) + 1}
      /\ kem'[Len(kem) + 1] = q.n /\ \A k \in Handshakes : kem'[k] = kem[k]
      /\ pending' = pending \cup {Len(kem) + 1}
      /\ live' = live \cup {ServerKeys(Len(kem) + 1)}
  <2>1. kem \in Seq(Nat) /\ Len(kem) \in Nat
    BY DEF IInv, Shapes
  <2>2. q.n \in Nat
    <3>1. q.n \in 1..connects
      BY DEF IInv, HttpInv, HandshakeHello
    <3>2. connects \in Nat
      BY Bounds DEF IInv, TypeOK
    <3> QED  BY <3>1, <3>2
  <2>3. kem' = Append(kem, q.n)
    BY DEF HandshakeHello, Encapsulate
  <2>4. Len(kem') = Len(kem) + 1
    BY <2>1, <2>2, <2>3
  <2>5. kem' \in Seq(Nat)
    BY <2>1, <2>2, <2>3
  <2>6. Handshakes' = Handshakes \cup {Len(kem) + 1} /\ Len(kem) + 1 \notin Handshakes
    BY <2>1, <2>4 DEF Handshakes
  <2>7. kem'[Len(kem) + 1] = q.n /\ \A k \in Handshakes : kem'[k] = kem[k]
    BY <2>1, <2>2, <2>3 DEF Handshakes
  <2> QED  BY <2>1, <2>5, <2>6, <2>7 DEF HandshakeHello
<1>1. TypeOK'
  <2>1. q.n \in 1..connects
    BY DEF IInv, HttpInv, HandshakeHello
  <2>2. live' \subseteq Buffer /\ misused' \subseteq Buffer
    <3>1. Len(kem) + 1 \in Nat /\ live \subseteq Buffer /\ misused \subseteq Buffer
      BY <1>a DEF IInv, TypeOK
    <3>2. ServerKeys(Len(kem) + 1) \in Buffer /\ ServerIdentity \in Buffer
      BY <3>1, BuffersDiffer DEF ServerIdentity
    <3>3. misused' = misused \cup ({ServerIdentity} \ live)
      BY DEF HandshakeHello, Use
    <3> QED  BY <1>a, <3>1, <3>2, <3>3
  <2>3. \A k \in Handshakes' : kem'[k] \in 1..connects
    BY <2>1, <1>a DEF IInv, TypeOK
  <2>4. pending' \cup active \subseteq Handshakes' /\ pending' \cap active = {}
    BY <1>a DEF IInv, TypeOK
  <2>5. ended \subseteq {"client", "server"} \X Handshakes'
    BY <1>a DEF IInv, TypeOK
  <2>6. /\ connecting # None => connecting.handshake \in Handshakes' \cup {None}
        /\ session # None => session.handshake \in Handshakes'
    BY <1>a DEF IInv, TypeOK
  <2> QED  BY <2>2, <2>3, <2>4, <2>5, <2>6 DEF IInv, TypeOK, HandshakeHello, clientVars
<1>2. Shapes'
  BY <1>a DEF IInv, Shapes, HandshakeHello, clientVars
<1>3. HttpInv'
  <2> SUFFICES ASSUME NEW m \in http'
               PROVE  /\ m.type = "hello" => m.n \in 1..connects
                      /\ m.type = "server hello" =>
                            m.handshake \in Handshakes' /\ m.n = kem'[m.handshake]
    BY DEF HttpInv, HandshakeHello, clientVars
  <2>1. CASE m \in http
    BY <2>1, <1>a DEF IInv, HttpInv
  <2>2. CASE m = [type |-> "server hello", n |-> q.n, handshake |-> Len(kem) + 1]
    BY <2>2, <1>a
  <2> QED  BY <2>1, <2>2 DEF HandshakeHello
<1>4. ConnectingInv'
  <2>1. connecting # None => connecting.handshake \in Handshakes \cup {None}
    BY DEF IInv, TypeOK
  <2> QED  BY <2>1, <1>a, BuffersDiffer DEF IInv, ConnectingInv, HandshakeHello,
      clientVars
<1>5. ClientInv'
  <2>1. session # None => session.handshake \in Handshakes
    BY DEF IInv, TypeOK
  <2> QED  BY <2>1, <1>a, BuffersDiffer DEF IInv, ClientInv, HandshakeHello, clientVars
<1>6. ServerInv'
  BY DEF IInv, ServerInv, HandshakeHello
<1>7. ServerKeysInv'
  <2>2. \A k \in Handshakes : ServerKeys(k) \in live' <=> ServerKeys(k) \in live
    BY <1>a, BuffersDiffer
  <2>3. ended' = ended /\ <<"server", Len(kem) + 1>> \notin ended
    BY <1>a DEF HandshakeHello, IInv, TypeOK
  <2>4. ServerKeys(Len(kem) + 1) \in live'
    BY <1>a
  <2> QED  BY <1>a, <2>2, <2>3, <2>4 DEF IInv, ServerKeysInv
<1>8. EndedInv'
  <2> SUFFICES ASSUME NEW k \in Handshakes'
               PROVE  /\ <<"client", k>> \in ended =>
                            closed /\ DecapKey(kem'[k]) \notin live' /\ ClientKeys(k) \notin live'
                      /\ <<"server", k>> \in ended =>
                            k \notin pending' /\ (serving => k \notin active)
    BY DEF EndedInv, HandshakeHello, clientVars
  <2>1. CASE k \in Handshakes
    BY <2>1, <1>a, BuffersDiffer DEF IInv, EndedInv
  <2>2. CASE k = Len(kem) + 1
    BY <2>2, <1>a DEF IInv, TypeOK
  <2> QED  BY <2>1, <2>2, <1>a
<1>9. NoZeroedKeyUsed'
  BY DEF IInv, NoZeroedKeyUsed, HandshakeHello, ServerInv, Use
<1>10. ConfirmedInv'
  <2>1. /\ UNCHANGED <<serving, active, ended>>
        /\ http' = http \cup {[type |-> "server hello", n |-> q.n, handshake |-> Len(kem) + 1]}
    BY DEF HandshakeHello
  <2>2. ASSUME NEW m \in http', m.type = "confirmed" PROVE m \in http
    <3>1. CASE m = [type |-> "server hello", n |-> q.n, handshake |-> Len(kem) + 1]
      BY <2>2, <3>1
    <3> QED  BY <2>1, <3>1
  <2> QED  BY <1>a, <2>1, <2>2 DEF IInv, ConfirmedInv
<1> QED  BY <1>1, <1>2, <1>3, <1>4, <1>5, <1>6, <1>7, <1>8, <1>9, <1>10 DEF IInv

LEMMA HandshakeFinishIInv ==
  ASSUME IInv, NEW q \in http, serving, HandshakeFinish(q)
  PROVE  IInv'
<1>1. TypeOK'
  <2>1. q.handshake \in Handshakes /\ q.handshake \in Nat
    BY DEF IInv, TypeOK, Handshakes, HandshakeFinish
  <2>2. misused' \subseteq Buffer
    BY <2>1, BuffersDiffer DEF IInv, TypeOK, HandshakeFinish, Use
  <2>3. pending' \cup active' \subseteq Handshakes /\ pending' \cap active' = {}
    BY <2>1 DEF IInv, TypeOK, HandshakeFinish
  <2> QED  BY <2>2, <2>3 DEF IInv, TypeOK, Handshakes, HandshakeFinish, clientVars
<1>2. Shapes'
  BY DEF IInv, Shapes, HandshakeFinish, clientVars, serverVars
<1>3. HttpInv'
  <2> SUFFICES ASSUME NEW m \in http'
               PROVE  /\ m.type = "hello" => m.n \in 1..connects'
                      /\ m.type = "server hello" =>
                            m.handshake \in Handshakes' /\ m.n = kem'[m.handshake]
    BY DEF HttpInv
  <2>1. connects' = connects /\ kem' = kem
    BY DEF HandshakeFinish, serverVars, clientVars
  <2>2. CASE m \in http
    BY <2>1, <2>2 DEF IInv, HttpInv, Handshakes
  <2>3. CASE m \notin http
    <3>1. http' = http \cup {[type |-> "confirmed", handshake |-> q.handshake]}
      BY DEF HandshakeFinish
    <3>2. m.type = "confirmed"
      BY <2>3, <3>1
    <3> QED  BY <3>2
  <2> QED  BY <2>2, <2>3
<1>4. ConnectingInv'
  BY DEF IInv, ConnectingInv, HandshakeFinish, clientVars, serverVars
<1>5. ClientInv'
  BY DEF IInv, ClientInv, HandshakeFinish, clientVars, serverVars
<1>6. ServerInv'
  BY DEF IInv, ServerInv, HandshakeFinish, serverVars
<1>7. ServerKeysInv'
  BY DEF IInv, ServerKeysInv, HandshakeFinish, Handshakes
<1>8. EndedInv'
  BY DEF IInv, EndedInv, HandshakeFinish, Handshakes, clientVars
<1>9. NoZeroedKeyUsed'
  BY DEF IInv, NoZeroedKeyUsed, HandshakeFinish, TypeOK, ServerKeysInv, EndedInv, Use
<1>10. ConfirmedInv'
  <2> SUFFICES ASSUME NEW m \in http', m.type = "confirmed"
               PROVE  /\ m.handshake \in Handshakes \ pending'
                      /\ <<"server", m.handshake>> \in ended
                            \/ (serving /\ m.handshake \in active')
    BY DEF ConfirmedInv, HandshakeFinish, Handshakes
  <2>1. CASE m \in http
    BY <2>1 DEF IInv, ConfirmedInv, HandshakeFinish
  <2>2. CASE m = [type |-> "confirmed", handshake |-> q.handshake]
    BY <2>2 DEF IInv, TypeOK, HandshakeFinish
  <2> QED  BY <2>1, <2>2 DEF HandshakeFinish
<1> QED  BY <1>1, <1>2, <1>3, <1>4, <1>5, <1>6, <1>7, <1>8, <1>9, <1>10 DEF IInv

LEMMA HandshakeFinishRefusedIInv ==
  ASSUME IInv, NEW q \in http, serving, HandshakeFinishRefused(q)
  PROVE  IInv'
<1>1. TypeOK'
  <2>1. q.handshake \in Nat
    BY DEF IInv, TypeOK, Handshakes, HandshakeFinishRefused
  <2>2. misused' \subseteq Buffer
    BY <2>1, BuffersDiffer DEF IInv, TypeOK, HandshakeFinishRefused, Use
  <2> QED  BY <2>2 DEF IInv, TypeOK, Handshakes, HandshakeFinishRefused, clientVars
<1>2. Shapes'
  BY DEF IInv, Shapes, HandshakeFinishRefused, clientVars
<1>3. HttpInv'
  BY DEF IInv, HttpInv, HandshakeFinishRefused, clientVars, Handshakes
<1>4. ConnectingInv' /\ ClientInv'
  BY DEF IInv, ConnectingInv, ClientInv, HandshakeFinishRefused, clientVars
<1>5. ServerInv' /\ ServerKeysInv' /\ EndedInv'
  BY DEF IInv, ServerInv, ServerKeysInv, EndedInv, HandshakeFinishRefused, Handshakes,
      clientVars
<1>6. ConfirmedInv'
  BY DEF IInv, ConfirmedInv, HandshakeFinishRefused, Handshakes
<1>7. NoZeroedKeyUsed'
  BY DEF IInv, NoZeroedKeyUsed, HandshakeFinishRefused, TypeOK, ServerKeysInv, EndedInv, Use
<1> QED  BY <1>1, <1>2, <1>3, <1>4, <1>5, <1>6, <1>7 DEF IInv

LEMMA SendMessageIInv ==
  ASSUME IInv, NEW q \in http, serving, SendMessage(q)
  PROVE  IInv'
<1>1. TypeOK'
  <2>1. q.handshake \in Nat
    BY DEF IInv, TypeOK, Handshakes, SendMessage
  <2>2. misused' \subseteq Buffer
    BY <2>1, BuffersDiffer DEF IInv, TypeOK, SendMessage, Use
  <2> QED  BY <2>2 DEF IInv, TypeOK, Handshakes, SendMessage, clientVars
<1>2. Shapes'
  BY DEF IInv, Shapes, SendMessage, clientVars, serverVars
<1>3. HttpInv'
  BY DEF IInv, HttpInv, SendMessage, clientVars, serverVars, Handshakes
<1>4. ConnectingInv'
  BY DEF IInv, ConnectingInv, SendMessage, clientVars, serverVars
<1>5. ClientInv'
  BY DEF IInv, ClientInv, SendMessage, clientVars, serverVars
<1>6. ServerInv'
  BY DEF IInv, ServerInv, SendMessage, serverVars
<1>7. ServerKeysInv'
  BY DEF IInv, ServerKeysInv, SendMessage, serverVars, Handshakes
<1>8. EndedInv'
  BY DEF IInv, EndedInv, SendMessage, clientVars, serverVars, Handshakes
<1>9. NoZeroedKeyUsed'
  BY Bounds DEF IInv, NoZeroedKeyUsed, SendMessage, TypeOK, ClientInv,
      ServerKeysInv, EndedInv, Use
<1>10. ConfirmedInv'
  BY DEF IInv, ConfirmedInv, SendMessage, Handshakes, clientVars, serverVars
<1> QED  BY <1>1, <1>2, <1>3, <1>4, <1>5, <1>6, <1>7, <1>8, <1>9, <1>10 DEF IInv

LEMMA CloseSessionIInv ==
  ASSUME IInv, NEW q \in http, serving, CloseSession(q)
  PROVE  IInv'
<1>1. TypeOK'
  <2>1. q.handshake \in Handshakes
    BY DEF IInv, TypeOK, CloseSession
  <2>2. ended' \subseteq {"client", "server"} \X Handshakes
    BY <2>1 DEF IInv, TypeOK, CloseSession
  <2>3. live' \subseteq Buffer
    BY DEF IInv, TypeOK, CloseSession, SecureZero
  <2>4. pending' \cup active' \subseteq Handshakes /\ pending' \cap active' = {}
    BY DEF IInv, TypeOK, CloseSession
  <2> QED  BY <2>2, <2>3, <2>4 DEF IInv, TypeOK, Handshakes, CloseSession, clientVars
<1>2. Shapes'
  BY DEF IInv, Shapes, CloseSession, clientVars, serverVars
<1>3. HttpInv'
  BY DEF IInv, HttpInv, CloseSession, clientVars, serverVars, Handshakes
<1>4. ConnectingInv'
  BY BuffersDiffer DEF IInv, ConnectingInv, CloseSession, clientVars, SecureZero
<1>5. ClientInv'
  BY BuffersDiffer DEF IInv, ClientInv, CloseSession, clientVars, SecureZero
<1>6. ServerInv'
  BY BuffersDiffer DEF IInv, ServerInv, CloseSession, ServerIdentity, SecureZero
<1>7. ServerKeysInv'
  BY BuffersDiffer DEF IInv, ServerKeysInv, CloseSession, TypeOK, Handshakes,
      SecureZero
<1>8. EndedInv'
  <2> SUFFICES ASSUME NEW k \in Handshakes
               PROVE  /\ <<"client", k>> \in ended' =>
                            /\ closed
                            /\ DecapKey(kem[k]) \notin live'
                            /\ ClientKeys(k) \notin live'
                      /\ <<"server", k>> \in ended' =>
                            k \notin pending /\ (serving => k \notin active')
    BY DEF EndedInv, Handshakes, CloseSession, clientVars
  <2>1. live' \subseteq live
    BY DEF CloseSession, SecureZero
  <2>2. <<"client", k>> \in ended' => <<"client", k>> \in ended
    BY DEF CloseSession
  <2>3. <<"server", k>> \in ended' => <<"server", k>> \in ended \/ k = q.handshake
    BY DEF CloseSession
  <2>4. q.handshake \notin pending /\ active' = active \ {q.handshake}
    BY DEF IInv, TypeOK, CloseSession
  <2> QED  BY <2>1, <2>2, <2>3, <2>4 DEF IInv, EndedInv
<1>9. NoZeroedKeyUsed'
  BY DEF IInv, NoZeroedKeyUsed, CloseSession
<1>10. ConfirmedInv'
  BY DEF IInv, ConfirmedInv, CloseSession, Handshakes, clientVars, serverVars
<1> QED  BY <1>1, <1>2, <1>3, <1>4, <1>5, <1>6, <1>7, <1>8, <1>9, <1>10 DEF IInv

LEMMA ShutdownIInv ==
  ASSUME IInv, Shutdown
  PROVE  IInv'
<1>1. TypeOK'
  <2>1. ended' \subseteq {"client", "server"} \X Handshakes
    BY DEF IInv, TypeOK, Shutdown
  <2>2. live' \subseteq Buffer /\ serving' \in BOOLEAN
    BY DEF IInv, TypeOK, Shutdown, SecureZero
  <2> QED  BY <2>1, <2>2 DEF IInv, TypeOK, Handshakes, Shutdown, clientVars
<1>2. Shapes'
  BY DEF IInv, Shapes, Shutdown, clientVars, serverVars
<1>3. HttpInv'
  BY DEF IInv, HttpInv, Shutdown, clientVars, serverVars, Handshakes
<1>4. ConnectingInv'
  <2>1. connecting # None => connecting.identity # 0
    BY DEF IInv, TypeOK
  <2>2. \A b : b \in live' => b \in live
    BY DEF Shutdown, SecureZero
  <2>3. \A n : ClientKeys(n) \in live => ClientKeys(n) \in live'
    BY BuffersDiffer DEF Shutdown, SecureZero, ServerIdentity
  <2>4. \A n : DecapKey(n) \in live => DecapKey(n) \in live'
    BY BuffersDiffer DEF Shutdown, SecureZero, ServerIdentity
  <2>5. \A n : n # 0 /\ Identity(n) \in live => Identity(n) \in live'
    BY BuffersDiffer DEF Shutdown, SecureZero, ServerIdentity
  <2> QED  BY <2>1, <2>2, <2>3, <2>4, <2>5 DEF IInv, ConnectingInv, Shutdown, clientVars
<1>5. ClientInv'
  BY BuffersDiffer DEF IInv, ClientInv, Shutdown, TypeOK, Handshakes, ServerIdentity,
      clientVars, SecureZero
<1>6. ServerInv'
  BY DEF IInv, ServerInv, Shutdown
<1>7. ServerKeysInv'
  BY BuffersDiffer DEF IInv, ServerKeysInv, Shutdown, TypeOK, Handshakes,
      ServerIdentity, SecureZero
<1>8. EndedInv'
  <2> SUFFICES ASSUME NEW k \in Handshakes
               PROVE  /\ <<"client", k>> \in ended' =>
                            /\ closed
                            /\ DecapKey(kem[k]) \notin live'
                            /\ ClientKeys(k) \notin live'
                      /\ <<"server", k>> \in ended' => k \notin pending
    BY DEF EndedInv, Handshakes, Shutdown, clientVars
  <2>1. live' \subseteq live
    BY DEF Shutdown, SecureZero
  <2>2. <<"client", k>> \in ended' => <<"client", k>> \in ended
    BY DEF Shutdown
  <2>3. <<"server", k>> \in ended' => <<"server", k>> \in ended \/ k \in active
    BY DEF Shutdown
  <2>4. k \in active => k \notin pending
    BY DEF IInv, TypeOK
  <2> QED  BY <2>1, <2>2, <2>3, <2>4 DEF IInv, EndedInv
<1>9. NoZeroedKeyUsed'
  BY DEF IInv, NoZeroedKeyUsed, Shutdown
<1>10. ConfirmedInv'
  BY DEF IInv, ConfirmedInv, Shutdown, Handshakes, clientVars, serverVars
<1> QED  BY <1>1, <1>2, <1>3, <1>4, <1>5, <1>6, <1>7, <1>8, <1>9, <1>10 DEF IInv

-----------------------------------------------------------------------------
(* From the initial states on, for ever.                                    *)
LEMMA InitIInv == Init => IInv
<1> SUFFICES ASSUME Init
             PROVE  IInv
  OBVIOUS
<1>1. kem = <<>> /\ Len(kem) = 0 /\ Handshakes = {}
  BY DEF Init, Handshakes
<1>2. ServerIdentity \in Buffer
  BY BuffersDiffer DEF ServerIdentity
<1>3. TypeOK
  <2>1. identities \in 0..MaxIdentity /\ connects \in 0..MaxConnect
    BY Bounds DEF Init
  <2>2. live \subseteq Buffer /\ misused \subseteq Buffer
    BY <1>2 DEF Init
  <2>3. pending \cup active \subseteq Handshakes /\ pending \cap active = {}
    BY DEF Init
  <2>4. ended \subseteq {"client", "server"} \X Handshakes
    BY DEF Init
  <2>5. serving \in BOOLEAN /\ closed \in BOOLEAN
    BY DEF Init
  <2>6. identity = None /\ connecting = None /\ session = None
    BY DEF Init
  <2> QED  BY <1>1, <2>1, <2>2, <2>3, <2>4, <2>5, <2>6 DEF TypeOK
<1>4. Shapes
  BY DEF Init, Shapes
<1>5. HttpInv /\ ConnectingInv /\ ClientInv
  BY DEF Init, HttpInv, ConnectingInv, ClientInv
<1>6. ServerInv
  BY DEF Init, ServerInv
<1>7. ServerKeysInv /\ ConfirmedInv /\ EndedInv
  BY <1>1 DEF Init, ServerKeysInv, ConfirmedInv, EndedInv
<1>8. NoZeroedKeyUsed
  BY DEF Init, NoZeroedKeyUsed
<1> QED  BY <1>3, <1>4, <1>5, <1>6, <1>7, <1>8 DEF IInv

LEMMA StutterIInv == IInv /\ UNCHANGED vars => IInv'
<1> SUFFICES ASSUME IInv, UNCHANGED vars
             PROVE  IInv'
  OBVIOUS
<1> USE DEF vars, clientVars, serverVars, Handshakes
<1>1. TypeOK'
  BY DEF IInv, TypeOK
<1>2. Shapes' /\ HttpInv'
  BY DEF IInv, Shapes, HttpInv
<1>3. ConnectingInv' /\ ClientInv'
  BY DEF IInv, ConnectingInv, ClientInv
<1>4. ServerInv' /\ ServerKeysInv' /\ ConfirmedInv' /\ EndedInv' /\ NoZeroedKeyUsed'
  BY DEF IInv, ServerInv, ServerKeysInv, ConfirmedInv, EndedInv, NoZeroedKeyUsed
<1> QED  BY <1>1, <1>2, <1>3, <1>4 DEF IInv

LEMMA NextIInv == IInv /\ [Next]_vars => IInv'
<1> SUFFICES ASSUME IInv, [Next]_vars
             PROVE  IInv'
  OBVIOUS
<1>1. CASE Register \/ LoadIdentity \/ StartConnect \/ ConnectFails \/ Send \/ Close
  BY <1>1, RegisterIInv, LoadIdentityIInv, StartConnectIInv, ConnectFailsIInv,
      SendIInv, CloseIInv
<1>2. CASE \E r \in http : ProcessServerHello(r) \/ FinishConnect(r)
  BY <1>2, ProcessServerHelloIInv, FinishConnectIInv
<1>3. CASE Serve
  BY <1>3, HandshakeHelloIInv, HandshakeFinishIInv, HandshakeFinishRefusedIInv,
      SendMessageIInv, CloseSessionIInv DEF Serve
<1>4. CASE Shutdown
  BY <1>4, ShutdownIInv
<1>5. CASE UNCHANGED vars
  BY <1>5, StutterIInv
<1> QED  BY <1>1, <1>2, <1>3, <1>4, <1>5 DEF Next

LEMMA SpecIInv == Spec => []IInv
BY InitIInv, NextIInv, PTL DEF Spec

(* Whoever is connecting, connected, closed or gone: the objects keep their *)
(* types, and no handshake is both pending and a session.                  *)
THEOREM TypeCorrect == Spec => []TypeOK
<1>1. IInv => TypeOK
  BY DEF IInv
<1> QED  BY <1>1, SpecIInv, PTL

(* No key is read after it was zeroed, for any number of identities,        *)
(* connections, repeated hellos and messages.                              *)
THEOREM NeverZeroed == Spec => []NoZeroedKeyUsed
<1>1. IInv => NoZeroedKeyUsed
  BY DEF IInv
<1> QED  BY <1>1, SpecIInv, PTL

(* The server has the keys of an established session while it serves it and *)
(* no longer, for any number of handshakes, and those of a handshake while  *)
(* it waits: handshake_finish, close_session and the lifespan of app.py.    *)
THEOREM EstablishedKeysWhileServed == Spec => []SessionKeysWhileServed
<1>1. IInv => SessionKeysWhileServed
  <2> SUFFICES ASSUME IInv, NEW k \in Handshakes
               PROVE  /\ serving /\ k \in pending => ServerKeys(k) \in live
                      /\ [type |-> "confirmed", handshake |-> k] \in http =>
                            (ServerKeys(k) \in live <=> serving /\ k \in active)
    BY DEF SessionKeysWhileServed
  <2>1. ServerKeys(k) \in live <=> <<"server", k>> \notin ended
    BY DEF IInv, ServerKeysInv
  <2>2. k \in pending \/ (serving /\ k \in active) => <<"server", k>> \notin ended
    BY DEF IInv, EndedInv
  <2>3. [type |-> "confirmed", handshake |-> k] \in http =>
           <<"server", k>> \in ended \/ (serving /\ k \in active)
    BY DEF IInv, ConfirmedInv
  <2> QED  BY <2>1, <2>2, <2>3
<1> QED  BY <1>1, SpecIInv, PTL

(* Nothing that remains after both sides have closed a session gives its    *)
(* keys away.                                                              *)
THEOREM ClosedForGood == Spec => []ForwardSecrecy
<1>1. IInv => ForwardSecrecy
  <2> SUFFICES ASSUME IInv, NEW k \in Handshakes,
                      {<<"client", k>>, <<"server", k>>} \subseteq ended
               PROVE  {DecapKey(kem[k]), ClientKeys(k), ServerKeys(k)} \cap live = {}
    BY DEF ForwardSecrecy
  <2>1. DecapKey(kem[k]) \notin live /\ ClientKeys(k) \notin live
    BY DEF IInv, EndedInv
  <2>2. ServerKeys(k) \notin live
    BY DEF IInv, EndedInv, ServerKeysInv
  <2> QED  BY <2>1, <2>2
<1> QED  BY <1>1, SpecIInv, PTL
-----------------------------------------------------------------------------
(* HKDF for one block, which is all that derive_session_keys asks for: a    *)
(* recursion of one step.                                                  *)
LEMMA OneBlock ==
  ASSUME NEW prk, NEW info
  PROVE  HkdfExpand(prk, info, 32) = [i \in 1..1 |-> Hmac(prk, <<<<>>, info, 1>>)]
<1> DEFINE T == CHOOSE T : T = [i \in 0..Ceiling(32) |->
                  IF i = 0 THEN <<>> ELSE Hmac(prk, <<T[i - 1], info, i>>)]
           W == [i \in 0..1 |-> IF i = 0 THEN <<>> ELSE Hmac(prk, <<<<>>, info, i>>)]
<1>1. HkdfExpand(prk, info, 32) = [i \in 1..Ceiling(32) |-> T[i]]
  BY DEF HkdfExpand
<1>2. Ceiling(32) = 1
  BY DEF Ceiling
<1>3. W = [i \in 0..Ceiling(32) |-> IF i = 0 THEN <<>> ELSE Hmac(prk, <<W[i - 1], info, i>>)]
  <2>1. \A i \in 0..1 : i # 0 => W[i - 1] = <<>>
    OBVIOUS
  <2> QED  BY <1>2, <2>1
<1>4. T = [i \in 0..Ceiling(32) |-> IF i = 0 THEN <<>> ELSE Hmac(prk, <<T[i - 1], info, i>>)]
  <2> HIDE DEF W
  <2> QED  BY <1>3
<1> HIDE DEF T, W
<1>5. \A i \in 0..1 : T[i] = IF i = 0 THEN <<>> ELSE Hmac(prk, <<T[i - 1], info, i>>)
  BY <1>2, <1>4, Zenon
<1>6. T[0] = <<>>
  BY <1>5
<1>7. \A i \in 1..1 : T[i] = Hmac(prk, <<<<>>, info, 1>>)
  <2>1. T[1] = Hmac(prk, <<T[1 - 1], info, 1>>) /\ 1 - 1 = 0
    BY <1>5
  <2> QED  BY <1>6, <2>1
<1> QED  BY <1>1, <1>2, <1>7

Block(secret, transcript, role, use) ==
  Hmac(Hmac(transcript, secret), <<<<>>, <<use, role>>, 1>>)

LEMMA BlockOf ==
  ASSUME NEW secret, NEW transcript, NEW role, NEW use \in {"enc", "mac", "iv"}
  PROVE  DeriveSessionKeys(secret, transcript, role)[use][1] =
           Block(secret, transcript, role, use)
<1> DEFINE prk == Hmac(transcript, secret)
<1>1. DeriveSessionKeys(secret, transcript, role)[use] = HkdfExpand(prk, <<use, role>>, 32)
  BY DEF DeriveSessionKeys, HkdfExtract
<1> HIDE DEF prk
<1>2. HkdfExpand(prk, <<use, role>>, 32)[1] = Hmac(prk, <<<<>>, <<use, role>>, 1>>)
  BY OneBlock
<1> QED  BY <1>1, <1>2 DEF prk, Block

(* Transcript, role and purpose can be read off a key.                      *)
LEMMA KeysDiffer ==
  ASSUME NEW x, NEW k, NEW r, NEW u \in {"enc", "mac", "iv"},
         NEW y, NEW l, NEW s, NEW v \in {"enc", "mac", "iv"},
         DeriveSessionKeys(x, k, r)[u] = DeriveSessionKeys(y, l, s)[v]
  PROVE  k = l /\ r = s /\ u = v
<1>1. Block(x, k, r, u) = Block(y, l, s, v)
  BY BlockOf
<1>2. /\ Hmac(k, x) = Hmac(l, y)
      /\ <<<<>>, <<u, r>>, 1>> = <<<<>>, <<v, s>>, 1>>
  BY <1>1 DEF Hmac, Block
<1> QED  BY <1>2 DEF Hmac

(* Handshakes, roles and purposes have different keys: kdf.py.              *)
THEOREM KeysStayIndependent == Spec => []KeysIndependent
<1>1. KeysIndependent
  BY KeysDiffer DEF KeysIndependent, Keys
<1> QED  BY <1>1, PTL
-----------------------------------------------------------------------------
(* Nonces.                                                                 *)
Number == {s \in Nat : Packable(s)}

Encrypted(k, s) == Encryption(Keys(k, "client"), s)

(* The client encrypts with each number of a session once, in order: those *)
(* that it has used are below send_seq; before the session exists it has   *)
(* used 0 at most, and before the keys exist nothing.                      *)
NumbersInv ==
  \A i \in 1..Len(encryptions), k \in Handshakes, s \in Number :
    encryptions[i] = Encrypted(k, s) =>
      /\ session # None /\ session.handshake = k => s < session.send_seq
      /\ connecting # None /\ connecting.handshake = k => s = 0
      /\ connecting # None /\ connecting.handshake = None => kem[k] # connecting.n

NonceInv ==
  /\ \E S : encryptions \in Seq(S)
  /\ \A i \in 1..Len(encryptions) : \E k \in Handshakes, s \in Number :
        encryptions[i] = Encrypted(k, s)
  /\ session # None => session.send_seq >= 1
  /\ NumbersInv
  /\ NonceOnce

LEMMA EncryptionsDiffer ==
  ASSUME NEW x, NEW k, NEW s \in Number, NEW y, NEW l, NEW t \in Number,
         Encryption(DeriveSessionKeys(x, k, "client"), s) =
           Encryption(DeriveSessionKeys(y, l, "client"), t)
  PROVE  k = l /\ s = t
<1> DEFINE K == DeriveSessionKeys(x, k, "client")
           L == DeriveSessionKeys(y, l, "client")
<1>1. K["enc"] = L["enc"] /\ DeriveNonce(K, s) = DeriveNonce(L, t)
  BY DEF Encryption
<1>2. k = l
  BY <1>1, KeysDiffer
<1>3. s % 2 ^ SequenceWidth = t % 2 ^ SequenceWidth
  <2> HIDE DEF K, L
  <2> QED  BY <1>1 DEF DeriveNonce, Hmac
<1>4. s = t
  <2> DEFINE m == 2 ^ SequenceWidth
  <2>1. m \in Nat \ {0} /\ s \in Nat /\ t \in Nat /\ s < m /\ t < m /\ s % m = t % m
    BY <1>3, KeyMaterialAssumption DEF Number, Packable
  <2> HIDE DEF m
  <2> QED  BY <2>1
<1> QED  BY <1>2, <1>4

(* An encryption tells its handshake and its number.                       *)
LEMMA EncryptedDiffer ==
  /\ \A k, l : \A s, t \in Number : Encrypted(k, s) = Encrypted(l, t) => k = l /\ s = t
  /\ \A k, l : \A s, t \in Number : (Encrypted(k, s) = Encrypted(l, t))' => k = l /\ s = t
BY EncryptionsDiffer DEF Encrypted, Keys

LEMMA EncryptedKept ==
  ASSUME NEW k, NEW s, kem'[k] = kem[k]
  PROVE  Encrypted(k, s)' = Encrypted(k, s)
BY DEF Encrypted, Keys

(* Nothing is encrypted.                                                   *)
LEMMA NothingEncrypted ==
  ASSUME IInv, NonceInv, UNCHANGED encryptions, Handshakes \subseteq Handshakes',
         \A k \in Handshakes : kem'[k] = kem[k],
         session' # None => session'.send_seq >= 1,
         \A i \in 1..Len(encryptions), k \in Handshakes, s \in Number :
           encryptions[i] = Encrypted(k, s) =>
             /\ session' # None /\ session'.handshake = k => s < session'.send_seq
             /\ connecting' # None /\ connecting'.handshake = k => s = 0
             /\ connecting' # None /\ connecting'.handshake = None => kem[k] # connecting'.n
  PROVE  NonceInv'
<1>1. \A k \in Handshakes, s \in Number : Encrypted(k, s)' = Encrypted(k, s)
  BY EncryptedKept
<1>2. ASSUME NEW i \in 1..Len(encryptions), NEW k \in Handshakes', NEW s \in Number,
             encryptions[i] = Encrypted(k, s)'
      PROVE  k \in Handshakes /\ encryptions[i] = Encrypted(k, s)
  <2>1. PICK l \in Handshakes, t \in Number : encryptions[i] = Encrypted(l, t)
    BY DEF NonceInv
  <2>2. Encrypted(l, t)' = Encrypted(k, s)'
    BY <1>1, <1>2, <2>1
  <2>3. l = k /\ t = s
    BY <2>2, EncryptedDiffer
  <2> QED  BY <2>1, <2>3
<1>3. NumbersInv'
  BY <1>2 DEF NumbersInv
<1>4. \A i \in 1..Len(encryptions) : \E k \in Handshakes', s \in Number :
        encryptions[i] = Encrypted(k, s)'
  BY <1>1 DEF NonceInv
<1> QED  BY <1>3, <1>4 DEF NonceInv, NonceOnce, Number, Packable

(* The next number of a session is used.                                   *)
LEMMA OneEncrypted ==
  ASSUME IInv, NonceInv, NEW h \in Handshakes, NEW t \in Number, kem' = kem,
         encryptions' = Append(encryptions, Encrypted(h, t)),
         \A i \in 1..Len(encryptions) : encryptions[i] # Encrypted(h, t),
         session' # None => session'.send_seq >= 1,
         \A k \in Handshakes, s \in Number :
           (k = h /\ s = t) \/ (\E i \in 1..Len(encryptions) : encryptions[i] = Encrypted(k, s)) =>
             /\ session' # None /\ session'.handshake = k => s < session'.send_seq
             /\ connecting' # None /\ connecting'.handshake = k => s = 0
             /\ connecting' # None /\ connecting'.handshake = None => kem[k] # connecting'.n
  PROVE  NonceInv'
<1> DEFINE e == Encrypted(h, t)
           n == Len(encryptions)
<1>1. PICK S : encryptions \in Seq(S)
  BY DEF NonceInv
<1>2. encryptions \in Seq(S \cup {e})
  BY <1>1
<1> HIDE DEF e
<1>3. /\ n \in Nat /\ encryptions' \in Seq(S \cup {e}) /\ Len(encryptions') = n + 1
      /\ encryptions'[n + 1] = e /\ \A i \in 1..n : encryptions'[i] = encryptions[i]
  BY <1>2 DEF e
<1>4. /\ Handshakes' = Handshakes
      /\ \A k \in Handshakes, s \in Number : Encrypted(k, s)' = Encrypted(k, s)
  BY EncryptedKept DEF Handshakes
<1>5. \A i \in 1..Len(encryptions') : i \in 1..n \/ i = n + 1
  BY <1>3
<1>6. \A i \in 1..Len(encryptions') : \E k \in Handshakes', s \in Number :
        encryptions'[i] = Encrypted(k, s)'
  BY <1>3, <1>4, <1>5 DEF NonceInv, e
<1>7. NumbersInv'
  <2> SUFFICES ASSUME NEW i \in 1..Len(encryptions'), NEW k \in Handshakes, NEW s \in Number,
                      encryptions'[i] = Encrypted(k, s)
               PROVE  (k = h /\ s = t) \/ \E j \in 1..n : encryptions[j] = Encrypted(k, s)
    BY <1>4 DEF NumbersInv, Number, Packable
  <2>1. CASE i \in 1..n
    BY <1>3, <2>1
  <2>2. CASE i = n + 1
    BY <1>3, <2>2, EncryptedDiffer DEF e
  <2> QED  BY <1>5, <2>1, <2>2
<1>8. NonceOnce'
  BY <1>3, <1>5 DEF NonceInv, NonceOnce, e
<1>9. \E T : encryptions' \in Seq(T)
  BY <1>3
<1> QED  BY <1>6, <1>7, <1>8, <1>9 DEF NonceInv, Number, Packable

LEMMA ProcessServerHelloNonce ==
  ASSUME IInv, NonceInv, NEW r \in http, ProcessServerHello(r)
  PROVE  NonceInv'
<1>1. /\ connecting # None /\ connecting.handshake = None /\ r.n = connecting.n
      /\ connecting' = [connecting EXCEPT !.handshake = r.handshake]
      /\ encryptions' = Append(encryptions, Encrypted(r.handshake, 0))
      /\ kem' = kem /\ session' = session
      /\ r.handshake \in Handshakes /\ r.n = kem[r.handshake]
  BY DEF ProcessServerHello, Finished, Encrypted, serverVars, IInv, HttpInv
<1>2. connecting'.handshake = r.handshake /\ r.handshake # None
  <2>1. connecting \in [n : Nat, handshake : Nat \cup {None}, identity : Nat]
    BY <1>1 DEF IInv, Shapes
  <2>2. r.handshake \in Nat
    BY <1>1 DEF Handshakes
  <2> QED  BY <1>1, <2>1, <2>2, Bounds
<1>3. 0 \in Number
  BY KeyMaterialAssumption DEF Number, Packable
<1>4. \A i \in 1..Len(encryptions), s \in Number : encryptions[i] # Encrypted(r.handshake, s)
  BY <1>1 DEF NonceInv, NumbersInv
<1>5. session # None => 0 < session.send_seq /\ session.send_seq >= 1
  BY DEF IInv, Shapes, NonceInv
<1> QED  BY <1>1, <1>2, <1>3, <1>4, <1>5, OneEncrypted DEF NonceInv, NumbersInv

LEMMA SendNonce ==
  ASSUME IInv, NonceInv, Send
  PROVE  NonceInv'
<1> DEFINE h == session.handshake
           t == session.send_seq
<1>1. /\ connecting = None /\ connecting' = None /\ session # None /\ Packable(t)
      /\ session' = [session EXCEPT !.send_seq = @ + 1] /\ kem' = kem
      /\ encryptions' = Append(encryptions, Encrypted(h, t))
  BY DEF Send, Ready, Encrypted, serverVars
<1>2. h \in Handshakes /\ t \in Nat /\ t >= 1
  BY <1>1 DEF IInv, Shapes, TypeOK, NonceInv
<1>3. session'.handshake = h /\ session'.send_seq = t + 1
  BY <1>1 DEF IInv, Shapes
<1>4. t \in Number
  BY <1>1, <1>2 DEF Number
<1>5. \A i \in 1..Len(encryptions), s \in Number : encryptions[i] = Encrypted(h, s) => s < t
  BY <1>1, <1>2 DEF NonceInv, NumbersInv
<1>6. \A s \in Number : s < t => s < t + 1 /\ s # t
  BY <1>2 DEF Number
<1> HIDE DEF h, t
<1>7. \A i \in 1..Len(encryptions) : encryptions[i] # Encrypted(h, t)
  BY <1>4, <1>5, <1>6
<1>8. t + 1 >= 1 /\ t < t + 1
  BY <1>2
<1> QED  BY <1>1, <1>2, <1>3, <1>4, <1>5, <1>6, <1>7, <1>8, OneEncrypted

LEMMA OtherNonce ==
  ASSUME IInv, NonceInv,
         \/ Register \/ LoadIdentity \/ StartConnect \/ ConnectFails \/ Close \/ Shutdown
         \/ \E r \in http : FinishConnect(r)
         \/ \E q \in http : \/ HandshakeHello(q) \/ HandshakeFinish(q) \/ HandshakeFinishRefused(q)
                            \/ SendMessage(q) \/ CloseSession(q)
         \/ UNCHANGED vars
  PROVE  NonceInv'
<1>1. UNCHANGED encryptions
  BY DEF Register, LoadIdentity, StartConnect, ConnectFails, Close, Shutdown, FinishConnect,
         HandshakeHello, HandshakeFinish, HandshakeFinishRefused,
         SendMessage, CloseSession, vars
<1>2. Handshakes \subseteq Handshakes' /\ \A k \in Handshakes : kem'[k] = kem[k]
  <2>1. CASE kem' = kem
    BY <2>1 DEF Handshakes
  <2>2. CASE \E q \in http : HandshakeHello(q)
    <3>1. PICK q \in http : HandshakeHello(q)
      BY <2>2
    <3>2. q.n \in 1..connects
      BY <3>1 DEF HandshakeHello, IInv, HttpInv
    <3>3. connects \in Nat
      BY Bounds DEF IInv, TypeOK
    <3>4. kem \in Seq(Nat) /\ kem' = Append(kem, q.n)
      BY <3>1 DEF HandshakeHello, Encapsulate, IInv, Shapes
    <3> QED  BY <3>2, <3>3, <3>4 DEF Handshakes
  <2> QED  BY <2>1, <2>2 DEF Register, LoadIdentity, StartConnect, ConnectFails, Close, Shutdown,
              FinishConnect, HandshakeFinish, HandshakeFinishRefused,
         SendMessage, CloseSession, vars, serverVars
<1>3. CASE session' \in {session, None} /\ connecting' \in {connecting, None}
  BY <1>1, <1>2, <1>3, NothingEncrypted DEF NonceInv, NumbersInv
<1>4. CASE StartConnect
  <2>1. /\ connecting'.n = connects + 1 /\ connecting'.handshake = None /\ session' = session
        /\ connects \in Nat /\ \A k \in Handshakes : kem[k] \in 1..connects
    BY <1>4 DEF StartConnect, IInv, TypeOK
  <2>2. \A k \in Handshakes : kem[k] # connecting'.n /\ k # None
    BY <2>1, Bounds DEF Handshakes
  <2> QED  BY <1>1, <1>2, <2>1, <2>2, NothingEncrypted DEF NonceInv, NumbersInv
<1>5. CASE \E r \in http : FinishConnect(r)
  <2>1. PICK r \in http : FinishConnect(r)
    BY <1>5
  <2>2. /\ connecting # None /\ connecting' = None
        /\ session'.handshake = connecting.handshake /\ session'.send_seq = 1
    BY <2>1 DEF FinishConnect, FirstSequenceNumber
  <2> QED  BY <1>1, <1>2, <2>2, NothingEncrypted DEF NonceInv, NumbersInv
<1> QED  BY <1>3, <1>4, <1>5 DEF Register, LoadIdentity, ConnectFails, Close, Shutdown,
            HandshakeHello, HandshakeFinish, HandshakeFinishRefused,
         SendMessage, CloseSession, vars, clientVars

(* No two encryptions of the client share key and nonce: not confirmations  *)
(* and messages, not sessions that follow each other, not when the numbers *)
(* are used up.  kdf.py, handshake.py, session.py.                         *)
THEOREM NoncesAreUsedOnce == Spec => []NonceOnce
<1>1. ASSUME Init PROVE NonceInv
  <2>1. encryptions = <<>> /\ Len(encryptions) = 0 /\ encryptions \in Seq({})
    BY <1>1 DEF Init
  <2> QED  BY <1>1, <2>1 DEF Init, NonceInv, NumbersInv, NonceOnce
<1>2. ASSUME IInv, NonceInv, [Next]_vars PROVE NonceInv'
  <2>1. CASE \E r \in http : ProcessServerHello(r)
    BY <1>2, <2>1, ProcessServerHelloNonce
  <2>2. CASE Send
    BY <1>2, <2>2, SendNonce
  <2> QED  BY <1>2, <2>1, <2>2, OtherNonce DEF Next, Serve
<1>3. NonceInv => NonceOnce
  BY DEF NonceInv
<1> QED  BY <1>1, <1>2, <1>3, SpecIInv, PTL DEF Spec
=============================================================================
