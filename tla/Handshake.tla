----------------------------- MODULE Handshake -----------------------------
(***************************************************************************)
(* protocol/handshake.py: ClientHandshake and ServerHandshake objects that *)
(* exchange ClientHello, ServerHello and ClientFinished over a transport   *)
(* that loses, duplicates, reorders and misroutes messages.                *)
(*                                                                         *)
(* Cryptography is perfect: a transcript digest is the transcript, every   *)
(* encapsulation makes a fresh secret, a secret and a transcript determine *)
(* the session keys.  One action is one method call; a call that raises    *)
(* before it assigns anything is a stuttering step.                        *)
(***************************************************************************)
EXTENDS Integers, Sequences, SequencesExt

CONSTANTS
  Client,              \* ClientHandshake objects
  Server,              \* ServerHandshake objects
  UserOf,              \* UserOf[c]: the user whose identity c was given
  ServerUser,          \* the user_id of the server's identity
  NotBefore, NotAfter, \* the first and last second of u's certificate
  SkewLimit,           \* the 60 seconds of process_client_hello
  BinKeywordAccepted,  \* whether msgpack.packb accepts use_bin_True
  NoSession,           \* the None of ServerHandshake._session
  MaxBuild,            \* bound: build_client_hello calls per object
  MaxHello,            \* bound: process_client_hello calls per object
  MaxFinish,           \* bound: ClientFinished accepted per object
  MaxTime              \* bound: how far the clocks run

ASSUME HandshakeAssumption ==
  /\ Client \cap Server = {}
  /\ SkewLimit \in Nat
  /\ BinKeywordAccepted \in BOOLEAN
  /\ MaxBuild \in Nat /\ MaxHello \in Nat /\ MaxFinish \in Nat /\ MaxTime \in Nat

Role == {"client", "server"}

VARIABLES
  clock,         \* clock[r]: int(time.time()) on the hosts of role r
  net,           \* every message ever built
  transcript,    \* transcript[o]: what object o has hashed, in order
  builds,        \* builds[c]: KEM key pairs that c has generated
  kem_keypair,   \* kem_keypair[c]: the one it holds, 0 for None
  encaps,        \* encaps[s]: secrets that s has encapsulated
  session,       \* session[s]: the EstablishedSession s derived last
  derived,       \* history: derived[s], all of them
  returned       \* history: returned[o], the EstablishedSessions handed out

vars == <<clock, net, transcript, builds, kem_keypair, encaps, session,
          derived, returned>>
clientVars == <<builds, kem_keypair>>
serverVars == <<encaps, session, derived>>
-----------------------------------------------------------------------------
Abs(n) == IF n < 0 THEN -n ELSE n

(* Certificates are inspected on the clock of the verifying host; the      *)
(* first and the last second belong to the validity period.                *)
CertValid(u, r) == NotBefore[u] <= clock[r] /\ clock[r] <= NotAfter[u]

ClientHello(c) ==
  [type |-> "ClientHello", kem |-> <<c, builds[c] + 1>>, user |-> UserOf[c],
   signer |-> UserOf[c], timestamp |-> clock["client"]]

\* Mutant: the server encapsulates once and reuses the secret.
ServerHelloSameSecret(s, hello) ==
  [type |-> "ServerHello", kem |-> hello.kem,
   secret |-> [by |-> s, n |-> 1], user |-> ServerUser,
   signer |-> ServerUser, signed |-> Append(transcript[s], hello)]

(* The server signs the transcript so far together with its own fields.    *)
ServerHello(s, hello) ==
  [type |-> "ServerHello", kem |-> hello.kem,
   secret |-> [by |-> s, n |-> encaps[s] + 1], user |-> ServerUser,
   signer |-> ServerUser, signed |-> Append(transcript[s], hello)]

(* The confirmation string under client_keys, nonce 0, the id as AAD.      *)
ClientFinished(est) ==
  [type |-> "ClientFinished", secret |-> est.secret,
   session_id |-> est.session_id]

EstablishedSession(secret, id, peer) ==
  [secret |-> secret, session_id |-> id, peer |-> peer]

(* ML-KEM rejects implicitly: the wrong key gives an unrelated secret.     *)
Decapsulate(c, hello) ==
  IF hello.kem = <<c, kem_keypair[c]>> THEN hello.secret
  ELSE [by |-> c, n |-> kem_keypair[c]]
-----------------------------------------------------------------------------
Init ==
  /\ clock = [r \in Role |-> 0]
  /\ net = {}
  /\ transcript = [o \in Client \cup Server |-> <<>>]
  /\ builds = [c \in Client |-> 0]
  /\ kem_keypair = [c \in Client |-> 0]
  /\ encaps = [s \in Server |-> 0]
  /\ session = [s \in Server |-> NoSession]
  /\ derived = [s \in Server |-> {}]
  /\ returned = [o \in Client \cup Server |-> <<>>]

\* Mutant: the hello is hashed before it is signed.
BuildClientHelloHashedUnsigned(c) ==
  /\ builds[c] < MaxBuild
  /\ builds' = [builds EXCEPT ![c] = @ + 1]
  /\ kem_keypair' = [kem_keypair EXCEPT ![c] = builds[c] + 1]
  /\ net' = net \cup {ClientHello(c)}
  /\ transcript' = [transcript EXCEPT ![c] =
        Append(@, [ClientHello(c) EXCEPT !.signer = "nobody"])]
  /\ UNCHANGED <<clock, serverVars, returned>>

(* build_client_hello: the key pair is stored before the message is        *)
(* serialised, so a packer that raises leaves an object without a hello.   *)
BuildClientHello(c) ==
  /\ builds[c] < MaxBuild
  /\ builds' = [builds EXCEPT ![c] = @ + 1]
  /\ kem_keypair' = [kem_keypair EXCEPT ![c] = builds[c] + 1]
  /\ IF BinKeywordAccepted
     THEN /\ net' = net \cup {ClientHello(c)}
          /\ transcript' = [transcript EXCEPT ![c] = Append(@, ClientHello(c))]
     ELSE UNCHANGED <<net, transcript>>
  /\ UNCHANGED <<clock, serverVars, returned>>

HelloAcceptable(m) ==
  /\ Abs(clock["server"] - m.timestamp) <= SkewLimit
  /\ CertValid(m.user, "server")
  /\ m.signer = m.user

\* Mutant: the keys are derived before the ServerHello is hashed.
ProcessClientHelloDerivesEarly(s, m) ==
  /\ m.type = "ClientHello"
  /\ HelloAcceptable(m)
  /\ encaps[s] < MaxHello
  /\ LET hello == ServerHello(s, m)
         tr == transcript[s] \o <<m, hello>>
         est == EstablishedSession(hello.secret, Append(transcript[s], m), m.user)
     IN  /\ net' = net \cup {hello}
         /\ transcript' = [transcript EXCEPT ![s] = tr]
         /\ session' = [session EXCEPT ![s] = est]
         /\ derived' = [derived EXCEPT ![s] = @ \cup {est}]
  /\ encaps' = [encaps EXCEPT ![s] = @ + 1]
  /\ UNCHANGED <<clock, clientVars, returned>>

(* process_client_hello, every check passing.                              *)
ProcessClientHello(s, m) ==
  /\ m.type = "ClientHello"
  /\ HelloAcceptable(m)
  /\ encaps[s] < MaxHello
  /\ LET hello == ServerHello(s, m)
         tr == transcript[s] \o <<m, hello>>
         est == EstablishedSession(hello.secret, tr, m.user)
     IN  /\ net' = net \cup {hello}
         /\ transcript' = [transcript EXCEPT ![s] = tr]
         /\ session' = [session EXCEPT ![s] = est]
         /\ derived' = [derived EXCEPT ![s] = @ \cup {est}]
  /\ encaps' = [encaps EXCEPT ![s] = @ + 1]
  /\ UNCHANGED <<clock, clientVars, returned>>

(* process_client_hello raising: it has hashed what it was given, which may *)
(* be no ClientHello at all, before it looks at it.                        *)
RejectClientHello(s, m) ==
  /\ m.type = "ClientHello" => ~HelloAcceptable(m)
  /\ Len(transcript[s]) < MaxHello
  /\ transcript' = [transcript EXCEPT ![s] = Append(@, m)]
  /\ UNCHANGED <<clock, net, clientVars, serverVars, returned>>

\* Mutant: the signature is checked, what it signs is not.
ProcessServerHelloAnyTranscript(c, m) ==
  /\ m.type = "ServerHello"
  /\ kem_keypair[c] # 0
  /\ CertValid(m.user, "client")
  /\ m.signer = m.user
  /\ LET tr == Append(transcript[c], m)
         est == EstablishedSession(Decapsulate(c, m), tr, m.user)
     IN  /\ net' = net \cup {ClientFinished(est)}
         /\ transcript' = [transcript EXCEPT ![c] = Append(tr, ClientFinished(est))]
         /\ returned' = [returned EXCEPT ![c] = Append(@, est)]
  /\ kem_keypair' = [kem_keypair EXCEPT ![c] = 0]
  /\ UNCHANGED <<clock, builds, serverVars>>

(* process_server_hello: the signature must cover this object's transcript *)
(* so far.  The decapsulation key is destroyed, the session handed out.    *)
ProcessServerHello(c, m) ==
  /\ m.type = "ServerHello"
  /\ kem_keypair[c] # 0
  /\ CertValid(m.user, "client")
  /\ m.signer = m.user
  /\ m.signed = transcript[c]
  /\ LET tr == Append(transcript[c], m)
         est == EstablishedSession(Decapsulate(c, m), tr, m.user)
     IN  /\ net' = net \cup {ClientFinished(est)}
         /\ transcript' = [transcript EXCEPT ![c] = Append(tr, ClientFinished(est))]
         /\ returned' = [returned EXCEPT ![c] = Append(@, est)]
  /\ kem_keypair' = [kem_keypair EXCEPT ![c] = 0]
  /\ UNCHANGED <<clock, builds, serverVars>>

\* Mutant: whatever decrypts to something is taken as the confirmation.
FinishedMatchesAnything(s, m) == m.session_id # <<>>

(* process_client_finished: decrypts under the client keys and session id  *)
(* of the session derived last.  The object keeps it and would accept the  *)
(* same message again.                                                     *)
FinishedMatches(s, m) ==
  /\ m.secret = session[s].secret
  /\ m.session_id = session[s].session_id

ProcessClientFinished(s, m) ==
  /\ m.type = "ClientFinished"
  /\ session[s] # NoSession
  /\ Len(returned[s]) < MaxFinish
  /\ FinishedMatches(s, m)
  /\ transcript' = [transcript EXCEPT ![s] = Append(@, m)]
  /\ returned' = [returned EXCEPT ![s] = Append(@, session[s])]
  /\ UNCHANGED <<clock, net, clientVars, serverVars>>

Tick(r) ==
  /\ clock[r] < MaxTime
  /\ clock' = [clock EXCEPT ![r] = @ + 1]
  /\ UNCHANGED <<net, transcript, clientVars, serverVars, returned>>

Next ==
  \/ \E c \in Client : \/ BuildClientHello(c)
                       \/ \E m \in net : ProcessServerHello(c, m)
  \/ \E s \in Server : \E m \in net : \/ ProcessClientHello(s, m)
                                      \/ RejectClientHello(s, m)
                                      \/ ProcessClientFinished(s, m)
  \/ \E r \in Role : Tick(r)

Spec == Init /\ [][Next]_vars

(* How demo.py, the tests and the server drive the objects: one hello per   *)
(* client object, a ServerHandshake of its own for every hello, one finish.*)
DriverNext ==
  \/ \E c \in Client : \/ BuildClientHello(c)
                       \/ \E m \in net : ProcessServerHello(c, m)
  \/ \E s \in Server : \E m \in net :
        \/ /\ m.type = "ClientHello"
           /\ \A t \in Server : m \notin ToSet(transcript[t])
           /\ transcript[s] = <<>>
           /\ ProcessClientHello(s, m) \/ RejectClientHello(s, m)
        \/ ProcessClientFinished(s, m)
  \/ \E r \in Role : Tick(r)

DriverSpec ==
  /\ Init /\ [][DriverNext]_vars
  /\ \A c \in Client : WF_vars(\E m \in net : ProcessServerHello(c, m))
  /\ \A s \in Server :
        /\ WF_vars(\E m \in net : /\ \A t \in Server : m \notin ToSet(transcript[t])
                                 /\ transcript[s] = <<>>
                                 /\ ProcessClientHello(s, m))
        /\ WF_vars(\E m \in net : ProcessClientFinished(s, m))
-----------------------------------------------------------------------------
Message(m) ==
  \/ m.type = "ClientHello" /\ m.kem[1] \in Client /\ m.kem[2] \in 1..builds[m.kem[1]]
  \/ m.type = "ServerHello" /\ m.secret.by \in Server /\ m.secret.n \in 1..encaps[m.secret.by]
  \/ m.type = "ClientFinished"

TypeOK ==
  /\ clock \in [Role -> Nat]
  /\ \A m \in net : Message(m)
  /\ \A o \in Client \cup Server : \A i \in 1..Len(transcript[o]) : transcript[o][i] \in net
  /\ builds \in [Client -> Nat]
  /\ \A c \in Client : kem_keypair[c] \in 0..builds[c]
  /\ encaps \in [Server -> Nat]
  /\ \A s \in Server : session[s] \in derived[s] \cup {NoSession}

(* The sessions an object has handed out.                                   *)
Returned(o) == ToSet(returned[o])

(* A session that the server hands out was handed out, with the same id and *)
(* the same keys, by a client object of the user that the server believes  *)
(* it talks to, and that client believes it talks to the server.           *)
ServerAgreement ==
  \A s \in Server : \A b \in Returned(s) :
    \E c \in Client : /\ b.peer = UserOf[c]
                      /\ [b EXCEPT !.peer = ServerUser] \in Returned(c)

(* A session that a client hands out was derived, with the same id and the  *)
(* same keys, by a server object for that client's user, whatever else was *)
(* built, replayed or processed meanwhile.                                 *)
ClientAgreement ==
  \A c \in Client : \A a \in Returned(c) :
    \E s \in Server : [a EXCEPT !.peer = UserOf[c]] \in derived[s] /\ a.peer = ServerUser

(* Sessions are not shared: two objects of one side never hold the same     *)
(* session id, even when a ClientHello was processed twice, and two        *)
(* sessions never use the same secret.                                     *)
SessionsDistinct ==
  /\ \A c, d \in Client : c # d =>
        \A a \in Returned(c), b \in Returned(d) : a.session_id # b.session_id
  /\ \A s, t \in Server : \A a \in derived[s], b \in derived[t] :
        a = b \/ (a.session_id # b.session_id /\ a.secret # b.secret)
  /\ \A s, t \in Server : s # t => derived[s] \cap derived[t] = {}

(* A handshake that was started is completed on both sides, unless the      *)
(* clocks or the certificates stand in its way.                            *)
Late(c) ==
  \/ \E m \in ToSet(transcript[c]) :
        m.type = "ClientHello" /\ ~HelloAcceptable(m)
  \/ \E s \in Server : \E m \in ToSet(transcript[c]) :
        m \in ToSet(transcript[s]) /\ session[s] = NoSession
  \/ ~CertValid(ServerUser, "client")

HandshakeCompletes ==
  \A c \in Client : (builds[c] > 0) ~>
    (Late(c) \/ \E s \in Server : \E b \in Returned(s) :
        [b EXCEPT !.peer = ServerUser] \in Returned(c))
=============================================================================
