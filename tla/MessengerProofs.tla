-------------------------- MODULE MessengerProofs --------------------------
(***************************************************************************)
(* Theorems about Messenger, for any installations, users and bounds, and  *)
(* whatever the network and the operating systems do to messages and       *)
(* processes.                                                              *)
(***************************************************************************)
EXTENDS Messenger, TLAPS

Shapes ==
  /\ epoch \in 1..MaxEpoch /\ hellos \in 0..MaxHello
  /\ registered_users \in [User -> (Client \X Nat) \cup {None}]
  /\ message_queues \in [User -> Seq(EnvelopeType) \cup {None}]
  /\ pending_handshakes \subseteq [id : 1..hellos, user : User]
  /\ active_sessions \in [HandshakeId -> SessionType \cup {None}]
  /\ accepted \subseteq EnvelopeType
  /\ disk \in [Client -> Certificate(epoch) \cup {None}]
  /\ identity \in [Client -> Certificate(epoch) \cup {None}]
  /\ ca_pk \in [Client -> (1..epoch) \cup {None}]
  /\ session \in [Client -> [id : 1..hellos, send_seq : Nat, epoch : 1..epoch] \cup {None}]
  /\ calls \in [Client -> Nat]
  /\ call \in [Client -> RequestType \cup {None}]
  /\ requests \subseteq RequestType

(* The server's tables.  A handshake is pending, active or neither, and    *)
(* nothing was ever accepted in the session of a pending one.              *)
TablesInv ==
  /\ \A h \in pending_handshakes :
       /\ active_sessions[h.id] = None
       /\ \A a \in accepted : a.session # h.id
       /\ \A g \in pending_handshakes : g.id = h.id => g = h
  /\ \A h \in HandshakeId : active_sessions[h] # None =>
       /\ h <= hellos
       /\ \A a \in accepted : a.session = h => a.seq < active_sessions[h].recv_seq
  /\ \A a \in accepted : a.session <= hellos
  /\ \A u \in User : message_queues[u] # None => ToSet(message_queues[u]) \subseteq accepted

(* A call waits for the request sent last.  A handshake is finished by one  *)
(* request, of the user who said hello, and only its sender uses or closes *)
(* the session, later.                                                     *)
Finishes(h) == {f \in requests : f.type = "finish" /\ f.id = h}

RequestsInv ==
  /\ \A c \in Client : call[c] # None =>
       call[c] \in requests /\ call[c].from = c /\ call[c].n = calls[c]
  /\ \A q \in requests :
       /\ q.n \in 1..calls[q.from]
       /\ q.type = "register" => q.user = UserOf[q.from] /\ q.key = <<q.from, q.n>>
       /\ q.type = "hello" => q.cert.user = UserOf[q.from]
       /\ q.type = "message" => q.envelope.session = q.session
       /\ q.type \in {"message", "delete"} =>
            \E f \in Finishes(q.session) : f.from = q.from /\ f.n < q.n
  /\ \A h \in HandshakeId : \A f \in Finishes(h) :
       /\ h <= hellos
       /\ \A g \in Finishes(h) : f = g
       /\ \A p \in pending_handshakes : p.id = h => p.user = UserOf[f.from]

Kind == {"register", "ca-public-key", "hello", "finish"}

(* The replies to c answer the call that it waits for.                     *)
Answers(c, type) == {r \in replies : r.to = c /\ r.ok /\ call[c].type = type}

WaitingInv == \A r \in replies : r.to \in Client /\ call[r.to] # None

CaAnswersInv == \A c \in Client : \A r \in Answers(c, "ca-public-key") : r.ca \in 1..epoch

(* The id in the answer to a hello is in no other such answer, and nobody  *)
(* has used it yet.                                                        *)
HelloAnswersInv ==
  \A c \in Client : \A r \in Answers(c, "hello") :
    /\ r.id \in 1..hellos
    /\ Finishes(r.id) = {}
    /\ \A p \in pending_handshakes : p.id = r.id => p.user = UserOf[c]
    /\ \A d \in Client : \A x \in Answers(d, "hello") : x.id = r.id => d = c

(* A session that was just confirmed is untouched.                         *)
FinishAnswersInv ==
  \A c \in Client : \A r \in Answers(c, "finish") :
    /\ r.id = call[c].id
    /\ r.epoch \in 1..epoch
    /\ r.epoch = epoch => active_sessions[r.id] = [user |-> UserOf[c], recv_seq |-> 1]

RepliesInv == WaitingInv /\ CaAnswersInv /\ HelloAnswersInv /\ FinishAnswersInv

(* The certificates that c has in its file or is about to write there.     *)
Certificates(c) == ({disk[c]} \ {None}) \cup {r.cert : r \in Answers(c, "register")}

IdentitiesInv ==
  \A c \in Client :
    /\ identity[c] # None => identity[c].user = UserOf[c]
    /\ \A x \in Certificates(c) :
         /\ x \in Certificate(epoch) /\ x.user = UserOf[c] /\ x.key[1] = c
         /\ x.ca = epoch => registered_users[x.user] = x.key
         /\ \A d \in Client \ {c} : \A y \in Certificates(d) :
              x.user = y.user => x.ca # y.ca

(* The session of c was finished by c, and c has not closed it; the server  *)
(* has seen at most what c has sent.                                       *)
ConnectionsInv ==
  \A c \in Client : session[c] # None =>
    /\ \E f \in Finishes(session[c].id) : f.from = c
    /\ session[c].send_seq \in 1..calls[c]
    /\ \A q \in requests :
         /\ q.type = "message" /\ q.session = session[c].id =>
              q.envelope.seq < session[c].send_seq
         /\ q.type = "delete" => q.session # session[c].id

IInv == Shapes /\ TablesInv /\ RequestsInv /\ RepliesInv /\ IdentitiesInv
        /\ ConnectionsInv /\ ConnectedMeansActive
-----------------------------------------------------------------------------
(* What stays out of the way of the provers' arithmetic.                   *)
LEMMA Types ==
  ASSUME IInv
  PROVE  /\ epoch \in Nat /\ hellos \in Nat /\ 1..hellos \subseteq HandshakeId
         /\ \A c \in Client : UserOf[c] \in User /\ calls[c] \in Nat
         /\ \A q \in requests : q.from \in Client /\ q.n \in Nat /\ q \in RequestType
         /\ \A e \in EnvelopeType : e.session \in HandshakeId /\ e.seq \in Nat \ {0}
                                   /\ e.sender \in User /\ e.to \in User
<1>1. epoch \in Nat /\ hellos \in Nat /\ 1..hellos \subseteq HandshakeId
  BY MessengerAssumption DEF IInv, Shapes, HandshakeId
<1>2. \A c \in Client : UserOf[c] \in User /\ calls[c] \in Nat
  BY MessengerAssumption DEF IInv, Shapes
<1>3. \A q \in requests : q.from \in Client /\ q.n \in Nat /\ q \in RequestType
  BY DEF IInv, Shapes, RequestType
<1>4. \A e \in EnvelopeType : e.session \in HandshakeId /\ e.seq \in Nat \ {0}
                              /\ e.sender \in User /\ e.to \in User
  <2> SUFFICES ASSUME NEW c \in Client,
                      NEW e \in [session : HandshakeId, seq : 1..MaxCalls[c],
                                 sender : {UserOf[c]}, to : User]
               PROVE  /\ e.session \in HandshakeId /\ e.seq \in Nat \ {0}
                      /\ e.sender \in User /\ e.to \in User
    BY DEF EnvelopeType
  <2>1. MaxCalls[c] \in Nat
    BY MessengerAssumption
  <2> QED  BY <1>2, <2>1
<1> QED  BY <1>1, <1>2, <1>3, <1>4

(* The fields that a request has by its type.                              *)
LEMMA RequestFields ==
  ASSUME NEW q \in RequestType
  PROVE  /\ q.type = "register" => q.user \in User /\ q.key \in Client \X Nat
         /\ q.type = "hello" => q.cert \in Certificate(MaxEpoch)
         /\ q.type = "finish" => q.id \in HandshakeId
         /\ q.type = "message" => q.session \in HandshakeId /\ q.envelope \in EnvelopeType
         /\ q.type = "poll" => q.user \in User
         /\ q.type = "delete" => q.session \in HandshakeId
BY DEF RequestType
LEMMA AppendFacts ==
  ASSUME NEW S, NEW s \in Seq(S), NEW x \in S
  PROVE  ToSet(Append(s, x)) = ToSet(s) \cup {x} /\ IsPrefix(s, Append(s, x))
<1>1. /\ Append(s, x) \in Seq(S) /\ Len(Append(s, x)) = Len(s) + 1
      /\ Append(s, x)[Len(s) + 1] = x
      /\ \A i \in 1..Len(s) : Append(s, x)[i] = s[i]
  OBVIOUS
<1>2. ToSet(Append(s, x)) = ToSet(s) \cup {x}
  BY <1>1 DEF ToSet
<1>3. IsPrefix(s, Append(s, x))
  BY <1>1 DEF IsPrefix
<1> QED  BY <1>2, <1>3
-----------------------------------------------------------------------------
(* Replies.                                                                *)

LEMMA ReplyAdds ==
  ASSUME IInv, NEW q \in requests, NEW F, Reply(q, F)
  PROVE  /\ UNCHANGED <<calls, call, requests>>
         /\ \A r \in replies' : r.to \in Client /\ call[r.to] # None
         /\ \A c \in Client, t \in Kind : \A r \in Answers(c, t)' :
              r \in Answers(c, t) \/ /\ c = q.from /\ call[c] = q /\ q.type = t
                                     /\ r = Merge([to |-> q.from], F) /\ r.ok
<1> DEFINE x == Merge([to |-> q.from], F)
<1>1. x.to = q.from
  BY DEF Merge
<1>2. q # None /\ q.from \in Client
  BY Types, NoneAssumption
<1>3. /\ UNCHANGED <<calls, call, requests>>
      /\ replies' = replies \/ (replies' = replies \cup {x} /\ call[q.from] = q)
  BY DEF Reply
<1>4. \A r \in replies : r.to \in Client /\ call[r.to] # None
  BY DEF IInv, RepliesInv, WaitingInv
<1>5. \A r \in replies' : r.to \in Client /\ call[r.to] # None
  BY <1>1, <1>2, <1>3, <1>4
<1>6. \A c \in Client, t \in Kind : \A r \in Answers(c, t)' :
        r \in Answers(c, t) \/ /\ c = q.from /\ call[c] = q /\ q.type = t
                               /\ r = x /\ r.ok
  <2> HIDE DEF x
  <2> SUFFICES ASSUME NEW c \in Client, NEW t \in Kind, NEW r \in Answers(c, t)'
               PROVE  r \in Answers(c, t) \/ /\ c = q.from /\ call[c] = q /\ q.type = t
                                             /\ r = x /\ r.ok
    OBVIOUS
  <2>1. r \in replies' /\ r.to = c /\ r.ok /\ call[c].type = t
    BY <1>3 DEF Answers
  <2>2. CASE r \in replies
    BY <2>1, <2>2 DEF Answers
  <2>3. CASE r = x /\ call[q.from] = q
    BY <1>1, <2>1, <2>3 DEF x
  <2> QED  BY <1>3, <2>1, <2>2, <2>3
<1> QED  BY <1>3, <1>5, <1>6

(* No call gets an answer that it did not have.                            *)
NoNewAnswers == \A c \in Client, t \in Kind : Answers(c, t)' \subseteq Answers(c, t)

(* What a client leaves of the answers of others when it posts or returns.  *)
Leaves(c) ==
  /\ NoNewAnswers
  /\ \A t \in Kind : Answers(c, t)' = {}
  /\ \A d \in Client \ {c} : call'[d] = call[d]
  /\ \A r \in replies' : r.to \in Client /\ call'[r.to] # None

LEMMA DropsReplies ==
  ASSUME IInv, NEW c \in Client, replies' = {r \in replies : r.to # c},
         \A d \in Client \ {c} : call'[d] = call[d]
  PROVE  Leaves(c)
<1>1. \A r \in replies' : r \in replies /\ r.to # c /\ r.to \in Client /\ call'[r.to] # None
  BY DEF IInv, RepliesInv, WaitingInv
<1>2. \A t \in Kind : Answers(c, t)' = {}
  BY <1>1 DEF Answers
<1>3. NoNewAnswers
  <2> SUFFICES ASSUME NEW d \in Client, NEW t \in Kind, NEW r \in Answers(d, t)'
               PROVE  r \in Answers(d, t)
    BY DEF NoNewAnswers
  <2>1. r \in replies' /\ r.to = d /\ r.ok /\ call'[d].type = t
    BY DEF Answers
  <2> QED  BY <1>1, <2>1 DEF Answers
<1> QED  BY <1>1, <1>2, <1>3 DEF Leaves
-----------------------------------------------------------------------------
(* What a step keeps when it leaves alone what an invariant speaks of, or   *)
(* takes from it.                                                          *)

LEMMA TablesKept ==
  ASSUME IInv, UNCHANGED serverVars
  PROVE  TablesInv'
BY DEF IInv, TablesInv, serverVars

LEMMA RequestsKept ==
  ASSUME IInv, UNCHANGED <<calls, call, requests>>, hellos' \in Nat, hellos <= hellos',
         \A p \in pending_handshakes' : p \in pending_handshakes \/ p.id > hellos
  PROVE  RequestsInv'
<1>1. \A h \in HandshakeId : Finishes(h)' = Finishes(h) /\ h \in Nat
  BY DEF Finishes, HandshakeId
<1>2. \A h \in HandshakeId : \A f \in Finishes(h) :
        /\ h <= hellos'
        /\ \A g \in Finishes(h) : f = g
        /\ \A p \in pending_handshakes' : p.id = h => p.user = UserOf[f.from]
  <2> SUFFICES ASSUME NEW h \in HandshakeId, NEW f \in Finishes(h)
               PROVE  /\ h <= hellos'
                      /\ \A g \in Finishes(h) : f = g
                      /\ \A p \in pending_handshakes' : p.id = h => p.user = UserOf[f.from]
    OBVIOUS
  <2>1. /\ h <= hellos
        /\ \A g \in Finishes(h) : f = g
        /\ \A p \in pending_handshakes : p.id = h => p.user = UserOf[f.from]
    BY DEF IInv, RequestsInv
  <2>2. h \in Nat /\ hellos \in Nat
    BY <1>1, Types
  <2> QED  BY <2>1, <2>2
<1>3. \A q \in requests : q.type \in {"message", "delete"} => q.session \in HandshakeId
  BY Types, RequestFields
<1>4. \A q \in requests : q.type \in {"message", "delete"} =>
         \E f \in Finishes(q.session)' : f.from = q.from /\ f.n < q.n
  BY <1>1, <1>3 DEF IInv, RequestsInv
<1> QED  BY <1>1, <1>2, <1>4 DEF IInv, RequestsInv

LEMMA CaAnswersKept ==
  ASSUME IInv, epoch' \in Nat, epoch <= epoch',
         \A c \in Client : Answers(c, "ca-public-key")' \subseteq Answers(c, "ca-public-key")
  PROVE  CaAnswersInv'
<1> SUFFICES ASSUME NEW c \in Client, NEW r \in Answers(c, "ca-public-key")'
             PROVE  r.ca \in 1..epoch'
  BY DEF CaAnswersInv
<1>1. r.ca \in 1..epoch
  BY DEF IInv, RepliesInv, CaAnswersInv
<1> QED  BY <1>1, Types

LEMMA HelloAnswersKept ==
  ASSUME IInv, hellos' \in Nat, hellos <= hellos',
         \A p \in pending_handshakes' : p \in pending_handshakes \/ p.id > hellos,
         \A c \in Client : Answers(c, "hello")' \subseteq Answers(c, "hello"),
         \/ requests' = requests
         \/ \A c \in Client : \A r \in Answers(c, "hello")' : Finishes(r.id)' = Finishes(r.id)
  PROVE  HelloAnswersInv'
<1> SUFFICES ASSUME NEW c \in Client, NEW r \in Answers(c, "hello")'
             PROVE  /\ r.id \in 1..hellos'
                    /\ Finishes(r.id)' = {}
                    /\ \A p \in pending_handshakes' : p.id = r.id => p.user = UserOf[c]
                    /\ \A d \in Client : \A x \in Answers(d, "hello")' : x.id = r.id => d = c
  BY DEF HelloAnswersInv
<1>1. /\ r.id \in 1..hellos
      /\ Finishes(r.id) = {}
      /\ \A p \in pending_handshakes : p.id = r.id => p.user = UserOf[c]
      /\ \A d \in Client : \A x \in Answers(d, "hello") : x.id = r.id => d = c
  BY DEF IInv, RepliesInv, HelloAnswersInv
<1>2. r.id \in 1..hellos' /\ ~(r.id > hellos)
  BY <1>1, Types
<1>3. Finishes(r.id)' = Finishes(r.id)
  BY DEF Finishes
<1> QED  BY <1>1, <1>2, <1>3

LEMMA FinishAnswersKept ==
  ASSUME IInv, epoch' \in Nat, epoch <= epoch',
         \A c \in Client : \A r \in Answers(c, "finish")' :
           /\ r \in Answers(c, "finish") /\ call'[c] = call[c]
           /\ epoch' = epoch => active_sessions'[r.id] = active_sessions[r.id]
  PROVE  FinishAnswersInv'
<1> SUFFICES ASSUME NEW c \in Client, NEW r \in Answers(c, "finish")'
             PROVE  /\ r.id = call'[c].id
                    /\ r.epoch \in 1..epoch'
                    /\ r.epoch = epoch' =>
                         active_sessions'[r.id] = [user |-> UserOf[c], recv_seq |-> 1]
  BY DEF FinishAnswersInv
<1>1. /\ r.id = call[c].id
      /\ r.epoch \in 1..epoch
      /\ r.epoch = epoch => active_sessions[r.id] = [user |-> UserOf[c], recv_seq |-> 1]
  BY DEF IInv, RepliesInv, FinishAnswersInv
<1>2. r.epoch \in 1..epoch' /\ (r.epoch = epoch' => epoch' = epoch)
  BY <1>1, Types
<1> QED  BY <1>1, <1>2

LEMMA IdentitiesKept ==
  ASSUME IInv, UNCHANGED <<epoch, registered_users>>,
         \A c \in Client : /\ Answers(c, "register")' \subseteq Answers(c, "register")
                           /\ disk'[c] \in Certificates(c) \cup {None}
                           /\ identity'[c] \in Certificates(c) \cup {identity[c], None}
  PROVE  IdentitiesInv'
<1>1. \A c \in Client : Certificates(c)' \subseteq Certificates(c)
  BY DEF Certificates
<1>2. Certificate(epoch)' = Certificate(epoch)
  BY DEF Certificate
<1>3. \A c \in Client : identity'[c] # None => identity'[c].user = UserOf[c]
  BY DEF IInv, IdentitiesInv
<1> QED  BY <1>1, <1>2, <1>3 DEF IInv, IdentitiesInv

LEMMA ConnectionsKept ==
  ASSUME IInv, UNCHANGED <<calls, requests>>,
         \A c \in Client : session'[c] \in {session[c], None}
  PROVE  ConnectionsInv'
BY DEF IInv, ConnectionsInv, Finishes

LEMMA ConnectedKept ==
  ASSUME IInv, UNCHANGED epoch,
         \A c \in Client : /\ session'[c] \in {session[c], None}
                           /\ session[c] # None /\ session[c].epoch = epoch =>
                                active_sessions'[session[c].id] =
                                  active_sessions[session[c].id]
  PROVE  ConnectedMeansActive'
BY DEF IInv, ConnectedMeansActive

LEMMA StutterIInv ==
  ASSUME IInv, UNCHANGED vars
  PROVE  IInv'
BY DEF IInv, Shapes, TablesInv, RequestsInv, RepliesInv, WaitingInv, CaAnswersInv,
       HelloAnswersInv, FinishAnswersInv, IdentitiesInv, ConnectionsInv,
       ConnectedMeansActive, Finishes, Answers, Certificates, Certificate, vars,
       serverVars, clientVars, httpVars
-----------------------------------------------------------------------------
(* The server's steps.                                                     *)

LEMMA NoneNew ==
  ASSUME NoNewAnswers, NEW c \in Client
  PROVE  /\ Answers(c, "register")' \subseteq Answers(c, "register")
         /\ Answers(c, "ca-public-key")' \subseteq Answers(c, "ca-public-key")
         /\ Answers(c, "hello")' \subseteq Answers(c, "hello")
         /\ Answers(c, "finish")' \subseteq Answers(c, "finish")
BY DEF NoNewAnswers, Kind

(* A reply that tells nothing, or answers a message or a poll.              *)
LEMMA PlainReply ==
  ASSUME IInv, NEW q \in requests, NEW F, Reply(q, F), q.type \notin Kind \/ F = [ok |-> FALSE]
  PROVE  NoNewAnswers /\ WaitingInv' /\ UNCHANGED <<calls, call, requests>>
<1>1. CASE q.type \notin Kind
  BY <1>1, ReplyAdds DEF NoNewAnswers, WaitingInv
<1>2. CASE F = [ok |-> FALSE]
  <2>1. ~Merge([to |-> q.from], F).ok
    BY <1>2 DEF Merge
  <2> QED  BY <2>1, ReplyAdds DEF NoNewAnswers, WaitingInv
<1> QED  BY <1>1, <1>2

(* Whatever is refused leaves the tables as they are.                      *)
LEMMA RefusedIInv ==
  ASSUME IInv, NEW q \in requests, Error(q), UNCHANGED serverVars, UNCHANGED clientVars
  PROVE  IInv'
<1>1. NoNewAnswers /\ WaitingInv' /\ UNCHANGED <<calls, call, requests>>
  BY PlainReply DEF Error
<1>2. Shapes'
  BY <1>1 DEF IInv, Shapes, Certificate, serverVars, clientVars
<1>3. TablesInv' /\ RequestsInv'
  BY <1>1, Types, TablesKept, RequestsKept DEF serverVars
<1>4. RepliesInv'
  BY <1>1, Types, NoneNew, CaAnswersKept, HelloAnswersKept, FinishAnswersKept
     DEF serverVars, RepliesInv
<1>5. IdentitiesInv'
  BY <1>1, NoneNew, IdentitiesKept DEF serverVars, clientVars, Certificates
<1>6. ConnectionsInv' /\ ConnectedMeansActive'
  BY <1>1, ConnectionsKept, ConnectedKept DEF serverVars, clientVars
<1> QED  BY <1>2, <1>3, <1>4, <1>5, <1>6 DEF IInv

LEMMA GetCaPublicKeyIInv ==
  ASSUME IInv, NEW q \in requests, GetCaPublicKey(q), UNCHANGED clientVars
  PROVE  IInv'
<1> DEFINE F == [ok |-> TRUE, ca |-> epoch]
           x == Merge([to |-> q.from], F)
<1>1. Reply(q, F) /\ UNCHANGED serverVars /\ q.type = "ca-public-key"
  BY DEF GetCaPublicKey
<1>2. x.ca = epoch
  BY DEF Merge
<1>3. /\ WaitingInv' /\ UNCHANGED <<calls, call, requests>>
      /\ \A c \in Client : /\ Answers(c, "register")' \subseteq Answers(c, "register")
                           /\ Answers(c, "hello")' \subseteq Answers(c, "hello")
                           /\ Answers(c, "finish")' \subseteq Answers(c, "finish")
                           /\ Answers(c, "ca-public-key")' \subseteq
                                Answers(c, "ca-public-key") \cup {x}
  <2> HIDE DEF F
  <2> QED  BY <1>1, ReplyAdds DEF WaitingInv, Kind
<1>4. Shapes'
  BY <1>1, <1>3 DEF IInv, Shapes, Certificate, serverVars, clientVars
<1>5. TablesInv' /\ RequestsInv'
  BY <1>1, <1>3, Types, TablesKept, RequestsKept DEF serverVars
<1>6. CaAnswersInv'
  <2> SUFFICES ASSUME NEW c \in Client, NEW r \in Answers(c, "ca-public-key")'
               PROVE  r.ca \in 1..epoch'
    BY DEF CaAnswersInv
  <2>1. CASE r \in Answers(c, "ca-public-key")
    BY <1>1, <2>1 DEF IInv, RepliesInv, CaAnswersInv, serverVars
  <2>2. CASE r = x
    BY <1>1, <1>2, <2>2 DEF IInv, Shapes, serverVars
  <2> QED  BY <1>3, <2>1, <2>2
<1>7. RepliesInv'
  BY <1>1, <1>3, <1>6, Types, HelloAnswersKept, FinishAnswersKept DEF serverVars, RepliesInv
<1>8. IdentitiesInv'
  BY <1>1, <1>3, IdentitiesKept DEF serverVars, clientVars, Certificates
<1>9. ConnectionsInv' /\ ConnectedMeansActive'
  BY <1>1, <1>3, ConnectionsKept, ConnectedKept DEF serverVars, clientVars
<1> QED  BY <1>4, <1>5, <1>7, <1>8, <1>9 DEF IInv

(* The user had no certificate of this server process, so nobody has one:  *)
(* the new one is the registered one and the only one.                     *)
LEMMA RegisterIInv ==
  ASSUME IInv, NEW q \in requests, Register(q), UNCHANGED clientVars
  PROVE  IInv'
<1> DEFINE k == [user |-> q.user, key |-> q.key, ca |-> epoch]
           F == [ok |-> TRUE, cert |-> k]
           x == Merge([to |-> q.from], F)
<1>1. /\ Reply(q, F) /\ q.type = "register" /\ registered_users[q.user] = None
      /\ registered_users' = [registered_users EXCEPT ![q.user] = q.key]
      /\ message_queues' = [message_queues EXCEPT ![q.user] = <<>>]
      /\ UNCHANGED <<epoch, pending_handshakes, active_sessions, hellos, accepted>>
  BY DEF Register
<1>2. /\ q.from \in Client /\ q.user \in User /\ q.key \in Client \X Nat
      /\ q.user = UserOf[q.from] /\ q.key[1] = q.from
  BY <1>1, Types, RequestFields DEF IInv, RequestsInv
<1>3. x.cert = k
  BY DEF Merge
<1>4. /\ WaitingInv' /\ UNCHANGED <<calls, call, requests>>
      /\ \A c \in Client : /\ Answers(c, "ca-public-key")' \subseteq Answers(c, "ca-public-key")
                           /\ Answers(c, "hello")' \subseteq Answers(c, "hello")
                           /\ Answers(c, "finish")' \subseteq Answers(c, "finish")
                           /\ \A r \in Answers(c, "register")' :
                                r \in Answers(c, "register") \/ (c = q.from /\ r = x)
  <2> HIDE DEF F
  <2> QED  BY <1>1, ReplyAdds DEF WaitingInv, Kind
<1>5. Shapes'
  <2>1. registered_users' \in [User -> (Client \X Nat) \cup {None}]
    BY <1>1, <1>2 DEF IInv, Shapes
  <2>2. message_queues' \in [User -> Seq(EnvelopeType) \cup {None}]
    BY <1>1, <1>2 DEF IInv, Shapes
  <2> QED  BY <1>1, <1>4, <2>1, <2>2 DEF IInv, Shapes, Certificate, clientVars
<1>6. TablesInv' /\ RequestsInv'
  <2>1. \A u \in User : message_queues'[u] # None => ToSet(message_queues'[u]) \subseteq accepted
    <3>1. \A u \in User : message_queues'[u] = message_queues[u] \/ message_queues'[u] = <<>>
      BY <1>1 DEF IInv, Shapes
    <3>2. ToSet(<<>>) = {}
      BY DEF ToSet
    <3> QED  BY <3>1, <3>2 DEF IInv, TablesInv
  <2>2. TablesInv'
    BY <1>1, <2>1 DEF IInv, TablesInv
  <2>3. RequestsInv'
    BY <1>1, <1>4, Types, RequestsKept
  <2> QED  BY <2>2, <2>3
<1>7. RepliesInv'
  BY <1>1, <1>4, Types, CaAnswersKept, HelloAnswersKept, FinishAnswersKept DEF RepliesInv
<1>8. IdentitiesInv'
  <2>1. \A c \in Client : \A y \in Certificates(c)' :
          y \in Certificates(c) \/ (c = q.from /\ y = k)
    BY <1>3, <1>4 DEF Certificates, clientVars
  <2>2. \A c \in Client : \A y \in Certificates(c) :
          /\ y \in Certificate(epoch) /\ y.user = UserOf[c] /\ y.key[1] = c
          /\ y.ca = epoch => registered_users[y.user] = y.key
    BY DEF IInv, IdentitiesInv
  <2>3. \A c \in Client : \A y \in Certificates(c) :
          /\ y.user \in User /\ y.key # None
          /\ y.user = q.user => y.ca # epoch
    BY <1>1, <2>2, NoneAssumption DEF Certificate
  <2>4. k \in Certificate(epoch) /\ k.user = UserOf[q.from] /\ k.key[1] = q.from
        /\ k.ca = epoch /\ registered_users'[k.user] = k.key /\ k.user = q.user
    BY <1>1, <1>2, Types DEF Certificate, IInv, Shapes
  <2>5. Certificate(epoch)' = Certificate(epoch)
    BY <1>1 DEF Certificate
  <2>6. \A y \in Certificate(epoch) : y.user # q.user =>
          registered_users'[y.user] = registered_users[y.user]
    BY <1>1 DEF Certificate, IInv, Shapes
  <2> HIDE DEF k
  <2>7. ASSUME NEW c \in Client, NEW y \in Certificates(c)'
        PROVE  /\ y \in Certificate(epoch)' /\ y.user = UserOf[c] /\ y.key[1] = c
               /\ y.ca = epoch' => registered_users'[y.user] = y.key
    <3>1. CASE y \in Certificates(c)
      <4>1. y \in Certificate(epoch) /\ y.user = UserOf[c] /\ y.key[1] = c
        BY <2>2, <3>1
      <4>2. y.ca = epoch => registered_users[y.user] = y.key /\ y.user # q.user
        BY <2>2, <2>3, <3>1
      <4> QED  BY <1>1, <2>5, <2>6, <4>1, <4>2
    <3>2. CASE c = q.from /\ y = k
      BY <1>1, <2>4, <2>5, <3>2
    <3> QED  BY <2>1, <2>7, <3>1, <3>2
  <2>8. ASSUME NEW c \in Client, NEW y \in Certificates(c)',
               NEW d \in Client \ {c}, NEW z \in Certificates(d)', y.user = z.user
        PROVE  y.ca # z.ca
    <3>1. CASE y \in Certificates(c) /\ z \in Certificates(d)
      BY <2>8, <3>1 DEF IInv, IdentitiesInv
    <3>2. CASE y \in Certificates(c) /\ z = k
      BY <2>3, <2>4, <2>8, <3>2
    <3>3. CASE y = k /\ z \in Certificates(d)
      BY <2>3, <2>4, <2>8, <3>3
    <3> QED  BY <2>1, <3>1, <3>2, <3>3
  <2>9. \A c \in Client : identity'[c] # None => identity'[c].user = UserOf[c]
    BY DEF IInv, IdentitiesInv, clientVars
  <2> QED  BY <2>7, <2>8, <2>9 DEF IdentitiesInv
<1>9. ConnectionsInv' /\ ConnectedMeansActive'
  BY <1>1, <1>4, ConnectionsKept, ConnectedKept DEF clientVars
<1> QED  BY <1>5, <1>6, <1>7, <1>8, <1>9 DEF IInv

(* The id is new: no request, answer, session or envelope has it.          *)
LEMMA HandshakeHelloIInv ==
  ASSUME IInv, NEW q \in requests, HandshakeHello(q), UNCHANGED clientVars
  PROVE  IInv'
<1> DEFINE h == hellos + 1
           p == [id |-> h, user |-> q.cert.user]
           F == [ok |-> TRUE, id |-> h, ca |-> epoch]
           x == Merge([to |-> q.from], F)
<1>1. /\ Reply(q, F) /\ q.type = "hello" /\ hellos < MaxHello /\ hellos' = h
      /\ pending_handshakes' = pending_handshakes \cup {p}
      /\ UNCHANGED <<epoch, registered_users, message_queues, active_sessions, accepted>>
  BY DEF HandshakeHello
<1>2. q.from \in Client /\ p.id = h /\ p.user = UserOf[q.from] /\ p.user \in User
  BY <1>1, Types DEF IInv, RequestsInv
<1>3. h \in HandshakeId /\ h \in Nat /\ hellos \in Nat /\ h \in 0..MaxHello /\ h > hellos
      /\ h \in 1..h /\ \A i \in 1..hellos : i \in 1..h
  BY <1>1, Types, MessengerAssumption DEF HandshakeId
<1>4. x.id = h
  BY DEF Merge
<1>5. /\ WaitingInv' /\ UNCHANGED <<calls, call, requests>>
      /\ \A c \in Client : /\ Answers(c, "register")' \subseteq Answers(c, "register")
                           /\ Answers(c, "ca-public-key")' \subseteq Answers(c, "ca-public-key")
                           /\ Answers(c, "finish")' \subseteq Answers(c, "finish")
                           /\ \A r \in Answers(c, "hello")' :
                                r \in Answers(c, "hello") \/ (c = q.from /\ r = x)
  <2> HIDE DEF F
  <2> QED  BY <1>1, ReplyAdds DEF WaitingInv, Kind
<1>6. Shapes'
  <2>1. pending_handshakes' \subseteq [id : 1..hellos', user : User]
    <3>1. pending_handshakes \subseteq [id : 1..hellos, user : User]
      BY DEF IInv, Shapes
    <3>2. p \in [id : 1..h, user : User]
      BY <1>2, <1>3
    <3>3. [id : 1..hellos, user : User] \subseteq [id : 1..h, user : User]
      BY <1>3
    <3> QED  BY <1>1, <3>1, <3>2, <3>3
  <2>2. session' \in [Client -> [id : 1..hellos', send_seq : Nat, epoch : 1..epoch] \cup {None}]
    <3>1. [id : 1..hellos, send_seq : Nat, epoch : 1..epoch]
            \subseteq [id : 1..h, send_seq : Nat, epoch : 1..epoch]
      BY <1>3
    <3> QED  BY <1>1, <3>1 DEF IInv, Shapes, clientVars
  <2> QED  BY <1>1, <1>3, <1>5, <2>1, <2>2 DEF IInv, Shapes, Certificate, clientVars
<1>7. TablesInv'
  <2>1. active_sessions[h] = None
    BY <1>3 DEF IInv, TablesInv
  <2>2. \A a \in accepted : a.session # h /\ a.session <= h
    <3> SUFFICES ASSUME NEW a \in accepted
                 PROVE  a.session # h /\ a.session <= h
      OBVIOUS
    <3>1. a.session <= hellos /\ a.session \in Nat
      BY Types DEF IInv, TablesInv, Shapes, HandshakeId
    <3> QED  BY <1>3, <3>1
  <2>3. \A g \in pending_handshakes : g.id # h
    BY <1>3 DEF IInv, Shapes
  <2>4. \A g \in HandshakeId : active_sessions[g] # None => g <= h
    <3> SUFFICES ASSUME NEW g \in HandshakeId, active_sessions[g] # None
                 PROVE  g <= h
      OBVIOUS
    <3>1. g <= hellos /\ g \in Nat
      BY DEF IInv, TablesInv, HandshakeId
    <3> QED  BY <1>3, <3>1
  <2>5. \A g \in pending_handshakes' :
          /\ active_sessions[g.id] = None
          /\ \A a \in accepted : a.session # g.id
          /\ \A f \in pending_handshakes' : f.id = g.id => f = g
    <3> HIDE DEF p, h
    <3> QED  BY <1>1, <1>2, <2>1, <2>2, <2>3 DEF IInv, TablesInv
  <2> HIDE DEF p, h
  <2> QED  BY <1>1, <2>2, <2>4, <2>5 DEF IInv, TablesInv
<1>8. RequestsInv'
  BY <1>1, <1>2, <1>3, <1>5, RequestsKept
<1>9. HelloAnswersInv'
  <2>1. \A i \in HandshakeId : i = h => Finishes(i)' = {}
    <3>1. ~(h <= hellos)
      BY <1>3
    <3>2. Finishes(h) = {}
      BY <1>3, <3>1 DEF IInv, RequestsInv
    <3> QED  BY <1>5, <3>2 DEF Finishes
  <2>2. \A c \in Client : \A r \in Answers(c, "hello") :
          /\ r.id \in 1..hellos /\ r.id # h /\ Finishes(r.id) = {}
          /\ \A g \in pending_handshakes : g.id = r.id => g.user = UserOf[c]
          /\ \A d \in Client : \A y \in Answers(d, "hello") : y.id = r.id => d = c
    BY <1>3 DEF IInv, RepliesInv, HelloAnswersInv
  <2>3. \A i \in 1..hellos : Finishes(i)' = Finishes(i)
    BY <1>5 DEF Finishes
  <2>4. \A g \in pending_handshakes : g.id # h
    BY <1>3 DEF IInv, Shapes
  <2> HIDE DEF p, h, x
  <2>5. ASSUME NEW c \in Client, NEW r \in Answers(c, "hello")'
        PROVE  /\ r.id \in 1..hellos'
               /\ Finishes(r.id)' = {}
               /\ \A g \in pending_handshakes' : g.id = r.id => g.user = UserOf[c]
    <3>1. CASE r \in Answers(c, "hello")
      BY <1>1, <1>2, <1>3, <2>2, <2>3, <3>1
    <3>2. CASE c = q.from /\ r = x
      <4>1. r.id = h
        BY <1>4, <3>2
      <4>2. \A g \in pending_handshakes' : g.id = h => g.user = UserOf[c]
        BY <1>1, <1>2, <2>4, <3>2
      <4> QED  BY <1>1, <1>3, <2>1, <4>1, <4>2
    <3> QED  BY <1>5, <2>5, <3>1, <3>2
  <2>6. ASSUME NEW c \in Client, NEW r \in Answers(c, "hello")',
               NEW d \in Client, NEW y \in Answers(d, "hello")', y.id = r.id
        PROVE  d = c
    BY <1>4, <1>5, <2>2, <2>6
  <2> QED  BY <2>5, <2>6 DEF HelloAnswersInv
<1>10. RepliesInv'
  BY <1>1, <1>5, <1>9, Types, CaAnswersKept, FinishAnswersKept DEF RepliesInv
<1>11. IdentitiesInv'
  BY <1>1, <1>5, IdentitiesKept DEF clientVars, Certificates
<1>12. ConnectionsInv' /\ ConnectedMeansActive'
  BY <1>1, <1>5, ConnectionsKept, ConnectedKept DEF clientVars
<1> QED  BY <1>6, <1>7, <1>8, <1>10, <1>11, <1>12 DEF IInv

(* An answer is to the request sent last.                                  *)
LEMMA Awaited ==
  ASSUME IInv, NEW c \in Client, NEW t, NEW r \in Answers(c, t)
  PROVE  /\ call[c] \in requests /\ call[c].from = c /\ call[c].n = calls[c]
         /\ call[c].type = t
<1>1. r \in replies /\ r.to = c /\ call[c].type = t
  BY DEF Answers
<1>2. call[c] # None
  BY <1>1 DEF IInv, RepliesInv, WaitingInv
<1> QED  BY <1>1, <1>2 DEF IInv, RequestsInv

(* The session that was just stored is nobody else's, and nothing was      *)
(* accepted in it.                                                         *)
LEMMA HandshakeFinishIInv ==
  ASSUME IInv, NEW q \in requests, HandshakeFinish(q), UNCHANGED clientVars
  PROVE  IInv'
<1> DEFINE F == [ok |-> TRUE, id |-> q.id, epoch |-> epoch]
           x == Merge([to |-> q.from], F)
<1>1. PICK p \in pending_handshakes :
        /\ p.id = q.id
        /\ pending_handshakes' = pending_handshakes \ {p}
        /\ active_sessions' = [active_sessions EXCEPT ![p.id] =
              [user |-> p.user, recv_seq |-> 1]]
  BY DEF HandshakeFinish
<1>2. /\ Reply(q, F) /\ q.type = "finish"
      /\ UNCHANGED <<epoch, registered_users, message_queues, hellos, accepted>>
  BY DEF HandshakeFinish
<1>3. /\ q.id \in HandshakeId /\ q.id \in 1..hellos /\ q.from \in Client
      /\ p.user \in User /\ p.user = UserOf[q.from] /\ q \in Finishes(q.id)
  <2>1. q.id \in HandshakeId /\ q \in Finishes(q.id) /\ q.from \in Client
    BY <1>2, Types, RequestFields DEF Finishes
  <2>2. p.id \in 1..hellos /\ p.user \in User
    BY DEF IInv, Shapes
  <2> QED  BY <1>1, <2>1, <2>2 DEF IInv, RequestsInv
<1>4. /\ active_sessions[q.id] = None
      /\ active_sessions'[q.id] = [user |-> p.user, recv_seq |-> 1]
      /\ \A h \in HandshakeId : h # q.id => active_sessions'[h] = active_sessions[h]
  BY <1>1, <1>3 DEF IInv, Shapes, TablesInv
<1>5. x.id = q.id /\ x.epoch = epoch
  BY DEF Merge
<1>6. /\ WaitingInv' /\ UNCHANGED <<calls, call, requests>>
      /\ \A c \in Client : /\ Answers(c, "register")' \subseteq Answers(c, "register")
                           /\ Answers(c, "ca-public-key")' \subseteq Answers(c, "ca-public-key")
                           /\ Answers(c, "hello")' \subseteq Answers(c, "hello")
                           /\ \A r \in Answers(c, "finish")' :
                                \/ r \in Answers(c, "finish")
                                \/ c = q.from /\ call[c] = q /\ r = x
  <2> HIDE DEF F
  <2> QED  BY <1>2, ReplyAdds DEF WaitingInv, Kind
<1>7. Shapes'
  <2>1. [user |-> p.user, recv_seq |-> 1] \in SessionType
    BY <1>3 DEF SessionType
  <2>2. active_sessions' \in [HandshakeId -> SessionType \cup {None}]
    BY <1>1, <2>1 DEF IInv, Shapes
  <2> QED  BY <1>1, <1>2, <1>6, <2>2 DEF IInv, Shapes, Certificate, clientVars
<1>8. TablesInv'
  <2>1. \A g \in pending_handshakes' : g \in pending_handshakes /\ g.id # q.id
                                       /\ g.id \in HandshakeId
    BY <1>1, Types DEF IInv, TablesInv, Shapes
  <2>2. \A a \in accepted : a.session # q.id
    BY <1>1 DEF IInv, TablesInv
  <2>3. \A g \in pending_handshakes' :
          /\ active_sessions'[g.id] = None
          /\ \A a \in accepted : a.session # g.id
          /\ \A f \in pending_handshakes' : f.id = g.id => f = g
    BY <1>4, <2>1 DEF IInv, TablesInv
  <2>4. q.id <= hellos
    BY <1>3, Types
  <2>5. \A h \in HandshakeId : active_sessions'[h] # None =>
          /\ h <= hellos
          /\ \A a \in accepted : a.session = h => a.seq < active_sessions'[h].recv_seq
    BY <1>4, <2>2, <2>4 DEF IInv, TablesInv
  <2> QED  BY <1>2, <2>3, <2>5 DEF IInv, TablesInv
<1>9. RequestsInv'
  BY <1>1, <1>2, <1>6, Types, RequestsKept
<1>10. FinishAnswersInv'
  <2> SUFFICES ASSUME NEW c \in Client, NEW r \in Answers(c, "finish")'
               PROVE  /\ r.id = call'[c].id
                      /\ r.epoch \in 1..epoch'
                      /\ r.epoch = epoch' =>
                           active_sessions'[r.id] = [user |-> UserOf[c], recv_seq |-> 1]
    BY DEF FinishAnswersInv
  <2>1. CASE r \in Answers(c, "finish")
    <3>1. /\ r.id = call[c].id /\ r.epoch \in 1..epoch
          /\ r.epoch = epoch => active_sessions[r.id] = [user |-> UserOf[c], recv_seq |-> 1]
      BY <2>1 DEF IInv, RepliesInv, FinishAnswersInv
    <3>2. r.id \in HandshakeId
      <4>1. call[c] \in requests /\ call[c].type = "finish"
        BY <2>1, Awaited
      <4> QED  BY <3>1, <4>1, Types, RequestFields
    <3>3. [user |-> UserOf[c], recv_seq |-> 1] # None
      BY Types, NoneAssumption DEF SessionType
    <3> QED  BY <1>2, <1>4, <1>6, <3>1, <3>2, <3>3
  <2>2. CASE c = q.from /\ call[c] = q /\ r = x
    <3>1. epoch \in 1..epoch
      BY DEF IInv, Shapes
    <3> QED  BY <1>2, <1>3, <1>4, <1>5, <1>6, <2>2, <3>1
  <2> QED  BY <1>6, <2>1, <2>2
<1>11. RepliesInv'
  BY <1>1, <1>2, <1>6, <1>10, Types, CaAnswersKept, HelloAnswersKept DEF RepliesInv
<1>12. IdentitiesInv'
  BY <1>2, <1>6, IdentitiesKept DEF clientVars, Certificates
<1>13. ConnectionsInv' /\ ConnectedMeansActive'
  <2>1. ASSUME NEW c \in Client, session[c] # None, session[c].epoch = epoch
        PROVE  active_sessions'[session[c].id] = active_sessions[session[c].id]
    <3>1. active_sessions[session[c].id] # None
      BY <2>1 DEF IInv, ConnectedMeansActive
    <3>2. session[c].id \in HandshakeId
      BY <2>1, Types DEF IInv, Shapes
    <3> QED  BY <1>4, <3>1, <3>2
  <2> QED  BY <1>2, <1>6, <2>1, ConnectionsKept, ConnectedKept DEF clientVars
<1> QED  BY <1>7, <1>8, <1>9, <1>11, <1>12, <1>13 DEF IInv

(* A damaged finish takes its handshake out of the table, and that is all.  *)
LEMMA HandshakeFinishRefusedIInv ==
  ASSUME IInv, NEW q \in requests, HandshakeFinishRefused(q), UNCHANGED clientVars
  PROVE  IInv'
<1>1. /\ pending_handshakes' \subseteq pending_handshakes /\ Error(q)
      /\ UNCHANGED <<epoch, registered_users, message_queues, active_sessions, hellos, accepted>>
  BY DEF HandshakeFinishRefused
<1>2. NoNewAnswers /\ WaitingInv' /\ UNCHANGED <<calls, call, requests>>
  BY <1>1, PlainReply DEF Error
<1>3. Shapes'
  BY <1>1, <1>2 DEF IInv, Shapes, Certificate, clientVars
<1>4. TablesInv' /\ RequestsInv'
  <2>1. TablesInv'
    BY <1>1 DEF IInv, TablesInv
  <2> QED  BY <1>1, <1>2, <2>1, Types, RequestsKept
<1>5. RepliesInv'
  BY <1>1, <1>2, Types, NoneNew, CaAnswersKept, HelloAnswersKept, FinishAnswersKept
     DEF RepliesInv
<1>6. IdentitiesInv'
  BY <1>1, <1>2, NoneNew, IdentitiesKept DEF clientVars, Certificates
<1>7. ConnectionsInv' /\ ConnectedMeansActive'
  BY <1>1, <1>2, ConnectionsKept, ConnectedKept DEF clientVars
<1> QED  BY <1>3, <1>4, <1>5, <1>6, <1>7 DEF IInv

(* Who uses or closes a session has taken the confirmation before, so a    *)
(* client that still waits for it sees the session untouched.              *)
LEMMA Untouched ==
  ASSUME IInv, NEW q \in requests, q.type \in {"message", "delete"},
         NEW c \in Client, NEW r \in Answers(c, "finish")
  PROVE  r.id # q.session
<1> SUFFICES ASSUME r.id = q.session
             PROVE  FALSE
  OBVIOUS
<1>1. q.session \in HandshakeId
  BY Types, RequestFields
<1>2. PICK f \in Finishes(q.session) : f.from = q.from /\ f.n < q.n
  BY DEF IInv, RequestsInv
<1>3. /\ call[c] \in requests /\ call[c].from = c /\ call[c].n = calls[c]
      /\ call[c].type = "finish" /\ call[c].id = q.session
  BY Awaited DEF IInv, RepliesInv, FinishAnswersInv
<1>4. call[c] = f
  BY <1>1, <1>2, <1>3 DEF IInv, RequestsInv, Finishes
<1>5. q.n <= calls[q.from] /\ q.n \in Nat /\ calls[c] \in Nat
  BY Types DEF IInv, RequestsInv
<1> QED  BY <1>2, <1>3, <1>4, <1>5

LEMMA CloseSessionIInv ==
  ASSUME IInv, NEW q \in requests, CloseSession(q), UNCHANGED clientVars
  PROVE  IInv'
<1>1. /\ q.type = "delete"
      /\ active_sessions' = [active_sessions EXCEPT ![q.session] = None]
      /\ UNCHANGED <<epoch, registered_users, message_queues, pending_handshakes, hellos,
                     accepted, calls, call, requests, replies>>
  BY DEF CloseSession, httpVars
<1>2. \A h \in HandshakeId : active_sessions'[h] \in {active_sessions[h], None}
  BY <1>1 DEF IInv, Shapes
<1>3. \A h \in HandshakeId : h # q.session => active_sessions'[h] = active_sessions[h]
  BY <1>1 DEF IInv, Shapes
<1>4. Shapes'
  <2>1. active_sessions' \in [HandshakeId -> SessionType \cup {None}]
    BY <1>1 DEF IInv, Shapes
  <2> QED  BY <1>1, <2>1 DEF IInv, Shapes, Certificate, clientVars
<1>5. TablesInv'
  <2>1. \A g \in pending_handshakes : g.id \in HandshakeId
    BY Types DEF IInv, Shapes
  <2> QED  BY <1>1, <1>2, <2>1 DEF IInv, TablesInv
<1>6. RequestsInv'
  BY <1>1, Types, RequestsKept
<1>7. \A c \in Client, t \in Kind : Answers(c, t)' = Answers(c, t)
  BY <1>1 DEF Answers
<1>8. NoNewAnswers
  BY <1>7 DEF NoNewAnswers
<1>9. FinishAnswersInv'
  <2>1. \A c \in Client : \A r \in Answers(c, "finish") :
           r.id # q.session /\ r.id \in HandshakeId
    <3> SUFFICES ASSUME NEW c \in Client, NEW r \in Answers(c, "finish")
                 PROVE  r.id # q.session /\ r.id \in HandshakeId
      OBVIOUS
    <3>1. /\ call[c] \in requests /\ call[c].type = "finish" /\ call[c].id = r.id
      BY Awaited DEF IInv, RepliesInv, FinishAnswersInv
    <3> QED  BY <1>1, <3>1, Untouched, Types, RequestFields
  <2> QED  BY <1>1, <1>3, <1>8, <2>1, Types, NoneNew, FinishAnswersKept
<1>10. RepliesInv'
  <2>1. WaitingInv'
    BY <1>1 DEF IInv, RepliesInv, WaitingInv
  <2> QED  BY <1>1, <1>8, <1>9, <2>1, Types, NoneNew, CaAnswersKept, HelloAnswersKept
           DEF RepliesInv
<1>11. IdentitiesInv'
  BY <1>1, <1>8, NoneNew, IdentitiesKept DEF clientVars, Certificates
<1>12. ConnectionsInv' /\ ConnectedMeansActive'
  <2>1. ASSUME NEW c \in Client, session[c] # None, session[c].epoch = epoch
        PROVE  active_sessions'[session[c].id] = active_sessions[session[c].id]
    <3>1. session[c].id # q.session
      BY <1>1, <2>1 DEF IInv, ConnectionsInv
    <3>2. session[c].id \in HandshakeId
      BY <2>1, Types DEF IInv, Shapes
    <3> QED  BY <1>3, <3>1, <3>2
  <2> QED  BY <1>1, <2>1, ConnectionsKept, ConnectedKept DEF clientVars
<1> QED  BY <1>4, <1>5, <1>6, <1>10, <1>11, <1>12 DEF IInv

(* The envelope is younger than all that were accepted in its session, and *)
(* the client in that session has counted it.                              *)
LEMMA SendMessageIInv ==
  ASSUME IInv, NEW q \in requests, SendMessage(q), UNCHANGED clientVars
  PROVE  IInv'
<1> DEFINE h == q.session
           e == q.envelope
<1>1. /\ q.type = "message" /\ Decryptable(q)
      /\ active_sessions' = [active_sessions EXCEPT ![h].recv_seq = e.seq + 1]
      /\ message_queues' = [message_queues EXCEPT ![e.to] = Append(QueueOf(e.to), e)]
      /\ accepted' = accepted \cup {e}
      /\ Reply(q, [ok |-> TRUE])
      /\ UNCHANGED <<epoch, registered_users, pending_handshakes, hellos>>
  BY DEF SendMessage
<1>2. h \in HandshakeId /\ e \in EnvelopeType /\ e.to \in User /\ e.seq \in Nat /\ e.session = h
  BY <1>1, Types, RequestFields DEF IInv, RequestsInv
<1>3. /\ active_sessions[h] # None /\ active_sessions[h] \in SessionType
      /\ e.sender = active_sessions[h].user
      /\ e.seq >= active_sessions[h].recv_seq
  BY <1>1, <1>2 DEF Decryptable, IInv, Shapes
<1>4. /\ active_sessions'[h] \in SessionType /\ active_sessions'[h] # None
      /\ active_sessions'[h].user = active_sessions[h].user
      /\ active_sessions'[h].recv_seq = e.seq + 1
      /\ \A g \in HandshakeId : g # h => active_sessions'[g] = active_sessions[g]
      /\ active_sessions' \in [HandshakeId -> SessionType \cup {None}]
  <2> DEFINE a == [active_sessions[h] EXCEPT !.recv_seq = e.seq + 1]
  <2>1. a \in SessionType /\ a.user = active_sessions[h].user /\ a.recv_seq = e.seq + 1
    BY <1>2, <1>3 DEF SessionType
  <2>2. active_sessions' = [active_sessions EXCEPT ![h] = a]
    BY <1>1
  <2> HIDE DEF a, h, e
  <2> QED  BY <1>2, <2>1, <2>2, NoneAssumption DEF IInv, Shapes
<1>5. NoNewAnswers /\ WaitingInv' /\ UNCHANGED <<calls, call, requests>>
  BY <1>1, PlainReply DEF Kind
<1>6. /\ QueueOf(e.to) \in Seq(EnvelopeType)
      /\ Append(QueueOf(e.to), e) \in Seq(EnvelopeType)
      /\ ToSet(Append(QueueOf(e.to), e)) \subseteq accepted'
  <2>1. QueueOf(e.to) \in Seq(EnvelopeType)
    BY <1>2 DEF QueueOf, IInv, Shapes
  <2>2. ToSet(QueueOf(e.to)) \subseteq accepted
    BY <1>2 DEF QueueOf, IInv, TablesInv, ToSet
  <2> HIDE DEF e
  <2>3. Append(QueueOf(e.to), e) \in Seq(EnvelopeType)
    BY <1>2, <2>1
  <2>4. ToSet(Append(QueueOf(e.to), e)) = ToSet(QueueOf(e.to)) \cup {e}
    BY <1>2, <2>1, AppendFacts
  <2> QED  BY <1>1, <2>1, <2>2, <2>3, <2>4
<1>7. Shapes'
  <2>1. message_queues' \in [User -> Seq(EnvelopeType) \cup {None}]
    BY <1>1, <1>2, <1>6 DEF IInv, Shapes
  <2>2. accepted' \subseteq EnvelopeType
    BY <1>1, <1>2 DEF IInv, Shapes
  <2> QED  BY <1>1, <1>4, <1>5, <2>1, <2>2 DEF IInv, Shapes, Certificate, clientVars
<1>8. TablesInv'
  <2>1. \A g \in pending_handshakes : g.id \in HandshakeId /\ g.id # h
    BY <1>3, Types DEF IInv, TablesInv, Shapes
  <2>2. \A g \in pending_handshakes :
          /\ active_sessions'[g.id] = None
          /\ \A a \in accepted' : a.session # g.id
          /\ \A f \in pending_handshakes : f.id = g.id => f = g
    BY <1>1, <1>2, <1>4, <2>1 DEF IInv, TablesInv
  <2>3. \A g \in HandshakeId : active_sessions'[g] # None => g <= hellos
    BY <1>3, <1>4 DEF IInv, TablesInv
  <2>4. ASSUME NEW g \in HandshakeId, active_sessions'[g] # None,
               NEW a \in accepted', a.session = g
        PROVE  a.seq < active_sessions'[g].recv_seq
    <3>1. CASE g # h
      BY <1>1, <1>2, <1>4, <2>4, <3>1 DEF IInv, TablesInv
    <3>2. CASE g = h /\ a = e
      BY <1>2, <1>4, <3>2
    <3>3. CASE g = h /\ a \in accepted
      <4>1. a.seq < active_sessions[h].recv_seq /\ a.seq \in Nat
        BY <1>2, <1>3, <2>4, <3>3, Types DEF IInv, TablesInv, Shapes
      <4>2. active_sessions[h].recv_seq \in Nat
        BY <1>3 DEF SessionType
      <4> QED  BY <1>2, <1>3, <1>4, <3>3, <4>1, <4>2
    <3> QED  BY <1>1, <2>4, <3>1, <3>2, <3>3
  <2>5. \A a \in accepted' : a.session <= hellos
    BY <1>1, <1>2, <1>3 DEF IInv, TablesInv
  <2>6. \A u \in User : message_queues'[u] # None => ToSet(message_queues'[u]) \subseteq accepted'
    <3>1. \A u \in User : u # e.to => message_queues'[u] = message_queues[u]
      BY <1>1 DEF IInv, Shapes
    <3>2. message_queues'[e.to] = Append(QueueOf(e.to), e)
      BY <1>1, <1>2 DEF IInv, Shapes
    <3>3. accepted \subseteq accepted'
      BY <1>1
    <3> HIDE DEF e
    <3> QED  BY <1>6, <3>1, <3>2, <3>3 DEF IInv, TablesInv
  <2> QED  BY <1>1, <2>2, <2>3, <2>4, <2>5, <2>6 DEF TablesInv
<1>9. RequestsInv'
  BY <1>1, <1>5, Types, RequestsKept
<1>10. FinishAnswersInv'
  <2>1. ASSUME NEW c \in Client, NEW r \in Answers(c, "finish")
        PROVE  r.id # h /\ r.id \in HandshakeId
    <3>1. call[c] \in requests /\ call[c].type = "finish" /\ call[c].id = r.id
      BY Awaited DEF IInv, RepliesInv, FinishAnswersInv
    <3> QED  BY <1>1, <3>1, Untouched, Types, RequestFields
  <2> QED  BY <1>1, <1>4, <1>5, <2>1, Types, NoneNew, FinishAnswersKept
<1>11. RepliesInv'
  BY <1>1, <1>5, <1>10, Types, NoneNew, CaAnswersKept, HelloAnswersKept DEF RepliesInv
<1>12. IdentitiesInv'
  BY <1>1, <1>5, NoneNew, IdentitiesKept DEF clientVars, Certificates
<1>13. ConnectionsInv'
  BY <1>5, ConnectionsKept DEF clientVars
<1>14. ConnectedMeansActive'
  <2> SUFFICES ASSUME NEW c \in Client, session[c] # None, session[c].epoch = epoch
               PROVE  /\ active_sessions'[session[c].id] # None
                      /\ active_sessions'[session[c].id].user = UserOf[c]
                      /\ active_sessions'[session[c].id].recv_seq <= session[c].send_seq
    BY <1>1 DEF ConnectedMeansActive, clientVars
  <2>1. /\ active_sessions[session[c].id] # None
        /\ active_sessions[session[c].id].user = UserOf[c]
        /\ active_sessions[session[c].id].recv_seq <= session[c].send_seq
    BY DEF IInv, ConnectedMeansActive
  <2>2. session[c].id \in HandshakeId /\ session[c].send_seq \in Nat
    BY Types DEF IInv, Shapes
  <2>3. CASE session[c].id # h
    BY <1>4, <2>1, <2>2, <2>3
  <2>4. CASE session[c].id = h
    <3>1. e.seq < session[c].send_seq
      BY <1>1, <2>4 DEF IInv, ConnectionsInv
    <3> QED  BY <1>2, <1>4, <2>1, <2>2, <2>4, <3>1
  <2> QED  BY <2>3, <2>4
<1> QED  BY <1>7, <1>8, <1>9, <1>11, <1>12, <1>13, <1>14 DEF IInv

LEMMA PollMessagesIInv ==
  ASSUME IInv, NEW q \in requests, PollMessages(q), UNCHANGED clientVars
  PROVE  IInv'
<1>1. /\ q.type = "poll" /\ Reply(q, [ok |-> TRUE, messages |-> message_queues[q.user]])
      /\ message_queues' = [message_queues EXCEPT ![q.user] = <<>>]
      /\ UNCHANGED <<epoch, registered_users, pending_handshakes, active_sessions, hellos,
                     accepted>>
  BY DEF PollMessages
<1>2. NoNewAnswers /\ WaitingInv' /\ UNCHANGED <<calls, call, requests>>
  BY <1>1, PlainReply DEF Kind
<1>3. message_queues' \in [User -> Seq(EnvelopeType) \cup {None}]
  <2>1. <<>> \in Seq(EnvelopeType)
    OBVIOUS
  <2> QED  BY <1>1, <2>1 DEF IInv, Shapes
<1>4. Shapes'
  BY <1>1, <1>2, <1>3 DEF IInv, Shapes, Certificate, clientVars
<1>5. TablesInv'
  <2>1. \A u \in User : message_queues'[u] = message_queues[u] \/ message_queues'[u] = <<>>
    BY <1>1 DEF IInv, Shapes
  <2>2. ToSet(<<>>) = {}
    BY DEF ToSet
  <2>3. \A u \in User : message_queues'[u] # None => ToSet(message_queues'[u]) \subseteq accepted
    BY <2>1, <2>2 DEF IInv, TablesInv
  <2> QED  BY <1>1, <2>3 DEF IInv, TablesInv
<1>6. RequestsInv'
  BY <1>1, <1>2, Types, RequestsKept
<1>7. RepliesInv'
  BY <1>1, <1>2, Types, NoneNew, CaAnswersKept, HelloAnswersKept, FinishAnswersKept
     DEF RepliesInv
<1>8. IdentitiesInv'
  BY <1>1, <1>2, NoneNew, IdentitiesKept DEF clientVars, Certificates
<1>9. ConnectionsInv' /\ ConnectedMeansActive'
  BY <1>1, <1>2, ConnectionsKept, ConnectedKept DEF clientVars
<1> QED  BY <1>4, <1>5, <1>6, <1>7, <1>8, <1>9 DEF IInv

(* A restart forgets everything; what the clients hold is of the past.      *)
LEMMA RestartIInv ==
  ASSUME IInv, Restart
  PROVE  IInv'
<1>1. /\ epoch < MaxEpoch /\ epoch' = epoch + 1 /\ epoch \in Nat
      /\ registered_users' = [u \in User |-> None]
      /\ message_queues' = [u \in User |-> None]
      /\ pending_handshakes' = {}
      /\ active_sessions' = [h \in HandshakeId |-> None]
      /\ UNCHANGED <<hellos, accepted, disk, identity, ca_pk, session, calls, call, requests,
                     replies>>
  BY Types DEF Restart, clientVars, httpVars
<1>2. 1..epoch \subseteq 1..epoch' /\ epoch' \in 1..MaxEpoch /\ epoch' \in Nat
      /\ epoch <= epoch' /\ epoch # epoch'
  BY <1>1, MessengerAssumption
<1>3. Certificate(epoch) \subseteq Certificate(epoch)'
  BY <1>2 DEF Certificate
<1>4. Shapes'
  <2>1. session' \in [Client -> [id : 1..hellos, send_seq : Nat, epoch : 1..epoch'] \cup {None}]
    <3>1. [id : 1..hellos, send_seq : Nat, epoch : 1..epoch]
            \subseteq [id : 1..hellos, send_seq : Nat, epoch : 1..epoch']
      BY <1>2
    <3> QED  BY <1>1, <3>1 DEF IInv, Shapes
  <2>2. ca_pk' \in [Client -> (1..epoch') \cup {None}]
    BY <1>1, <1>2 DEF IInv, Shapes
  <2>3. /\ disk' \in [Client -> Certificate(epoch)' \cup {None}]
        /\ identity' \in [Client -> Certificate(epoch)' \cup {None}]
    BY <1>1, <1>3 DEF IInv, Shapes
  <2> QED  BY <1>1, <1>2, <2>1, <2>2, <2>3 DEF IInv, Shapes
<1>5. TablesInv'
  BY <1>1 DEF IInv, TablesInv
<1>6. RequestsInv'
  BY <1>1, Types, RequestsKept
<1>7. \A c \in Client, t \in Kind : Answers(c, t)' = Answers(c, t)
  BY <1>1 DEF Answers
<1>8. RepliesInv'
  <2>1. NoNewAnswers
    BY <1>7 DEF NoNewAnswers
  <2>2. WaitingInv'
    BY <1>1 DEF IInv, RepliesInv, WaitingInv
  <2> QED  BY <1>1, <1>2, <2>1, <2>2, Types, NoneNew, CaAnswersKept, HelloAnswersKept,
             FinishAnswersKept DEF RepliesInv
<1>9. IdentitiesInv'
  <2>1. \A c \in Client : Certificates(c)' = Certificates(c)
    BY <1>1, <1>7 DEF Certificates, Kind
  <2>2. \A x \in Certificate(epoch) : x.ca # epoch'
    BY <1>1 DEF Certificate
  <2> QED  BY <1>1, <1>3, <2>1, <2>2 DEF IInv, IdentitiesInv
<1>10. ConnectionsInv'
  BY <1>1, ConnectionsKept
<1>11. ConnectedMeansActive'
  <2>1. \A c \in Client : session[c] # None => session[c].epoch # epoch'
    BY <1>1 DEF IInv, Shapes
  <2> QED  BY <1>1, <2>1 DEF ConnectedMeansActive
<1> QED  BY <1>4, <1>5, <1>6, <1>8, <1>9, <1>10, <1>11 DEF IInv

LEMMA ServerStepIInv ==
  ASSUME IInv, ServerStep
  PROVE  IInv'
<1>1. PICK q \in requests : (Serve(q) \/ HandshakeFinishRefused(q)) /\ UNCHANGED clientVars
  BY DEF ServerStep
<1>2. CASE \/ RegisterConflict(q) \/ HandshakeHelloRefused(q) \/ HandshakeNotFound(q)
           \/ MessageRefused(q) \/ PollUnknown(q)
  BY <1>1, <1>2, RefusedIInv DEF RegisterConflict, HandshakeHelloRefused, HandshakeNotFound,
     MessageRefused, PollUnknown
<1>3. CASE Register(q) \/ GetCaPublicKey(q)
  BY <1>1, <1>3, RegisterIInv, GetCaPublicKeyIInv
<1>4. CASE HandshakeHello(q) \/ HandshakeFinish(q) \/ HandshakeFinishRefused(q)
  BY <1>1, <1>4, HandshakeHelloIInv, HandshakeFinishIInv, HandshakeFinishRefusedIInv
<1>5. CASE SendMessage(q) \/ PollMessages(q) \/ CloseSession(q)
  BY <1>1, <1>5, SendMessageIInv, PollMessagesIInv, CloseSessionIInv
<1> QED  BY <1>1, <1>2, <1>3, <1>4, <1>5 DEF Serve
-----------------------------------------------------------------------------
(* The clients' steps.                                                     *)

LEMMA DropsAll ==
  ASSUME IInv, NEW c \in Client, Leaves(c), UNCHANGED <<epoch, active_sessions>>
  PROVE  /\ WaitingInv' /\ NoNewAnswers
         /\ CaAnswersInv' /\ FinishAnswersInv'
<1>1. WaitingInv' /\ NoNewAnswers
  BY DEF Leaves, WaitingInv
<1>2. CaAnswersInv'
  BY <1>1, Types, NoneNew, CaAnswersKept
<1>3. \A d \in Client : Answers(d, "finish")' # {} => call'[d] = call[d]
  BY DEF Leaves, Kind
<1>4. FinishAnswersInv'
  BY <1>1, <1>3, Types, NoneNew, FinishAnswersKept
<1> QED  BY <1>1, <1>2, <1>4

LEMMA ReturnKeeps ==
  ASSUME IInv, NEW c \in Client, Return(c), UNCHANGED serverVars
  PROVE  /\ RequestsInv' /\ RepliesInv' /\ NoNewAnswers /\ UNCHANGED <<calls, requests>>
         /\ call' \in [Client -> RequestType \cup {None}]
<1>1. /\ call' = [call EXCEPT ![c] = None] /\ UNCHANGED <<calls, requests>>
      /\ replies' = {r \in replies : r.to # c}
  BY DEF Return
<1>2. /\ call' \in [Client -> RequestType \cup {None}]
      /\ \A d \in Client : call'[d] = IF d = c THEN None ELSE call[d]
  BY <1>1 DEF IInv, Shapes
<1>3. Leaves(c)
  BY <1>1, <1>2, DropsReplies
<1>4. RequestsInv'
  BY <1>1, <1>2 DEF IInv, RequestsInv, Finishes, serverVars
<1>5. HelloAnswersInv'
  BY <1>1, <1>3, Types, NoneNew, HelloAnswersKept DEF Leaves, serverVars
<1> QED  BY <1>1, <1>2, <1>3, <1>4, <1>5, DropsAll DEF RepliesInv, serverVars

(* A call that ends, and may have read or written the key file.            *)
LEMMA ReturnIInv ==
  ASSUME IInv, NEW c \in Client, Return(c), UNCHANGED serverVars,
         disk' \in [Client -> Certificate(epoch) \cup {None}],
         identity' \in [Client -> Certificate(epoch) \cup {None}],
         ca_pk' \in [Client -> (1..epoch) \cup {None}],
         session' \in [Client -> [id : 1..hellos, send_seq : Nat, epoch : 1..epoch] \cup {None}],
         \A d \in Client : /\ disk'[d] \in Certificates(d) \cup {None}
                           /\ identity'[d] \in Certificates(d) \cup {identity[d], None}
                           /\ session'[d] \in {session[d], None}
  PROVE  IInv'
<1>1. /\ RequestsInv' /\ RepliesInv' /\ NoNewAnswers /\ UNCHANGED <<calls, requests>>
      /\ call' \in [Client -> RequestType \cup {None}]
  BY ReturnKeeps
<1>2. Shapes'
  BY <1>1 DEF IInv, Shapes, Certificate, serverVars
<1>3. TablesInv'
  BY TablesKept
<1>4. IdentitiesInv'
  BY <1>1, NoneNew, IdentitiesKept DEF serverVars
<1>5. ConnectionsInv' /\ ConnectedMeansActive'
  BY <1>1, ConnectionsKept, ConnectedKept DEF serverVars
<1> QED  BY <1>1, <1>2, <1>3, <1>4, <1>5 DEF IInv

(* Two clients never hold the same session.                                *)
LEMMA OwnSession ==
  ASSUME IInv, NEW c \in Client, NEW d \in Client, c # d,
         session[c] # None, session[d] # None
  PROVE  session[c].id # session[d].id
<1>1. session[c].id \in HandshakeId
  BY Types DEF IInv, Shapes
<1> QED  BY <1>1 DEF IInv, ConnectionsInv, RequestsInv

(* A request that was just sent.                                           *)
Sent(c, q) ==
  /\ q \in RequestType /\ q.from = c /\ q.n = calls[c] + 1
  /\ requests' = requests \cup {q}
  /\ calls' = [calls EXCEPT ![c] = @ + 1]
  /\ call'[c] \in {q, None} /\ \A d \in Client \ {c} : call'[d] = call[d]

LEMMA SentRequests ==
  ASSUME IInv, NEW c \in Client, NEW q, Sent(c, q), UNCHANGED serverVars,
         q.type = "register" => q.user = UserOf[c] /\ q.key = <<c, q.n>>,
         q.type = "hello" => q.cert.user = UserOf[c],
         q.type = "message" => q.envelope.session = q.session,
         q.type \in {"message", "delete"} => \E f \in Finishes(q.session) : f.from = c,
         q.type = "finish" => /\ q.id <= hellos /\ Finishes(q.id) = {}
                              /\ \A p \in pending_handshakes : p.id = q.id => p.user = UserOf[c]
  PROVE  RequestsInv'
<1>1. /\ calls[c] \in Nat /\ calls'[c] = calls[c] + 1
      /\ \A d \in Client : d # c => calls'[d] = calls[d]
      /\ \A d \in Client : calls[d] \in Nat /\ calls[d] <= calls'[d]
  BY Types DEF Sent, IInv, Shapes
<1>2. q.from \in Client /\ q.n \in 1..calls'[q.from]
  BY <1>1 DEF Sent
<1>3. \A d \in Client : call'[d] # None =>
        call'[d] \in requests' /\ call'[d].from = d /\ call'[d].n = calls'[d]
  <2> SUFFICES ASSUME NEW d \in Client, call'[d] # None
               PROVE  call'[d] \in requests' /\ call'[d].from = d /\ call'[d].n = calls'[d]
    OBVIOUS
  <2>1. CASE d = c
    BY <1>1, <2>1 DEF Sent
  <2>2. CASE d # c
    BY <1>1, <2>2 DEF Sent, IInv, RequestsInv
  <2> QED  BY <2>1, <2>2
<1>4. \A h \in HandshakeId : Finishes(h)' =
        IF q.type = "finish" /\ q.id = h THEN Finishes(h) \cup {q} ELSE Finishes(h)
  BY DEF Sent, Finishes
<1>5. ASSUME NEW p \in requests'
      PROVE  /\ p.n \in 1..calls'[p.from]
             /\ p.type = "register" => p.user = UserOf[p.from] /\ p.key = <<p.from, p.n>>
             /\ p.type = "hello" => p.cert.user = UserOf[p.from]
             /\ p.type = "message" => p.envelope.session = p.session
             /\ p.type \in {"message", "delete"} =>
                  \E f \in Finishes(p.session)' : f.from = p.from /\ f.n < p.n
  <2>1. CASE p \in requests
    <3>1. p.from \in Client /\ p.n \in 1..calls[p.from]
      BY <2>1, Types DEF IInv, RequestsInv
    <3>2. p.n \in 1..calls'[p.from]
      BY <1>1, <3>1
    <3>3. p.type \in {"message", "delete"} =>
            \E f \in Finishes(p.session)' : f.from = p.from /\ f.n < p.n
      <4> SUFFICES ASSUME p.type \in {"message", "delete"}
                   PROVE  \E f \in Finishes(p.session)' : f.from = p.from /\ f.n < p.n
        OBVIOUS
      <4>1. PICK f \in Finishes(p.session) : f.from = p.from /\ f.n < p.n
        BY <2>1 DEF IInv, RequestsInv
      <4>2. p.session \in HandshakeId
        BY <2>1, Types, RequestFields
      <4>3. f \in Finishes(p.session)'
        BY <1>4, <4>2
      <4> QED  BY <4>1, <4>3
    <3> QED  BY <2>1, <3>2, <3>3 DEF IInv, RequestsInv
  <2>2. CASE p = q
    <3>1. q.type \in {"message", "delete"} =>
            \E f \in Finishes(q.session)' : f.from = c /\ f.n < q.n
      <4> SUFFICES ASSUME q.type \in {"message", "delete"}
                   PROVE  \E f \in Finishes(q.session)' : f.from = c /\ f.n < q.n
        OBVIOUS
      <4>1. PICK f \in Finishes(q.session) : f.from = c
        OBVIOUS
      <4>2. q.session \in HandshakeId
        BY RequestFields DEF Sent
      <4>3. f \in Finishes(q.session)'
        BY <1>4, <4>2
      <4>4. f \in requests /\ f.n \in 1..calls[c]
        BY <4>1 DEF Finishes, IInv, RequestsInv
      <4>5. f.n < q.n
        BY <1>1, <4>4 DEF Sent
      <4> QED  BY <4>1, <4>3, <4>5
    <3> QED  BY <1>2, <2>2, <3>1 DEF Sent
  <2> QED  BY <2>1, <2>2 DEF Sent
<1>6. ASSUME NEW h \in HandshakeId, NEW f \in Finishes(h)'
      PROVE  /\ h <= hellos
             /\ \A g \in Finishes(h)' : f = g
             /\ \A p \in pending_handshakes : p.id = h => p.user = UserOf[f.from]
  <2>1. CASE q.type = "finish" /\ q.id = h
    <3>1. Finishes(h)' = {q}
      BY <1>4, <2>1
    <3> QED  BY <1>6, <2>1, <3>1 DEF Sent
  <2>2. CASE ~(q.type = "finish" /\ q.id = h)
    BY <1>4, <1>6, <2>2 DEF IInv, RequestsInv
  <2> QED  BY <2>1, <2>2
<1> QED  BY <1>3, <1>5, <1>6 DEF RequestsInv, serverVars

LEMMA SentConnections ==
  ASSUME IInv, NEW c \in Client, NEW q, Sent(c, q),
         \A d \in Client \ {c} : session'[d] = session[d],
         q.type \in {"message", "delete"} => session[c] # None /\ q.session = session[c].id,
         q.type = "message" => /\ q.envelope.seq = session[c].send_seq
                               /\ session'[c] = [session[c] EXCEPT !.send_seq = @ + 1],
         q.type = "delete" => session'[c] = None,
         q.type \notin {"message", "delete"} => session'[c] = session[c]
  PROVE  ConnectionsInv'
<1>1. \A d \in Client : calls[d] \in Nat /\ calls[d] <= calls'[d]
                        /\ (d = c => calls'[d] = calls[d] + 1)
  BY Types DEF Sent, IInv, Shapes
<1>2. requests \subseteq requests'
  BY DEF Sent
<1>3. ASSUME NEW d \in Client, d # c, session[d] # None
      PROVE  /\ \E f \in requests' : f.type = "finish" /\ f.id = session[d].id /\ f.from = d
             /\ session[d].send_seq \in 1..calls'[d]
             /\ \A p \in requests' :
                  /\ p.type = "message" /\ p.session = session[d].id =>
                       p.envelope.seq < session[d].send_seq
                  /\ p.type = "delete" => p.session # session[d].id
  <2>1. q.type \in {"message", "delete"} => q.session # session[d].id
    BY <1>3, OwnSession
  <2>2. /\ \E f \in Finishes(session[d].id) : f.from = d
        /\ session[d].send_seq \in 1..calls[d]
        /\ \A p \in requests :
             /\ p.type = "message" /\ p.session = session[d].id =>
                  p.envelope.seq < session[d].send_seq
             /\ p.type = "delete" => p.session # session[d].id
    BY <1>3 DEF IInv, ConnectionsInv
  <2>3. session[d].send_seq \in 1..calls'[d]
    <3>1. calls[d] \in Nat /\ calls'[d] \in Nat /\ calls[d] <= calls'[d]
      BY <1>1 DEF Sent, IInv, Shapes
    <3> QED  BY <2>2, <3>1
  <2>4. \E f \in requests' : f.type = "finish" /\ f.id = session[d].id /\ f.from = d
    BY <1>2, <2>2 DEF Finishes
  <2> QED  BY <2>1, <2>2, <2>3, <2>4 DEF Sent
<1>4. ASSUME session'[c] # None
      PROVE  /\ \E f \in requests' : f.type = "finish" /\ f.id = session'[c].id /\ f.from = c
             /\ session'[c].send_seq \in 1..calls'[c]
             /\ \A p \in requests' :
                  /\ p.type = "message" /\ p.session = session'[c].id =>
                       p.envelope.seq < session'[c].send_seq
                  /\ p.type = "delete" => p.session # session'[c].id
  <2>1. q.type # "delete" /\ session[c] # None
    BY <1>4
  <2>2. /\ \E f \in Finishes(session[c].id) : f.from = c
        /\ session[c].send_seq \in 1..calls[c]
        /\ \A p \in requests :
             /\ p.type = "message" /\ p.session = session[c].id =>
                  p.envelope.seq < session[c].send_seq
             /\ p.type = "delete" => p.session # session[c].id
    BY <2>1 DEF IInv, ConnectionsInv
  <2>3. session[c] \in [id : 1..hellos, send_seq : Nat, epoch : 1..epoch]
    BY <2>1 DEF IInv, Shapes
  <2>4. \E f \in requests' : f.type = "finish" /\ f.id = session[c].id /\ f.from = c
    BY <1>2, <2>2 DEF Finishes
  <2>5. \A p \in requests : p.type = "message" => p.envelope.seq \in Nat
    BY Types, RequestFields
  <2>6. CASE q.type = "message"
    <3>1. session'[c].id = session[c].id /\ session'[c].send_seq = session[c].send_seq + 1
      BY <2>3, <2>6
    <3>2. session'[c].send_seq \in 1..calls'[c]
      BY <1>1, <2>2, <3>1
    <3>3. \A p \in requests : p.type = "message" /\ p.session = session[c].id =>
            p.envelope.seq < session'[c].send_seq
      BY <2>2, <2>3, <2>5, <3>1
    <3>4. q.envelope.seq < session'[c].send_seq
      BY <2>3, <2>6, <3>1
    <3>5. session'[c].id = session[c].id
      BY <3>1
    <3> QED  BY <2>2, <2>4, <2>6, <3>2, <3>3, <3>4, <3>5 DEF Sent
  <2>7. CASE q.type # "message"
    <3>1. session'[c] = session[c] /\ q.type \notin {"message", "delete"}
      BY <2>1, <2>7
    <3>2. session[c].send_seq \in 1..calls'[c]
      BY <1>1, <2>2
    <3> QED  BY <2>2, <2>4, <3>1, <3>2 DEF Sent
  <2> QED  BY <2>6, <2>7
<1>5. \A d \in Client : d # c => session'[d] = session[d]
  OBVIOUS
<1>6. ASSUME NEW d \in Client, session'[d] # None
      PROVE  /\ \E f \in Finishes(session[d].id)' : f.from = d
             /\ session'[d].send_seq \in 1..calls'[d]
             /\ \A p \in requests' :
                  /\ p.type = "message" /\ p.session = session'[d].id =>
                       p.envelope.seq < session'[d].send_seq
                  /\ p.type = "delete" => p.session # session'[d].id
  BY <1>3, <1>4, <1>5, <1>6 DEF Finishes
<1> QED  BY <1>6 DEF ConnectionsInv

LEMMA PostSends ==
  ASSUME IInv, NEW c \in Client, NEW F, Post(c, F), Request(c, F) \in RequestType
  PROVE  /\ Sent(c, Request(c, F)) /\ Leaves(c)
         /\ calls' \in [Client -> Nat] /\ call' \in [Client -> RequestType \cup {None}]
         /\ requests' \subseteq RequestType
<1> DEFINE q == Request(c, F)
<1>1. q.from = c /\ q.n = calls[c] + 1
  BY DEF Request, Merge
<1>2. /\ requests' = requests \cup {q}
      /\ call' = [call EXCEPT ![c] = q]
      /\ calls' = [calls EXCEPT ![c] = @ + 1]
      /\ replies' = {r \in replies : r.to # c}
  BY DEF Post
<1> HIDE DEF q
<1>3. /\ calls' \in [Client -> Nat] /\ call' \in [Client -> RequestType \cup {None}]
      /\ requests' \subseteq RequestType
      /\ call'[c] = q /\ \A d \in Client \ {c} : call'[d] = call[d]
  BY <1>2 DEF IInv, Shapes, q
<1>4. Leaves(c)
  BY <1>2, <1>3, DropsReplies
<1> QED  BY <1>1, <1>2, <1>3, <1>4 DEF Sent, q

LEMMA SentReplies ==
  ASSUME IInv, NEW c \in Client, NEW q, Sent(c, q), Leaves(c), UNCHANGED serverVars,
         q.type = "finish" => \A d \in Client \ {c} : \A r \in Answers(d, "hello") : r.id # q.id
  PROVE  RepliesInv'
<1>1. \A d \in Client : Answers(d, "hello")' \subseteq Answers(d, "hello")
  BY NoneNew DEF Leaves
<1>2. ASSUME NEW d \in Client, NEW r \in Answers(d, "hello")'
      PROVE  Finishes(r.id)' = Finishes(r.id)
  <2>1. d # c
    BY <1>2 DEF Leaves, Kind
  <2>2. q.type = "finish" => r.id # q.id
    BY <1>1, <1>2, <2>1
  <2> QED  BY <2>2 DEF Sent, Finishes
<1>3. HelloAnswersInv'
  BY <1>1, <1>2, Types, HelloAnswersKept DEF serverVars
<1> QED  BY <1>3, DropsAll DEF RepliesInv, serverVars

(* A call that begins, or goes on, with anything but an envelope.           *)
LEMMA PostIInv ==
  ASSUME IInv, NEW c \in Client, NEW F, Post(c, F), NEW q, q = Request(c, F), q \in RequestType,
         UNCHANGED <<serverVars, disk, ca_pk, session>>,
         identity' \in [Client -> Certificate(epoch) \cup {None}],
         \A d \in Client : identity'[d] \in {identity[d], disk[d]},
         q.type \notin {"message", "delete"},
         q.type = "register" => q.user = UserOf[c] /\ q.key = <<c, q.n>>,
         q.type = "hello" => q.cert.user = UserOf[c],
         q.type = "finish" =>
           /\ q.id <= hellos /\ Finishes(q.id) = {}
           /\ \A p \in pending_handshakes : p.id = q.id => p.user = UserOf[c]
           /\ \A d \in Client \ {c} : \A r \in Answers(d, "hello") : r.id # q.id
  PROVE  IInv'
<1>1. /\ Sent(c, q) /\ Leaves(c)
      /\ calls' \in [Client -> Nat] /\ call' \in [Client -> RequestType \cup {None}]
      /\ requests' \subseteq RequestType
  BY PostSends
<1>2. Shapes'
  BY <1>1 DEF IInv, Shapes, Certificate, serverVars
<1>3. TablesInv'
  BY TablesKept
<1>4. RequestsInv'
  BY <1>1, SentRequests
<1>5. RepliesInv'
  BY <1>1, SentReplies
<1>6. IdentitiesInv'
  BY <1>1, NoneNew, IdentitiesKept DEF serverVars, Leaves, Certificates
<1>7. ConnectionsInv'
  BY <1>1, SentConnections
<1>8. ConnectedMeansActive'
  BY ConnectedKept DEF serverVars
<1> QED  BY <1>2, <1>3, <1>4, <1>5, <1>6, <1>7, <1>8 DEF IInv

LEMMA StartRegisterIInv ==
  ASSUME IInv, NEW c \in Client, StartRegister(c), UNCHANGED serverVars
  PROVE  IInv'
<1> DEFINE F == [type |-> "register", user |-> UserOf[c], key |-> <<c, calls[c] + 1>>]
           q == Request(c, F)
<1>1. Post(c, F) /\ UNCHANGED clientVars
  BY DEF StartRegister
<1>2. q = [from |-> c, n |-> calls[c] + 1, type |-> "register", user |-> UserOf[c],
           key |-> <<c, calls[c] + 1>>]
  BY DEF Request, Merge
<1>3. q \in RequestType /\ q.type = "register" /\ q.user = UserOf[c] /\ q.key = <<c, q.n>>
  BY <1>2, Types DEF RequestType
<1> HIDE DEF F, q
<1> QED  BY <1>1, <1>3, PostIInv DEF clientVars, q, IInv, Shapes

LEMMA StartLoadIdentityIInv ==
  ASSUME IInv, NEW c \in Client, StartLoadIdentity(c), UNCHANGED serverVars
  PROVE  IInv'
<1> DEFINE F == [type |-> "ca-public-key"]
           q == Request(c, F)
<1>1. /\ Post(c, F) /\ UNCHANGED <<disk, ca_pk, session>>
      /\ identity' = [identity EXCEPT ![c] = disk[c]]
  BY DEF StartLoadIdentity
<1>2. q = [from |-> c, n |-> calls[c] + 1, type |-> "ca-public-key"]
  BY DEF Request, Merge
<1>3. q \in RequestType /\ q.type = "ca-public-key"
  BY <1>2, Types DEF RequestType
<1>4. /\ identity' \in [Client -> Certificate(epoch) \cup {None}]
      /\ \A d \in Client : identity'[d] \in {identity[d], disk[d]}
  BY <1>1 DEF IInv, Shapes
<1> HIDE DEF F, q
<1> QED  BY <1>1, <1>3, <1>4, PostIInv DEF q

LEMMA StartConnectIInv ==
  ASSUME IInv, NEW c \in Client, StartConnect(c), UNCHANGED serverVars
  PROVE  IInv'
<1> DEFINE F == [type |-> "hello", cert |-> identity[c]]
           q == Request(c, F)
<1>1. Post(c, F) /\ UNCHANGED clientVars /\ identity[c] # None
  BY DEF StartConnect
<1>2. q = [from |-> c, n |-> calls[c] + 1, type |-> "hello", cert |-> identity[c]]
  BY DEF Request, Merge
<1>3. identity[c] \in Certificate(MaxEpoch) /\ identity[c].user = UserOf[c]
  <2>1. identity[c] \in Certificate(epoch) /\ epoch \in 1..MaxEpoch
    BY <1>1 DEF IInv, Shapes
  <2>2. 1..epoch \subseteq 1..MaxEpoch
    BY <2>1, MessengerAssumption
  <2> QED  BY <1>1, <2>1, <2>2 DEF Certificate, IInv, IdentitiesInv
<1>4. q \in RequestType /\ q.type = "hello" /\ q.cert.user = UserOf[c]
  BY <1>2, <1>3, Types DEF RequestType
<1> HIDE DEF F, q
<1> QED  BY <1>1, <1>4, PostIInv DEF clientVars, q, IInv, Shapes

(* The id came in an answer to this client's hello: nobody else has it.     *)
LEMMA ContinueConnectIInv ==
  ASSUME IInv, NEW c \in Client, NEW r \in replies, r.to = c, ContinueConnect(c, r),
         UNCHANGED serverVars
  PROVE  IInv'
<1> DEFINE F == [type |-> "finish", id |-> r.id]
           q == Request(c, F)
<1>1. Post(c, F) /\ UNCHANGED clientVars /\ r \in Answers(c, "hello")
  BY DEF ContinueConnect, Answers
<1>2. q = [from |-> c, n |-> calls[c] + 1, type |-> "finish", id |-> r.id]
  BY DEF Request, Merge
<1>3. /\ r.id \in 1..hellos /\ r.id \in HandshakeId /\ r.id <= hellos
      /\ Finishes(r.id) = {}
      /\ \A p \in pending_handshakes : p.id = r.id => p.user = UserOf[c]
      /\ \A d \in Client : \A x \in Answers(d, "hello") : x.id = r.id => d = c
  BY <1>1, Types DEF IInv, RepliesInv, HelloAnswersInv
<1>4. q \in RequestType /\ q.type = "finish" /\ q.id = r.id
  BY <1>2, <1>3, Types DEF RequestType
<1> HIDE DEF F, q
<1>5. /\ q.id <= hellos /\ Finishes(q.id) = {}
      /\ \A p \in pending_handshakes : p.id = q.id => p.user = UserOf[c]
      /\ \A d \in Client \ {c} : \A x \in Answers(d, "hello") : x.id # q.id
  BY <1>3, <1>4
<1>6. /\ identity' \in [Client -> Certificate(epoch) \cup {None}]
      /\ \A d \in Client : identity'[d] \in {identity[d], disk[d]}
      /\ UNCHANGED <<disk, ca_pk, session>>
  BY <1>1 DEF clientVars, IInv, Shapes
<1>7. Post(c, F) /\ q = Request(c, F)
  BY <1>1 DEF q
<1> QED  BY <1>4, <1>5, <1>6, <1>7, PostIInv

LEMMA StartReceiveIInv ==
  ASSUME IInv, NEW c \in Client, StartReceive(c), UNCHANGED serverVars
  PROVE  IInv'
<1> DEFINE F == [type |-> "poll", user |-> UserOf[c]]
           q == Request(c, F)
<1>1. Post(c, F) /\ UNCHANGED clientVars
  BY DEF StartReceive
<1>2. q = [from |-> c, n |-> calls[c] + 1, type |-> "poll", user |-> UserOf[c]]
  BY DEF Request, Merge
<1>3. q \in RequestType /\ q.type = "poll"
  BY <1>2, Types DEF RequestType
<1> HIDE DEF F, q
<1> QED  BY <1>1, <1>3, PostIInv DEF clientVars, q, IInv, Shapes

LEMMA FinishRegisterIInv ==
  ASSUME IInv, NEW c \in Client, NEW r \in replies, r.to = c, FinishRegister(c, r),
         UNCHANGED serverVars
  PROVE  IInv'
<1>1. /\ r \in Answers(c, "register") /\ Return(c) /\ UNCHANGED session
      /\ disk' = [disk EXCEPT ![c] = r.cert]
      /\ identity' = [identity EXCEPT ![c] = r.cert]
      /\ ca_pk' = [ca_pk EXCEPT ![c] = r.cert.ca]
  BY DEF FinishRegister, Answers
<1>2. r.cert \in Certificates(c)
  BY <1>1 DEF Certificates
<1>3. r.cert \in Certificate(epoch) /\ r.cert.ca \in 1..epoch
  BY <1>2 DEF IInv, IdentitiesInv, Certificate
<1>4. /\ disk' \in [Client -> Certificate(epoch) \cup {None}]
      /\ identity' \in [Client -> Certificate(epoch) \cup {None}]
      /\ ca_pk' \in [Client -> (1..epoch) \cup {None}]
      /\ session' \in [Client -> [id : 1..hellos, send_seq : Nat, epoch : 1..epoch] \cup {None}]
  BY <1>1, <1>3 DEF IInv, Shapes
<1>5. \A d \in Client : /\ disk'[d] \in Certificates(d) \cup {None}
                        /\ identity'[d] \in Certificates(d) \cup {identity[d], None}
  BY <1>1, <1>2 DEF IInv, Shapes, Certificates
<1> QED  BY <1>1, <1>4, <1>5, ReturnIInv

LEMMA FinishLoadIdentityIInv ==
  ASSUME IInv, NEW c \in Client, NEW r \in replies, r.to = c, FinishLoadIdentity(c, r),
         UNCHANGED serverVars
  PROVE  IInv'
<1>1. /\ r \in Answers(c, "ca-public-key") /\ Return(c) /\ UNCHANGED <<disk, identity, session>>
      /\ ca_pk' = [ca_pk EXCEPT ![c] = r.ca]
  BY DEF FinishLoadIdentity, Answers
<1>2. ca_pk' \in [Client -> (1..epoch) \cup {None}]
  BY <1>1 DEF IInv, Shapes, RepliesInv, CaAnswersInv
<1> QED  BY <1>1, <1>2, ReturnIInv DEF IInv, Shapes, Certificates

(* Calls that end without a result, whatever the reason.                   *)
LEMMA PlainReturnIInv ==
  ASSUME IInv, NEW c \in Client, Return(c), UNCHANGED serverVars, UNCHANGED clientVars
  PROVE  IInv'
BY ReturnIInv DEF IInv, Shapes, Certificates, clientVars

LEMMA CrashIInv ==
  ASSUME IInv, NEW c \in Client, Crash(c), UNCHANGED serverVars
  PROVE  IInv'
<1>1. /\ Return(c) /\ UNCHANGED disk
      /\ session' = [session EXCEPT ![c] = None]
      /\ identity' = [identity EXCEPT ![c] = None]
      /\ ca_pk' = [ca_pk EXCEPT ![c] = None]
  BY DEF Crash
<1>2. /\ identity' \in [Client -> Certificate(epoch) \cup {None}]
      /\ ca_pk' \in [Client -> (1..epoch) \cup {None}]
      /\ session' \in [Client -> [id : 1..hellos, send_seq : Nat, epoch : 1..epoch] \cup {None}]
      /\ \A d \in Client : /\ identity'[d] \in {identity[d], None}
                           /\ session'[d] \in {session[d], None}
  BY <1>1 DEF IInv, Shapes
<1> QED  BY <1>1, <1>2, ReturnIInv DEF IInv, Shapes, Certificates

(* The server has the session that it confirmed, as it made it.            *)
LEMMA FinishConnectIInv ==
  ASSUME IInv, NEW c \in Client, NEW r \in replies, r.to = c, FinishConnect(c, r),
         UNCHANGED serverVars
  PROVE  IInv'
<1> DEFINE s == [id |-> r.id, send_seq |-> 1, epoch |-> r.epoch]
<1>1. /\ r \in Answers(c, "finish") /\ Return(c) /\ UNCHANGED <<disk, identity, ca_pk>>
      /\ session' = [session EXCEPT ![c] = s]
  BY DEF FinishConnect, Answers
<1>2. /\ RequestsInv' /\ RepliesInv' /\ NoNewAnswers /\ UNCHANGED <<calls, requests>>
      /\ call' \in [Client -> RequestType \cup {None}]
  BY <1>1, ReturnKeeps
<1>3. /\ call[c] \in requests /\ call[c].from = c /\ call[c].type = "finish"
      /\ call[c].id = r.id /\ r.epoch \in 1..epoch
      /\ r.epoch = epoch => active_sessions[r.id] = [user |-> UserOf[c], recv_seq |-> 1]
  BY <1>1, Awaited DEF IInv, RepliesInv, FinishAnswersInv
<1>4. r.id \in HandshakeId /\ call[c] \in Finishes(r.id)
  BY <1>3, Types, RequestFields DEF Finishes
<1>5. r.id \in 1..hellos
  <2>1. r.id <= hellos
    BY <1>4 DEF IInv, RequestsInv
  <2> QED  BY <1>4, <2>1, Types DEF HandshakeId
<1>6. 1 \in 1..calls[c]
  <2>1. call[c].n \in 1..calls[c]
    BY <1>3 DEF IInv, RequestsInv
  <2> QED  BY <2>1, Types
<1>7. Shapes'
  <2>1. s \in [id : 1..hellos, send_seq : Nat, epoch : 1..epoch]
    BY <1>3, <1>5
  <2>2. session' \in [Client -> [id : 1..hellos, send_seq : Nat, epoch : 1..epoch] \cup {None}]
    BY <1>1, <2>1 DEF IInv, Shapes
  <2> QED  BY <1>1, <1>2, <2>2 DEF IInv, Shapes, Certificate, serverVars
<1>8. TablesInv'
  BY TablesKept
<1>9. IdentitiesInv'
  BY <1>1, <1>2, NoneNew, IdentitiesKept DEF serverVars, Certificates
<1>10. session'[c] = s /\ \A d \in Client : d # c => session'[d] = session[d]
  BY <1>1 DEF IInv, Shapes
<1>11. ConnectionsInv'
  <2> SUFFICES ASSUME NEW d \in Client, session'[d] # None
               PROVE  /\ \E f \in Finishes(session[d].id)' : f.from = d
                      /\ session'[d].send_seq \in 1..calls'[d]
                      /\ \A q \in requests' :
                           /\ q.type = "message" /\ q.session = session'[d].id =>
                                q.envelope.seq < session'[d].send_seq
                           /\ q.type = "delete" => q.session # session'[d].id
    BY DEF ConnectionsInv
  <2>1. CASE d # c
    BY <1>2, <1>10, <2>1 DEF IInv, ConnectionsInv, Finishes
  <2>2. CASE d = c
    <3>1. \A q \in requests : q.type \in {"message", "delete"} => q.session # r.id
      BY <1>1, Untouched
    <3>2. \E f \in Finishes(session[d].id)' : f.from = d
      BY <1>2, <1>3, <1>10, <2>2 DEF Finishes
    <3> QED  BY <1>2, <1>6, <1>10, <2>2, <3>1, <3>2
  <2> QED  BY <2>1, <2>2
<1>12. ConnectedMeansActive'
  <2> SUFFICES ASSUME NEW d \in Client, session'[d] # None, session'[d].epoch = epoch
               PROVE  /\ active_sessions[session'[d].id] # None
                      /\ active_sessions[session'[d].id].user = UserOf[d]
                      /\ active_sessions[session'[d].id].recv_seq <= session'[d].send_seq
    BY DEF ConnectedMeansActive, serverVars
  <2>1. CASE d # c
    BY <1>10, <2>1 DEF IInv, ConnectedMeansActive
  <2>2. CASE d = c
    <3>1. active_sessions[r.id] = [user |-> UserOf[c], recv_seq |-> 1]
      BY <1>3, <1>10, <2>2
    <3>2. [user |-> UserOf[c], recv_seq |-> 1] # None
      BY Types, NoneAssumption DEF SessionType
    <3> QED  BY <1>10, <2>2, <3>1, <3>2
  <2> QED  BY <2>1, <2>2
<1> QED  BY <1>2, <1>7, <1>8, <1>9, <1>11, <1>12 DEF IInv

LEMMA SendIInv ==
  ASSUME IInv, NEW c \in Client, NEW u \in User, Send(c, u), UNCHANGED serverVars
  PROVE  IInv'
<1> DEFINE e == [session |-> session[c].id, seq |-> session[c].send_seq,
                 sender |-> UserOf[c], to |-> u]
           F == [type |-> "message", session |-> session[c].id, envelope |-> e]
           q == Request(c, F)
<1>1. /\ Post(c, F) /\ UNCHANGED <<disk, identity, ca_pk>> /\ session[c] # None
      /\ session' = [session EXCEPT ![c].send_seq = @ + 1]
      /\ calls[c] < MaxCalls[c]
  BY DEF Send, Idle
<1>2. /\ session[c] \in [id : 1..hellos, send_seq : Nat, epoch : 1..epoch]
      /\ session[c].send_seq \in 1..calls[c]
      /\ \E f \in Finishes(session[c].id) : f.from = c
      /\ session[c].id \in HandshakeId
  BY <1>1, Types DEF IInv, Shapes, ConnectionsInv
<1>3. /\ session'[c] = [session[c] EXCEPT !.send_seq = @ + 1]
      /\ session'[c].id = session[c].id /\ session'[c].epoch = session[c].epoch
      /\ session'[c].send_seq = session[c].send_seq + 1
      /\ session'[c] \in [id : 1..hellos, send_seq : Nat, epoch : 1..epoch]
      /\ \A d \in Client : d # c => session'[d] = session[d]
  <2> DEFINE s == [session[c] EXCEPT !.send_seq = @ + 1]
  <2>1. DOMAIN session = Client
    BY DEF IInv, Shapes
  <2>2. session'[c] = s /\ \A d \in Client : d # c => session'[d] = session[d]
    BY <1>1, <2>1
  <2>3. /\ s.id = session[c].id /\ s.epoch = session[c].epoch
        /\ s.send_seq = session[c].send_seq + 1
        /\ s \in [id : 1..hellos, send_seq : Nat, epoch : 1..epoch]
    BY <1>2
  <2> HIDE DEF s
  <2>4. session'[c].id = session[c].id /\ session'[c].epoch = session[c].epoch
    BY <2>2, <2>3
  <2> QED  BY <2>2, <2>3, <2>4 DEF s
<1>4. e \in EnvelopeType
  <2>1. session[c].send_seq \in 1..MaxCalls[c]
    BY <1>1, <1>2, MessengerAssumption, Types
  <2> QED  BY <1>2, <2>1 DEF EnvelopeType
<1>5. q = [from |-> c, n |-> calls[c] + 1, type |-> "message", session |-> session[c].id,
           envelope |-> e]
  BY DEF Request, Merge
<1>6. /\ q \in RequestType /\ q.type = "message" /\ q.session = session[c].id
      /\ q.envelope.session = q.session /\ q.envelope.seq = session[c].send_seq
  <2>1. e.session = session[c].id /\ e.seq = session[c].send_seq
    OBVIOUS
  <2> HIDE DEF e, F, q
  <2> QED  BY <1>2, <1>4, <1>5, <2>1, Types DEF RequestType
<1> HIDE DEF e, F, q
<1>7. /\ Sent(c, q) /\ Leaves(c)
      /\ calls' \in [Client -> Nat] /\ call' \in [Client -> RequestType \cup {None}]
      /\ requests' \subseteq RequestType
  BY <1>1, <1>6, PostSends DEF q
<1>8. Shapes'
  <2>1. session' \in [Client -> [id : 1..hellos, send_seq : Nat, epoch : 1..epoch] \cup {None}]
    BY <1>1, <1>3 DEF IInv, Shapes
  <2> QED  BY <1>1, <1>7, <2>1 DEF IInv, Shapes, Certificate, serverVars
<1>9. TablesInv'
  BY TablesKept
<1>10. RequestsInv'
  BY <1>2, <1>6, <1>7, SentRequests
<1>11. RepliesInv'
  BY <1>6, <1>7, SentReplies
<1>12. IdentitiesInv'
  BY <1>1, <1>7, NoneNew, IdentitiesKept DEF serverVars, Leaves, Certificates
<1>13. ConnectionsInv'
  BY <1>1, <1>3, <1>6, <1>7, SentConnections
<1>14. ConnectedMeansActive'
  <2> SUFFICES ASSUME NEW d \in Client, session'[d] # None, session'[d].epoch = epoch
               PROVE  /\ active_sessions[session'[d].id] # None
                      /\ active_sessions[session'[d].id].user = UserOf[d]
                      /\ active_sessions[session'[d].id].recv_seq <= session'[d].send_seq
    BY DEF ConnectedMeansActive, serverVars
  <2>1. CASE d # c
    BY <1>3, <2>1 DEF IInv, ConnectedMeansActive
  <2>2. CASE d = c
    <3>1. /\ active_sessions[session[c].id] # None
          /\ active_sessions[session[c].id].user = UserOf[c]
          /\ active_sessions[session[c].id].recv_seq <= session[c].send_seq
      BY <1>1, <1>3, <2>2 DEF IInv, ConnectedMeansActive
    <3>2. active_sessions[session[c].id].recv_seq \in Nat
      BY <1>2, <3>1 DEF IInv, Shapes, SessionType
    <3> QED  BY <1>2, <1>3, <2>2, <3>1, <3>2
  <2> QED  BY <2>1, <2>2
<1> QED  BY <1>8, <1>9, <1>10, <1>11, <1>12, <1>13, <1>14 DEF IInv

LEMMA CloseIInv ==
  ASSUME IInv, NEW c \in Client, Close(c), UNCHANGED serverVars
  PROVE  IInv'
<1> DEFINE F == [type |-> "delete", session |-> session[c].id]
           q == Request(c, F)
<1>1. /\ call[c] = None
      /\ IF session[c] = None THEN UNCHANGED <<requests, calls>>
         ELSE /\ requests' = requests \cup {q}
              /\ calls' = [calls EXCEPT ![c] = @ + 1]
      /\ session' = [session EXCEPT ![c] = None]
      /\ identity' = [identity EXCEPT ![c] = None]
      /\ ca_pk' = [ca_pk EXCEPT ![c] = None]
      /\ UNCHANGED <<disk, call, replies>>
  BY DEF Close
<1>2. /\ identity' \in [Client -> Certificate(epoch) \cup {None}]
      /\ ca_pk' \in [Client -> (1..epoch) \cup {None}]
      /\ session' \in [Client -> [id : 1..hellos, send_seq : Nat, epoch : 1..epoch] \cup {None}]
      /\ session'[c] = None
      /\ \A d \in Client : /\ identity'[d] \in {identity[d], None}
                           /\ session'[d] \in {session[d], None}
                           /\ d # c => session'[d] = session[d]
  BY <1>1 DEF IInv, Shapes
<1>3. q = [from |-> c, n |-> calls[c] + 1, type |-> "delete", session |-> session[c].id]
  BY DEF Request, Merge
<1>4. session[c] # None => q \in RequestType
  <2>1. session[c] # None => session[c].id \in HandshakeId
    BY Types DEF IInv, Shapes
  <2> QED  BY <1>3, <2>1, Types DEF RequestType
<1>5. q.from = c /\ q.n = calls[c] + 1 /\ q.type = "delete" /\ q.session = session[c].id
  BY <1>3
<1> HIDE DEF F, q
<1>6. Shapes'
  <2>1. calls' \in [Client -> Nat] /\ requests' \subseteq RequestType
    BY <1>1, <1>4 DEF IInv, Shapes
  <2> QED  BY <1>1, <1>2, <2>1 DEF IInv, Shapes, Certificate, serverVars
<1>7. TablesInv'
  BY TablesKept
<1>8. RequestsInv' /\ ConnectionsInv'
  <2>1. CASE session[c] = None
    BY <1>1, <1>2, <2>1, Types, RequestsKept, ConnectionsKept DEF serverVars
  <2>2. CASE session[c] # None
    <3>1. Sent(c, q)
      BY <1>1, <1>4, <1>5, <2>2 DEF Sent
    <3>2. \E f \in Finishes(session[c].id) : f.from = c
      BY <2>2 DEF IInv, ConnectionsInv
    <3>3. RequestsInv'
      BY <1>5, <3>1, <3>2, SentRequests
    <3>4. ConnectionsInv'
      BY <1>2, <1>5, <2>2, <3>1, SentConnections
    <3> QED  BY <3>3, <3>4
  <2> QED  BY <2>1, <2>2
<1>9. \A d \in Client, t \in Kind : Answers(d, t)' = Answers(d, t)
  BY <1>1 DEF Answers
<1>10. NoNewAnswers
  BY <1>9 DEF NoNewAnswers
<1>11. RepliesInv'
  <2>1. WaitingInv'
    BY <1>1 DEF IInv, RepliesInv, WaitingInv
  <2>2. \A h : Finishes(h)' = Finishes(h)
    BY <1>1, <1>5 DEF Finishes
  <2> QED  BY <1>1, <1>10, <2>1, <2>2, Types, NoneNew, CaAnswersKept, HelloAnswersKept,
             FinishAnswersKept DEF RepliesInv, serverVars
<1>12. IdentitiesInv'
  BY <1>1, <1>2, <1>10, NoneNew, IdentitiesKept DEF serverVars, Certificates
<1>13. ConnectedMeansActive'
  BY <1>2, ConnectedKept DEF serverVars
<1> QED  BY <1>6, <1>7, <1>8, <1>11, <1>12, <1>13 DEF IInv

LEMMA ClientStepIInv ==
  ASSUME IInv, NEW c \in Client, ClientStep(c)
  PROVE  IInv'
<1>1. UNCHANGED serverVars
  BY DEF ClientStep
<1>2. CASE ClientCall(c)
  BY <1>1, <1>2, StartRegisterIInv, StartLoadIdentityIInv, StartConnectIInv, StartReceiveIInv,
     SendIInv DEF ClientCall
<1>3. CASE ClientReply(c)
  <2>1. PICK r \in replies : r.to = c /\ Consume(c, r)
    BY <1>3 DEF ClientReply
  <2>2. CASE FinishSend(c, r) \/ FinishReceive(c, r) \/ Fail(c, r)
    BY <1>1, <2>2, PlainReturnIInv DEF FinishSend, FinishReceive, Fail
  <2>3. CASE \/ FinishRegister(c, r) \/ FinishLoadIdentity(c, r)
             \/ ContinueConnect(c, r) \/ FinishConnect(c, r)
    BY <1>1, <2>1, <2>3, FinishRegisterIInv, FinishLoadIdentityIInv, ContinueConnectIInv,
       FinishConnectIInv
  <2> QED  BY <2>1, <2>2, <2>3 DEF Consume
<1>4. CASE Timeout(c)
  BY <1>1, <1>4, PlainReturnIInv DEF Timeout
<1>5. CASE Close(c) \/ Crash(c)
  BY <1>1, <1>5, CloseIInv, CrashIInv
<1> QED  BY <1>2, <1>3, <1>4, <1>5 DEF ClientStep
-----------------------------------------------------------------------------
LEMMA InitIInv ==
  ASSUME Init
  PROVE  IInv
<1>1. Shapes
  BY MessengerAssumption DEF Init, Shapes, Certificate
<1>2. TablesInv /\ RequestsInv
  BY DEF Init, TablesInv, RequestsInv, Finishes
<1>3. RepliesInv
  BY DEF Init, RepliesInv, WaitingInv, CaAnswersInv, HelloAnswersInv, FinishAnswersInv, Answers
<1>4. IdentitiesInv
  BY DEF Init, IdentitiesInv, Certificates, Answers
<1>5. ConnectionsInv /\ ConnectedMeansActive
  BY DEF Init, ConnectionsInv, ConnectedMeansActive
<1> QED  BY <1>1, <1>2, <1>3, <1>4, <1>5 DEF IInv

LEMMA NextIInv ==
  ASSUME IInv, [Next]_vars
  PROVE  IInv'
<1>1. CASE ServerStep
  BY <1>1, ServerStepIInv
<1>2. CASE Restart
  BY <1>2, RestartIInv
<1>3. CASE \E c \in Client : ClientStep(c)
  BY <1>3, ClientStepIInv
<1>4. CASE UNCHANGED vars
  BY <1>4, StutterIInv
<1> QED  BY <1>1, <1>2, <1>3, <1>4 DEF Next

(* The invariant by which the theorems below are proved.                   *)
LEMMA SpecIInv == Spec => []IInv
<1>1. Init => IInv
  BY InitIInv
<1>2. IInv /\ [Next]_vars => IInv'
  BY NextIInv
<1> QED  BY <1>1, <1>2, PTL DEF Spec
(* The tables of the server and what the clients hold keep their types, a   *)
(* queue holds only accepted envelopes, a pending handshake has no session *)
(* yet, and a reply is on its way only to a client that waits: server/app.py *)
(* and client/client.py.                                                   *)
THEOREM TypeCorrect == Spec => []TypeOK
<1>1. ASSUME IInv PROVE TypeOK
  <2>1. /\ epoch \in 1..MaxEpoch
        /\ \A u \in User : registered_users[u] \in (Client \X Nat) \cup {None}
        /\ \A u \in User : message_queues[u] # None => ToSet(message_queues[u]) \subseteq accepted
    BY <1>1 DEF IInv, Shapes, TablesInv
  <2>2. /\ \A hs \in pending_handshakes : hs.id \in 1..hellos /\ active_sessions[hs.id] = None
        /\ \A h \in HandshakeId : active_sessions[h] # None => h <= hellos
    BY <1>1 DEF IInv, Shapes, TablesInv
  <2>3. /\ \A c \in Client : {disk[c], identity[c]} \subseteq Certificate(epoch) \cup {None}
        /\ \A c \in Client : ca_pk[c] \in (1..epoch) \cup {None}
        /\ \A c \in Client : session[c] # None => session[c].id \in 1..hellos
    BY <1>1 DEF IInv, Shapes
  <2>4. /\ requests \subseteq RequestType /\ accepted \subseteq EnvelopeType
        /\ \A c \in Client : call[c] \in requests \cup {None}
        /\ \A r \in replies : call[r.to] # None
    BY <1>1 DEF IInv, Shapes, RequestsInv, RepliesInv, WaitingInv
  <2> QED  BY <2>1, <2>2, <2>3, <2>4 DEF TypeOK
<1> QED  BY <1>1, SpecIInv, PTL

(* A client with a session that the running server process confirmed finds *)
(* it there, under its own name, and its next envelope is no replay, however *)
(* requests were repeated or delayed and whoever restarted: handshake_finish *)
(* and send_message of server/app.py, connect and send of client.py.       *)
THEOREM ConnectedStaysActive == Spec => []ConnectedMeansActive
BY SpecIInv, PTL DEF IInv

(* Two installations never hold certificates of one CA for the same user,   *)
(* and a key file made under the running CA is the registered one, however *)
(* registrations race and whichever replies are lost: register of both.    *)
THEOREM IdentitiesRegistered == Spec => []IdentityMatchesRegistry
<1>1. ASSUME IInv PROVE IdentityMatchesRegistry
  <2>1. \A c \in Client : disk[c] # None => disk[c] \in Certificates(c)
    BY DEF Certificates
  <2> QED  BY <1>1, <2>1 DEF IInv, IdentitiesInv, IdentityMatchesRegistry
<1> QED  BY <1>1, SpecIInv, PTL
-----------------------------------------------------------------------------
(* The queues.                                                             *)

LEMMA QueueTypes ==
  ASSUME IInv, NEW u \in User
  PROVE  QueueOf(u) \in Seq(EnvelopeType) /\ IsPrefix(QueueOf(u), QueueOf(u))
<1>1. QueueOf(u) \in Seq(EnvelopeType)
  <2>1. <<>> \in Seq(EnvelopeType)
    OBVIOUS
  <2> QED  BY <2>1 DEF IInv, Shapes, QueueOf
<1> HIDE DEF QueueOf
<1>2. IsPrefix(QueueOf(u), QueueOf(u))
  BY <1>1 DEF IsPrefix
<1> QED  BY <1>1, <1>2

(* Every step either accepts one envelope or empties some queues.          *)
LEMMA SendMessageQueues ==
  ASSUME IInv, NEW q \in requests, SendMessage(q)
  PROVE  /\ q.envelope \in EnvelopeType /\ q.envelope.to \in User
         /\ \A a \in accepted : a.session = q.envelope.session => a.seq < q.envelope.seq
         /\ accepted' = accepted \cup {q.envelope}
         /\ \A u \in User : QueueOf(u)' = IF u = q.envelope.to
                                          THEN Append(QueueOf(u), q.envelope) ELSE QueueOf(u)
<1> DEFINE e == q.envelope
<1>1. /\ q.type = "message" /\ active_sessions[q.session] # None
      /\ e.session = q.session /\ e.seq >= active_sessions[q.session].recv_seq
      /\ message_queues' = [message_queues EXCEPT ![e.to] = Append(QueueOf(e.to), e)]
      /\ accepted' = accepted \cup {e}
  BY DEF SendMessage, Decryptable
<1>2. /\ e \in EnvelopeType /\ e.to \in User /\ e.seq \in Nat /\ q.session \in HandshakeId
  BY <1>1, Types, RequestFields
<1>3. \A a \in accepted : a.session = e.session => a.seq < e.seq
  <2>1. active_sessions[q.session].recv_seq \in Nat
    BY <1>1, <1>2 DEF IInv, Shapes, SessionType
  <2>2. \A a \in accepted : a.session = q.session =>
          a.seq < active_sessions[q.session].recv_seq /\ a.seq \in Nat
    BY <1>1, <1>2, Types DEF IInv, Shapes, TablesInv
  <2> HIDE DEF e
  <2> QED  BY <1>1, <1>2, <2>1, <2>2
<1>4. Append(QueueOf(e.to), e) \in Seq(EnvelopeType)
  BY <1>2, QueueTypes
<1>5. \A u \in User : QueueOf(u)' = IF u = e.to THEN Append(QueueOf(u), e) ELSE QueueOf(u)
  <2>1. \A u \in User : message_queues'[u] =
          IF u = e.to THEN Append(QueueOf(e.to), e) ELSE message_queues[u]
    BY <1>1 DEF IInv, Shapes
  <2>2. Append(QueueOf(e.to), e) # None
    BY <1>4, NoneAssumption
  <2> QED  BY <2>1, <2>2 DEF QueueOf
<1> QED  BY <1>1, <1>2, <1>3, <1>5

LEMMA PollMessagesQueues ==
  ASSUME IInv, NEW q \in requests, PollMessages(q)
  PROVE  /\ q.user \in User /\ Polled(q.user) /\ UNCHANGED accepted
         /\ \A u \in User : QueueOf(u)' = IF u = q.user THEN <<>> ELSE QueueOf(u)
<1> DEFINE F == [ok |-> TRUE, messages |-> message_queues[q.user]]
           x == Merge([to |-> q.from], F)
<1>1. /\ q.type = "poll" /\ message_queues[q.user] # None /\ Reply(q, F)
      /\ message_queues' = [message_queues EXCEPT ![q.user] = <<>>]
      /\ UNCHANGED accepted
  BY DEF PollMessages
<1>2. q.user \in User
  BY <1>1, Types, RequestFields
<1>3. \A u \in User : QueueOf(u)' = IF u = q.user THEN <<>> ELSE QueueOf(u)
  BY <1>1, <1>2 DEF IInv, Shapes, QueueOf
<1>4. x.to = q.from /\ x.ok /\ x.messages = QueueOf(q.user)
  BY <1>1 DEF Merge, QueueOf
<1>5. call[q.from] = q => x \in replies'
  BY <1>1 DEF Reply
<1> HIDE DEF x
<1>6. Polled(q.user)
  BY <1>1, <1>2, <1>3, <1>4, <1>5 DEF Polled
<1> QED  BY <1>1, <1>2, <1>3, <1>6

LEMMA RegisterQueues ==
  ASSUME IInv, NEW q \in requests, Register(q)
  PROVE  /\ q.user \in User /\ registered_users[q.user] = None /\ UNCHANGED accepted
         /\ \A u \in User : QueueOf(u)' = IF u = q.user THEN <<>> ELSE QueueOf(u)
<1>1. /\ q.type = "register" /\ registered_users[q.user] = None /\ UNCHANGED accepted
      /\ message_queues' = [message_queues EXCEPT ![q.user] = <<>>]
  BY DEF Register
<1>2. q.user \in User
  BY <1>1, Types, RequestFields
<1>3. \A u \in User : QueueOf(u)' = IF u = q.user THEN <<>> ELSE QueueOf(u)
  BY <1>1, <1>2 DEF IInv, Shapes, QueueOf
<1> QED  BY <1>1, <1>2, <1>3

LEMMA RestartQueues ==
  ASSUME IInv, Restart
  PROVE  epoch' # epoch /\ UNCHANGED accepted /\ \A u \in User : QueueOf(u)' = <<>>
BY Types DEF Restart, QueueOf

LEMMA OtherQueues ==
  ASSUME [Next]_vars, ~Restart,
         \A q \in requests : ~SendMessage(q) /\ ~PollMessages(q) /\ ~Register(q)
  PROVE  UNCHANGED <<message_queues, accepted>>
<1>1. CASE ServerStep
  <2>1. PICK q \in requests : Serve(q) \/ HandshakeFinishRefused(q)
    BY <1>1 DEF ServerStep
  <2> QED  BY <2>1 DEF Serve, HandshakeFinishRefused, RegisterConflict, GetCaPublicKey, HandshakeHello,
              HandshakeHelloRefused, HandshakeFinish, HandshakeNotFound, MessageRefused,
              PollUnknown, CloseSession, serverVars
<1>2. CASE \E c \in Client : ClientStep(c)
  BY <1>2 DEF ClientStep, serverVars
<1>3. CASE UNCHANGED vars
  BY <1>3 DEF vars, serverVars
<1> QED  BY <1>1, <1>2, <1>3 DEF Next

(* A step accepts one envelope or empties some mailboxes, as Relay says.    *)
LEMMA RelayStep ==
  ASSUME IInv, [Next]_vars
  PROVE  [R!Next]_(R!vars)
<1> DEFINE mailbox == [u \in User |-> QueueOf(u)]
<1>1. ASSUME NEW q \in requests, SendMessage(q)
      PROVE  R!Accept(q.envelope) /\ q.envelope \in EnvelopeType
  BY <1>1, SendMessageQueues DEF R!Accept
<1>2. ASSUME NEW U \in SUBSET User, UNCHANGED accepted,
             \A u \in User : QueueOf(u)' = IF u \in U THEN <<>> ELSE QueueOf(u)
      PROVE  R!Empty
  BY <1>2 DEF R!Empty
<1>3. ASSUME NEW q \in requests, PollMessages(q) \/ Register(q)
      PROVE  R!Empty
  <2>1. /\ {q.user} \in SUBSET User /\ UNCHANGED accepted
        /\ \A u \in User : QueueOf(u)' = IF u \in {q.user} THEN <<>> ELSE QueueOf(u)
    BY <1>3, PollMessagesQueues, RegisterQueues
  <2> QED  BY <1>2, <2>1
<1>4. CASE Restart
  <2>1. /\ UNCHANGED accepted
        /\ \A u \in User : QueueOf(u)' = IF u \in User THEN <<>> ELSE QueueOf(u)
    BY <1>4, RestartQueues
  <2> QED  BY <1>2, <2>1 DEF R!Next
<1>5. CASE UNCHANGED <<message_queues, accepted>>
  BY <1>5 DEF R!vars, QueueOf
<1> QED  BY <1>1, <1>3, <1>4, <1>5, OtherQueues DEF R!Next

(* Whatever is repeated, delayed or lost, the server relays an envelope at  *)
(* most once and after those before it in its session, and takes envelopes *)
(* out of a queue only all at once: send_message and poll_messages of       *)
(* server/app.py implement Relay.                                          *)
THEOREM RelayImplemented == Spec => RelayRefinement
<1>1. ASSUME Init PROVE R!Init
  BY <1>1 DEF Init, R!Init, QueueOf
<1>2. IInv /\ [Next]_vars => [R!Next]_(R!vars)
  BY RelayStep
<1> QED  BY <1>1, <1>2, SpecIInv, PTL DEF Spec, RelayRefinement, R!Spec

(* What is proved of Relay, of the queues of the server.                   *)
RP == INSTANCE RelayProofs WITH
        mailbox <- [u \in User |-> QueueOf(u)],
        Envelope <- EnvelopeType

(* A queue holds only messages to its user, those of one session in the     *)
(* order in which they were sent and none twice, and the server accepts no *)
(* two messages under one number of a session: send_message of the server. *)
THEOREM QueuesStayInOrder == Spec => []R!MailboxesInOrder
<1>1. R!Init => RP!Init
  BY DEF R!Init, RP!Init
<1>2. [R!Next]_(R!vars) => [RP!Next]_(RP!vars)
  BY DEF R!Next, R!vars, R!Accept, R!Empty, RP!Next, RP!vars, RP!Accept, RP!Empty
<1>3. RP!MailboxesInOrder => R!MailboxesInOrder
  BY DEF R!MailboxesInOrder, RP!MailboxesInOrder
<1>4. RP!Spec => []RP!MailboxesInOrder
  BY RP!StaysInOrder
<1> QED  BY <1>1, <1>2, <1>3, <1>4, RelayImplemented, PTL DEF RelayRefinement, R!Spec, RP!Spec

(* While the server runs, the queue of a registered user only grows at its  *)
(* end, unless a poll takes all of it: register, send_message and          *)
(* poll_messages of server/app.py.                                         *)
THEOREM QueuesOfRegistered == Spec => QueuesOfRegisteredKept
<1>1. ASSUME IInv, [Next]_vars, epoch' = epoch, NEW u \in User, registered_users[u] # None
      PROVE  QueueKept(u)
  <2>1. QueueOf(u) \in Seq(EnvelopeType) /\ IsPrefix(QueueOf(u), QueueOf(u))
    BY <1>1, QueueTypes
  <2>2. ASSUME NEW q \in requests, SendMessage(q)
        PROVE  QueueKept(u)
    <3>1. /\ q.envelope \in EnvelopeType
          /\ QueueOf(u)' = IF u = q.envelope.to
                           THEN Append(QueueOf(u), q.envelope) ELSE QueueOf(u)
      BY <1>1, <2>2, SendMessageQueues
    <3>2. IsPrefix(QueueOf(u), Append(QueueOf(u), q.envelope))
      BY <2>1, <3>1, AppendFacts
    <3> QED  BY <2>1, <3>1, <3>2 DEF QueueKept
  <2>3. ASSUME NEW q \in requests, PollMessages(q)
        PROVE  QueueKept(u)
    BY <1>1, <2>1, <2>3, PollMessagesQueues DEF QueueKept
  <2>4. ASSUME NEW q \in requests, Register(q)
        PROVE  QueueKept(u)
    BY <1>1, <2>1, <2>4, RegisterQueues DEF QueueKept
  <2>5. CASE UNCHANGED <<message_queues, accepted>>
    <3>1. QueueOf(u)' = QueueOf(u)
      BY <2>5 DEF QueueOf
    <3> QED  BY <2>1, <3>1 DEF QueueKept
  <2> QED  BY <1>1, <2>2, <2>3, <2>4, <2>5, OtherQueues, RestartQueues
<1>2. IInv /\ [Next]_vars =>
        [epoch' = epoch => \A u \in User : registered_users[u] # None => QueueKept(u)]_vars
  BY <1>1
<1> QED  BY <1>2, SpecIInv, PTL DEF Spec, QueuesOfRegisteredKept
-----------------------------------------------------------------------------
(* The CA of a session.  From the answer to the hello on, what c holds, what *)
(* it is told and what the server keeps of the handshake are of one CA.    *)

UnderOneCA(c) ==
  /\ call[c] # None /\ call[c].type = "hello" =>
       identity[c] # None /\ call[c].cert = identity[c]
  /\ \A r \in Answers(c, "hello") :
       /\ r.ca = call[c].cert.ca
       /\ \A p \in pending_handshakes : p.id = r.id => epoch = r.ca
  /\ call[c] # None /\ call[c].type = "finish" =>
       /\ identity[c] # None /\ identity[c].ca = ca_pk[c]
       /\ \A p \in pending_handshakes : p.id = call[c].id => epoch = ca_pk[c]
  /\ \A r \in Answers(c, "finish") : r.epoch = ca_pk[c]

CaInv == \A c \in Client : UnderOneCA(c)

(* A client that does nothing, beside a server that opens no handshake.     *)
LEMMA CaKept ==
  ASSUME NEW c \in Client, UnderOneCA(c),
         call'[c] = call[c], identity'[c] = identity[c], ca_pk'[c] = ca_pk[c],
         Answers(c, "hello")' \subseteq Answers(c, "hello"),
         Answers(c, "finish")' \subseteq Answers(c, "finish"),
         \/ epoch' = epoch /\ pending_handshakes' \subseteq pending_handshakes
         \/ pending_handshakes' = {}
  PROVE  UnderOneCA(c)'
BY DEF UnderOneCA

(* The handshake that is opened has an id that nobody knows yet.            *)
LEMMA HandshakeHelloCa ==
  ASSUME IInv, CaInv, NEW q \in requests, HandshakeHello(q), UNCHANGED clientVars
  PROVE  CaInv'
<1> DEFINE h == hellos + 1
           F == [ok |-> TRUE, id |-> h, ca |-> epoch]
           x == Merge([to |-> q.from], F)
<1>1. /\ Reply(q, F) /\ q.type = "hello" /\ q.cert.ca = epoch /\ epoch' = epoch
      /\ \A p \in pending_handshakes' : p \in pending_handshakes \/ p.id = h
  BY DEF HandshakeHello
<1>2. x.id = h /\ x.ca = epoch
  BY DEF Merge
<1>3. /\ UNCHANGED <<call, identity, ca_pk>>
      /\ \A c \in Client :
           /\ Answers(c, "finish")' \subseteq Answers(c, "finish")
           /\ \A r \in Answers(c, "hello")' :
                r \in Answers(c, "hello") \/ (call[c] = q /\ r = x)
  <2> HIDE DEF F
  <2> QED  BY <1>1, ReplyAdds DEF Kind, clientVars
<1>4. /\ \A p \in pending_handshakes : p.id # h
      /\ \A c \in Client : \A r \in Answers(c, "hello") : r.id # h
      /\ \A c \in Client : call[c] # None /\ call[c].type = "finish" => call[c].id # h
  <2>1. \A i \in 1..hellos : i # h
    BY Types
  <2>2. \A c \in Client : call[c] # None /\ call[c].type = "finish" =>
          call[c].id \in HandshakeId /\ call[c].id <= hellos
    BY Types, RequestFields DEF IInv, RequestsInv, Finishes
  <2>3. \A i \in HandshakeId : i <= hellos => i # h
    BY Types DEF HandshakeId
  <2> HIDE DEF h
  <2> QED  BY <2>1, <2>2, <2>3 DEF IInv, Shapes, RepliesInv, HelloAnswersInv
<1> HIDE DEF h, F, x
<1> SUFFICES ASSUME NEW c \in Client
             PROVE  UnderOneCA(c)'
  BY DEF CaInv
<1>5. \A r \in Answers(c, "hello")' :
        /\ r.ca = call[c].cert.ca
        /\ \A p \in pending_handshakes' : p.id = r.id => epoch = r.ca
  <2> SUFFICES ASSUME NEW r \in Answers(c, "hello")'
               PROVE  /\ r.ca = call[c].cert.ca
                      /\ \A p \in pending_handshakes' : p.id = r.id => epoch = r.ca
    OBVIOUS
  <2>1. CASE r \in Answers(c, "hello")
    BY <1>1, <1>4, <2>1 DEF CaInv, UnderOneCA
  <2>2. CASE call[c] = q /\ r = x
    BY <1>1, <1>2, <2>2
  <2> QED  BY <1>3, <2>1, <2>2
<1> QED  BY <1>1, <1>3, <1>4, <1>5 DEF CaInv, UnderOneCA

(* Who waits for the confirmation has the CA key of the server process that *)
(* kept the handshake.                                                     *)
LEMMA HandshakeFinishCa ==
  ASSUME IInv, CaInv, NEW q \in requests, HandshakeFinish(q), UNCHANGED clientVars
  PROVE  CaInv'
<1> DEFINE F == [ok |-> TRUE, id |-> q.id, epoch |-> epoch]
           x == Merge([to |-> q.from], F)
<1>1. /\ Reply(q, F) /\ q.type = "finish" /\ epoch' = epoch
      /\ pending_handshakes' \subseteq pending_handshakes
      /\ \E p \in pending_handshakes : p.id = q.id
  BY DEF HandshakeFinish
<1>2. x.epoch = epoch
  BY DEF Merge
<1>3. /\ UNCHANGED <<call, identity, ca_pk>>
      /\ \A c \in Client :
           /\ Answers(c, "hello")' \subseteq Answers(c, "hello")
           /\ \A r \in Answers(c, "finish")' :
                r \in Answers(c, "finish") \/ (call[c] = q /\ r = x)
  <2> HIDE DEF F
  <2> QED  BY <1>1, ReplyAdds DEF Kind, clientVars
<1> HIDE DEF F, x
<1> SUFFICES ASSUME NEW c \in Client
             PROVE  UnderOneCA(c)'
  BY DEF CaInv
<1>4. call[c] = q => epoch = ca_pk[c]
  <2>1. q # None
    BY Types, NoneAssumption
  <2> QED  BY <1>1, <2>1 DEF CaInv, UnderOneCA
<1>5. \A r \in Answers(c, "finish")' : r.epoch = ca_pk[c]
  BY <1>2, <1>3, <1>4 DEF CaInv, UnderOneCA
<1> QED  BY <1>1, <1>3, <1>5 DEF CaInv, UnderOneCA

LEMMA ServerStepCa ==
  ASSUME IInv, CaInv, ServerStep
  PROVE  CaInv'
<1>1. PICK q \in requests : (Serve(q) \/ HandshakeFinishRefused(q)) /\ UNCHANGED clientVars
  BY DEF ServerStep
<1>2. ASSUME /\ UNCHANGED <<epoch, call>>
             /\ pending_handshakes' \subseteq pending_handshakes
             /\ \A c \in Client : /\ Answers(c, "hello")' \subseteq Answers(c, "hello")
                                   /\ Answers(c, "finish")' \subseteq Answers(c, "finish")
      PROVE  CaInv'
  BY <1>1, <1>2, CaKept DEF CaInv, clientVars
<1>3. CASE \/ RegisterConflict(q) \/ HandshakeHelloRefused(q) \/ HandshakeNotFound(q)
           \/ MessageRefused(q) \/ PollUnknown(q) \/ HandshakeFinishRefused(q)
  <2>1. Error(q) /\ epoch' = epoch /\ pending_handshakes' \subseteq pending_handshakes
    BY <1>3 DEF RegisterConflict, HandshakeHelloRefused, HandshakeNotFound, MessageRefused,
       PollUnknown, HandshakeFinishRefused, serverVars
  <2>2. NoNewAnswers /\ call' = call
    BY <2>1, PlainReply DEF Error
  <2> QED  BY <1>2, <2>1, <2>2, NoneNew
<1>4. CASE Register(q) \/ GetCaPublicKey(q)
  <2>1. /\ q.type \in {"register", "ca-public-key"} /\ UNCHANGED <<epoch, pending_handshakes>>
        /\ \E F : Reply(q, F)
    BY <1>4 DEF Register, GetCaPublicKey, serverVars
  <2>2. PICK F : Reply(q, F)
    BY <2>1
  <2>3. \A c \in Client : /\ Answers(c, "hello")' \subseteq Answers(c, "hello")
                          /\ Answers(c, "finish")' \subseteq Answers(c, "finish")
    BY <2>1, <2>2, ReplyAdds DEF Kind
  <2> QED  BY <1>2, <2>1, <2>2, <2>3, ReplyAdds
<1>5. CASE SendMessage(q) \/ PollMessages(q)
  <2>1. /\ q.type \notin Kind /\ UNCHANGED <<epoch, pending_handshakes>>
        /\ \E F : Reply(q, F)
    BY <1>5 DEF SendMessage, PollMessages, Kind
  <2>2. PICK F : Reply(q, F)
    BY <2>1
  <2> QED  BY <1>2, <2>1, <2>2, PlainReply, NoneNew
<1>6. CASE CloseSession(q)
  <2>1. UNCHANGED <<epoch, pending_handshakes, call, replies>>
    BY <1>6 DEF CloseSession, httpVars
  <2> QED  BY <1>2, <2>1 DEF Answers
<1> QED  BY <1>1, <1>3, <1>4, <1>5, <1>6, HandshakeHelloCa, HandshakeFinishCa DEF Serve

(* Steps of a client that neither ask for a session nor wait for one.       *)
LEMMA OwnCa ==
  ASSUME IInv, CaInv, NEW c \in Client, UNCHANGED serverVars, Leaves(c),
         call'[c] # None => call'[c].type \notin {"hello", "finish"},
         \A d \in Client \ {c} : identity'[d] = identity[d] /\ ca_pk'[d] = ca_pk[d]
  PROVE  CaInv'
<1> SUFFICES ASSUME NEW d \in Client
             PROVE  UnderOneCA(d)'
  BY DEF CaInv
<1>1. CASE d = c
  BY <1>1 DEF UnderOneCA, Leaves, Kind
<1>2. CASE d # c
  BY <1>2, CaKept, NoneNew DEF CaInv, Leaves, serverVars
<1> QED  BY <1>1, <1>2

(* A request is sent: its fields.                                          *)
LEMMA Posted ==
  ASSUME IInv, NEW c \in Client, NEW F, Post(c, F), "type" \in DOMAIN F,
         "id" \in DOMAIN F \/ F.type # "finish", "cert" \in DOMAIN F \/ F.type # "hello"
  PROVE  /\ Leaves(c)
         /\ call'[c] # None => call'[c].type = F.type
         /\ F.type = "finish" => call'[c].id = F.id
         /\ F.type = "hello" => call'[c].cert = F.cert
<1>1. /\ call' = [call EXCEPT ![c] = Request(c, F)]
      /\ replies' = {r \in replies : r.to # c}
  BY DEF Post
<1>2. /\ call'[c] = Request(c, F)
      /\ \A d \in Client \ {c} : call'[d] = call[d]
  BY <1>1 DEF IInv, Shapes
<1>3. Leaves(c)
  BY <1>1, <1>2, DropsReplies
<1> QED  BY <1>2, <1>3 DEF Request, Merge

LEMMA ClientCallCa ==
  ASSUME IInv, CaInv, NEW c \in Client, ClientCall(c), UNCHANGED serverVars
  PROVE  CaInv'
<1>1. CASE StartConnect(c)
  <2> DEFINE F == [type |-> "hello", cert |-> identity[c]]
  <2>0. {"type", "cert"} \subseteq DOMAIN F /\ F.type = "hello" /\ F.cert = identity[c]
    OBVIOUS
  <2>1. Post(c, F) /\ identity[c] # None /\ UNCHANGED <<identity, ca_pk>>
    BY <1>1 DEF StartConnect, clientVars
  <2>2. Leaves(c) /\ (call'[c] # None => call'[c].type = "hello") /\ call'[c].cert = identity[c]
    <3> HIDE DEF F
    <3> QED  BY <2>0, <2>1, Posted
  <2> SUFFICES ASSUME NEW d \in Client
               PROVE  UnderOneCA(d)'
    BY DEF CaInv
  <2>3. CASE d = c
    BY <2>1, <2>2, <2>3 DEF UnderOneCA, Leaves, Kind
  <2>4. CASE d # c
    BY <2>1, <2>2, <2>4, CaKept, NoneNew DEF CaInv, Leaves, serverVars
  <2> QED  BY <2>3, <2>4
<1>2. CASE ~StartConnect(c)
  <2> DEFINE K == {"register", "ca-public-key", "message", "poll"}
             P(F) == Post(c, F) /\ "type" \in DOMAIN F /\ F.type \in K
  <2>1. /\ \A d \in Client \ {c} : identity'[d] = identity[d] /\ ca_pk'[d] = ca_pk[d]
        /\ \E F : P(F)
    <3>1. CASE StartRegister(c)
      <4>1. P([type |-> "register", user |-> UserOf[c], key |-> <<c, calls[c] + 1>>])
        BY <3>1 DEF StartRegister
      <4> HIDE DEF P
      <4> QED  BY <3>1, <4>1 DEF StartRegister, clientVars
    <3>2. CASE StartLoadIdentity(c)
      <4>1. P([type |-> "ca-public-key"])
        BY <3>2 DEF StartLoadIdentity
      <4> HIDE DEF P
      <4> QED  BY <3>2, <4>1 DEF StartLoadIdentity, IInv, Shapes
    <3>3. CASE StartReceive(c)
      <4>1. P([type |-> "poll", user |-> UserOf[c]])
        BY <3>3 DEF StartReceive
      <4> HIDE DEF P
      <4> QED  BY <3>3, <4>1 DEF StartReceive, clientVars
    <3>4. ASSUME NEW u \in User, Send(c, u)
          PROVE  /\ \A d \in Client \ {c} : identity'[d] = identity[d] /\ ca_pk'[d] = ca_pk[d]
                 /\ \E F : P(F)
      <4>1. P([type |-> "message", session |-> session[c].id,
               envelope |-> [session |-> session[c].id, seq |-> session[c].send_seq,
                             sender |-> UserOf[c], to |-> u]])
        BY <3>4 DEF Send
      <4> HIDE DEF P
      <4> QED  BY <3>4, <4>1 DEF Send
    <3> QED  BY <1>2, <3>1, <3>2, <3>3, <3>4 DEF ClientCall
  <2>2. PICK F : P(F)
    BY <2>1
  <2>3. Leaves(c) /\ (call'[c] # None => call'[c].type = F.type)
    BY <2>2, Posted
  <2>4. call'[c] # None => call'[c].type \notin {"hello", "finish"}
    BY <2>2, <2>3
  <2> HIDE DEF P
  <2> QED  BY <2>1, <2>3, <2>4, OwnCa
<1> QED  BY <1>1, <1>2

(* The hello was answered by the CA that c has the key of; if that server   *)
(* process still runs, it has kept the handshake.                          *)
LEMMA ContinueConnectCa ==
  ASSUME IInv, CaInv, NEW c \in Client, NEW r \in replies, r.to = c, ContinueConnect(c, r),
         UNCHANGED serverVars
  PROVE  CaInv'
<1> DEFINE F == [type |-> "finish", id |-> r.id]
<1>0. {"type", "id"} \subseteq DOMAIN F /\ F.type = "finish" /\ F.id = r.id
  OBVIOUS
<1>1. /\ Post(c, F) /\ UNCHANGED clientVars /\ r \in Answers(c, "hello") /\ r.ca = ca_pk[c]
  BY DEF ContinueConnect, Answers
<1> HIDE DEF F
<1>2. Leaves(c) /\ (call'[c] # None => call'[c].type = "finish") /\ call'[c].id = r.id
  BY <1>0, <1>1, Posted
<1>3. /\ identity[c] # None /\ identity[c].ca = ca_pk[c]
      /\ \A p \in pending_handshakes : p.id = r.id => epoch = ca_pk[c]
  <2>1. call[c] # None /\ call[c].type = "hello"
    BY <1>1 DEF Answers, IInv, RepliesInv, WaitingInv
  <2> QED  BY <1>1, <2>1 DEF CaInv, UnderOneCA
<1> SUFFICES ASSUME NEW d \in Client
             PROVE  UnderOneCA(d)'
  BY DEF CaInv
<1>4. CASE d = c
  BY <1>1, <1>2, <1>3, <1>4 DEF UnderOneCA, Leaves, Kind, serverVars, clientVars
<1>5. CASE d # c
  BY <1>1, <1>2, <1>5, CaKept, NoneNew DEF CaInv, Leaves, serverVars, clientVars
<1> QED  BY <1>4, <1>5

LEMMA ClientStepCa ==
  ASSUME IInv, CaInv, NEW c \in Client, ClientStep(c)
  PROVE  CaInv'
<1>1. UNCHANGED serverVars
  BY DEF ClientStep
<1>2. ASSUME Return(c), \A d \in Client \ {c} : identity'[d] = identity[d] /\ ca_pk'[d] = ca_pk[d]
      PROVE  CaInv'
  <2>1. /\ call' = [call EXCEPT ![c] = None]
        /\ replies' = {r \in replies : r.to # c}
    BY <1>2 DEF Return
  <2>2. call'[c] = None /\ \A d \in Client \ {c} : call'[d] = call[d]
    BY <2>1 DEF IInv, Shapes
  <2> QED  BY <1>1, <1>2, <2>1, <2>2, DropsReplies, OwnCa
<1>3. CASE ClientCall(c)
  BY <1>1, <1>3, ClientCallCa
<1>4. CASE ClientReply(c)
  <2>1. PICK r \in replies : r.to = c /\ Consume(c, r)
    BY <1>4 DEF ClientReply
  <2>2. CASE ContinueConnect(c, r)
    BY <1>1, <2>1, <2>2, ContinueConnectCa
  <2>3. CASE ~ContinueConnect(c, r)
    BY <1>2, <2>1, <2>3 DEF Consume, FinishRegister, FinishLoadIdentity, FinishConnect,
       FinishSend, FinishReceive, Fail, clientVars, IInv, Shapes
  <2> QED  BY <2>2, <2>3
<1>5. CASE Timeout(c) \/ Crash(c)
  BY <1>2, <1>5 DEF Timeout, Crash, clientVars, IInv, Shapes
<1>6. CASE Close(c)
  <2>1. /\ call[c] = None /\ UNCHANGED <<call, replies>>
        /\ \A d \in Client \ {c} : identity'[d] = identity[d] /\ ca_pk'[d] = ca_pk[d]
    BY <1>6 DEF Close, IInv, Shapes
  <2>2. replies' = {r \in replies : r.to # c}
    BY <2>1 DEF IInv, RepliesInv, WaitingInv
  <2> QED  BY <1>1, <2>1, <2>2, DropsReplies, OwnCa
<1> QED  BY <1>3, <1>4, <1>5, <1>6 DEF ClientStep

LEMMA NextCa ==
  ASSUME IInv, CaInv, [Next]_vars
  PROVE  CaInv'
<1>1. CASE ServerStep
  BY <1>1, ServerStepCa
<1>2. CASE Restart
  <2>1. pending_handshakes' = {} /\ UNCHANGED <<call, replies, identity, ca_pk>>
    BY <1>2 DEF Restart, clientVars, httpVars
  <2> QED  BY <2>1, CaKept DEF CaInv, Answers
<1>3. CASE \E c \in Client : ClientStep(c)
  BY <1>3, ClientStepCa
<1>4. CASE UNCHANGED vars
  BY <1>4, CaKept DEF CaInv, Answers, vars, serverVars, clientVars, httpVars
<1> QED  BY <1>1, <1>2, <1>3, <1>4 DEF Next

(* Only FinishConnect gives c a session that it did not have.               *)
LEMMA SessionOf ==
  ASSUME IInv, Next, NEW c \in Client, session'[c] # None,
         session[c] = None \/ session[c].id # session'[c].id
  PROVE  \E r \in replies : r.to = c /\ FinishConnect(c, r)
<1>1. DOMAIN session = Client /\ (session[c] # None =>
        session[c] \in [id : 1..hellos, send_seq : Nat, epoch : 1..epoch])
  BY DEF IInv, Shapes
<1>2. session' # session
  OBVIOUS
<1>3. PICK d \in Client : ClientStep(d)
  BY <1>2 DEF Next, ServerStep, Restart, clientVars
<1>4. ASSUME NEW u \in User, Send(d, u)
      PROVE  FALSE
  <2>1. session' = [session EXCEPT ![d].send_seq = @ + 1] /\ session[d] # None
    BY <1>4 DEF Send
  <2>2. CASE c = d
    <3>1. session'[c] = [session[c] EXCEPT !.send_seq = @ + 1]
      BY <1>1, <2>1, <2>2
    <3> QED  BY <1>1, <2>1, <2>2, <3>1
  <2>3. CASE c # d
    BY <1>1, <2>1, <2>3
  <2> QED  BY <2>2, <2>3
<1>5. ~Close(d) /\ ~Crash(d) /\ ~Timeout(d)
  BY <1>1 DEF Close, Crash, Timeout, clientVars
<1>6. ~ClientCall(d)
  BY <1>2, <1>4 DEF ClientCall, StartRegister, StartLoadIdentity, StartConnect, StartReceive,
     clientVars
<1>7. PICK r \in replies : r.to = d /\ Consume(d, r)
  BY <1>3, <1>5, <1>6 DEF ClientStep, ClientReply
<1>8. FinishConnect(d, r)
  BY <1>2, <1>7 DEF Consume, FinishRegister, FinishLoadIdentity, ContinueConnect, FinishSend,
     FinishReceive, Fail, clientVars
<1>9. c = d
  BY <1>1, <1>8 DEF FinishConnect
<1> QED  BY <1>7, <1>8, <1>9

(* The server process that confirms a session is the one whose CA key the   *)
(* client has and the one that issued the certificate it connects with, *)
(* however restarts fall between the requests of register, load_identity   *)
(* and connect of client.py and whichever replies come late.               *)
THEOREM SessionsHaveOneCA == Spec => SessionsUnderOneCA
<1>1. Init => CaInv
  BY DEF Init, CaInv, UnderOneCA, Answers
<1>2. IInv /\ CaInv /\ [Next]_vars => CaInv'
  BY NextCa
<1>3. ASSUME IInv, CaInv, Next, NEW c \in Client, session'[c] # None,
             session[c] = None \/ session[c].id # session'[c].id
      PROVE  identity[c] # None /\ session'[c].epoch = ca_pk[c] /\ session'[c].epoch = identity[c].ca
  <2>2. PICK r \in replies : r.to = c /\ FinishConnect(c, r)
    BY <1>3, SessionOf
  <2>3. r \in Answers(c, "finish") /\ session'[c].epoch = r.epoch
    BY <1>3, <2>2 DEF FinishConnect, Answers, IInv, Shapes
  <2>4. call[c] # None /\ call[c].type = "finish"
    BY <1>3, <2>3 DEF Answers, IInv, RepliesInv, WaitingInv
  <2> QED  BY <1>3, <2>3, <2>4 DEF CaInv, UnderOneCA
<1>4. IInv /\ CaInv /\ [Next]_vars =>
        [\A c \in Client :
           LET s == session'[c]
           IN  s # None /\ (session[c] = None \/ session[c].id # s.id) =>
                 /\ identity[c] # None
                 /\ s.epoch = ca_pk[c]
                 /\ s.epoch = identity[c].ca]_vars
  BY <1>3
<1> QED  BY <1>1, <1>2, <1>4, SpecIInv, PTL DEF Spec, SessionsUnderOneCA
=============================================================================
