----------------------------- MODULE Messenger -----------------------------
(***************************************************************************)
(* server/app.py and client/client.py: PQMessengerClient processes calling *)
(* the server's routes over HTTP.                                          *)
(*                                                                         *)
(* A request may reach the server late, never, or (an intermediary that    *)
(* retries) more than once; a reply may be lost or come after the client   *)
(* has given up.  A route has no await in its body, so a request is one    *)
(* atomic step of the server; a client call is one step per message, and a *)
(* client runs one call at a time.  The server may restart and a client    *)
(* process may die at any moment.                                          *)
(*                                                                         *)
(* Handshake shows that honest parties agree on the session of a           *)
(* handshake; here that session is named by the handshake_id, the time     *)
(* limits of hellos and envelopes are left out, and every public key has   *)
(* the right size.                                                         *)
(***************************************************************************)
EXTENDS Integers, Sequences, SequencesExt

CONSTANTS
  Client,      \* installations of the client program
  User,        \* user_ids, other than "server"
  UserOf,      \* UserOf[c]: the user_id that c registers
  None,        \* Python's None and absent dictionary entries
  MaxCalls,    \* bound: MaxCalls[c], the requests after which c starts no call
  MaxHello,    \* bound: ClientHellos that the server processes
  MaxEpoch     \* bound: the number of server processes

ASSUME MessengerAssumption ==
  /\ UserOf \in [Client -> User]
  /\ MaxCalls \in [Client -> Nat]
  /\ MaxHello \in Nat
  /\ MaxEpoch \in Nat \ {0}

(* An envelope that some installation may send, a certificate of one of the *)
(* first e server processes, the server's entry for a session, a request.  *)
HandshakeId == 1..MaxHello
EnvelopeType ==
  UNION {[session : HandshakeId, seq : 1..MaxCalls[c], sender : {UserOf[c]}, to : User] :
           c \in Client}
Certificate(e) == [user : User, key : Client \X Nat, ca : 1..e]
SessionType == [user : User, recv_seq : Nat]
RequestType ==
       [from : Client, n : Nat, type : {"register"}, user : User, key : Client \X Nat]
  \cup [from : Client, n : Nat, type : {"ca-public-key"}]
  \cup [from : Client, n : Nat, type : {"hello"}, cert : Certificate(MaxEpoch)]
  \cup [from : Client, n : Nat, type : {"finish"}, id : HandshakeId]
  \cup [from : Client, n : Nat, type : {"message"}, session : HandshakeId,
        envelope : EnvelopeType]
  \cup [from : Client, n : Nat, type : {"poll"}, user : User]
  \cup [from : Client, n : Nat, type : {"delete"}, session : HandshakeId]

(* None is told apart from what stands in its place.                       *)
ASSUME NoneAssumption ==
  /\ None \notin Client \X Nat
  /\ None \notin SessionType
  /\ None \notin Seq(EnvelopeType)
  /\ None \notin RequestType

VARIABLES
  epoch,               \* which server process runs, and so which CA key exists
  registered_users,    \* registered_users[u]: certificate (its key), or None
  message_queues,      \* message_queues[u]: envelopes, or None
  pending_handshakes,  \* handshakes waiting for a ClientFinished
  active_sessions,     \* active_sessions[h]: the server's Session, or None
  hellos,              \* handshake_ids given out so far
  disk,                \* disk[c]: the identity in c's key file, or None
  identity,            \* identity[c]: client._identity, or None
  ca_pk,               \* ca_pk[c]: client._ca_pk, named by its epoch, or None
  session,             \* session[c]: client._session, or None
  calls, call,         \* requests c has made, the one it waits for or None
  requests,            \* every request ever sent
  replies,             \* replies on their way to clients that still wait
  accepted             \* history: envelopes that were put into a queue

serverVars == <<epoch, registered_users, message_queues, pending_handshakes,
                active_sessions, hellos, accepted>>
clientVars == <<disk, identity, ca_pk, session>>
httpVars == <<calls, call, requests, replies>>
vars == <<serverVars, clientVars, httpVars>>

-----------------------------------------------------------------------------
Init ==
  /\ epoch = 1
  /\ registered_users = [u \in User |-> None]
  /\ message_queues = [u \in User |-> None]
  /\ pending_handshakes = {}
  /\ active_sessions = [h \in HandshakeId |-> None]
  /\ hellos = 0
  /\ disk = [c \in Client |-> None]
  /\ identity = [c \in Client |-> None]
  /\ ca_pk = [c \in Client |-> None]
  /\ session = [c \in Client |-> None]
  /\ calls = [c \in Client |-> 0]
  /\ call = [c \in Client |-> None]
  /\ requests = {}
  /\ replies = {}
  /\ accepted = {}
-----------------------------------------------------------------------------
(* HTTP.  A request is named by its client and its number.                 *)

(* The fields of both records: f @@ g, defined for the provers.             *)
Merge(f, g) ==
  [x \in DOMAIN f \cup DOMAIN g |-> IF x \in DOMAIN f THEN f[x] ELSE g[x]]

Request(c, fields) == Merge([from |-> c, n |-> calls[c] + 1], fields)

Post(c, fields) ==
  /\ requests' = requests \cup {Request(c, fields)}
  /\ call' = [call EXCEPT ![c] = Request(c, fields)]
  /\ calls' = [calls EXCEPT ![c] = @ + 1]
  /\ replies' = {r \in replies : r.to # c}

Idle(c) == call[c] = None /\ calls[c] < MaxCalls[c]

(* The server's answer, discarded when nobody waits for it any more.       *)
Reply(q, fields) ==
  /\ replies' = IF call[q.from] = q
                THEN replies \cup {Merge([to |-> q.from], fields)} ELSE replies
  /\ UNCHANGED <<calls, call, requests>>

Error(q) == Reply(q, [ok |-> FALSE])

(* The call of c returns, or raises.                                       *)
Return(c) ==
  /\ call' = [call EXCEPT ![c] = None]
  /\ replies' = {r \in replies : r.to # c}
  /\ UNCHANGED <<calls, requests>>
-----------------------------------------------------------------------------
(* Routes of the server.                                                   *)

\* Mutant: a second registration replaces the first.
RegisterAgain(q) ==
  /\ q.type = "register"
  /\ registered_users' = [registered_users EXCEPT ![q.user] = q.key]
  /\ message_queues' = [message_queues EXCEPT ![q.user] = <<>>]
  /\ Reply(q, [ok |-> TRUE, cert |-> [user |-> q.user, key |-> q.key, ca |-> epoch]])
  /\ UNCHANGED <<epoch, pending_handshakes, active_sessions, hellos, accepted>>

Register(q) ==
  /\ q.type = "register"
  /\ registered_users[q.user] = None
  /\ registered_users' = [registered_users EXCEPT ![q.user] = q.key]
  /\ message_queues' = [message_queues EXCEPT ![q.user] = <<>>]
  /\ Reply(q, [ok |-> TRUE, cert |-> [user |-> q.user, key |-> q.key, ca |-> epoch]])
  /\ UNCHANGED <<epoch, pending_handshakes, active_sessions, hellos, accepted>>

RegisterConflict(q) ==
  /\ q.type = "register"
  /\ registered_users[q.user] # None
  /\ Error(q)
  /\ UNCHANGED serverVars

(* GET /ca-public-key.                                                     *)
GetCaPublicKey(q) ==
  /\ q.type = "ca-public-key"
  /\ Reply(q, [ok |-> TRUE, ca |-> epoch])
  /\ UNCHANGED serverVars

\* Mutant: the handshake is stored under the previous id.
HandshakeHelloOffByOne(q) ==
  /\ q.type = "hello"
  /\ q.cert.ca = epoch
  /\ hellos < MaxHello
  /\ hellos' = hellos + 1
  /\ pending_handshakes' = pending_handshakes \cup
        {[id |-> hellos, user |-> q.cert.user]}
  /\ Reply(q, [ok |-> TRUE, id |-> hellos + 1, ca |-> epoch])
  /\ UNCHANGED <<epoch, registered_users, message_queues, active_sessions, accepted>>

(* POST /handshake/hello: a ServerHandshake of its own for every request.  *)
HandshakeHello(q) ==
  /\ q.type = "hello"
  /\ q.cert.ca = epoch
  /\ hellos < MaxHello
  /\ hellos' = hellos + 1
  /\ pending_handshakes' = pending_handshakes \cup
        {[id |-> hellos + 1, user |-> q.cert.user]}
  /\ Reply(q, [ok |-> TRUE, id |-> hellos + 1, ca |-> epoch])
  /\ UNCHANGED <<epoch, registered_users, message_queues, active_sessions, accepted>>

(* The certificate was issued by another CA: HandshakeError, status 400.   *)
HandshakeHelloRefused(q) ==
  /\ q.type = "hello"
  /\ q.cert.ca # epoch
  /\ Error(q)
  /\ UNCHANGED serverVars

\* Mutant: the handshake is looked up, not popped.
HandshakeFinishKeepsPending(q) ==
  /\ q.type = "finish"
  /\ \E hs \in pending_handshakes :
        /\ hs.id = q.id
        /\ active_sessions' = [active_sessions EXCEPT ![hs.id] =
              [user |-> hs.user, recv_seq |-> 1]]
  /\ Reply(q, [ok |-> TRUE, id |-> q.id, epoch |-> epoch])
  /\ UNCHANGED <<epoch, registered_users, message_queues, pending_handshakes,
                 hellos, accepted>>

\* Mutant: the session is confirmed before it is stored, and never stored.
HandshakeFinishNotStored(q) ==
  /\ q.type = "finish"
  /\ \E hs \in pending_handshakes :
        /\ hs.id = q.id
        /\ pending_handshakes' = pending_handshakes \ {hs}
  /\ Reply(q, [ok |-> TRUE, id |-> q.id, epoch |-> epoch])
  /\ UNCHANGED <<epoch, registered_users, message_queues, active_sessions,
                 hellos, accepted>>

(* POST /handshake/finish: the handshake is popped before it is looked at. *)
HandshakeFinish(q) ==
  /\ q.type = "finish"
  /\ \E hs \in pending_handshakes :
        /\ hs.id = q.id
        /\ pending_handshakes' = pending_handshakes \ {hs}
        /\ active_sessions' = [active_sessions EXCEPT ![hs.id] =
              [user |-> hs.user, recv_seq |-> 1]]
  /\ Reply(q, [ok |-> TRUE, id |-> q.id, epoch |-> epoch])
  /\ UNCHANGED <<epoch, registered_users, message_queues, hellos, accepted>>

(* The body is not hex, or no confirmation under the keys of the handshake: *)
(* the handshake is gone all the same.                                     *)
HandshakeFinishRefused(q) ==
  /\ q.type = "finish"
  /\ \E hs \in pending_handshakes :
        /\ hs.id = q.id
        /\ pending_handshakes' = pending_handshakes \ {hs}
  /\ Error(q)
  /\ UNCHANGED <<epoch, registered_users, message_queues, active_sessions, hellos, accepted>>

HandshakeNotFound(q) ==
  /\ q.type = "finish"
  /\ \A hs \in pending_handshakes : hs.id # q.id
  /\ Error(q)
  /\ UNCHANGED serverVars

\* Mutant: no replay check.
DecryptableNoReplay(q) ==
  /\ active_sessions[q.session] # None
  /\ q.envelope.session = q.session
  /\ q.envelope.sender = active_sessions[q.session].user

(* The checks of Session.decrypt that do not depend on time.               *)
Decryptable(q) ==
  /\ active_sessions[q.session] # None
  /\ q.envelope.session = q.session
  /\ q.envelope.sender = active_sessions[q.session].user
  /\ q.envelope.seq >= active_sessions[q.session].recv_seq

QueueOf(u) == IF message_queues[u] = None THEN <<>> ELSE message_queues[u]

\* Mutant: the window skips the number that comes next.
SendMessageSkipping(q) ==
  /\ q.type = "message"
  /\ Decryptable(q)
  /\ active_sessions' = [active_sessions EXCEPT ![q.session].recv_seq = q.envelope.seq + 2]
  /\ message_queues' = [message_queues EXCEPT ![q.envelope.to] =
        Append(QueueOf(q.envelope.to), q.envelope)]
  /\ accepted' = accepted \cup {q.envelope}
  /\ Reply(q, [ok |-> TRUE])
  /\ UNCHANGED <<epoch, registered_users, pending_handshakes, hellos>>

(* POST /message/{session_id}: decrypt, then queue for the recipient, who  *)
(* need not be registered.                                                 *)
SendMessage(q) ==
  /\ q.type = "message"
  /\ Decryptable(q)
  /\ active_sessions' = [active_sessions EXCEPT ![q.session].recv_seq = q.envelope.seq + 1]
  /\ message_queues' = [message_queues EXCEPT ![q.envelope.to] =
        Append(QueueOf(q.envelope.to), q.envelope)]
  /\ accepted' = accepted \cup {q.envelope}
  /\ Reply(q, [ok |-> TRUE])
  /\ UNCHANGED <<epoch, registered_users, pending_handshakes, hellos>>

MessageRefused(q) ==
  /\ q.type = "message"
  /\ ~Decryptable(q)
  /\ Error(q)
  /\ UNCHANGED serverVars

\* Mutant: the queue is cleared before it is read.
PollMessagesClearsFirst(q) ==
  /\ q.type = "poll"
  /\ message_queues[q.user] # None
  /\ Reply(q, [ok |-> TRUE, messages |-> <<>>])
  /\ message_queues' = [message_queues EXCEPT ![q.user] = <<>>]
  /\ UNCHANGED <<epoch, registered_users, pending_handshakes, active_sessions,
                 hellos, accepted>>

(* GET /message/{user_id}: everything queued, and the queue is cleared.    *)
PollMessages(q) ==
  /\ q.type = "poll"
  /\ message_queues[q.user] # None
  /\ Reply(q, [ok |-> TRUE, messages |-> message_queues[q.user]])
  /\ message_queues' = [message_queues EXCEPT ![q.user] = <<>>]
  /\ UNCHANGED <<epoch, registered_users, pending_handshakes, active_sessions,
                 hellos, accepted>>

\* Mutant: no answer for an unknown user.
PollUnknownSilent(q) ==
  /\ q.type = "poll"
  /\ message_queues[q.user] = None
  /\ UNCHANGED <<serverVars, httpVars>>

PollUnknown(q) ==
  /\ q.type = "poll"
  /\ message_queues[q.user] = None
  /\ Error(q)
  /\ UNCHANGED serverVars

(* DELETE /session/{session_id}; for an unknown session nothing changes.   *)
CloseSession(q) ==
  /\ q.type = "delete"
  /\ active_sessions[q.session] # None
  /\ active_sessions' = [active_sessions EXCEPT ![q.session] = None]
  /\ UNCHANGED <<epoch, registered_users, message_queues, pending_handshakes,
                 hellos, accepted, httpVars>>

Serve(q) ==
  \/ Register(q) \/ RegisterConflict(q) \/ GetCaPublicKey(q)
  \/ HandshakeHello(q) \/ HandshakeHelloRefused(q)
  \/ HandshakeFinish(q) \/ HandshakeNotFound(q)
  \/ SendMessage(q) \/ MessageRefused(q)
  \/ PollMessages(q) \/ PollUnknown(q)
  \/ CloseSession(q)

(* lifespan: shutdown closes every session, a new process starts with new  *)
(* keys and empty dictionaries.                                            *)
Restart ==
  /\ epoch < MaxEpoch
  /\ epoch' = epoch + 1
  /\ registered_users' = [u \in User |-> None]
  /\ message_queues' = [u \in User |-> None]
  /\ pending_handshakes' = {}
  /\ active_sessions' = [h \in HandshakeId |-> None]
  /\ UNCHANGED <<hellos, accepted, clientVars, httpVars>>
-----------------------------------------------------------------------------
(* Methods of PQMessengerClient.  A method that posts waits in call[c]; the *)
(* reply r, an error or a timeout ends it.                                 *)

StartRegister(c) ==
  /\ Idle(c)
  /\ Post(c, [type |-> "register", user |-> UserOf[c], key |-> <<c, calls[c] + 1>>])
  /\ UNCHANGED clientVars

(* The certificate verifies under the CA key of the same reply; save, then  *)
(* remember.                                                               *)
FinishRegister(c, r) ==
  /\ call[c].type = "register" /\ r.ok
  /\ disk' = [disk EXCEPT ![c] = r.cert]
  /\ identity' = [identity EXCEPT ![c] = r.cert]
  /\ ca_pk' = [ca_pk EXCEPT ![c] = r.cert.ca]
  /\ Return(c)
  /\ UNCHANGED <<session>>

StartLoadIdentity(c) ==
  /\ Idle(c)
  /\ disk[c] # None
  /\ identity' = [identity EXCEPT ![c] = disk[c]]
  /\ Post(c, [type |-> "ca-public-key"])
  /\ UNCHANGED <<disk, ca_pk, session>>

FinishLoadIdentity(c, r) ==
  /\ call[c].type = "ca-public-key" /\ r.ok
  /\ ca_pk' = [ca_pk EXCEPT ![c] = r.ca]
  /\ Return(c)
  /\ UNCHANGED <<disk, identity, session>>

StartConnect(c) ==
  /\ Idle(c)
  /\ identity[c] # None
  /\ Post(c, [type |-> "hello", cert |-> identity[c]])
  /\ UNCHANGED clientVars

\* Mutant: any CA is good enough.
ContinueConnectUnverified(c, r) ==
  /\ call[c].type = "hello" /\ r.ok
  /\ Post(c, [type |-> "finish", id |-> r.id])
  /\ UNCHANGED clientVars

(* process_server_hello verifies the server's certificate under _ca_pk.    *)
ContinueConnect(c, r) ==
  /\ call[c].type = "hello" /\ r.ok /\ r.ca = ca_pk[c]
  /\ Post(c, [type |-> "finish", id |-> r.id])
  /\ UNCHANGED clientVars

(* An earlier session is forgotten here, not closed.                       *)
FinishConnect(c, r) ==
  /\ call[c].type = "finish" /\ r.ok
  /\ session' = [session EXCEPT ![c] = [id |-> r.id, send_seq |-> 1, epoch |-> r.epoch]]
  /\ Return(c)
  /\ UNCHANGED <<disk, identity, ca_pk>>

(* encrypt counts the envelope whether or not the POST succeeds.           *)
Send(c, u) ==
  /\ Idle(c)
  /\ session[c] # None
  /\ session' = [session EXCEPT ![c].send_seq = @ + 1]
  /\ Post(c, [type |-> "message", session |-> session[c].id,
               envelope |-> [session |-> session[c].id, seq |-> session[c].send_seq,
                             sender |-> UserOf[c], to |-> u]])
  /\ UNCHANGED <<disk, identity, ca_pk>>

FinishSend(c, r) ==
  /\ call[c].type = "message" /\ r.ok
  /\ Return(c)
  /\ UNCHANGED clientVars

StartReceive(c) ==
  /\ Idle(c)
  /\ identity[c] # None
  /\ Post(c, [type |-> "poll", user |-> UserOf[c]])
  /\ UNCHANGED clientVars

(* Every message of the reply belongs to the session of its sender with the *)
(* server: the client's own session refuses it, unchanged, and it is gone. *)
FinishReceive(c, r) ==
  /\ call[c].type = "poll" /\ r.ok
  /\ Return(c)
  /\ UNCHANGED clientVars

(* The call raises: a status that is no success, or a ServerHello whose     *)
(* certificate does not verify.                                            *)
Fail(c, r) ==
  /\ \/ ~r.ok
     \/ call[c].type = "hello" /\ r.ok /\ r.ca # ca_pk[c]
  /\ Return(c)
  /\ UNCHANGED clientVars

Consume(c, r) ==
  \/ FinishRegister(c, r) \/ FinishLoadIdentity(c, r)
  \/ ContinueConnect(c, r) \/ FinishConnect(c, r)
  \/ FinishSend(c, r) \/ FinishReceive(c, r)
  \/ Fail(c, r)

(* 30 seconds without an answer, or a connection that breaks.              *)
Timeout(c) ==
  /\ call[c] # None
  /\ Return(c)
  /\ UNCHANGED clientVars

(* close(): DELETE as best effort, then every key is destroyed.  The object *)
(* cannot be used again; what follows is the next process.                 *)
Close(c) ==
  /\ call[c] = None
  /\ identity[c] # None
  /\ IF session[c] = None THEN UNCHANGED <<requests, calls>>
     ELSE /\ requests' = requests \cup
                {Request(c, [type |-> "delete", session |-> session[c].id])}
          /\ calls' = [calls EXCEPT ![c] = @ + 1]
  /\ session' = [session EXCEPT ![c] = None]
  /\ identity' = [identity EXCEPT ![c] = None]
  /\ ca_pk' = [ca_pk EXCEPT ![c] = None]
  /\ UNCHANGED <<disk, call, replies>>

(* The process dies and another starts: only the key file remains.         *)
Crash(c) ==
  /\ \/ call[c] # None \/ identity[c] # None
  /\ session' = [session EXCEPT ![c] = None]
  /\ identity' = [identity EXCEPT ![c] = None]
  /\ ca_pk' = [ca_pk EXCEPT ![c] = None]
  /\ Return(c)
  /\ UNCHANGED <<disk>>

ClientCall(c) ==
  \/ StartRegister(c) \/ StartLoadIdentity(c) \/ StartConnect(c) \/ StartReceive(c)
  \/ \E u \in User : Send(c, u)

ClientReply(c) == \E r \in replies : r.to = c /\ Consume(c, r)

ClientStep(c) ==
  /\ ClientCall(c) \/ ClientReply(c) \/ Timeout(c) \/ Close(c) \/ Crash(c)
  /\ UNCHANGED serverVars

(* Any request may be served at any time, and a finish may arrive damaged.  *)
ServerStep ==
  /\ \E q \in requests : Serve(q) \/ HandshakeFinishRefused(q)
  /\ UNCHANGED clientVars

Next == ServerStep \/ Restart \/ \E c \in Client : ClientStep(c)

Spec == Init /\ [][Next]_vars

(* No process dies and no request is lost, repeated, late or damaged: every *)
(* request is served once, while its client waits, and every reply is taken. *)
ServeOnce(c) ==
  /\ call[c] # None
  /\ \A r \in replies : r.to # c
  /\ Serve(call[c])
  /\ UNCHANGED clientVars

Deliver(c) == ClientReply(c) /\ UNCHANGED serverVars

ReliableNext ==
  \/ \E c \in Client : \/ ClientCall(c) /\ UNCHANGED serverVars
                       \/ ServeOnce(c)
                       \/ Deliver(c)
  \/ Restart

ReliableSpec ==
  /\ Init /\ [][ReliableNext]_vars
  /\ \A c \in Client : WF_vars(ServeOnce(c)) /\ WF_vars(Deliver(c))
-----------------------------------------------------------------------------
TypeOK ==
  /\ epoch \in 1..MaxEpoch
  /\ \A u \in User : registered_users[u] \in (Client \X Nat) \cup {None}
  /\ \A u \in User : message_queues[u] # None => ToSet(message_queues[u]) \subseteq accepted
  /\ \A hs \in pending_handshakes : hs.id \in 1..hellos /\ active_sessions[hs.id] = None
  /\ \A h \in HandshakeId : active_sessions[h] # None => h <= hellos
  /\ \A c \in Client : {disk[c], identity[c]} \subseteq Certificate(epoch) \cup {None}
  /\ \A c \in Client : ca_pk[c] \in (1..epoch) \cup {None}
  /\ \A c \in Client : session[c] # None => session[c].id \in 1..hellos
  /\ requests \subseteq RequestType
  /\ \A c \in Client : call[c] \in requests \cup {None}
  /\ \A r \in replies : call[r.to] # None
  /\ accepted \subseteq EnvelopeType

(* Whatever is repeated, delayed or lost, the server relays an envelope at  *)
(* most once and after those before it in its session.                     *)
R == INSTANCE Relay WITH
       mailbox <- [u \in User |-> QueueOf(u)],
       Envelope <- EnvelopeType

RelayRefinement == R!Spec

(* Two installations never hold certificates of one CA for the same user,   *)
(* however their registrations race and whichever replies are lost; a key  *)
(* file made under the running CA is the registered one.                   *)
IdentityMatchesRegistry ==
  \A c \in Client : disk[c] # None =>
    /\ disk[c].ca = epoch => registered_users[disk[c].user] = disk[c].key
    /\ \A d \in Client \ {c} :
         disk[d] # None /\ disk[d].user = disk[c].user => disk[d].ca # disk[c].ca

(* A client with a session is known to the server process that confirmed    *)
(* it, under the client's own name, and its next envelope will not be taken*)
(* for a replay.                                                           *)
ConnectedMeansActive ==
  \A c \in Client : session[c] # None /\ session[c].epoch = epoch =>
    LET a == active_sessions[session[c].id]
    IN  /\ a # None
        /\ a.user = UserOf[c]
        /\ a.recv_seq <= session[c].send_seq

(* A session is made under one CA: the server process that confirms it is   *)
(* the one that the client has the CA key of and the one that issued the    *)
(* certificate the client connects with.  load_identity sets the identity   *)
(* before it asks for the CA key and keeps an older one when that fails, a  *)
(* restart may come between any two requests, a reply from before it too:   *)
(* the handshake must notice each of them.                                 *)
SessionsUnderOneCA ==
  [][\A c \in Client :
       LET s == session'[c]
       IN  s # None /\ (session[c] = None \/ session[c].id # s.id) =>
             /\ identity[c] # None
             /\ s.epoch = ca_pk[c]
             /\ s.epoch = identity[c].ca]_vars

(* While the server runs, the queue of u only grows at its end, unless a    *)
(* poll for u takes all of it and, if its client still waits, gets it in   *)
(* the reply.                                                              *)
Polled(u) ==
  \E q \in requests :
    /\ q.type = "poll" /\ q.user = u
    /\ QueueOf(u)' = <<>>
    /\ call[q.from] = q =>
         \E r \in replies' : r.to = q.from /\ r.ok /\ r.messages = QueueOf(u)

QueueKept(u) == IsPrefix(QueueOf(u), QueueOf(u)') \/ Polled(u)

QueuesOfRegisteredKept ==
  [][epoch' = epoch =>
       \A u \in User : registered_users[u] # None => QueueKept(u)]_vars

(* On a reliable transport every call returns: no request of a client is    *)
(* left without an answer by the server, or without a continuation by the  *)
(* client.                                                                 *)
EveryCallReturns == \A c \in Client : (call[c] # None) ~> (call[c] = None)

(* On a reliable transport connect() succeeds as long as the server process *)
(* that issued the client's certificate runs and the client knows its key. *)
Connecting(c) ==
  call[c] # None /\ call[c].type \in {"hello", "finish"} /\ session[c] = None

Current(c) == identity[c] # None /\ identity[c].ca = epoch /\ ca_pk[c] = epoch

ConnectSucceeds ==
  \A c \in Client : Connecting(c) ~> (session[c] # None \/ ~Current(c))
-----------------------------------------------------------------------------
(* Stated by the repository, and not what the code does.                   *)

(* server/app.py:308, "Receive an encrypted message from a client and queue *)
(* it for the recipient", and :350, "Return all queued messages": a queued *)
(* message waits for its recipient as long as the server runs.             *)
QueuesKept == [][epoch' = epoch => \A u \in User : QueueKept(u)]_vars
=============================================================================
