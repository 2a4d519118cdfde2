---------------------------- MODULE KeyMaterial ----------------------------
(***************************************************************************)
(* crypto/kdf.py, the key objects of crypto/kem.py and crypto/signing.py,  *)
(* and who creates, shares, uses and zeroes them: a PQMessengerClient and a *)
(* server over HTTP that repeats, delays and loses requests and replies.   *)
(*                                                                         *)
(* A buffer is a bytearray that holds a secret.  destroy() zeroes it for   *)
(* every object that refers to it; an object that is dropped leaves its    *)
(* buffers as they are.  bytes copies, which nobody can zero, are left out, *)
(* and so is a shared secret, which the call that makes it zeroes.  Hashes *)
(* are perfect: a digest is a term over what was hashed.                   *)
(***************************************************************************)
EXTENDS Naturals, Sequences

CONSTANTS
  None,           \* Python's None
  SequenceWidth,  \* 64, the bits of a sequence number in derive_nonce
  MaxIdentity,    \* bound: identities the client generates or loads
  MaxConnect,     \* bound: calls of connect()
  MaxServed,      \* bound: ClientHellos the server processes
  MaxSeq          \* bound: envelopes per session

ASSUME KeyMaterialAssumption ==
  /\ SequenceWidth \in Nat \ {0}
  /\ 2 ^ SequenceWidth \in Nat \ {0}   \* what the provers do not know of ^
  /\ {MaxIdentity, MaxConnect, MaxServed, MaxSeq} \subseteq Nat
  /\ None \notin Nat

VARIABLES
  serving,     \* the server is between startup and shutdown
  kem,         \* kem[k]: the connect() whose key handshake k encapsulated to
  pending,     \* pending_handshakes
  active,      \* active_sessions
  identities,  \* identities the client has generated or loaded
  identity,    \* _identity, or None
  connects,    \* calls of connect() so far
  connecting,  \* the local variables of a connect() that waits, or None
  session,     \* _session, or None
  closed,      \* close() has returned
  http,        \* requests and replies on their way, for ever
  live,        \* the buffers that hold a secret
  misused,     \* history: buffers used after they were zeroed
  encryptions, \* history: the key and nonce of all that the client sent, in order
  ended        \* history: <<side, k>>: that side closed session k

serverVars == <<serving, kem, pending, active>>
clientVars == <<identities, identity, connects, connecting, session, closed>>
vars == <<serverVars, clientVars, http, live, misused, encryptions, ended>>
-----------------------------------------------------------------------------
(* HKDF (RFC 5869) over HMAC-SHA3-256, with outputs of 32 bytes.            *)
Hmac(key, data) == [hmac |-> key, of |-> data]

\* Mutant: no salt.
HkdfExtractUnsalted(salt, ikm) == Hmac(<<>>, ikm)

HkdfExtract(salt, ikm) == Hmac(salt, ikm)

Ceiling(length) == (length + 31) \div 32

(* The blocks T(1) .. T(n); every block hashes the one before it.          *)
HkdfExpand(prk, info, length) ==
  LET T[i \in 0..Ceiling(length)] ==
        IF i = 0 THEN <<>> ELSE Hmac(prk, <<T[i - 1], info, i>>)
  IN  [i \in 1..Ceiling(length) |-> T[i]]

(* derive_session_keys: the salt is the transcript, the label the purpose   *)
(* and the role.                                                           *)
DeriveSessionKeys(secret, transcript, role) ==
  LET prk == HkdfExtract(transcript, secret)
  IN  [use \in {"enc", "mac", "iv"} |-> HkdfExpand(prk, <<use, role>>, 32)]

\* Mutant: the number is cut to its width.
PackableAlways(seq) == TRUE

(* struct.pack(">Q", seq) raises for a number that is too wide.            *)
Packable(seq) == seq < 2 ^ SequenceWidth

(* derive_nonce                                                            *)
DeriveNonce(keys, seq) == Hmac(keys["iv"], seq % 2 ^ SequenceWidth)

(* The keys of handshake k.  Its transcript is its own; its secret is taken *)
(* to be the same for all encapsulations to one key, the worst case.       *)
Keys(k, role) == DeriveSessionKeys(kem[k], k, role)

(* encrypt_message: what AES-GCM gets.                                      *)
Encryption(keys, seq) == [key |-> keys["enc"], nonce |-> DeriveNonce(keys, seq)]
-----------------------------------------------------------------------------
(* Buffers.  SessionKeys objects come in pairs that are always destroyed   *)
(* together, as do the two key pairs of an identity.                       *)
Identity(n) == [kind |-> "identity", n |-> n]
ServerIdentity == Identity(0)
DecapKey(h) == [kind |-> "decap_key", n |-> h]
ClientKeys(k) == [kind |-> "client", n |-> k]
ServerKeys(k) == [kind |-> "server", n |-> k]

Buffer == [kind : {"identity", "decap_key", "client", "server"}, n : Nat]

(* secure_zero: what remains when the buffers in B are zeroed.              *)
SecureZero(B) == live \ B

(* The buffers in B are read by a signature, a decapsulation or AES-GCM.    *)
Use(B) == misused' = misused \cup (B \ live)

Init ==
  /\ serving = TRUE
  /\ kem = <<>>
  /\ pending = {} /\ active = {}
  /\ identities = 0
  /\ identity = None
  /\ connects = 0
  /\ connecting = None
  /\ session = None
  /\ closed = FALSE
  /\ http = {}
  /\ live = {ServerIdentity}
  /\ misused = {}
  /\ encryptions = <<>>
  /\ ended = {}
-----------------------------------------------------------------------------
(* PQMessengerClient.  One call runs at a time.                            *)
Ready == ~closed /\ connecting = None

(* register, up to the reply: new keys, in a local variable.  It may go    *)
(* well; the POST may fail, or the certificate be refused, which destroys  *)
(* the keys in the second case only.                                       *)
NewIdentity == Identity(identities + 1)

Register ==
  /\ Ready
  /\ identities < MaxIdentity
  /\ identities' = identities + 1
  /\ \/ live' = live \cup {NewIdentity} /\ identity' = identities + 1
     \/ live' = live \cup {NewIdentity} /\ UNCHANGED identity
     \/ UNCHANGED <<live, identity>>
  /\ UNCHANGED <<serverVars, connects, connecting, session, closed, http, misused,
                 encryptions, ended>>

\* Mutant: the identity that is replaced is destroyed.
LoadIdentityDestroysOld ==
  /\ Ready
  /\ identities < MaxIdentity
  /\ identities' = identities + 1
  /\ identity' = identities + 1
  /\ live' = SecureZero({Identity(n) : n \in {identity} \ {None}}) \cup {NewIdentity}
  /\ UNCHANGED <<serverVars, connects, connecting, session, closed, http, misused,
                 encryptions, ended>>

(* load_identity: the old identity is dropped, a session keeps using it.    *)
LoadIdentity ==
  /\ Ready
  /\ identities < MaxIdentity
  /\ identities' = identities + 1
  /\ identity' = identities + 1
  /\ live' = live \cup {NewIdentity}
  /\ UNCHANGED <<serverVars, connects, connecting, session, closed, http, misused,
                 encryptions, ended>>

(* generate_keypair of crypto/kem.py: one key for every connect().          *)
NewDecapKey == DecapKey(connects + 1)

(* connect: build_client_hello signs with the identity; POST.              *)
StartConnect ==
  /\ Ready
  /\ identity # None
  /\ connects < MaxConnect
  /\ connects' = connects + 1
  /\ connecting' = [n |-> connects + 1, handshake |-> None, identity |-> identity]
  /\ live' = live \cup {NewDecapKey}
  /\ Use({Identity(identity)})
  /\ http' = http \cup {[type |-> "hello", n |-> connects + 1]}
  /\ UNCHANGED <<serverVars, identities, identity, session, closed, encryptions, ended>>

(* The confirmation "handshake-finished-client".                            *)
Finished(k) == Encryption(Keys(k, "client"), 0)

\* Mutant: the ephemeral key is kept.
ProcessServerHelloKeepsKey(r) ==
  /\ connecting # None /\ connecting.handshake = None
  /\ r.type = "server hello" /\ r.n = connecting.n
  /\ connecting' = [connecting EXCEPT !.handshake = r.handshake]
  /\ live' = live \cup {ClientKeys(r.handshake)}
  /\ Use({DecapKey(r.n)})
  /\ encryptions' = Append(encryptions, Finished(r.handshake))
  /\ http' = http \cup {[type |-> "finish", handshake |-> r.handshake]}
  /\ UNCHANGED <<serverVars, identities, identity, connects, session, closed, ended>>

(* process_server_hello: decapsulate, destroy the ephemeral key, derive the *)
(* session keys, encrypt the confirmation under number 0; POST.            *)
ProcessServerHello(r) ==
  /\ connecting # None /\ connecting.handshake = None
  /\ r.type = "server hello" /\ r.n = connecting.n
  /\ connecting' = [connecting EXCEPT !.handshake = r.handshake]
  /\ live' = SecureZero({DecapKey(r.n)}) \cup {ClientKeys(r.handshake)}
  /\ Use({DecapKey(r.n)})
  /\ encryptions' = Append(encryptions, Finished(r.handshake))
  /\ http' = http \cup {[type |-> "finish", handshake |-> r.handshake]}
  /\ UNCHANGED <<serverVars, identities, identity, connects, session, closed, ended>>

\* Mutant: numbering starts at 0.
FirstSequenceNumberZero == 0

(* Session.__init__                                                         *)
FirstSequenceNumber == 1

(* The confirmation of the server makes the session; an earlier one is     *)
(* dropped.                                                                *)
FinishConnect(r) ==
  /\ connecting # None /\ connecting.handshake # None
  /\ r.type = "confirmed" /\ r.handshake = connecting.handshake
  /\ session' = [handshake |-> r.handshake, identity |-> connecting.identity,
                 send_seq |-> FirstSequenceNumber]
  /\ connecting' = None
  /\ UNCHANGED <<serverVars, identities, identity, connects, closed, http, live,
                 misused, encryptions, ended>>

(* connect raises: a request failed or timed out, or the ServerHello is    *)
(* refused before it is used.  Its local variables are dropped.            *)
ConnectFails ==
  /\ connecting # None
  /\ connecting' = None
  /\ UNCHANGED <<serverVars, identities, identity, connects, session, closed, http,
                 live, misused, encryptions, ended>>

(* send: Session.encrypt under client_keys, signed by the identity that    *)
(* the session was made with; POST.                                        *)
Send ==
  /\ Ready
  /\ session # None
  /\ session.send_seq <= MaxSeq
  /\ Packable(session.send_seq)
  /\ LET k == session.handshake
     IN  /\ encryptions' = Append(encryptions,
                                   Encryption(Keys(k, "client"), session.send_seq))
         /\ http' = http \cup {[type |-> "message", handshake |-> k]}
         /\ Use({ClientKeys(k), Identity(session.identity)})
  /\ session' = [session EXCEPT !.send_seq = @ + 1]
  /\ UNCHANGED <<serverVars, identities, identity, connects, connecting, closed, live,
                 ended>>

(* close: DELETE as best effort, the session's keys, the identity's keys.   *)
Close ==
  /\ Ready
  /\ LET K == IF session = None THEN {} ELSE {session.handshake}
         I == {identity} \ {None}
     IN  /\ http' = http \cup {[type |-> "delete", handshake |-> k] : k \in K}
         /\ live' = SecureZero({ClientKeys(k) : k \in K} \cup {Identity(n) : n \in I})
         /\ ended' = ended \cup {<<"client", k>> : k \in K}
  /\ session' = None
  /\ identity' = None
  /\ closed' = TRUE
  /\ UNCHANGED <<serverVars, identities, connects, connecting, misused, encryptions>>
-----------------------------------------------------------------------------
(* The server.                                                             *)

(* encapsulate: the next handshake has a secret for key n.                  *)
Encapsulate(n) == kem' = Append(kem, n)

(* process_client_hello: a fresh secret for the key of the hello, session  *)
(* keys from it, a signature.                                              *)
HandshakeHello(q) ==
  /\ q.type = "hello"
  /\ Len(kem) < MaxServed
  /\ LET k == Len(kem) + 1
     IN  /\ Encapsulate(q.n)
         /\ pending' = pending \cup {k}
         /\ live' = live \cup {ServerKeys(k)}
         /\ http' = http \cup {[type |-> "server hello", n |-> q.n, handshake |-> k]}
  /\ Use({ServerIdentity})
  /\ UNCHANGED <<serving, active, clientVars, encryptions, ended>>

\* Mutant: the session is made from a handshake that stays.
HandshakeFinishKeepsPending(q) ==
  /\ q.type = "finish"
  /\ q.handshake \in pending
  /\ active' = active \cup {q.handshake}
  /\ http' = http \cup {[type |-> "confirmed", handshake |-> q.handshake]}
  /\ Use({ServerKeys(q.handshake)})
  /\ UNCHANGED <<serving, kem, pending, clientVars, live, encryptions, ended>>

(* handshake_finish: the confirmation is decrypted under client_keys; the  *)
(* session shares the SessionKeys of the handshake, which is gone.         *)
HandshakeFinish(q) ==
  /\ q.type = "finish"
  /\ q.handshake \in pending
  /\ pending' = pending \ {q.handshake}
  /\ active' = active \cup {q.handshake}
  /\ http' = http \cup {[type |-> "confirmed", handshake |-> q.handshake]}
  /\ Use({ServerKeys(q.handshake)})
  /\ UNCHANGED <<serving, kem, clientVars, live, encryptions, ended>>

(* handshake_finish of something that is not hex, or no confirmation under  *)
(* client_keys: the handshake has been taken out of its table, and is       *)
(* dropped with its SessionKeys as they are.                               *)
HandshakeFinishRefused(q) ==
  /\ q.type = "finish"
  /\ q.handshake \in pending
  /\ pending' = pending \ {q.handshake}
  /\ Use({ServerKeys(q.handshake)})
  /\ UNCHANGED <<serving, kem, active, clientVars, http, live, encryptions, ended>>

(* send_message: Session.decrypt.                                          *)
SendMessage(q) ==
  /\ q.type = "message"
  /\ q.handshake \in active
  /\ Use({ServerKeys(q.handshake)})
  /\ UNCHANGED <<serving, kem, pending, active, clientVars, http, live, encryptions, ended>>

\* Mutant: the session is removed, its keys are not destroyed.
CloseSessionForgets(q) ==
  /\ q.type = "delete"
  /\ q.handshake \in active
  /\ active' = active \ {q.handshake}
  /\ ended' = ended \cup {<<"server", q.handshake>>}
  /\ UNCHANGED <<serving, kem, pending, clientVars, http, live, misused, encryptions>>

(* close_session                                                            *)
CloseSession(q) ==
  /\ q.type = "delete"
  /\ q.handshake \in active
  /\ active' = active \ {q.handshake}
  /\ live' = SecureZero({ServerKeys(q.handshake)})
  /\ ended' = ended \cup {<<"server", q.handshake>>}
  /\ UNCHANGED <<serving, kem, pending, clientVars, http, misused, encryptions>>

(* lifespan, after yield: the active sessions and the server's identity.    *)
Shutdown ==
  /\ serving
  /\ serving' = FALSE
  /\ live' = SecureZero({ServerKeys(k) : k \in active} \cup {ServerIdentity})
  /\ ended' = ended \cup {<<"server", k>> : k \in active}
  /\ UNCHANGED <<kem, pending, active, clientVars, http, misused, encryptions>>

Serve ==
  /\ serving
  /\ \E q \in http : \/ HandshakeHello(q)
                     \/ HandshakeFinish(q) \/ HandshakeFinishRefused(q)
                     \/ SendMessage(q) \/ CloseSession(q)

Next ==
  \/ Register \/ LoadIdentity \/ StartConnect \/ ConnectFails \/ Send \/ Close
  \/ \E r \in http : ProcessServerHello(r) \/ FinishConnect(r)
  \/ Serve \/ Shutdown

Spec == Init /\ [][Next]_vars
-----------------------------------------------------------------------------
Handshakes == 1..Len(kem)

TypeOK ==
  /\ serving \in BOOLEAN
  /\ \A k \in Handshakes : kem[k] \in 1..connects
  /\ pending \cup active \subseteq Handshakes
  /\ pending \cap active = {}
  /\ identities \in 0..MaxIdentity /\ connects \in 0..MaxConnect
  /\ identity \in (1..identities) \cup {None}
  /\ connecting # None =>
        /\ connecting.n = connects
        /\ connecting.handshake \in Handshakes \cup {None}
        /\ connecting.identity \in 1..identities
  /\ session # None => session.handshake \in Handshakes /\ session.identity \in 1..identities
  /\ closed \in BOOLEAN
  /\ live \subseteq Buffer /\ misused \subseteq Buffer
  /\ ended \subseteq {"client", "server"} \X Handshakes

(* SessionKeys objects are shared by a handshake and its session, identities *)
(* by the client, its handshakes and its sessions, and each of the objects *)
(* can be destroyed: still no key is ever used after it was zeroed, which   *)
(* would go unnoticed, since a zero key encrypts and signs like any other. *)
NoZeroedKeyUsed == misused = {}

(* Once both sides have closed a session, nothing that is left in their     *)
(* memory gives its keys away: the ephemeral key that was used for it, and *)
(* perhaps for another handshake with the same hello, is zeroed as well.   *)
ForwardSecrecy ==
  \A k \in Handshakes : {<<"client", k>>, <<"server", k>>} \subseteq ended =>
    {DecapKey(kem[k]), ClientKeys(k), ServerKeys(k)} \cap live = {}

(* Nothing the client sends shares an AES-GCM key and nonce with anything   *)
(* else: not the confirmation of the handshake (number 0) and the messages *)
(* (from 1), not sessions that follow each other, not when the numbers are *)
(* used up.  What a failing signature does to nonces is in Session.        *)
NonceOnce ==
  \A i, j \in 1..Len(encryptions) : encryptions[i] = encryptions[j] => i = j

(* kdf.py:110: handshakes, roles and purposes have different keys, even if  *)
(* two handshakes had the same secret.                                     *)
KeysIndependent ==
  \A k, l \in Handshakes, r, s \in {"client", "server"}, u, v \in {"enc", "mac", "iv"} :
    Keys(k, r)[u] = Keys(l, s)[v] => <<k, r, u>> = <<l, s, v>>

(* What the server has confirmed is a session whose keys it keeps exactly as *)
(* long as it serves the session: neither a late or repeated request nor an *)
(* identity that goes makes it forget them early, and close_session and the *)
(* shutdown leave none of them behind.  A handshake is not lost to them     *)
(* either while it waits.  Not so what handshake_finish refuses, and what is *)
(* still pending at the shutdown: those keys stay, whatever app.py:117 says. *)
SessionKeysWhileServed ==
  \A k \in Handshakes :
    /\ serving /\ k \in pending => ServerKeys(k) \in live
    /\ [type |-> "confirmed", handshake |-> k] \in http =>
          (ServerKeys(k) \in live <=> serving /\ k \in active)
=============================================================================
