------------------------------ MODULE Session ------------------------------
(***************************************************************************)
(* protocol/session.py: the Session objects that both sides of an          *)
(* established handshake create, exchanging envelopes over a transport     *)
(* that loses, duplicates, reorders and misroutes them.                    *)
(*                                                                         *)
(* An endpoint <<s, r>> is the Session object of role r for the            *)
(* handshake with session id s.  One action is one method call; a call     *)
(* that raises before it assigns anything is a stuttering step, and so has *)
(* no action here.  AES-GCM and ML-DSA are perfect: an envelope decrypts   *)
(* under the key it was encrypted with and verifies for the user that      *)
(* signed it, and only then.                                               *)
(***************************************************************************)
EXTENDS Integers, Sequences

CONSTANTS
  Sessions,             \* ids of the handshakes that were completed
  ClientOf,             \* ClientOf[s]: the user on the client side of s
  ServerUser,           \* the user_id of the server's identity
  Payload,              \* plaintexts
  RekeyAfterMessages,   \* config.SESSION_REKEY_AFTER_MESSAGES (1000)
  RekeyAfterSeconds,    \* config.SESSION_REKEY_AFTER_SECONDS (3600)
  DriftLimit,           \* the 300 seconds of _validate_header
  SignMayFail,          \* whether the ML-DSA library can raise
  MaxSeq,               \* bound: last number derive_nonce packs (2^64 - 1)
  MaxTime               \* bound: how far the clocks run

Role == {"client", "server"}

ASSUME SessionAssumption ==
  /\ RekeyAfterMessages \in Nat
  /\ RekeyAfterSeconds \in Nat
  /\ DriftLimit \in Nat
  /\ SignMayFail \in BOOLEAN
  /\ MaxSeq \in Nat
  /\ MaxTime \in Nat

VARIABLES
  clock,          \* clock[r]: int(time.time()) on the hosts of role r
  phase,          \* phase[e]: no object yet, open, or closed
  send_seq, recv_seq, messages_sent, session_start, needs_rekey,
  wire,           \* every envelope encrypt() ever returned
  aead,           \* history: every AES-GCM encryption, released or not
  sent,           \* history: sent[e], the plaintexts of e's envelopes
  returned        \* history: returned[e], what decrypt() of e returned

vars == <<clock, phase, send_seq, recv_seq, messages_sent, session_start,
          needs_rekey, wire, aead, sent, returned>>
-----------------------------------------------------------------------------
Endpoint == Sessions \X Role

OtherRole(r) == IF r = "client" THEN "server" ELSE "client"
Peer(e) == <<e[1], OtherRole(e[2])>>

(* The user whose identity signs for e.                                    *)
UserAt(e) == IF e[2] = "client" THEN ClientOf[e[1]] ELSE ServerUser

KeyName == {"client_keys", "server_keys"}

\* Mutants: one key for every session; the role where the key name belongs.
SendKeyOfNoSession(e) ==
  <<CHOOSE s \in Sessions : TRUE,
    IF e[2] = "client" THEN "client_keys" ELSE "server_keys">>
SendKeyNamedByRole(e) == <<e[1], e[2]>>

(* Key assignment by role: the client encrypts with client_keys and        *)
(* decrypts with server_keys, the server the other way round.              *)
SendKey(e) == <<e[1], IF e[2] = "client" THEN "client_keys" ELSE "server_keys">>
RecvKey(e) == <<e[1], IF e[2] = "client" THEN "server_keys" ELSE "client_keys">>

Abs(n) == IF n < 0 THEN -n ELSE n

(* An EncryptedEnvelope: its header, the key and nonce of its ciphertext,  *)
(* the plaintext inside, and the user that signed it.                      *)
Envelope ==
  [sender_id : {UserAt(e) : e \in Endpoint}, session_id : Sessions,
   sequence_number : Nat, timestamp : Nat,
   key : Sessions \X KeyName, nonce : Nat, payload : Payload,
   signer : {UserAt(e) : e \in Endpoint}]

Message == [sequence_number : Nat, payload : Payload]
Encryption == [key : Sessions \X KeyName, nonce : Nat,
               timestamp : Nat, payload : Payload]

\* Mutant: the header carries the count of the messages sent so far.
EnvelopeOfCount(e, p) ==
  [sender_id |-> UserAt(e), session_id |-> e[1],
   sequence_number |-> messages_sent[e], timestamp |-> clock[e[2]],
   key |-> SendKey(e), nonce |-> send_seq[e], payload |-> p,
   signer |-> UserAt(e)]

EnvelopeOf(e, p) ==
  [sender_id |-> UserAt(e), session_id |-> e[1],
   sequence_number |-> send_seq[e], timestamp |-> clock[e[2]],
   key |-> SendKey(e), nonce |-> send_seq[e], payload |-> p,
   signer |-> UserAt(e)]

EncryptionOf(e, p) ==
  [key |-> SendKey(e), nonce |-> send_seq[e],
   timestamp |-> clock[e[2]], payload |-> p]
-----------------------------------------------------------------------------
Init ==
  /\ clock = [r \in Role |-> 0]
  /\ phase = [e \in Endpoint |-> "none"]
  /\ send_seq = [e \in Endpoint |-> 1]
  /\ recv_seq = [e \in Endpoint |-> 1]
  /\ messages_sent = [e \in Endpoint |-> 0]
  /\ session_start = [e \in Endpoint |-> 0]
  /\ needs_rekey = [e \in Endpoint |-> FALSE]
  /\ wire = {}
  /\ aead = {}
  /\ sent = [e \in Endpoint |-> <<>>]
  /\ returned = [e \in Endpoint |-> <<>>]

(* __init__: one Session object per endpoint.                              *)
Open(e) ==
  /\ phase[e] = "none"
  /\ phase' = [phase EXCEPT ![e] = "open"]
  /\ send_seq' = [send_seq EXCEPT ![e] = 1]
  /\ recv_seq' = [recv_seq EXCEPT ![e] = 1]
  /\ messages_sent' = [messages_sent EXCEPT ![e] = 0]
  /\ session_start' = [session_start EXCEPT ![e] = clock[e[2]]]
  /\ needs_rekey' = [needs_rekey EXCEPT ![e] = FALSE]
  /\ UNCHANGED <<clock, wire, aead, sent, returned>>

\* Mutant: > for >=.
RekeyDueLate(e) == \/ messages_sent[e] > RekeyAfterMessages
                   \/ clock[e[2]] - session_start[e] > RekeyAfterSeconds

(* _check_rekey_policy: raises a flag that is never lowered.               *)
RekeyDue(e) == \/ messages_sent[e] >= RekeyAfterMessages
               \/ clock[e[2]] - session_start[e] >= RekeyAfterSeconds

CheckRekeyPolicy(e) ==
  needs_rekey' = [needs_rekey EXCEPT ![e] = @ \/ RekeyDue(e)]

(* encrypt: header, nonce, AES-GCM, signature, and only then the counters. *)
Encrypt(e, p) ==
  /\ phase[e] = "open"
  /\ send_seq[e] <= MaxSeq
  /\ CheckRekeyPolicy(e)
  /\ aead' = aead \cup {EncryptionOf(e, p)}
  /\ wire' = wire \cup {EnvelopeOf(e, p)}
  /\ send_seq' = [send_seq EXCEPT ![e] = @ + 1]
  /\ messages_sent' = [messages_sent EXCEPT ![e] = @ + 1]
  /\ sent' = [sent EXCEPT ![e] = Append(@, p)]
  /\ UNCHANGED <<clock, phase, recv_seq, session_start, returned>>

(* encrypt when mldsa_sign raises: the ciphertext exists, nothing counts it. *)
EncryptSignFails(e, p) ==
  /\ SignMayFail
  /\ phase[e] = "open"
  /\ send_seq[e] <= MaxSeq
  /\ CheckRekeyPolicy(e)
  /\ aead' = aead \cup {EncryptionOf(e, p)}
  /\ UNCHANGED <<clock, phase, send_seq, recv_seq, messages_sent,
                 session_start, wire, sent, returned>>

\* Mutant: the envelope just returned passes the replay check again.
ValidHeaderOffByOne(e, w) ==
  /\ w.session_id = e[1]
  /\ w.sender_id = UserAt(Peer(e))
  /\ w.sequence_number >= recv_seq[e] - 1
  /\ Abs(clock[e[2]] - w.timestamp) <= DriftLimit
\* Mutant: no replay check.
ValidHeaderNoReplay(e, w) ==
  /\ w.session_id = e[1]
  /\ w.sender_id = UserAt(Peer(e))
  /\ Abs(clock[e[2]] - w.timestamp) <= DriftLimit

ValidHeader(e, w) ==
  /\ w.session_id = e[1]
  /\ w.sender_id = UserAt(Peer(e))
  /\ w.sequence_number >= recv_seq[e]
  /\ Abs(clock[e[2]] - w.timestamp) <= DriftLimit

SignatureValid(e, w) == w.signer = UserAt(Peer(e))

DecryptsUnder(key, w) == w.key = key

\* Mutant: the window skips the number that comes next.
DecryptSkipping(e, w) ==
  /\ phase[e] = "open"
  /\ ValidHeader(e, w)
  /\ SignatureValid(e, w)
  /\ DecryptsUnder(RecvKey(e), w)
  /\ recv_seq' = [recv_seq EXCEPT ![e] = w.sequence_number + 2]
  /\ returned' = [returned EXCEPT ![e] =
        Append(@, [sequence_number |-> w.sequence_number, payload |-> w.payload])]
  /\ UNCHANGED <<clock, phase, send_seq, messages_sent, session_start,
                 needs_rekey, wire, aead, sent>>
\* Mutant: the receiver tries every key it has and forgets the session_id.
DecryptAnySession(e, w) ==
  /\ phase[e] = "open"
  /\ w.sender_id = UserAt(Peer(e))
  /\ w.sequence_number >= recv_seq[e]
  /\ SignatureValid(e, w)
  /\ recv_seq' = [recv_seq EXCEPT ![e] = w.sequence_number + 1]
  /\ returned' = [returned EXCEPT ![e] =
        Append(@, [sequence_number |-> w.sequence_number, payload |-> w.payload])]
  /\ UNCHANGED <<clock, phase, send_seq, messages_sent, session_start,
                 needs_rekey, wire, aead, sent>>

(* decrypt of an envelope that passes every check; any other raises and    *)
(* leaves the object as it was.                                            *)
Decrypt(e, w) ==
  /\ phase[e] = "open"
  /\ ValidHeader(e, w)
  /\ SignatureValid(e, w)
  /\ DecryptsUnder(RecvKey(e), w)
  /\ recv_seq' = [recv_seq EXCEPT ![e] = w.sequence_number + 1]
  /\ returned' = [returned EXCEPT ![e] =
        Append(@, [sequence_number |-> w.sequence_number, payload |-> w.payload])]
  /\ UNCHANGED <<clock, phase, send_seq, messages_sent, session_start,
                 needs_rekey, wire, aead, sent>>

Close(e) ==
  /\ phase[e] = "open"
  /\ phase' = [phase EXCEPT ![e] = "closed"]
  /\ UNCHANGED <<clock, send_seq, recv_seq, messages_sent, session_start,
                 needs_rekey, wire, aead, sent, returned>>

(* The two sides' clocks advance independently.                            *)
Tick(r) ==
  /\ clock[r] < MaxTime
  /\ clock' = [clock EXCEPT ![r] = @ + 1]
  /\ UNCHANGED <<phase, send_seq, recv_seq, messages_sent, session_start,
                 needs_rekey, wire, aead, sent, returned>>

Next ==
  \/ \E e \in Endpoint :
        \/ Open(e)
        \/ Close(e)
        \/ \E p \in Payload : Encrypt(e, p) \/ EncryptSignFails(e, p)
        \/ \E w \in wire : Decrypt(e, w)
  \/ \E r \in Role : Tick(r)

Spec == Init /\ [][Next]_vars

(* The environment of a driver such as demo.py: it creates both objects    *)
(* and keeps presenting each envelope to the peer of its sender.           *)
DeliverSeq(e, n) == \E w \in wire : w.sequence_number = n /\ Decrypt(e, w)

FairSpec ==
  /\ Spec
  /\ \A e \in Endpoint : WF_vars(Open(e))
  /\ \A e \in Endpoint : \A n \in 1..MaxSeq : WF_vars(DeliverSeq(e, n))
-----------------------------------------------------------------------------
TypeOK ==
  /\ clock \in [Role -> Nat]
  /\ phase \in [Endpoint -> {"none", "open", "closed"}]
  /\ send_seq \in [Endpoint -> Nat]
  /\ recv_seq \in [Endpoint -> Nat]
  /\ messages_sent \in [Endpoint -> Nat]
  /\ session_start \in [Endpoint -> Nat]
  /\ needs_rekey \in [Endpoint -> BOOLEAN]
  /\ wire \subseteq Envelope
  /\ aead \subseteq Encryption
  /\ sent \in [Endpoint -> Seq(Payload)]
  /\ returned \in [Endpoint -> Seq(Message)]

(* Whatever the transport repeats or reorders, decrypt returns an endpoint  *)
(* every message of its peer at most once and in the order of sending: the *)
(* check against _recv_seq and its advance in decrypt.                     *)
AtMostOnceInOrder ==
  \A e \in Endpoint : \A i, j \in 1..Len(returned[e]) :
    i < j => returned[e][i].sequence_number < returned[e][j].sequence_number

(* What decrypt returns is what the peer endpoint of the same handshake     *)
(* encrypted under that sequence number: no echo of the endpoint's own      *)
(* envelopes, none of another session of the same user.                    *)
Authentic ==
  \A e \in Endpoint : \A i \in 1..Len(returned[e]) :
    LET m == returned[e][i]
    IN  /\ m.sequence_number \in 1..Len(sent[Peer(e)])
        /\ m.payload = sent[Peer(e)][m.sequence_number]

(* No two envelopes that left encrypt share an AES-GCM key and nonce, also  *)
(* across the two directions and across sessions.                          *)
WireNoncesUnique ==
  \A v, w \in wire : v.key = w.key /\ v.nonce = w.nonce => v = w

(* A receive window never runs ahead of the sender: the next message of the *)
(* peer is never mistaken for a replay.                                    *)
WindowBehindSender ==
  \A e \in Endpoint : recv_seq[e] <= send_seq[Peer(e)]

(* The rekey flag is raised at the latest by the call that sends one message*)
(* more than the policy allows, and only for a reason that still holds.    *)
RekeyFlagExact ==
  \A e \in Endpoint :
    /\ messages_sent[e] > RekeyAfterMessages => needs_rekey[e]
    /\ needs_rekey[e] => RekeyDue(e)

(* A session implements two secure channels, named by their sending         *)
(* endpoints: what the peer's decrypt returned is what the channel gave out.*)
Chan == INSTANCE SecureChannel WITH
          Channel <- Endpoint,
          delivered <- [e \in Endpoint |-> returned[Peer(e)]]

ChannelRefinement == Chan!Spec

(* Every envelope that keeps being presented to the open peer is settled: it *)
(* or a later one is returned, or the two clocks are too far apart for its *)
(* timestamp.  The window can never leave the receiver deaf to a sender.   *)
Stale(e, n) ==
  \E w \in wire : /\ w.key = SendKey(e)
                  /\ w.sequence_number = n
                  /\ Abs(clock[OtherRole(e[2])] - w.timestamp) > DriftLimit

Settled(e, n) ==
  \/ phase[Peer(e)] = "closed"
  \/ Stale(e, n)
  \/ \E k \in 1..Len(returned[Peer(e)]) :
        returned[Peer(e)][k].sequence_number >= n

EveryEnvelopeSettled ==
  \A e \in Endpoint : \A n \in 1..MaxSeq :
    (Len(sent[e]) >= n) ~> Settled(e, n)
-----------------------------------------------------------------------------
(* Stated by the repository, and not what the code does.                   *)

(* protocol/session.py:198, "Auto-rekeys if the rekeying policy threshold   *)
(* is reached": no pair of keys encrypts more messages than the policy     *)
(* allows.                                                                 *)
KeysRotated ==
  \A e \in Endpoint : messages_sent[e] <= RekeyAfterMessages

(* protocol/session.py:224, "Derive a unique nonce from the sequence number *)
(* (never reused per key)": no two different AES-GCM encryptions share a   *)
(* key and a nonce.                                                        *)
NonceNeverReused ==
  \A v, w \in aead : v.key = w.key /\ v.nonce = w.nonce => v = w
=============================================================================
