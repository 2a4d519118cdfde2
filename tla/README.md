# A TLA+ model of the PQ Messenger

Specifications, model-checking configurations and machine-checked proofs for the
post-quantum messenger in `src/`: a FastAPI server that registers users, runs a
handshake with each client and relays messages; a client class; and the protocol,
identity and cryptography code that both import.

## The system

| part | state it keeps | operations | talks to |
|---|---|---|---|
| `protocol/session.py`, class `Session` | `_send_seq`, `_recv_seq`, `_messages_sent`, `_session_start`, `_needs_rekey`, `_closed`, two `SessionKeys` | `encrypt`, `decrypt`, `close`, `needs_rekey` | its peer `Session`, through whatever carries envelopes |
| `protocol/handshake.py`, `ClientHandshake`, `ServerHandshake` | transcript hash, ephemeral KEM key pair, derived `EstablishedSession` | `build_client_hello`, `process_client_hello`, `process_server_hello`, `process_client_finished` | each other by messages; the CA key; makes the keys of a `Session` |
| `server/app.py` | `registered_users`, `pending_handshakes`, `active_sessions`, `message_queues`, CA key pair, own identity; all in memory | `/register`, `/ca-public-key`, `/handshake/hello`, `/handshake/finish`, `/message` (POST, GET), `/session` (DELETE), startup, shutdown | clients over HTTP |
| `client/client.py` | `_identity`, `_ca_pk`, `_session`, `_session_id` | `register`, `load_identity`, `connect`, `send`, `receive`, `close` | server over HTTP (30 s timeout); the key store |
| `identity/storage.py` | one JSON file per name | `save_identity`, `load_identity`, `update_certificate`, `identity_exists` | the file system, shared with other processes |
| `identity/certificate.py`, `keypair.py` | certificates (values), key pairs | issue, verify, attach, destroy | used by all of the above |
| `crypto/*` | `TranscriptHasher`; the bytearrays of `SessionKeys`, KEM and signature key pairs, shared by reference | KEM, signatures, AES-GCM, HKDF, `destroy`, `secure_zero` | libraries |

What is hard here, and what each part has to get right:

- **Session.** Envelopes are lost, repeated, reordered and misrouted; calls raise
  half way; two hosts have two clocks. Each side must get every message of its
  peer at most once and in order, from this peer and this session only; no
  AES-GCM nonce may repeat under a key; the window must not make the receiver
  deaf; the rekey flag must be right.
- **Handshake.** Objects can be driven again, hellos repeated within the
  60-second window, messages mixed between handshakes. What one side hands out
  the other side must have, with the same keys, id and peer; sessions of
  different handshakes must be different.
- **Server and client.** Requests are late, lost or repeated, replies are lost,
  clients time out, crash and come back with what is on disk, the server restarts
  with another CA. An envelope must be queued once and in order, a queue must be
  emptied only by a poll, names must have one owner, a connected client must be
  known to the server, every call must return.
- **Keys in memory.** An identity is shared by the client object, its handshakes and
  its sessions; a handshake and its session share `SessionKeys`. Each holder may
  zero them for the others, and a zeroed key signs and encrypts like any other. A
  key must not be used after it was zeroed, and must be zeroed when its session is
  over; hellos that the server answers twice must not lead to equal keys.
- **Key store and enrolment.** `write_text` empties a file before it fills it;
  processes are not coordinated; different user ids may map to one file. A load must never
  return another user's keys; an identity whose certificate was replaced in the
  file must never pass for another; calls that do not overlap must lose nothing.

The complete list, with the line at which each hazard bites, is in `PROJECT.json`.

## The modules

| module | role |
|---|---|
| `SecureChannel` | abstract: lossy channels without duplication, reordering or invention |
| `Session` | `protocol/session.py`; implements `SecureChannel` |
| `SessionProofs` | theorems about `Session` |
| `Handshake` | `protocol/handshake.py` |
| `HandshakeProofs` | theorems about `Handshake` |
| `Relay` | abstract: mailboxes that take an envelope once, in the order of its session |
| `RelayProofs` | what the rules of `Relay` add up to |
| `Messenger` | `server/app.py` and `client/client.py`; its server implements `Relay` |
| `MessengerProofs` | theorems about `Messenger` |
| `KeyStore` | `identity/storage.py` |
| `KeyStoreProofs` | theorems about `KeyStore` |
| `Enrolment` | `identity/keypair.py` and the CA, over the files of `KeyStore`; implements `KeyStore` |
| `EnrolmentProofs` | theorems about `Enrolment` |
| `KeyMaterial` | `crypto/kdf.py` and the life of every key buffer of a client and a server |
| `KeyMaterialProofs` | theorems about `KeyMaterial` |
| `MCSession`, `MCHandshake`, `MCMessenger`, `MCEnrolment` | values of function constants for TLC |

`Messenger` composes the other components by what they establish, not by their
text: a handshake is its two requests and its id, which `Handshake` justifies
(both sides end up with one session per id), and a server-side session is its peer
and its `recv_seq`, the part of `Session` that does not depend on time. The key
file of a client is the variable `disk`, written in one step; how it is written is
`KeyStore`'s matter.

### Session

An endpoint is a pair of session id and role. `Open` is `__init__`, `Encrypt`,
`Decrypt` and `Close` are the methods, `EncryptSignFails` is `encrypt` when
`mldsa_sign` raises after the ciphertext was made. A `decrypt` that raises changes
nothing, so it has no action; its checks are the conjuncts `ValidHeader`,
`SignatureValid` and `DecryptsUnder`, in the order of the code. `wire` holds every
envelope ever returned by `encrypt`, and any of them may be given to any endpoint
at any time, which covers loss, repetition, reordering and misrouting.
`CheckRekeyPolicy` runs at the head of every `encrypt`, as in the code. The
history variables `sent`, `returned` and `aead` record what went in, what came out
and every AES-GCM encryption, released or not. `clock[r]` are the two hosts'
clocks; they only advance (a clock that is set back is not modelled).

### Handshake

One action per method, on any number of objects; `net` keeps every message for
ever. The transcript is the sequence of messages hashed, its digest is that
sequence, and a session id is the transcript at the moment of derivation. An
encapsulated secret is fresh; decapsulating with another key gives an unrelated
secret (implicit rejection). `RejectClientHello` is `process_client_hello` raising after
it has hashed what it was given, which may be any message at all; other failing
calls change nothing.
`Spec` drives objects arbitrarily, `DriverSpec` as the program does: one hello per
client object, a server object of its own for each hello.

`BinKeywordAccepted` says whether `msgpack.packb` accepts the keyword
`use_bin_True` that the handshake, session and storage code pass. The pinned
msgpack does not, so as shipped no handshake message can be serialised; the run
`handshake_packer` shows what becomes of a handshake. Every other run, and the
other modules, model the code past that call, as it behaves when the keyword is
accepted (or spelled `use_bin_type`, as in `certificate.py`).

### Messenger

A route has no `await` in its body, so a request is one atomic server step. The
set `requests` keeps every request ever sent and `ServerStep` serves any of them:
late, repeated (an intermediary that retries) or never. A client method is a
`Start...` action up to its HTTP request and a `Finish...` action from the reply;
`connect` has `ContinueConnect` between its two requests. `call[c]` is the request
that `c` waits for; `Timeout` gives up on it, `Crash` ends the process and keeps
only `disk[c]`, `Fail` is an exception from an error status or from a server
certificate of another CA. `Restart` is shutdown and startup of the server: new CA
key (`epoch`), empty dictionaries. `HandshakeFinishRefused` is a `/handshake/finish`
that arrives damaged: the route takes the handshake out of the table before it looks
at the message, so the good one that follows finds nothing. A registration whose certificate the client
refuses because its clock is behind the server's leaves the same state as one
whose reply is lost, which `Timeout` covers.

`ReliableSpec` is for liveness: requests are served once, undamaged and while their
client waits, and nobody dies, but the server may restart.

`receive` changes no state of the model: every envelope in a queue belongs to the
session of its sender with the server, so the reader's own session refuses it
without changing (`client.py:251` calls this a demonstration).

### KeyStore

`SaveIdentity` and `UpdateCertificate` stand for the two functions up to
`write_text`, `Truncate` and `Write` for the two halves of `write_text`; `Crash`
may come between them or leave a partial text. Two processes that both opened the
file write over each other; what is left may be no JSON (`Garbled`).
`LoadIdentity` is the successful call; every other outcome raises and changes
nothing. The three functions trust their caller, so `Next` passes them any keys with
any certificate.

### Enrolment

The programs that use those functions: `GenerateUserIdentity`, `IssueCertificate`,
`AttachCertificate`, `Save`, `Load`, `Update` and `Destroy` are the calls such a
program makes, with the arguments it has. `identity[p]` is the `UserIdentity` a
process holds, `grant[p]` the certificate it got from the CA last, which it may
attach, or pass to `update_certificate` without attaching it. `attach_certificate`
compares user and keys; `update_certificate` and `reconstruct_identity` compare
nothing. The files are `KeyStore`'s variables, changed by `KeyStore`'s actions
only: `ImplementsKeyStore` is proved, so the theorems of `KeyStoreProofs` carry
over. `latest` adds up what the calls on a file were asked to do, in the order in
which they end; `disturbed` names the files on which calls overlapped or a process died while
writing, about which the code promises nothing and `FileIsLatest` says nothing.

### KeyMaterial

A buffer is a bytearray with a secret: an identity's keys, an ephemeral KEM key
(one per `connect`), the client's and the server's `SessionKeys` of a handshake.
`live` is the set of those that hold their secret; `SecureZero` takes buffers out
of it, `Use` records in `misused` what is read after that. Dropping an object zeroes
nothing: `LoadIdentity`, a second `connect`, `ConnectFails` and a refused
registration leave the buffers they should leave. The requests of the client stay in
`http` for ever, so the server may answer one hello with several handshakes, meet
a message or a DELETE after the session is closed, or never see it. On the server,
`HandshakeHello`, `HandshakeFinish`, `SendMessage`, `CloseSession` and `Shutdown`
are the routes and the end of `lifespan`. `HandshakeFinishRefused` is the failing half
of `handshake_finish`: the handshake has left its table, and is dropped with its
`SessionKeys` as they are. So `SessionKeysWhileServed` promises the zeroing of the
keys of established sessions only; those of a refused handshake, and of one that is
pending at the shutdown, stay in memory.

`HkdfExtract` and `HkdfExpand` are RFC 5869 as `kdf.py` computes it, over a hash
whose digests are terms: equal digests have equal inputs. `Keys(k, role)` derives
from a secret that is the same for every encapsulation to one ephemeral key, which
is worse than the code (each encapsulation is fresh); what keeps such handshakes
apart is then the transcript in the salt. `DeriveNonce` reduces the sequence number
to `SequenceWidth` bits and `Packable` says when `struct.pack` raises instead.
`encryptions` lists key and nonce of everything the client encrypted, in order, and
`NonceOnce` says that it has no repetition, equal payloads or not; that a signing call which raises makes the next
`encrypt` use a nonce again is `Session`'s matter, and the run `session_nonce` shows
it.

## The runs

| run | asks | instance |
|---|---|---|
| `session_pair` | `AtMostOnceInOrder`, `Authentic`, `RekeyFlagExact`, `EveryEnvelopeSettled` | one session, 2 payloads, 2 messages a side, clocks that drift past the limit, fairness |
| `session_cross` | `TypeOK`, `WireNoncesUnique`, `WindowBehindSender`, `ChannelRefinement` | two sessions of one user, 2 messages a side, failing signatures |
| `session_rekey` | violates `KeysRotated` | one session, threshold 1 |
| `session_nonce` | violates `NonceNeverReused` | one session, 2 payloads, failing signatures |
| `handshake_objects` | `TypeOK`, `ServerAgreement`, `ClientAgreement`, `SessionsDistinct` | 2 client and 2 server objects, each used twice, clocks 0..1, a certificate that expires and one that is not valid yet |
| `handshake_driver` | `HandshakeCompletes` | 2 clients, 2 servers, clocks 0..2, fairness |
| `handshake_packer` | violates `HandshakeCompletes` | one client, one server, keyword refused |
| `messenger_relay` | `TypeOK`, `ConnectedMeansActive`, `IdentityMatchesRegistry`, `RelayRefinement`, `QueuesOfRegisteredKept`, `SessionsUnderOneCA` | 2 installations, a laptop with 5 requests and a desktop with 1, 2 handshakes, 2 server processes |
| `messenger_reliable` | `EveryCallReturns`, `ConnectSucceeds` | 2 users, one with 4 requests and one with 3, as many handshakes as they can ask for, 2 server processes, fairness |
| `messenger_wipe` | violates `QueuesKept` | 2 users |
| `keystore_shared` | `TypeOK`, `LoadedIsOwn`, `NeverMistaken`, `FileIsLatest` | 2 processes that enrol 2 user ids with one file, 3 writes, crashes |
| `key_material` | `TypeOK`, `NoZeroedKeyUsed`, `ForwardSecrecy`, `NonceOnce`, `KeysIndependent`, `SessionKeysWhileServed` | 2 identities, 2 calls of `connect`, 3 handshakes, sequence numbers of 2 bits, shutdown |

The largest are `handshake_objects` with 819,538 distinct states (about two minutes),
`messenger_relay` with 441,018 (about half a minute), `keystore_shared` with 262,155
and `messenger_reliable` with 172,702; `key_material` has 19,210.

Why the bounds are enough. Two messages per side (`MaxSeq`) let one envelope
overtake, replay and skip another; two payloads tell which one was returned; two
sessions are the least that can be mixed up. Two uses of each handshake object
(`MaxBuild`, `MaxHello`, `MaxFinish`) give polluted transcripts and repeated
messages; two objects per side give crossed handshakes. Five requests are a
registration, a connect and two more, which may be two sends or a second connect;
one is a rival registration or the retrieval of a queue; three are a registration
and a connect, and a fourth is a send in that session. `messenger_reliable` allows a
handshake for every hello that the clients can send (`MaxHello`), since a hello
that the bound leaves unanswered would look like a call that never returns. Two `epoch`s are one restart. Three writes (`MaxOps`) are two
racing writers after a first save. Three handshakes for two calls of `connect` are
one hello answered twice beside another; `MaxSeq` is one more than two bits can
number, so that the sequence numbers run out. What these bounds cut off from the
safety properties, the theorems do not: every invariant, action property and
refinement of a passing run is also proved, for every value of the constants. Only
the liveness runs rest on their bounds alone.
`CHECK_DEADLOCK` is off throughout because every bounded run ends: clocks, calls
and messages are used up.

Fairness. `Session!FairSpec`: both objects are created and the transport keeps
presenting each envelope (weak fairness of its delivery); nothing forces clocks to
stand still, which is why `EveryEnvelopeSettled` exempts envelopes that become
stale. `Handshake!DriverSpec`: a message that can be processed is, since drivers
call the methods one after the other; starting a handshake and the passing of time
are not fair. `Messenger!ReliableSpec`: the server's event loop answers a waiting
client and the client takes its reply; users need not start anything.

Every property of a passing run is shown to depend on the code by a mutant of a
definition, the operators marked `Mutant` in the modules: a bound off by one, a
check dropped, a state change in another order.

### Disagreements found

- `use_bin_True` (`handshake.py:92` and others): a `TypeError` under the pinned
  msgpack; `build_client_hello` leaves a key pair behind and nothing completes.
- `encrypt` does not "auto-rekey" (`session.py:198`): it raises a flag nobody reads.
- A nonce is not "never reused per key" (`session.py:224`): when signing raises,
  the counter stays and the next plaintext is encrypted under the same nonce.
- `/register` empties the queue of a user who was sent messages before
  registering (`app.py:219` against `app.py:308`).

Seen while modelling, without a run of their own: a gap in the sequence numbers is
accepted silently although `session.py:9` speaks of detecting drops (the channel
in `SecureChannel` is lossy for this reason); `update_certificate` is to change the
certificate "without re-encrypting keys" (`storage.py:194`) but writes back the whole record it
read, keys included, so it undoes a concurrent save, and it looks neither at whose
record it changes nor at which keys the certificate is for (`FileIsLatest` and
`NeverMistaken` say what is left); `_safe_filename` maps different user ids to one
file (`storage.py:248`); "destroy all session keys" at shutdown (`app.py:117`)
passes over the handshakes that are still pending and over those that
`handshake_finish` has refused (`app.py:273`), whose keys nobody zeroes, and
`close` of the client, which is to "destroy all key material" (`client.py:268`),
over identities and sessions that were replaced and calls that failed; the
`context` argument of `sign` is checked and then not used (`signing.py:127`),
against what `test_crypto.py:259` expects; the `memset` of `secure_zero`
(`utils.py:51`) writes behind the bytearray object, whose bytes are elsewhere.

## The proofs

Each module of theorems follows one pattern: an invariant (`IInv`, `EInv`,
`RInv`) that is inductive, one lemma for each action that disturbs it, one for all
the others, and the theorems from it. What TLC can evaluate of these invariants it
checked on the instances of the runs. The only assumptions are the named `ASSUME`s of the
modules, which TLC evaluates: constants have their types, and `None` is none of
the values it stands beside.

`SessionProofs` proves, for any sets of sessions, users and payloads and any limits,
from `SessionAssumption` alone:

- `TypeCorrect`: `Spec => []TypeOK`;
- `NoReplays`, `NoForeignMessages`, `NoSharedNonces`, `NoFalseReplays`: the four
  safety invariants of the runs;
- `RekeyFlagCorrect`: `RekeyFlagExact`;
- `SessionImplementsChannel`: `Spec => ChannelRefinement`.

None of the safety invariants is inductive by itself. `IInv` adds what ties an
endpoint's counters to the wire: `CountInv` (`Len(sent[e]) = send_seq[e] - 1`),
`WireInv` (every envelope is one that some endpoint counted, under that endpoint's
key, with the nonce of its number and the payload of its position), `WireUnique`
(one envelope per key and number) and `ReturnedInv` (the window is above
everything returned). `SendKeyInjective`, that no two endpoints send under one key,
is what turns "decrypts under my receive key" into "sent by my peer". The lemmas
`OpenIInv`, `EncryptIInv` and `DecryptIInv` do the steps that matter, `IInvFrame`
the others. For the refinement, `EncryptSends` maps `Encrypt` to `Send` and
`DecryptDelivers` maps `Decrypt` to `Deliver` on the peer's channel; everything
else stutters. `RekeyFlagExact` is inductive given `TypeOK`.

`HandshakeProofs` proves, for any objects, users, certificates and clocks:

- `ServersAgree` and `ClientsAgree`: `ServerAgreement` and `ClientAgreement`;
- `SessionsStayDistinct`: `SessionsDistinct`;
- `TypeCorrect`.

Agreement is about what two objects hold and is disturbed by neither of them alone;
what connects them is on the wire. `IInv` adds that a `ServerHello` signs a
transcript whose last message is the hello it answers, and its server derived the
session that ends with it (`ServerHelloInv`); that a `ClientFinished` is for a
session that a client returned (`FinishedInv`); that an object which still holds a
decapsulation key ends its transcript with the hello for that key, even if an
earlier drive left other messages in front (`KeyPairInv`); and that secrets are fresh
(`DerivedInv`). Equal session ids are equal transcripts, so the last message of
one names the secret, and with it the server's session.

`MessengerProofs` proves, for any installations, users, calls and restarts:

- `RelayImplemented`: `Spec => RelayRefinement`. `SendMessage` maps to `Accept`; a
  poll, a registration and a restart map to `Empty`; the rest stutters;
- `QueuesOfRegistered`: `QueuesOfRegisteredKept`;
- `ConnectedStaysActive`: `ConnectedMeansActive`;
- `IdentitiesRegistered`: `IdentityMatchesRegistry`;
- `SessionsHaveOneCA`: `SessionsUnderOneCA`;
- `QueuesStayInOrder`: what `RelayProofs` proves of any system that keeps the rules of
  `Relay` (`StaysInOrder`), for the queues of the server;
- `TypeCorrect`.

All of them need to know what requests and replies that may come late, twice or
never can still do. `TablesInv`: a handshake is pending or active, never both, and
what was accepted in a session is below its `recv_seq`. `RequestsInv`: one `/finish`
per id, by the user who said hello, before any message or DELETE of its session.
`RepliesInv`: a reply answers the call its client waits for; an id in the answer to a
hello is in no other answer and unused; a session just confirmed is untouched.
`IdentitiesInv` speaks of the key file together with the certificate in the reply
that will be written there, since between the two the name is already taken.
`ConnectionsInv`: what the server has seen of a session is below the client's
`send_seq`, and no DELETE for it is under way. `CaInv`, on top of these, follows the CA
through `connect`: the answer to a hello is from the CA of the certificate in it, a
handshake that is still pending is of the running server process, and what is
confirmed has the CA whose key the client compared with. `NoneAssumption` says that `None` is
no client, session, queue or request. `Merge`, the fields of two records, stands for
the library's `@@`, which the provers cannot expand.

`KeyStoreProofs` proves `TypeCorrect` and `LoadsOwnKeys` for any processes, users
and file names, from `KeyStoreAssumption`: every record in a file, and every record
an update is about to write, is backed by a save of the same user, keys and
passphrase.

`EnrolmentProofs` proves from `EInv`, in which every key in an identity, a file, a
pending write or a certificate belongs to the user named beside it:

- `ImplementsKeyStore`: every step is a step of `KeyStore` or leaves its variables
  alone, whence `EnrolmentLoadsOwnKeys`;
- `AcceptedAsOwner`: `NeverMistaken`. Keys and certificate of one record may belong
  to different users, so `EInv` ties each to its own, and only a peer's check of
  the signature under the certificate's key brings the two together;
- `SerialCallsAddUp`: `FileIsLatest`. `UndisturbedInv` follows a call through the
  two halves of `write_text`: on an undisturbed file at most one call is writing,
  the file is what it was or empty meanwhile, and the record about to be written
  is the one the file has but for its certificate. `EnrolmentAssumption`: `None`
  is neither a user nor a task.

`KeyMaterialProofs` proves `TypeCorrect`, `NeverZeroed` (`NoZeroedKeyUsed`),
`EstablishedKeysWhileServed` (`SessionKeysWhileServed`) and `ClosedForGood` (`ForwardSecrecy`)
for any bounds. Its `IInv` says, besides, what every object holds: a `connect` in
progress has a live identity and either its ephemeral key or its session keys
(`ConnectingInv`), an identity and a session are live until `close` (`ClientInv`),
a `ServerHello` names a handshake for the key of its hello (`HttpInv`), the server's
keys of a handshake are live until it ends that session (`ServerKeysInv`), a confirmed
handshake is never pending again and is ended or a session of a running server
(`ConfirmedInv`), and what either side closed stays closed (`EndedInv`).

It also proves

- `KeysStayIndependent`: `KeysIndependent`. A key of 32 bytes is one block of
  `HkdfExpand`, so the recursion over blocks unfolds once (`OneBlock`), and what is
  left is that equal terms have equal parts, down to info string and transcript;
- `NoncesAreUsedOnce`: `NonceOnce`. `NonceInv` says where the client is in the
  numbers of a handshake: none used while the `connect` waits for the ServerHello,
  0 at most until the confirmation is answered, then those below `send_seq`. What
  makes `Send` go on is `Packable`, by which a number that does not fit raises before
  it is reduced. `KeyMaterialAssumption` states that 2^SequenceWidth is a positive
  number because the provers know nothing of powers.

Only model-checked: liveness (`EveryEnvelopeSettled`, `HandshakeCompletes`,
`EveryCallReturns`, `ConnectSucceeds`), since fairness and ENABLED are beyond the
provers used, and what the runs that expect a violation show.

## Not modelled

- Cryptography: perfect everywhere. Checks of the sizes of keys, nonces and
  signatures have no state and no input here that fails them. PBKDF2 is the
  passphrase a record is sealed with. `length_prefix`, token and comparison helpers
  of `utils.py` have no caller.
- Malformed messages (bad hex, missing fields, wrong sizes): raise before any state
  change, and have no action of their own, except where the code has changed
  something by then: `process_client_hello` has hashed them (`RejectClientHello`) and
  `handshake_finish` has dropped the pending handshake (`HandshakeFinishRefused` in
  `Messenger` and in `KeyMaterial`).
- Copies of keys in immutable `bytes`, which the code makes and cannot zero, and
  what the `memset` of `secure_zero` does to memory beyond its object: undefined
  behaviour of the interpreter, with no list of outcomes. `KeyMaterial` models the
  loop after it, which zeroes the buffer. An exception between derivation and
  `destroy` inside one handshake call is not modelled either.
- `/health` and `identity_exists`: read only. `demo.py`: a script; its schedule is
  `DriverSpec` and `FairSpec`. `protocol/message.py`, `server/route.py`,
  `server/state.py`, `tests/test_protocol.py`: empty.

## Plan

Done, in this order: `Session` with `SecureChannel` and its proofs (the core: what
every message depends on); `Handshake`; `Messenger` with `Relay`; `KeyStore` and its
proofs; `Enrolment` over `KeyStore`, and `KeyMaterial`, with theirs.

Then the proofs of `Handshake`, `Messenger` with `Relay`, and of what was only checked in
`Enrolment` and `KeyMaterial`.

Next:

1. What compositions promise: that the sessions `Handshake` hands out satisfy what
   `Session` assumes of its endpoints (distinct ids, keys by role), as a refinement
   instead of by the names of the modules.
2. `Messenger`'s `disk` as an instance of `Enrolment`'s files.
3. Certificates under the clocks of issuer, client and server
   (`certificate.py:77`, `:199`, `:263`), composed with `Messenger`'s registry.
