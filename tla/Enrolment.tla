----------------------------- MODULE Enrolment -----------------------------
(***************************************************************************)
(* identity/keypair.py and the CA of identity/certificate.py, over the key *)
(* files of KeyStore: programs that generate an identity, have it          *)
(* certified, save it, load it, renew its certificate and use it.          *)
(*                                                                         *)
(* The files are KeyStore's; every step here that touches them is a step   *)
(* of KeyStore with the arguments such a program passes.  Keys are fresh,  *)
(* and every certificate comes from the one CA, so its signature is valid. *)
(* When a certificate is valid is in Handshake; here Serial tells apart    *)
(* the certificates that the CA issues for the same keys over time.        *)
(***************************************************************************)
EXTENDS KeyStore

ASSUME EnrolmentAssumption == None \notin User /\ None \notin Task

VARIABLES
  owner,      \* owner[k]: the user for whom k was generated, or None
  identity,   \* identity[p]: the UserIdentity that p holds, or None
  grant,      \* grant[p]: the certificate the CA returned to p last
  latest,     \* history: what the calls on a file add up to, in their order
  disturbed   \* history: names where calls overlapped or a process died

memory == <<owner, identity, grant>>
history == <<latest, disturbed>>
allVars == <<vars, memory, history>>
-----------------------------------------------------------------------------
UserIdentity == [user : User, key : Key, certificate : Certificate \cup {None}]

EnrolmentInit ==
  /\ Init
  /\ owner = [k \in Key |-> None]
  /\ identity = [p \in Process |-> None]
  /\ grant = [p \in Process |-> None]
  /\ latest = [n \in Name |-> Absent]
  /\ disturbed = {}

(* A program is not in the middle of write_text.                           *)
Idle(p) == task[p] = None

(* generate_user_identity                                                  *)
GenerateUserIdentity(p, u, k) ==
  /\ Idle(p)
  /\ owner[k] = None
  /\ owner' = [owner EXCEPT ![k] = u]
  /\ identity' = [identity EXCEPT ![p] = [user |-> u, key |-> k, certificate |-> None]]
  /\ UNCHANGED <<vars, grant, history>>

\* Mutant: the CA puts any name it is given over the keys.
IssueCertificateAnyUser(p, s) ==
  /\ Idle(p)
  /\ identity[p] # None
  /\ \E u \in User : grant' = [grant EXCEPT ![p] =
        [user |-> u, key |-> identity[p].key, serial |-> s]]
  /\ UNCHANGED <<vars, owner, identity, history>>

(* issue_certificate, for the user and the public keys of an identity.     *)
IssueCertificate(p, s) ==
  /\ Idle(p)
  /\ identity[p] # None
  /\ grant' = [grant EXCEPT ![p] =
        [user |-> identity[p].user, key |-> identity[p].key, serial |-> s]]
  /\ UNCHANGED <<vars, owner, identity, history>>

(* The comparisons of attach_certificate.                                  *)
Attachable(i, c) == c.user = i.user /\ c.key = i.key

AttachCertificate(p) ==
  /\ Idle(p)
  /\ identity[p] # None /\ grant[p] # None
  /\ Attachable(identity[p], grant[p])
  /\ identity' = [identity EXCEPT ![p].certificate = grant[p]]
  /\ UNCHANGED <<vars, owner, grant, history>>

(* destroy, or the end of the program between two calls.                   *)
Destroy(p) ==
  /\ Idle(p)
  /\ identity[p] # None
  /\ identity' = [identity EXCEPT ![p] = None]
  /\ UNCHANGED <<vars, owner, grant, history>>

(* A call on a file that another process is writing.                       *)
Overlaps(p, n) == \E q \in Process \ {p} : task[q] # None /\ task[q].name = n

Disturb(p, n) ==
  disturbed' = IF Overlaps(p, n) THEN disturbed \cup {n} ELSE disturbed

Save(p, w) ==
  /\ identity[p] # None
  /\ SaveIdentity(p, identity[p].user, identity[p].key, w, identity[p].certificate)
  /\ Disturb(p, FileName[identity[p].user])
  /\ UNCHANGED <<memory, latest>>

(* update_certificate for the user whom the certificate names.             *)
Update(p) ==
  /\ grant[p] # None
  /\ UpdateCertificate(p, grant[p].user, grant[p])
  /\ Disturb(p, FileName[grant[p].user])
  /\ UNCHANGED <<memory, latest>>

BeginWrite(p) == Truncate(p) /\ UNCHANGED <<memory, history>>

(* The call returns.  What it adds to the history is what was asked for: a  *)
(* save puts the identity that p holds into the file of its user, whatever *)
(* was there; an update puts the certificate that p was granted into what  *)
(* is there for the user it names.                                         *)
EndWrite(p) ==
  /\ Write(p)
  /\ LET i == identity[p]
         c == grant[p]
     IN  latest' = IF task[p].op = "save"
            THEN [latest EXCEPT ![FileName[i.user]] =
                    [user |-> i.user, key |-> i.key, password |-> task[p].record.password,
                     certificate |-> i.certificate]]
            ELSE [latest EXCEPT ![FileName[c.user]] =
                    IF IsRecord(@) THEN [@ EXCEPT !.certificate = c] ELSE @]
  /\ UNCHANGED <<memory, disturbed>>

(* load_identity and reconstruct_identity, which takes the keys and the    *)
(* certificate as it finds them.                                           *)
Load(p, u, w) ==
  /\ Idle(p)
  /\ LoadIdentity(u, w)
  /\ LET f == file[FileName[u]]
     IN  identity' = [identity EXCEPT ![p] =
            [user |-> f.user, key |-> f.key, certificate |-> f.certificate]]
  /\ UNCHANGED <<owner, grant, history>>

(* The process dies inside save_identity or update_certificate.            *)
Die(p) ==
  /\ Crash(p)
  /\ identity' = [identity EXCEPT ![p] = None]
  /\ grant' = [grant EXCEPT ![p] = None]
  /\ disturbed' = IF task[p].step = "write" THEN disturbed \cup {task[p].name}
                  ELSE disturbed
  /\ UNCHANGED <<owner, latest>>

EnrolmentNext ==
  \E p \in Process :
    \/ \E u \in User, k \in Key : GenerateUserIdentity(p, u, k)
    \/ \E s \in Serial : IssueCertificate(p, s)
    \/ AttachCertificate(p)
    \/ \E w \in Password : Save(p, w)
    \/ Update(p)
    \/ BeginWrite(p)
    \/ EndWrite(p)
    \/ \E u \in User, w \in Password : Load(p, u, w)
    \/ Die(p)
    \/ Destroy(p)

EnrolmentSpec == EnrolmentInit /\ [][EnrolmentNext]_allVars
-----------------------------------------------------------------------------
EnrolmentTypeOK ==
  /\ owner \in [Key -> User \cup {None}]
  /\ identity \in [Process -> UserIdentity \cup {None}]
  /\ grant \in [Process -> Certificate \cup {None}]
  /\ latest \in [Name -> Record \cup {Absent}]
  /\ disturbed \subseteq Name

(* What a peer that verifies certificate and signature concludes from a     *)
(* message signed by i: the user in the certificate, if the signature of   *)
(* i's key verifies under the certificate's.                               *)
Authenticates(i, u) ==
  /\ i.certificate # None
  /\ i.certificate.user = u
  /\ i.certificate.key = i.key

(* Keys and certificate travel separately and are only compared when a      *)
(* certificate is attached: racing saves and updates, or user_ids that     *)
(* share a file, can join the keys of one identity with the certificate of *)
(* another.  Such an identity is refused by its peers; it never passes for *)
(* anybody but the user it belongs to, and for whom its keys were made.    *)
NeverMistaken ==
  \A p \in Process : identity[p] # None =>
    \A u \in User : Authenticates(identity[p], u) =>
      identity[p].user = u /\ owner[identity[p].key] = u

(* Calls that do not overlap act one after the other: when nobody writes a  *)
(* file, and no two calls on it ever overlapped, and no process died while *)
(* writing it, the file is what was asked for: the identity last saved with *)
(* the certificate it had, and over that the certificate last renewed.  Of  *)
(* a file where calls overlapped or a process died it says nothing.        *)
FileIsLatest ==
  \A n \in Name \ disturbed :
    (\A p \in Process : task[p] # None => task[p].name # n) => file[n] = latest[n]
=============================================================================
