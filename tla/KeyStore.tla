------------------------------ MODULE KeyStore ------------------------------
(***************************************************************************)
(* identity/storage.py: processes that share a directory of key files.     *)
(*                                                                         *)
(* Path.write_text opens the file, which empties it, and then writes from  *)
(* its start: two steps, between which the process may die and others may  *)
(* read and write.  AES-GCM is perfect: a bundle opens with the password   *)
(* and under the user_id that it was sealed with, and only then.           *)
(***************************************************************************)
EXTENDS Naturals

CONSTANTS
  Process,                  \* programs that use the directory
  User, Name, FileName,     \* FileName[u]: _safe_filename(u)
  Key, Password,            \* key bundles and passphrases
  Serial,                   \* distinguishes the certificates of one key
  None,                     \* Python's None
  Absent, Empty, Garbled,   \* a file that is no JSON record
  MaxOps                    \* bound: saves and updates that are started

ASSUME KeyStoreAssumption == FileName \in [User -> Name] /\ MaxOps \in Nat

VARIABLES
  file,      \* file[n]: the contents of n.json
  task,      \* task[p]: the write p is about to make, or None
  ops,       \* saves and updates started so far
  saved,     \* history: the records that save_identity wrote
  loaded     \* history: what load_identity returned, and for whom

vars == <<file, task, ops, saved, loaded>>
-----------------------------------------------------------------------------
IsRecord(f) == f \notin {Absent, Empty, Garbled}

Certificate == [user : User, key : Key, serial : Serial]

Record == [user : User, key : Key, password : Password,
           certificate : Certificate \cup {None}]

Task == [op : {"save", "update"}, step : {"open", "write"},
         name : Name, record : Record]

(* write_text is called.                                                   *)
Start(p, t) ==
  /\ task[p] = None
  /\ ops < MaxOps
  /\ ops' = ops + 1
  /\ task' = [task EXCEPT ![p] = t]
  /\ UNCHANGED <<file, saved, loaded>>

Init ==
  /\ file = [n \in Name |-> Absent]
  /\ task = [p \in Process |-> None]
  /\ ops = 0
  /\ saved = {}
  /\ loaded = {}

\* Mutant: the user_id is used as it is.
SaveIdentityRawName(p, u, k, w, c) ==
  Start(p, [op |-> "save", step |-> "open", name |-> u,
            record |-> [user |-> u, key |-> k, password |-> w, certificate |-> c]])

\* Mutant: the certificate of the identity is left out.
SaveIdentityDropsCertificate(p, u, k, w, c) ==
  Start(p, [op |-> "save", step |-> "open", name |-> FileName[u],
            record |-> [user |-> u, key |-> k, password |-> w, certificate |-> None]])

(* save_identity, up to write_text: whatever the file holds is replaced.    *)
SaveIdentity(p, u, k, w, c) ==
  Start(p, [op |-> "save", step |-> "open", name |-> FileName[u],
            record |-> [user |-> u, key |-> k, password |-> w, certificate |-> c]])

(* update_certificate, up to write_text: the record read now is the one     *)
(* written later.  Nobody looks at whose record it is.                     *)
UpdateCertificate(p, u, c) ==
  LET f == file[FileName[u]]
  IN  /\ IsRecord(f)
      /\ Start(p, [op |-> "update", step |-> "open", name |-> FileName[u],
                   record |-> [f EXCEPT !.certificate = c]])

(* write_text: open(..., "w") ...                                          *)
Truncate(p) ==
  /\ task[p] # None /\ task[p].step = "open"
  /\ file' = [file EXCEPT ![task[p].name] = Empty]
  /\ task' = [task EXCEPT ![p].step = "write"]
  /\ UNCHANGED <<ops, saved, loaded>>

(* ... and write(): over the text of a process that was faster, the end of  *)
(* a longer text remains.                                                  *)
Write(p) ==
  /\ task[p] # None /\ task[p].step = "write"
  /\ \E f \in {task[p].record} \cup
              (IF file[task[p].name] = Empty THEN {} ELSE {Garbled}) :
       file' = [file EXCEPT ![task[p].name] = f]
  /\ saved' = IF task[p].op = "save" THEN saved \cup {task[p].record} ELSE saved
  /\ task' = [task EXCEPT ![p] = None]
  /\ UNCHANGED <<ops, loaded>>

\* Mutant: the file is trusted to belong to the user.
LoadIdentityAnyUser(u, w) ==
  LET f == file[FileName[u]]
  IN  /\ IsRecord(f)
      /\ f.password = w
      /\ loaded' = loaded \cup {[f EXCEPT !.user = u]}
      /\ UNCHANGED <<file, task, ops, saved>>

(* load_identity; a file that is missing, empty, garbled, another user's or *)
(* sealed with another password raises.                                    *)
LoadIdentity(u, w) ==
  LET f == file[FileName[u]]
  IN  /\ IsRecord(f)
      /\ f.user = u
      /\ f.password = w
      /\ loaded' = loaded \cup {f}
      /\ UNCHANGED <<file, task, ops, saved>>

(* The process dies in the middle of a call, perhaps of a write.            *)
Crash(p) ==
  /\ task[p] # None
  /\ \/ UNCHANGED file
     \/ /\ task[p].step = "write"
        /\ file' = [file EXCEPT ![task[p].name] = Garbled]
  /\ task' = [task EXCEPT ![p] = None]
  /\ UNCHANGED <<ops, saved, loaded>>

(* The functions trust their caller: any identity with any certificate is   *)
(* saved, any certificate put into any file.                               *)
Next ==
  \/ \E p \in Process :
       \/ \E u \in User, k \in Key, w \in Password, c \in Certificate \cup {None} :
            SaveIdentity(p, u, k, w, c)
       \/ \E u \in User, c \in Certificate : UpdateCertificate(p, u, c)
       \/ Truncate(p) \/ Write(p) \/ Crash(p)
  \/ \E u \in User, w \in Password : LoadIdentity(u, w)

Spec == Init /\ [][Next]_vars
-----------------------------------------------------------------------------
TypeOK ==
  /\ file \in [Name -> Record \cup {Absent, Empty, Garbled}]
  /\ task \in [Process -> Task \cup {None}]
  /\ ops \in 0..MaxOps
  /\ saved \subseteq Record
  /\ loaded \subseteq Record

(* Whatever other processes do to the directory, and also when two user_ids *)
(* share a file, load_identity returns keys that were saved for this very  *)
(* user and passphrase, or raises.                                         *)
LoadedIsOwn ==
  \A l \in loaded : \E s \in saved :
    s.user = l.user /\ s.key = l.key /\ s.password = l.password
=============================================================================
