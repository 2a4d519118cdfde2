--------------------------- MODULE KeyStoreProofs ---------------------------
(***************************************************************************)
(* Theorems about KeyStore, for any processes, users, file names and keys. *)
(***************************************************************************)
EXTENDS KeyStore, TLAPS

(* Somebody saved these keys for this user and passphrase.                 *)
Backed(r) == \E s \in saved :
  s.user = r.user /\ s.key = r.key /\ s.password = r.password

(* The inductive invariant: whatever is in a file, or on its way into one as*)
(* an update, was saved.                                                   *)
IInv == /\ TypeOK
        /\ \A n \in Name : IsRecord(file[n]) => Backed(file[n])
        /\ \A p \in Process : task[p] # None /\ task[p].op = "update" =>
                                Backed(task[p].record)
        /\ LoadedIsOwn

LEMMA InitIInv == Init => IInv
BY KeyStoreAssumption DEF Init, IInv, TypeOK, IsRecord, LoadedIsOwn

(* A certificate can be exchanged in a record.                             *)
LEMMA RecordWith ==
  ASSUME NEW f \in Record, NEW c \in Certificate
  PROVE  /\ [f EXCEPT !.certificate = c] \in Record
         /\ [f EXCEPT !.certificate = c].user = f.user
         /\ [f EXCEPT !.certificate = c].key = f.key
         /\ [f EXCEPT !.certificate = c].password = f.password
BY DEF Record

(* Starting a write keeps the invariant when an update rewrites what was    *)
(* saved.                                                                  *)
LEMMA StartIInv ==
  ASSUME IInv, NEW p \in Process, NEW t \in Task, Start(p, t),
         t.op = "update" => Backed(t.record)
  PROVE  IInv'
<1>1. TypeOK'
  BY KeyStoreAssumption DEF IInv, TypeOK, Start
<1>2. \A q \in Process : task'[q] = IF q = p THEN t ELSE task[q]
  BY DEF IInv, TypeOK, Start
<1>3. UNCHANGED <<file, saved, loaded>>
  BY DEF Start
<1>4. QED
  BY <1>1, <1>2, <1>3 DEF IInv, Backed, LoadedIsOwn, IsRecord

LEMMA SaveIInv ==
  ASSUME IInv, NEW p \in Process, NEW u \in User, NEW k \in Key, NEW w \in Password,
         NEW c \in Certificate \cup {None}, SaveIdentity(p, u, k, w, c)
  PROVE  IInv'
<1> DEFINE r == [user |-> u, key |-> k, password |-> w, certificate |-> c]
           t == [op |-> "save", step |-> "open", name |-> FileName[u], record |-> r]
<1>1. r \in Record
  BY DEF Record
<1>2. t \in Task
  BY <1>1, KeyStoreAssumption DEF Task
<1>3. Start(p, t) /\ t.op # "update"
  BY DEF SaveIdentity
<1>4. QED
  BY <1>2, <1>3, StartIInv

LEMMA UpdateIInv ==
  ASSUME IInv, NEW p \in Process, NEW u \in User, NEW c \in Certificate,
         UpdateCertificate(p, u, c)
  PROVE  IInv'
<1> DEFINE f == file[FileName[u]]
           r == [f EXCEPT !.certificate = c]
           t == [op |-> "update", step |-> "open", name |-> FileName[u], record |-> r]
<1>1. FileName[u] \in Name /\ IsRecord(f)
  BY KeyStoreAssumption DEF UpdateCertificate
<1>2. f \in Record /\ Backed(f)
  BY <1>1 DEF IInv, TypeOK, IsRecord
<1>3. r \in Record /\ r.user = f.user /\ r.key = f.key /\ r.password = f.password
  BY <1>2, RecordWith
<1>4. t \in Task /\ t.record = r
  BY <1>1, <1>3 DEF Task
<1>5. Backed(r)
  <2> HIDE DEF r
  <2> QED BY <1>2, <1>3 DEF Backed
<1>6. Start(p, t)
  BY DEF UpdateCertificate
<1>7. QED
  <2> HIDE DEF t, r
  <2> QED BY <1>4, <1>5, <1>6, StartIInv

LEMMA TruncateIInv ==
  ASSUME IInv, NEW p \in Process, Truncate(p)
  PROVE  IInv'
<1>1. task[p] \in Task
  BY DEF IInv, TypeOK, Truncate
<1>2. \A n \in Name : file'[n] = IF n = task[p].name THEN Empty ELSE file[n]
  BY DEF IInv, TypeOK, Truncate
<1>3. [task[p] EXCEPT !.step = "write"] \in Task
  BY <1>1 DEF Task
<1>4. TypeOK'
  BY <1>1, <1>3 DEF IInv, TypeOK, Truncate
<1>5. \A q \in Process : task'[q] = IF q = p THEN [task[p] EXCEPT !.step = "write"]
                                            ELSE task[q]
  BY DEF IInv, TypeOK, Truncate
<1>6. /\ [task[p] EXCEPT !.step = "write"].op = task[p].op
      /\ [task[p] EXCEPT !.step = "write"].record = task[p].record
  BY <1>1 DEF Task
<1>7. task[p] # None /\ UNCHANGED <<saved, loaded>>
  BY DEF Truncate
<1>8. \A r : Backed(r) => Backed(r)'
  BY <1>7 DEF Backed
<1>9. \A n \in Name : IsRecord(file'[n]) => Backed(file'[n])
  BY <1>2 DEF IInv, IsRecord
<1>10. \A q \in Process : task'[q] # None /\ task'[q].op = "update" =>
                           Backed(task'[q].record)
  BY <1>5, <1>6, <1>7 DEF IInv
<1>11. LoadedIsOwn'
  BY <1>7 DEF IInv, LoadedIsOwn
<1>12. QED
  BY <1>4, <1>7, <1>9, <1>10, <1>11 DEF IInv, Backed, IsRecord

LEMMA WriteIInv ==
  ASSUME IInv, NEW p \in Process, Write(p)
  PROVE  IInv'
<1>1. task[p] \in Task /\ task[p] # None
  BY DEF IInv, TypeOK, Write
<1>2. task[p].record \in Record /\ task[p].name \in Name /\ task[p].op \in {"save", "update"}
  BY <1>1 DEF Task
<1>3. PICK f \in {task[p].record, Garbled} : file' = [file EXCEPT ![task[p].name] = f]
  BY DEF Write
<1>4. \A n \in Name : file'[n] = IF n = task[p].name THEN f ELSE file[n]
  BY <1>3 DEF IInv, TypeOK
<1>5. saved \subseteq saved' /\ saved' \subseteq saved \cup {task[p].record} /\ loaded' = loaded
  BY DEF Write
<1>6. \A r : Backed(r) => \E s \in saved' :
        s.user = r.user /\ s.key = r.key /\ s.password = r.password
  BY <1>5 DEF Backed
<1>7. \E s \in saved' : /\ s.user = task[p].record.user
                       /\ s.key = task[p].record.key
                       /\ s.password = task[p].record.password
  <2>1. CASE task[p].op = "save"
    <3>1. task[p].record \in saved'
      BY <2>1 DEF Write
    <3>2. QED
      BY <3>1
  <2>2. CASE task[p].op = "update"
    BY <1>1, <1>6, <2>2 DEF IInv
  <2>3. QED
    BY <1>2, <2>1, <2>2
<1>8. \A n \in Name : IsRecord(file'[n]) => \E s \in saved' :
        /\ s.user = file'[n].user
        /\ s.key = file'[n].key
        /\ s.password = file'[n].password
  <2> SUFFICES ASSUME NEW n \in Name, IsRecord(file'[n])
               PROVE  \E s \in saved' : /\ s.user = file'[n].user
                                       /\ s.key = file'[n].key
                                       /\ s.password = file'[n].password
    OBVIOUS
  <2>1. CASE n = task[p].name
    BY <1>3, <1>4, <1>7, <2>1 DEF IsRecord
  <2>2. CASE n # task[p].name
    BY <1>4, <1>6, <2>2 DEF IInv
  <2>3. QED
    BY <2>1, <2>2
<1>9. \A q \in Process : task'[q] = IF q = p THEN None ELSE task[q]
  BY DEF IInv, TypeOK, Write
<1>10. TypeOK'
  BY <1>2, <1>3, <1>5 DEF IInv, TypeOK, Write
<1>11. LoadedIsOwn'
  BY <1>5 DEF IInv, LoadedIsOwn
<1>12. \A q \in Process : task'[q] # None /\ task'[q].op = "update" =>
         \E s \in saved' : /\ s.user = task'[q].record.user
                          /\ s.key = task'[q].record.key
                          /\ s.password = task'[q].record.password
  BY <1>6, <1>9 DEF IInv
<1>13. QED
  BY <1>8, <1>10, <1>11, <1>12 DEF IInv, IsRecord, Backed

LEMMA LoadIInv ==
  ASSUME IInv, NEW u \in User, NEW w \in Password, LoadIdentity(u, w)
  PROVE  IInv'
<1>1. FileName[u] \in Name
  BY KeyStoreAssumption
<1>2. file[FileName[u]] \in Record /\ Backed(file[FileName[u]])
  BY <1>1 DEF IInv, TypeOK, LoadIdentity, IsRecord
<1>3. UNCHANGED <<file, task, ops, saved>> /\ loaded' = loaded \cup {file[FileName[u]]}
  BY DEF LoadIdentity
<1>4. QED
  BY <1>2, <1>3 DEF IInv, TypeOK, LoadedIsOwn, Backed, IsRecord

LEMMA CrashIInv ==
  ASSUME IInv, NEW p \in Process, Crash(p)
  PROVE  IInv'
<1>1. \A q \in Process : task'[q] = IF q = p THEN None ELSE task[q]
  BY DEF IInv, TypeOK, Crash
<1>2. \A n \in Name : file'[n] = file[n] \/ file'[n] = Garbled
  BY DEF IInv, TypeOK, Crash
<1>3. UNCHANGED <<ops, saved, loaded>>
  BY DEF Crash
<1>4. TypeOK'
  BY DEF IInv, TypeOK, Crash
<1>5. QED
  BY <1>1, <1>2, <1>3, <1>4 DEF IInv, IsRecord, Backed, LoadedIsOwn

LEMMA StepIInv == IInv /\ [Next]_vars => IInv'
<1> SUFFICES ASSUME IInv, [Next]_vars PROVE IInv'
  OBVIOUS
<1>1. CASE Next
  BY <1>1, SaveIInv, UpdateIInv, TruncateIInv, WriteIInv, CrashIInv, LoadIInv DEF Next
<1>2. CASE UNCHANGED vars
  BY <1>2 DEF vars, IInv, TypeOK, IsRecord, Backed, LoadedIsOwn
<1>3. QED
  BY <1>1, <1>2

LEMMA Invariance == Spec => []IInv
BY InitIInv, StepIInv, PTL DEF Spec

(* Files, tasks and what is loaded keep their types: storage.py.            *)
THEOREM TypeCorrect == Spec => []TypeOK
<1>1. IInv => TypeOK
  BY DEF IInv
<1>2. QED
  BY <1>1, Invariance, PTL

(* load_identity never returns keys that were not saved for this user and  *)
(* passphrase, whatever happens to the files in between.                   *)
THEOREM LoadsOwnKeys == Spec => []LoadedIsOwn
<1>1. IInv => LoadedIsOwn
  BY DEF IInv
<1>2. QED
  BY <1>1, Invariance, PTL
=============================================================================
