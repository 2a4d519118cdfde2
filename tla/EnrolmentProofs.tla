-------------------------- MODULE EnrolmentProofs --------------------------
(***************************************************************************)
(* Theorems about Enrolment, for any processes, users, file names and keys. *)
(* Enrolment implements KeyStore, so what KeyStoreProofs shows of the files *)
(* holds here; and whatever the files do to an identity, it is not mistaken *)
(* for another.                                                            *)
(***************************************************************************)
EXTENDS Enrolment, KeyStoreProofs

(* The user for whom a record, a certificate or an identity was made is the*)
(* owner of its keys.                                                      *)
Owned(x) == owner[x.key] = x.user
CertOwned(c) == c # None => Owned(c)

FilesOwned == \A n \in Name : IsRecord(file[n]) =>
                Owned(file[n]) /\ CertOwned(file[n].certificate)
TasksOwned == \A p \in Process : task[p] # None =>
                Owned(task[p].record) /\ CertOwned(task[p].record.certificate)
MemoryOwned ==
  /\ \A p \in Process : identity[p] # None =>
        Owned(identity[p]) /\ CertOwned(identity[p].certificate)
  /\ \A p \in Process : CertOwned(grant[p])

(* A call on its way does what its process asked for: it writes the identity *)
(* or the certificate that the process still holds.                        *)
Asked(p) ==
  /\ task[p].op = "save" =>
       /\ identity[p] # None
       /\ task[p].name = FileName[identity[p].user]
       /\ task[p].record = [user |-> identity[p].user, key |-> identity[p].key,
                            password |-> task[p].record.password,
                            certificate |-> identity[p].certificate]
  /\ task[p].op = "update" =>
       /\ grant[p] # None
       /\ task[p].name = FileName[grant[p].user]
       /\ task[p].record.certificate = grant[p]

TasksAsked == \A p \in Process : task[p] # None => Asked(p)

(* The inductive invariant.  A record's keys and its certificate may belong *)
(* to different users, each to the user that it names.                     *)
EInv == TypeOK /\ EnrolmentTypeOK /\ FilesOwned /\ TasksOwned /\ MemoryOwned
        /\ TasksAsked

LEMMA InitEInv == EnrolmentInit => EInv
BY KeyStoreAssumption DEF EnrolmentInit, Init, EInv, TypeOK, EnrolmentTypeOK,
       FilesOwned, TasksOwned, MemoryOwned, TasksAsked, IsRecord, CertOwned

(* -------------------- the files: steps of KeyStore --------------------- *)

(* Each step of Enrolment is a step of KeyStore or leaves its state alone.  *)
LEMMA StepImplements == EInv /\ [EnrolmentNext]_allVars => [Next]_vars
<1> SUFFICES ASSUME EInv, [EnrolmentNext]_allVars PROVE [Next]_vars
  OBVIOUS
<1>1. ASSUME NEW p \in Process, NEW w \in Password, Save(p, w) PROVE Next
  <2>1. identity[p] \in UserIdentity
    BY <1>1 DEF Save, EInv, EnrolmentTypeOK
  <2>2. /\ identity[p].user \in User /\ identity[p].key \in Key
        /\ identity[p].certificate \in Certificate \cup {None}
    BY <2>1 DEF UserIdentity
  <2>3. QED
    BY <1>1, <2>2 DEF Save, Next
<1>2. ASSUME NEW p \in Process, Update(p) PROVE Next
  <2>1. grant[p] \in Certificate
    BY <1>2 DEF Update, EInv, EnrolmentTypeOK
  <2>2. grant[p].user \in User
    BY <2>1 DEF Certificate
  <2>3. QED
    BY <1>2, <2>1, <2>2 DEF Update, Next
<1>3. ASSUME NEW p \in Process, BeginWrite(p) \/ EndWrite(p) \/ Die(p) PROVE Next
  BY <1>3 DEF BeginWrite, EndWrite, Die, Next
<1>4. ASSUME NEW p \in Process, NEW u \in User, NEW w \in Password, Load(p, u, w)
      PROVE  Next
  BY <1>4 DEF Load, Next
<1>5. ASSUME NEW p \in Process,
             \/ \E u \in User, k \in Key : GenerateUserIdentity(p, u, k)
             \/ \E s \in Serial : IssueCertificate(p, s)
             \/ AttachCertificate(p)
             \/ Destroy(p)
      PROVE  UNCHANGED vars
  BY <1>5 DEF GenerateUserIdentity, IssueCertificate, AttachCertificate, Destroy
<1>6. CASE UNCHANGED allVars
  BY <1>6 DEF allVars
<1>7. QED
  BY <1>1, <1>2, <1>3, <1>4, <1>5, <1>6 DEF EnrolmentNext

(* A step that leaves the owners of keys alone keeps records owned.  A save *)
(* writes what the identity holds, an update what it read and a grant.     *)
LEMMA StartOwned ==
  ASSUME EInv, NEW p \in Process, NEW t \in Task, Start(p, t), owner' = owner,
         Owned(t.record), CertOwned(t.record.certificate)
  PROVE  FilesOwned' /\ TasksOwned'
<1>1. \A q \in Process : task'[q] = IF q = p THEN t ELSE task[q]
  BY DEF EInv, TypeOK, Start
<1>2. file' = file
  BY DEF Start
<1>3. QED
  BY <1>1, <1>2 DEF EInv, FilesOwned, TasksOwned, Owned, CertOwned

(* A step of p leaves the calls of the others as they are.                  *)
LEMMA OthersAsked ==
  ASSUME EInv, NEW p \in Process,
         \A q \in Process \ {p} :
           task'[q] = task[q] /\ identity'[q] = identity[q] /\ grant'[q] = grant[q],
         task'[p] # None => Asked(p)'
  PROVE  TasksAsked'
BY DEF EInv, TasksAsked, Asked

LEMMA SaveOwned ==
  ASSUME EInv, NEW p \in Process, NEW w \in Password, Save(p, w)
  PROVE  EInv'
<1>1. identity[p] \in UserIdentity
  BY DEF Save, EInv, EnrolmentTypeOK
<1>2. /\ identity[p].user \in User /\ identity[p].key \in Key
      /\ identity[p].certificate \in Certificate \cup {None}
  BY <1>1 DEF UserIdentity
<1> DEFINE r == [user |-> identity[p].user, key |-> identity[p].key, password |-> w,
                 certificate |-> identity[p].certificate]
           n == FileName[identity[p].user]
           t == [op |-> "save", step |-> "open", name |-> n, record |-> r]
<1>3. n \in Name
  BY <1>2, KeyStoreAssumption
<1>4. t \in Task /\ t.record = r
  BY <1>2, <1>3 DEF Task, Record
<1>5. Start(p, t)
  BY DEF Save, SaveIdentity
<1>6. Owned(r) /\ CertOwned(r.certificate)
  BY DEF EInv, MemoryOwned, Owned, Save
<1>7. UNCHANGED <<memory, latest, file, saved, loaded>>
  BY <1>5 DEF Save, Start
<1>8. disturbed' \subseteq disturbed \cup {n}
  BY DEF Save, Disturb
<1>9. TypeOK'
  <2> HIDE DEF t
  <2> QED BY <1>4, <1>5, KeyStoreAssumption DEF EInv, TypeOK, Start
<1>10. EnrolmentTypeOK'
  BY <1>3, <1>7, <1>8 DEF EInv, EnrolmentTypeOK, memory
<1>11. FilesOwned' /\ TasksOwned'
  <2> HIDE DEF t, r
  <2> QED BY <1>4, <1>5, <1>6, <1>7, StartOwned DEF memory
<1>12. MemoryOwned'
  BY <1>7 DEF EInv, MemoryOwned, Owned, CertOwned, memory
<1>13. TasksAsked'
  <2>1. \A q \in Process : task'[q] = IF q = p THEN t ELSE task[q]
    BY <1>5 DEF EInv, TypeOK, Start
  <2>2. identity[p] # None /\ UNCHANGED <<identity, grant>>
    BY <1>7 DEF Save, memory
  <2>3. Asked(p)'
    BY <2>1, <2>2 DEF Asked
  <2> HIDE DEF t
  <2> QED BY <2>1, <2>2, <2>3, OthersAsked
<1>14. QED
  BY <1>9, <1>10, <1>11, <1>12, <1>13 DEF EInv

LEMMA UpdateOwned ==
  ASSUME EInv, NEW p \in Process, Update(p)
  PROVE  EInv'
<1> DEFINE c == grant[p]
           n == FileName[c.user]
           f == file[n]
           r == [f EXCEPT !.certificate = c]
           t == [op |-> "update", step |-> "open", name |-> n, record |-> r]
<1>1. c \in Certificate /\ c # None
  BY DEF Update, EInv, EnrolmentTypeOK
<1>2. n \in Name
  BY <1>1, KeyStoreAssumption DEF Certificate
<1>3. f \in Record /\ Owned(f)
  BY <1>2 DEF Update, UpdateCertificate, EInv, TypeOK, FilesOwned, IsRecord
<1>4. r \in Record /\ r.user = f.user /\ r.key = f.key /\ r.certificate = c
  BY <1>1, <1>3 DEF Record
<1>5. t \in Task /\ t.record = r
  BY <1>2, <1>4 DEF Task
<1>6. Start(p, t)
  BY DEF Update, UpdateCertificate
<1>7. Owned(r) /\ CertOwned(r.certificate)
  <2> HIDE DEF r
  <2> QED BY <1>3, <1>4 DEF EInv, MemoryOwned, Owned
<1>8. UNCHANGED <<memory, latest, file, saved, loaded>>
  BY <1>6 DEF Update, Start
<1>9. disturbed' \subseteq disturbed \cup {n}
  BY DEF Update, Disturb
<1>10. TypeOK'
  <2> HIDE DEF t
  <2> QED BY <1>5, <1>6, KeyStoreAssumption DEF EInv, TypeOK, Start
<1>11. EnrolmentTypeOK'
  BY <1>2, <1>8, <1>9 DEF EInv, EnrolmentTypeOK, memory
<1>12. FilesOwned' /\ TasksOwned'
  <2> HIDE DEF t, r
  <2> QED BY <1>5, <1>6, <1>7, <1>8, StartOwned DEF memory
<1>13. MemoryOwned'
  BY <1>8 DEF EInv, MemoryOwned, Owned, CertOwned, memory
<1>14. TasksAsked'
  <2>1. \A q \in Process : task'[q] = IF q = p THEN t ELSE task[q]
    BY <1>6 DEF EInv, TypeOK, Start
  <2>2. UNCHANGED <<identity, grant>>
    BY <1>8 DEF memory
  <2>3. t.op = "update" /\ t.name = n /\ t.record.certificate = c
    BY <1>4, <1>5
  <2> HIDE DEF t, r
  <2>4. Asked(p)'
    BY <1>1, <2>1, <2>2, <2>3 DEF Asked
  <2> QED BY <2>1, <2>2, <2>4, OthersAsked
<1>15. QED
  BY <1>10, <1>11, <1>12, <1>13, <1>14 DEF EInv

LEMMA BeginWriteOwned ==
  ASSUME EInv, NEW p \in Process, BeginWrite(p)
  PROVE  EInv'
<1>1. task[p] \in Task /\ task[p] # None
  BY DEF BeginWrite, Truncate, EInv, TypeOK
<1> DEFINE t == [task[p] EXCEPT !.step = "write"]
<1>2. t \in Task /\ t.record = task[p].record
  BY <1>1 DEF Task
<1>3. \A n \in Name : file'[n] = IF n = task[p].name THEN Empty ELSE file[n]
  BY DEF BeginWrite, Truncate, EInv, TypeOK
<1>4. \A q \in Process : task'[q] = IF q = p THEN t ELSE task[q]
  BY DEF BeginWrite, Truncate, EInv, TypeOK
<1>5. UNCHANGED <<ops, saved, loaded, memory, history>>
  BY DEF BeginWrite, Truncate
<1>6. TypeOK'
  BY <1>2 DEF BeginWrite, Truncate, EInv, TypeOK
<1>7. FilesOwned' /\ TasksOwned'
  <2> HIDE DEF t
  <2> QED BY <1>1, <1>2, <1>3, <1>4, <1>5
          DEF EInv, FilesOwned, TasksOwned, IsRecord, Owned, CertOwned, memory
<1>8. EnrolmentTypeOK' /\ MemoryOwned'
  BY <1>5 DEF EInv, EnrolmentTypeOK, MemoryOwned, Owned, CertOwned, memory, history
<1>9. TasksAsked'
  <2>1. Asked(p) /\ UNCHANGED <<identity, grant>>
    BY <1>1, <1>5 DEF EInv, TasksAsked, memory
  <2>2. t.op = task[p].op /\ t.name = task[p].name
    BY <1>1 DEF Task
  <2> HIDE DEF t
  <2>3. Asked(p)'
    BY <1>2, <1>4, <2>1, <2>2 DEF Asked
  <2> QED BY <1>4, <2>1, <2>3, OthersAsked
<1>10. QED
  BY <1>6, <1>7, <1>8, <1>9 DEF EInv

(* What was asked for is what is written.                                   *)
LEMMA EndWriteLatest ==
  ASSUME EInv, NEW p \in Process, EndWrite(p)
  PROVE  latest' = [latest EXCEPT ![task[p].name] =
            IF task[p].op = "save" THEN task[p].record
            ELSE IF IsRecord(@) THEN [@ EXCEPT !.certificate = task[p].record.certificate]
                 ELSE @]
<1>1. task[p] # None /\ task[p].op \in {"save", "update"} /\ Asked(p)
  BY DEF EndWrite, Write, EInv, TypeOK, TasksAsked, Task
<1>2. CASE task[p].op = "save"
  BY <1>1, <1>2 DEF EndWrite, Asked
<1>3. CASE task[p].op = "update"
  BY <1>1, <1>3 DEF EndWrite, Asked
<1> QED  BY <1>1, <1>2, <1>3

LEMMA EndWriteOwned ==
  ASSUME EInv, NEW p \in Process, EndWrite(p)
  PROVE  EInv'
<1>1. task[p] \in Task /\ task[p] # None
  BY DEF EndWrite, Write, EInv, TypeOK
<1>2. task[p].record \in Record /\ task[p].name \in Name
  BY <1>1 DEF Task
<1>3. PICK f \in {task[p].record, Garbled} : file' = [file EXCEPT ![task[p].name] = f]
  BY DEF EndWrite, Write
<1>4. \A n \in Name : file'[n] = IF n = task[p].name THEN f ELSE file[n]
  BY <1>3 DEF EInv, TypeOK
<1>5. \A q \in Process : task'[q] = IF q = p THEN None ELSE task[q]
  BY DEF EndWrite, Write, EInv, TypeOK
<1>6. UNCHANGED <<ops, loaded, memory, disturbed>>
  BY DEF EndWrite, Write
<1>7. TypeOK'
  BY <1>2, <1>3 DEF EndWrite, Write, EInv, TypeOK
<1>8. FilesOwned' /\ TasksOwned'
  BY <1>1, <1>2, <1>3, <1>4, <1>5, <1>6
  DEF EInv, FilesOwned, TasksOwned, IsRecord, Owned, CertOwned, memory
<1>9. latest' \in [Name -> Record \cup {Absent}]
  <2> DEFINE n == task[p].name
             r == task[p].record
             a == latest[n]
  <2>1. a \in Record \cup {Absent} /\ n \in Name
    BY <1>2 DEF EInv, EnrolmentTypeOK
  <2>2. CASE task[p].op = "save"
    <3>1. latest' = [latest EXCEPT ![n] = r]
      BY <2>2, EndWriteLatest
    <3>2. QED
      BY <1>2, <3>1 DEF EInv, EnrolmentTypeOK
  <2>3. CASE task[p].op # "save" /\ IsRecord(a)
    <3>1. r.certificate \in Certificate \cup {None} /\ a \in Record
      BY <1>2, <2>1, <2>3 DEF Record, IsRecord
    <3>2. [a EXCEPT !.certificate = r.certificate] \in Record
      BY <3>1 DEF Record
    <3>3. latest' = [latest EXCEPT ![n] = [a EXCEPT !.certificate = r.certificate]]
      BY <2>3, EndWriteLatest
    <3>4. QED
      BY <3>2, <3>3 DEF EInv, EnrolmentTypeOK
  <2>4. CASE task[p].op # "save" /\ ~IsRecord(a)
    <3>1. latest' = [latest EXCEPT ![n] = a]
      BY <2>4, EndWriteLatest
    <3>2. QED
      BY <2>1, <3>1 DEF EInv, EnrolmentTypeOK
  <2>5. QED
    BY <2>2, <2>3, <2>4
<1>10. EnrolmentTypeOK' /\ MemoryOwned'
  BY <1>6, <1>9 DEF EInv, EnrolmentTypeOK, MemoryOwned, Owned, CertOwned, memory
<1>11. TasksAsked'
  BY <1>5, <1>6, OthersAsked DEF memory
<1>12. QED
  BY <1>7, <1>8, <1>10, <1>11 DEF EInv

LEMMA LoadOwned ==
  ASSUME EInv, NEW p \in Process, NEW u \in User, NEW w \in Password, Load(p, u, w)
  PROVE  EInv'
<1> DEFINE f == file[FileName[u]]
           i == [user |-> f.user, key |-> f.key, certificate |-> f.certificate]
<1>1. FileName[u] \in Name /\ IsRecord(f)
  BY KeyStoreAssumption DEF Load, LoadIdentity
<1>2. f \in Record /\ Owned(f) /\ CertOwned(f.certificate)
  BY <1>1 DEF EInv, TypeOK, FilesOwned, IsRecord
<1>3. i \in UserIdentity /\ Owned(i) /\ CertOwned(i.certificate)
  BY <1>2 DEF Record, UserIdentity, Owned
<1>4. identity' = [identity EXCEPT ![p] = i]
  BY DEF Load
<1>5. UNCHANGED <<file, task, ops, saved, owner, grant, history>> /\ loaded' = loaded \cup {f}
  BY DEF Load, LoadIdentity
<1>6. TypeOK' /\ FilesOwned' /\ TasksOwned'
  BY <1>2, <1>5 DEF EInv, TypeOK, FilesOwned, TasksOwned, IsRecord, Owned, CertOwned
<1>7. EnrolmentTypeOK' /\ MemoryOwned'
  <2> HIDE DEF i
  <2>1. \A q \in Process : identity'[q] = IF q = p THEN i ELSE identity[q]
    BY <1>4 DEF EInv, EnrolmentTypeOK
  <2> QED
    BY <1>3, <1>4, <1>5, <2>1
    DEF EInv, EnrolmentTypeOK, MemoryOwned, Owned, CertOwned, history
<1>8. TasksAsked'
  <2>1. \A q \in Process \ {p} : identity'[q] = identity[q]
    BY <1>4 DEF EInv, EnrolmentTypeOK
  <2>2. task[p] = None
    BY DEF Load, Idle
  <2> QED BY <1>5, <2>1, <2>2, OthersAsked
<1>9. QED
  BY <1>6, <1>7, <1>8 DEF EInv

LEMMA DieOwned ==
  ASSUME EInv, NEW p \in Process, Die(p)
  PROVE  EInv'
<1>1. task[p].name \in Name
  BY DEF Die, Crash, EInv, TypeOK, Task
<1>2. \A n \in Name : file'[n] = file[n] \/ file'[n] = Garbled
  BY DEF Die, Crash, EInv, TypeOK
<1>3. \A q \in Process : task'[q] = IF q = p THEN None ELSE task[q]
  BY DEF Die, Crash, EInv, TypeOK
<1>4. UNCHANGED <<ops, saved, loaded, owner, latest>>
  BY DEF Die, Crash
<1>5. TypeOK'
  BY <1>4 DEF Die, Crash, EInv, TypeOK
<1>6. FilesOwned' /\ TasksOwned'
  BY <1>2, <1>3, <1>4 DEF EInv, FilesOwned, TasksOwned, IsRecord, Owned, CertOwned
<1>7. EnrolmentTypeOK' /\ MemoryOwned'
  BY <1>1, <1>4 DEF Die, EInv, EnrolmentTypeOK, MemoryOwned, Owned, CertOwned
<1>8. TasksAsked'
  <2>1. \A q \in Process \ {p} : identity'[q] = identity[q] /\ grant'[q] = grant[q]
    BY DEF Die, EInv, EnrolmentTypeOK
  <2> QED BY <1>3, <2>1, OthersAsked
<1>9. QED
  BY <1>5, <1>6, <1>7, <1>8 DEF EInv

(* ---------------------- the identities in memory ----------------------- *)

(* A key that is generated has no owner yet, so nothing owned is of it.     *)
LEMMA GenerateOwned ==
  ASSUME EInv, NEW p \in Process, NEW u \in User, NEW k \in Key,
         GenerateUserIdentity(p, u, k)
  PROVE  EInv'
<1> DEFINE i == [user |-> u, key |-> k, certificate |-> None]
<1>1. i \in UserIdentity
  BY DEF UserIdentity
<1>2. owner' = [owner EXCEPT ![k] = u] /\ identity' = [identity EXCEPT ![p] = i]
  BY DEF GenerateUserIdentity
<1>3. UNCHANGED <<vars, grant, history>> /\ owner[k] = None
  BY DEF GenerateUserIdentity
<1>4. ASSUME NEW x, x.user \in User, Owned(x) PROVE Owned(x)'
  BY <1>2, <1>3, <1>4, EnrolmentAssumption DEF EInv, EnrolmentTypeOK, Owned
<1>5. ASSUME NEW c \in Certificate \cup {None}, CertOwned(c) PROVE CertOwned(c)'
  BY <1>4, <1>5 DEF CertOwned, Certificate
<1>6. TypeOK'
  BY <1>3 DEF EInv, TypeOK, vars
<1>7. EnrolmentTypeOK'
  BY <1>1, <1>2, <1>3 DEF EInv, EnrolmentTypeOK, history
<1>8. FilesOwned'
  <2> SUFFICES ASSUME NEW n \in Name, IsRecord(file[n])
               PROVE  Owned(file[n])' /\ CertOwned(file[n].certificate)'
    BY <1>3 DEF FilesOwned, vars, IsRecord, Owned, CertOwned
  <2>1. file[n] \in Record /\ Owned(file[n]) /\ CertOwned(file[n].certificate)
    BY DEF EInv, TypeOK, FilesOwned, IsRecord
  <2>2. file[n].user \in User /\ file[n].certificate \in Certificate \cup {None}
    BY <2>1 DEF Record
  <2>3. file' = file
    BY <1>3 DEF vars
  <2>4. QED
    BY <1>4, <1>5, <2>1, <2>2, <2>3 DEF Owned, CertOwned
<1>9. TasksOwned'
  <2> SUFFICES ASSUME NEW q \in Process, task[q] # None
               PROVE  Owned(task[q].record)' /\ CertOwned(task[q].record.certificate)'
    BY <1>3 DEF TasksOwned, vars, Owned, CertOwned
  <2> DEFINE r == task[q].record
  <2>1. r \in Record /\ Owned(r) /\ CertOwned(r.certificate)
    BY DEF EInv, TypeOK, TasksOwned, Task
  <2>2. r.user \in User /\ r.certificate \in Certificate \cup {None}
    BY <2>1 DEF Record
  <2>3. task' = task
    BY <1>3 DEF vars
  <2>4. QED
    BY <1>4, <1>5, <2>1, <2>2, <2>3 DEF Owned, CertOwned
<1>10. MemoryOwned'
  <2>1. ASSUME NEW q \in Process, identity'[q] # None
        PROVE  (Owned(identity[q]) /\ CertOwned(identity[q].certificate))'
    <3>1. CASE q = p
      BY <1>2, <3>1 DEF EInv, EnrolmentTypeOK, Owned, CertOwned
    <3>2. CASE q # p
      <4>1. identity'[q] = identity[q]
        BY <1>2, <3>2 DEF EInv, EnrolmentTypeOK
      <4>2. identity[q] \in UserIdentity /\ Owned(identity[q])
            /\ CertOwned(identity[q].certificate)
        BY <2>1, <4>1 DEF EInv, EnrolmentTypeOK, MemoryOwned
      <4>3. identity[q].user \in User /\ identity[q].certificate \in Certificate \cup {None}
        BY <4>2 DEF UserIdentity
      <4>4. QED
        BY <1>4, <1>5, <4>1, <4>2, <4>3 DEF Owned, CertOwned
    <3>3. QED
      BY <3>1, <3>2
  <2>2. ASSUME NEW q \in Process PROVE CertOwned(grant[q])'
    <3>1. grant[q] \in Certificate \cup {None} /\ CertOwned(grant[q]) /\ grant' = grant
      BY <1>3 DEF EInv, EnrolmentTypeOK, MemoryOwned
    <3>2. QED
      BY <1>5, <3>1 DEF CertOwned, Owned
  <2>3. QED
    BY <2>1, <2>2 DEF MemoryOwned
<1>11. TasksAsked'
  <2>1. \A q \in Process \ {p} : identity'[q] = identity[q]
    BY <1>2 DEF EInv, EnrolmentTypeOK
  <2>2. task[p] = None
    BY DEF GenerateUserIdentity, Idle
  <2> QED BY <1>3, <2>1, <2>2, OthersAsked DEF vars
<1>12. QED
  BY <1>6, <1>7, <1>8, <1>9, <1>10, <1>11 DEF EInv

(* The other steps in memory give p a certificate for the keys it holds, or *)
(* take something away.                                                    *)
LEMMA MemoryStepOwned ==
  ASSUME EInv, NEW p \in Process, Idle(p), UNCHANGED <<vars, owner, history>>,
         \A q \in Process \ {p} : identity'[q] = identity[q] /\ grant'[q] = grant[q],
         identity' \in [Process -> UserIdentity \cup {None}],
         grant' \in [Process -> Certificate \cup {None}],
         identity'[p] # None =>
           Owned(identity'[p]) /\ CertOwned(identity'[p].certificate),
         CertOwned(grant'[p])
  PROVE  EInv'
<1>1. TypeOK' /\ FilesOwned' /\ TasksOwned'
  BY DEF EInv, TypeOK, FilesOwned, TasksOwned, IsRecord, Owned, CertOwned, vars
<1>2. EnrolmentTypeOK'
  BY DEF EInv, EnrolmentTypeOK, history
<1>3. MemoryOwned'
  BY DEF EInv, MemoryOwned, Owned, CertOwned
<1>4. TasksAsked'
  BY OthersAsked DEF Idle, vars
<1>5. QED
  BY <1>1, <1>2, <1>3, <1>4 DEF EInv

LEMMA IssueOwned ==
  ASSUME EInv, NEW p \in Process, NEW s \in Serial, IssueCertificate(p, s)
  PROVE  EInv'
<1> DEFINE c == [user |-> identity[p].user, key |-> identity[p].key, serial |-> s]
<1>1. identity[p] \in UserIdentity /\ Owned(identity[p])
  BY DEF IssueCertificate, EInv, EnrolmentTypeOK, MemoryOwned
<1>2. c \in Certificate /\ CertOwned(c)
  BY <1>1 DEF UserIdentity, Certificate, Owned, CertOwned
<1>3. grant' = [grant EXCEPT ![p] = c] /\ UNCHANGED <<vars, owner, identity, history>>
  BY DEF IssueCertificate
<1> HIDE DEF c
<1>4. \A q \in Process : grant'[q] = IF q = p THEN c ELSE grant[q]
  BY <1>3 DEF EInv, EnrolmentTypeOK
<1>5. grant' \in [Process -> Certificate \cup {None}]
  BY <1>2, <1>3 DEF EInv, EnrolmentTypeOK
<1>6. QED
  BY <1>2, <1>3, <1>4, <1>5, MemoryStepOwned DEF IssueCertificate, EInv, EnrolmentTypeOK, MemoryOwned

LEMMA AttachOwned ==
  ASSUME EInv, NEW p \in Process, AttachCertificate(p)
  PROVE  EInv'
<1> DEFINE i == [identity[p] EXCEPT !.certificate = grant[p]]
<1>1. identity[p] \in UserIdentity /\ Owned(identity[p])
  BY DEF AttachCertificate, EInv, EnrolmentTypeOK, MemoryOwned
<1>2. grant[p] \in Certificate /\ CertOwned(grant[p])
  BY DEF AttachCertificate, EInv, EnrolmentTypeOK, MemoryOwned
<1>3. /\ i \in UserIdentity /\ i.user = identity[p].user /\ i.key = identity[p].key
      /\ i.certificate = grant[p]
  BY <1>1, <1>2 DEF UserIdentity
<1>4. identity' = [identity EXCEPT ![p] = i] /\ UNCHANGED <<vars, owner, grant, history>>
  BY DEF AttachCertificate
<1> HIDE DEF i
<1>5. Owned(i) /\ CertOwned(i.certificate)
  BY <1>1, <1>2, <1>3 DEF Owned
<1>6. \A q \in Process : identity'[q] = IF q = p THEN i ELSE identity[q]
  BY <1>4 DEF EInv, EnrolmentTypeOK
<1>7. identity' \in [Process -> UserIdentity \cup {None}]
  BY <1>3, <1>4 DEF EInv, EnrolmentTypeOK
<1>8. QED
  BY <1>2, <1>4, <1>5, <1>6, <1>7, MemoryStepOwned
  DEF AttachCertificate, EInv, EnrolmentTypeOK

LEMMA DestroyOwned ==
  ASSUME EInv, NEW p \in Process, Destroy(p)
  PROVE  EInv'
<1>1. \A q \in Process : identity'[q] = IF q = p THEN None ELSE identity[q]
  BY DEF Destroy, EInv, EnrolmentTypeOK
<1>2. identity' \in [Process -> UserIdentity \cup {None}]
  BY DEF Destroy, EInv, EnrolmentTypeOK
<1>3. QED
  BY <1>1, <1>2, MemoryStepOwned DEF Destroy, EInv, EnrolmentTypeOK, MemoryOwned

LEMMA StepEInv == EInv /\ [EnrolmentNext]_allVars => EInv'
<1> SUFFICES ASSUME EInv, [EnrolmentNext]_allVars PROVE EInv'
  OBVIOUS
<1>1. CASE EnrolmentNext
  BY <1>1, GenerateOwned, IssueOwned, AttachOwned, SaveOwned, UpdateOwned,
     BeginWriteOwned, EndWriteOwned, LoadOwned, DieOwned, DestroyOwned DEF EnrolmentNext
<1>2. CASE UNCHANGED allVars
  BY <1>2 DEF allVars, vars, memory, history, EInv, TypeOK, EnrolmentTypeOK, FilesOwned,
             TasksOwned, MemoryOwned, TasksAsked, Asked, IsRecord, Owned, CertOwned
<1>3. QED
  BY <1>1, <1>2

LEMMA EnrolmentInvariance == EnrolmentSpec => []EInv
BY InitEInv, StepEInv, PTL DEF EnrolmentSpec

(* ------------------------ undisturbed files ---------------------------- *)

Writes(p, n) == task[p] # None /\ task[p].name = n

(* What an undisturbed write knows of its file until it ends: the record of *)
(* an update is what the calls add up to, but for the certificate.         *)
UndisturbedWrite(p, n) ==
  /\ file[n] = IF task[p].step = "open" THEN latest[n] ELSE Empty
  /\ task[p].op = "update" =>
       /\ IsRecord(latest[n])
       /\ task[p].record = [latest[n] EXCEPT !.certificate = task[p].record.certificate]

UndisturbedInv ==
  \A n \in Name \ disturbed :
    /\ \A p, q \in Process : Writes(p, n) /\ Writes(q, n) => p = q
    /\ \A p \in Process : Writes(p, n) => UndisturbedWrite(p, n)
    /\ (\A p \in Process : ~Writes(p, n)) => file[n] = latest[n]

(* A file that a step does not touch.                                      *)
LEMMA ElsewhereUndisturbed ==
  ASSUME UndisturbedInv, NEW n \in Name \ disturbed,
         file'[n] = file[n], latest'[n] = latest[n],
         \A q \in Process : Writes(q, n)' <=> Writes(q, n),
         \A q \in Process : Writes(q, n) => task'[q] = task[q]
  PROVE  /\ \A p, q \in Process : Writes(p, n)' /\ Writes(q, n)' => p = q
         /\ \A p \in Process : Writes(p, n)' => UndisturbedWrite(p, n)'
         /\ (\A p \in Process : ~Writes(p, n)') => file'[n] = latest'[n]
<1>1. \A p \in Process : Writes(p, n) => UndisturbedWrite(p, n)'
  BY DEF UndisturbedInv, UndisturbedWrite, IsRecord
<1> QED  BY <1>1 DEF UndisturbedInv

(* The name that a call starts to write is disturbed or nobody else's.      *)
LEMMA StartUndisturbed ==
  ASSUME EInv, UndisturbedInv, NEW p \in Process, NEW t \in Task, Start(p, t), t.step = "open",
         Disturb(p, t.name), latest' = latest,
         t.op = "update" =>
           /\ IsRecord(file[t.name])
           /\ t.record = [file[t.name] EXCEPT !.certificate = t.record.certificate]
  PROVE  UndisturbedInv'
<1>1. /\ task[p] = None /\ file' = file
      /\ \A q \in Process : task'[q] = IF q = p THEN t ELSE task[q]
  BY DEF EInv, TypeOK, Start
<1>2. disturbed \subseteq disturbed'
  BY DEF Disturb
<1> SUFFICES ASSUME NEW n \in Name \ disturbed'
             PROVE  /\ \A r, q \in Process : Writes(r, n)' /\ Writes(q, n)' => r = q
                    /\ \A q \in Process : Writes(q, n)' => UndisturbedWrite(q, n)'
                    /\ (\A q \in Process : ~Writes(q, n)') => file'[n] = latest'[n]
  BY DEF UndisturbedInv
<1>3. CASE n # t.name
  <2>1. \A q \in Process : Writes(q, n)' <=> Writes(q, n)
    BY <1>1, <1>3 DEF Writes
  <2>2. \A q \in Process : Writes(q, n) => task'[q] = task[q]
    BY <1>1 DEF Writes
  <2> QED  BY <1>1, <1>2, <2>1, <2>2, ElsewhereUndisturbed
<1>4. CASE n = t.name
  <2>1. \A q \in Process : ~Writes(q, n)
    BY <1>1, <1>4 DEF Disturb, Overlaps, Writes
  <2>2. file[n] = latest[n]
    BY <1>2, <2>1 DEF UndisturbedInv
  <2>3. \A q \in Process : Writes(q, n)' => q = p
    BY <1>1, <2>1 DEF Writes
  <2>4. UndisturbedWrite(p, n)'
    BY <1>1, <1>4, <2>2 DEF UndisturbedWrite, IsRecord
  <2> QED  BY <1>1, <2>2, <2>3, <2>4
<1> QED  BY <1>3, <1>4

LEMMA SaveUndisturbed ==
  ASSUME EInv, UndisturbedInv, NEW p \in Process, NEW w \in Password, Save(p, w)
  PROVE  UndisturbedInv'
<1> DEFINE i == identity[p]
           r == [user |-> i.user, key |-> i.key, password |-> w, certificate |-> i.certificate]
           t == [op |-> "save", step |-> "open", name |-> FileName[i.user], record |-> r]
<1>1. i \in UserIdentity
  BY DEF Save, EInv, EnrolmentTypeOK
<1>2. r \in Record /\ FileName[i.user] \in Name
  BY <1>1, KeyStoreAssumption DEF UserIdentity, Record
<1>3. Start(p, t) /\ Disturb(p, t.name) /\ latest' = latest
  BY DEF Save, SaveIdentity
<1> HIDE DEF r
<1>4. t \in Task /\ t.step = "open" /\ t.op # "update"
  BY <1>2 DEF Task
<1> HIDE DEF t
<1> QED  BY <1>3, <1>4, StartUndisturbed

LEMMA UpdateUndisturbed ==
  ASSUME EInv, UndisturbedInv, NEW p \in Process, Update(p)
  PROVE  UndisturbedInv'
<1> DEFINE c == grant[p]
           n == FileName[c.user]
           r == [file[n] EXCEPT !.certificate = c]
           t == [op |-> "update", step |-> "open", name |-> n, record |-> r]
<1>1. c \in Certificate
  BY DEF Update, EInv, EnrolmentTypeOK
<1>2. n \in Name
  BY <1>1, KeyStoreAssumption DEF Certificate
<1>3. /\ IsRecord(file[n]) /\ Start(p, t) /\ Disturb(p, n) /\ latest' = latest
  BY DEF Update, UpdateCertificate
<1>4. file[n] \in Record
  BY <1>2, <1>3 DEF EInv, TypeOK, IsRecord
<1>5. r \in Record /\ r.certificate = c
  BY <1>1, <1>4 DEF Record
<1>6. t \in Task /\ t.step = "open" /\ t.name = n /\ t.record = r
  BY <1>2, <1>5 DEF Task
<1>7. t.record = [file[n] EXCEPT !.certificate = t.record.certificate]
  BY <1>5, <1>6
<1> HIDE DEF t, r, n
<1> QED  BY <1>3, <1>6, <1>7, StartUndisturbed

(* A step of a process that writes m: what it does to m, if it was alone.   *)
LEMMA WriterUndisturbed ==
  ASSUME EInv, UndisturbedInv, NEW p \in Process, NEW m \in Name, Writes(p, m),
         disturbed \subseteq disturbed',
         \A n \in Name \ {m} : file'[n] = file[n] /\ latest'[n] = latest[n],
         \A q \in Process \ {p} : task'[q] = task[q],
         task'[p] = None \/ (Writes(p, m)' /\ (m \notin disturbed' => UndisturbedWrite(p, m)')),
         task'[p] = None => m \in disturbed' \/ file'[m] = latest'[m]
  PROVE  UndisturbedInv'
<1> SUFFICES ASSUME NEW n \in Name \ disturbed'
             PROVE  /\ \A r, q \in Process : Writes(r, n)' /\ Writes(q, n)' => r = q
                    /\ \A q \in Process : Writes(q, n)' => UndisturbedWrite(q, n)'
                    /\ (\A q \in Process : ~Writes(q, n)') => file'[n] = latest'[n]
  BY DEF UndisturbedInv
<1>1. CASE n # m
  <2>1. \A q \in Process : Writes(q, n)' <=> Writes(q, n)
    BY <1>1 DEF Writes
  <2>2. \A q \in Process : Writes(q, n) => task'[q] = task[q]
    BY <1>1 DEF Writes
  <2> QED  BY <1>1, <2>1, <2>2, ElsewhereUndisturbed
<1>2. CASE n = m
  <2>1. \A q \in Process \ {p} : ~Writes(q, n)
    BY <1>2 DEF UndisturbedInv
  <2>2. \A q \in Process : Writes(q, n)' => q = p
    BY <2>1 DEF Writes
  <2>3. CASE task'[p] = None
    BY <1>2, <2>2, <2>3 DEF Writes
  <2>4. CASE task'[p] # None
    BY <1>2, <2>2, <2>4
  <2> QED  BY <2>3, <2>4
<1> QED  BY <1>1, <1>2

LEMMA BeginWriteUndisturbed ==
  ASSUME EInv, UndisturbedInv, NEW p \in Process, BeginWrite(p)
  PROVE  UndisturbedInv'
<1> DEFINE t == [task[p] EXCEPT !.step = "write"]
<1>0. PICK m \in Name : m = task[p].name
  BY DEF BeginWrite, Truncate, EInv, TypeOK, Task
<1>1. /\ task[p] \in Task /\ task[p] # None /\ task[p].step = "open"
      /\ file' = [file EXCEPT ![m] = Empty] /\ task' = [task EXCEPT ![p] = t]
      /\ UNCHANGED <<latest, disturbed>>
  BY <1>0 DEF BeginWrite, Truncate, EInv, TypeOK, history
<1>2. /\ t \in Task /\ t.step = "write" /\ t.name = m /\ t.op = task[p].op
      /\ t.record = task[p].record /\ t # None
  BY <1>0, <1>1, EnrolmentAssumption DEF Task
<1> HIDE DEF t
<1>3. /\ file'[m] = Empty /\ \A n \in Name \ {m} : file'[n] = file[n]
      /\ task'[p] = t /\ \A q \in Process \ {p} : task'[q] = task[q]
  BY <1>1, <1>2 DEF EInv, TypeOK
<1>4. Writes(p, m) /\ Writes(p, m)' /\ task'[p] # None
  BY <1>0, <1>1, <1>2, <1>3 DEF Writes
<1>5. m \notin disturbed => UndisturbedWrite(p, m)'
  <2> SUFFICES ASSUME m \notin disturbed PROVE UndisturbedWrite(p, m)'
    OBVIOUS
  <2>1. UndisturbedWrite(p, m)
    BY <1>2, <1>4 DEF UndisturbedInv
  <2> QED  BY <1>1, <1>2, <1>3, <2>1 DEF UndisturbedWrite, IsRecord
<1> QED  BY <1>1, <1>3, <1>4, <1>5, WriterUndisturbed

(* Alone with the file it emptied, a process leaves there what it wrote.    *)
LEMMA EndWriteUndisturbed ==
  ASSUME EInv, UndisturbedInv, NEW p \in Process, EndWrite(p)
  PROVE  UndisturbedInv'
<1> DEFINE m == task[p].name
           r == task[p].record
<1>1. /\ task[p] \in Task /\ task[p] # None /\ task[p].step = "write"
      /\ UNCHANGED disturbed /\ task' = [task EXCEPT ![p] = None]
      /\ latest' = [latest EXCEPT ![m] =
            IF task[p].op = "save" THEN r
            ELSE IF IsRecord(@) THEN [@ EXCEPT !.certificate = r.certificate] ELSE @]
  BY EndWriteLatest DEF EndWrite, Write, EInv, TypeOK
<1>2. PICK f \in {r} \cup (IF file[m] = Empty THEN {} ELSE {Garbled}) :
        file' = [file EXCEPT ![m] = f]
  BY DEF EndWrite, Write
<1>3. m \in Name /\ task[p].op \in {"save", "update"}
  BY <1>1 DEF Task
<1>4. /\ file'[m] = f /\ \A n \in Name \ {m} : file'[n] = file[n]
      /\ task'[p] = None /\ \A q \in Process \ {p} : task'[q] = task[q]
      /\ \A n \in Name \ {m} : latest'[n] = latest[n]
      /\ latest'[m] = IF task[p].op = "save" THEN r
                      ELSE IF IsRecord(latest[m])
                      THEN [latest[m] EXCEPT !.certificate = r.certificate] ELSE latest[m]
  BY <1>1, <1>2, <1>3 DEF EInv, TypeOK, EnrolmentTypeOK
<1>5. Writes(p, m)
  BY <1>1 DEF Writes
<1>6. m \in disturbed' \/ file'[m] = latest'[m]
  <2> SUFFICES ASSUME m \notin disturbed' PROVE file'[m] = latest'[m]
    OBVIOUS
  <2>1. UndisturbedWrite(p, m)
    BY <1>1, <1>3, <1>5 DEF UndisturbedInv
  <2>2. file'[m] = r
    BY <1>1, <1>2, <1>4, <2>1 DEF UndisturbedWrite
  <2>3. latest'[m] = r
    BY <1>3, <1>4, <2>1 DEF UndisturbedWrite
  <2> QED  BY <2>2, <2>3
<1> HIDE DEF m
<1> QED  BY <1>1, <1>3, <1>4, <1>5, <1>6, WriterUndisturbed

LEMMA DieUndisturbed ==
  ASSUME EInv, UndisturbedInv, NEW p \in Process, Die(p)
  PROVE  UndisturbedInv'
<1> DEFINE m == task[p].name
<1>1. /\ task[p] \in Task /\ task[p] # None /\ UNCHANGED latest
      /\ task' = [task EXCEPT ![p] = None]
      /\ \/ file' = file
         \/ task[p].step = "write" /\ file' = [file EXCEPT ![m] = Garbled]
      /\ disturbed' = IF task[p].step = "write" THEN disturbed \cup {m} ELSE disturbed
  BY DEF Die, Crash, EInv, TypeOK
<1>2. m \in Name /\ task[p].step \in {"open", "write"}
  BY <1>1 DEF Task
<1>3. /\ \A n \in Name \ {m} : file'[n] = file[n]
      /\ task'[p] = None /\ \A q \in Process \ {p} : task'[q] = task[q]
  BY <1>1, <1>2 DEF EInv, TypeOK
<1>4. Writes(p, m)
  BY <1>1 DEF Writes
<1>5. m \in disturbed' \/ file'[m] = latest'[m]
  BY <1>1, <1>2, <1>4 DEF UndisturbedInv, UndisturbedWrite
<1> HIDE DEF m
<1> QED  BY <1>1, <1>2, <1>3, <1>4, <1>5, WriterUndisturbed

LEMMA StepUndisturbed == EInv /\ UndisturbedInv /\ [EnrolmentNext]_allVars => UndisturbedInv'
<1> SUFFICES ASSUME EInv, UndisturbedInv, [EnrolmentNext]_allVars PROVE UndisturbedInv'
  OBVIOUS
<1>1. ASSUME UNCHANGED <<file, task, history>> PROVE UndisturbedInv'
  BY <1>1 DEF history, UndisturbedInv, UndisturbedWrite, Writes, IsRecord
<1>2. ASSUME NEW p \in Process,
             \/ \E u \in User, k \in Key : GenerateUserIdentity(p, u, k)
             \/ \E s \in Serial : IssueCertificate(p, s)
             \/ AttachCertificate(p) \/ Destroy(p)
             \/ \E u \in User, w \in Password : Load(p, u, w)
      PROVE  UndisturbedInv'
  BY <1>1, <1>2 DEF GenerateUserIdentity, IssueCertificate, AttachCertificate, Destroy, Load,
     LoadIdentity, vars
<1>3. CASE UNCHANGED allVars
  BY <1>1, <1>3 DEF allVars, vars
<1>4. CASE EnrolmentNext
  BY <1>2, <1>4, SaveUndisturbed, UpdateUndisturbed, BeginWriteUndisturbed,
     EndWriteUndisturbed, DieUndisturbed DEF EnrolmentNext
<1> QED  BY <1>3, <1>4

(* --------------------------- the theorems ------------------------------ *)

(* Programs that enrol, save, load and renew use storage.py as KeyStore     *)
(* allows.                                                                 *)
THEOREM ImplementsKeyStore == EnrolmentSpec => Spec
<1>1. EnrolmentInit => Init
  BY DEF EnrolmentInit
<1>2. QED
  BY <1>1, EnrolmentInvariance, StepImplements, PTL DEF EnrolmentSpec, Spec

(* load_identity gives such a program only keys saved for that user and     *)
(* passphrase.                                                             *)
THEOREM EnrolmentLoadsOwnKeys == EnrolmentSpec => []LoadedIsOwn
BY ImplementsKeyStore, LoadsOwnKeys, PTL

(* However saves, updates and crashes mix keys and certificates in a file, an *)
(* identity that a peer accepts is accepted as the user it belongs to.     *)
THEOREM AcceptedAsOwner == EnrolmentSpec => []NeverMistaken
<1>1. EInv => NeverMistaken
  BY DEF EInv, MemoryOwned, NeverMistaken, Authenticates, Owned, CertOwned
<1>2. QED
  BY <1>1, EnrolmentInvariance, PTL

(* Saves and updates of a file that do not overlap act one after the other: *)
(* when nobody writes it, the file is what was asked for, the identity last *)
(* saved and over that the certificate last renewed: save_identity and     *)
(* update_certificate of storage.py.                                       *)
THEOREM SerialCallsAddUp == EnrolmentSpec => []FileIsLatest
<1>1. EnrolmentInit => UndisturbedInv
  BY DEF EnrolmentInit, Init, UndisturbedInv, Writes
<1>2. UndisturbedInv => FileIsLatest
  BY DEF UndisturbedInv, Writes, FileIsLatest
<1>3. QED
  BY <1>1, <1>2, EnrolmentInvariance, StepUndisturbed, PTL DEF EnrolmentSpec
=============================================================================
