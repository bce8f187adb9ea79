---------------------------- MODULE ErasureProofs ----------------------------
(***************************************************************************)
(* What an erasure promises, for any number of tenants, objects, commands  *)
(* at once, failures, backups and restores.                                *)
(***************************************************************************)
EXTENDS Erasure, TLAPS

(* The data a command or a database can hold.  A marker is where a listing *)
(* goes on: at the start, or after the last version of a page.             *)
Markers == {0} \cup {Max(page) : page \in SUBSET Ingests}

DbRecord ==
  [traces : SUBSET Ingests, derived : SUBSET Ingests,
   fence : [Tenants -> Requests \cup {None}], receipts : [Requests -> Tenants \cup {None}]]

RunRecord ==
  [pc : {"idle", "find", "begin", "list", "delete", "verify", "commit"},
   tenant : Tenants \cup {None}, request : Requests \cup {None}, replay : BOOLEAN,
   marker : Markers, page : SUBSET Ingests, truncated : BOOLEAN]

BackupRecord ==
  [state : {"none", "mirroring", "ready"}, db : DbRecord,
   mirrored : SUBSET Clients, archive : SUBSET Ingests]

Types ==
  /\ phase \in {"serving", "replaying", "down"}
  /\ authorized \subseteq Clients
  /\ ingest \in [Ingests -> {"new", "admitted", "stored", "ended"}]
  /\ working \subseteq Ingests /\ archive \subseteq Ingests
  /\ db \in DbRecord
  /\ ledger \in [Tenants -> Requests \cup {None}]
  /\ run \in [Runs -> RunRecord]
  /\ acked \subseteq Tenants /\ hasty \subseteq Tenants /\ replay \subseteq Tenants
  /\ backup \in BackupRecord

(* A request ID stands for one tenant's intent.                            *)
OneIntent == \A t, u \in Tenants : ledger[t] = ledger[u] /\ ledger[t] # None => t = u

(* What a database, live or exported, has recorded of an erasure: a fence  *)
(* carries the request ID of the tenant's intent, and a receipt stands for *)
(* a tenant that is fenced and has no rows.                                *)
Recorded(d) ==
  /\ \A t \in Tenants : d.fence[t] # None => d.fence[t] = ledger[t]
  /\ \A q \in Requests, t \in Tenants :
       d.receipts[q] = t => /\ ledger[t] = q /\ d.fence[t] = q
                            /\ \A n \in Of(t) : n \notin d.traces /\ n \notin d.derived

(* A command carries out an intent of the ledger.  It deletes objects only *)
(* behind the fence, and a replay runs alone, before traffic is routed.    *)
RunOK(r) ==
  \/ run[r] = NoRun
  \/ /\ run[r].pc # "idle"
     /\ run[r].tenant \in Tenants /\ run[r].request \in Requests
     /\ ledger[run[r].tenant] = run[r].request
     /\ \/ ~run[r].replay /\ phase = "serving"
        \/ /\ run[r].replay /\ phase = "replaying" /\ run[r].tenant \in replay
           /\ \A o \in Runs : o # r => run[o] = NoRun
     /\ run[r].page \subseteq Of(run[r].tenant)
     /\ run[r].pc \in {"find", "begin"} => run[r].page = {}
     /\ run[r].pc \in {"list", "delete", "verify", "commit"} => db.fence[run[r].tenant] = run[r].request
     /\ run[r].pc = "commit" /\ run[r].tenant \notin hasty =>
          \A n \in Of(run[r].tenant) : n \notin archive

(* A printed receipt is in the database, or its intent waits to be         *)
(* replayed; there is none to replay while traffic is served.              *)
AckedOK ==
  /\ phase = "serving" => replay = {}
  /\ \A t \in replay : ledger[t] \in Requests
  /\ \A t \in acked : ledger[t] \in Requests /\ (t \notin replay => db.receipts[ledger[t]] = t)

(* A row of a tenant without a fence has its object, unless a restore lost *)
(* the object and the replay has yet to fence the tenant.                  *)
RowsOK ==
  /\ \A n \in Ingests :
       n \in db.traces /\ db.fence[Owner[n]] = None =>
         n \in archive \/ (phase # "serving" /\ Owner[n] \in replay)
  /\ \A n \in Ingests : ingest[n] = "stored" => n \in archive \/ db.fence[Owner[n]] # None

(* The same of the two halves of the backup: an exported row has its       *)
(* object in the mirror, or in the bucket until the mirror gets to it,     *)
(* unless an intent reached the ledger after the export.                   *)
BackupRowsOK ==
  /\ backup.state = "none" => backup.mirrored = {} /\ backup.archive = {}
  /\ backup.state = "ready" => backup.mirrored = Clients
  /\ backup.state # "none" =>
       \A n \in Ingests :
         n \in backup.db.traces /\ backup.db.fence[Owner[n]] = None =>
           \/ ledger[Owner[n]] # None
           \/ Owner[n] \in backup.mirrored /\ n \in backup.archive
           \/ Owner[n] \notin backup.mirrored /\ n \in archive

(* A tenant whose commands all came after its credential was revoked and   *)
(* its requests had drained gets no more objects, so a receipt finds none  *)
(* in the bucket and none in a mirror made after the receipt's export.     *)
DrainedOK == \A t \in Tenants : ledger[t] # None /\ t \notin hasty => Drained(t)

ObjectsOK ==
  \A q \in Requests, t \in Tenants \ hasty :
    /\ db.receipts[q] = t => \A n \in Of(t) : n \notin archive
    /\ backup.db.receipts[q] = t =>
         \A n \in Of(t) : n \notin backup.archive /\ (backup.state = "mirroring" => n \notin archive)

EInv ==
  /\ Types /\ OneIntent
  /\ Recorded(db) /\ Recorded(backup.db)
  /\ \A r \in Runs : RunOK(r)
  /\ AckedOK /\ RowsOK /\ BackupRowsOK /\ DrainedOK /\ ObjectsOK

(* The steps of a command that is under way, and where it can be.          *)
Steps == {"find", "begin", "list", "delete", "verify", "commit"}

(* The empty system: nothing is fenced, erased or backed up.               *)
LEMMA ErasureStarts == Init => EInv
<1> SUFFICES ASSUME Init PROVE EInv
  BY Zenon
<1>1. NoRun \in RunRecord
  BY Zenon DEF NoRun, RunRecord, Markers
<1>2. db \in DbRecord
  BY Zenon, ErasureAssumption DEF Init, DbRecord
<1>3. Types
  BY Zenon, <1>1, <1>2, ErasureAssumption DEF Init, Types, BackupRecord
<1>4. OneIntent /\ (\A r \in Runs : RunOK(r)) /\ AckedOK /\ DrainedOK
  BY Zenon DEF Init, OneIntent, RunOK, AckedOK, DrainedOK
<1>5. Recorded(db) /\ Recorded(backup.db) /\ ObjectsOK
  BY Zenon, ErasureAssumption DEF Init, Recorded, ObjectsOK
<1>6. RowsOK /\ BackupRowsOK
  BY Zenon DEF Init, RowsOK, BackupRowsOK
<1> QED
  BY Zenon, <1>3, <1>4, <1>5, <1>6 DEF EInv

(* What a command under way is known to be doing.                          *)
LEMMA ActiveRun ==
  ASSUME EInv, NEW r \in Runs, run[r] # NoRun \/ run[r].pc # "idle"
  PROVE  /\ run[r] \in RunRecord /\ run[r].pc \in Steps /\ run[r] # NoRun
         /\ run[r].tenant \in Tenants /\ run[r].request \in Requests /\ run[r].request # None
         /\ ledger[run[r].tenant] = run[r].request
         /\ \/ ~run[r].replay /\ phase = "serving"
            \/ /\ run[r].replay /\ phase = "replaying" /\ run[r].tenant \in replay
               /\ \A o \in Runs : o # r => run[o] = NoRun
         /\ run[r].page \subseteq Of(run[r].tenant)
         /\ run[r].pc \in {"find", "begin"} => run[r].page = {}
         /\ run[r].pc \in {"list", "delete", "verify", "commit"} =>
              db.fence[run[r].tenant] = run[r].request
         /\ run[r].pc = "commit" /\ run[r].tenant \notin hasty =>
              \A n \in Of(run[r].tenant) : n \notin archive
<1>1. Types /\ RunOK(r) /\ run[r] \in RunRecord
  BY Zenon DEF EInv, Types
<1>2. run[r] # NoRun
  BY DEF NoRun
<1>3. run[r].pc \in Steps
  BY Zenon, <1>1, <1>2 DEF RunOK, RunRecord, Steps
<1> QED
  BY Zenon, <1>1, <1>2, <1>3, ErasureAssumption DEF RunOK

(* A command ends.                                                         *)
LEMMA CommandEnds ==
  ASSUME EInv, NEW r \in Runs, run[r] # NoRun, Answer(r) \/ Reject(r)
  PROVE  /\ run' \in [Runs -> RunRecord] /\ run'[r] = NoRun
         /\ \A o \in Runs : o # r => run'[o] = run[o]
         /\ phase' \in {"serving", "replaying", "down"}
         /\ acked' \subseteq Tenants /\ replay' \subseteq replay
         /\ phase = "serving" => phase' = "serving" /\ replay' = replay
         /\ phase' = "serving" => phase = "serving"
         /\ phase # "serving" => \A o \in Runs : run'[o] = NoRun
<1>0. Types /\ NoRun \in RunRecord
  BY Zenon DEF EInv, Types, NoRun, RunRecord, Markers
<1>1. run' = [run EXCEPT ![r] = NoRun]
  BY Zenon DEF Answer, Reject
<1>2. /\ run' \in [Runs -> RunRecord] /\ run'[r] = NoRun
      /\ \A o \in Runs : o # r => run'[o] = run[o]
  BY Zenon, <1>0, <1>1 DEF Types
<1>3. /\ run[r].tenant \in Tenants
      /\ \/ ~run[r].replay /\ phase = "serving"
         \/ /\ run[r].replay /\ phase = "replaying" /\ run[r].tenant \in replay
            /\ \A o \in Runs : o # r => run[o] = NoRun
  BY Zenon, ActiveRun
<1>4. CASE Answer(r)
  BY Zenon, <1>0, <1>2, <1>3, <1>4 DEF Answer, Types
<1>5. CASE Reject(r)
  BY Zenon, <1>0, <1>2, <1>3, <1>5 DEF Reject, Types
<1> QED
  BY Zenon, <1>4, <1>5

(* A command moves on.                                                     *)
LEMMA CommandProceeds ==
  ASSUME EInv, NEW r \in Runs, run[r] # NoRun, NEW step \in Steps, Proceed(r, step)
  PROVE  /\ run' \in [Runs -> RunRecord]
         /\ \A o \in Runs : o # r => run'[o] = run[o]
         /\ run'[r].pc = step /\ run'[r].tenant = run[r].tenant /\ run'[r].request = run[r].request
         /\ run'[r].replay = run[r].replay /\ run'[r].page = run[r].page
         /\ phase' = phase /\ acked' = acked /\ replay' = replay
<1> DEFINE p == [run[r] EXCEPT !.pc = step]
<1>0. Types /\ run[r] \in RunRecord
  BY Zenon DEF EInv, Types
<1>1. /\ p \in RunRecord /\ p.pc = step /\ p.tenant = run[r].tenant /\ p.request = run[r].request
      /\ p.replay = run[r].replay /\ p.page = run[r].page
  BY Zenon, <1>0 DEF RunRecord, Steps
<1>2. run' = [run EXCEPT ![r] = p] /\ phase' = phase /\ acked' = acked /\ replay' = replay
  BY Zenon DEF Proceed
<1> HIDE DEF p
<1>3. run' \in [Runs -> RunRecord] /\ run'[r] = p /\ \A o \in Runs : o # r => run'[o] = run[o]
  BY Zenon, <1>0, <1>1, <1>2 DEF Types
<1> QED
  BY Zenon, <1>1, <1>2, <1>3

(* A command starts.                                                       *)
LEMMA CommandStarts ==
  ASSUME EInv, NEW r \in Runs, NEW t \in Tenants, NEW q \in Requests, NEW b \in BOOLEAN,
         run' = [run EXCEPT ![r] = Started(t, q, b)]
  PROVE  /\ run' \in [Runs -> RunRecord]
         /\ \A o \in Runs : o # r => run'[o] = run[o]
         /\ run'[r].pc = "find" /\ run'[r].tenant = t /\ run'[r].request = q
         /\ run'[r].replay = b /\ run'[r].page = {}
<1> DEFINE p == Started(t, q, b)
<1>0. Types
  BY Zenon DEF EInv
<1>1. p \in RunRecord /\ p.pc = "find" /\ p.tenant = t /\ p.request = q /\ p.replay = b /\ p.page = {}
  BY Zenon DEF Started, NoRun, RunRecord, Markers
<1>2. run' = [run EXCEPT ![r] = p]
  BY Zenon
<1> HIDE DEF p
<1>3. run' \in [Runs -> RunRecord] /\ run'[r] = p /\ \A o \in Runs : o # r => run'[o] = run[o]
  BY <1>0, <1>1, <1>2 DEF Types
<1> QED
  BY Zenon, <1>1, <1>3

(* A listing and a deletion keep the command at the same intent.           *)
LEMMA CommandPages ==
  ASSUME EInv, NEW r \in Runs, ListObjectVersions(r) \/ DeleteObjects(r)
  PROVE  /\ run' \in [Runs -> RunRecord]
         /\ \A o \in Runs : o # r => run'[o] = run[o]
         /\ run'[r].pc \in {"list", "delete", "verify"} /\ run'[r].tenant = run[r].tenant
         /\ run'[r].request = run[r].request /\ run'[r].replay = run[r].replay
         /\ run'[r].page \subseteq Of(run[r].tenant)
<1>0. Types /\ run[r] \in RunRecord /\ archive \subseteq Ingests
  BY Zenon DEF EInv, Types
<1>1. CASE ListObjectVersions(r)
  <2> DEFINE rest == {n \in archive \cap Of(run[r].tenant) : n > run[r].marker}
             page == {n \in rest : Cardinality({m \in rest : m < n}) < PageSize}
             p == [run[r] EXCEPT !.pc = "delete", !.page = page, !.truncated = rest # page]
  <2>1. page \subseteq Of(run[r].tenant) /\ page \in SUBSET Ingests
    BY Zenon, <1>0
  <2>2. (rest # page) \in BOOLEAN
    BY Zenon
  <2>3. run' = [run EXCEPT ![r] = p]
    BY Zenon, <1>1 DEF ListObjectVersions
  <2> HIDE DEF rest, page
  <2>4. /\ p \in RunRecord /\ p.pc = "delete" /\ p.tenant = run[r].tenant
        /\ p.request = run[r].request /\ p.replay = run[r].replay /\ p.page = page
    BY Zenon, <1>0, <2>1, <2>2 DEF RunRecord
  <2> HIDE DEF p
  <2>5. run' \in [Runs -> RunRecord] /\ run'[r] = p /\ \A o \in Runs : o # r => run'[o] = run[o]
    BY Zenon, <1>0, <2>3, <2>4 DEF Types
  <2> QED
    BY Zenon, <2>1, <2>4, <2>5
<1>2. CASE DeleteObjects(r)
  <2> DEFINE truncated == run[r].truncated
             m == IF truncated THEN Max(run[r].page) ELSE 0
             p == [run[r] EXCEPT !.pc = IF truncated THEN "list" ELSE "verify",
                                 !.marker = m, !.page = {}, !.truncated = FALSE]
  <2>1. m \in Markers
    BY Zenon, <1>0 DEF RunRecord, Markers
  <2>2. run' = [run EXCEPT ![r] = p]
    BY Zenon, <1>2 DEF DeleteObjects
  <2> HIDE DEF truncated, m
  <2>3. /\ p \in RunRecord /\ p.pc \in {"list", "verify"} /\ p.tenant = run[r].tenant
        /\ p.request = run[r].request /\ p.replay = run[r].replay /\ p.page = {}
    BY Zenon, <1>0, <2>1 DEF RunRecord
  <2> HIDE DEF p
  <2>4. run' \in [Runs -> RunRecord] /\ run'[r] = p /\ \A o \in Runs : o # r => run'[o] = run[o]
    BY Zenon, <1>0, <2>2, <2>3 DEF Types
  <2> QED
    BY Zenon, <2>3, <2>4
<1> QED
  BY Zenon, <1>1, <1>2

(* What no step but a restore does to the database: a fence stays, a new   *)
(* one is the tenant's intent, rows come only to tenants without a fence,  *)
(* and a new receipt comes with the deletion of the tenant's rows.         *)
NewReceipt(q) ==
  \E t \in Tenants :
    /\ db.receipts[q] = None /\ db'.receipts[q] = t
    /\ ledger[t] = q /\ db'.fence[t] = q /\ archive' = archive
    /\ \A n \in Of(t) : n \notin db'.traces /\ n \notin db'.derived
    /\ t \notin hasty => \A n \in Of(t) : n \notin archive

DbMoves ==
  /\ db' \in DbRecord
  /\ \A t \in Tenants : db.fence[t] # None => db'.fence[t] = db.fence[t]
  /\ \A t \in Tenants : db'.fence[t] # db.fence[t] => db'.fence[t] = ledger[t]
  /\ \A n \in Ingests : n \in db'.traces => n \in db.traces \/ (ingest[n] = "stored" /\ Writable(Owner[n]))
  /\ \A n \in Ingests : n \in db'.derived => n \in db.derived \/ Writable(Owner[n])
  /\ \A q \in Requests : db'.receipts[q] = db.receipts[q] \/ NewReceipt(q)

(* The commit of an erasure.                                               *)
LEMMA ErasureCommits ==
  ASSUME EInv, NEW r \in Runs, run[r].pc = "commit", Committable(r), db' = AfterErasure(r),
         archive' = archive
  PROVE  DbMoves /\ db'.receipts[run[r].request] = run[r].tenant
<1> DEFINE t == run[r].tenant
           q == run[r].request
<1>0. Types
  BY Zenon DEF EInv
<1>1. /\ t \in Tenants /\ q \in Requests /\ ledger[t] = q
      /\ t \notin hasty => \A n \in Of(t) : n \notin archive
  BY Zenon, ActiveRun
<1>2. db.receipts[q] = None /\ db.fence[t] = q
  BY Zenon DEF Committable
<1>3. /\ db' = [db EXCEPT !.traces = @ \ Of(t), !.derived = @ \ Of(t), !.receipts[q] = t]
      /\ db \in DbRecord
  BY Zenon, <1>0 DEF AfterErasure, Types
<1> HIDE DEF t, q
<1>4. /\ db'.traces = db.traces \ Of(t) /\ db'.derived = db.derived \ Of(t) /\ db'.fence = db.fence
      /\ db'.receipts = [db.receipts EXCEPT ![q] = t]
      /\ db' \in DbRecord
  <2>1. /\ db'.traces = db.traces \ Of(t) /\ db'.derived = db.derived \ Of(t) /\ db'.fence = db.fence
        /\ db'.receipts = [db.receipts EXCEPT ![q] = t]
        /\ db' = [traces |-> db'.traces, derived |-> db'.derived, fence |-> db'.fence, receipts |-> db'.receipts]
    BY Zenon, <1>3 DEF DbRecord
  <2>2. db.receipts \in [Requests -> Tenants \cup {None}] /\ db.traces \subseteq Ingests
        /\ db.derived \subseteq Ingests /\ db.fence \in [Tenants -> Requests \cup {None}]
    BY Zenon, <1>3 DEF DbRecord
  <2>3. [db.receipts EXCEPT ![q] = t] \in [Requests -> Tenants \cup {None}]
    BY Zenon, <1>1, <2>2
  <2>4. db' \in DbRecord
    BY Zenon, <2>1, <2>2, <2>3 DEF DbRecord
  <2> QED
    BY Zenon, <2>1, <2>4
<1>5. /\ db'.receipts[q] = t /\ \A p \in Requests : p # q => db'.receipts[p] = db.receipts[p]
  BY Zenon, <1>1, <1>3, <1>4 DEF DbRecord
<1>6. NewReceipt(q)
  BY Zenon, <1>1, <1>2, <1>4, <1>5 DEF NewReceipt
<1>7. DbMoves
  BY Zenon, <1>4, <1>5, <1>6 DEF DbMoves
<1> QED
  BY Zenon, <1>5, <1>7 DEF t, q

(* Every step but a restore.                                               *)
LEMMA DbStep == EInv /\ [Next]_vars /\ ~Restore => DbMoves
<1> SUFFICES ASSUME EInv, [Next]_vars, ~Restore PROVE DbMoves
  BY Zenon
<1>0. Types /\ db \in DbRecord
  BY Zenon DEF EInv, Types
<1>1. CASE db' = db
  BY Zenon, <1>0, <1>1 DEF DbMoves
<1>2. ASSUME NEW n \in Ingests, CommitIngest(n) PROVE DbMoves
  <2>1. CASE db' = [db EXCEPT !.traces = @ \cup {n}] /\ Writable(Owner[n])
    <3>1. /\ db'.traces = db.traces \cup {n} /\ db'.derived = db.derived /\ db'.fence = db.fence
          /\ db'.receipts = db.receipts /\ db' \in DbRecord
      BY Zenon, <1>0, <2>1 DEF DbRecord
    <3> QED
      BY Zenon, <1>2, <2>1, <3>1 DEF DbMoves, CommitIngest
  <2> QED
    BY Zenon, <1>1, <1>2, <2>1 DEF CommitIngest
<1>3. ASSUME NEW n \in Ingests, WorkflowWrites(n) PROVE DbMoves
  <2>1. CASE db' = [db EXCEPT !.derived = @ \cup {n}] /\ Writable(Owner[n])
    <3>1. /\ db'.derived = db.derived \cup {n} /\ db'.traces = db.traces /\ db'.fence = db.fence
          /\ db'.receipts = db.receipts /\ db' \in DbRecord
      BY Zenon, <1>0, <2>1 DEF DbRecord
    <3> QED
      BY Zenon, <2>1, <3>1 DEF DbMoves
  <2> QED
    BY Zenon, <1>1, <1>3, <2>1 DEF WorkflowWrites
<1>4. ASSUME NEW r \in Runs, BeginErasure(r) PROVE DbMoves
  <2> DEFINE t == run[r].tenant
             q == run[r].request
  <2>1. t \in Tenants /\ q \in Requests /\ ledger[t] = q
    BY Zenon, <1>4, ActiveRun DEF BeginErasure
  <2>2. CASE Fenceable(t, q) /\ db' = [db EXCEPT !.fence[t] = q]
    <3> HIDE DEF t, q
    <3>1. /\ db'.derived = db.derived /\ db'.traces = db.traces
          /\ db'.fence = [db.fence EXCEPT ![t] = q]
          /\ db'.receipts = db.receipts /\ db' \in DbRecord
      BY Zenon, <1>0, <2>1, <2>2 DEF DbRecord
    <3>2. db'.fence[t] = q /\ \A u \in Tenants : u # t => db'.fence[u] = db.fence[u]
      BY Zenon, <1>0, <2>1, <3>1 DEF DbRecord
    <3> QED
      BY Zenon, <2>1, <2>2, <3>1, <3>2 DEF DbMoves, Fenceable
  <2> QED
    BY Zenon, <1>1, <1>4, <2>2 DEF BeginErasure
<1>5. ASSUME NEW r \in Runs, CommitErasure(r) PROVE DbMoves
  BY Zenon, <1>1, <1>5, ErasureCommits DEF CommitErasure
<1>6. ASSUME NEW r \in Runs, CommitAnswerLost(r) PROVE DbMoves
  BY Zenon, <1>6, ErasureCommits DEF CommitAnswerLost
<1>7. ASSUME NEW r \in Runs, CommandStep(r) \/ CommandFails(r) PROVE DbMoves
  <2>1. CASE FindErasure(r) \/ ListObjectVersions(r) \/ DeleteObjects(r) \/ VerifyErased(r) \/ CommandFails(r)
    BY Zenon, <1>1, <2>1 DEF FindErasure, ListObjectVersions, DeleteObjects, VerifyErased, CommandFails, store
  <2> QED
    BY Zenon, <1>4, <1>5, <1>7, <2>1 DEF CommandStep
<1>8. ASSUME NEW n \in Ingests, WriterStep(n) PROVE DbMoves
  <2>1. CASE Authenticate(n) \/ PutCanonical(n) \/ AbortIngest(n) \/ WorkflowReads(n)
    BY Zenon, <1>1, <2>1 DEF Authenticate, PutCanonical, AbortIngest, WorkflowReads, store
  <2> QED
    BY Zenon, <1>2, <1>3, <1>8, <2>1 DEF WriterStep
<1>9. CASE \E t \in Clients : RevokeCredential(t) \/ MirrorArchive(t)
  BY Zenon, <1>1, <1>9 DEF RevokeCredential, MirrorArchive, store
<1>10. CASE \/ \E r \in Runs, t \in Tenants, q \in Requests : EraseTenantCommand(r, t, q)
            \/ \E r \in Runs, t \in Tenants : ReplayIntent(r, t)
  BY Zenon, <1>1, <1>10 DEF EraseTenantCommand, ReplayIntent, store
<1>11. CASE ExportDatabase \/ RouteTraffic \/ UNCHANGED vars
  BY Zenon, <1>1, <1>11 DEF ExportDatabase, RouteTraffic, vars, store
<1> QED
  BY Zenon, <1>6, <1>7, <1>8, <1>9, <1>10, <1>11 DEF Next

(* What no step but a restore does to the bucket: an object comes from a   *)
(* request that was admitted and goes only behind a fence.                 *)
ObjectMoves ==
  /\ archive' \subseteq Ingests
  /\ \A n \in Ingests : n \in archive' => n \in archive \/ ingest[n] = "admitted"
  /\ \A n \in Ingests : n \in archive => n \in archive' \/ db.fence[Owner[n]] # None

(* Every step but a restore.                                               *)
LEMMA ObjectStep == EInv /\ [Next]_vars /\ ~Restore => ObjectMoves
<1> SUFFICES ASSUME EInv, [Next]_vars, ~Restore PROVE ObjectMoves
  BY Zenon
<1>0. Types /\ archive \subseteq Ingests
  BY Zenon DEF EInv, Types
<1>1. CASE archive' = archive
  BY Zenon, <1>0, <1>1 DEF ObjectMoves
<1>2. ASSUME NEW r \in Runs, run[r] # NoRun, NEW gone \in SUBSET run[r].page, archive' = archive \ gone
      PROVE  ObjectMoves
  <2>1. /\ run[r].tenant \in Tenants /\ run[r].request # None
        /\ run[r].page \subseteq Of(run[r].tenant)
        /\ run[r].page # {} => db.fence[run[r].tenant] = run[r].request
    BY Zenon, <1>2, ActiveRun DEF Steps
  <2>2. \A n \in gone : Owner[n] = run[r].tenant /\ db.fence[Owner[n]] # None
    BY Zenon, <2>1 DEF Of
  <2> QED
    BY Zenon, <1>0, <1>2, <2>2 DEF ObjectMoves
<1>3. ASSUME NEW r \in Runs, CommandStep(r) \/ CommitAnswerLost(r) \/ CommandFails(r) PROVE ObjectMoves
  <2>1. CASE DeleteObjects(r)
    <3>1. run[r] # NoRun /\ archive' = archive \ run[r].page
      BY <2>1 DEF DeleteObjects, NoRun
    <3> QED
      BY Zenon, <1>2, <3>1
  <2>2. CASE CommandFails(r)
    BY Zenon, <1>2, <2>2 DEF CommandFails
  <2>3. CASE \/ FindErasure(r) \/ BeginErasure(r) \/ ListObjectVersions(r) \/ VerifyErased(r)
             \/ CommitErasure(r) \/ CommitAnswerLost(r)
    BY Zenon, <1>1, <2>3 DEF FindErasure, BeginErasure, ListObjectVersions, VerifyErased, CommitErasure,
                      CommitAnswerLost, store
  <2> QED
    BY Zenon, <1>3, <2>1, <2>2, <2>3 DEF CommandStep
<1>4. ASSUME NEW n \in Ingests, WriterStep(n) PROVE ObjectMoves
  <2>1. CASE PutCanonical(n)
    BY Zenon, <1>0, <2>1 DEF PutCanonical, ObjectMoves
  <2>2. CASE \/ Authenticate(n) \/ CommitIngest(n) \/ AbortIngest(n) \/ WorkflowReads(n)
             \/ WorkflowWrites(n)
    BY Zenon, <1>1, <2>2 DEF Authenticate, CommitIngest, AbortIngest, WorkflowReads, WorkflowWrites, store
  <2> QED
    BY Zenon, <1>4, <2>1, <2>2 DEF WriterStep
<1>5. CASE \E t \in Clients : RevokeCredential(t) \/ MirrorArchive(t)
  BY Zenon, <1>1, <1>5 DEF RevokeCredential, MirrorArchive, store
<1>6. CASE \/ \E r \in Runs, t \in Tenants, q \in Requests : EraseTenantCommand(r, t, q)
           \/ \E r \in Runs, t \in Tenants : ReplayIntent(r, t)
  BY Zenon, <1>1, <1>6 DEF EraseTenantCommand, ReplayIntent, store
<1>7. CASE ExportDatabase \/ RouteTraffic \/ UNCHANGED vars
  BY Zenon, <1>1, <1>7 DEF ExportDatabase, RouteTraffic, vars, store
<1> QED
  BY Zenon, <1>3, <1>4, <1>5, <1>6, <1>7 DEF Next

(* What every step does to the requests: one with its object in the bucket *)
(* has just put it there, and a drained tenant stays drained.              *)
RequestMoves ==
  /\ authorized' \subseteq Clients /\ working' \subseteq Ingests
  /\ ingest' \in [Ingests -> {"new", "admitted", "stored", "ended"}]
  /\ \A n \in Ingests : ingest'[n] = "stored" => ingest[n] = "stored" \/ n \in archive'
  /\ \A t \in Tenants : Drained(t) => Drained(t)'

(* Every step.                                                             *)
LEMMA RequestStep == EInv /\ [Next]_vars => RequestMoves
<1> SUFFICES ASSUME EInv, [Next]_vars PROVE RequestMoves
  BY Zenon
<1>0. Types
  BY Zenon DEF EInv
<1>1. ASSUME ingest' = ingest, authorized' \subseteq authorized, working' \subseteq Ingests PROVE RequestMoves
  BY Zenon, <1>0, <1>1 DEF RequestMoves, Types, Drained
<1>2. ASSUME NEW n \in Ingests, NEW p \in {"admitted", "stored", "ended"},
             ingest' = [ingest EXCEPT ![n] = p], UNCHANGED authorized, working' \subseteq Ingests,
             p = "stored" => n \in archive',
             p \in {"admitted", "stored"} => Owner[n] \in authorized \/ ingest[n] = "admitted"
      PROVE  RequestMoves
  <2>1. /\ ingest' \in [Ingests -> {"new", "admitted", "stored", "ended"}]
        /\ ingest'[n] = p /\ \A m \in Ingests : m # n => ingest'[m] = ingest[m]
    BY Zenon, <1>0, <1>2 DEF Types
  <2>2. ASSUME NEW t \in Tenants, Drained(t) PROVE Drained(t)'
    <3>1. ASSUME NEW m \in Of(t) PROVE ingest'[m] \in {"new", "ended"}
      BY Zenon, <1>2, <2>1, <2>2 DEF Drained, Of
    <3> QED
      BY Zenon, <1>2, <2>2, <3>1 DEF Drained
  <2> QED
    BY Zenon, <1>0, <1>2, <2>1, <2>2 DEF RequestMoves, Types
<1>3. ASSUME NEW n \in Ingests, WriterStep(n) PROVE RequestMoves
  <2>0. working \subseteq Ingests
    BY Zenon, <1>0 DEF Types
  <2>1. CASE Authenticate(n)
    BY Zenon, <1>2, <2>0, <2>1 DEF Authenticate
  <2>2. CASE PutCanonical(n)
    BY Zenon, <1>2, <2>0, <2>2 DEF PutCanonical
  <2>3. CASE CommitIngest(n) \/ AbortIngest(n)
    BY Zenon, <1>2, <2>0, <2>3 DEF CommitIngest, AbortIngest
  <2>4. CASE WorkflowReads(n) \/ WorkflowWrites(n)
    BY Zenon, <1>1, <2>0, <2>4 DEF WorkflowReads, WorkflowWrites
  <2> QED
    BY Zenon, <1>3, <2>1, <2>2, <2>3, <2>4 DEF WriterStep
<1>4. CASE UNCHANGED <<authorized, ingest, working>>
  BY Zenon, <1>0, <1>1, <1>4 DEF Types
<1>5. ASSUME NEW t \in Clients, RevokeCredential(t) \/ MirrorArchive(t) PROVE RequestMoves
  <2>1. ingest' = ingest /\ authorized' \subseteq authorized /\ working' = working
    BY Zenon, <1>5 DEF RevokeCredential, MirrorArchive
  <2> QED
    BY Zenon, <1>0, <1>1, <2>1 DEF Types
<1>6. ASSUME NEW r \in Runs, CommandStep(r) \/ CommitAnswerLost(r) \/ CommandFails(r) PROVE RequestMoves
  BY Zenon, <1>4, <1>6 DEF CommandStep, FindErasure, BeginErasure, ListObjectVersions, DeleteObjects,
                    VerifyErased, CommitErasure, CommitAnswerLost, CommandFails
<1>7. CASE \/ \E r \in Runs, t \in Tenants, q \in Requests : EraseTenantCommand(r, t, q)
           \/ \E r \in Runs, t \in Tenants : ReplayIntent(r, t)
  BY Zenon, <1>4, <1>7 DEF EraseTenantCommand, ReplayIntent
<1>8. CASE ExportDatabase \/ RouteTraffic \/ UNCHANGED vars
  BY Zenon, <1>4, <1>8 DEF ExportDatabase, RouteTraffic, vars
<1>9. CASE Restore
  <2>1. /\ ingest' = [n \in Ingests |-> IF ingest[n] = "new" THEN "new" ELSE "ended"]
        /\ working' = {} /\ authorized' = authorized
    BY Zenon, <1>9 DEF Restore
  <2>2. \A t \in Tenants : Drained(t) => Drained(t)'
    BY Zenon, <2>1 DEF Drained, Of
  <2> QED
    BY Zenon, <1>0, <2>1, <2>2 DEF RequestMoves, Types
<1> QED
  BY Zenon, <1>3, <1>5, <1>6, <1>7, <1>8, <1>9 DEF Next

(* What every step does to the ledger: an intent stays, and a new one has  *)
(* a request ID of its own and a tenant that is drained or hasty.          *)
IntentMoves ==
  /\ ledger' \in [Tenants -> Requests \cup {None}]
  /\ hasty \subseteq hasty' /\ hasty' \subseteq Tenants
  /\ \A t \in Tenants :
       \/ ledger'[t] = ledger[t]
       \/ /\ ledger[t] = None /\ ledger'[t] \in Requests
          /\ \A u \in Tenants : ledger[u] # ledger'[t] /\ (u # t => ledger'[u] = ledger[u])
          /\ t \in hasty' \/ Drained(t)

(* Every step.                                                             *)
LEMMA IntentStep == EInv /\ [Next]_vars => IntentMoves
<1> SUFFICES ASSUME EInv, [Next]_vars PROVE IntentMoves
  BY Zenon
<1>0. Types
  BY Zenon DEF EInv
<1>1. CASE UNCHANGED <<ledger, hasty>>
  BY Zenon, <1>0, <1>1 DEF IntentMoves, Types
<1>2. ASSUME NEW r \in Runs, NEW t \in Tenants, NEW q \in Requests, EraseTenantCommand(r, t, q)
      PROVE  IntentMoves
  <2>1. /\ Journalable(t, q) /\ ledger' = [ledger EXCEPT ![t] = q]
        /\ hasty' = IF Drained(t) THEN hasty ELSE hasty \cup {t}
    BY Zenon, <1>2 DEF EraseTenantCommand
  <2>2. /\ ledger' \in [Tenants -> Requests \cup {None}]
        /\ ledger'[t] = q /\ \A u \in Tenants : u # t => ledger'[u] = ledger[u]
    BY Zenon, <1>0, <2>1 DEF Types
  <2>3. /\ hasty \subseteq hasty' /\ hasty' \subseteq Tenants /\ (t \in hasty' \/ Drained(t))
    BY Zenon, <1>0, <2>1 DEF Types
  <2> QED
    BY Zenon, <2>1, <2>2, <2>3 DEF IntentMoves, Journalable
<1>3. ASSUME NEW r \in Runs, CommandStep(r) \/ CommitAnswerLost(r) \/ CommandFails(r) PROVE IntentMoves
  BY Zenon, <1>1, <1>3 DEF CommandStep, FindErasure, BeginErasure, ListObjectVersions, DeleteObjects,
                    VerifyErased, CommitErasure, CommitAnswerLost, CommandFails
<1>4. ASSUME NEW n \in Ingests, WriterStep(n) PROVE IntentMoves
  BY Zenon, <1>1, <1>4 DEF WriterStep, Authenticate, PutCanonical, CommitIngest, AbortIngest, WorkflowReads,
                    WorkflowWrites, command
<1>5. CASE \/ \E t \in Clients : RevokeCredential(t) \/ MirrorArchive(t)
           \/ \E r \in Runs, t \in Tenants : ReplayIntent(r, t)
  BY Zenon, <1>1, <1>5 DEF RevokeCredential, MirrorArchive, ReplayIntent, command
<1>6. CASE ExportDatabase \/ Restore \/ RouteTraffic \/ UNCHANGED vars
  BY Zenon, <1>1, <1>6 DEF ExportDatabase, Restore, RouteTraffic, vars, command
<1> QED
  BY Zenon, <1>2, <1>3, <1>4, <1>5, <1>6 DEF Next

(* What no step but a restore does to the phase and the receipts: an       *)
(* answered intent has its receipt.                                        *)
PhaseMoves ==
  /\ phase' \in {"serving", "replaying", "down"}
  /\ acked' \subseteq Tenants /\ replay' \subseteq replay
  /\ phase' = "serving" => replay = {}
  /\ \A t \in replay : t \in replay' \/ (ledger[t] \in Requests /\ db'.receipts[ledger[t]] = t)
  /\ \A t \in acked' : t \in acked \/ (ledger[t] \in Requests /\ db'.receipts[ledger[t]] = t)

(* Every step but a restore.                                               *)
LEMMA PhaseStep == EInv /\ [Next]_vars /\ ~Restore => PhaseMoves
<1> SUFFICES ASSUME EInv, [Next]_vars, ~Restore PROVE PhaseMoves
  BY Zenon
<1>0. Types /\ AckedOK
  BY Zenon DEF EInv
<1>1. CASE UNCHANGED <<phase, acked, replay>>
  BY Zenon, <1>0, <1>1 DEF PhaseMoves, Types, AckedOK
<1>2. ASSUME NEW r \in Runs, run[r] # NoRun, Reject(r) PROVE PhaseMoves
  BY Zenon, <1>0, <1>2, CommandEnds DEF PhaseMoves, Types, AckedOK, Reject
<1>3. ASSUME NEW r \in Runs, run[r] # NoRun, Answer(r), db'.receipts[run[r].request] = run[r].tenant
      PROVE  PhaseMoves
  <2>1. run[r].tenant \in Tenants /\ run[r].request \in Requests /\ ledger[run[r].tenant] = run[r].request
    BY Zenon, <1>3, ActiveRun
  <2>2. acked' \subseteq acked \cup {run[r].tenant} /\ replay \subseteq replay' \cup {run[r].tenant}
    BY Zenon, <1>3 DEF Answer
  <2>3. /\ phase' \in {"serving", "replaying", "down"} /\ acked' \subseteq Tenants
        /\ replay' \subseteq replay /\ (phase' = "serving" => phase = "serving")
    BY Zenon, <1>3, CommandEnds
  <2> QED
    <3>1. ledger[run[r].tenant] \in Requests /\ db'.receipts[ledger[run[r].tenant]] = run[r].tenant
      BY Zenon, <1>3, <2>1
    <3>2. \A t \in replay : t \in replay' \/ t = run[r].tenant
      BY Zenon, <2>2
    <3>3. \A t \in acked' : t \in acked \/ t = run[r].tenant
      BY Zenon, <2>2
    <3>4. phase' = "serving" => replay = {}
      BY Zenon, <1>0, <2>3 DEF AckedOK
    <3> QED
      BY Zenon, <2>3, <3>1, <3>2, <3>3, <3>4 DEF PhaseMoves
<1>4. ASSUME NEW r \in Runs, CommandStep(r) \/ CommitAnswerLost(r) \/ CommandFails(r) PROVE PhaseMoves
  <2>1. CASE FindErasure(r)
    <3>1. run[r] # NoRun /\ db' = db
      BY <2>1 DEF FindErasure, NoRun, store
    <3>2. \/ UNCHANGED <<phase, acked, replay>>
          \/ db.receipts[run[r].request] = run[r].tenant /\ Answer(r)
          \/ Reject(r)
      BY Zenon, <2>1 DEF FindErasure, Proceed
    <3> QED
      BY Zenon, <1>1, <1>2, <1>3, <3>1, <3>2
  <2>2. CASE BeginErasure(r) \/ VerifyErased(r)
    <3>1. run[r] # NoRun
      BY <2>2 DEF BeginErasure, VerifyErased, NoRun
    <3>2. UNCHANGED <<phase, acked, replay>> \/ Reject(r)
      BY Zenon, <2>2 DEF BeginErasure, VerifyErased, Proceed
    <3> QED
      BY Zenon, <1>1, <1>2, <3>1, <3>2
  <2>3. CASE CommitErasure(r)
    <3>1. run[r] # NoRun /\ run[r].pc = "commit" /\ archive' = archive
      BY <2>3 DEF CommitErasure, NoRun
    <3>2. (Committable(r) /\ db' = AfterErasure(r) /\ Answer(r)) \/ Reject(r)
      BY Zenon, <2>3 DEF CommitErasure
    <3> QED
      BY Zenon, <1>2, <1>3, <3>1, <3>2, ErasureCommits
  <2>4. CASE CommitAnswerLost(r) \/ CommandFails(r)
    <3>1. run[r] # NoRun /\ Reject(r)
      BY <2>4 DEF CommitAnswerLost, CommandFails, NoRun
    <3> QED
      BY Zenon, <1>2, <3>1
  <2>5. CASE ListObjectVersions(r) \/ DeleteObjects(r)
    BY Zenon, <1>1, <2>5 DEF ListObjectVersions, DeleteObjects, recovery
  <2> QED
    BY Zenon, <1>4, <2>1, <2>2, <2>3, <2>4, <2>5 DEF CommandStep
<1>5. ASSUME NEW n \in Ingests, WriterStep(n) PROVE PhaseMoves
  BY Zenon, <1>1, <1>5 DEF WriterStep, Authenticate, PutCanonical, CommitIngest, AbortIngest, WorkflowReads,
                    WorkflowWrites, command, recovery
<1>6. CASE \/ \E t \in Clients : RevokeCredential(t) \/ MirrorArchive(t)
           \/ \E r \in Runs, t \in Tenants, q \in Requests : EraseTenantCommand(r, t, q)
           \/ \E r \in Runs, t \in Tenants : ReplayIntent(r, t)
  BY Zenon, <1>1, <1>6 DEF RevokeCredential, MirrorArchive, EraseTenantCommand, ReplayIntent, command, recovery
<1>7. CASE ExportDatabase \/ UNCHANGED vars
  BY Zenon, <1>1, <1>7 DEF ExportDatabase, vars, command, recovery
<1>8. CASE RouteTraffic
  BY Zenon, <1>0, <1>8 DEF RouteTraffic, PhaseMoves, Types, command
<1> QED
  BY Zenon, <1>4, <1>5, <1>6, <1>7, <1>8 DEF Next

(* A command that does not step stays in order, through every step but a   *)
(* restore.                                                                *)
LEMMA RunKept ==
  ASSUME EInv, [Next]_vars, ~Restore, NEW o \in Runs, run'[o] = run[o],
         run[o] # NoRun => \/ phase = "serving" /\ phase' = "serving"
                           \/ phase' = phase /\ replay' = replay /\ run' = run
  PROVE  RunOK(o)'
<1> SUFFICES ASSUME run[o] # NoRun PROVE RunOK(o)'
  BY Zenon DEF RunOK, NoRun
<1> DEFINE t == run[o].tenant
<1>0. DbMoves /\ ObjectMoves /\ IntentMoves /\ DrainedOK
  BY Zenon, DbStep, ObjectStep, IntentStep DEF EInv
<1>1. /\ run[o].pc \in Steps /\ t \in Tenants /\ run[o].request \in Requests /\ run[o].request # None
      /\ ledger[t] = run[o].request
      /\ \/ ~run[o].replay /\ phase = "serving"
         \/ /\ run[o].replay /\ phase = "replaying" /\ t \in replay
            /\ \A p \in Runs : p # o => run[p] = NoRun
      /\ run[o].page \subseteq Of(t)
      /\ run[o].pc \in {"find", "begin"} => run[o].page = {}
      /\ run[o].pc \in {"list", "delete", "verify", "commit"} => db.fence[t] = run[o].request
      /\ run[o].pc = "commit" /\ t \notin hasty => \A n \in Of(t) : n \notin archive
  BY Zenon, ActiveRun
<1>2. ledger'[t] = run[o].request
  BY Zenon, <1>0, <1>1 DEF IntentMoves
<1>3. run[o].pc \in {"list", "delete", "verify", "commit"} => db'.fence[t] = run[o].request
  BY Zenon, <1>0, <1>1 DEF DbMoves
<1>4. ASSUME run[o].pc = "commit", t \notin hasty' PROVE \A n \in Of(t) : n \notin archive'
  <2>1. t \notin hasty /\ \A n \in Of(t) : n \notin archive
    BY Zenon, <1>0, <1>1, <1>4 DEF IntentMoves
  <2>2. \A n \in Of(t) : ingest[n] # "admitted"
    BY Zenon, <1>0, <1>1, <2>1 DEF DrainedOK, Drained
  <2> QED
    BY Zenon, <1>0, <2>1, <2>2 DEF ObjectMoves, Of
<1>5. \/ ~run[o].replay /\ phase' = "serving"
      \/ /\ run[o].replay /\ phase' = "replaying" /\ t \in replay'
         /\ \A p \in Runs : p # o => run'[p] = NoRun
  BY Zenon, <1>1
<1>6. run[o].pc # "idle"
  BY Zenon, <1>1 DEF Steps
<1> QED
  BY Zenon, <1>1, <1>2, <1>3, <1>4, <1>5, <1>6 DEF RunOK, NoRun

(* Every step but a restore keeps the commands in order.                   *)
LEMMA RunStep == EInv /\ [Next]_vars /\ ~Restore => run' \in [Runs -> RunRecord] /\ \A o \in Runs : RunOK(o)'
<1> SUFFICES ASSUME EInv, [Next]_vars, ~Restore
             PROVE  run' \in [Runs -> RunRecord] /\ \A o \in Runs : RunOK(o)'
  BY Zenon
<1> DEFINE Goal == run' \in [Runs -> RunRecord] /\ \A o \in Runs : RunOK(o)'
<1>0. Types /\ DbMoves /\ ObjectMoves /\ IntentMoves
  BY Zenon, DbStep, ObjectStep, IntentStep DEF EInv
<1>1. CASE run' = run /\ phase' = phase /\ replay' = replay
  BY Zenon, <1>0, <1>1, RunKept DEF Types
<1>2. ASSUME NEW r \in Runs, run[r] # NoRun, Answer(r) \/ Reject(r) PROVE Goal
  <2>1. /\ run' \in [Runs -> RunRecord] /\ run'[r] = NoRun
        /\ \A o \in Runs : o # r => run'[o] = run[o]
        /\ phase = "serving" => phase' = "serving" /\ replay' = replay
        /\ phase # "serving" => \A o \in Runs : run'[o] = NoRun
    BY Zenon, <1>2, CommandEnds
  <2>2. ASSUME NEW o \in Runs PROVE RunOK(o)'
    <3>1. CASE run'[o] = NoRun
      BY Zenon, <3>1 DEF RunOK, NoRun
    <3>2. CASE run'[o] # NoRun
      BY Zenon, <2>1, <3>2, RunKept
    <3> QED
      BY SMTT(30), <3>1, <3>2
  <2> QED
    BY Zenon, <2>1, <2>2
<1>3. ASSUME NEW r \in Runs, run[r] # NoRun, run' \in [Runs -> RunRecord],
             \A o \in Runs : o # r => run'[o] = run[o],
             run'[r].pc \in Steps, run'[r].tenant = run[r].tenant, run'[r].request = run[r].request,
             run'[r].replay = run[r].replay, run'[r].page \subseteq Of(run[r].tenant),
             run'[r].pc \in {"find", "begin"} => run'[r].page = {},
             run'[r].pc \in {"list", "delete", "verify", "commit"} =>
               db'.fence[run[r].tenant] = run[r].request,
             run'[r].pc = "commit" => \A n \in Of(run[r].tenant) : n \notin archive',
             phase' = phase, replay' = replay
      PROVE  Goal
  <2>1. /\ run[r].tenant \in Tenants /\ run[r].request \in Requests /\ run[r].request # None
        /\ ledger[run[r].tenant] = run[r].request
        /\ \/ ~run[r].replay /\ phase = "serving"
           \/ /\ run[r].replay /\ phase = "replaying" /\ run[r].tenant \in replay
              /\ \A o \in Runs : o # r => run[o] = NoRun
    BY Zenon, <1>3, ActiveRun
  <2>2. ledger'[run[r].tenant] = run[r].request
    BY Zenon, <1>0, <2>1 DEF IntentMoves
  <2>3. run'[r].pc # "idle"
    BY Zenon, <1>3 DEF Steps
  <2>4. RunOK(r)'
    BY Zenon, <1>3, <2>1, <2>2, <2>3 DEF RunOK, NoRun
  <2>5. ASSUME NEW o \in Runs, o # r PROVE RunOK(o)'
    BY Zenon, <1>3, <2>1, <2>5, RunKept
  <2> QED
    BY SMTT(30), <1>3, <2>4, <2>5
<1>4. ASSUME NEW r \in Runs, FindErasure(r) PROVE Goal
  <2>1. run[r] # NoRun /\ run[r].page = {}
    BY Zenon, <1>4, ActiveRun DEF FindErasure
  <2>2. CASE Proceed(r, "begin")
    BY Zenon, <1>3, <2>1, <2>2, CommandProceeds DEF Steps
  <2> QED
    BY Zenon, <1>2, <1>4, <2>1, <2>2 DEF FindErasure
<1>5. ASSUME NEW r \in Runs, BeginErasure(r) PROVE Goal
  <2>1. /\ run[r] # NoRun /\ run[r].page = {} /\ run[r].tenant \in Tenants /\ run[r].request \in Requests
    BY Zenon, <1>5, ActiveRun DEF BeginErasure
  <2>2. CASE db' = [db EXCEPT !.fence[run[r].tenant] = run[r].request] /\ Proceed(r, "list")
    <3>1. db'.fence[run[r].tenant] = run[r].request
      BY ZenonT(30), <1>0, <2>1, <2>2 DEF Types, DbRecord
    <3> QED
      BY Zenon, <1>3, <2>1, <2>2, <3>1, CommandProceeds DEF Steps
  <2> QED
    BY Zenon, <1>2, <1>5, <2>1, <2>2 DEF BeginErasure
<1>6. ASSUME NEW r \in Runs, ListObjectVersions(r) \/ DeleteObjects(r) PROVE Goal
  <2>1. /\ run[r] # NoRun /\ db.fence[run[r].tenant] = run[r].request
        /\ phase' = phase /\ replay' = replay /\ db' = db
    BY Zenon, <1>6, ActiveRun DEF ListObjectVersions, DeleteObjects, recovery, store
  <2> QED
    BY Zenon, <1>3, <1>6, <2>1, CommandPages DEF Steps
<1>7. ASSUME NEW r \in Runs, VerifyErased(r) PROVE Goal
  <2>1. /\ run[r] # NoRun /\ run[r].page \subseteq Of(run[r].tenant)
        /\ db.fence[run[r].tenant] = run[r].request /\ UNCHANGED <<db, archive>>
    BY Zenon, <1>7, ActiveRun DEF VerifyErased, store
  <2>2. CASE archive \cap Of(run[r].tenant) = {} /\ Proceed(r, "commit")
    <3>1. \A n \in Of(run[r].tenant) : n \notin archive'
      BY Zenon, <2>1, <2>2
    <3> QED
      BY Zenon, <1>3, <2>1, <2>2, <3>1, CommandProceeds DEF Steps
  <2> QED
    BY Zenon, <1>2, <1>7, <2>1, <2>2 DEF VerifyErased
<1>8. ASSUME NEW r \in Runs, CommitErasure(r) \/ CommitAnswerLost(r) \/ CommandFails(r) PROVE Goal
  <2>1. run[r] # NoRun /\ (Answer(r) \/ Reject(r))
    BY <1>8 DEF CommitErasure, CommitAnswerLost, CommandFails, NoRun
  <2> QED
    BY SMTT(30), <1>2, <2>1
<1>9. ASSUME NEW r \in Runs, NEW t \in Tenants, NEW q \in Requests, EraseTenantCommand(r, t, q) PROVE Goal
  <2>1. /\ run' = [run EXCEPT ![r] = Started(t, q, FALSE)] /\ phase = "serving"
        /\ phase' = phase /\ ledger' = [ledger EXCEPT ![t] = q]
    BY Zenon, <1>9 DEF EraseTenantCommand, recovery
  <2>2. ledger'[t] = q
    BY Zenon, <1>0, <2>1 DEF Types
  <2>3. /\ run' \in [Runs -> RunRecord]
        /\ \A o \in Runs : o # r => run'[o] = run[o]
        /\ run'[r].pc = "find" /\ run'[r].tenant = t /\ run'[r].request = q
        /\ run'[r].replay = FALSE /\ run'[r].page = {}
    BY Zenon, <2>1, CommandStarts
  <2>4. RunOK(r)'
    BY Zenon, <2>1, <2>2, <2>3 DEF RunOK
  <2>5. ASSUME NEW o \in Runs, o # r PROVE RunOK(o)'
    BY Zenon, <2>1, <2>3, <2>5, RunKept
  <2> QED
    BY Zenon, <2>3, <2>4, <2>5
<1>10. ASSUME NEW r \in Runs, NEW t \in Tenants, ReplayIntent(r, t) PROVE Goal
  <2>1. /\ phase = "replaying" /\ t \in replay /\ \A o \in Runs : run[o] = NoRun
        /\ run' = [run EXCEPT ![r] = Started(t, ledger[t], TRUE)]
        /\ phase' = phase /\ replay' = replay /\ ledger' = ledger
    BY Zenon, <1>10 DEF ReplayIntent, recovery
  <2>2. ledger[t] \in Requests
    BY Zenon, <2>1 DEF EInv, AckedOK
  <2>3. /\ run' \in [Runs -> RunRecord]
        /\ \A o \in Runs : o # r => run'[o] = run[o]
        /\ run'[r].pc = "find" /\ run'[r].tenant = t /\ run'[r].request = ledger[t]
        /\ run'[r].replay = TRUE /\ run'[r].page = {}
    BY Zenon, <2>1, <2>2, CommandStarts
  <2>4. RunOK(r)'
    BY Zenon, <2>1, <2>2, <2>3 DEF RunOK
  <2>5. ASSUME NEW o \in Runs, o # r PROVE RunOK(o)'
    BY Zenon, <2>1, <2>3, <2>5 DEF RunOK, NoRun
  <2> QED
    BY Zenon, <2>3, <2>4, <2>5
<1>11. ASSUME RouteTraffic PROVE Goal
  <2>1. run' = run /\ phase = "replaying" /\ replay = {}
    BY SMTT(30), <1>11 DEF RouteTraffic, command
  <2>2. ASSUME NEW o \in Runs PROVE run[o] = NoRun
    BY Zenon, <2>1, ActiveRun
  <2> QED
    BY Zenon, <1>0, <2>1, <2>2 DEF RunOK, NoRun, Types
<1>12. ASSUME NEW n \in Ingests, WriterStep(n) PROVE Goal
  BY Zenon, <1>1, <1>12 DEF WriterStep, Authenticate, PutCanonical, CommitIngest, AbortIngest, WorkflowReads,
                     WorkflowWrites, command, recovery
<1>13. ASSUME (\E t \in Clients : RevokeCredential(t) \/ MirrorArchive(t)) \/ ExportDatabase \/ UNCHANGED vars
       PROVE  Goal
  BY Zenon, <1>1, <1>13 DEF RevokeCredential, MirrorArchive, ExportDatabase, vars, command, recovery
<1> HIDE DEF Goal
<1>14. Goal
  BY Zenon, <1>4, <1>5, <1>6, <1>7, <1>8, <1>9, <1>10, <1>11, <1>12, <1>13 DEF Next, CommandStep
<1> QED
  BY Zenon, <1>14 DEF Goal

(* What a step does to the backup.                                         *)
LEMMA BackupStep ==
  EInv /\ [Next]_vars => \/ backup' = backup \/ ExportDatabase
                         \/ \E t \in Clients : MirrorArchive(t)
<1> SUFFICES ASSUME EInv, [Next]_vars, ~ExportDatabase, ~\E t \in Clients : MirrorArchive(t)
             PROVE  backup' = backup
  BY Zenon
<1>1. ASSUME NEW r \in Runs, CommandStep(r) \/ CommitAnswerLost(r) \/ CommandFails(r) PROVE backup' = backup
  BY Zenon, <1>1 DEF CommandStep, FindErasure, BeginErasure, ListObjectVersions, DeleteObjects, VerifyErased,
              CommitErasure, CommitAnswerLost, CommandFails, recovery
<1>2. ASSUME NEW n \in Ingests, WriterStep(n) PROVE backup' = backup
  BY Zenon, <1>2 DEF WriterStep, Authenticate, PutCanonical, CommitIngest, AbortIngest, WorkflowReads,
              WorkflowWrites, recovery
<1>3. CASE \/ \E t \in Clients : RevokeCredential(t)
           \/ \E r \in Runs, t \in Tenants, q \in Requests : EraseTenantCommand(r, t, q)
           \/ \E r \in Runs, t \in Tenants : ReplayIntent(r, t)
  BY Zenon, <1>3 DEF RevokeCredential, EraseTenantCommand, ReplayIntent, recovery
<1>4. CASE Restore \/ RouteTraffic \/ UNCHANGED vars
  BY Zenon, <1>4 DEF Restore, RouteTraffic, vars, recovery
<1> QED
  BY Zenon, <1>1, <1>2, <1>3, <1>4 DEF Next

(****************************************************************************)
(* Exporting the database copies it into a backup that has mirrored nothing *)
(* yet, and leaves the live system as it is.                                *)
(****************************************************************************)
LEMMA ExportEffect ==
  ASSUME Types, ExportDatabase
  PROVE  /\ backup' \in BackupRecord /\ backup.state = "none" /\ backup'.state = "mirroring"
         /\ backup'.db = db /\ backup'.mirrored = backup.mirrored /\ backup'.archive = backup.archive
         /\ phase = "serving" /\ UNCHANGED <<ingest, archive, db, ledger, hasty>>
<1>1. backup \in BackupRecord /\ db \in DbRecord
  BY Zenon DEF Types
<1>2. /\ backup' = [backup EXCEPT !.state = "mirroring", !.db = db] /\ backup.state = "none"
      /\ phase = "serving" /\ UNCHANGED <<ingest, archive, db, ledger, hasty>>
  BY Zenon DEF ExportDatabase, store, command
<1> QED
  BY Zenon, <1>1, <1>2 DEF BackupRecord

(****************************************************************************)
(* Mirroring one client's archive adds exactly that client's live objects   *)
(* to the backup, and marks it ready once every client was mirrored; the    *)
(* live system is untouched.                                                *)
(****************************************************************************)
LEMMA MirrorEffect ==
  ASSUME Types, NEW t \in Clients, MirrorArchive(t)
  PROVE  /\ backup' \in BackupRecord /\ backup.state = "mirroring" /\ backup'.state \in {"mirroring", "ready"}
         /\ backup'.state = "ready" => backup'.mirrored = Clients
         /\ backup'.db = backup.db /\ backup'.mirrored = backup.mirrored \cup {t}
         /\ backup'.archive = backup.archive \cup (archive \cap Of(t))
         /\ UNCHANGED <<ingest, archive, db, ledger, hasty>>
<1> DEFINE s == IF backup.mirrored \cup {t} = Clients THEN "ready" ELSE backup.state
           m == backup.mirrored \cup {t}
           a == backup.archive \cup (archive \cap Of(t))
<1>1. backup \in BackupRecord /\ archive \subseteq Ingests
  BY Zenon DEF Types
<1>2. /\ backup' = [backup EXCEPT !.mirrored = m, !.archive = a, !.state = s]
      /\ backup.state = "mirroring" /\ UNCHANGED <<ingest, archive, db, ledger, hasty>>
  BY Zenon DEF MirrorArchive, store, command
<1>3. m \in SUBSET Clients /\ a \in SUBSET Ingests /\ s \in {"mirroring", "ready"} /\ (s = "ready" => m = Clients)
  BY Zenon, <1>1, <1>2 DEF BackupRecord
<1> HIDE DEF s, m, a
<1>4. /\ backup' \in BackupRecord /\ backup'.state = s /\ backup'.mirrored = m /\ backup'.archive = a
      /\ backup'.db = backup.db
  BY Zenon, <1>1, <1>2, <1>3 DEF BackupRecord
<1> QED
  BY Zenon, <1>2, <1>3, <1>4 DEF m, a

(* A restore brings back a system in order: what the backup lacks, or has  *)
(* too much of, belongs to tenants whose intents are replayed.             *)
LEMMA RestoreStep == EInv /\ Restore => EInv'
<1> SUFFICES ASSUME EInv, Restore PROVE EInv'
  BY Zenon
<1>0. /\ Types /\ OneIntent /\ Recorded(backup.db)
      /\ AckedOK /\ BackupRowsOK /\ DrainedOK /\ ObjectsOK
  BY Zenon DEF EInv
<1>1. /\ backup.state = "ready" /\ db' = backup.db /\ archive' = backup.archive
      /\ replay' = {t \in Tenants : ledger[t] # None} /\ phase' = "replaying"
      /\ run' = [r \in Runs |-> NoRun] /\ working' = {}
      /\ ingest' = [n \in Ingests |-> IF ingest[n] = "new" THEN "new" ELSE "ended"]
      /\ UNCHANGED <<authorized, ledger, acked, hasty, backup>>
  BY Zenon DEF Restore
<1>2. backup.db \in DbRecord /\ backup.archive \subseteq Ingests
  BY Zenon, <1>0 DEF Types, BackupRecord
<1>3. NoRun \in RunRecord
  BY Zenon DEF NoRun, RunRecord, Markers
<1>4. Types'
  BY Zenon, <1>0, <1>1, <1>2, <1>3 DEF Types
<1>5. OneIntent' /\ Recorded(db)' /\ Recorded(backup.db)'
  BY Zenon, <1>0, <1>1 DEF OneIntent, Recorded
<1>6. \A r \in Runs : RunOK(r)'
  BY Zenon, <1>1 DEF RunOK, NoRun
<1>7. AckedOK'
  BY SMTT(30), <1>0, <1>1, ErasureAssumption DEF AckedOK, Types
<1>8. RowsOK'
  <2>1. ASSUME NEW n \in Ingests, n \in backup.db.traces, backup.db.fence[Owner[n]] = None
        PROVE  n \in backup.archive \/ Owner[n] \in replay'
    <3>1. Owner[n] \in Clients /\ Owner[n] \in Tenants
      BY Zenon, ErasureAssumption DEF Clients
    <3> QED
      BY Zenon, <1>0, <1>1, <2>1, <3>1 DEF BackupRowsOK
  <2>2. \A n \in Ingests : ingest'[n] # "stored"
    BY Zenon, <1>1
  <2> QED
    BY Zenon, <1>1, <2>1, <2>2 DEF RowsOK
<1>9. BackupRowsOK'
  <2>1. \A n \in Ingests : Owner[n] \in Clients
    BY SMTT(30) DEF Clients
  <2> QED
    BY Zenon, <1>0, <1>1, <2>1 DEF BackupRowsOK
<1>10. DrainedOK'
  BY Zenon, <1>0, <1>1 DEF DrainedOK, Drained, Of
<1>11. ObjectsOK'
  BY Zenon, <1>0, <1>1 DEF ObjectsOK
<1> QED
  BY Zenon, <1>4, <1>5, <1>6, <1>7, <1>8, <1>9, <1>10, <1>11 DEF EInv

(* Every step keeps the invariant.                                         *)
LEMMA ErasureStep == EInv /\ [Next]_vars => EInv'
<1> SUFFICES ASSUME EInv, [Next]_vars, ~Restore PROVE EInv'
  BY Zenon, RestoreStep
<1>0. /\ Types /\ OneIntent /\ Recorded(db) /\ Recorded(backup.db)
      /\ AckedOK /\ RowsOK /\ BackupRowsOK /\ DrainedOK /\ ObjectsOK
  BY Zenon DEF EInv
<1>1. DbMoves /\ ObjectMoves /\ RequestMoves /\ IntentMoves /\ PhaseMoves
  BY Zenon, DbStep, ObjectStep, RequestStep, IntentStep, PhaseStep
<1>2. run' \in [Runs -> RunRecord] /\ \A o \in Runs : RunOK(o)'
  BY Zenon, RunStep
<1>3. backup' = backup \/ ExportDatabase \/ \E t \in Clients : MirrorArchive(t)
  BY ZenonT(30), BackupStep
<1>4. backup' \in BackupRecord
  BY Zenon, <1>0, <1>3, ExportEffect, MirrorEffect DEF Types
<1>a. /\ \A n \in Ingests : Owner[n] \in Tenants /\ Owner[n] \in Clients
      /\ \A q \in Requests : q # None
  BY Zenon, ErasureAssumption DEF Clients
<1>5. Types'
  BY Zenon, <1>0, <1>1, <1>2, <1>4 DEF Types, DbMoves, ObjectMoves, RequestMoves, IntentMoves, PhaseMoves
<1>6. OneIntent'
  BY Zenon, <1>0, <1>1 DEF OneIntent, IntentMoves
<1>7. \A t \in Tenants : ledger[t] # None => ledger'[t] = ledger[t]
  BY Zenon, <1>1 DEF IntentMoves
<1>8. Recorded(db)'
  <2>1. ASSUME NEW t \in Tenants, db'.fence[t] # None PROVE db'.fence[t] = ledger'[t]
    BY Zenon, <1>0, <1>1, <1>7, <2>1 DEF Recorded, DbMoves
  <2>2. ASSUME NEW q \in Requests, NEW t \in Tenants, db'.receipts[q] = t
        PROVE  /\ ledger'[t] = q /\ db'.fence[t] = q
               /\ \A n \in Of(t) : n \notin db'.traces /\ n \notin db'.derived
    <3>1. CASE db.receipts[q] = t
      <4>1. /\ ledger[t] = q /\ db.fence[t] = q
            /\ \A n \in Of(t) : n \notin db.traces /\ n \notin db.derived
        BY Zenon, <1>0, <3>1 DEF Recorded
      <4>2. \A n \in Of(t) : ~Writable(Owner[n])
        BY Zenon, <1>a, <4>1 DEF Of, Writable
      <4>3. ledger'[t] = q /\ db'.fence[t] = q
        BY Zenon, <1>1, <1>7, <1>a, <4>1 DEF DbMoves
      <4> QED
        BY Zenon, <1>1, <4>1, <4>2, <4>3 DEF DbMoves, Of
    <3>2. CASE db.receipts[q] # t
      <4>1. NewReceipt(q)
        BY Zenon, <1>1, <2>2, <3>2 DEF DbMoves
      <4> QED
        BY Zenon, <1>7, <1>a, <2>2, <4>1 DEF NewReceipt
    <3> QED
      BY Zenon, <3>1, <3>2
  <2> QED
    BY Zenon, <2>1, <2>2 DEF Recorded
<1>9. Recorded(backup.db)'
  <2>1. backup'.db = backup.db \/ (backup'.db = db /\ db' = db)
    BY Zenon, <1>0, <1>3, ExportEffect, MirrorEffect
  <2>2. CASE backup'.db = backup.db
    BY SMTT(30), <1>0, <1>7, <1>a, <2>2 DEF Recorded
  <2>3. CASE backup'.db = db /\ db' = db
    BY Zenon, <1>8, <2>3 DEF Recorded
  <2> QED
    BY Zenon, <2>1, <2>2, <2>3
<1>10. \A q \in Requests, t \in Tenants : db.receipts[q] = t => db'.receipts[q] = t
  BY <1>1, ErasureAssumption DEF DbMoves, NewReceipt
<1>11. AckedOK'
  <2>1. ASSUME NEW t \in acked' PROVE ledger'[t] \in Requests /\ (t \notin replay' => db'.receipts[ledger'[t]] = t)
    <3>0. t \in Tenants
      BY Zenon, <1>5 DEF Types
    <3>1. ledger[t] \in Requests
      BY Zenon, <1>0, <1>1 DEF AckedOK, PhaseMoves
    <3>2. ledger'[t] = ledger[t]
      BY Zenon, <1>7, <1>a, <3>0, <3>1
    <3>3. CASE db'.receipts[ledger[t]] = t
      BY Zenon, <3>1, <3>2, <3>3
    <3>4. CASE t \in acked /\ t \notin replay
      BY ZenonT(30), <1>0, <1>10, <3>0, <3>1, <3>2, <3>4 DEF AckedOK
    <3>5. CASE t \in replay
      BY Zenon, <1>1, <3>1, <3>2, <3>5 DEF PhaseMoves
    <3> QED
      BY Zenon, <1>1, <3>3, <3>4, <3>5 DEF PhaseMoves
  <2>2. ASSUME NEW t \in replay' PROVE ledger'[t] \in Requests
    <3>1. t \in replay /\ t \in Tenants
      BY Zenon, <1>0, <1>1 DEF PhaseMoves, Types
    <3> QED
      BY Zenon, <1>0, <1>7, <1>a, <3>1 DEF AckedOK
  <2>3. phase' = "serving" => replay' = {}
    BY Zenon, <1>1 DEF PhaseMoves
  <2> QED
    BY Zenon, <2>1, <2>2, <2>3 DEF AckedOK
<1>12. RowsOK'
  <2>1. ASSUME NEW n \in Ingests, n \in db'.traces, db'.fence[Owner[n]] = None
        PROVE  n \in archive' \/ (phase' # "serving" /\ Owner[n] \in replay')
    <3>1. db.fence[Owner[n]] = None
      BY Zenon, <1>1, <1>a, <2>1 DEF DbMoves
    <3>2. n \in archive \/ Owner[n] \in replay
      BY Zenon, <1>0, <1>1, <2>1, <3>1 DEF DbMoves, RowsOK
    <3>3. CASE n \in archive
      BY Zenon, <1>1, <3>1, <3>3 DEF ObjectMoves
    <3>4. CASE Owner[n] \in replay
      <4>1. phase' # "serving"
        BY Zenon, <1>1, <3>4 DEF PhaseMoves
      <4>2. CASE Owner[n] \in replay'
        BY Zenon, <4>1, <4>2
      <4>3. CASE Owner[n] \notin replay'
        <5>1. ledger[Owner[n]] \in Requests /\ db'.receipts[ledger[Owner[n]]] = Owner[n]
          BY Zenon, <1>1, <3>4, <4>3 DEF PhaseMoves
        <5>2. db'.fence[Owner[n]] = ledger[Owner[n]]
          BY Zenon, <1>8, <1>a, <5>1 DEF Recorded
        <5> QED
          BY Zenon, <1>a, <2>1, <5>1, <5>2
      <4> QED
        BY Zenon, <4>2, <4>3
    <3> QED
      BY Zenon, <3>2, <3>3, <3>4
  <2>2. ASSUME NEW n \in Ingests, ingest'[n] = "stored"
        PROVE  n \in archive' \/ db'.fence[Owner[n]] # None
    <3>1. n \in archive' \/ n \in archive \/ db.fence[Owner[n]] # None
      BY Zenon, <1>0, <1>1, <2>2 DEF RequestMoves, RowsOK
    <3>2. n \in archive' \/ db.fence[Owner[n]] # None
      BY Zenon, <1>1, <3>1 DEF ObjectMoves
    <3> QED
      BY Zenon, <1>1, <1>a, <3>2 DEF DbMoves
  <2> QED
    BY Zenon, <2>1, <2>2 DEF RowsOK
<1>13. BackupRowsOK'
  <2>1. CASE backup' = backup
    <3>1. ASSUME NEW n \in Ingests, n \in archive PROVE n \in archive' \/ ledger[Owner[n]] # None
      BY Zenon, <1>0, <1>1, <1>a, <3>1 DEF ObjectMoves, Recorded
    <3>2. \A n \in Ingests : ledger[Owner[n]] # None => ledger'[Owner[n]] # None
      BY Zenon, <1>7, <1>a
    <3> QED
      BY Zenon, <1>0, <2>1, <3>1, <3>2 DEF BackupRowsOK
  <2>2. CASE ExportDatabase
    <3>1. /\ backup.state = "none" /\ backup'.state = "mirroring" /\ backup'.db = db
          /\ backup'.mirrored = backup.mirrored /\ phase = "serving" /\ archive' = archive
      BY Zenon, <1>0, <2>2, ExportEffect
    <3> QED
      BY Zenon, <1>0, <3>1 DEF BackupRowsOK, RowsOK
  <2>3. ASSUME NEW t \in Clients, MirrorArchive(t) PROVE BackupRowsOK'
    <3>1. /\ backup.state = "mirroring" /\ backup'.state \in {"mirroring", "ready"}
          /\ backup'.state = "ready" => backup'.mirrored = Clients
          /\ backup'.db = backup.db /\ backup'.mirrored = backup.mirrored \cup {t}
          /\ backup'.archive = backup.archive \cup (archive \cap Of(t))
          /\ UNCHANGED <<archive, ledger>>
      BY Zenon, <1>0, <2>3, MirrorEffect
    <3>2. \A n \in Ingests : Owner[n] = t => n \in Of(t)
      BY Zenon DEF Of
    <3> QED
      BY ZenonT(30), <1>0, <3>1, <3>2 DEF BackupRowsOK
  <2> QED
    BY Zenon, <1>3, <2>1, <2>2, <2>3
<1>14. DrainedOK'
  BY Zenon, <1>0, <1>1 DEF DrainedOK, IntentMoves, RequestMoves
<1>15. ASSUME NEW t \in Tenants, t \notin hasty', NEW n \in Of(t), ledger[t] # None, n \notin archive
       PROVE  n \notin archive'
  <2>1. Drained(t)
    BY Zenon, <1>0, <1>1, <1>15 DEF DrainedOK, IntentMoves
  <2> QED
    BY Zenon, <1>1, <1>15, <2>1 DEF Drained, ObjectMoves, Of
<1>16. ASSUME NEW q \in Requests, NEW t \in Tenants, t \notin hasty', db'.receipts[q] = t, NEW n \in Of(t)
       PROVE  n \notin archive'
  <2>0. t \notin hasty
    BY Zenon, <1>1, <1>16 DEF IntentMoves
  <2>1. CASE db.receipts[q] = t
    BY SMTT(30), <1>0, <1>15, <1>16, <1>a, <2>0, <2>1 DEF ObjectsOK, Recorded
  <2>2. CASE db.receipts[q] # t
    BY SMTT(30), <1>1, <1>16, <2>0, <2>2 DEF DbMoves, NewReceipt
  <2> QED
    BY Zenon, <2>1, <2>2
<1>17. ASSUME NEW q \in Requests, NEW t \in Tenants, t \notin hasty', backup'.db.receipts[q] = t,
              NEW n \in Of(t)
       PROVE  n \notin backup'.archive /\ (backup'.state = "mirroring" => n \notin archive')
  <2>0. t \notin hasty
    BY Zenon, <1>1, <1>17 DEF IntentMoves
  <2>1. CASE backup' = backup
    <3>1. n \notin backup.archive /\ (backup.state = "mirroring" => n \notin archive) /\ ledger[t] = q
      BY Zenon, <1>0, <1>17, <2>0, <2>1 DEF ObjectsOK, Recorded
    <3> QED
      BY Zenon, <1>15, <1>17, <1>a, <2>1, <3>1
  <2>2. CASE ExportDatabase
    <3>1. /\ backup.state = "none" /\ backup'.db = db /\ db' = db /\ backup'.archive = backup.archive
      BY Zenon, <1>0, <2>2, ExportEffect
    <3> QED
      BY Zenon, <1>0, <1>16, <1>17, <3>1 DEF BackupRowsOK
  <2>3. ASSUME NEW u \in Clients, MirrorArchive(u)
        PROVE  n \notin backup'.archive /\ (backup'.state = "mirroring" => n \notin archive')
    <3>1. /\ backup.state = "mirroring" /\ backup'.db = backup.db /\ archive' = archive
          /\ backup'.archive = backup.archive \cup (archive \cap Of(u))
      BY Zenon, <1>0, <2>3, MirrorEffect
    <3> QED
      BY Zenon, <1>0, <1>17, <2>0, <3>1 DEF ObjectsOK
  <2> QED
    BY Zenon, <1>3, <2>1, <2>2, <2>3
<1>18. ObjectsOK'
  BY Zenon, <1>16, <1>17 DEF ObjectsOK
<1> QED
  BY Zenon, <1>2, <1>5, <1>6, <1>8, <1>9, <1>11, <1>12, <1>13, <1>14, <1>18 DEF EInv

(* Every state of the system satisfies the inductive invariant, for any    *)
(* number of tenants, objects, commands at once, failures and disasters    *)
(* (internal/erasure/service.go, scripts/backup.sh, scripts/restore.sh).   *)
THEOREM ErasureInvariant == Spec => []EInv
<1> QED
  BY ErasureStarts, ErasureStep, PTL DEF Spec

(* A printed or stored receipt is in the database of a deployment that     *)
(* serves traffic.                                                         *)
LEMMA PromisesKept ==
  ASSUME EInv, phase = "serving", NEW t \in Tenants, Promised(t)
  PROVE  \E q \in Requests : db.receipts[q] = t
<1>1. CASE t \in acked
  BY Zenon, <1>1 DEF EInv, AckedOK
<1>2. CASE HasReceipt(t)
  BY Zenon, <1>2 DEF HasReceipt
<1> QED
  BY Zenon, <1>1, <1>2 DEF Promised

(* A tenant with a receipt has no rows in a deployment that serves, behind *)
(* whatever writers were under way and from whatever backup it was         *)
(* restored (0014 write fence, restore.sh replay).                         *)
THEOREM RowsAreErasedForGood == Spec => []RowsStayErased
<1>1. EInv => RowsStayErased
  <2> SUFFICES ASSUME EInv, phase = "serving", NEW t \in Tenants, Promised(t), NEW n \in Of(t)
               PROVE  n \notin db.traces /\ n \notin db.derived
    BY Zenon DEF RowsStayErased
  <2>1. PICK q \in Requests : db.receipts[q] = t
    BY Zenon, PromisesKept
  <2>2. Recorded(db)
    BY Zenon DEF EInv
  <2> QED
    BY Zenon, <2>1, <2>2 DEF Recorded
<1> QED
  BY <1>1, ErasureInvariant, PTL

(* Nor has it objects, when its credential was revoked and its requests    *)
(* had drained before any of its commands (erasure.go:15-84, and the order *)
(* in which backup.sh takes the database and the bucket).                  *)
THEOREM ObjectsAreErasedForGood == Spec => []ObjectsStayErased
<1>1. EInv => ObjectsStayErased
  <2> SUFFICES ASSUME EInv, phase = "serving", NEW t \in Tenants \ hasty, Promised(t), NEW n \in Of(t)
               PROVE  n \notin archive
    BY Zenon DEF ObjectsStayErased
  <2> QED
    BY Zenon, PromisesKept DEF EInv, ObjectsOK
<1> QED
  BY <1>1, ErasureInvariant, PTL

(* Every trace row of a tenant that is not being erased has its object,    *)
(* after a restore too.                                                    *)
THEOREM RowsKeepTheirObjects == Spec => []RowsHaveObjects
<1>1. EInv => RowsHaveObjects
  <2> SUFFICES ASSUME EInv PROVE RowsHaveObjects
    BY Zenon
  <2>1. db.traces \subseteq Ingests /\ RowsOK
    BY SMTT(30) DEF EInv, Types, DbRecord
  <2> QED
    BY Zenon, <2>1 DEF RowsOK, RowsHaveObjects
<1> QED
  BY <1>1, ErasureInvariant, PTL

(* Every intent on the ledger can be carried out, now or after a restore:  *)
(* journalErasureIntent's search and the two unique indexes of the fence   *)
(* agree on which request stands for which tenant.                         *)
THEOREM IntentsCanBeReplayed == Spec => []IntentsReplayable
<1>1. EInv => IntentsReplayable
  <2> SUFFICES ASSUME EInv, NEW t \in Tenants
               PROVE  /\ ledger[t] = None => db.fence[t] = None
                      /\ ledger[t] # None => Fenceable(t, ledger[t]) /\ db.receipts[ledger[t]] \in {None, t}
    BY Zenon DEF IntentsReplayable
  <2>0. Types /\ OneIntent /\ Recorded(db)
    BY Zenon DEF EInv
  <2>1. ASSUME ledger[t] # None PROVE Fenceable(t, ledger[t])
    BY <2>0, <2>1 DEF Recorded, OneIntent, Fenceable
  <2>2. ASSUME ledger[t] # None PROVE db.receipts[ledger[t]] \in {None, t}
    <3>1. ledger[t] \in Requests /\ db.receipts[ledger[t]] \in Tenants \cup {None}
      BY Zenon, <2>0, <2>2 DEF Types, DbRecord
    <3> QED
      BY Zenon, <2>0, <2>2, <3>1 DEF Recorded, OneIntent
  <2> QED
    BY Zenon, <2>0, <2>1, <2>2 DEF Recorded
<1> QED
  BY <1>1, ErasureInvariant, PTL
=============================================================================
