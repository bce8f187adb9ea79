------------------------------ MODULE Erasure ------------------------------
(***************************************************************************)
(* Erasing a tenant, against the writers that are still at work and across *)
(* a restore of an older backup.                                           *)
(*   cmd/admin/main.go             runEraseTenant, journalErasureIntent    *)
(*   internal/erasure/service.go   Erase                                   *)
(*   store/surreal/erasure.go      FindErasure, BeginErasure, CommitErasure*)
(*   archive/erasure.go            EraseTenant                             *)
(*   db/migrations/0014            the write fence on every tenant table   *)
(*   scripts/backup.sh, restore.sh the snapshot and the ledger's replay    *)
(*                                                                         *)
(* An ingest stands for itself, for the object version its PUT creates and *)
(* for the rows its commit writes.  Database transactions are serializable.*)
(***************************************************************************)
EXTENDS Integers, FiniteSets, FiniteSetsExt

CONSTANTS Tenants, Requests, None,
          Runs,         \* erase-tenant commands that can run at the same time
          NumIngests,
          Owner,        \* Owner[n]: the tenant of ingest n
          Earlier,      \* ingests that were done, with their workflow, before the start
          PageSize,     \* object versions one ListObjectVersions answers
          MaxFailures,  \* bound: calls of a command that fail, commands that are killed,
                        \* commands given while another one runs
          MaxDisasters  \* bound: losses of the deployment that a restore follows

Ingests == 1..NumIngests
Of(t) == {n \in Ingests : Owner[n] = t}
Clients == {Owner[n] : n \in Ingests}

ASSUME ErasureAssumption ==
  /\ NumIngests \in Nat
  /\ Owner \in [Ingests -> Tenants] /\ Earlier \subseteq Ingests
  /\ PageSize \in Nat \ {0}
  /\ None \notin Requests /\ None \notin Tenants
  /\ MaxFailures \in Nat /\ MaxDisasters \in Nat

VARIABLES phase,       \* "serving", "replaying" the ledger after a restore, or "down"
          authorized,  \* tenants whose credential is mounted
          ingest,      \* ingest[n]: how far the API got with it
          working,     \* ingests whose workflow has read its input and not yet written
          archive,     \* object versions in the bucket
          db,          \* the database: traces and derived rows, fence[t] (the request
                       \* ID of the tenant's fence), receipts[q] (its tenant)
          ledger,      \* ledger[t]: the request ID of the tenant's intent file
          run,         \* run[r]: an erase-tenant command
          acked,       \* tenants for which a command printed a receipt
          hasty,       \* history: tenants with a command that was given before the
                       \* credential was revoked and the API rolled
          backup,      \* the snapshot
          replay,      \* intents restore.sh has not replayed yet
          failures, disasters

store == <<archive, db>>
command == <<ledger, run, acked, hasty, failures>>
recovery == <<phase, backup, replay, disasters>>
vars == <<authorized, ingest, working, store, command, recovery>>

NoRun == [pc |-> "idle", tenant |-> None, request |-> None, replay |-> FALSE,
          marker |-> 0, page |-> {}, truncated |-> FALSE]

(* Slots are alike: a command takes the first one that is free.            *)
FreeSlot(r) == run[r] = NoRun /\ r = CHOOSE o \in Runs : run[o] = NoRun

Failure == failures < MaxFailures /\ failures' = failures + 1
Writable(t) == db.fence[t] = None

Init ==
  /\ phase = "serving"
  /\ authorized = Clients
  /\ ingest = [n \in Ingests |-> IF n \in Earlier THEN "ended" ELSE "new"]
  /\ working = {} /\ archive = Earlier
  /\ db = [traces |-> Earlier, derived |-> Earlier, fence |-> [t \in Tenants |-> None],
           receipts |-> [q \in Requests |-> None]]
  /\ ledger = [t \in Tenants |-> None]
  /\ run = [r \in Runs |-> NoRun]
  /\ acked = {} /\ hasty = {}
  /\ backup = [state |-> "none", db |-> db, mirrored |-> {}, archive |-> {}]
  /\ replay = {}
  /\ failures = 0 /\ disasters = 0

-----------------------------------------------------------------------------
(* Writers.  The API stores the object and then commits the rows; a        *)
(* workflow of the worker reads the trace and later commits derived rows.  *)
(* Every CREATE and UPDATE of a fenced tenant throws.                      *)
RevokeCredential(t) ==
  /\ t \in authorized
  /\ authorized' = authorized \ {t}
  /\ UNCHANGED <<ingest, working, store, command, recovery>>

Authenticate(n) ==
  /\ phase = "serving" /\ ingest[n] = "new" /\ Owner[n] \in authorized
  /\ ingest' = [ingest EXCEPT ![n] = "admitted"]
  /\ UNCHANGED <<authorized, working, store, command, recovery>>

PutCanonical(n) ==
  /\ ingest[n] = "admitted"
  /\ archive' = archive \cup {n}
  /\ ingest' = [ingest EXCEPT ![n] = "stored"]
  /\ UNCHANGED <<authorized, working, db, command, recovery>>

CommitIngest(n) ==
  /\ ingest[n] = "stored"
  /\ db' = IF Writable(Owner[n]) THEN [db EXCEPT !.traces = @ \cup {n}] ELSE db
  /\ ingest' = [ingest EXCEPT ![n] = "ended"]
  /\ UNCHANGED <<authorized, working, archive, command, recovery>>

(* The client goes away or the replica is rolled.                          *)
AbortIngest(n) ==
  /\ ingest[n] \in {"admitted", "stored"}
  /\ ingest' = [ingest EXCEPT ![n] = "ended"]
  /\ UNCHANGED <<authorized, working, store, command, recovery>>

WorkflowReads(n) ==
  /\ phase = "serving" /\ n \in db.traces \ (db.derived \cup working)
  /\ working' = working \cup {n}
  /\ UNCHANGED <<authorized, ingest, store, command, recovery>>

(* Mutant: a table without the fence's event.                              *)
WorkflowWritesUnfenced(n) ==
  /\ n \in working
  /\ working' = working \ {n}
  /\ db' = [db EXCEPT !.derived = @ \cup {n}]
  /\ UNCHANGED <<authorized, ingest, archive, command, recovery>>

WorkflowWrites(n) ==
  /\ n \in working
  /\ working' = working \ {n}
  /\ db' = IF Writable(Owner[n]) THEN [db EXCEPT !.derived = @ \cup {n}] ELSE db
  /\ UNCHANGED <<authorized, ingest, archive, command, recovery>>

-----------------------------------------------------------------------------
(* Mutant: the ledger is not searched for the request ID.                  *)
JournalableAnyRequest(t, q) == ledger[t] \in {None, q}

(* The command.  journalErasureIntent runs under a lock on the ledger's    *)
(* directory and ends in one atomic link, so it is one step; a replayed    *)
(* intent skips it.                                                        *)
Journalable(t, q) ==
  \/ ledger[t] = q
  \/ ledger[t] = None /\ \A u \in Tenants : ledger[u] # q

Started(t, q, replaying) ==
  [NoRun EXCEPT !.pc = "find", !.tenant = t, !.request = q, !.replay = replaying]

Drained(t) == t \notin authorized /\ \A n \in Of(t) : ingest[n] \in {"new", "ended"}

EraseTenantCommand(r, t, q) ==
  /\ phase = "serving" /\ FreeSlot(r)
  /\ Journalable(t, q)
  /\ ledger' = [ledger EXCEPT ![t] = q]
  /\ hasty' = IF Drained(t) THEN hasty ELSE hasty \cup {t}
  /\ run' = [run EXCEPT ![r] = Started(t, q, FALSE)]
  /\ IF \A o \in Runs : run[o] = NoRun THEN UNCHANGED failures ELSE Failure
  /\ UNCHANGED <<authorized, ingest, working, store, acked, recovery>>

(* How a command ends.  It prints the receipt it was given, or reports an  *)
(* error; restore.sh moves on to the next intent, or stops.                *)
Answer(r) ==
  /\ run' = [run EXCEPT ![r] = NoRun]
  /\ acked' = IF run[r].replay THEN acked ELSE acked \cup {run[r].tenant}
  /\ replay' = IF run[r].replay THEN replay \ {run[r].tenant} ELSE replay
  /\ UNCHANGED phase

Reject(r) ==
  /\ run' = [run EXCEPT ![r] = NoRun]
  /\ phase' = IF run[r].replay THEN "down" ELSE phase
  /\ UNCHANGED <<acked, replay>>

Proceed(r, step) ==
  /\ run' = [run EXCEPT ![r].pc = step]
  /\ UNCHANGED <<phase, acked, replay>>

(* Mutant: any receipt under the request ID is a conflict.                 *)
FindErasureOnce(r) ==
  /\ run[r].pc = "find"
  /\ IF db.receipts[run[r].request] = None THEN Proceed(r, "begin") ELSE Reject(r)
  /\ UNCHANGED <<authorized, ingest, working, store, ledger, hasty, failures, backup, disasters>>

FindErasure(r) ==
  LET found == db.receipts[run[r].request] IN
  /\ run[r].pc = "find"
  /\ IF found = None THEN Proceed(r, "begin")
     ELSE IF found = run[r].tenant THEN Answer(r) ELSE Reject(r)
  /\ UNCHANGED <<authorized, ingest, working, store, ledger, hasty, failures, backup, disasters>>

(* The fence is unique by tenant and by request ID.                        *)
Fenceable(t, q) ==
  \/ db.fence[t] = q
  \/ db.fence[t] = None /\ \A u \in Tenants : db.fence[u] # q

BeginErasure(r) ==
  LET t == run[r].tenant
      q == run[r].request IN
  /\ run[r].pc = "begin"
  /\ IF Fenceable(t, q)
       THEN db' = [db EXCEPT !.fence[t] = q] /\ Proceed(r, "list")
       ELSE UNCHANGED db /\ Reject(r)
  /\ UNCHANGED <<authorized, ingest, working, archive, ledger, hasty, failures, backup, disasters>>

(* EraseTenant: a page of the listing, its deletion, and after the last    *)
(* page a second listing that must be empty.                               *)
ListObjectVersions(r) ==
  LET rest == {n \in archive \cap Of(run[r].tenant) : n > run[r].marker}
      page == {n \in rest : Cardinality({m \in rest : m < n}) < PageSize} IN
  /\ run[r].pc = "list"
  /\ run' = [run EXCEPT ![r].pc = "delete", ![r].page = page, ![r].truncated = rest # page]
  /\ UNCHANGED <<authorized, ingest, working, store, ledger, acked, hasty, failures, recovery>>

(* Mutant: one page is deleted, and nothing is verified.                   *)
DeleteOnePage(r) ==
  /\ run[r].pc = "delete"
  /\ archive' = archive \ run[r].page
  /\ run' = [run EXCEPT ![r].pc = "commit", ![r].page = {}, ![r].truncated = FALSE]
  /\ UNCHANGED <<authorized, ingest, working, db, ledger, acked, hasty, failures, recovery>>

DeleteObjects(r) ==
  LET this == run[r] IN
  /\ this.pc = "delete"
  /\ archive' = archive \ this.page
  /\ run' = [run EXCEPT ![r] =
       [this EXCEPT !.pc = IF this.truncated THEN "list" ELSE "verify",
                    !.marker = IF this.truncated THEN Max(this.page) ELSE 0,
                    !.page = {}, !.truncated = FALSE]]
  /\ UNCHANGED <<authorized, ingest, working, db, ledger, acked, hasty, failures, recovery>>

VerifyErased(r) ==
  /\ run[r].pc = "verify"
  /\ IF archive \cap Of(run[r].tenant) = {} THEN Proceed(r, "commit") ELSE Reject(r)
  /\ UNCHANGED <<authorized, ingest, working, store, ledger, hasty, failures, backup, disasters>>

(* One transaction.  A receipt that is already there carries another       *)
(* completion time, so its hash differs and the command ends in a conflict.*)
Committable(r) ==
  /\ db.receipts[run[r].request] = None
  /\ db.fence[run[r].tenant] = run[r].request

AfterErasure(r) ==
  LET gone == Of(run[r].tenant) IN
  [db EXCEPT !.traces = @ \ gone, !.derived = @ \ gone,
             !.receipts[run[r].request] = run[r].tenant]

CommitErasure(r) ==
  /\ run[r].pc = "commit"
  /\ IF Committable(r) THEN db' = AfterErasure(r) /\ Answer(r) ELSE UNCHANGED db /\ Reject(r)
  /\ UNCHANGED <<authorized, ingest, working, archive, ledger, hasty, failures, backup, disasters>>

(* The transaction commits and neither its answer nor the lookup's arrives.*)
CommitAnswerLost(r) ==
  /\ run[r].pc = "commit" /\ Committable(r)
  /\ Failure
  /\ db' = AfterErasure(r)
  /\ Reject(r)
  /\ UNCHANGED <<authorized, ingest, working, archive, ledger, hasty, backup, disasters>>

(* A call fails, the ten minutes run out or the process is killed; of a    *)
(* page that was being deleted any part may be gone.                       *)
CommandFails(r) ==
  /\ run[r] # NoRun
  /\ Failure
  /\ \E gone \in SUBSET run[r].page : archive' = archive \ gone
  /\ Reject(r)
  /\ UNCHANGED <<authorized, ingest, working, db, ledger, hasty, backup, disasters>>

-----------------------------------------------------------------------------
(* backup.sh exports the database and then mirrors the bucket, object by   *)
(* object, while the system goes on serving.                               *)
ExportDatabase ==
  /\ phase = "serving" /\ backup.state = "none"
  /\ backup' = [backup EXCEPT !.state = "mirroring", !.db = db]
  /\ UNCHANGED <<authorized, ingest, working, store, command, phase, replay, disasters>>

(* Mutant: the database is exported after the bucket was mirrored.         *)
MirrorArchiveFirst(t) ==
  /\ phase = "serving" /\ backup.state = "mirroring" /\ t \notin backup.mirrored
  /\ \E done \in BOOLEAN :
       backup' = [backup EXCEPT !.mirrored = IF done THEN Clients ELSE {},
                                !.archive = IF done THEN @ ELSE archive,
                                !.db = db, !.state = IF done THEN "ready" ELSE @]
  /\ UNCHANGED <<authorized, ingest, working, store, command, phase, replay, disasters>>

MirrorArchive(t) ==
  /\ phase = "serving" /\ backup.state = "mirroring" /\ t \notin backup.mirrored
  /\ backup' = [backup EXCEPT !.mirrored = @ \cup {t},
                              !.archive = @ \cup (archive \cap Of(t)),
                              !.state = IF backup.mirrored \cup {t} = Clients THEN "ready" ELSE @]
  /\ UNCHANGED <<authorized, ingest, working, store, command, phase, replay, disasters>>

(* restore.sh fills empty targets from the backup.  The processes of the   *)
(* lost deployment are gone; the ledger, kept elsewhere, is not.           *)
Restore ==
  /\ backup.state = "ready" /\ (phase = "down" \/ disasters < MaxDisasters)
  /\ db' = backup.db /\ archive' = backup.archive
  /\ replay' = {t \in Tenants : ledger[t] # None}
  /\ phase' = "replaying"
  /\ run' = [r \in Runs |-> NoRun]
  /\ working' = {}
  /\ ingest' = [n \in Ingests |-> IF ingest[n] = "new" THEN "new" ELSE "ended"]
  /\ disasters' = IF phase = "down" THEN disasters ELSE disasters + 1
  /\ UNCHANGED <<authorized, ledger, acked, hasty, failures, backup>>

ReplayIntent(r, t) ==
  /\ phase = "replaying" /\ t \in replay
  /\ FreeSlot(r) /\ \A o \in Runs : run[o] = NoRun
  /\ run' = [run EXCEPT ![r] = Started(t, ledger[t], TRUE)]
  /\ UNCHANGED <<authorized, ingest, working, store, ledger, acked, hasty, failures, recovery>>

(* The health check: traffic is routed to the restored deployment.         *)
RouteTraffic ==
  /\ phase = "replaying" /\ replay = {}
  /\ phase' = "serving"
  /\ UNCHANGED <<authorized, ingest, working, store, command, backup, replay, disasters>>

-----------------------------------------------------------------------------
WriterStep(n) ==
  \/ Authenticate(n) \/ PutCanonical(n) \/ CommitIngest(n) \/ AbortIngest(n)
  \/ WorkflowReads(n) \/ WorkflowWrites(n)

CommandStep(r) ==
  \/ FindErasure(r) \/ BeginErasure(r) \/ ListObjectVersions(r)
  \/ DeleteObjects(r) \/ VerifyErased(r) \/ CommitErasure(r)

Next ==
  \/ \E t \in Clients : RevokeCredential(t) \/ MirrorArchive(t)
  \/ \E n \in Ingests : WriterStep(n)
  \/ \E r \in Runs : CommandStep(r) \/ CommitAnswerLost(r) \/ CommandFails(r)
  \/ \E r \in Runs, t \in Tenants, q \in Requests : EraseTenantCommand(r, t, q)
  \/ \E r \in Runs, t \in Tenants : ReplayIntent(r, t)
  \/ ExportDatabase \/ Restore \/ RouteTraffic

Spec == Init /\ [][Next]_vars

(* The operator repeats an identical request that is still on the ledger,  *)
(* restores again after a replay that failed, and lets a command run.  The *)
(* repeat is strongly fair because Runs is a bound of the model: commands  *)
(* for another tenant must not keep this one out.                          *)
FairSpec ==
  /\ Spec
  /\ \A r \in Runs : WF_vars(CommandStep(r))
  /\ \A t \in Tenants : SF_vars(\E r \in Runs : /\ ledger[t] # None
                                               /\ db.receipts[ledger[t]] = None
                                               /\ EraseTenantCommand(r, t, ledger[t]))
  /\ WF_vars(\E r \in Runs, t \in Tenants : ReplayIntent(r, t))
  /\ WF_vars(phase = "down" /\ Restore)
  /\ WF_vars(RouteTraffic)

-----------------------------------------------------------------------------
TypeOK ==
  /\ phase \in {"serving", "replaying", "down"}
  /\ authorized \subseteq Clients
  /\ ingest \in [Ingests -> {"new", "admitted", "stored", "ended"}]
  /\ working \subseteq Ingests /\ archive \subseteq Ingests
  /\ \A d \in {db, backup.db} :
       /\ d.traces \subseteq Ingests /\ d.derived \subseteq Ingests
       /\ d.fence \in [Tenants -> Requests \cup {None}]
       /\ d.receipts \in [Requests -> Tenants \cup {None}]
  /\ backup.state \in {"none", "mirroring", "ready"}
  /\ backup.mirrored \subseteq Clients /\ backup.archive \subseteq Ingests
  /\ ledger \in [Tenants -> Requests \cup {None}]
  /\ run \in [Runs -> [pc : {"idle", "find", "begin", "list", "delete", "verify", "commit"},
                       tenant : Tenants \cup {None}, request : Requests \cup {None},
                       replay : BOOLEAN, marker : 0..NumIngests, page : SUBSET Ingests,
                       truncated : BOOLEAN]]
  /\ acked \subseteq Tenants /\ hasty \subseteq Tenants /\ replay \subseteq Tenants
  /\ failures \in 0..MaxFailures /\ disasters \in 0..MaxDisasters

HasReceipt(t) == \E q \in Requests : db.receipts[q] = t
Promised(t) == t \in acked \/ HasReceipt(t)

(* Once a receipt for a tenant exists or has been printed, a deployment    *)
(* that serves traffic holds no row of the tenant: no workflow or ingest   *)
(* that was under way writes one behind the deletion, and no restored      *)
(* snapshot brings one back.                                               *)
RowsStayErased ==
  phase = "serving" =>
    \A t \in Tenants : Promised(t) => (db.traces \cup db.derived) \cap Of(t) = {}

(* The same of the bucket, which has no fence, for a tenant whose commands *)
(* all came after its credential was revoked and its requests had drained: *)
(* it takes the order of the operator's steps and of the two halves of the *)
(* backup.                                                                 *)
ObjectsStayErased ==
  phase = "serving" =>
    \A t \in Tenants \ hasty : Promised(t) => archive \cap Of(t) = {}

(* While a tenant is not being erased every trace row a serving deployment *)
(* holds has its object, restored ones included, although the backup takes *)
(* its two halves at different times.                                      *)
RowsHaveObjects ==
  phase = "serving" =>
    \A n \in db.traces : db.fence[Owner[n]] = None => n \in archive

(* A tenant is fenced only once its intent is on the ledger, and every     *)
(* intent on the ledger can be carried out, now or when a restore replays  *)
(* it: no fence and no receipt of another request or tenant is in its way. *)
IntentsReplayable ==
  \A t \in Tenants :
    /\ ledger[t] = None => db.fence[t] = None
    /\ ledger[t] # None => Fenceable(t, ledger[t]) /\ db.receipts[ledger[t]] \in {None, t}

(* Every erasure whose intent is on the ledger is completed for good and   *)
(* the deployment serves again, through failed commands, lost answers,     *)
(* objects that arrive late and restores.                                  *)
ErasureCompletes ==
  <>[](phase = "serving" /\ \A t \in Tenants : ledger[t] # None => HasReceipt(t))
=============================================================================
