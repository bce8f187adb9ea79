------------------------------- MODULE Ingest -------------------------------
(***************************************************************************)
(* Trace ingestion for one tenant, from the request to the durable answer: *)
(*   ingest/service.go         Ingest: archive the trace, then commit      *)
(*   archive/s3.go             PutCanonical: create the blob if absent     *)
(*   store/surreal/ingest.go   Commit, commitOnce, resolveExisting         *)
(*                                                                         *)
(* A database transaction is two steps, the reads and the commit.  The     *)
(* commit succeeds only if the unique indexes of ingest_receipt and        *)
(* trace_run still allow the rows; otherwise it is a conflict.             *)
(*                                                                         *)
(* A content is a canonical batch: it fixes the trace ID and the archive   *)
(* key.  The trace_run row stands for everything created with it (events,  *)
(* archive_object); outbox_job is kept apart because it starts the work.   *)
(***************************************************************************)
EXTENDS Integers

CONSTANTS Keys,       \* idempotency keys
          Traces,
          Contents,
          TraceOf,    \* the trace ID inside each content
          Commands,   \* what clients send: [key, content]
          Requests,   \* calls in progress at a time
          None,
          MaxFaults   \* bound: failed calls, lost answers and cancellations

ASSUME IngestAssumption ==
  /\ TraceOf \in [Contents -> Traces]
  /\ Commands \subseteq [key : Keys, content : Contents]
  /\ None \notin Contents /\ None \notin Commands
  /\ MaxFaults \in Nat

VARIABLES call,      \* call[r]: the command being served and how far it got
          blobs,     \* contents in the archive
          receipts,  \* ingest_receipt by key: its content
          traces,    \* trace_run by trace: the content its archive_key names
          jobs,      \* how many outbox_job rows were created for each trace
          answers,   \* answers clients received: [command, result]
          accepted,  \* how often each key was answered "accepted"
          faults

ledger == <<receipts, traces, jobs>>
vars == <<call, blobs, ledger, answers, accepted, faults>>

Phases == {"idle", "put", "begin", "commit", "resolve"}
Plans == {"none", "reuse", "create"}
Errors == {"none", "conflict", "trace_conflict", "failed"}
Results == {"accepted", "duplicate", "idempotency_conflict", "trace_conflict"}

Call == [phase : Phases, command : Commands \cup {None}, plan : Plans, error : Errors]
NoCall == [phase |-> "idle", command |-> None, plan |-> "none", error |-> "none"]

Key(r) == call[r].command.key
Content(r) == call[r].command.content
Trace(r) == TraceOf[Content(r)]

Fault == faults < MaxFaults /\ faults' = faults + 1
Moves(r, phase, plan, error) ==
  call' = [call EXCEPT ![r] = [phase |-> phase, command |-> call[r].command, plan |-> plan, error |-> error]]
Ends(r) == call' = [call EXCEPT ![r] = NoCall]

Init ==
  /\ call = [r \in Requests |-> NoCall]
  /\ blobs = {}
  /\ receipts = [k \in Keys |-> None]
  /\ traces = [t \in Traces |-> None]
  /\ jobs = [t \in Traces |-> 0]
  /\ answers = {}
  /\ accepted = [k \in Keys |-> 0]
  /\ faults = 0

-----------------------------------------------------------------------------
(* A command that passed validation, sanitising and canonicalisation: the  *)
(* same command may be sent again at any time, also while it is served.    *)
Ingest(r, c) ==
  /\ call[r].phase = "idle"
  /\ call' = [call EXCEPT ![r] = [NoCall EXCEPT !.phase = "put", !.command = c]]
  /\ UNCHANGED <<blobs, ledger, answers, accepted, faults>>

(* Mutant: the archive's error is ignored.                                 *)
PutCanonicalUnstored(r) ==
  /\ call[r].phase = "put"
  /\ blobs' \in {blobs, blobs \cup {Content(r)}}
  /\ Moves(r, "begin", "none", "none")
  /\ UNCHANGED <<ledger, answers, accepted, faults>>

(* Created, or already there and verified as the same content.             *)
PutCanonical(r) ==
  /\ call[r].phase = "put"
  /\ blobs' = blobs \cup {Content(r)}
  /\ Moves(r, "begin", "none", "none")
  /\ UNCHANGED <<ledger, answers, accepted, faults>>

(* The put fails, with or without the blob having been stored.             *)
PutFails(r) ==
  /\ call[r].phase = "put"
  /\ blobs' \in {blobs, blobs \cup {Content(r)}}
  /\ Ends(r)
  /\ Fault
  /\ UNCHANGED <<ledger, answers, accepted>>

-----------------------------------------------------------------------------
Answer(r, result) ==
  /\ answers' = answers \cup {[command |-> call[r].command, result |-> result]}
  /\ accepted' = IF result = "accepted" THEN [accepted EXCEPT ![Key(r)] = @ + 1] ELSE accepted
  /\ Ends(r)

resolveExisting(r) ==
  Answer(r, IF receipts[Key(r)] = Content(r) THEN "duplicate" ELSE "idempotency_conflict")

(* What commitOnce does after its two reads when there is no receipt.      *)
Plan(r) ==
  CASE traces[Trace(r)] = None -> [phase |-> "commit", plan |-> "create", error |-> "none"]
    [] traces[Trace(r)] = Content(r) -> [phase |-> "commit", plan |-> "reuse", error |-> "none"]
    [] OTHER -> [phase |-> "resolve", plan |-> "none", error |-> "trace_conflict"]

Begin(r) ==
  /\ call[r].phase = "begin"
  /\ \/ receipts[Key(r)] # None /\ resolveExisting(r)
     \/ /\ receipts[Key(r)] = None
        /\ Moves(r, Plan(r).phase, Plan(r).plan, Plan(r).error)
        /\ UNCHANGED <<answers, accepted>>
  /\ UNCHANGED <<blobs, ledger, faults>>

(* The unique indexes: one receipt per key, one trace_run (hence one       *)
(* archive_object and one outbox_job) per trace.                           *)
Unique(r) ==
  /\ receipts[Key(r)] = None
  /\ call[r].plan = "create" => traces[Trace(r)] = None

Create(r) ==
  /\ receipts' = [receipts EXCEPT ![Key(r)] = Content(r)]
  /\ IF call[r].plan = "create"
     THEN /\ traces' = [traces EXCEPT ![Trace(r)] = Content(r)]
          /\ jobs' = [jobs EXCEPT ![Trace(r)] = @ + 1]
     ELSE UNCHANGED <<traces, jobs>>

Commit(r) ==
  /\ call[r].phase = "commit" /\ Unique(r)
  /\ Create(r)
  /\ \/ Answer(r, "accepted") /\ UNCHANGED faults
     \/ /\ Moves(r, "resolve", "none", "failed")     \* committed, but the answer was lost
        /\ Fault
        /\ UNCHANGED <<answers, accepted>>
  /\ UNCHANGED blobs

CommitConflicts(r) ==
  /\ call[r].phase = "commit" /\ ~Unique(r)
  /\ Moves(r, "resolve", "none", "conflict")
  /\ UNCHANGED <<blobs, ledger, answers, accepted, faults>>

(* Begin, a read, a write or the commit fails and nothing is written.      *)
CommitFails(r) ==
  /\ call[r].phase \in {"begin", "commit"}
  /\ Moves(r, "resolve", "none", "failed")
  /\ Fault
  /\ UNCHANGED <<blobs, ledger, answers, accepted>>

(* Mutant: a trace conflict is retried like a transaction conflict.        *)
ResolveRetriesTraceConflict(r) ==
  /\ call[r].phase = "resolve"
  /\ \/ receipts[Key(r)] # None /\ resolveExisting(r)
     \/ /\ receipts[Key(r)] = None
        /\ IF call[r].error = "failed" THEN Ends(r) ELSE Moves(r, "begin", "none", "none")
        /\ UNCHANGED <<answers, accepted>>
  /\ UNCHANGED <<blobs, ledger, faults>>

(* Mutant: a trace conflict is reported without looking for a receipt.     *)
ResolveTraceConflictFirst(r) ==
  /\ call[r].phase = "resolve"
  /\ \/ call[r].error = "trace_conflict" /\ Answer(r, "trace_conflict")
     \/ call[r].error # "trace_conflict" /\ receipts[Key(r)] # None /\ resolveExisting(r)
     \/ /\ call[r].error # "trace_conflict" /\ receipts[Key(r)] = None
        /\ IF call[r].error = "failed" THEN Ends(r) ELSE Moves(r, "begin", "none", "none")
        /\ UNCHANGED <<answers, accepted>>
  /\ UNCHANGED <<blobs, ledger, faults>>

(* Whatever the error was, Commit first looks for a receipt: another call  *)
(* or a commit whose answer was lost may have created it.                  *)
Resolve(r) ==
  /\ call[r].phase = "resolve"
  /\ \/ receipts[Key(r)] # None /\ resolveExisting(r)
     \/ /\ receipts[Key(r)] = None
        /\ CASE call[r].error = "conflict" ->
                  Moves(r, "begin", "none", "none") /\ UNCHANGED <<answers, accepted>>
             [] call[r].error = "trace_conflict" -> Answer(r, "trace_conflict")
             [] OTHER -> Ends(r) /\ UNCHANGED <<answers, accepted>>
  /\ UNCHANGED <<blobs, ledger, faults>>

(* The caller gives up, the process dies, the retries or the lookup fail:  *)
(* the call ends without an answer, wherever it is.                        *)
Cancel(r) ==
  /\ call[r].phase # "idle"
  /\ Ends(r)
  /\ Fault
  /\ UNCHANGED <<blobs, ledger, answers, accepted>>

Serve(r) ==
  \/ PutCanonical(r) \/ PutFails(r) \/ Begin(r)
  \/ Commit(r) \/ CommitConflicts(r) \/ CommitFails(r) \/ Resolve(r)

Next == \E r \in Requests : Serve(r) \/ Cancel(r) \/ \E c \in Commands : Ingest(r, c)

Spec == Init /\ [][Next]_vars

Answered(c) == \E a \in answers : a.command = c

(* A call in progress goes on, and a client that has no answer to its      *)
(* command sends it again.                                                 *)
Fairness ==
  /\ \A r \in Requests : WF_vars(Serve(r))
  /\ \A c \in Commands : SF_vars(~Answered(c) /\ \E r \in Requests : Ingest(r, c))

FairSpec == Spec /\ Fairness

-----------------------------------------------------------------------------
TypeOK ==
  /\ call \in [Requests -> Call]
  /\ \A r \in Requests : call[r].command = None <=> call[r].phase = "idle"
  /\ blobs \in SUBSET Contents
  /\ receipts \in [Keys -> Contents \cup {None}]
  /\ traces \in [Traces -> Contents \cup {None}]
  /\ jobs \in [Traces -> Nat]
  /\ answers \in SUBSET [command : Commands, result : Results]
  /\ accepted \in [Keys -> Nat]
  /\ faults \in 0..MaxFaults

Recorded(content) ==
  /\ content \in blobs
  /\ traces[TraceOf[content]] = content
  /\ jobs[TraceOf[content]] = 1

(* A receipt never stands alone: the trace it names is in the ledger with  *)
(* that very content, its blob is in the archive, and exactly one job will *)
(* process it, whatever failed or raced on the way (service.go:92-116,     *)
(* ingest.go:99-156).                                                      *)
ReceiptComplete == \A k \in Keys : receipts[k] # None => Recorded(receipts[k])

Holds(result, key, content) ==
  CASE result \in {"accepted", "duplicate"} -> receipts[key] = content /\ Recorded(content)
    [] result = "idempotency_conflict" -> receipts[key] \notin {None, content}
    [] result = "trace_conflict" -> traces[TraceOf[content]] \notin {None, content}

(* What a client was told stays true: accepted and duplicate mean this     *)
(* content is recorded under this key, a conflict means another content    *)
(* holds the key or the trace (ingest.go:54-75, 229-235).                  *)
AnswersTrue == \A a \in answers : Holds(a.result, a.command.key, a.command.content)

(* Of all the calls that carry one key, at most one is told "accepted"; a  *)
(* retry after a lost answer is told "duplicate" (ingest.go:58-66).        *)
AcceptedOnce == \A k \in Keys : accepted[k] <= 1

(* A trace has a job exactly when it is in the ledger, and never a second  *)
(* one, however many keys its content arrives under (ingest.go:133-156).   *)
OneJobPerTrace == \A t \in Traces : jobs[t] = IF traces[t] = None THEN 0 ELSE 1

Ledger == INSTANCE IngestLedger WITH outbox <- {t \in Traces : jobs[t] # 0}

(* Seen through the ledger, the concurrent transactions with their         *)
(* conflicts, retries, lost answers and late lookups are single atomic     *)
(* commits, each answered by what the ledger held at that moment: the      *)
(* database repository implements the in-memory one (surreal/ingest.go:    *)
(* 48-156, memory/ingest.go:151-199).                                      *)
ImplementsIngestLedger == Ledger!Spec

(* Every command is answered once faults stop and its client persists: no  *)
(* error leaves a key or a trace that nobody can resolve (ingest.go:54-75).*)
EveryCommandAnswered == \A c \in Commands : <>Answered(c)
=============================================================================
