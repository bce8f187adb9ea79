---------------------------- MODULE IngestLedger ----------------------------
(***************************************************************************)
(* What the ingest ledger promises a tenant: a commit is one step.  This   *)
(* is the in-memory repository (store/memory/ingest.go), which takes its   *)
(* lock for the whole of Commit.  The answer may be lost on its way.       *)
(***************************************************************************)
EXTENDS Integers

CONSTANTS Keys, Traces, TraceOf, Commands, None

VARIABLES receipts,  \* by key: the content
          traces,    \* by trace: the content
          outbox,    \* traces with a job
          answers    \* answers clients received: [command, result]

vars == <<receipts, traces, outbox, answers>>

Init ==
  /\ receipts = [k \in Keys |-> None]
  /\ traces = [t \in Traces |-> None]
  /\ outbox = {}
  /\ answers = {}

Result(c) ==
  IF receipts[c.key] # None
  THEN IF receipts[c.key] = c.content THEN "duplicate" ELSE "idempotency_conflict"
  ELSE IF traces[TraceOf[c.content]] \in {None, c.content} THEN "accepted" ELSE "trace_conflict"

Commit(c) ==
  /\ answers' \in {answers, answers \cup {[command |-> c, result |-> Result(c)]}}
  /\ IF Result(c) = "accepted"
     THEN /\ receipts' = [receipts EXCEPT ![c.key] = c.content]
          /\ traces' = [traces EXCEPT ![TraceOf[c.content]] = c.content]
          /\ outbox' = outbox \cup {TraceOf[c.content]}
     ELSE UNCHANGED <<receipts, traces, outbox>>

Next == \E c \in Commands : Commit(c)

Spec == Init /\ [][Next]_vars
=============================================================================
