--------------------------- MODULE ContentProofs ----------------------------
(***************************************************************************)
(* The two stores whose rows are addressed by their content, one section   *)
(* each: the ingest ledger with its archive, and the vector channel with   *)
(* its embeddings.  Each is proved alone, from its own specification.      *)
(***************************************************************************)
EXTENDS Ingest, Vector, TLAPS

-----------------------------------------------------------------------------
(***************************************************************************)
(* The ingest ledger.  Its promises hold for any number of concurrent      *)
(* calls, keys, traces and faults.  The properties are not inductive       *)
(* alone: a commit uses what earlier steps of the same call established,   *)
(* so the invariant also says what a call in each phase may rely on.       *)
(***************************************************************************)

(* A call past the archive step has its blob stored; a call that plans to  *)
(* reuse a trace still finds that trace with its own content; a call that  *)
(* met a foreign trace still does.                                         *)
Grounded(r) ==
  /\ call[r].phase \in {"begin", "commit", "resolve"} => Content(r) \in blobs
  /\ call[r].phase = "commit" => \/ call[r].plan = "create"
                                 \/ traces[Trace(r)] = Content(r)
  /\ call[r].phase = "resolve" /\ call[r].error = "trace_conflict" =>
       traces[Trace(r)] \notin {None, Content(r)}

CallsGrounded == \A r \in Requests : Grounded(r)

TracesArchived ==
  \A t \in Traces : traces[t] # None => traces[t] \in blobs /\ TraceOf[traces[t]] = t

AcceptedCounted == \A k \in Keys : accepted[k] <= IF receipts[k] = None THEN 0 ELSE 1

IInv ==
  /\ TypeOK
  /\ CallsGrounded
  /\ TracesArchived
  /\ ReceiptComplete
  /\ AnswersTrue
  /\ AcceptedCounted
  /\ OneJobPerTrace

(* Initially the ledger is empty and no call is in progress.               *)
LEMMA InitInv == Init => IInv
BY IngestAssumption
   DEF Init, IInv, TypeOK, CallsGrounded, Grounded, TracesArchived, ReceiptComplete, AnswersTrue,
       AcceptedCounted, OneJobPerTrace, NoCall, Call, Phases, Plans, Errors

(* A call in progress carries a command, whose key, content and trace are  *)
(* values of the constants.                                                *)
LEMMA CommandTypes ==
  ASSUME TypeOK, NEW r \in Requests, call[r].phase # "idle"
  PROVE  /\ call[r].command \in Commands
         /\ Key(r) \in Keys /\ Content(r) \in Contents /\ Trace(r) \in Traces
         /\ Content(r) # None
BY IngestAssumption DEF TypeOK, Call, Key, Content, Trace

-----------------------------------------------------------------------------
(* The archive and the ledger only grow: a row, once there, is kept.       *)
Grows ==
  /\ blobs \subseteq blobs'
  /\ \A k \in Keys : receipts[k] # None => receipts'[k] = receipts[k]
  /\ \A t \in Traces : traces[t] # None => traces'[t] = traces[t] /\ jobs'[t] = jobs[t]

(* The steps that neither answer nor write the ledger.                     *)
Quiet == UNCHANGED <<ledger, answers, accepted>>

(* Every step keeps the types.                                             *)
LEMMA TypeStep == TypeOK /\ [Next]_vars => TypeOK'
<1> SUFFICES ASSUME TypeOK, [Next]_vars PROVE TypeOK'
  BY Zenon
<1>a. NoCall \in Call
  BY Zenon DEF NoCall, Call, Phases, Plans, Errors
<1>f. Fault => faults' \in 0..MaxFaults
  BY IngestAssumption DEF Fault, TypeOK
<1>1. ASSUME NEW r \in Requests, NEW c \in Commands, Ingest(r, c)
      PROVE  TypeOK'
  BY Zenon, <1>1, IngestAssumption DEF Ingest, TypeOK, Call, NoCall, Phases, Plans, Errors, ledger
<1>m. ASSUME NEW r \in Requests, call[r].phase # "idle", NEW phase \in Phases \ {"idle"},
             NEW plan \in Plans, NEW error \in Errors, Moves(r, phase, plan, error)
      PROVE  /\ call' \in [Requests -> Call]
             /\ \A q \in Requests : call'[q].command = None <=> call'[q].phase = "idle"
  BY Zenon, <1>m, CommandTypes DEF Moves, TypeOK, Call
<1>e. ASSUME NEW r \in Requests, Ends(r)
      PROVE  /\ call' \in [Requests -> Call]
             /\ \A q \in Requests : call'[q].command = None <=> call'[q].phase = "idle"
  BY Zenon, <1>e, <1>a DEF Ends, TypeOK, NoCall
<1>n. ASSUME NEW r \in Requests, call[r].phase # "idle", NEW result \in Results, Answer(r, result)
      PROVE  /\ answers' \in SUBSET [command : Commands, result : Results]
             /\ accepted' \in [Keys -> Nat]
  BY <1>n, CommandTypes DEF Answer, TypeOK
<1> HIDE DEF Answer
<1>2. ASSUME NEW r \in Requests, PutCanonical(r)
      PROVE  TypeOK'
  <2>1. call[r].phase # "idle"
    BY Zenon, <1>2 DEF PutCanonical
  <2>2. Moves(r, "begin", "none", "none") /\ blobs' \in SUBSET Contents
    BY Zenon, <1>2, <2>1, CommandTypes DEF PutCanonical, TypeOK
  <2>3. QED
    BY Zenon, <1>2, <1>m, <2>1, <2>2 DEF PutCanonical, TypeOK, ledger, Phases, Plans, Errors
<1>3. ASSUME NEW r \in Requests, PutFails(r)
      PROVE  TypeOK'
  <2>1. call[r].phase # "idle"
    BY Zenon, <1>3 DEF PutFails
  <2>2. Ends(r) /\ blobs' \in SUBSET Contents
    BY Zenon, <1>3, <2>1, CommandTypes DEF PutFails, TypeOK
  <2>3. QED
    BY Zenon, <1>3, <1>e, <1>f, <2>2 DEF PutFails, TypeOK, ledger
<1>4. ASSUME NEW r \in Requests, Begin(r)
      PROVE  TypeOK'
  <2>1. call[r].phase # "idle"
    BY Zenon, <1>4 DEF Begin
  <2>2. CASE receipts[Key(r)] # None /\ resolveExisting(r)
    <3>1. PICK result \in Results : Answer(r, result)
      BY Zenon, <2>2 DEF resolveExisting, Results
    <3>2. QED
      BY Zenon, <1>4, <1>e, <1>n, <2>1, <3>1 DEF Begin, Answer, TypeOK, ledger
  <2>3. CASE ~(receipts[Key(r)] # None /\ resolveExisting(r))
    <3>1. Plan(r).phase \in Phases \ {"idle"} /\ Plan(r).plan \in Plans /\ Plan(r).error \in Errors
      BY Zenon DEF Plan, Phases, Plans, Errors
    <3>2. Moves(r, Plan(r).phase, Plan(r).plan, Plan(r).error) /\ UNCHANGED <<answers, accepted>>
      BY Zenon, <1>4, <2>3 DEF Begin
    <3>3. /\ call' \in [Requests -> Call]
          /\ \A q \in Requests : call'[q].command = None <=> call'[q].phase = "idle"
      BY Zenon, <1>m, <2>1, <3>1, <3>2
    <3>4. QED
      BY Zenon, <1>4, <3>2, <3>3 DEF Begin, TypeOK, ledger
  <2>4. QED
    BY Zenon, <2>2, <2>3
<1>5. ASSUME NEW r \in Requests, Commit(r)
      PROVE  TypeOK'
  <2>1. call[r].phase # "idle"
    BY Zenon, <1>5 DEF Commit
  <2>2. /\ receipts' \in [Keys -> Contents \cup {None}]
        /\ traces' \in [Traces -> Contents \cup {None}]
        /\ jobs' \in [Traces -> Nat]
    BY <1>5, <2>1, CommandTypes DEF Commit, Create, TypeOK
  <2>3. CASE Answer(r, "accepted") /\ UNCHANGED faults
    BY Zenon, <1>5, <1>e, <1>n, <2>1, <2>2, <2>3 DEF Commit, Answer, TypeOK, Results
  <2>4. CASE Moves(r, "resolve", "none", "failed") /\ Fault /\ UNCHANGED <<answers, accepted>>
    BY Zenon, <1>5, <1>m, <1>f, <2>1, <2>2, <2>4 DEF Commit, TypeOK, Phases, Plans, Errors
  <2>5. QED
    BY Zenon, <1>5, <2>3, <2>4 DEF Commit
<1>6. ASSUME NEW r \in Requests, CommitConflicts(r)
      PROVE  TypeOK'
  <2>1. call[r].phase # "idle" /\ Moves(r, "resolve", "none", "conflict")
    BY Zenon, <1>6 DEF CommitConflicts
  <2>2. QED
    BY Zenon, <1>6, <1>m, <2>1 DEF CommitConflicts, TypeOK, ledger, Phases, Plans, Errors
<1>7. ASSUME NEW r \in Requests, CommitFails(r)
      PROVE  TypeOK'
  <2>1. call[r].phase # "idle" /\ Moves(r, "resolve", "none", "failed")
    BY Zenon, <1>7 DEF CommitFails
  <2>2. QED
    BY Zenon, <1>7, <1>m, <1>f, <2>1 DEF CommitFails, TypeOK, ledger, Phases, Plans, Errors
<1>8. ASSUME NEW r \in Requests, Resolve(r)
      PROVE  TypeOK'
  <2>1. call[r].phase # "idle"
    BY Zenon, <1>8 DEF Resolve
  <2>2. CASE \E result \in Results : Answer(r, result)
    <3>1. PICK result \in Results : Answer(r, result)
      BY Zenon, <2>2
    <3>2. QED
      BY Zenon, <1>8, <1>e, <1>n, <2>1, <3>1 DEF Resolve, Answer, TypeOK, ledger
  <2>3. CASE Moves(r, "begin", "none", "none") /\ UNCHANGED <<answers, accepted>>
    BY Zenon, <1>8, <1>m, <2>1, <2>3 DEF Resolve, TypeOK, ledger, Phases, Plans, Errors
  <2>4. CASE Ends(r) /\ UNCHANGED <<answers, accepted>>
    BY Zenon, <1>8, <1>e, <2>4 DEF Resolve, TypeOK, ledger
  <2>5. QED
    BY Zenon, <1>8, <2>2, <2>3, <2>4 DEF Resolve, resolveExisting, Results
<1>9. ASSUME NEW r \in Requests, Cancel(r)
      PROVE  TypeOK'
  BY Zenon, <1>9, <1>e, <1>f DEF Cancel, TypeOK, ledger
<1>10. CASE UNCHANGED vars
  BY Zenon, <1>10 DEF vars, ledger, TypeOK
<1>11. QED
  BY Zenon, <1>1, <1>2, <1>3, <1>4, <1>5, <1>6, <1>7, <1>8, <1>9, <1>10 DEF Next, Serve

-----------------------------------------------------------------------------
(* The ledger only grows, so a recorded content stays recorded.            *)
LEMMA RecordedKept ==
  ASSUME IInv, Grows, NEW c \in Contents, Recorded(c)
  PROVE  Recorded(c)'
BY IngestAssumption DEF IInv, TypeOK, Grows, Recorded

(* What a call that did not move relies on stays true.                     *)
LEMMA GroundedKept ==
  ASSUME IInv, Grows, NEW q \in Requests, call'[q] = call[q]
  PROVE  Grounded(q)'
<1>1. CASE call[q].phase = "idle"
  BY Zenon, <1>1 DEF Grounded
<1>2. CASE call[q].phase # "idle"
  <2>1. Content(q) \in Contents /\ Trace(q) \in Traces /\ Content(q) # None
    BY Zenon, <1>2, CommandTypes DEF IInv
  <2>2. Content(q)' = Content(q) /\ Trace(q)' = Trace(q)
    BY Zenon DEF Content, Trace
  <2>3. Grounded(q)
    BY Zenon DEF IInv, CallsGrounded
  <2> HIDE DEF Content, Trace
  <2>4. QED
    BY Zenon, <2>1, <2>2, <2>3 DEF Grounded, Grows
<1>3. QED
  BY Zenon, <1>1, <1>2

(* The answers already given stay true.                                    *)
LEMMA AnswersKept ==
  ASSUME IInv, Grows, NEW a \in answers
  PROVE  Holds(a.result, a.command.key, a.command.content)'
<1> DEFINE key == a.command.key
           content == a.command.content
<1>1. key \in Keys /\ content \in Contents /\ TraceOf[content] \in Traces /\ content # None
  BY Zenon, IngestAssumption DEF IInv, TypeOK
<1>2. a.result \in Results
  BY Zenon DEF IInv, TypeOK
<1>3. Holds(a.result, key, content)
  BY Zenon DEF IInv, AnswersTrue
<1> HIDE DEF key, content
<1>4. Recorded(content) => Recorded(content)'
  BY Zenon, <1>1, RecordedKept
<1>5. Holds(a.result, key, content)'
  BY Zenon, <1>1, <1>2, <1>3, <1>4 DEF Holds, Grows, Results
<1>6. QED
  BY Zenon, <1>5 DEF key, content

(* A step that leaves the ledger and the answers alone and moves one call  *)
(* to a phase it is entitled to keeps the invariant.                       *)
LEMMA QuietStep ==
  ASSUME IInv, TypeOK', Quiet, blobs \subseteq blobs',
         NEW r \in Requests, \A q \in Requests : q # r => call'[q] = call[q],
         Grounded(r)'
  PROVE  IInv'
<1>1. Grows
  BY Zenon DEF Grows, Quiet, ledger
<1>2. CallsGrounded'
  BY Zenon, <1>1, GroundedKept DEF CallsGrounded
<1>3. AnswersTrue'
  BY Zenon, <1>1, AnswersKept DEF Quiet, AnswersTrue
<1>4. TracesArchived' /\ AcceptedCounted' /\ OneJobPerTrace'
  BY Zenon DEF IInv, Quiet, ledger, TracesArchived, AcceptedCounted, OneJobPerTrace
<1>5. ReceiptComplete'
  BY Zenon DEF IInv, Quiet, ledger, ReceiptComplete, Recorded
<1>6. QED
  BY Zenon, <1>2, <1>3, <1>4, <1>5 DEF IInv

(* The same for a step that leaves the ledger alone and gives a true       *)
(* answer other than "accepted".                                           *)
LEMMA AnswerStep ==
  ASSUME IInv, TypeOK', UNCHANGED <<blobs, ledger>>,
         NEW r \in Requests, call[r].phase # "idle",
         NEW result \in Results \ {"accepted"}, Answer(r, result),
         result = "duplicate" => receipts[Key(r)] = Content(r),
         result = "idempotency_conflict" => receipts[Key(r)] \notin {None, Content(r)},
         result = "trace_conflict" => traces[Trace(r)] \notin {None, Content(r)}
  PROVE  IInv'
<1>1. Grows
  BY Zenon DEF Grows, ledger
<1>2. CallsGrounded'
  <2>1. \A q \in Requests : q # r => call'[q] = call[q]
    BY Zenon DEF Answer, Ends, IInv, TypeOK
  <2>2. call'[r] = NoCall
    BY Zenon DEF Answer, Ends, IInv, TypeOK
  <2>3. Grounded(r)'
    BY <2>2 DEF Grounded, NoCall
  <2>4. QED
    BY Zenon, <1>1, <2>1, <2>3, GroundedKept DEF CallsGrounded
<1>3. TracesArchived' /\ OneJobPerTrace'
  BY Zenon DEF IInv, ledger, TracesArchived, OneJobPerTrace
<1>4. ReceiptComplete'
  BY Zenon DEF IInv, ledger, ReceiptComplete, Recorded
<1>5. AcceptedCounted'
  BY Zenon DEF IInv, ledger, Answer, AcceptedCounted
<1>6. AnswersTrue'
  <2>1. Key(r) \in Keys /\ Content(r) # None
    BY Zenon, CommandTypes DEF IInv
  <2>2. result = "duplicate" => Recorded(Content(r))
    BY Zenon, <2>1 DEF IInv, ReceiptComplete
  <2>3. Holds(result, Key(r), Content(r))
    BY Zenon, <2>2 DEF Holds, Trace, Results
  <2>4. PICK c \in Commands : c = call[r].command
    BY Zenon, CommandTypes DEF IInv
  <2>5. Holds(result, c.key, c.content)'
    BY Zenon, <2>3, <2>4 DEF Holds, Recorded, ledger, Key, Content
  <2>6. answers' = answers \cup {[command |-> c, result |-> result]}
    BY Zenon, <2>4 DEF Answer
  <2>7. ASSUME NEW a \in answers'
        PROVE  Holds(a.result, a.command.key, a.command.content)'
    <3>1. CASE a \in answers
      BY Zenon, <1>1, <3>1, AnswersKept
    <3>2. CASE a = [command |-> c, result |-> result]
      BY Zenon, <2>5, <3>2
    <3>3. QED
      BY Zenon, <2>6, <3>1, <3>2
  <2>8. QED
    BY Zenon, <2>7 DEF AnswersTrue
<1>7. QED
  BY Zenon, <1>2, <1>3, <1>4, <1>5, <1>6 DEF IInv

(* The commit: the unique indexes make it an extension of the ledger, and  *)
(* what the call relies on makes the new receipt complete.                 *)
LEMMA CommitStep ==
  ASSUME IInv, TypeOK', NEW r \in Requests, Commit(r)
  PROVE  IInv'
<1>1. call[r].phase = "commit" /\ Unique(r) /\ Create(r) /\ blobs' = blobs
  BY Zenon DEF Commit
<1>p. PICK k \in Keys, c \in Contents, t \in Traces :
        k = Key(r) /\ c = Content(r) /\ t = Trace(r)
  BY Zenon, <1>1, CommandTypes DEF IInv
<1>2. k \in Keys /\ c \in Contents /\ t \in Traces /\ c # None /\ TraceOf[c] = t
  BY Zenon, <1>p, IngestAssumption DEF Trace
<1>3. c \in blobs /\ (call[r].plan = "create" \/ traces[t] = c)
  BY Zenon, <1>1, <1>p DEF IInv, CallsGrounded, Grounded
<1>4. /\ receipts[k] = None
      /\ receipts' = [receipts EXCEPT ![k] = c]
      /\ call[r].plan = "create" => /\ traces[t] = None
                                    /\ traces' = [traces EXCEPT ![t] = c]
                                    /\ jobs' = [jobs EXCEPT ![t] = @ + 1]
      /\ call[r].plan # "create" => traces' = traces /\ jobs' = jobs
  BY Zenon, <1>1, <1>p DEF Unique, Create
<1>t. /\ receipts \in [Keys -> Contents \cup {None}]
      /\ traces \in [Traces -> Contents \cup {None}]
      /\ jobs \in [Traces -> Nat]
      /\ accepted \in [Keys -> Nat]
      /\ call \in [Requests -> Call]
  BY Zenon DEF IInv, TypeOK
<1>5. PICK x \in Commands : x = call[r].command /\ x.key = k /\ x.content = c
  BY Zenon, <1>1, <1>p, CommandTypes DEF IInv, Key, Content
<1>6. \/ Answer(r, "accepted")
      \/ Moves(r, "resolve", "none", "failed") /\ UNCHANGED <<answers, accepted>>
  BY Zenon DEF Commit
<1>7. Content(r)' \in blobs' \/ call'[r].phase = "idle"
  BY <1>1, <1>p, <1>3, <1>6, <1>t DEF Answer, Moves, Ends, NoCall, Content
<1>8. /\ \A q \in Requests : q # r => call'[q] = call[q]
      /\ call'[r].phase \in {"idle", "resolve"} /\ call'[r].error # "trace_conflict"
  BY <1>6, <1>t DEF Answer, Moves, Ends, NoCall
<1>9. /\ accepted' \in {accepted, [accepted EXCEPT ![k] = @ + 1]}
      /\ answers' \in {answers, answers \cup {[command |-> x, result |-> "accepted"]}}
  BY Zenon, <1>p, <1>5, <1>6 DEF Answer
<1>10. Grows
  BY Zenon, <1>1, <1>2, <1>4, <1>t DEF Grows
<1>11. Recorded(c)'
  BY <1>1, <1>2, <1>3, <1>4, <1>t DEF Recorded, IInv, OneJobPerTrace
<1>12. CallsGrounded'
  <2>1. Grounded(r)'
    BY Zenon, <1>7, <1>8 DEF Grounded
  <2>2. QED
    BY Zenon, <1>8, <1>10, <2>1, GroundedKept DEF CallsGrounded
<1>13. TracesArchived'
  BY <1>1, <1>2, <1>3, <1>4, <1>t DEF IInv, TracesArchived
<1>14. OneJobPerTrace'
  BY <1>2, <1>4, <1>t DEF IInv, OneJobPerTrace
<1>15. ReceiptComplete'
  <2>1. ASSUME NEW h \in Keys, NEW d \in Contents, receipts'[h] = d
        PROVE  Recorded(d)'
    <3>1. CASE h = k
      BY Zenon, <1>2, <1>4, <1>11, <1>t, <2>1, <3>1
    <3>2. CASE h # k
      <4>1. receipts[h] = d /\ d # None
        BY Zenon, <1>4, <1>t, <2>1, <3>2, IngestAssumption
      <4>2. Recorded(d)
        BY Zenon, <4>1 DEF IInv, ReceiptComplete
      <4>3. QED
        BY Zenon, <1>10, <4>2, RecordedKept
    <3>3. QED
      BY Zenon, <3>1, <3>2
  <2>2. receipts' \in [Keys -> Contents \cup {None}]
    BY Zenon DEF TypeOK
  <2>3. QED
    BY Zenon, <2>1, <2>2 DEF ReceiptComplete, Recorded
<1>16. AcceptedCounted'
  BY <1>2, <1>4, <1>9, <1>t DEF IInv, AcceptedCounted
<1>17. AnswersTrue'
  <2>1. Holds("accepted", x.key, x.content)'
    BY Zenon, <1>2, <1>4, <1>5, <1>11, <1>t DEF Holds
  <2>2. ASSUME NEW a \in answers'
        PROVE  Holds(a.result, a.command.key, a.command.content)'
    <3>1. CASE a \in answers
      BY Zenon, <1>10, <3>1, AnswersKept
    <3>2. CASE a = [command |-> x, result |-> "accepted"]
      BY Zenon, <2>1, <3>2
    <3>3. QED
      BY Zenon, <1>9, <3>1, <3>2
  <2>3. QED
    BY Zenon, <2>2 DEF AnswersTrue
<1>18. QED
  BY Zenon, <1>12, <1>13, <1>14, <1>15, <1>16, <1>17 DEF IInv

-----------------------------------------------------------------------------
(* Every step preserves the inductive invariant: one case per action.      *)
LEMMA InvStep == IInv /\ [Next]_vars => IInv'
<1> SUFFICES ASSUME IInv, [Next]_vars PROVE IInv'
  BY Zenon
<1>t. TypeOK /\ TypeOK' /\ call \in [Requests -> Call]
  BY Zenon, TypeStep DEF IInv, TypeOK
<1>e. ASSUME NEW r \in Requests, Ends(r)
      PROVE  Grounded(r)' /\ \A q \in Requests : q # r => call'[q] = call[q]
  BY Zenon, <1>e, <1>t DEF Ends, Grounded, NoCall
<1>m. ASSUME NEW r \in Requests, NEW phase, NEW plan, NEW error, Moves(r, phase, plan, error)
      PROVE  /\ call'[r].phase = phase /\ call'[r].plan = plan /\ call'[r].error = error
             /\ Content(r)' = Content(r) /\ Trace(r)' = Trace(r)
             /\ \A q \in Requests : q # r => call'[q] = call[q]
  BY Zenon, <1>m, <1>t DEF Moves, Content, Trace
<1>r. ASSUME NEW r \in Requests, call[r].phase # "idle", receipts[Key(r)] # None,
             resolveExisting(r), UNCHANGED <<blobs, ledger>>
      PROVE  IInv'
  <2>1. CASE receipts[Key(r)] = Content(r)
    <3>1. Answer(r, "duplicate") /\ "duplicate" \in Results \ {"accepted"}
      BY Zenon, <1>r, <2>1 DEF resolveExisting, Results
    <3>2. QED
      BY Zenon, <1>r, <1>t, <2>1, <3>1, AnswerStep
  <2>2. CASE receipts[Key(r)] # Content(r)
    <3>1. Answer(r, "idempotency_conflict") /\ "idempotency_conflict" \in Results \ {"accepted"}
      BY Zenon, <1>r, <2>2 DEF resolveExisting, Results
    <3>2. QED
      BY Zenon, <1>r, <1>t, <2>2, <3>1, AnswerStep
  <2>3. QED
    BY Zenon, <2>1, <2>2
<1>1. ASSUME NEW r \in Requests, NEW c \in Commands, Ingest(r, c)
      PROVE  IInv'
  <2>1. Grounded(r)' /\ \A q \in Requests : q # r => call'[q] = call[q]
    BY Zenon, <1>1, <1>t DEF Ingest, Grounded, NoCall
  <2>2. Quiet /\ blobs \subseteq blobs'
    BY Zenon, <1>1 DEF Ingest, Quiet, ledger
  <2>3. QED
    BY Zenon, <1>t, <2>1, <2>2, QuietStep
<1>2. ASSUME NEW r \in Requests, PutCanonical(r)
      PROVE  IInv'
  <2>1. Quiet /\ blobs \subseteq blobs' /\ Content(r) \in blobs'
    BY Zenon, <1>2 DEF PutCanonical, Quiet, ledger
  <2>2. Moves(r, "begin", "none", "none")
    BY Zenon, <1>2 DEF PutCanonical
  <2>3. Grounded(r)'
    BY <1>m, <2>1, <2>2 DEF Grounded
  <2>4. QED
    BY Zenon, <1>m, <1>t, <2>1, <2>2, <2>3, QuietStep
<1>3. ASSUME NEW r \in Requests, PutFails(r)
      PROVE  IInv'
  <2>1. Quiet /\ blobs \subseteq blobs' /\ Ends(r)
    BY Zenon, <1>3 DEF PutFails, Quiet, ledger
  <2>2. QED
    BY Zenon, <1>e, <1>t, <2>1, QuietStep
<1>4. ASSUME NEW r \in Requests, Begin(r)
      PROVE  IInv'
  <2>1. call[r].phase = "begin" /\ UNCHANGED <<blobs, ledger>>
    BY Zenon, <1>4 DEF Begin
  <2>2. CASE receipts[Key(r)] # None /\ resolveExisting(r)
    BY Zenon, <1>r, <2>1, <2>2
  <2>3. CASE /\ Moves(r, Plan(r).phase, Plan(r).plan, Plan(r).error)
             /\ UNCHANGED <<answers, accepted>>
    <3>1. PICK phase, plan, error : /\ phase = Plan(r).phase /\ plan = Plan(r).plan
                                    /\ error = Plan(r).error
      BY Zenon
    <3>2. Moves(r, phase, plan, error)
      BY Zenon, <2>3, <3>1
    <3>3. /\ phase = "commit" => plan = "create" \/ traces[Trace(r)] = Content(r)
          /\ phase = "resolve" => traces[Trace(r)] \notin {None, Content(r)}
      BY Zenon, <3>1 DEF Plan
    <3>4. Content(r) \in blobs
      BY Zenon, <2>1 DEF IInv, CallsGrounded, Grounded
    <3>5. Grounded(r)'
      BY Zenon, <1>m, <2>1, <3>2, <3>3, <3>4 DEF Grounded, ledger
    <3>6. Quiet /\ blobs \subseteq blobs'
      BY Zenon, <2>1, <2>3 DEF Quiet
    <3>7. \A q \in Requests : q # r => call'[q] = call[q]
      BY Zenon, <1>m, <3>2
    <3>8. QED
      BY Zenon, <1>t, <3>5, <3>6, <3>7, QuietStep
  <2>4. QED
    BY Zenon, <1>4, <2>2, <2>3 DEF Begin
<1>5. ASSUME NEW r \in Requests, Commit(r)
      PROVE  IInv'
  BY Zenon, <1>5, <1>t, CommitStep
<1>6. ASSUME NEW r \in Requests, CommitConflicts(r) \/ CommitFails(r)
      PROVE  IInv'
  <2>1. Quiet /\ blobs \subseteq blobs' /\ call[r].phase \in {"begin", "commit"}
    BY Zenon, <1>6 DEF CommitConflicts, CommitFails, Quiet
  <2>2. PICK error \in {"conflict", "failed"} : Moves(r, "resolve", "none", error)
    BY Zenon, <1>6 DEF CommitConflicts, CommitFails
  <2>3. Content(r) \in blobs
    BY Zenon, <2>1 DEF IInv, CallsGrounded, Grounded
  <2>4. Grounded(r)'
    BY <1>m, <2>1, <2>2, <2>3 DEF Grounded
  <2>5. \A q \in Requests : q # r => call'[q] = call[q]
    BY Zenon, <1>m, <2>2
  <2>6. QED
    BY Zenon, <1>t, <2>1, <2>4, <2>5, QuietStep
<1>7. ASSUME NEW r \in Requests, Resolve(r)
      PROVE  IInv'
  <2>1. call[r].phase = "resolve" /\ UNCHANGED <<blobs, ledger>>
    BY Zenon, <1>7 DEF Resolve
  <2>2. Content(r) \in blobs /\ (call[r].error = "trace_conflict" =>
                                   traces[Trace(r)] \notin {None, Content(r)})
    BY Zenon, <2>1 DEF IInv, CallsGrounded, Grounded
  <2>3. CASE receipts[Key(r)] # None /\ resolveExisting(r)
    BY Zenon, <1>r, <2>1, <2>3
  <2>4. CASE call[r].error = "trace_conflict" /\ Answer(r, "trace_conflict")
    <3>1. "trace_conflict" \in Results \ {"accepted"} /\ call[r].phase # "idle"
      BY Zenon, <2>1 DEF Results
    <3>2. QED
      BY Zenon, <1>t, <2>1, <2>2, <2>4, <3>1, AnswerStep
  <2>5. CASE Moves(r, "begin", "none", "none") /\ UNCHANGED <<answers, accepted>>
    <3>1. Grounded(r)' /\ Quiet /\ blobs \subseteq blobs'
      BY Zenon, <1>m, <2>1, <2>2, <2>5 DEF Grounded, Quiet
    <3>2. \A q \in Requests : q # r => call'[q] = call[q]
      BY Zenon, <1>m, <2>5
    <3>3. QED
      BY Zenon, <1>t, <3>1, <3>2, QuietStep
  <2>6. CASE Ends(r) /\ UNCHANGED <<answers, accepted>>
    <3>1. Quiet /\ blobs \subseteq blobs'
      BY Zenon, <2>1, <2>6 DEF Quiet
    <3>2. QED
      BY Zenon, <1>e, <1>t, <2>6, <3>1, QuietStep
  <2>7. QED
    BY Zenon, <1>7, <2>3, <2>4, <2>5, <2>6 DEF Resolve
<1>8. ASSUME NEW r \in Requests, Cancel(r)
      PROVE  IInv'
  <2>1. Quiet /\ blobs \subseteq blobs' /\ Ends(r)
    BY Zenon, <1>8 DEF Cancel, Quiet
  <2>2. QED
    BY Zenon, <1>e, <1>t, <2>1, QuietStep
<1>9. CASE UNCHANGED vars
  BY Zenon, <1>9 DEF vars, ledger, IInv, TypeOK, CallsGrounded, Grounded, Content, Trace, TracesArchived,
              ReceiptComplete, Recorded, AnswersTrue, Holds, AcceptedCounted, OneJobPerTrace
<1>10. QED
  BY Zenon, <1>1, <1>2, <1>3, <1>4, <1>5, <1>6, <1>7, <1>8, <1>9 DEF Next, Serve

-----------------------------------------------------------------------------
(* The inductive invariant holds in every reachable state.                 *)
THEOREM Inductive == Spec => []IInv
BY InitInv, InvStep, PTL DEF Spec

(* Every variable keeps its type.                                          *)
THEOREM TypeCorrect == Spec => []TypeOK
<1>1. IInv => TypeOK
  BY Zenon DEF IInv
<1>2. QED
  BY <1>1, Inductive, PTL

(* A receipt in the ledger always names an archived, recorded trace with   *)
(* exactly one job (ingest/service.go:92-116, ingest.go:99-156).           *)
THEOREM ReceiptsAreComplete == Spec => []ReceiptComplete
<1>1. IInv => ReceiptComplete
  BY Zenon DEF IInv
<1>2. QED
  BY <1>1, Inductive, PTL

(* No later call makes an answer a client has received untrue              *)
(* (ingest.go:54-75).                                                      *)
THEOREM AnswersStayTrue == Spec => []AnswersTrue
<1>1. IInv => AnswersTrue
  BY Zenon DEF IInv
<1>2. QED
  BY <1>1, Inductive, PTL

(* One key is accepted at most once (ingest.go:58-66).                     *)
THEOREM KeysAcceptedOnce == Spec => []AcceptedOnce
<1>1. IInv => AcceptedOnce
  <2> SUFFICES ASSUME IInv, NEW k \in Keys PROVE accepted[k] <= 1
    BY Zenon DEF AcceptedOnce
  <2>1. accepted[k] \in Nat /\ accepted[k] <= (IF receipts[k] = None THEN 0 ELSE 1)
    BY Zenon DEF IInv, AcceptedCounted, TypeOK
  <2>2. QED
    BY <2>1
<1>2. QED
  BY <1>1, Inductive, PTL

(* One trace is enqueued exactly once (ingest.go:133-156).                 *)
THEOREM TracesEnqueuedOnce == Spec => []OneJobPerTrace
<1>1. IInv => OneJobPerTrace
  BY Zenon DEF IInv
<1>2. QED
  BY <1>1, Inductive, PTL

-----------------------------------------------------------------------------
(* What the ledger shows as answered and recorded.                         *)
Enqueued == {t \in Traces : jobs[t] # 0}

(* A step that neither answers nor writes is no step of the ledger.        *)
LEMMA QuietIsStutter == Quiet => UNCHANGED Ledger!vars
BY Zenon DEF Quiet, ledger, Ledger!vars

(* An answer given without writing is the ledger's answer to the command   *)
(* at that moment.                                                         *)
LEMMA AnswerIsCommit ==
  ASSUME IInv, UNCHANGED ledger, NEW r \in Requests, call[r].phase # "idle",
         NEW result \in Results \ {"accepted"}, Answer(r, result),
         result = "duplicate" => receipts[Key(r)] # None /\ receipts[Key(r)] = Content(r),
         result = "idempotency_conflict" => receipts[Key(r)] \notin {None, Content(r)},
         result = "trace_conflict" => /\ receipts[Key(r)] = None
                                      /\ traces[Trace(r)] \notin {None, Content(r)}
  PROVE  Ledger!Next
<1>1. PICK c \in Commands : c = call[r].command
  BY Zenon, CommandTypes DEF IInv
<1>2. Ledger!Result(c) = result
  BY Zenon, <1>1 DEF Ledger!Result, Results, Key, Content, Trace
<1>3. answers' = answers \cup {[command |-> c, result |-> result]}
  BY Zenon, <1>1 DEF Answer
<1>4. Ledger!Commit(c)
  BY Zenon, <1>2, <1>3 DEF Ledger!Commit, ledger, Results
<1>5. QED
  BY Zenon, <1>1, <1>4 DEF Ledger!Next

(* A committed transaction is the ledger's commit, whether or not its      *)
(* answer arrives: reusing a trace leaves it and its job as they are.      *)
LEMMA CommitIsCommit ==
  ASSUME IInv, NEW r \in Requests, Commit(r)
  PROVE  Ledger!Next
<1>1. call[r].phase = "commit" /\ Unique(r) /\ Create(r)
  BY Zenon DEF Commit
<1>2. PICK c \in Commands : c = call[r].command
  BY Zenon, <1>1, CommandTypes DEF IInv
<1>3. PICK t \in Traces : t = TraceOf[c.content]
  BY Zenon, IngestAssumption
<1>4. c.key \in Keys /\ c.content \in Contents /\ c.content # None
  BY Zenon, IngestAssumption
<1>5. Key(r) = c.key /\ Content(r) = c.content /\ Trace(r) = t
  BY Zenon, <1>2, <1>3 DEF Key, Content, Trace
<1>6. /\ receipts \in [Keys -> Contents \cup {None}]
      /\ traces \in [Traces -> Contents \cup {None}]
      /\ jobs \in [Traces -> Nat]
  BY Zenon DEF IInv, TypeOK
<1>7. /\ receipts[c.key] = None /\ traces[t] \in {None, c.content}
      /\ call[r].plan # "create" => traces[t] = c.content
  BY Zenon, <1>1, <1>5 DEF Unique, IInv, CallsGrounded, Grounded
<1>8. Ledger!Result(c) = "accepted"
  BY Zenon, <1>3, <1>7 DEF Ledger!Result
<1>9. receipts' = [receipts EXCEPT ![c.key] = c.content]
  BY Zenon, <1>1, <1>5 DEF Create
<1>10. traces' = [traces EXCEPT ![t] = c.content]
  BY Zenon, <1>1, <1>5, <1>6, <1>7 DEF Create
<1>11. Enqueued' = Enqueued \cup {t}
  <2>1. CASE call[r].plan = "create"
    BY <1>1, <1>5, <1>6, <2>1 DEF Create, Enqueued
  <2>2. CASE call[r].plan # "create"
    <3>1. jobs' = jobs /\ jobs[t] = 1
      BY Zenon, <1>1, <1>4, <1>7, <2>2 DEF Create, IInv, OneJobPerTrace
    <3>2. QED
      BY <3>1 DEF Enqueued
  <2>3. QED
    BY Zenon, <2>1, <2>2
<1>12. answers' \in {answers, answers \cup {[command |-> c, result |-> "accepted"]}}
  BY Zenon, <1>2 DEF Commit, Answer
<1>13. Ledger!Commit(c)
  BY Zenon, <1>3, <1>8, <1>9, <1>10, <1>11, <1>12 DEF Ledger!Commit, Enqueued
<1>14. QED
  BY Zenon, <1>13 DEF Ledger!Next

(* Every step is a step of the ledger or leaves it alone.                  *)
LEMMA StepIsLedgerStep ==
  ASSUME IInv, [Next]_vars
  PROVE  [Ledger!Next]_(Ledger!vars)
<1>r. ASSUME NEW r \in Requests, call[r].phase # "idle", receipts[Key(r)] # None,
             resolveExisting(r), UNCHANGED ledger
      PROVE  Ledger!Next
  <2>1. CASE receipts[Key(r)] = Content(r)
    <3>1. Answer(r, "duplicate") /\ "duplicate" \in Results \ {"accepted"}
      BY Zenon, <1>r, <2>1 DEF resolveExisting, Results
    <3>2. QED
      BY Zenon, <1>r, <2>1, <3>1, AnswerIsCommit
  <2>2. CASE receipts[Key(r)] # Content(r)
    <3>1. Answer(r, "idempotency_conflict") /\ "idempotency_conflict" \in Results \ {"accepted"}
      BY Zenon, <1>r, <2>2 DEF resolveExisting, Results
    <3>2. QED
      BY Zenon, <1>r, <2>2, <3>1, AnswerIsCommit
  <2>3. QED
    BY Zenon, <2>1, <2>2
<1>1. ASSUME NEW r \in Requests, Begin(r)
      PROVE  Quiet \/ Ledger!Next
  <2>1. call[r].phase # "idle" /\ UNCHANGED ledger
    BY Zenon, <1>1 DEF Begin
  <2>2. CASE receipts[Key(r)] # None /\ resolveExisting(r)
    BY Zenon, <1>r, <2>1, <2>2
  <2>3. CASE UNCHANGED <<answers, accepted>>
    BY Zenon, <2>1, <2>3 DEF Quiet
  <2>4. QED
    BY Zenon, <1>1, <2>2, <2>3 DEF Begin
<1>2. ASSUME NEW r \in Requests, Resolve(r)
      PROVE  Quiet \/ Ledger!Next
  <2>1. call[r].phase = "resolve" /\ UNCHANGED ledger
    BY Zenon, <1>2 DEF Resolve
  <2>2. CASE receipts[Key(r)] # None /\ resolveExisting(r)
    BY Zenon, <1>r, <2>1, <2>2
  <2>3. CASE /\ receipts[Key(r)] = None /\ call[r].error = "trace_conflict"
             /\ Answer(r, "trace_conflict")
    <3>1. traces[Trace(r)] \notin {None, Content(r)}
      BY Zenon, <2>1, <2>3 DEF IInv, CallsGrounded, Grounded
    <3>2. "trace_conflict" \in Results \ {"accepted"}
      BY Zenon DEF Results
    <3>3. QED
      BY Zenon, <2>1, <2>3, <3>1, <3>2, AnswerIsCommit
  <2>4. CASE UNCHANGED <<answers, accepted>>
    BY Zenon, <2>1, <2>4 DEF Quiet
  <2>5. QED
    BY Zenon, <1>2, <2>2, <2>3, <2>4 DEF Resolve
<1>3. ASSUME NEW r \in Requests, NEW c \in Commands, Ingest(r, c)
      PROVE  Quiet
  BY Zenon, <1>3 DEF Ingest, Quiet
<1>4. ASSUME NEW r \in Requests,
             \/ PutCanonical(r) \/ PutFails(r) \/ CommitConflicts(r) \/ CommitFails(r) \/ Cancel(r)
      PROVE  Quiet
  BY Zenon, <1>4 DEF PutCanonical, PutFails, CommitConflicts, CommitFails, Cancel, Quiet
<1>5. CASE UNCHANGED vars
  BY Zenon, <1>5 DEF vars, ledger, Ledger!vars
<1>6. CASE \E r \in Requests : Commit(r)
  BY Zenon, <1>6, CommitIsCommit
<1>7. CASE Next /\ ~ \E r \in Requests : Commit(r)
  BY Zenon, <1>1, <1>2, <1>3, <1>4, <1>7, QuietIsStutter DEF Next, Serve
<1>8. QED
  BY Zenon, <1>5, <1>6, <1>7

(* The database repository implements the atomic one, for any number of    *)
(* concurrent calls, conflicts, failures and retries                       *)
(* (store/surreal/ingest.go:48-156, store/memory/ingest.go:151-199).       *)
THEOREM LedgerIsAtomic == Spec => ImplementsIngestLedger
<1>1. Init => Ledger!Init
  BY Zenon DEF Init, Ledger!Init
<1>2. QED
  BY <1>1, StepIsLedgerStep, Inductive, PTL DEF Spec, Ledger!Spec, ImplementsIngestLedger

-----------------------------------------------------------------------------
(***************************************************************************)
(* The vector channel.  Whatever is indexed while a search is under way,   *)
(* its answer is the best current documents of the epoch it searched.      *)
(* What carries it is that documents are only added, each at a new epoch,  *)
(* so that what was current at an epoch stays so (Extends, JobFits).       *)
(***************************************************************************)

(* A document is the last of its version at or before an epoch.            *)
IsCurrent(d, epoch) ==
  /\ d.epoch <= epoch
  /\ \A e \in documents : e.version = d.version /\ e.epoch <= epoch => e.epoch <= d.epoch

(* Documents are published one at a time, each at a new epoch, so an epoch *)
(* has one document, a version that has documents at or before an epoch    *)
(* has a last one there, and so have all documents together.               *)
DocumentsFit ==
  /\ \A d \in documents : d.version \in Nat /\ d.epoch \in Nat \ {0}
  /\ \A d, e \in documents : d.epoch = e.epoch => d = e
  /\ \A n \in Nat : \A d \in documents : d.epoch <= n => \E e \in documents : e.version = d.version /\ IsCurrent(e, n)
  /\ documents # {} => \E d \in documents : \A e \in documents : e.epoch <= d.epoch

(* The vector stored for a text.                                           *)
HasVector(text, vector) == buildInput(text) \in DOMAIN values /\ values[buildInput(text)] = vector

(* A row of the index is of a document, with the vector stored for it.     *)
RowFits(r) ==
  /\ \E d \in documents : d.version = r.version /\ d.epoch = r.epoch /\ d.text = r.text
  /\ HasVector(r.text, r.vector)

(* A hit is of the document that is current at the epoch.                  *)
HitFits(h, vector, epoch) ==
  \E d \in documents :
    /\ d.version = h.version /\ IsCurrent(d, epoch)
    /\ buildInput(d.text) \in DOMAIN values
    /\ h.score = ExactScore(vector, values[buildInput(d.text)])

(* The hits of an answer: of different versions, the best first.           *)
HitsFit(hits, vector, epoch) ==
  /\ \A i \in DOMAIN hits : HitFits(hits[i], vector, epoch)
  /\ \A i, j \in DOMAIN hits : i < j => hits[i].version # hits[j].version /\ hits[i].score >= hits[j].score

(* The fields of a job.                                                    *)
JobShape(j) ==
  j = [pc |-> j.pc, kind |-> j.kind, text |-> j.text, version |-> j.version, epoch |-> j.epoch, input |-> j.input,
       vector |-> j.vector, rows |-> j.rows, hits |-> j.hits]

(* What a job has in hand, by phase.                                       *)
JobFits(j) ==
  /\ JobShape(j)
  /\ j.pc # "idle" =>
       /\ j.epoch \in Nat /\ \E d \in documents : j.epoch <= d.epoch
       /\ j.input = buildInput(j.text)
  /\ j.pc # "idle" /\ j.kind # "search" => \E d \in documents : d.version = j.version /\ d.epoch = j.epoch /\ d.text = j.text
  /\ j.pc \in {"put", "lookup"} => j.vector \in Quantizations
  /\ j.pc \in {"query", "validate", "index"} => HasVector(j.text, j.vector)
  /\ j.pc = "index" => j.kind # "search"
  /\ j.pc = "validate" => j.rows \subseteq index
  /\ j.pc = "done" /\ j.kind = "search" => HitsFit(j.hits, j.vector, j.epoch)

(* What the search side of the channel keeps.                              *)
SearchInv ==
  /\ DocumentsFit
  /\ \A i \in DOMAIN values : values[i] \in Quantizations
  /\ \A r \in index : RowFits(r)
  /\ tasks = [p \in Processes |-> tasks[p]]
  /\ \A p \in Processes : JobFits(tasks[p])

(* A provisioner defines before it records, the manifest before the        *)
(* generation.                                                             *)
ProvisionInv ==
  /\ \A p \in Provisioners :
       /\ provisioning[p] \in {"manifest", "generation"} => Range(Statements) \subseteq generation
       /\ provisioning[p] = "generation" => "manifest" \in generation
  /\ provisioning = [p \in Provisioners |-> provisioning[p]]
  /\ RecordedGenerationsAreComplete

(* The steps of provisioning keep its order, failures at every statement   *)
(* included (vector.go:48-114).                                            *)
LEMMA ProvisionStep ==
  ASSUME ProvisionInv, ProvisionNext PROVE ProvisionInv'
<1> USE DEF ProvisionInv, RecordedGenerationsAreComplete
<1>1. PICK p \in Provisioners :
        \/ FindGeneration(p) \/ DefineTable(p) \/ DefineTableFails(p) \/ RecordManifest(p) \/ RecordGeneration(p)
        \/ ProvisionFails(p) \/ ProvisionAgain(p)
  BY Zenon DEF ProvisionNext
<1>2. CASE FindGeneration(p) \/ ProvisionAgain(p)
  <2>1. PICK to : to \notin {"manifest", "generation"} /\ provisioning' = [provisioning EXCEPT ![p] = to] /\ UNCHANGED generation
    BY Zenon, <1>2 DEF FindGeneration, ProvisionAgain, Turn
  <2> QED  BY <2>1
<1>3. CASE DefineTable(p)
  <2>1. "generation" \notin Range(Statements)
    BY DEF Range, Statements
  <2> QED  BY <1>3, <2>1 DEF DefineTable, Turn
<1>4. CASE DefineTableFails(p)
  <2>1. PICK n \in 0 .. Len(Statements) : generation' = generation \union Range(SubSeq(Statements, 1, n))
    BY Zenon, <1>4 DEF DefineTableFails
  <2>2. "generation" \notin Range(SubSeq(Statements, 1, n))
    BY DEF Range, Statements
  <2> QED  BY <1>4, <2>1, <2>2 DEF DefineTableFails, Turn
<1>5. CASE RecordManifest(p) \/ RecordGeneration(p)
  BY <1>5 DEF RecordManifest, RecordGeneration, RecordStep, Turn
<1>6. CASE ProvisionFails(p)
  BY <1>6 DEF ProvisionFails
<1> QED  BY Zenon, <1>1, <1>2, <1>3, <1>4, <1>5, <1>6

(* Other steps leave provisioning alone.                                   *)
LEMMA ProvisionKept ==
  ASSUME ProvisionInv, UNCHANGED <<generation, provisioning>> PROVE ProvisionInv'
BY DEF ProvisionInv, RecordedGenerationsAreComplete

(* The epoch of the head is that of the last document.                     *)
LEMMA HeadIsLast ==
  ASSUME DocumentsFit
  PROVE  /\ HeadEpoch \in Nat
         /\ \A d \in documents : d.epoch <= HeadEpoch
         /\ HeadEpoch > 0 => \E d \in documents : d.epoch = HeadEpoch
<1>1. CASE documents = {}
  BY <1>1 DEF HeadEpoch
<1>2. CASE documents # {}
  <2> DEFINE E == {d.epoch : d \in documents}
  <2>1. PICK d \in documents : \A e \in documents : e.epoch <= d.epoch
    BY Zenon, <1>2 DEF DocumentsFit
  <2>2. d.epoch \in E /\ \A y \in E : d.epoch >= y
    BY <2>1
  <2>3. Max(E) \in E /\ \A y \in E : Max(E) >= y
    BY Zenon, <2>2 DEF Max
  <2>4. HeadEpoch = Max(E)
    BY Zenon, <1>2 DEF HeadEpoch
  <2> HIDE DEF E
  <2>5. HeadEpoch \in E /\ \A y \in E : HeadEpoch >= y
    BY Zenon, <2>3, <2>4
  <2> QED  BY <2>5 DEF E, DocumentsFit
<1> QED  BY Zenon, <1>1, <1>2

(* The epoch that currentDocumentEpochs finds is that of the current       *)
(* document.                                                               *)
LEMMA CurrentIsLast ==
  ASSUME DocumentsFit, NEW d \in documents, NEW n \in Nat
  PROVE  /\ IsCurrent(d, n) => currentDocumentEpoch(d.version, n) = d.epoch
         /\ currentDocumentEpoch(d.version, n) = d.epoch => IsCurrent(d, n)
<1> DEFINE Docs == {e \in documents : e.version = d.version /\ e.epoch <= n}
           E == {e.epoch : e \in Docs}
<1>0. \A x \in E : x \in Nat \ {0}
  BY DEF DocumentsFit
<1>1. ASSUME NEW e \in documents, e.version = d.version, IsCurrent(e, n)
      PROVE  currentDocumentEpoch(d.version, n) = e.epoch
  <2>1. e.epoch \in E /\ \A y \in E : e.epoch >= y
    BY <1>1 DEF IsCurrent
  <2>2. Max(E) \in E /\ \A y \in E : Max(E) >= y
    BY Zenon, <2>1 DEF Max
  <2>3. currentDocumentEpoch(d.version, n) = Max(E)
    BY Zenon, <2>1 DEF currentDocumentEpoch
  <2> HIDE DEF E
  <2>4. Max(E) = e.epoch
    <3> DEFINE m == Max(E)
    <3>1. m \in E /\ m >= e.epoch /\ e.epoch >= m
      BY Zenon, <2>1, <2>2
    <3> HIDE DEF m
    <3>2. m = e.epoch
      BY <1>0, <2>1, <3>1
    <3> QED  BY Zenon, <3>2 DEF m
  <2> QED  BY Zenon, <2>3, <2>4
<1>2. ASSUME currentDocumentEpoch(d.version, n) = d.epoch PROVE IsCurrent(d, n)
  <2>1. CASE E = {}
    <3>1. currentDocumentEpoch(d.version, n) = 0
      BY Zenon, <2>1 DEF currentDocumentEpoch
    <3> QED  BY <1>2, <3>1 DEF DocumentsFit
  <2>2. CASE E # {}
    <3>1. PICK f \in Docs : TRUE
      BY Zenon, <2>2
    <3>2. PICK e \in documents : e.version = d.version /\ IsCurrent(e, n)
      <4>1. f \in documents /\ f.version = d.version /\ f.epoch <= n
        BY Zenon, <3>1
      <4> QED  BY Zenon, <4>1 DEF DocumentsFit
    <3>3. e.epoch = d.epoch
      BY Zenon, <1>1, <1>2, <3>2
    <3> QED  BY Zenon, <3>2, <3>3 DEF DocumentsFit
  <2> QED  BY Zenon, <2>1, <2>2
<1> QED  BY Zenon, <1>1, <1>2

-----------------------------------------------------------------------------
(* What is stored stays.                                                   *)
Extends ==
  /\ documents' = documents /\ index \subseteq index'
  /\ \A i \in DOMAIN values : i \in DOMAIN values' /\ values'[i] = values[i]

(* What the index and the answers rest on outlives every further row and   *)
(* vector.                                                                 *)
LEMMA FactsKept ==
  ASSUME Extends
  PROVE  /\ \A text, vector : HasVector(text, vector) => HasVector(text, vector)'
         /\ \A r : RowFits(r) => RowFits(r)'
         /\ \A hits, vector, epoch : HitsFit(hits, vector, epoch) => HitsFit(hits, vector, epoch)'
<1>0. documents' = documents /\ \A d, epoch : IsCurrent(d, epoch)' <=> IsCurrent(d, epoch)
  BY Zenon DEF Extends, IsCurrent
<1>1. ASSUME NEW text, NEW vector, HasVector(text, vector) PROVE HasVector(text, vector)'
  BY Zenon, <1>1 DEF Extends, HasVector
<1>2. ASSUME NEW r, RowFits(r) PROVE RowFits(r)'
  BY Zenon, <1>0, <1>1, <1>2 DEF RowFits
<1>3. ASSUME NEW h, NEW vector, NEW epoch, HitFits(h, vector, epoch) PROVE HitFits(h, vector, epoch)'
  BY Zenon, <1>0, <1>3 DEF Extends, HitFits
<1>4. ASSUME NEW hits, NEW vector, NEW epoch, HitsFit(hits, vector, epoch) PROVE HitsFit(hits, vector, epoch)'
  BY Zenon, <1>3, <1>4 DEF HitsFit
<1> QED  BY Zenon, <1>1, <1>2, <1>4

(* So does what a job has in hand.                                         *)
LEMMA JobKept ==
  ASSUME Extends, NEW j, JobFits(j)
  PROVE  JobFits(j)'
<1>1. documents' = documents /\ index \subseteq index'
  BY Zenon DEF Extends
<1>2. j.rows \subseteq index => j.rows \subseteq index'
  BY Zenon, <1>1
<1> QED  BY Zenon, <1>1, <1>2, FactsKept DEF JobFits

(* And the documents are as they were.                                     *)
LEMMA DocumentsKept ==
  ASSUME Extends, DocumentsFit
  PROVE  DocumentsFit'
<1>0. documents' = documents /\ \A d, epoch : IsCurrent(d, epoch)' <=> IsCurrent(d, epoch)
  BY Zenon DEF Extends, IsCurrent
<1> QED  BY Zenon, <1>0 DEF DocumentsFit

(* One job changes, and what is stored stays.                              *)
LEMMA OneJobChanges ==
  ASSUME SearchInv, NEW p \in Processes, NEW j, Job(p, j), Extends, JobFits(j)',
         \A i \in DOMAIN values' : values'[i] \in Quantizations,
         \A r \in index' : RowFits(r)'
  PROVE  SearchInv'
<1>1. tasks' = [q \in Processes |-> IF q = p THEN j ELSE tasks[q]]
  BY Zenon DEF SearchInv, Job
<1>2. ASSUME NEW q \in Processes PROVE JobFits(tasks[q])'
  <2>1. PICK k : k = tasks'[q]
    BY Zenon
  <2>2. k = j \/ k = tasks[q]
    BY Zenon, <1>1, <2>1
  <2>3. JobFits(k)'
    BY Zenon, <2>2, JobKept DEF SearchInv
  <2> QED  BY Zenon, <2>1, <2>3
<1>3. tasks' = [q \in Processes |-> tasks'[q]]
  BY Zenon, <1>1
<1> QED  BY Zenon, <1>2, <1>3, DocumentsKept DEF SearchInv

(* A job that goes on: it keeps what it was asked.                         *)
GoesOn(j, pc, vector, found, hits) ==
  [pc |-> pc, kind |-> j.kind, text |-> j.text, version |-> j.version, epoch |-> j.epoch, input |-> j.input,
   vector |-> vector, rows |-> found, hits |-> hits]

(* The fields of a job of which one or two are replaced.                   *)
LEMMA JobUpdated ==
  ASSUME NEW j, JobShape(j), NEW x, NEW y
  PROVE  /\ [j EXCEPT !.pc = x] = GoesOn(j, x, j.vector, j.rows, j.hits)
         /\ [j EXCEPT !.vector = y, !.pc = x] = GoesOn(j, x, y, j.rows, j.hits)
         /\ [j EXCEPT !.pc = x, !.vector = y] = GoesOn(j, x, y, j.rows, j.hits)
         /\ [j EXCEPT !.pc = x, !.rows = y] = GoesOn(j, x, j.vector, y, j.hits)
<1>0. j = [pc |-> j.pc, kind |-> j.kind, text |-> j.text, version |-> j.version, epoch |-> j.epoch, input |-> j.input,
           vector |-> j.vector, rows |-> j.rows, hits |-> j.hits]
  BY Zenon DEF JobShape
<1>1. ASSUME NEW u, u = [j EXCEPT !.pc = x] PROVE u = GoesOn(j, x, j.vector, j.rows, j.hits)
  BY <1>0, <1>1 DEF GoesOn
<1>2. ASSUME NEW u, u = [j EXCEPT !.vector = y, !.pc = x] PROVE u = GoesOn(j, x, y, j.rows, j.hits)
  BY <1>0, <1>2 DEF GoesOn
<1>3. ASSUME NEW u, u = [j EXCEPT !.pc = x, !.vector = y] PROVE u = GoesOn(j, x, y, j.rows, j.hits)
  BY <1>0, <1>3 DEF GoesOn
<1>4. ASSUME NEW u, u = [j EXCEPT !.pc = x, !.rows = y] PROVE u = GoesOn(j, x, j.vector, y, j.hits)
  BY <1>0, <1>4 DEF GoesOn
<1> QED  BY Zenon, <1>1, <1>2, <1>3, <1>4

(* The same for the hits of a job.                                         *)
LEMMA JobRanked ==
  ASSUME NEW j, JobShape(j), NEW x, NEW y
  PROVE  [j EXCEPT !.pc = x, !.hits = y] = GoesOn(j, x, j.vector, j.rows, y)
<1>1. ASSUME NEW u, u = [j EXCEPT !.pc = x, !.hits = y] PROVE u = GoesOn(j, x, j.vector, j.rows, y)
  BY <1>1 DEF GoesOn, JobShape
<1> QED  BY Zenon, <1>1

(* A job that goes on fits if what its new phase needs is there.           *)
LEMMA JobGoesOn ==
  ASSUME NEW j, JobFits(j), j.pc # "idle", NEW x, NEW v, NEW found, NEW hits, x # "idle",
         x \in {"put", "lookup"} => v \in Quantizations,
         x \in {"query", "validate", "index"} => HasVector(j.text, v),
         x = "index" => j.kind # "search",
         x = "validate" => found \subseteq index,
         x = "done" /\ j.kind = "search" => HitsFit(hits, v, j.epoch)
  PROVE  JobFits(GoesOn(j, x, v, found, hits))
<1> DEFINE u == GoesOn(j, x, v, found, hits)
<1>1. /\ u.pc = x /\ u.kind = j.kind /\ u.text = j.text /\ u.version = j.version /\ u.epoch = j.epoch
      /\ u.input = j.input /\ u.vector = v /\ u.rows = found /\ u.hits = hits
  BY DEF GoesOn
<1>2. JobShape(u)
  BY Zenon, <1>1 DEF JobShape, GoesOn
<1> HIDE DEF u
<1>3. JobFits(u)
  BY Zenon, <1>1, <1>2 DEF JobFits
<1> QED  BY Zenon, <1>3 DEF u

(* A job goes on and nothing else changes.                                 *)
LEMMA OnlyJobChanges ==
  ASSUME SearchInv, NEW p \in Processes, NEW j, Job(p, j), JobFits(j), StoreUnchanged
  PROVE  SearchInv'
<1>1. values' = values /\ documents' = documents /\ index' = index
  BY Zenon DEF StoreUnchanged
<1>2. Extends
  BY Zenon, <1>1 DEF Extends
<1>3. JobFits(j)' /\ \A r \in index' : RowFits(r)'
  BY Zenon, <1>1, <1>2, JobKept, FactsKept DEF SearchInv
<1>4. \A i \in DOMAIN values' : values'[i] \in Quantizations
  BY Zenon, <1>1 DEF SearchInv
<1> QED  BY Zenon, <1>2, <1>3, <1>4, OneJobChanges

(* A job that only moves keeps all else.                                   *)
LEMMA JobEnds ==
  ASSUME SearchInv, NEW p \in Processes, NEW x, MovesTo(p, x)
  PROVE  Job(p, GoesOn(tasks[p], x, tasks[p].vector, tasks[p].rows, tasks[p].hits))
<1>1. JobShape(tasks[p])
  BY Zenon DEF SearchInv, JobFits
<1>2. tasks' = [tasks EXCEPT ![p] = [tasks[p] EXCEPT !.pc = x]]
  BY Zenon DEF MovesTo
<1> QED  BY Zenon, <1>1, <1>2, JobUpdated DEF Job

(* A process without a job has one that fits.                              *)
LEMMA IdleJob == JobFits(NoJob)
BY DEF JobFits, JobShape, NoJob

(* A job begins.                                                           *)
LEMMA StartsFit ==
  ASSUME SearchInv, NEW p \in Processes, SearchStart(p) \/ IndexStart(p)
  PROVE  SearchInv'
<1>0. StoreUnchanged /\ DocumentsFit /\ JobShape(NoJob)
  BY Zenon, IdleJob DEF SearchStart, IndexStart, SearchInv, JobFits
<1>1. CASE SearchStart(p)
  <2>1. PICK text \in SearchTexts :
          Job(p, [NoJob EXCEPT !.pc = IF buildInput(text) = <<>> THEN "failed" ELSE "get", !.kind = "search",
                               !.text = text, !.epoch = HeadEpoch, !.input = buildInput(text)])
    BY Zenon, <1>1 DEF SearchStart
  <2>2. PICK pc : pc = IF buildInput(text) = <<>> THEN "failed" ELSE "get"
    BY Zenon
  <2>3. PICK j : j = [NoJob EXCEPT !.pc = pc, !.kind = "search", !.text = text, !.epoch = HeadEpoch, !.input = buildInput(text)]
    BY Zenon
  <2>4. Job(p, j)
    BY Zenon, <2>1, <2>2, <2>3
  <2>5. HeadEpoch \in Nat /\ \E d \in documents : HeadEpoch <= d.epoch
    BY <1>0, <1>1, HeadIsLast DEF SearchStart
  <2>6. JobShape(j) /\ j.pc = pc /\ j.kind = "search" /\ j.text = text /\ j.epoch = HeadEpoch /\ j.input = buildInput(text)
    BY <1>0, <2>3 DEF JobShape
  <2>7. j.pc \notin {"put", "lookup", "query", "validate", "index", "done"}
    BY <2>2, <2>6
  <2>8. JobFits(j)
    BY Zenon, <2>5, <2>6, <2>7 DEF JobFits
  <2> QED  BY Zenon, <1>0, <2>4, <2>8, OnlyJobChanges
<1>2. CASE IndexStart(p)
  <2>1. PICK d \in documents :
          Job(p, [NoJob EXCEPT !.pc = "get", !.kind = "index", !.text = d.text, !.version = d.version,
                               !.epoch = d.epoch, !.input = buildInput(d.text)])
    BY Zenon, <1>2 DEF IndexStart
  <2>2. PICK j : j = [NoJob EXCEPT !.pc = "get", !.kind = "index", !.text = d.text, !.version = d.version,
                                   !.epoch = d.epoch, !.input = buildInput(d.text)]
    BY Zenon
  <2>3. Job(p, j)
    BY Zenon, <2>1, <2>2
  <2>4. d.epoch \in Nat /\ d.epoch <= d.epoch
    BY <1>0 DEF DocumentsFit
  <2>5. JobShape(j) /\ j.pc = "get" /\ j.kind = "index" /\ j.text = d.text /\ j.version = d.version /\ j.epoch = d.epoch
        /\ j.input = buildInput(d.text)
    BY <1>0, <2>2 DEF JobShape
  <2>6. j.pc \notin {"put", "lookup", "query", "validate", "index", "done"}
    BY <2>5
  <2>7. JobFits(j)
    BY Zenon, <2>4, <2>5, <2>6 DEF JobFits
  <2> QED  BY Zenon, <1>0, <2>3, <2>7, OnlyJobChanges
<1> QED  BY Zenon, <1>1, <1>2

(* A job that ends, or goes on to a phase that needs nothing new.          *)
LEMMA EndsFit ==
  ASSUME SearchInv, NEW p \in Processes, NEW x, MovesTo(p, x), StoreUnchanged, tasks[p].pc # "idle",
         x \in {"embed", "failed"} \/ (x = "lookup" /\ tasks[p].pc = "put")
  PROVE  SearchInv'
<1>1. PICK j : j = tasks[p]
  BY Zenon
<1>2. PICK u : u = GoesOn(j, x, j.vector, j.rows, j.hits)
  BY Zenon
<1>3. JobFits(j)
  BY Zenon, <1>1 DEF SearchInv
<1>4. x \in {"put", "lookup"} => j.vector \in Quantizations
  BY <1>1, <1>3 DEF JobFits
<1>5. x \notin {"idle", "query", "validate", "index", "done"}
  OBVIOUS
<1>6. JobFits(u)
  BY Zenon, <1>1, <1>2, <1>3, <1>4, <1>5, JobGoesOn
<1>7. Job(p, u)
  BY Zenon, <1>1, <1>2, JobEnds
<1> QED  BY Zenon, <1>6, <1>7, OnlyJobChanges

(* A job goes on with a vector that is stored for its text.                *)
LEMMA EmbeddedFits ==
  ASSUME SearchInv, NEW p \in Processes, NEW v, Embedded(p, v), tasks[p].pc # "idle",
         Extends, tasks[p].input \in DOMAIN values', values'[tasks[p].input] = v,
         \A i \in DOMAIN values' : values'[i] \in Quantizations, UNCHANGED index
  PROVE  SearchInv'
<1>1. PICK j : j = tasks[p]
  BY Zenon
<1>2. PICK x : x = IF j.kind = "search" THEN "query" ELSE "index"
  BY Zenon
<1>3. PICK u : u = GoesOn(j, x, v, j.rows, j.hits)
  BY Zenon
<1>4. JobFits(j) /\ JobShape(j)
  BY Zenon, <1>1 DEF SearchInv, JobFits
<1>5. Job(p, u)
  <2>1. Job(p, [j EXCEPT !.vector = v, !.pc = x])
    BY Zenon, <1>1, <1>2 DEF Embedded
  <2>2. [j EXCEPT !.vector = v, !.pc = x] = u
    BY Zenon, <1>3, <1>4, JobUpdated
  <2> QED  BY Zenon, <2>1, <2>2
<1>6. JobFits(j)' /\ \A r \in index' : RowFits(r)'
  BY Zenon, <1>4, JobKept, FactsKept DEF SearchInv
<1>7. HasVector(j.text, v)'
  BY Zenon, <1>1, <1>4 DEF JobFits, HasVector
<1>8. /\ u.pc = x /\ u.kind = j.kind /\ u.text = j.text /\ u.version = j.version /\ u.epoch = j.epoch
      /\ u.input = j.input /\ u.vector = v
  BY <1>3 DEF GoesOn
<1>9. JobShape(u)
  BY Zenon, <1>3, <1>8 DEF JobShape, GoesOn
<1>10. x \in {"query", "index"} /\ (x = "index" => j.kind # "search")
       /\ x \notin {"idle", "put", "lookup", "validate", "done"}
  BY Zenon, <1>2
<1>11. JobFits(u)'
  BY Zenon, <1>1, <1>6, <1>7, <1>8, <1>9, <1>10 DEF JobFits
<1> QED  BY Zenon, <1>5, <1>6, <1>11, OneJobChanges

(* The lookup and the creation of an embedding.                            *)
LEMMA GenerateFits ==
  ASSUME SearchInv, NEW p \in Processes, Get(p) \/ Embed(p) \/ Put(p) \/ PutCollides(p) \/ CreateFails(p) \/ PutLookup(p)
  PROVE  SearchInv'
<1> DEFINE j == tasks[p]
<1>0. JobFits(j) /\ JobShape(j) /\ \A i \in DOMAIN values : values[i] \in Quantizations
  BY Zenon DEF SearchInv, JobFits
<1>1. StoreUnchanged => Extends
  BY Zenon DEF StoreUnchanged, Extends
<1>2. ASSUME StoreUnchanged, Embedded(p, values[j.input]), j.input \in DOMAIN values, j.pc # "idle"
      PROVE  SearchInv'
  BY Zenon, <1>0, <1>1, <1>2, EmbeddedFits DEF StoreUnchanged
<1>3. CASE Get(p)
  <2>1. j.pc = "get" /\ StoreUnchanged
    BY Zenon, <1>3 DEF Get
  <2>2. (j.input \in DOMAIN values /\ Embedded(p, values[j.input])) \/ MovesTo(p, "embed")
    BY Zenon, <1>3 DEF Get
  <2> QED  BY Zenon, <1>2, <2>1, <2>2, EndsFit
<1>4. CASE Embed(p)
  <2>1. j.pc = "embed" /\ StoreUnchanged
    BY Zenon, <1>4 DEF Embed
  <2>2. PICK source \in Answers :
          IF NormalizeAndQuantize(source) = NoVector THEN MovesTo(p, "failed")
          ELSE Job(p, [j EXCEPT !.pc = "put", !.vector = NormalizeAndQuantize(source)])
    BY Zenon, <1>4 DEF Embed
  <2>3. CASE NormalizeAndQuantize(source) = NoVector
    BY Zenon, <2>1, <2>2, <2>3, EndsFit
  <2>4. CASE NormalizeAndQuantize(source) # NoVector
    <3>1. PICK v : v = NormalizeAndQuantize(source)
      BY Zenon
    <3>2. v \in Quantizations
      BY <2>4, <3>1 DEF Quantizations
    <3>3. PICK u : u = GoesOn(j, "put", v, j.rows, j.hits)
      BY Zenon
    <3>4. Job(p, u)
      BY Zenon, <1>0, <2>2, <2>4, <3>1, <3>3, JobUpdated
    <3>5. JobFits(u)
      BY Zenon, <1>0, <2>1, <3>2, <3>3, JobGoesOn
    <3> QED  BY Zenon, <2>1, <3>4, <3>5, OnlyJobChanges
  <2> QED  BY Zenon, <2>3, <2>4
<1>5. CASE PutCollides(p)
  BY Zenon, <1>5, EndsFit DEF PutCollides
<1>6. CASE PutLookup(p)
  <2>1. j.pc = "lookup" /\ StoreUnchanged
    BY Zenon, <1>6 DEF PutLookup
  <2>2. (j.input \in DOMAIN values /\ Embedded(p, values[j.input])) \/ MovesTo(p, "failed")
    BY Zenon, <1>6 DEF PutLookup
  <2> QED  BY Zenon, <1>2, <2>1, <2>2, EndsFit
<1>7. ASSUME j.pc = "put", j.input \notin DOMAIN values, Stored(p), UNCHANGED <<documents, index>>
      PROVE  /\ Extends /\ j.input \in DOMAIN values' /\ values'[j.input] = j.vector
             /\ \A i \in DOMAIN values' : values'[i] \in Quantizations
  <2>1. values' = [i \in DOMAIN values \union {j.input} |-> IF i = j.input THEN j.vector ELSE values[i]]
    BY Zenon, <1>7 DEF Stored
  <2>2. j.vector \in Quantizations
    BY <1>0, <1>7 DEF JobFits
  <2>3. DOMAIN values' = DOMAIN values \union {j.input}
        /\ \A i \in DOMAIN values \union {j.input} : values'[i] = IF i = j.input THEN j.vector ELSE values[i]
    BY Zenon, <2>1
  <2> QED  BY Zenon, <1>0, <1>7, <2>2, <2>3 DEF Extends
<1>8. CASE Put(p)
  <2>1. j.pc = "put" /\ j.input \notin DOMAIN values /\ Stored(p) /\ UNCHANGED <<documents, index>> /\ Embedded(p, j.vector)
    BY Zenon, <1>8 DEF Put
  <2> QED  BY Zenon, <1>7, <2>1, EmbeddedFits
<1>9. CASE CreateFails(p)
  <2>1. j.pc = "put" /\ MovesTo(p, "lookup") /\ UNCHANGED <<documents, index, generation, provisioning>>
        /\ (UNCHANGED values \/ (j.input \notin DOMAIN values /\ Stored(p)))
    BY Zenon, <1>9 DEF CreateFails
  <2>2. CASE UNCHANGED values
    <3>1. StoreUnchanged
      BY Zenon, <2>1, <2>2 DEF StoreUnchanged
    <3> QED  BY Zenon, <2>1, <3>1, EndsFit
  <2>3. CASE j.input \notin DOMAIN values /\ Stored(p)
    <3>1. Extends /\ \A i \in DOMAIN values' : values'[i] \in Quantizations
      BY Zenon, <1>7, <2>1, <2>3
    <3>2. PICK u : u = GoesOn(j, "lookup", j.vector, j.rows, j.hits)
      BY Zenon
    <3>3. Job(p, u)
      BY Zenon, <2>1, <3>2, JobEnds
    <3>4. j.vector \in Quantizations
      BY <1>0, <2>1 DEF JobFits
    <3>5. JobFits(u)
      BY Zenon, <1>0, <2>1, <3>2, <3>4, JobGoesOn
    <3>6. JobFits(u)' /\ \A r \in index' : RowFits(r)'
      BY Zenon, <2>1, <3>1, <3>5, JobKept, FactsKept DEF SearchInv
    <3> QED  BY Zenon, <3>1, <3>3, <3>6, OneJobChanges
  <2> QED  BY Zenon, <2>1, <2>2, <2>3
<1> QED  BY Zenon, <1>3, <1>4, <1>5, <1>6, <1>8, <1>9

(* A document's row is written with the vector stored for it.              *)
LEMMA IndexFits ==
  ASSUME SearchInv, NEW p \in Processes, PutVectorDocument(p)
  PROVE  SearchInv'
<1>1. PICK j : j = tasks[p]
  BY Zenon
<1>2. PICK made : made = [version |-> j.version, epoch |-> j.epoch, vector |-> j.vector, text |-> j.text]
  BY Zenon
<1>3. JobFits(j) /\ JobShape(j) /\ j.pc = "index"
  BY Zenon, <1>1 DEF SearchInv, JobFits, PutVectorDocument
<1>4. /\ values' = values /\ documents' = documents /\ generation' = generation /\ provisioning' = provisioning
      /\ (MovesTo(p, "failed") /\ UNCHANGED index) \/ (MovesTo(p, "done") /\ index' = index \union {made})
  BY Zenon, <1>1, <1>2 DEF PutVectorDocument
<1>5. CASE MovesTo(p, "failed") /\ UNCHANGED index
  BY Zenon, <1>1, <1>3, <1>4, <1>5, EndsFit DEF StoreUnchanged
<1>6. CASE MovesTo(p, "done") /\ index' = index \union {made}
  <2>1. Extends
    BY Zenon, <1>4, <1>6 DEF Extends
  <2>2. j.kind # "search" /\ HasVector(j.text, j.vector)
        /\ \E d \in documents : d.version = j.version /\ d.epoch = j.epoch /\ d.text = j.text
    BY <1>3 DEF JobFits
  <2>3. made.version = j.version /\ made.epoch = j.epoch /\ made.vector = j.vector /\ made.text = j.text
    BY <1>2
  <2>4. RowFits(made)
    BY Zenon, <2>2, <2>3 DEF RowFits
  <2>5. \A r \in index' : RowFits(r)'
    BY Zenon, <1>6, <2>1, <2>4, FactsKept DEF SearchInv
  <2>6. PICK u : u = GoesOn(j, "done", j.vector, j.rows, j.hits)
    BY Zenon
  <2>7. Job(p, u)
    BY Zenon, <1>1, <1>6, <2>6, JobEnds
  <2>8. JobFits(u)
    BY Zenon, <1>3, <2>2, <2>6, JobGoesOn
  <2>9. JobFits(u)' /\ \A i \in DOMAIN values' : values'[i] \in Quantizations
    BY Zenon, <1>4, <2>1, <2>8, JobKept DEF SearchInv
  <2> QED  BY Zenon, <2>1, <2>5, <2>7, <2>9, OneJobChanges
<1> QED  BY Zenon, <1>4, <1>5, <1>6

(* What the approximate index returns is rows of the index.                *)
LEMMA QueryFits ==
  ASSUME SearchInv, NEW p \in Processes, Query(p)
  PROVE  SearchInv'
<1>1. PICK j : j = tasks[p]
  BY Zenon
<1>2. PICK found \in SUBSET Candidates(p) : Job(p, [tasks[p] EXCEPT !.pc = "validate", !.rows = found])
  BY Zenon DEF Query
<1>3. JobFits(j) /\ JobShape(j) /\ j.pc = "query" /\ StoreUnchanged
  BY Zenon, <1>1 DEF SearchInv, JobFits, Query
<1>4. found \subseteq index /\ HasVector(j.text, j.vector)
  BY <1>2, <1>3 DEF Candidates, JobFits
<1>5. PICK u : u = GoesOn(j, "validate", j.vector, found, j.hits)
  BY Zenon
<1>6. [j EXCEPT !.pc = "validate", !.rows = found] = u
  BY Zenon, <1>3, <1>5, JobUpdated
<1>7. Job(p, u)
  BY Zenon, <1>1, <1>2, <1>6
<1>8. JobFits(u)
  BY Zenon, <1>3, <1>4, <1>5, JobGoesOn
<1> QED  BY Zenon, <1>3, <1>7, <1>8, OnlyJobChanges

(* A list of hits of a set that names a version once, the best first.      *)
RankedOf(hits, scored) ==
  /\ \A i \in DOMAIN hits : hits[i] \in scored
  /\ \A i, j \in DOMAIN hits : i < j => hits[i].version # hits[j].version /\ hits[i].score >= hits[j].score

(* What Search returns is such a list.                                     *)
LEMMA ListsAreRanked ==
  ASSUME NEW scored, \A h \in scored : h.version \in Nat /\ h.score \in Int, NEW all \in HitLists(BestHits(scored)),
         NEW hits, hits = Limited(all)
  PROVE  RankedOf(hits, scored)
<1>0. PICK best : best = BestHits(scored)
  BY Zenon
<1>1. all \in [1 .. Cardinality(best) -> best] /\ \A i, j \in DOMAIN all : i < j => HitBefore(all[i], all[j])
  BY Zenon, <1>0 DEF HitLists
<1>2. ASSUME NEW i \in DOMAIN all, NEW j \in DOMAIN all, i < j
      PROVE  all[i].version # all[j].version /\ all[i].score >= all[j].score
  <2>1. HitBefore(all[i], all[j]) /\ all[i] \in best /\ all[j] \in best
    BY Zenon, <1>1, <1>2
  <2> QED  BY <1>0, <2>1 DEF HitBefore, BestHits
<1>3. \A i \in DOMAIN all : all[i] \in scored
  BY Zenon, <1>0, <1>1 DEF BestHits
<1>4. HitLimit \in Nat /\ hits = IF Len(all) > HitLimit THEN SubSeq(all, 1, HitLimit) ELSE all
  BY Zenon, VectorAssumption DEF Limited
<1> QED  BY <1>2, <1>3, <1>4 DEF RankedOf

(* The rows that are taken are of the current documents.                   *)
LEMMA RankFits ==
  ASSUME SearchInv, NEW p \in Processes, RankHits(p)
  PROVE  SearchInv'
<1>1. PICK j : j = tasks[p]
  BY Zenon
<1>2. JobFits(j) /\ JobShape(j) /\ j.pc = "validate" /\ StoreUnchanged
  BY Zenon, <1>1 DEF SearchInv, JobFits, RankHits
<1>3. PICK scored : scored = {[version |-> r.version, score |-> ExactScore(tasks[p].vector, r.vector)] : r \in CurrentRows(p)}
  BY Zenon
<1>4. PICK all \in HitLists(BestHits(scored)) : Job(p, [tasks[p] EXCEPT !.pc = "done", !.hits = Limited(all)])
  BY Zenon, <1>3 DEF RankHits
<1>5. PICK hits : hits = Limited(all)
  BY Zenon
<1>6. Job(p, [j EXCEPT !.pc = "done", !.hits = hits])
  BY Zenon, <1>1, <1>4, <1>5
<1>7. j.rows \subseteq index /\ HasVector(j.text, j.vector) /\ j.epoch \in Nat
  BY <1>2 DEF JobFits
<1>8. j.vector \in Quantizations /\ DocumentsFit
  BY Zenon, <1>7 DEF SearchInv, HasVector
<1>9. ASSUME NEW h \in scored PROVE h.version \in Nat /\ h.score \in Int /\ HitFits(h, j.vector, j.epoch)
  <2>1. PICK r \in CurrentRows(p) : h = [version |-> r.version, score |-> ExactScore(j.vector, r.vector)]
    BY Zenon, <1>1, <1>3
  <2>2. r \in index /\ currentDocumentEpoch(r.version, j.epoch) = r.epoch
    BY Zenon, <1>1, <1>7, <2>1 DEF CurrentRows
  <2>3. RowFits(r)
    BY Zenon, <2>2 DEF SearchInv
  <2>4. PICK d \in documents : d.version = r.version /\ d.epoch = r.epoch /\ d.text = r.text
    BY Zenon, <2>3 DEF RowFits
  <2>5. IsCurrent(d, j.epoch) /\ d.version \in Nat
    BY Zenon, <1>7, <1>8, <2>2, <2>4, CurrentIsLast DEF DocumentsFit
  <2>6. h.version = r.version /\ h.score = ExactScore(j.vector, r.vector)
    BY <2>1
  <2>7. buildInput(d.text) \in DOMAIN values /\ values[buildInput(d.text)] = r.vector
    BY Zenon, <2>3, <2>4 DEF RowFits, HasVector
  <2>8. r.vector \in Quantizations
    BY Zenon, <2>7 DEF SearchInv
  <2>9. ExactScore(j.vector, r.vector) \in Int
    BY Zenon, <1>8, <2>8, VectorAssumption
  <2> QED  BY Zenon, <2>4, <2>5, <2>6, <2>7, <2>9 DEF HitFits
<1>10. RankedOf(hits, scored)
  <2>1. \A h \in scored : h.version \in Nat /\ h.score \in Int
    BY Zenon, <1>9
  <2> QED  BY Zenon, <1>4, <1>5, <2>1, ListsAreRanked
<1>11. HitsFit(hits, j.vector, j.epoch)
  BY Zenon, <1>9, <1>10 DEF HitsFit, RankedOf
<1>12. [j EXCEPT !.pc = "done", !.hits = hits] = GoesOn(j, "done", j.vector, j.rows, hits)
  BY Zenon, <1>2, JobRanked
<1>13. PICK u : u = GoesOn(j, "done", j.vector, j.rows, hits)
  BY Zenon
<1>14. Job(p, u)
  BY Zenon, <1>6, <1>12, <1>13
<1>15. JobFits(u)
  BY Zenon, <1>2, <1>11, <1>13, JobGoesOn
<1> QED  BY Zenon, <1>2, <1>14, <1>15, OnlyJobChanges

(* A document is published at a new epoch: what was current at an earlier  *)
(* one still is.                                                           *)
LEMMA PublishFits ==
  ASSUME SearchInv, Publish
  PROVE  SearchInv'
<1>1. PICK t \in DocumentTexts :
        documents' = documents \union {[version |-> t.version, epoch |-> HeadEpoch + 1, text |-> t.text]}
  BY Zenon DEF Publish
<1>2. PICK n : n = [version |-> t.version, epoch |-> HeadEpoch + 1, text |-> t.text]
  BY Zenon
<1>3. documents' = documents \union {n} /\ values' = values /\ index' = index /\ tasks' = tasks
  BY Zenon, <1>1, <1>2 DEF Publish
<1>4. DocumentsFit
  BY Zenon DEF SearchInv
<1>5. n.version \in Nat /\ n.epoch \in Nat \ {0} /\ \A d \in documents : d.epoch < n.epoch
  <2>1. t.version \in Nat
    BY Zenon, VectorAssumption
  <2>2. n.version = t.version /\ n.epoch = HeadEpoch + 1
    BY <1>2
  <2> QED  BY <1>4, <2>1, <2>2, HeadIsLast DEF DocumentsFit
<1>6. ASSUME NEW d \in documents, NEW e \in Nat, IsCurrent(d, e), e < n.epoch PROVE IsCurrent(d, e)'
  BY <1>3, <1>5, <1>6 DEF IsCurrent
<1>7. DocumentsFit'
  <2>1. \A d \in documents' : d.version \in Nat /\ d.epoch \in Nat \ {0}
    BY Zenon, <1>3, <1>4, <1>5 DEF DocumentsFit
  <2>2. \A d, e \in documents' : d.epoch = e.epoch => d = e
    BY <1>3, <1>4, <1>5 DEF DocumentsFit
  <2>3. ASSUME NEW k \in Nat, NEW d \in documents', d.epoch <= k
        PROVE  \E e \in documents' : e.version = d.version /\ IsCurrent(e, k)'
    <3>1. CASE k < n.epoch
      <4>1. d \in documents
        BY <1>3, <1>5, <2>3, <3>1
      <4>2. PICK e \in documents : e.version = d.version /\ IsCurrent(e, k)
        BY Zenon, <1>4, <2>3, <4>1 DEF DocumentsFit
      <4> QED  BY Zenon, <1>3, <1>6, <3>1, <4>2
    <3>2. CASE ~(k < n.epoch) /\ d.version = n.version
      <4>1. IsCurrent(n, k)'
        BY <1>3, <1>4, <1>5, <3>2 DEF IsCurrent, DocumentsFit
      <4> QED  BY Zenon, <1>3, <3>2, <4>1
    <3>3. CASE ~(k < n.epoch) /\ d.version # n.version
      <4>1. d \in documents
        BY Zenon, <1>3, <2>3, <3>3
      <4>2. PICK e \in documents : e.version = d.version /\ IsCurrent(e, k)
        BY Zenon, <1>4, <2>3, <4>1 DEF DocumentsFit
      <4>3. IsCurrent(e, k)'
        BY Zenon, <1>3, <3>3, <4>2 DEF IsCurrent
      <4> QED  BY Zenon, <1>3, <4>2, <4>3
    <3> QED  BY Zenon, <3>1, <3>2, <3>3
  <2>4. \E d \in documents' : \A e \in documents' : e.epoch <= d.epoch
    BY <1>3, <1>4, <1>5 DEF DocumentsFit
  <2> QED  BY Zenon, <2>1, <2>2, <2>3, <2>4 DEF DocumentsFit
<1>8. \A text, vector : HasVector(text, vector)' <=> HasVector(text, vector)
  BY Zenon, <1>3 DEF HasVector
<1>9. ASSUME NEW r, RowFits(r) PROVE RowFits(r)'
  BY Zenon, <1>3, <1>8, <1>9 DEF RowFits
<1>10. ASSUME NEW hits, NEW v, NEW e \in Nat, HitsFit(hits, v, e), \E d \in documents : e <= d.epoch PROVE HitsFit(hits, v, e)'
  <2>1. e < n.epoch
    BY <1>4, <1>5, <1>10 DEF DocumentsFit
  <2>2. ASSUME NEW h, HitFits(h, v, e) PROVE HitFits(h, v, e)'
    BY Zenon, <1>3, <1>6, <2>1, <2>2 DEF HitFits
  <2> QED  BY Zenon, <1>10, <2>2 DEF HitsFit
<1>11. ASSUME NEW j, JobFits(j) PROVE JobFits(j)'
  <2>1. j.pc # "idle" => (\E d \in documents' : j.epoch <= d.epoch)
    BY Zenon, <1>3, <1>11 DEF JobFits
  <2>2. j.pc # "idle" /\ j.kind # "search" => \E d \in documents' : d.version = j.version /\ d.epoch = j.epoch /\ d.text = j.text
    BY Zenon, <1>3, <1>11 DEF JobFits
  <2>3. j.pc = "done" /\ j.kind = "search" => HitsFit(j.hits, j.vector, j.epoch)'
    BY <1>10, <1>11 DEF JobFits
  <2> QED  BY Zenon, <1>3, <1>8, <1>11, <2>1, <2>2, <2>3 DEF JobFits
<1>12. ASSUME NEW p \in Processes PROVE JobFits(tasks[p])'
  <2>1. PICK j : j = tasks[p]
    BY Zenon
  <2>2. JobFits(j)' /\ j = tasks'[p]
    BY Zenon, <1>3, <1>11, <2>1 DEF SearchInv
  <2> QED  BY Zenon, <2>2
<1>13. \A r \in index' : RowFits(r)'
  BY Zenon, <1>3, <1>9 DEF SearchInv
<1>14. (\A i \in DOMAIN values' : values'[i] \in Quantizations) /\ tasks' = [p \in Processes |-> tasks'[p]]
  BY Zenon, <1>3 DEF SearchInv
<1> QED  BY Zenon, <1>7, <1>12, <1>13, <1>14 DEF SearchInv

(* Provisioning leaves documents, vectors, rows and jobs alone.            *)
LEMMA SearchKept ==
  ASSUME SearchInv, UNCHANGED <<values, documents, index, tasks>>
  PROVE  SearchInv'
<1>1. values' = values /\ documents' = documents /\ index' = index /\ tasks' = tasks
  BY Zenon
<1>2. Extends
  BY Zenon, <1>1 DEF Extends
<1>3. ASSUME NEW p \in Processes PROVE JobFits(tasks[p])'
  <2>1. PICK j : j = tasks[p]
    BY Zenon
  <2>2. JobFits(j)' /\ j = tasks'[p]
    BY Zenon, <1>1, <1>2, <2>1, JobKept DEF SearchInv
  <2> QED  BY Zenon, <2>2
<1>4. \A r \in index' : RowFits(r)'
  BY Zenon, <1>1, <1>2, FactsKept DEF SearchInv
<1>5. (\A i \in DOMAIN values' : values'[i] \in Quantizations) /\ tasks' = [p \in Processes |-> tasks'[p]]
  BY Zenon, <1>1 DEF SearchInv
<1> QED  BY Zenon, <1>2, <1>3, <1>4, <1>5, DocumentsKept DEF SearchInv

(* Every step of a search, of an indexing job or of the projection keeps   *)
(* the search side of the invariant.                                       *)
LEMMA SearchStep ==
  ASSUME SearchInv, SearchNext
  PROVE  SearchInv' /\ UNCHANGED <<generation, provisioning>>
<1>1. CASE Publish
  BY Zenon, <1>1, PublishFits DEF Publish
<1>2. ASSUME NEW p \in Processes,
             \/ SearchStart(p) \/ IndexStart(p) \/ Get(p) \/ Embed(p) \/ Put(p) \/ PutCollides(p) \/ CreateFails(p)
             \/ PutLookup(p) \/ PutVectorDocument(p) \/ Query(p) \/ RankHits(p) \/ StatementFails(p) \/ Finish(p)
      PROVE  SearchInv' /\ UNCHANGED <<generation, provisioning>>
  <2>1. CASE SearchStart(p) \/ IndexStart(p)
    BY Zenon, <2>1, StartsFit DEF SearchStart, IndexStart, StoreUnchanged
  <2>2. CASE Get(p) \/ Embed(p) \/ Put(p) \/ PutCollides(p) \/ CreateFails(p) \/ PutLookup(p)
    BY Zenon, <2>2, GenerateFits DEF Get, Embed, Put, PutCollides, CreateFails, PutLookup, StoreUnchanged
  <2>3. CASE PutVectorDocument(p) \/ Query(p) \/ RankHits(p)
    BY Zenon, <2>3, IndexFits, QueryFits, RankFits DEF PutVectorDocument, Query, RankHits, StoreUnchanged
  <2>4. CASE StatementFails(p)
    <3>1. MovesTo(p, "failed") /\ StoreUnchanged /\ tasks[p].pc # "idle"
      BY Zenon, <2>4 DEF StatementFails
    <3> QED  BY Zenon, <3>1, EndsFit DEF StoreUnchanged
  <2>5. CASE Finish(p)
    BY Zenon, <2>5, IdleJob, OnlyJobChanges DEF Finish, StoreUnchanged
  <2> QED  BY Zenon, <1>2, <2>1, <2>2, <2>3, <2>4, <2>5
<1> QED  BY Zenon, <1>1, <1>2 DEF SearchNext

(* The empty channel satisfies both parts.                                 *)
LEMMA VectorStart ==
  ASSUME VectorIdle PROVE SearchInv /\ ProvisionInv
<1>1. /\ DOMAIN values = {} /\ documents = {} /\ index = {} /\ generation = {} /\ tasks = [p \in Processes |-> NoJob]
      /\ provisioning = [p \in Provisioners |-> "idle"]
  BY DEF VectorIdle
<1>2. DocumentsFit
  BY Zenon, <1>1 DEF DocumentsFit
<1>3. SearchInv
  BY Zenon, <1>1, <1>2, IdleJob DEF SearchInv
<1>4. ProvisionInv
  BY <1>1 DEF ProvisionInv, RecordedGenerationsAreComplete
<1> QED  BY Zenon, <1>3, <1>4

(* Both parts hold always.                                                 *)
THEOREM VectorInvariant == VectorSpec => [](SearchInv /\ ProvisionInv)
<1>1. SearchInv /\ ProvisionInv /\ [SearchNext \/ ProvisionNext]_vvars => (SearchInv /\ ProvisionInv)'
  <2> SUFFICES ASSUME SearchInv, ProvisionInv, [SearchNext \/ ProvisionNext]_vvars PROVE SearchInv' /\ ProvisionInv'
    BY Zenon
  <2>1. CASE SearchNext
    BY Zenon, <2>1, SearchStep, ProvisionKept
  <2>2. CASE ProvisionNext
    <3>1. UNCHANGED <<values, documents, index, tasks>>
      BY Zenon, <2>2 DEF ProvisionNext, FindGeneration, DefineTable, DefineTableFails, RecordManifest, RecordGeneration,
                         RecordStep, ProvisionFails, ProvisionAgain, VectorsUnchanged
    <3> QED  BY Zenon, <2>2, <3>1, SearchKept, ProvisionStep
  <2>3. CASE UNCHANGED vvars
    BY Zenon, <2>3, SearchKept, ProvisionKept DEF vvars
  <2> QED  BY Zenon, <2>1, <2>2, <2>3
<1> QED  BY <1>1, VectorStart, PTL DEF VectorSpec

(* Hits that fit are of the snapshot: the current document of an epoch is  *)
(* the one the search compared with, however many were published since.    *)
LEMMA HitsOfSnapshot == ASSUME SearchInv PROVE HitsAreOfTheSnapshot
<1> SUFFICES ASSUME NEW p \in Processes, tasks[p].pc = "done", tasks[p].kind = "search"
             PROVE  LET hits == tasks[p].hits
                    IN  /\ \A i \in DOMAIN hits :
                             LET text == DocumentAt(hits[i].version, tasks[p].epoch).text
                             IN  /\ currentDocumentEpoch(hits[i].version, tasks[p].epoch) > 0
                                 /\ buildInput(text) \in DOMAIN values
                                 /\ hits[i].score = ExactScore(tasks[p].vector, values[buildInput(text)])
                        /\ \A i, j \in DOMAIN hits : i < j => hits[i].version # hits[j].version /\ hits[i].score >= hits[j].score
  BY Zenon DEF HitsAreOfTheSnapshot
<1> DEFINE j == tasks[p]
<1>1. JobFits(j) /\ DocumentsFit
  BY Zenon DEF SearchInv
<1>2. HitsFit(j.hits, j.vector, j.epoch) /\ j.epoch \in Nat
  BY Zenon, <1>1 DEF JobFits
<1>3. ASSUME NEW i \in DOMAIN j.hits
      PROVE  LET text == DocumentAt(j.hits[i].version, j.epoch).text
             IN  /\ currentDocumentEpoch(j.hits[i].version, j.epoch) > 0
                 /\ buildInput(text) \in DOMAIN values
                 /\ j.hits[i].score = ExactScore(j.vector, values[buildInput(text)])
  <2>1. PICK d \in documents :
          /\ d.version = j.hits[i].version /\ IsCurrent(d, j.epoch)
          /\ buildInput(d.text) \in DOMAIN values
          /\ j.hits[i].score = ExactScore(j.vector, values[buildInput(d.text)])
    BY Zenon, <1>2, <1>3 DEF HitsFit, HitFits
  <2>2. currentDocumentEpoch(j.hits[i].version, j.epoch) = d.epoch
    BY Zenon, <1>1, <1>2, <2>1, CurrentIsLast
  <2>3. d.epoch > 0
    BY <1>1 DEF DocumentsFit
  <2>4. DocumentAt(j.hits[i].version, j.epoch) = d
    <3>1. PICK e : e = DocumentAt(j.hits[i].version, j.epoch)
      BY Zenon
    <3>2. e \in documents /\ e.epoch = d.epoch
      BY Zenon, <2>1, <2>2, <3>1 DEF DocumentAt
    <3> QED  BY Zenon, <1>1, <3>1, <3>2 DEF DocumentsFit
  <2> QED  BY Zenon, <2>1, <2>2, <2>3, <2>4
<1> QED  BY Zenon, <1>2, <1>3 DEF HitsFit

(* Whatever is published, indexed and provisioned while searches run, and  *)
(* whichever statements fail: vectors in hand are the stored ones, answers *)
(* are of the documents that were current at the epoch they searched,      *)
(* ranked by the exact score, and a recorded generation is complete        *)
(* (service.go:116-160, vector.go:48-399).                                 *)
THEOREM VectorChannelSound == VectorSpec => []VectorChannelIsSound
<1>1. SearchInv => EmbeddingsAgree
  BY Zenon DEF SearchInv, JobFits, HasVector, EmbeddingsAgree
<1>2. SearchInv /\ ProvisionInv => VectorChannelIsSound
  BY Zenon, <1>1, HitsOfSnapshot DEF ProvisionInv, VectorChannelIsSound
<1> QED  BY <1>2, VectorInvariant, PTL
=============================================================================
