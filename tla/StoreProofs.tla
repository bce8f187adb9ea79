---------------------------- MODULE StoreProofs -----------------------------
(***************************************************************************)
(* Three repositories of the database, one section each: the outbox,       *)
(* schema migrations, and graph publications with rebuild activations.     *)
(* Each is proved alone, from its own specification, for every set of      *)
(* processes and jobs and however often a call fails.                      *)
(***************************************************************************)
EXTENDS Outbox, Migrations, Publications, TLAPS

-----------------------------------------------------------------------------
(***************************************************************************)
(* The outbox.  For any number of jobs and processes, any lease length and *)
(* any number of faults: one writer per row, completed rows were delivered,*)
(* and the outbox implements Delivery.                                     *)
(***************************************************************************)

(* A live dispatch works on an existing row with a token the row has       *)
(* already issued, and no two dispatches of one job share a token.         *)
TokensIssued ==
  \A p \in Processes, j \in Jobs :
    dispatch[p][j].phase # "none" =>
      row[j].state # "absent" /\ dispatch[p][j].token <= row[j].generation

TokensUnique ==
  \A j \in Jobs, p, q \in Processes :
    dispatch[p][j].phase # "none" /\ dispatch[q][j].phase # "none" /\ p # q
      => dispatch[p][j].token # dispatch[q][j].token

(* Only jobs that exist are sent, and success is reported after a start.   *)
SentExist == \A j \in Jobs : j \in requests => row[j].state # "absent"

ReportsStarted ==
  \A p \in Processes, j \in Jobs : dispatch[p][j].phase = "complete" => j \in started

IInv == TypeOK /\ TokensIssued /\ TokensUnique /\ SentExist /\ ReportsStarted /\ CompletedStarted

(* What the two ways a dispatch record changes do to every other record.   *)
LEMMA MovesPointwise ==
  ASSUME TypeOK, NEW p \in Processes, NEW j \in Jobs, NEW phase \in Phases, Moves(p, j, phase)
  PROVE  /\ dispatch' \in [Processes -> [Jobs -> Dispatch]]
         /\ \A q \in Processes, k \in Jobs :
              dispatch'[q][k] = IF q = p /\ k = j THEN [dispatch[p][j] EXCEPT !.phase = phase]
                                ELSE dispatch[q][k]
<1> DEFINE new == [dispatch[p][j] EXCEPT !.phase = phase]
<1>1. dispatch \in [Processes -> [Jobs -> Dispatch]] /\ dispatch[p][j] \in Dispatch
  BY Zenon DEF TypeOK
<1>2. new \in Dispatch
  BY Zenon, <1>1 DEF Dispatch
<1>3. dispatch' = [dispatch EXCEPT ![p] = [dispatch[p] EXCEPT ![j] = new]]
  BY Zenon DEF Moves
<1> HIDE DEF new
<1>4. [dispatch[p] EXCEPT ![j] = new] \in [Jobs -> Dispatch]
  BY Zenon, <1>1, <1>2
<1>5. dispatch' \in [Processes -> [Jobs -> Dispatch]]
  BY Zenon, <1>1, <1>3, <1>4
<1>6. \A q \in Processes, k \in Jobs :
        dispatch'[q][k] = IF q = p /\ k = j THEN new ELSE dispatch[q][k]
  BY Zenon, <1>1, <1>3, <1>4
<1> QED
  BY Zenon, <1>5, <1>6 DEF new

(* What Ends changes, seen from one process and one job.                   *)
LEMMA EndsPointwise ==
  ASSUME TypeOK, NEW p \in Processes, NEW j \in Jobs, Ends(p, j)
  PROVE  /\ dispatch' \in [Processes -> [Jobs -> Dispatch]]
         /\ \A q \in Processes, k \in Jobs :
              dispatch'[q][k] = IF q = p /\ k = j THEN NoDispatch ELSE dispatch[q][k]
<1>1. dispatch \in [Processes -> [Jobs -> Dispatch]]
  BY Zenon DEF TypeOK
<1>2. NoDispatch \in Dispatch
  BY Zenon DEF NoDispatch, Dispatch, Phases
<1>3. dispatch' = [dispatch EXCEPT ![p] = [dispatch[p] EXCEPT ![j] = NoDispatch]]
  BY Zenon DEF Ends
<1>4. [dispatch[p] EXCEPT ![j] = NoDispatch] \in [Jobs -> Dispatch]
  BY Zenon, <1>1, <1>2
<1> QED
  BY Zenon, <1>1, <1>3, <1>4
(* Every row the code writes is a row.                                     *)
LEMMA RowTypes ==
  ASSUME TypeOK, NEW j \in Jobs
  PROVE  /\ row[j] \in Row
         /\ \A p \in Processes : Leased(j, p) \in Row
         /\ CompletedRow(j) \in Row
         /\ \A target \in States, delay \in Nat : ReleasedRow(j, target, delay) \in Row
         /\ Aged(j) \in Row
<1>1. row[j] \in Row
  BY Zenon DEF TypeOK
<1>2. ASSUME NEW p \in Processes PROVE Leased(j, p) \in Row
  <2>1. row[j].generation + 1 \in Nat /\ row[j].attempts + 1 \in Nat
    BY <1>1 DEF Row
  <2>2. WorkerID[p] \in Owners \cup {"none"} /\ LeaseDuration \in Nat
    BY Zenon, OutboxAssumption
  <2> QED
    BY Zenon, <1>1, <2>1, <2>2 DEF Leased, Row, States
<1>3. CompletedRow(j) \in Row
  BY Zenon, <1>1 DEF CompletedRow, Row, States
<1>4. ASSUME NEW target \in States, NEW delay \in Nat PROVE ReleasedRow(j, target, delay) \in Row
  BY Zenon, <1>1 DEF ReleasedRow, Row
<1>5. Aged(j) \in Row
  <2>1. Before(row[j].expires) \in Nat /\ Before(row[j].available) \in Nat
    BY <1>1 DEF Row, Before
  <2> QED
    BY Zenon, <1>1, <2>1 DEF Aged, Row
<1> QED
  BY Zenon, <1>1, <1>2, <1>3, <1>4, <1>5

(* A counted fault stays within its bound.                                 *)
LEMMA FaultType == ASSUME TypeOK, Fault PROVE faults' \in 0..MaxFaults
  BY OutboxAssumption DEF TypeOK, Fault

(* Every action keeps every variable in its type.                          *)
LEMMA TypeStep == TypeOK /\ [Next]_vars => TypeOK'
<1> SUFFICES ASSUME TypeOK, [Next]_vars PROVE TypeOK'
  BY Zenon
<1>1. ASSUME NEW j \in Jobs, createOutbox(j) PROVE TypeOK'
  <2>1. [NoRow EXCEPT !.state = "pending"] \in Row
    BY Zenon DEF NoRow, Row, States
  <2> QED
    BY Zenon, <1>1, <2>1 DEF TypeOK, createOutbox
<1>2. ASSUME NEW j \in Jobs, TemporalStarts(j) PROVE TypeOK'
  BY Zenon, <1>2 DEF TypeOK, TemporalStarts
<1>3. ASSUME NEW p \in Processes, ClaimOutbox(p) PROVE TypeOK'
  <2>1. PICK batch \in Batches :
          /\ row' = [j \in Jobs |-> IF j \in batch THEN Leased(j, p) ELSE row[j]]
          /\ dispatch' = [dispatch EXCEPT ![p] =
               [j \in Jobs |-> IF j \in batch
                               THEN [phase |-> "start", token |-> row[j].generation + 1,
                                     attempt |-> row[j].attempts + 1]
                               ELSE NoDispatch]]
    BY Zenon, <1>3 DEF ClaimOutbox
  <2>2. row' \in [Jobs -> Row]
    BY Zenon, <2>1, RowTypes
  <2>3. dispatch' \in [Processes -> [Jobs -> Dispatch]]
    <3>1. ASSUME NEW j \in Jobs
          PROVE  [phase |-> "start", token |-> row[j].generation + 1,
                  attempt |-> row[j].attempts + 1] \in Dispatch
      <4>1. row[j] \in Row
        BY Zenon, RowTypes
      <4>2. row[j].generation + 1 \in Nat /\ row[j].attempts + 1 \in Nat
        BY <4>1 DEF Row
      <4> QED
        BY Zenon, <4>2 DEF Dispatch, Phases
    <3>2. NoDispatch \in Dispatch
      BY Zenon DEF NoDispatch, Dispatch, Phases
    <3> QED
      BY Zenon, <2>1, <3>1, <3>2 DEF TypeOK
  <2> QED
    BY Zenon, <1>3, <2>2, <2>3 DEF TypeOK, ClaimOutbox
<1>4. ASSUME NEW p \in Processes, Exit(p) PROVE TypeOK'
  BY Zenon, <1>4 DEF TypeOK, Exit
<1>5. ASSUME NEW p \in Processes, Crash(p) PROVE TypeOK'
  BY Zenon, <1>5, FaultType DEF TypeOK, Crash, NoDispatch, Dispatch, Phases
<1>6. ASSUME NEW p \in Processes, NEW j \in Jobs, Start(p, j) PROVE TypeOK'
  BY Zenon, <1>6, MovesPointwise DEF TypeOK, Start, Phases
<1>7. ASSUME NEW p \in Processes, NEW j \in Jobs, StartSucceeds(p, j) PROVE TypeOK'
  BY Zenon, <1>7, MovesPointwise DEF TypeOK, StartSucceeds, Phases
<1>8. ASSUME NEW p \in Processes, NEW j \in Jobs, StartFails(p, j) PROVE TypeOK'
  <2>1. PICK phase \in Phases : Moves(p, j, phase)
    BY Zenon, <1>8 DEF StartFails, Phases
  <2> QED
    BY Zenon, <1>8, <2>1, MovesPointwise, FaultType DEF TypeOK, StartFails
<1>9. ASSUME NEW p \in Processes, NEW j \in Jobs, CompleteOutbox(p, j) PROVE TypeOK'
  <2>1. row' \in [Jobs -> Row]
    BY Zenon, <1>9, RowTypes DEF TypeOK, CompleteOutbox
  <2>2. failing' \in [Processes -> BOOLEAN] /\ faults' \in 0..MaxFaults
    BY Zenon, <1>9, FaultType DEF TypeOK, CompleteOutbox, Fails
  <2> QED
    BY Zenon, <1>9, <2>1, <2>2, EndsPointwise DEF TypeOK, CompleteOutbox
<1>10. ASSUME NEW p \in Processes, NEW j \in Jobs, ReleaseOutbox(p, j) PROVE TypeOK'
  <2>1. PICK target \in States, delay \in Nat :
          row' = row \/ row' = [row EXCEPT ![j] = ReleasedRow(j, target, delay)]
    <3> DEFINE goal == Target(dispatch[p][j].phase)
               delays == IF goal = "dead_letter" THEN {0} ELSE RetryDelays(dispatch[p][j].attempt)
    <3>1. goal \in States
      BY Zenon DEF Target, States
    <3>2. delays \subseteq Nat
      BY OutboxAssumption DEF RetryDelays
    <3>3. PICK delay \in delays :
            row' = IF row[j].state = goal THEN row
                   ELSE [row EXCEPT ![j] = ReleasedRow(j, goal, delay)]
      BY Zenon, <1>10 DEF ReleaseOutbox
    <3> HIDE DEF goal, delays
    <3> QED
      BY Zenon, <3>1, <3>2, <3>3
  <2>2. row' \in [Jobs -> Row]
    BY <2>1, RowTypes DEF TypeOK
  <2>3. failing' \in [Processes -> BOOLEAN] /\ faults' \in 0..MaxFaults
    BY Zenon, <1>10, FaultType DEF TypeOK, ReleaseOutbox, Fails
  <2> QED
    BY Zenon, <1>10, <2>2, <2>3, EndsPointwise DEF TypeOK, ReleaseOutbox
<1>11. ASSUME NEW p \in Processes, NEW j \in Jobs, StaleLease(p, j) PROVE TypeOK'
  BY Zenon, <1>11, EndsPointwise DEF TypeOK, StaleLease, Fails
<1>12. ASSUME NEW p \in Processes, NEW j \in Jobs, TransitionFails(p, j) PROVE TypeOK'
  BY Zenon, <1>12, EndsPointwise, FaultType DEF TypeOK, TransitionFails, Fails
<1>13. ASSUME Tick PROVE TypeOK'
  <2>1. row' \in [Jobs -> Row]
    BY Zenon, <1>13, RowTypes DEF Tick
  <2> QED
    BY Zenon, <1>13, <2>1, FaultType DEF TypeOK, Tick
<1>14. CASE UNCHANGED vars
  BY Zenon, <1>14 DEF TypeOK, vars
<1> QED
  BY Zenon, <1>1, <1>2, <1>3, <1>4, <1>5, <1>6, <1>7, <1>8, <1>9, <1>10, <1>11, <1>12, <1>13, <1>14
     DEF Next, Handle
-----------------------------------------------------------------------------
(* A step that issues no token keeps the invariant when each dispatch that *)
(* is still alive keeps its token, and completion follows a start.         *)
Quiet ==
  /\ \A k \in Jobs : /\ row'[k].generation = row[k].generation
                     /\ row[k].state # "absent" => row'[k].state # "absent"
                     /\ row'[k].state = "completed" => k \in started'
  /\ \A q \in Processes, k \in Jobs :
       /\ dispatch'[q][k].phase # "none" =>
            dispatch[q][k].phase # "none" /\ dispatch'[q][k].token = dispatch[q][k].token
       /\ dispatch'[q][k].phase = "complete" => k \in started'
  /\ \A k \in requests' : k \in requests \/ \E q \in Processes : dispatch[q][k].phase # "none"

(* A step that issues no token and sends no request keeps the invariant.   *)
LEMMA QuietStep == IInv /\ TypeOK' /\ Quiet => IInv'
<1> SUFFICES ASSUME IInv, TypeOK', Quiet PROVE IInv'
  BY Zenon
<1>1. TokensIssued'
  BY Zenon DEF IInv, TokensIssued, Quiet
<1>2. TokensUnique'
  BY DEF IInv, TokensUnique, Quiet
<1>3. SentExist'
  BY Zenon DEF IInv, SentExist, TokensIssued, Quiet
<1>4. ReportsStarted' /\ CompletedStarted'
  BY Zenon DEF ReportsStarted, CompletedStarted, Quiet
<1> QED
  BY Zenon, <1>1, <1>2, <1>3, <1>4 DEF IInv

(* Each action keeps the invariant.  Claiming is the one that issues a     *)
(* token: it is larger than every token in use.                            *)
LEMMA InvStep == IInv /\ [Next]_vars => IInv'
<1> SUFFICES ASSUME IInv, [Next]_vars PROVE IInv'
  BY Zenon
<1>0. TypeOK /\ TypeOK'
  BY Zenon, TypeStep DEF IInv
<1>a. \A k \in Jobs : row[k] \in Row
  BY Zenon, <1>0 DEF TypeOK
<1>b. \A q \in Processes, k \in Jobs : dispatch[q][k] \in Dispatch
  BY Zenon, <1>0 DEF TypeOK
<1>c. /\ \A k \in Jobs : row[k].state = "completed" => k \in started
      /\ \A q \in Processes, k \in Jobs : dispatch[q][k].phase = "complete" => k \in started
  BY Zenon DEF IInv, CompletedStarted, ReportsStarted
<1>1. ASSUME NEW j \in Jobs, createOutbox(j) PROVE IInv'
  <2>1. /\ row'[j].state = "pending" /\ row[j].state = "absent"
        /\ \A k \in Jobs : k # j => row'[k] = row[k]
    BY Zenon, <1>1, <1>0 DEF createOutbox, TypeOK, NoRow
  <2>2. \A q \in Processes : dispatch[q][j].phase = "none"
    BY Zenon, <2>1 DEF IInv, TokensIssued
  <2>3. TokensIssued' /\ ReportsStarted' /\ TokensUnique'
    BY <1>1, <2>1, <2>2 DEF IInv, createOutbox, TokensIssued, TokensUnique, ReportsStarted
  <2>4. SentExist' /\ CompletedStarted'
    BY Zenon, <1>1, <2>1 DEF IInv, createOutbox, SentExist, CompletedStarted
  <2> QED
    BY Zenon, <1>0, <2>3, <2>4 DEF IInv
<1>2. ASSUME NEW j \in Jobs, TemporalStarts(j) PROVE IInv'
  <2>1. Quiet
    BY Zenon, <1>2, <1>c DEF TemporalStarts, Quiet
  <2> QED
    BY Zenon, <1>0, <2>1, QuietStep
<1>3. ASSUME NEW p \in Processes, ClaimOutbox(p) PROVE IInv'
  <2>1. PICK batch \in Batches :
          /\ row' = [j \in Jobs |-> IF j \in batch THEN Leased(j, p) ELSE row[j]]
          /\ dispatch' = [dispatch EXCEPT ![p] =
               [j \in Jobs |-> IF j \in batch
                               THEN [phase |-> "start", token |-> row[j].generation + 1,
                                     attempt |-> row[j].attempts + 1]
                               ELSE NoDispatch]]
    BY Zenon, <1>3 DEF ClaimOutbox
  <2>2. UNCHANGED <<requests, started>>
    BY Zenon, <1>3 DEF ClaimOutbox
  <2>3. ASSUME NEW k \in Jobs
        PROVE  /\ row'[k].generation = IF k \in batch THEN row[k].generation + 1 ELSE row[k].generation
               /\ row'[k].state = IF k \in batch THEN "leased" ELSE row[k].state
    BY Zenon, <1>a, <2>1 DEF Leased, Row
  <2>4. ASSUME NEW k \in Jobs
        PROVE  /\ dispatch'[p][k].phase = IF k \in batch THEN "start" ELSE "none"
               /\ k \in batch => dispatch'[p][k].token = row[k].generation + 1
    BY Zenon, <1>0, <2>1 DEF TypeOK, NoDispatch
  <2>5. ASSUME NEW q \in Processes, q # p, NEW k \in Jobs
        PROVE  dispatch'[q][k] = dispatch[q][k]
    BY Zenon, <1>0, <2>1, <2>5 DEF TypeOK
  <2>6. \A k \in Jobs : k \in batch => row[k].state # "absent"
    BY Zenon DEF Batches, Claimable
  <2>7. \A q \in Processes, k \in Jobs : q # p /\ dispatch[q][k].phase # "none"
          => dispatch[q][k].token < row[k].generation + 1 /\ row[k].state # "absent"
    BY <1>a, <1>b DEF IInv, TokensIssued, Row, Dispatch
  <2>8. \A k \in Jobs : row[k].generation \in Nat
    BY Zenon, <1>a DEF Row
  <2>9. TokensIssued'
    <3> SUFFICES ASSUME NEW q \in Processes, NEW k \in Jobs, dispatch'[q][k].phase # "none"
                 PROVE  row'[k].state # "absent" /\ dispatch'[q][k].token <= row'[k].generation
      BY Zenon DEF TokensIssued
    <3>1. CASE q = p
      BY <3>1, <2>3, <2>4, <2>8
    <3>2. CASE q # p
      <4>1. dispatch[q][k].token \in Nat
        BY Zenon, <1>b DEF Dispatch
      <4> QED
        BY <3>2, <4>1, <2>3, <2>5, <2>7, <2>8 DEF IInv, TokensIssued
    <3> QED
      BY Zenon, <3>1, <3>2
  <2>10. TokensUnique'
    <3> SUFFICES ASSUME NEW k \in Jobs, NEW q \in Processes, NEW r \in Processes, q # r,
                        dispatch'[q][k].phase # "none", dispatch'[r][k].phase # "none"
                 PROVE  dispatch'[q][k].token # dispatch'[r][k].token
      BY Zenon DEF TokensUnique
    <3>0. dispatch[q][k].token \in Nat /\ dispatch[r][k].token \in Nat
      BY Zenon, <1>b DEF Dispatch
    <3>1. CASE q = p
      BY <3>0, <3>1, <2>4, <2>5, <2>7, <2>8
    <3>2. CASE r = p
      BY <3>0, <3>2, <2>4, <2>5, <2>7, <2>8
    <3>3. CASE q # p /\ r # p
      BY <3>3, <2>5 DEF IInv, TokensUnique
    <3> QED
      BY Zenon, <3>1, <3>2, <3>3
  <2>11. SentExist'
    BY Zenon, <2>2, <2>3 DEF IInv, SentExist
  <2>12. ReportsStarted'
    BY Zenon, <2>2, <2>4, <2>5 DEF IInv, ReportsStarted
  <2>13. CompletedStarted'
    BY Zenon, <2>2, <2>3 DEF IInv, CompletedStarted
  <2> QED
    BY Zenon, <1>0, <2>9, <2>10, <2>11, <2>12, <2>13 DEF IInv
<1>4. ASSUME NEW p \in Processes, Exit(p) PROVE IInv'
  <2>1. Quiet
    BY Zenon, <1>4, <1>c DEF Exit, Quiet
  <2> QED
    BY Zenon, <1>0, <2>1, QuietStep
<1>5. ASSUME NEW p \in Processes, Crash(p) PROVE IInv'
  <2>1. \A q \in Processes, k \in Jobs :
          dispatch'[q][k] = IF q = p THEN NoDispatch ELSE dispatch[q][k]
    BY Zenon, <1>0, <1>5 DEF Crash, TypeOK
  <2>2. Quiet
    BY <1>5, <1>c, <2>1 DEF Crash, Quiet, NoDispatch
  <2> QED
    BY Zenon, <1>0, <2>2, QuietStep
<1>6. ASSUME NEW p \in Processes, NEW j \in Jobs, Start(p, j) PROVE IInv'
  <2>1. \A q \in Processes, k \in Jobs :
          dispatch'[q][k] = IF q = p /\ k = j THEN [dispatch[p][j] EXCEPT !.phase = "sent"]
                            ELSE dispatch[q][k]
    <3>1. "sent" \in Phases /\ Moves(p, j, "sent")
      BY Zenon, <1>6 DEF Start, Phases
    <3> QED
      BY <1>0, <3>1, MovesPointwise
  <2>2. Quiet
    BY <1>6, <1>b, <1>c, <2>1 DEF Start, Quiet, Dispatch
  <2> QED
    BY Zenon, <1>0, <2>2, QuietStep
<1>7. ASSUME NEW p \in Processes, NEW j \in Jobs, StartSucceeds(p, j) PROVE IInv'
  <2>1. \A q \in Processes, k \in Jobs :
          dispatch'[q][k] = IF q = p /\ k = j THEN [dispatch[p][j] EXCEPT !.phase = "complete"]
                            ELSE dispatch[q][k]
    <3>1. "complete" \in Phases /\ Moves(p, j, "complete")
      BY Zenon, <1>7 DEF StartSucceeds, Phases
    <3> QED
      BY <1>0, <3>1, MovesPointwise
  <2>2. Quiet
    BY <1>7, <1>b, <1>c, <2>1 DEF StartSucceeds, Quiet, Dispatch
  <2> QED
    BY Zenon, <1>0, <2>2, QuietStep
<1>8. ASSUME NEW p \in Processes, NEW j \in Jobs, StartFails(p, j) PROVE IInv'
  <2>1. PICK phase \in {"dead", "retry"} : Moves(p, j, phase)
    BY Zenon, <1>8 DEF StartFails
  <2>2. \A q \in Processes, k \in Jobs :
          dispatch'[q][k] = IF q = p /\ k = j THEN [dispatch[p][j] EXCEPT !.phase = phase]
                            ELSE dispatch[q][k]
    <3>1. phase \in Phases
      BY Zenon DEF Phases
    <3> QED
      BY <1>0, <2>1, <3>1, MovesPointwise
  <2>3. Quiet
    BY <1>8, <1>b, <1>c, <2>2 DEF StartFails, Quiet, Dispatch
  <2> QED
    BY Zenon, <1>0, <2>3, QuietStep
<1>9. ASSUME NEW p \in Processes, NEW j \in Jobs, CompleteOutbox(p, j) PROVE IInv'
  <2>1. \A q \in Processes, k \in Jobs :
          dispatch'[q][k] = IF q = p /\ k = j THEN NoDispatch ELSE dispatch[q][k]
    BY <1>0, <1>9, EndsPointwise DEF CompleteOutbox
  <2>2. \A k \in Jobs : /\ row'[k].generation = row[k].generation
                        /\ row'[k].state = row[k].state \/ (k = j /\ row'[k].state = "completed")
    BY <1>0, <1>9, <1>a DEF CompleteOutbox, CompletedRow, TypeOK, Row
  <2>3. j \in started /\ UNCHANGED <<requests, started>>
    BY Zenon, <1>9, <1>c DEF CompleteOutbox
  <2>4. Quiet
    BY <1>c, <2>1, <2>2, <2>3 DEF Quiet, NoDispatch
  <2> QED
    BY Zenon, <1>0, <2>4, QuietStep
<1>10. ASSUME NEW p \in Processes, NEW j \in Jobs, ReleaseOutbox(p, j) PROVE IInv'
  <2>1. \A q \in Processes, k \in Jobs :
          dispatch'[q][k] = IF q = p /\ k = j THEN NoDispatch ELSE dispatch[q][k]
    BY Zenon, <1>0, <1>10, EndsPointwise DEF ReleaseOutbox
  <2>2. PICK target, delay :
          /\ target \in {"pending", "dead_letter"}
          /\ row' = row \/ row' = [row EXCEPT ![j] = ReleasedRow(j, target, delay)]
    BY <1>10 DEF ReleaseOutbox, Target
  <2>3. \A k \in Jobs : /\ row'[k].generation = row[k].generation
                        /\ row'[k].state = row[k].state \/ row'[k].state \in {"pending", "dead_letter"}
    <3> DEFINE new == ReleasedRow(j, target, delay)
    <3>1. new.generation = row[j].generation /\ new.state \in {"pending", "dead_letter"}
      BY Zenon, <1>a, <2>2 DEF ReleasedRow, Row
    <3>2. \A k \in Jobs : row'[k] = row[k] \/ (k = j /\ row'[k] = new)
      BY Zenon, <1>0, <2>2 DEF TypeOK
    <3> HIDE DEF new
    <3> QED
      BY Zenon, <3>1, <3>2
  <2>4. UNCHANGED <<requests, started>>
    BY Zenon, <1>10 DEF ReleaseOutbox
  <2>5. Quiet
    BY <1>c, <2>1, <2>3, <2>4 DEF Quiet, NoDispatch
  <2> QED
    BY Zenon, <1>0, <2>5, QuietStep
<1>11. ASSUME NEW p \in Processes, NEW j \in Jobs, StaleLease(p, j) \/ TransitionFails(p, j)
       PROVE  IInv'
  <2>1. \A q \in Processes, k \in Jobs :
          dispatch'[q][k] = IF q = p /\ k = j THEN NoDispatch ELSE dispatch[q][k]
    BY <1>0, <1>11, EndsPointwise DEF StaleLease, TransitionFails
  <2>2. Quiet
    BY <1>11, <1>c, <2>1 DEF StaleLease, TransitionFails, Quiet, NoDispatch
  <2> QED
    BY Zenon, <1>0, <2>2, QuietStep
<1>12. ASSUME Tick PROVE IInv'
  <2>1. \A k \in Jobs : row'[k].generation = row[k].generation /\ row'[k].state = row[k].state
    BY Zenon, <1>12, <1>a DEF Tick, Aged, Row
  <2>2. Quiet
    BY Zenon, <1>12, <1>c, <2>1 DEF Tick, Quiet
  <2> QED
    BY Zenon, <1>0, <2>2, QuietStep
<1>13. CASE UNCHANGED vars
  <2>1. Quiet
    BY Zenon, <1>13, <1>c DEF vars, Quiet
  <2> QED
    BY Zenon, <1>0, <2>1, QuietStep
<1> QED
  BY Zenon, <1>1, <1>2, <1>3, <1>4, <1>5, <1>6, <1>7, <1>8, <1>9, <1>10, <1>11, <1>12, <1>13
     DEF Next, Handle
-----------------------------------------------------------------------------
(* An empty outbox satisfies the invariant.                                *)
LEMMA InitInv == Init => IInv
<1> SUFFICES ASSUME Init PROVE IInv
  BY Zenon
<1>1. NoRow \in Row /\ NoRow.state = "absent"
  BY Zenon DEF NoRow, Row, States
<1>2. NoDispatch \in Dispatch /\ NoDispatch.phase = "none"
  BY Zenon DEF NoDispatch, Dispatch, Phases
<1>3. TypeOK
  BY <1>1, <1>2, OutboxAssumption DEF Init, TypeOK
<1>4. TokensIssued /\ TokensUnique /\ SentExist /\ ReportsStarted /\ CompletedStarted
  BY Zenon, <1>1, <1>2 DEF Init, TokensIssued, TokensUnique, SentExist, ReportsStarted, CompletedStarted
<1> QED
  BY Zenon, <1>3, <1>4 DEF IInv

(* Every state of the outbox satisfies the inductive invariant, whatever   *)
(* leases expire, relays crash and answers are lost (outbox.go, relay.go). *)
THEOREM Inductive == Spec => []IInv
<1> QED
  BY InitInv, InvStep, PTL DEF Spec

(* Every variable keeps its type whatever happens.                         *)
THEOREM TypeCorrect == Spec => []TypeOK
<1>1. IInv => TypeOK
  BY Zenon DEF IInv
<1> QED
  BY <1>1, Inductive, PTL

(* Fencing: whatever the number of processes, and even if all were given   *)
(* one worker ID, no two of them can write the row of one job.             *)
THEOREM FencingHolds == Spec => []SingleWriter
<1>1. IInv => SingleWriter
  BY DEF IInv, TokensUnique, SingleWriter, Holds, Authorised
<1> QED
  BY <1>1, Inductive, PTL

(* A completed row names a workflow that Temporal has started.             *)
THEOREM CompletionIsDelivery == Spec => []CompletedStarted
<1>1. IInv => CompletedStarted
  BY Zenon DEF IInv
<1> QED
  BY <1>1, Inductive, PTL
-----------------------------------------------------------------------------
(* A step that changes no row's status and starts nothing maps to a        *)
(* stutter of Delivery.                                                    *)
LEMMA SameStatus ==
  ASSUME \A k \in Jobs : Status(row'[k].state) = Status(row[k].state), started' = started
  PROVE  UNCHANGED D!dvars
  BY Zenon DEF D!dvars

(* The status of the rows after one row is written.                        *)
LEMMA StatusUpdate ==
  ASSUME NEW j \in Jobs, NEW s, Status(row'[j].state) = s, \A k \in Jobs : k # j => row'[k] = row[k]
  PROVE  [k \in Jobs |-> Status(row'[k].state)] = [[k \in Jobs |-> Status(row[k].state)] EXCEPT ![j] = s]
  BY Zenon

(* Each step of the outbox is a step of Delivery or leaves it unchanged.   *)
LEMMA DeliveryStep == IInv /\ [Next]_vars => [D!DNext]_(D!dvars)
<1> SUFFICES ASSUME IInv, [Next]_vars PROVE [D!DNext]_(D!dvars)
  BY Zenon
<1>0. TypeOK
  BY Zenon DEF IInv
<1>a. \A k \in Jobs : row[k] \in Row
  BY Zenon, <1>0 DEF TypeOK
<1>1. ASSUME NEW j \in Jobs, createOutbox(j) PROVE D!Record(j)
  <2>1. row'[j].state = "pending" /\ row[j].state = "absent" /\ \A k \in Jobs : k # j => row'[k] = row[k]
    BY Zenon, <1>1, <1>0 DEF createOutbox, TypeOK, NoRow
  <2> QED
    <3>1. Status(row[j].state) = "absent" /\ Status(row'[j].state) = "open"
      BY Zenon, <2>1 DEF Status
    <3> QED
      BY Zenon, <1>1, <2>1, <3>1, StatusUpdate DEF D!Record, createOutbox
<1>2. ASSUME NEW j \in Jobs, TemporalStarts(j) PROVE D!Accept(j)
  <2>1. row[j].state \in States \ {"absent"}
    BY Zenon, <1>2, <1>a DEF IInv, SentExist, TemporalStarts, Row
  <2> QED
    BY <1>2, <2>1 DEF D!Accept, Status, TemporalStarts, States
<1>3. ASSUME NEW p \in Processes, ClaimOutbox(p) PROVE UNCHANGED D!dvars
  <2>1. PICK batch \in Batches :
          row' = [j \in Jobs |-> IF j \in batch THEN Leased(j, p) ELSE row[j]]
    BY Zenon, <1>3 DEF ClaimOutbox
  <2>2. ASSUME NEW k \in Jobs PROVE Status(row'[k].state) = Status(row[k].state)
    <3>1. CASE k \in batch
      <4>1. row[k].state \in {"pending", "leased"}
        BY Zenon, <3>1 DEF Batches, Claimable
      <4>2. row'[k].state = "leased"
        BY Zenon, <2>1, <3>1, <1>a DEF Leased, Row
      <4> QED
        BY Zenon, <4>1, <4>2 DEF Status
    <3>2. CASE k \notin batch
      BY Zenon, <2>1, <3>2
    <3> QED
      BY Zenon, <3>1, <3>2
  <2>3. started' = started
    BY Zenon, <1>3 DEF ClaimOutbox
  <2> QED
    BY Zenon, <2>2, <2>3, SameStatus
<1>4. ASSUME NEW p \in Processes, NEW j \in Jobs, CompleteOutbox(p, j) PROVE [D!DNext]_(D!dvars)
  <2>1. j \in started /\ started' = started
    BY Zenon, <1>4 DEF IInv, ReportsStarted, CompleteOutbox
  <2>2. CASE row[j].state = "completed"
    BY Zenon, <1>4, <2>1, <2>2, SameStatus DEF CompleteOutbox
  <2>3. CASE row[j].state # "completed"
    <3>1. row[j].state = "leased" /\ row' = [row EXCEPT ![j] = CompletedRow(j)]
      BY Zenon, <1>4, <2>3 DEF CompleteOutbox
    <3>2. row'[j].state = "completed" /\ \A k \in Jobs : k # j => row'[k] = row[k]
      BY Zenon, <3>1, <1>0, <1>a DEF CompletedRow, TypeOK, Row
    <3>3. D!Settle(j)
      <4>1. Status(row[j].state) = "open" /\ Status(row'[j].state) = "delivered"
        BY Zenon, <3>1, <3>2 DEF Status
      <4> QED
        BY Zenon, <2>1, <3>2, <4>1, StatusUpdate DEF D!Settle
    <3> QED
      BY Zenon, <3>3 DEF D!DNext
  <2> QED
    BY Zenon, <2>2, <2>3
<1>5. ASSUME NEW p \in Processes, NEW j \in Jobs, ReleaseOutbox(p, j) PROVE [D!DNext]_(D!dvars)
  <2> DEFINE target == Target(dispatch[p][j].phase)
  <2>1. started' = started /\ target \in {"pending", "dead_letter"} /\ row[j].state \in {target, "leased"}
    BY Zenon, <1>5 DEF ReleaseOutbox, Target
  <2>2. PICK delay : row' = IF row[j].state = target THEN row
                            ELSE [row EXCEPT ![j] = ReleasedRow(j, target, delay)]
    BY Zenon, <1>5 DEF ReleaseOutbox
  <2> HIDE DEF target
  <2>3. CASE row[j].state = target
    BY Zenon, <2>1, <2>2, <2>3, SameStatus
  <2>4. CASE row[j].state # target
    <3>1. row[j].state = "leased"
      BY Zenon, <2>1, <2>4
    <3>2. row'[j].state = target /\ \A k \in Jobs : k # j => row'[k] = row[k]
      <4>1. ReleasedRow(j, target, delay).state = target
        BY Zenon, <1>a DEF ReleasedRow, Row
      <4> QED
        BY Zenon, <2>2, <2>4, <4>1, <1>0 DEF TypeOK
    <3>3. CASE target = "pending"
      <4>1. \A k \in Jobs : Status(row'[k].state) = Status(row[k].state)
        BY Zenon, <3>1, <3>2, <3>3 DEF Status
      <4> QED
        BY Zenon, <4>1, <2>1, SameStatus
    <3>4. CASE target = "dead_letter"
      <4>1. D!Settle(j)
        <5>1. Status(row[j].state) = "open" /\ Status(row'[j].state) = "abandoned"
          BY Zenon, <3>1, <3>2, <3>4 DEF Status
        <5> QED
          BY Zenon, <2>1, <3>2, <5>1, StatusUpdate DEF D!Settle
      <4> QED
        BY Zenon, <4>1 DEF D!DNext
    <3> QED
      BY Zenon, <2>1, <3>3, <3>4
  <2> QED
    BY Zenon, <2>3, <2>4
<1>6. ASSUME Tick PROVE UNCHANGED D!dvars
  <2>1. \A k \in Jobs : row'[k].state = row[k].state
    BY Zenon, <1>6, <1>a DEF Tick, Aged, Row
  <2> QED
    BY Zenon, <1>6, <2>1, SameStatus DEF Tick
<1>7. ASSUME row' = row, started' = started PROVE UNCHANGED D!dvars
  BY Zenon, <1>7, SameStatus
<1>8. CASE UNCHANGED vars
  BY Zenon, <1>8, <1>7 DEF vars
<1>9. ASSUME NEW p \in Processes, NEW j \in Jobs,
             \/ Start(p, j) \/ StartSucceeds(p, j) \/ StartFails(p, j)
             \/ StaleLease(p, j) \/ TransitionFails(p, j)
      PROVE  UNCHANGED D!dvars
  BY Zenon, <1>7, <1>9 DEF Start, StartSucceeds, StartFails, StaleLease, TransitionFails
<1>10. ASSUME NEW p \in Processes, Exit(p) \/ Crash(p) PROVE UNCHANGED D!dvars
  BY Zenon, <1>7, <1>10 DEF Exit, Crash
<1> QED
  BY Zenon, <1>1, <1>2, <1>3, <1>4, <1>5, <1>6, <1>8, <1>9, <1>10 DEF Next, Handle, D!DNext

(* The outbox, for every value of its constants, implements Delivery: one  *)
(* record, one settlement, and delivered only if started.                  *)
THEOREM OutboxImplementsDelivery == Spec => Delivers
<1>1. Init => D!DInit
  BY DEF Init, D!DInit, NoRow, Status
<1> QED
  BY <1>1, Inductive, DeliveryStep, PTL DEF Spec, Delivers, D!DSpec

-----------------------------------------------------------------------------
(***************************************************************************)
(* Migrations.  Whatever migrations the replicas' binaries hold: the       *)
(* schema is that of one binary, and a replica that came up has its own    *)
(* migrations in it.                                                       *)
(*                                                                         *)
(* Neither is inductive alone.  What carries them is that a replica at a   *)
(* version has read every earlier one with its own checksum (Behind), and  *)
(* that rows are never changed, so that what it read still holds.          *)
(***************************************************************************)

MigratorStates ==
  [pc : {"down", "loop", "refresh", "apply", "verify", "ready", "failed"},
   at : Nat, known : SUBSET Nat, tries : Nat, error : {"none", "conflict", "other"}]

MigrationTypes ==
  /\ DOMAIN rows \subseteq Nat \ {0}
  /\ rows = [v \in DOMAIN rows |-> rows[v]]
  /\ migrator \in [Replicas -> MigratorStates]

(* The row of a version is the replica's own. *)
Own(r, v) == v \in DOMAIN rows /\ rows[v] = Binary[r][v]

(* A replica that is on its way has every version before the one it is at, *)
(* and every one it found at the start, with its own checksum.             *)
Behind(r) ==
  migrator[r].pc \in {"loop", "refresh", "apply", "verify"} =>
    /\ migrator[r].at \in Nat \ {0}
    /\ \A v \in DOMAIN Binary[r] : v < migrator[r].at \/ v \in migrator[r].known => Own(r, v)
    /\ migrator[r].pc # "loop" => migrator[r].at \in DOMAIN Binary[r]

MigrationsInv ==
  /\ MigrationTypes
  /\ OneLineage
  /\ \A r \in Replicas : Behind(r)
  /\ ReadyReplicasHaveTheirSchema

(* The rows stay as they are and only replica r moves: what the others     *)
(* have read still holds (every action but a commit).                      *)
LEMMA RowsUnchanged ==
  ASSUME MigrationsInv, NEW r \in Replicas, NEW m \in MigratorStates,
         UNCHANGED rows, Set(r, m),
         m.pc \in {"loop", "refresh", "apply", "verify"} =>
           /\ m.at \in Nat \ {0}
           /\ \A v \in DOMAIN Binary[r] : v < m.at \/ v \in m.known => Own(r, v)
           /\ m.pc # "loop" => m.at \in DOMAIN Binary[r],
         m.pc = "ready" => \A v \in DOMAIN Binary[r] : Own(r, v)
  PROVE  MigrationsInv'
<1>1. MigrationTypes'
  BY Zenon DEF MigrationsInv, MigrationTypes, Set
<1>2. OneLineage'
  BY Zenon DEF MigrationsInv, OneLineage, IsPrefixOf
<1>3. migrator'[r] = m /\ \A q \in Replicas \ {r} : migrator'[q] = migrator[q]
  BY Zenon DEF MigrationsInv, MigrationTypes, Set
<1>4. \A q \in Replicas : Behind(q)'
  <2>1. Behind(r)'
    BY Zenon, <1>3 DEF Behind, Own
  <2>2. ASSUME NEW q \in Replicas \ {r} PROVE Behind(q)'
    BY Zenon, <1>3, <2>2 DEF MigrationsInv, Behind, Own
  <2>. QED BY Zenon, <2>1, <2>2
<1>5. ReadyReplicasHaveTheirSchema'
  BY Zenon, <1>3 DEF MigrationsInv, ReadyReplicasHaveTheirSchema, Own
<1>. QED BY Zenon, <1>1, <1>2, <1>4, <1>5 DEF MigrationsInv

(* A commit adds the version the replica is at, which is the first that is *)
(* not recorded: the schema becomes a longer prefix of its binary.         *)
LEMMA CommitExtends ==
  ASSUME MigrationsInv, NEW r \in Replicas, NEW m \in MigratorStates,
         migrator[r].pc = "apply", migrator[r].at \notin DOMAIN rows,
         Record(r), Set(r, m),
         \/ m.pc = "loop" /\ m.at = migrator[r].at + 1 /\ m.known = migrator[r].known
         \/ m.pc = "verify" /\ m.at = migrator[r].at /\ m.known = migrator[r].known
  PROVE  MigrationsInv'
<1> PICK n : n = migrator[r].at
  BY Zenon
<1>1. n \in Nat \ {0} /\ n \in DOMAIN Binary[r] /\ Behind(r)
  BY Zenon DEF MigrationsInv, Behind
<1>2. \A v \in 1 .. n - 1 : v \in DOMAIN Binary[r]
  BY <1>1, MigrationAssumption
<1>3. \A v \in 1 .. n - 1 : Own(r, v)
  BY <1>1, <1>2 DEF Behind
<1>4. \A v \in DOMAIN rows : v \in 1 .. n - 1
  BY <1>1 DEF MigrationsInv, MigrationTypes, OneLineage
<1>5. DOMAIN rows' = DOMAIN rows \cup {n} /\ rows'[n] = Binary[r][n]
  BY Zenon DEF Record
<1>6. \A v \in DOMAIN rows : rows'[v] = rows[v]
  BY Zenon DEF Record
<1>7. migrator'[r] = m /\ \A q \in Replicas \ {r} : migrator'[q] = migrator[q]
  BY Zenon DEF MigrationsInv, MigrationTypes, Set
<1>8. MigrationTypes'
  <2>1. migrator' \in [Replicas -> MigratorStates]
    BY Zenon DEF MigrationsInv, MigrationTypes, Set
  <2>2. rows' = [v \in DOMAIN rows' |-> rows'[v]]
    BY Zenon DEF Record
  <2>. QED BY Zenon, <1>1, <1>5, <2>1, <2>2 DEF MigrationsInv, MigrationTypes
<1>9. OneLineage'
  <2>1. \A v \in DOMAIN rows' : \A w \in 1 .. v : w \in DOMAIN rows'
    BY <1>1, <1>3, <1>4, <1>5 DEF Own
  <2>2. IsPrefixOf(r)'
    BY Zenon, <1>1, <1>2, <1>3, <1>4, <1>5, <1>6 DEF IsPrefixOf, Own
  <2>. QED BY Zenon, <2>1, <2>2 DEF OneLineage
<1>10. \A q \in Replicas : \A v \in DOMAIN Binary[q] : Own(q, v) => Own(q, v)'
  BY Zenon, <1>5, <1>6 DEF Own
<1>11. \A q \in Replicas : Behind(q)'
  <2>1. Behind(r)'
    <3>1. m.at \in Nat \ {0} /\ (m.pc # "loop" => m.at \in DOMAIN Binary[r])
      BY <1>1
    <3>2. \A v \in DOMAIN Binary[r] : v < m.at \/ v \in m.known => Own(r, v)'
      <4>1. ASSUME NEW v \in DOMAIN Binary[r], v < m.at \/ v \in m.known, v # n
            PROVE  Own(r, v)'
        <5>1. v \in Nat
          BY MigrationAssumption
        <5>2. v < n \/ v \in migrator[r].known
          BY <1>1, <4>1, <5>1
        <5>. QED BY Zenon, <1>1, <1>10, <5>2 DEF Behind
      <4>2. Own(r, n)'
        BY Zenon, <1>5 DEF Own
      <4>. QED BY Zenon, <4>1, <4>2
    <3>. QED BY Zenon, <1>7, <3>1, <3>2 DEF Behind
  <2>2. ASSUME NEW q \in Replicas \ {r} PROVE Behind(q)'
    BY Zenon, <1>7, <1>10, <2>2 DEF MigrationsInv, Behind
  <2>. QED BY Zenon, <2>1, <2>2
<1>12. ReadyReplicasHaveTheirSchema'
  BY <1>5, <1>6, <1>7 DEF MigrationsInv, ReadyReplicasHaveTheirSchema
<1>. QED BY Zenon, <1>8, <1>9, <1>11, <1>12 DEF MigrationsInv

(* The two records an attempt leaves behind when it moves on. *)
LEMMA MovingOn ==
  ASSUME NEW m \in MigratorStates
  PROVE  /\ LET n == [m EXCEPT !.pc = "loop", !.at = @ + 1, !.tries = 0, !.error = "none"]
            IN  n \in MigratorStates /\ n.pc = "loop" /\ n.at = m.at + 1 /\ n.known = m.known
         /\ LET n == [m EXCEPT !.pc = "refresh", !.tries = @ + 1]
            IN  n \in MigratorStates /\ n.pc = "refresh" /\ n.at = m.at /\ n.known = m.known
<1>1. m.at + 1 \in Nat /\ m.tries + 1 \in Nat
  BY DEF MigratorStates
<1>2. m = [pc |-> m.pc, at |-> m.at, known |-> m.known, tries |-> m.tries, error |-> m.error]
  BY Zenon DEF MigratorStates
<1>. QED BY Zenon, <1>1, <1>2 DEF MigratorStates

(* One case per action of Next; the rows change only in applyOne.          *)
LEMMA MigrationStep ==
  ASSUME MigrationsInv, [MigrationsNext]_mvars
  PROVE  MigrationsInv'
<1>1. CASE UNCHANGED mvars
  BY <1>1 DEF mvars, MigrationsInv, MigrationTypes, OneLineage, IsPrefixOf, Behind, Own,
              ReadyReplicasHaveTheirSchema
<1>2. ASSUME NEW r \in Replicas, MigratorStep(r) PROVE MigrationsInv'
  <2> DEFINE m == migrator[r]
  <2>0. m \in MigratorStates /\ Behind(r) /\ Binary[r] \in Seq(Checksums)
    <3>1. Binary[r] \in Seq(Checksums)
      BY Zenon, MigrationAssumption
    <3>. QED BY Zenon, <3>1 DEF MigrationsInv, MigrationTypes
  <2>1. [Down EXCEPT !.pc = "failed"] \in MigratorStates /\ Down \in MigratorStates
        /\ [Down EXCEPT !.pc = "ready"] \in MigratorStates
    BY Zenon DEF Down, MigratorStates
  <2>2. ASSUME Aborts(r), UNCHANGED rows PROVE MigrationsInv'
    <3>1. [Down EXCEPT !.pc = "failed"].pc = "failed"
      BY Zenon DEF Down
    <3>. QED BY Zenon, <2>1, <2>2, <3>1, RowsUnchanged DEF Aborts
  <2> DEFINE next == [m EXCEPT !.pc = "loop", !.at = @ + 1, !.tries = 0, !.error = "none"]
  <2>3. next \in MigratorStates /\ next.pc = "loop" /\ next.at = m.at + 1 /\ next.known = m.known
    BY Zenon, <2>0, MovingOn
  <2>4. ASSUME Advance(r), UNCHANGED rows, m.pc \in {"loop", "refresh", "apply", "verify"},
               m.at \in DOMAIN Binary[r] => Own(r, m.at)
        PROVE  MigrationsInv'
    <3>1. next.at \in Nat \ {0}
      BY <2>0, <2>3, <2>4 DEF Behind
    <3>2. \A v \in DOMAIN Binary[r] : v < next.at \/ v \in next.known => Own(r, v)
      BY <2>0, <2>3, <2>4 DEF Behind
    <3>. QED BY Zenon, <2>3, <2>4, <3>1, <3>2, RowsUnchanged DEF Advance
  <2>5. ASSUME m.pc \in {"refresh", "verify"}, NEW otherwise, Recorded(r, otherwise), UNCHANGED rows,
               otherwise => MigrationsInv'
        PROVE  MigrationsInv'
    <3>1. CASE m.at \in DOMAIN rows /\ rows[m.at] = Binary[r][m.at]
      BY Zenon, <2>4, <2>5, <3>1 DEF Recorded, Own
    <3>2. CASE m.at \in DOMAIN rows /\ rows[m.at] # Binary[r][m.at]
      BY Zenon, <2>2, <2>5, <3>2 DEF Recorded
    <3>3. CASE m.at \notin DOMAIN rows
      BY Zenon, <2>5, <3>3 DEF Recorded
    <3>. QED BY Zenon, <3>1, <3>2, <3>3
  <2>6. CASE Apply(r)
    <3> DEFINE n == [Down EXCEPT !.pc = "loop", !.at = 1, !.known = DOMAIN rows]
    <3>1. CASE validateMigrationSequence(Binary[r]) /\ Verified(r)
      <4>1. n \in MigratorStates /\ n.pc = "loop" /\ n.at = 1 /\ n.known = DOMAIN rows
        BY Zenon DEF MigrationsInv, MigrationTypes, MigratorStates, Down
      <4>2. \A v \in DOMAIN Binary[r] : v < n.at \/ v \in n.known => Own(r, v)
        BY <2>0, <3>1, <4>1 DEF Verified, Own
      <4>3. Set(r, n) /\ UNCHANGED rows
        BY Zenon, <2>6, <3>1 DEF Apply
      <4> HIDE DEF n
      <4>. QED BY <4>1, <4>2, <4>3, RowsUnchanged
    <3>. QED BY Zenon, <2>2, <2>6, <3>1 DEF Apply
  <2>7. CASE NextMigration(r)
    <3>0. m.pc = "loop" /\ UNCHANGED rows /\ m.at \in Nat \ {0}
      BY Zenon, <2>0, <2>7 DEF NextMigration, Behind
    <3>1. CASE m.at > Len(Binary[r])
      <4>1. \A v \in DOMAIN Binary[r] : Own(r, v)
        BY <2>0, <3>0, <3>1 DEF Behind
      <4>2. [Down EXCEPT !.pc = "ready"].pc = "ready"
        BY Zenon DEF Down
      <4>3. Set(r, [Down EXCEPT !.pc = "ready"])
        BY Zenon, <2>7, <3>1 DEF NextMigration
      <4>. QED BY Zenon, <2>1, <3>0, <4>1, <4>2, <4>3, RowsUnchanged
    <3>2. CASE ~(m.at > Len(Binary[r])) /\ m.at \in m.known
      BY Zenon, <2>0, <2>4, <2>7, <3>0, <3>2 DEF NextMigration, Behind
    <3>3. CASE ~(m.at > Len(Binary[r])) /\ m.at \notin m.known
      <4> DEFINE n == [m EXCEPT !.pc = "refresh"]
      <4>1. n \in MigratorStates /\ n.pc = "refresh" /\ n.at = m.at /\ n.known = m.known
        BY Zenon, <2>0 DEF MigratorStates
      <4>2. m.at \in DOMAIN Binary[r]
        BY <2>0, <3>0, <3>3
      <4>3. Set(r, n)
        BY Zenon, <2>7, <3>3 DEF NextMigration
      <4>. QED BY Zenon, <2>0, <3>0, <4>1, <4>2, <4>3, RowsUnchanged DEF Behind
    <3>. QED BY Zenon, <3>1, <3>2, <3>3
  <2>8. CASE Refresh(r)
    <3> DEFINE n == [m EXCEPT !.pc = "apply"]
    <3>1. n \in MigratorStates /\ n.pc = "apply" /\ n.at = m.at /\ n.known = m.known
      BY Zenon, <2>0 DEF MigratorStates
    <3>2. m.pc = "refresh" /\ UNCHANGED rows /\ Recorded(r, Set(r, n))
      BY Zenon, <2>8 DEF Refresh
    <3>3. Set(r, n) => MigrationsInv'
      BY Zenon, <2>0, <3>1, <3>2, RowsUnchanged DEF Behind
    <3>. QED BY <2>5, <3>2, <3>3
  <2>9. ASSUME m.pc = "apply", UNCHANGED rows, NEW error \in {"conflict", "other"}, Verify(r, error)
        PROVE  MigrationsInv'
    <3> DEFINE n == [m EXCEPT !.pc = "verify", !.error = error]
    <3>1. n \in MigratorStates /\ n.pc = "verify" /\ n.at = m.at /\ n.known = m.known
      BY Zenon, <2>0 DEF MigratorStates
    <3>. QED BY Zenon, <2>0, <2>9, <3>1, RowsUnchanged DEF Behind, Verify
  <2>10. CASE ApplyOne(r)
    BY Zenon, <2>3, <2>10, CommitExtends DEF ApplyOne, Advance
  <2>11. CASE ApplyCollides(r)
    BY Zenon, <2>9, <2>11 DEF ApplyCollides
  <2>12. CASE ApplyFails(r)
    <3>1. PICK error \in {"conflict", "other"} : Verify(r, error)
      BY Zenon, <2>12 DEF ApplyFails
    <3>2. CASE UNCHANGED rows
      BY Zenon, <2>9, <2>12, <3>1, <3>2 DEF ApplyFails
    <3>3. CASE m.at \notin DOMAIN rows /\ Record(r)
      <4> DEFINE n == [m EXCEPT !.pc = "verify", !.error = error]
      <4>1. n \in MigratorStates /\ n.pc = "verify" /\ n.at = m.at /\ n.known = m.known
        BY Zenon, <2>0 DEF MigratorStates
      <4>. QED BY Zenon, <2>12, <3>1, <3>3, <4>1, CommitExtends DEF ApplyFails, Verify
    <3>. QED BY Zenon, <2>12, <3>2, <3>3 DEF ApplyFails
  <2>13. CASE Resolve(r)
    <3> DEFINE n == [m EXCEPT !.pc = "refresh", !.tries = @ + 1]
               again == IF m.error # "conflict" \/ m.tries + 1 = MaxAttempts THEN Aborts(r) ELSE Set(r, n)
    <3>1. n \in MigratorStates /\ n.pc = "refresh" /\ n.at = m.at /\ n.known = m.known
      BY Zenon, <2>0, MovingOn
    <3>2. m.pc = "verify" /\ UNCHANGED rows /\ Recorded(r, again)
      BY Zenon, <2>13 DEF Resolve
    <3>3. Set(r, n) => MigrationsInv'
      BY Zenon, <2>0, <3>1, <3>2, RowsUnchanged DEF Behind
    <3>4. again => MigrationsInv'
      BY Zenon, <2>2, <3>2, <3>3
    <3>. QED BY <2>5, <3>2, <3>4
  <2>14. CASE ReadFails(r)
    BY Zenon, <2>2, <2>14 DEF ReadFails
  <2>15. CASE Restart(r)
    <3>1. Down.pc = "down"
      BY Zenon DEF Down
    <3>. QED BY Zenon, <2>1, <2>15, <3>1, RowsUnchanged DEF Restart
  <2>. QED BY Zenon, <1>2, <2>6, <2>7, <2>8, <2>10, <2>11, <2>12, <2>13, <2>14, <2>15 DEF MigratorStep
<1>. QED BY Zenon, <1>1, <1>2 DEF MigrationsNext

(* Every state of the migrators satisfies the invariant.                   *)
LEMMA MigrationsHold == MigrationsSpec => []MigrationsInv
<1>1. MigrationsIdle => MigrationsInv
  <2> SUFFICES ASSUME MigrationsIdle PROVE MigrationsInv
    BY Zenon
  <2>1. DOMAIN rows = {} /\ rows = [v \in DOMAIN rows |-> rows[v]]
    BY DEF MigrationsIdle
  <2>2. migrator \in [Replicas -> MigratorStates] /\ \A r \in Replicas : migrator[r].pc = "down"
    BY Zenon DEF MigrationsIdle, MigratorStates, Down
  <2>3. OneLineage
    BY Zenon, <2>1 DEF OneLineage, MigrationsIdle
  <2>. QED BY Zenon, <2>1, <2>2, <2>3 DEF MigrationsInv, MigrationTypes, Behind, ReadyReplicasHaveTheirSchema
<1>. QED BY <1>1, MigrationStep, PTL DEF MigrationsSpec

(* Whatever binaries the replicas run and whatever fails on the way, the   *)
(* recorded versions have no gap and are the first migrations of a single  *)
(* binary (store/surreal/migrations.go:77-122).                            *)
THEOREM SchemaHasOneLineage == MigrationsSpec => []OneLineage
BY MigrationsHold, PTL DEF MigrationsInv

(* A replica that came up finds every migration it was built with in the   *)
(* database under its own checksum (store/surreal/migrations.go:37-63).    *)
THEOREM ReadyMeansMigrated == MigrationsSpec => []ReadyReplicasHaveTheirSchema
BY MigrationsHold, PTL DEF MigrationsInv

(* Both together, as the run checks them on its instance: replicas of      *)
(* different builds converge on one schema                                 *)
(* (store/surreal/migrations.go:54-122).                                   *)
THEOREM SchemaConverges == MigrationsSpec => []MigrationsConverge
BY SchemaHasOneLineage, ReadyMeansMigrated, PTL DEF MigrationsConverge

-----------------------------------------------------------------------------
(***************************************************************************)
(* Publications.  Edge rows are those of the stored graphs, a permit is    *)
(* earned by two snapshots that agree, and the repository implements       *)
(* GraphStore.  What carries them is that a task keeps the job it checked  *)
(* (TaskFits) through every retry.                                         *)
(***************************************************************************)

(* A worker's task has its four fields, and in each phase a job that was   *)
(* checked when the task began: a valid graph of a payload, or two         *)
(* snapshots that agree.                                                   *)
TaskFits(t) ==
  /\ t = [pc |-> t.pc, job |-> t.job, tries |-> t.tries, error |-> t.error]
  /\ t.pc \in {"begin", "commit", "lookup"} => t.job \in Graphs /\ ValidateCompatibilityGraph(t.job)
  /\ t.pc \in {"find", "activate"} => t.job.stored = t.job.rebuilt

(* Tasks fit, a header is the graph of its key, and what is to be shown.   *)
PubInv ==
  /\ worker = [w \in Workers |-> worker[w]]
  /\ \A w \in Workers : TaskFits(worker[w])
  /\ headers \in [GraphKeys -> Graphs \cup {None}]
  /\ \A k \in GraphKeys : headers[k] # None => headers[k].key = k
  /\ PublicationsAreWhole

(* A worker without a job has a task that fits.                            *)
LEMMA IdleTask == TaskFits(NoTask)
BY DEF TaskFits, NoTask

(* The fields of a task of which two or three are replaced.                *)
LEMMA TaskUpdated ==
  ASSUME NEW t, TaskFits(t), NEW x, NEW y
  PROVE  /\ [t EXCEPT !.pc = x, !.error = y] = [pc |-> x, job |-> t.job, tries |-> t.tries, error |-> y]
         /\ [t EXCEPT !.pc = x, !.tries = @ + 1, !.error = y] =
              [pc |-> x, job |-> t.job, tries |-> t.tries + 1, error |-> y]
<1>0. t = [pc |-> t.pc, job |-> t.job, tries |-> t.tries, error |-> t.error]
  BY Zenon DEF TaskFits
<1>1. ASSUME NEW u, u = [t EXCEPT !.pc = x, !.error = y]
      PROVE  u = [pc |-> x, job |-> t.job, tries |-> t.tries, error |-> y]
  BY <1>0, <1>1
<1>2. ASSUME NEW u, u = [t EXCEPT !.pc = x, !.tries = @ + 1, !.error = y]
      PROVE  u = [pc |-> x, job |-> t.job, tries |-> t.tries + 1, error |-> y]
  BY <1>0, <1>2
<1> QED  BY Zenon, <1>1, <1>2

(* A task begins with its job.                                             *)
LEMMA TaskBegins ==
  ASSUME NEW x, NEW y
  PROVE  [NoTask EXCEPT !.pc = x, !.job = y] = [pc |-> x, job |-> y, tries |-> NoTask.tries, error |-> NoTask.error]
<1>1. ASSUME NEW t, t = [pc |-> t.pc, job |-> t.job, tries |-> t.tries, error |-> t.error],
             NEW u, u = [t EXCEPT !.pc = x, !.job = y]
      PROVE  u = [pc |-> x, job |-> y, tries |-> t.tries, error |-> t.error]
  BY <1>1
<1>2. NoTask = [pc |-> NoTask.pc, job |-> NoTask.job, tries |-> NoTask.tries, error |-> NoTask.error]
  BY Zenon, IdleTask DEF TaskFits
<1> QED  BY Zenon, <1>1, <1>2

(* The task of one worker changes.                                         *)
LEMMA TaskChanges ==
  ASSUME PubInv, NEW w \in Workers, NEW t, TaskFits(t), Become(w, t)
  PROVE  worker' = [v \in Workers |-> worker'[v]] /\ \A v \in Workers : TaskFits(worker'[v])
<1>1. worker' = [v \in Workers |-> IF v = w THEN t ELSE worker[v]]
  BY Zenon DEF PubInv, Become
<1> QED  BY Zenon, <1>1 DEF PubInv

(* A task goes on to another phase with the job it has.                    *)
LEMMA TaskGoesOn ==
  ASSUME PubInv, NEW w \in Workers, NEW pc, NEW error, To(w, pc, error),
         pc = "commit" => worker[w].pc = "begin",
         pc = "lookup" => worker[w].pc \in {"begin", "commit"},
         pc = "activate" => worker[w].pc = "find",
         pc \in {"commit", "lookup", "activate"}
  PROVE  worker' = [v \in Workers |-> worker'[v]] /\ \A v \in Workers : TaskFits(worker'[v])
<1> DEFINE t == [worker[w] EXCEPT !.pc = pc, !.error = error]
<1>0. TaskFits(worker[w])
  BY Zenon DEF PubInv
<1>1. t = [pc |-> pc, job |-> worker[w].job, tries |-> worker[w].tries, error |-> error]
  BY Zenon, <1>0, TaskUpdated
<1> HIDE DEF t
<1>2. TaskFits(t)
  BY <1>0, <1>1 DEF TaskFits
<1> QED  BY Zenon, <1>2, TaskChanges DEF To, t

(* A worker that gives up, or is done, drops its task.                     *)
LEMMA DropsTask ==
  ASSUME PubInv, NEW w \in Workers, Drop(w)
  PROVE  worker' = [v \in Workers |-> worker'[v]] /\ \A v \in Workers : TaskFits(worker'[v])
BY Zenon, IdleTask, TaskChanges DEF Drop

(* A free key gets its graph and the rows of its edges.                    *)
LEMMA GraphIsStored ==
  ASSUME PubInv, NEW g \in Graphs, Free(g), StoreGraph(g)
  PROVE  /\ headers' \in [GraphKeys -> Graphs \cup {None}]
         /\ \A k \in GraphKeys : headers'[k] # None => headers'[k].key = k
         /\ EdgesAreOfTheirGraph'
<1>1. g.key \in GraphKeys
  BY Zenon DEF GraphKeys
<1>2. headers' = [k \in GraphKeys |-> IF k = g.key THEN g ELSE headers[k]]
  BY Zenon DEF PubInv, StoreGraph
<1>3. headers' \in [GraphKeys -> Graphs \cup {None}] /\ \A k \in GraphKeys : headers'[k] # None => headers'[k].key = k
  BY <1>2 DEF PubInv
<1>4. g # None
  BY PublicationAssumption
<1>5. edgeRows' = edgeRows \cup Rows(g) /\ headers[g.key] = None
        /\ edgeRows = UNION {Rows(headers[k]) : k \in {k \in GraphKeys : headers[k] # None}}
  BY Zenon DEF StoreGraph, Free, PubInv, PublicationsAreWhole, EdgesAreOfTheirGraph
<1>6. {k \in GraphKeys : headers'[k] # None} = {k \in GraphKeys : headers[k] # None} \cup {g.key}
  BY <1>1, <1>2, <1>4, <1>5
<1>7. \A k \in {k \in GraphKeys : headers[k] # None} : headers'[k] = headers[k]
  BY <1>2, <1>5
<1>8. headers'[g.key] = g
  BY <1>1, <1>2
<1>9. edgeRows' = UNION {Rows(headers'[k]) : k \in {k \in GraphKeys : headers'[k] # None}}
  BY <1>5, <1>6, <1>7, <1>8
<1> QED  BY <1>3, <1>9 DEF EdgesAreOfTheirGraph

(* What is not written stays whole.                                        *)
LEMMA GraphsKept ==
  ASSUME PubInv, UNCHANGED <<headers, edgeRows>>
  PROVE  /\ headers' \in [GraphKeys -> Graphs \cup {None}]
         /\ \A k \in GraphKeys : headers'[k] # None => headers'[k].key = k
         /\ EdgesAreOfTheirGraph'
<1>1. headers' = headers /\ edgeRows' = edgeRows
  BY Zenon
<1> QED  BY <1>1 DEF PubInv, PublicationsAreWhole, EdgesAreOfTheirGraph

(* Permits stay earned while rows and pointers stay.                       *)
LEMMA PermitsKept ==
  ASSUME PubInv, UNCHANGED <<snapshots, permits>>
  PROVE  PermitsAreEarned'
BY DEF PubInv, PublicationsAreWhole, PermitsAreEarned, SnapshotRows

(* Every step keeps the invariant: a publication's retries and lost        *)
(* answers, and an activation's (surreal/composition.go:26-97,             *)
(* surreal/rebuild.go:26-65).                                              *)
LEMMA PublicationsStep ==
  ASSUME PubInv, [PublishNext \/ ActivateNext]_uvars PROVE PubInv'
<1> USE DEF PubInv
<1>1. ASSUME NEW w \in Workers, NEW g \in Graphs, HandleCompatibility(w, g) PROVE PubInv'
  <2>1. UNCHANGED <<headers, edgeRows>> /\ UNCHANGED <<snapshots, permits>>
    BY Zenon, <1>1 DEF HandleCompatibility
  <2>2. CASE ValidateCompatibilityGraph(g)
    <3>0. [NoTask EXCEPT !.pc = "begin", !.job = g] = [pc |-> "begin", job |-> g, tries |-> NoTask.tries, error |-> NoTask.error]
      BY Zenon, TaskBegins
    <3>1. TaskFits([NoTask EXCEPT !.pc = "begin", !.job = g])
      BY <2>2, <3>0 DEF TaskFits
    <3>2. Become(w, [NoTask EXCEPT !.pc = "begin", !.job = g])
      BY Zenon, <1>1, <2>2 DEF HandleCompatibility
    <3> QED  BY Zenon, <2>1, <3>1, <3>2, TaskChanges, GraphsKept, PermitsKept DEF PublicationsAreWhole
  <2>3. CASE ~ValidateCompatibilityGraph(g)
    <3>1. Drop(w)
      BY Zenon, <1>1, <2>3 DEF HandleCompatibility, Tell
    <3> QED  BY Zenon, <2>1, <3>1, DropsTask, GraphsKept, PermitsKept DEF PublicationsAreWhole
  <2> QED  BY Zenon, <2>2, <2>3
<1>2. ASSUME NEW w \in Workers, PublishOnce(w) PROVE PubInv'
  <2>1. worker[w].pc = "begin" /\ UNCHANGED <<headers, edgeRows>> /\ UNCHANGED <<snapshots, permits>>
    BY Zenon, <1>2 DEF PublishOnce
  <2>2. To(w, "commit", "none") \/ Drop(w) \/ To(w, "lookup", "other")
    BY Zenon, <1>2 DEF PublishOnce, Tell
  <2>3. worker' = [v \in Workers |-> worker'[v]] /\ \A v \in Workers : TaskFits(worker'[v])
    BY <2>1, <2>2, TaskGoesOn, DropsTask
  <2> QED  BY Zenon, <2>1, <2>3, GraphsKept, PermitsKept DEF PublicationsAreWhole
<1>3. ASSUME NEW w \in Workers, CommitGraph(w) PROVE PubInv'
  <2>1. worker[w].pc = "commit" /\ Free(worker[w].job) /\ StoreGraph(worker[w].job) /\ UNCHANGED <<snapshots, permits>>
    BY Zenon, <1>3 DEF CommitGraph
  <2>2. Drop(w) \/ To(w, "lookup", "other")
    BY Zenon, <1>3 DEF CommitGraph, Tell
  <2>3. worker' = [v \in Workers |-> worker'[v]] /\ \A v \in Workers : TaskFits(worker'[v])
    BY <2>1, <2>2, TaskGoesOn, DropsTask
  <2>4. worker[w].job \in Graphs
    BY <2>1 DEF TaskFits
  <2> QED  BY Zenon, <2>1, <2>3, <2>4, GraphIsStored, PermitsKept DEF PublicationsAreWhole
<1>4. ASSUME NEW w \in Workers, CommitGraphFails(w) PROVE PubInv'
  <2>1. worker[w].pc = "commit" /\ UNCHANGED <<headers, edgeRows>> /\ UNCHANGED <<snapshots, permits>>
    BY Zenon, <1>4 DEF CommitGraphFails
  <2>2. PICK error : To(w, "lookup", error)
    BY Zenon, <1>4 DEF CommitGraphFails
  <2>3. worker' = [v \in Workers |-> worker'[v]] /\ \A v \in Workers : TaskFits(worker'[v])
    BY <2>1, <2>2, TaskGoesOn
  <2> QED  BY Zenon, <2>1, <2>3, GraphsKept, PermitsKept DEF PublicationsAreWhole
<1>5. ASSUME NEW w \in Workers, Lookup(w) PROVE PubInv'
  <2> DEFINE t == [worker[w] EXCEPT !.pc = "begin", !.tries = @ + 1, !.error = "none"]
  <2>1. worker[w].pc = "lookup" /\ UNCHANGED <<headers, edgeRows>> /\ UNCHANGED <<snapshots, permits>>
    BY Zenon, <1>5 DEF Lookup
  <2>2. Drop(w) \/ Become(w, t)
    BY Zenon, <1>5 DEF Lookup, Found, Tell
  <2>3. t = [pc |-> "begin", job |-> worker[w].job, tries |-> worker[w].tries + 1, error |-> "none"]
    BY Zenon, TaskUpdated
  <2> HIDE DEF t
  <2>4. TaskFits(t)
    BY <2>1, <2>3 DEF TaskFits
  <2>5. worker' = [v \in Workers |-> worker'[v]] /\ \A v \in Workers : TaskFits(worker'[v])
    BY Zenon, <2>2, <2>4, TaskChanges, DropsTask
  <2> QED  BY Zenon, <2>1, <2>5, GraphsKept, PermitsKept DEF PublicationsAreWhole
<1>6. ASSUME NEW w \in Workers, LookupFails(w) \/ FindPermit(w) \/ ActivateFails(w) PROVE PubInv'
  <2>1. UNCHANGED <<headers, edgeRows>> /\ UNCHANGED <<snapshots, permits>>
    BY Zenon, <1>6 DEF LookupFails, FindPermit, ActivateFails
  <2>2. Drop(w) \/ (worker[w].pc = "find" /\ To(w, "activate", "none"))
    BY Zenon, <1>6 DEF LookupFails, FindPermit, ActivateFails
  <2>3. worker' = [v \in Workers |-> worker'[v]] /\ \A v \in Workers : TaskFits(worker'[v])
    BY <2>2, TaskGoesOn, DropsTask
  <2> QED  BY Zenon, <2>1, <2>3, GraphsKept, PermitsKept DEF PublicationsAreWhole
<1>7. ASSUME NEW k \in GraphKeys, Edges(k) PROVE PubInv'
  BY Zenon, <1>7, GraphsKept, PermitsKept DEF Edges, PublicationsAreWhole
<1>8. ASSUME NEW w \in Workers, NEW s \in RebuildInputs, NEW r \in RebuildInputs, NEW at \in AuthorizedAt,
             HandleRebuild(w, s, r, at)
      PROVE  PubInv'
  <2> DEFINE stored == BuildDerivedSnapshot(s)
             rebuilt == BuildDerivedSnapshot(r)
             t == [NoTask EXCEPT !.pc = "find", !.job = [stored |-> stored, rebuilt |-> rebuilt, at |-> at]]
  <2>1. UNCHANGED <<headers, edgeRows>> /\ UNCHANGED <<snapshots, permits>>
        /\ CompareDerivedSnapshots(stored, rebuilt) /\ Become(w, t)
    BY Zenon, <1>8 DEF HandleRebuild
  <2>2. stored = rebuilt
    <3>1. DOMAIN s = DOMAIN r
      BY Zenon, PublicationAssumption
    <3> QED  BY <2>1, <3>1 DEF CompareDerivedSnapshots, BuildDerivedSnapshot
  <2>3. TaskFits(t)
    <3> DEFINE job == [stored |-> stored, rebuilt |-> rebuilt, at |-> at]
    <3>1. job.stored = job.rebuilt
      BY <2>2
    <3> HIDE DEF job
    <3>2. [NoTask EXCEPT !.pc = "find", !.job = job] = [pc |-> "find", job |-> job, tries |-> NoTask.tries, error |-> NoTask.error]
      BY Zenon, TaskBegins
    <3>3. TaskFits([NoTask EXCEPT !.pc = "find", !.job = job])
      BY <3>1, <3>2 DEF TaskFits
    <3> QED  BY Zenon, <3>3 DEF job
  <2> QED  BY Zenon, <2>1, <2>3, TaskChanges, GraphsKept, PermitsKept DEF PublicationsAreWhole
<1>9. ASSUME NEW w \in Workers, Activate(w) PROVE PubInv'
  <2> DEFINE p == worker[w].job
  <2>1. /\ worker[w].pc = "activate" /\ Creatable(p) /\ snapshots' = snapshots \cup SnapshotRows(p)
        /\ permits' = permits \cup {p} /\ Drop(w) /\ UNCHANGED <<headers, edgeRows>>
    BY Zenon, <1>9 DEF Activate
  <2>2. p.stored = p.rebuilt
    BY <2>1 DEF TaskFits
  <2>3. PermitsAreEarned'
    <3>1. \A q \in permits : q.stored # p.stored
      BY Zenon, <2>1, <2>2 DEF Creatable, PublicationsAreWhole, PermitsAreEarned
    <3> QED  BY <2>1, <2>2, <3>1 DEF PublicationsAreWhole, PermitsAreEarned, SnapshotRows
  <2> QED  BY Zenon, <2>1, <2>3, DropsTask, GraphsKept DEF PublicationsAreWhole
<1>10. CASE UNCHANGED uvars
  BY Zenon, <1>10, GraphsKept, PermitsKept DEF uvars, PublicationsAreWhole
<1> QED  BY Zenon, <1>1, <1>2, <1>3, <1>4, <1>5, <1>6, <1>7, <1>8, <1>9, <1>10 DEF PublishNext, ActivateNext

(* The empty store satisfies the invariant.                                *)
LEMMA PublicationsStart ==
  ASSUME PublicationsIdle PROVE PubInv
<1>1. /\ headers = [k \in GraphKeys |-> None] /\ edgeRows = {} /\ snapshots = {} /\ permits = {}
      /\ worker = [w \in Workers |-> NoTask]
  BY Zenon DEF PublicationsIdle
<1>2. edgeRows = UNION {Rows(headers[k]) : k \in {k \in GraphKeys : headers[k] # None}}
  BY <1>1
<1>3. PublicationsAreWhole
  BY Zenon, <1>1, <1>2 DEF PublicationsAreWhole, EdgesAreOfTheirGraph, PermitsAreEarned
<1> QED  BY <1>1, <1>3, IdleTask DEF PubInv

(* The invariant holds always.                                             *)
THEOREM PublicationsInvariant == PublicationsSpec => []PubInv
BY PublicationsStart, PublicationsStep, PTL DEF PublicationsSpec

(* Whatever is retried, raced or lost: the edge rows are those of the      *)
(* stored graphs, and a permit stands for two snapshots that agree and are *)
(* on record, one permit for both (surreal/composition.go:83-96,           *)
(* surreal/rebuild.go:26-65).                                              *)
THEOREM PublicationsWhole == PublicationsSpec => []PublicationsAreWhole
<1>1. PubInv => PublicationsAreWhole
  BY Zenon DEF PubInv
<1> QED  BY <1>1, PublicationsInvariant, PTL

(* Every step is one of the abstract store or changes nothing there: a     *)
(* commit stores its graph, a lookup or an answer tells one that is        *)
(* stored.                                                                 *)
LEMMA StoreStep ==
  ASSUME PubInv, [PublishNext \/ ActivateNext]_uvars PROVE [Store!Next]_(Store!vars)
<1>0. SUFFICES ASSUME ~UNCHANGED <<headers, told>> PROVE Store!Next
  BY Zenon DEF Store!vars
<1>1. ASSUME NEW w \in Workers, NEW g \in Graphs, HandleCompatibility(w, g) PROVE Store!Next
  <2>1. ~ValidateCompatibilityGraph(g) /\ UNCHANGED headers /\ told' = [graph |-> g, result |-> "invalid"]
    BY Zenon, <1>0, <1>1 DEF HandleCompatibility, Tell
  <2>2. Store!Result(g) = "invalid"
    BY Zenon, <2>1 DEF Store!Result
  <2>3. Store!Publish(g)
    BY <2>1, <2>2 DEF Store!Publish
  <2> QED  BY Zenon, <2>3 DEF Store!Next
<1>2. ASSUME NEW w \in Workers, PublishOnce(w) \/ CommitGraph(w) \/ Lookup(w) PROVE Store!Next
  <2> DEFINE g == worker[w].job
  <2>1. g \in Graphs /\ ValidateCompatibilityGraph(g)
    BY <1>2 DEF PubInv, TaskFits, PublishOnce, CommitGraph, Lookup
  <2>2. g.key \in GraphKeys /\ g # None /\ headers = [k \in GraphKeys |-> headers[k]]
    BY <2>1, PublicationAssumption DEF GraphKeys, PubInv
  <2>3. CASE Free(g) /\ StoreGraph(g) /\ told' \in {told, [graph |-> g, result |-> "published"]}
    <3>1. Store!Result(g) = "published"
      BY <2>1, <2>3 DEF Store!Result, Store!Key, Free
    <3>2. Store!Publish(g)
      BY Zenon, <2>3, <3>1 DEF Store!Publish, Store!Key, StoreGraph
    <3> QED  BY Zenon, <2>1, <3>2 DEF Store!Next
  <2>4. CASE headers[g.key] = g /\ UNCHANGED headers /\ told' = [graph |-> g, result |-> "published"]
    <3>1. Store!Result(g) = "published"
      BY <2>1, <2>4 DEF Store!Result, Store!Key
    <3>2. headers' = [headers EXCEPT ![g.key] = g]
      BY <2>2, <2>4
    <3>3. Store!Publish(g)
      BY <2>4, <3>1, <3>2 DEF Store!Publish, Store!Key
    <3> QED  BY Zenon, <2>1, <3>3 DEF Store!Next
  <2>5. CASE headers[g.key] \notin {None, g} /\ UNCHANGED headers /\ told' = [graph |-> g, result |-> "conflict"]
    <3>1. Store!Result(g) = "conflict"
      BY Zenon, <2>1, <2>5 DEF Store!Result, Store!Key
    <3>2. Store!Publish(g)
      BY <2>5, <3>1 DEF Store!Publish
    <3> QED  BY Zenon, <2>1, <3>2 DEF Store!Next
  <2>6. CASE PublishOnce(w)
    BY Zenon, <1>0, <2>2, <2>4, <2>6 DEF PublishOnce, Tell
  <2>7. CASE CommitGraph(w)
    BY Zenon, <1>0, <2>3, <2>7 DEF CommitGraph, Tell
  <2>8. CASE Lookup(w)
    BY <1>0, <2>2, <2>4, <2>5, <2>8 DEF Lookup, Found, Free, Tell
  <2> QED  BY Zenon, <1>2, <2>6, <2>7, <2>8
<1>3. ASSUME NEW w \in Workers, CommitGraphFails(w) \/ LookupFails(w) \/ FindPermit(w) \/ Activate(w) \/ ActivateFails(w)
      PROVE FALSE
  BY Zenon, <1>0, <1>3 DEF CommitGraphFails, LookupFails, FindPermit, Activate, ActivateFails
<1>4. ASSUME NEW w \in Workers, NEW s \in RebuildInputs, NEW r \in RebuildInputs, NEW at \in AuthorizedAt,
             HandleRebuild(w, s, r, at)
      PROVE  FALSE
  BY Zenon, <1>0, <1>4 DEF HandleRebuild
<1>5. ASSUME NEW k \in GraphKeys, Edges(k) PROVE Store!Next
  <2>1. Store!Edges(k)
    BY Zenon, <1>5 DEF Edges, Store!Edges, Store!StoredEdges
  <2>2. k \in DOMAIN headers
    BY DEF PubInv
  <2> QED  BY Zenon, <2>1, <2>2 DEF Store!Next
<1>6. ~UNCHANGED uvars
  BY Zenon, <1>0 DEF uvars
<1> QED  BY Zenon, <1>1, <1>2, <1>3, <1>4, <1>5, <1>6 DEF PublishNext, ActivateNext

(* The repository with its retries, conflicts and lost answers is the in-  *)
(* memory one, which takes each graph in one step                          *)
(* (surreal/composition.go:26-97, memory/composition.go:27-64).            *)
THEOREM RepositoryImplementsStore == PublicationsSpec => ImplementsGraphStore
<1>1. PublicationsIdle => Store!Init
  BY Zenon DEF PublicationsIdle, Store!Init, Store!Key, GraphKeys
<1>2. PubInv /\ [PublishNext \/ ActivateNext]_uvars => [Store!Next]_(Store!vars)
  BY Zenon, StoreStep
<1> QED  BY <1>1, <1>2, PublicationsInvariant, PTL DEF PublicationsSpec, ImplementsGraphStore, Store!Spec
=============================================================================
