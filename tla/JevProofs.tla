------------------------------ MODULE JevProofs ------------------------------
(***************************************************************************)
(* The judgment ledger and the service in front of it, for every set of    *)
(* processes, callers and base keys and every history.                     *)
(*                                                                         *)
(* The ledger keeps one chain of generations for each base key.  The       *)
(* service, which reads, decides and writes in separate steps of several   *)
(* processes, implements that ledger; what it answers is durable and was   *)
(* fresh when it was asked; and what a process holds belongs to a flight.  *)
(***************************************************************************)
EXTENDS Jev, FiniteSetTheorems, WellFoundedInduction, TLAPS

(* The current record is the youngest: every other record of its base had  *)
(* closed its window before the current one was created.  Until a base has *)
(* a head, its only record is a v1 record.                                 *)
LedgerInv ==
    /\ heads \in [Bases -> records \union {None}]
    /\ \A r \in records : WellFormed(r)
    /\ \A b \in Bases : heads[b] # None => heads[b].base = b
    /\ \A r, s \in records : heads[r.base] = None /\ r.base = s.base => r = s /\ r.pred = None
    /\ \A r \in records : r = Current(r.base) \/ r.until <= Current(r.base).created
    /\ OneGenerationAtATime

(* Where a base has a record, Current is a record of that base; where it   *)
(* has none, Current is None.                                              *)
LEMMA CurrentIsRecord ==
    ASSUME LedgerInv, NEW b \in Bases
    PROVE  /\ Current(b) # None => Current(b) \in records /\ Current(b).base = b
           /\ Current(b) = None => \A r \in records : r.base # b
<1>1. CASE heads[b] # None
  BY Zenon, <1>1 DEF LedgerInv, Current, WellFormed
<1>2. CASE heads[b] = None /\ Legacy(b) # {}
  <2>1. Current(b) \in Legacy(b)
    BY Zenon, <1>2 DEF Current
  <2> QED  BY Zenon, <2>1 DEF LedgerInv, WellFormed, Legacy
<1>3. CASE heads[b] = None /\ Legacy(b) = {}
  <2>1. Current(b) = None
    BY Zenon, <1>3 DEF Current
  <2>2. ASSUME NEW r \in records, r.base = b PROVE FALSE
    <3>1. r.pred = None  BY Zenon, <1>3, <2>2 DEF LedgerInv
    <3> QED  BY Zenon, <3>1, <2>2, <1>3 DEF Legacy
  <2> QED  BY Zenon, <2>1, <2>2
<1> QED  BY Zenon, <1>1, <1>2, <1>3

(* A ledger of v1 records only satisfies the invariant.                    *)
LEMMA LedgerInitially == Init => LedgerInv
<1> SUFFICES ASSUME Init PROVE LedgerInv  BY Zenon
<1>1. ASSUME NEW r \in records PROVE r = Current(r.base)
  <2>1. r \in Legacy(r.base) /\ r.base \in Bases
    BY Zenon, <1>1 DEF Init, Legacy, WellFormed
  <2>2. Current(r.base) \in Legacy(r.base)
    BY Zenon, <2>1 DEF Init, Current
  <2> QED  BY Zenon, <2>1, <2>2 DEF Init, Legacy
<1> QED  BY Zenon, <1>1 DEF Init, LedgerInv, OneGenerationAtATime

(* A commit keeps it: the new record is younger than every record of its   *)
(* base and becomes the current one; other bases do not notice.            *)
LEMMA LedgerCommit ==
    ASSUME LedgerInv, NEW n \in records', Commit(n)
    PROVE  LedgerInv'
<1> DEFINE b == n.base
<1>0. b \in Bases /\ WellFormed(n) /\ records' = records \union {n}
      /\ heads' = [heads EXCEPT ![b] = n] /\ n.pred = Current(b)
  BY Zenon DEF Commit, WellFormed
<1>1. heads' \in [Bases -> records' \union {None}] /\ heads'[b] = n
      /\ \A c \in Bases : c # b => heads'[c] = heads[c]
  BY Zenon, <1>0 DEF LedgerInv
<1>2. \A r \in records' : WellFormed(r)
  BY Zenon, <1>0 DEF LedgerInv
<1>3. \A c \in Bases : heads'[c] # None => heads'[c].base = c
  BY Zenon, <1>0, <1>1 DEF LedgerInv
<1>4. \A r \in records : r.base = b => r.until <= n.created
  <2> SUFFICES ASSUME NEW r \in records, r.base = b PROVE r.until <= n.created
    BY Zenon
  <2>1. Current(b) # None /\ Current(b) \in records
    BY Zenon, <1>0, CurrentIsRecord
  <2>2. Current(b).until <= n.created
    BY Zenon, <2>1 DEF Commit
  <2>3. r = Current(b) \/ r.until <= Current(b).created
    BY Zenon DEF LedgerInv
  <2> QED  BY <2>1, <2>2, <2>3, <1>0 DEF LedgerInv, WellFormed
<1>5. Current(b)' = n
  BY Zenon, <1>0, <1>1 DEF Current, WellFormed
<1>6. \A c \in Bases : c # b => Current(c)' = Current(c)
  <2> SUFFICES ASSUME NEW c \in Bases, c # b PROVE Current(c)' = Current(c)
    BY Zenon
  <2>1. Legacy(c)' = Legacy(c)
    BY Zenon, <1>0 DEF Legacy
  <2> QED  BY <2>1, <1>1 DEF Current
<1>7. \A r \in records' : r = Current(r.base)' \/ r.until <= Current(r.base)'.created
  BY Zenon, <1>0, <1>4, <1>5, <1>6 DEF LedgerInv, WellFormed
<1>8. \A r, s \in records' : heads'[r.base] = None /\ r.base = s.base => r = s /\ r.pred = None
  <2> SUFFICES ASSUME NEW r \in records', NEW s \in records', heads'[r.base] = None, r.base = s.base
               PROVE  r = s /\ r.pred = None
    BY Zenon
  <2>1. r.base # b /\ r.base \in Bases
    BY Zenon, <1>0, <1>1, <1>2 DEF WellFormed
  <2> QED  BY Zenon, <2>1, <1>0, <1>1 DEF LedgerInv
<1>9. OneGenerationAtATime'
  <2> SUFFICES ASSUME NEW r \in records', NEW s \in records', r.base = s.base, r # s
               PROVE  r.pred # s.pred /\ (r.until <= s.created \/ s.until <= r.created)
    BY Zenon DEF OneGenerationAtATime
  <2>1. CASE r \in records /\ s \in records
    BY Zenon, <2>1 DEF LedgerInv, OneGenerationAtATime
  <2>2. CASE r = n \/ s = n
    BY Zenon, <2>2, <1>0, <1>4 DEF Commit
  <2> QED  BY Zenon, <2>1, <2>2, <1>0
<1> QED  BY Zenon, <1>1, <1>2, <1>3, <1>7, <1>8, <1>9 DEF LedgerInv

(* Whatever the order of commits, the judgments of a base key are one      *)
(* chain of generations, of which at most one is reusable at any instant   *)
(* (jev/repository.go, Commit).                                            *)
THEOREM LedgerKeepsOneGeneration == Spec => []OneGenerationAtATime
<1>1. Init => LedgerInv
  BY Zenon, LedgerInitially
<1>2. LedgerInv /\ [Next]_ledger => LedgerInv'
  <2> SUFFICES ASSUME LedgerInv, [Next]_ledger PROVE LedgerInv'
    BY Zenon
  <2>1. CASE Next
    BY Zenon, <2>1, LedgerCommit DEF Next
  <2>2. CASE UNCHANGED ledger
    BY <2>2 DEF ledger, LedgerInv, OneGenerationAtATime, Current, Legacy, WellFormed
  <2> QED  BY Zenon, <2>1, <2>2
<1>3. LedgerInv => OneGenerationAtATime
  BY Zenon DEF LedgerInv
<1> QED  BY <1>1, <1>2, <1>3, PTL DEF Spec

(* A commit adds a record that was not there and makes it current; other   *)
(* base keys do not notice.                                                *)
LEMMA CommitMakesCurrent ==
    ASSUME LedgerInv, NEW n, Commit(n)
    PROVE  /\ n \notin records /\ n \in records' /\ n.base \in Bases /\ records \subseteq records'
           /\ heads'[n.base] = n /\ Current(n.base)' = n
           /\ \A c \in Bases : c # n.base => /\ heads'[c] = heads[c] /\ Current(c)' = Current(c)
                                             /\ \A s \in records' : s.base = c => s \in records
<1> DEFINE b == n.base
<1>0. b \in Bases /\ WellFormed(n) /\ records' = records \union {n}
      /\ heads' = [heads EXCEPT ![b] = n] /\ n.pred = Current(b)
  BY Zenon DEF Commit, WellFormed
<1>1. heads'[b] = n /\ \A c \in Bases : c # b => heads'[c] = heads[c]
  BY Zenon, <1>0 DEF LedgerInv
<1>2. Current(b)' = n
  BY Zenon, <1>0, <1>1 DEF Current, WellFormed
<1>3. ASSUME NEW c \in Bases, c # b
      PROVE  Current(c)' = Current(c) /\ \A s \in records' : s.base = c => s \in records
  <2>1. Legacy(c)' = Legacy(c)
    BY Zenon, <1>0, <1>3 DEF Legacy
  <2> QED  BY <2>1, <1>0, <1>1, <1>3 DEF Current
<1>4. ASSUME n \in records PROVE FALSE
  <2>1. Current(b) # None /\ Current(b) \in records
    BY Zenon, <1>0, <1>4, CurrentIsRecord
  <2>2. Current(b).until <= n.created
    BY Zenon, <2>1 DEF Commit
  <2>3. n = Current(b) \/ n.until <= Current(b).created
    BY Zenon, <1>4 DEF LedgerInv
  <2> QED  BY <1>0, <2>1, <2>2, <2>3 DEF LedgerInv, WellFormed
<1> QED  BY Zenon, <1>0, <1>1, <1>2, <1>3, <1>4

-----------------------------------------------------------------------------
(* What is current for a base key when an answer is awaited that was asked *)
(* for with deadline dl: nothing, a judgment that was over when the        *)
(* question was asked, or one that outlives the deadline.                  *)
Settled(b, dl) ==
    \/ Current(b) = None \/ Current(b).until + Deadline <= dl \/ dl < Current(b).until

(* A flight's predecessor is still current unless a judgment that outlives *)
(* the flight has taken its place.                                         *)
Succeeds(b, pred, dl) ==
    /\ pred = None \/ (pred \in records /\ pred.base = b)
    /\ Current(b) = pred \/ (Current(b) # None /\ dl < Current(b).until)

Committable(r) ==
    /\ r.pred = Current(r.base)
    /\ Current(r.base) # None => Current(r.base).until <= r.created
    /\ \A s \in records : s.base = r.base /\ s.pred = r.pred => s = r

(* A call: nothing, a question whose judgment is settled for its deadline, *)
(* or an answer that is durable and was fresh.                             *)
CallFits(v) ==
    \/ v.phase = "idle"
    \/ /\ v.phase \in {"miss", "wait"}
       /\ v = [phase |-> v.phase, base |-> v.base, now |-> v.now, dl |-> v.dl]
       /\ v.base \in Bases /\ v.now \in Nat /\ v.now <= clock /\ v.dl = v.now + Deadline
       /\ Settled(v.base, v.dl)
    \/ v.phase = "done" /\ v.answer \in records /\ v.now < v.answer.until

(* A flight: its deadline, the time it looked at, the record it carries.   *)
Timed(b, f) == f.dl \in Nat /\ f.dl <= clock + Deadline /\ Settled(b, f.dl)
Young(f) == f.now \in Nat /\ f.now <= clock /\ f.dl <= f.now + Deadline
Carries(b, f) ==
    /\ WellFormed(f.rec) /\ f.rec.base = b
    /\ f.rec.until = f.rec.created + Reuse /\ f.dl <= f.rec.created + Deadline
    /\ Succeeds(b, f.rec.pred, f.dl)
Prepared(b, f) == f.head \in records \union {None} /\ (heads[b] = f.head => Committable(f.rec))
FlightFits(b, f) ==
    \/ f.phase = "none"
    \/ f.phase = "lookup" /\ Timed(b, f) /\ Young(f) /\ f = [phase |-> "lookup", now |-> f.now, dl |-> f.dl]
    \/ f.phase = "current" /\ Timed(b, f) /\ Young(f)
    \/ f.phase = "evaluate" /\ Timed(b, f) /\ Young(f) /\ Succeeds(b, f.pred, f.dl)
    \/ f.phase = "commit" /\ Timed(b, f) /\ Carries(b, f)
    \/ f.phase = "write" /\ Timed(b, f) /\ Carries(b, f) /\ Prepared(b, f)

FlightShape == flight = [p \in Procs |-> [b \in Bases |-> flight[p][b]]]

(* The ledger, the calls and the flights.                                  *)
JevInv ==
    /\ LedgerInv
    /\ clock \in 0..MaxTime /\ faults \in 0..MaxFaults
    /\ call = [c \in Callers |-> call[c]]
    /\ FlightShape
    /\ \A c \in Callers : CallFits(call[c])
    /\ \A p \in Procs, b \in Bases : FlightFits(b, flight[p][b])

(* What a flight's phase says of it.                                       *)
LEMMA FlightParts ==
    ASSUME NEW b, NEW f, FlightFits(b, f)
    PROVE  /\ f.phase # "none" => Timed(b, f)
           /\ f.phase = "lookup" => f = [phase |-> "lookup", now |-> f.now, dl |-> f.dl]
           /\ f.phase \in {"lookup", "current", "evaluate"} => Young(f)
           /\ f.phase = "evaluate" => Succeeds(b, f.pred, f.dl)
           /\ f.phase \in {"commit", "write"} => Carries(b, f)
           /\ f.phase = "write" => Prepared(b, f)
BY Zenon DEF FlightFits

(* While the ledger is as it was, what is current stays current.           *)
LEMMA LedgerStill ==
    ASSUME UNCHANGED ledger
    PROVE  /\ records' = records /\ heads' = heads
           /\ \A b : Current(b)' = Current(b)
BY DEF ledger, Current, Legacy

(* A deadline that is near stays near as time passes.                      *)
LEMMA NotSooner ==
    ASSUME NEW m \in Nat, NEW n \in Nat, m <= n, NEW x \in Nat, NEW d \in Nat
    PROVE  (x <= m => x <= n) /\ (x <= m + d => x <= n + d)
OBVIOUS

(* Time does not disturb a call.                                           *)
LEMMA CallKept ==
    ASSUME NEW v, CallFits(v), UNCHANGED ledger, clock \in Nat, clock' \in Nat, clock <= clock'
    PROVE  CallFits(v)'
<1>1. records' = records /\ \A b, dl : Settled(b, dl)' <=> Settled(b, dl)
  BY Zenon, LedgerStill DEF Settled
<1>2. \A x \in Nat : x <= clock => x <= clock'
  OBVIOUS
<1> QED  BY Zenon, <1>1, <1>2 DEF CallFits

(* Nor a flight.                                                           *)
LEMMA FlightKept ==
    ASSUME NEW b, NEW f, FlightFits(b, f), UNCHANGED ledger, clock \in Nat, clock' \in Nat, clock <= clock'
    PROVE  FlightFits(b, f)'
<1>1. Deadline \in Nat
  BY Zenon, JevAssumption
<1>2. /\ \A dl : Settled(b, dl)' <=> Settled(b, dl)
      /\ \A pred, dl : Succeeds(b, pred, dl)' <=> Succeeds(b, pred, dl)
      /\ \A r : Committable(r)' <=> Committable(r)
      /\ records' = records /\ heads' = heads
  BY Zenon, LedgerStill DEF Settled, Succeeds, Committable
<1>3. \A x \in Nat : (x <= clock => x <= clock') /\ (x <= clock + Deadline => x <= clock' + Deadline)
  BY Zenon, <1>1, NotSooner
<1>4. /\ Timed(b, f) => Timed(b, f)'
      /\ Young(f) => Young(f)'
      /\ Carries(b, f) => Carries(b, f)'
      /\ Prepared(b, f) => Prepared(b, f)'
  BY Zenon, <1>2, <1>3 DEF Timed, Young, Carries, Prepared, WellFormed
<1> QED  BY Zenon, <1>2, <1>4 DEF FlightFits

(* A commit whose record outlives every deadline in force disturbs neither *)
(* the calls nor the flights that wait.                                    *)
LEMMA CallKeptByCommit ==
    ASSUME LedgerInv, NEW r, Commit(r), clock \in Nat, clock' = clock, r.until \in Nat,
           clock + Deadline < r.until, NEW v, CallFits(v)
    PROVE  CallFits(v)'
<1>1. Deadline \in Nat
  BY Zenon, JevAssumption
<1>2. records \subseteq records' /\ r.base \in Bases /\ Current(r.base)' = r
      /\ \A b \in Bases : b # r.base => Current(b)' = Current(b)
  BY Zenon, CommitMakesCurrent
<1>3. ASSUME NEW b \in Bases, NEW n \in Nat, n <= clock, Settled(b, n + Deadline) PROVE Settled(b, n + Deadline)'
  BY <1>1, <1>2, <1>3 DEF Settled
<1> QED  BY Zenon, <1>2, <1>3 DEF CallFits

(* Nor does it disturb a flight: its predecessor stays or is outlived.     *)
LEMMA FlightKeptByCommit ==
    ASSUME LedgerInv, NEW r, Commit(r), clock \in Nat, clock' = clock, r.until \in Nat,
           clock + Deadline < r.until, NEW b \in Bases, NEW f, FlightFits(b, f)
    PROVE  FlightFits(b, f)'
<1>1. Deadline \in Nat /\ r # None
  BY Zenon, JevAssumption DEF Commit, WellFormed
<1>2. /\ r \notin records /\ records \subseteq records' /\ r.base \in Bases
      /\ heads'[r.base] = r /\ Current(r.base)' = r
      /\ \A c \in Bases : c # r.base => /\ heads'[c] = heads[c] /\ Current(c)' = Current(c)
                                        /\ \A s \in records' : s.base = c => s \in records
  BY Zenon, CommitMakesCurrent
<1>3. Timed(b, f) => Timed(b, f)'
  BY <1>1, <1>2 DEF Timed, Settled
<1>4. ASSUME NEW pred, Timed(b, f), Succeeds(b, pred, f.dl) PROVE Succeeds(b, pred, f.dl)'
  BY <1>1, <1>2, <1>4 DEF Timed, Succeeds
<1>5. Timed(b, f) /\ Carries(b, f) => Carries(b, f)'
  BY Zenon, <1>4 DEF Carries, WellFormed
<1>6. Carries(b, f) /\ Prepared(b, f) => Prepared(b, f)'
  <2> SUFFICES ASSUME Carries(b, f), Prepared(b, f), heads'[b] = f.head PROVE Committable(f.rec)'
    BY Zenon, <1>2 DEF Prepared
  <2>1. b # r.base
    BY Zenon, <1>1, <1>2 DEF Prepared
  <2>2. f.rec.base = b /\ Committable(f.rec)
    BY Zenon, <1>2, <2>1 DEF Prepared, Carries
  <2> QED  BY Zenon, <1>2, <2>1, <2>2 DEF Committable
<1>7. Young(f) => Young(f)'
  BY Zenon DEF Young
<1> QED  BY Zenon, <1>3, <1>4, <1>5, <1>6, <1>7 DEF FlightFits

(* Only what the ledger holds matters to its invariant.                    *)
LEMMA LedgerInvStill == ASSUME LedgerInv, UNCHANGED ledger PROVE LedgerInv'
BY DEF ledger, LedgerInv, OneGenerationAtATime, Current, Legacy, WellFormed

(* The invariant's parts, one by one.                                      *)
LEMMA JevParts ==
    ASSUME JevInv
    PROVE  /\ LedgerInv /\ clock \in Nat /\ clock <= MaxTime /\ faults \in Nat /\ Deadline \in Nat
           /\ call = [c \in Callers |-> call[c]]
           /\ FlightShape
           /\ \A c \in Callers : CallFits(call[c])
           /\ \A p \in Procs, b \in Bases : FlightFits(b, flight[p][b])
<1>1. clock \in 0..MaxTime /\ faults \in 0..MaxFaults
  BY Zenon DEF JevInv
<1>2. clock \in Nat /\ clock <= MaxTime /\ faults \in Nat /\ Deadline \in Nat
  BY <1>1, JevAssumption
<1> QED  BY Zenon, <1>2 DEF JevInv

(* What is current is a record.                                            *)
LEMMA CurrentTyped ==
    ASSUME LedgerInv, NEW b \in Bases, Current(b) # None
    PROVE  Current(b) \in records /\ Current(b).base = b /\ Current(b).until \in Nat
<1>1. Current(b) \in records /\ Current(b).base = b
  BY Zenon, CurrentIsRecord
<1> QED  BY Zenon, <1>1 DEF LedgerInv, WellFormed

Replace(p, b, f) == flight' = [flight EXCEPT ![p][b] = f]

(* One flight is replaced; the others are where they were.                 *)
LEMMA FlightReplaced ==
    ASSUME FlightShape,
           NEW p \in Procs, NEW b \in Bases, NEW f, Replace(p, b, f)
    PROVE  /\ FlightShape'
           /\ flight'[p][b] = f
           /\ \A q \in Procs, c \in Bases : q # p \/ c # b => flight'[q][c] = flight[q][c]
<1> DEFINE g == [flight[p] EXCEPT ![b] = f]
<1>1. \A q \in Procs : flight[q] = [c \in Bases |-> flight[q][c]]
  BY Zenon DEF FlightShape
<1>2. g = [c \in Bases |-> IF c = b THEN f ELSE flight[p][c]]
  BY Zenon, <1>1
<1>3. flight' = [flight EXCEPT ![p] = g]
  BY Zenon DEF Replace
<1> HIDE DEF g
<1>4. flight' = [q \in Procs |-> IF q = p THEN g ELSE flight[q]]
  BY Zenon, <1>3 DEF FlightShape
<1>5. flight'[p] = g /\ \A q \in Procs : q # p => flight'[q] = flight[q]
  BY Zenon, <1>4
<1>6. g[b] = f /\ \A c \in Bases : c # b => g[c] = flight[p][c]
  BY Zenon, <1>2
<1>7. g = [c \in Bases |-> g[c]]
  BY Zenon, <1>2
<1>8. \A q \in Procs : flight'[q] = [c \in Bases |-> flight'[q][c]]
  BY Zenon, <1>1, <1>5, <1>7
<1>9. FlightShape'
  BY Zenon, <1>4, <1>8 DEF FlightShape
<1> QED  BY Zenon, <1>5, <1>6, <1>9

(* The ledger is not written: only the calls and flights that move are to  *)
(* be looked at.                                                           *)
LEMMA NothingWritten ==
    ASSUME JevInv, UNCHANGED ledger, clock' \in 0..MaxTime, clock <= clock',
           faults' \in 0..MaxFaults, call' = [c \in Callers |-> call'[c]], FlightShape',
           \A c \in Callers : call'[c] = call[c] \/ CallFits(call'[c]),
           \A p \in Procs, b \in Bases : flight'[p][b] = flight[p][b] \/ FlightFits(b, flight'[p][b])
    PROVE  JevInv'
<1>1. clock' \in Nat
  BY JevAssumption
<1>2. clock \in Nat
  BY Zenon, JevParts
<1>3. ASSUME NEW c \in Callers PROVE CallFits(call[c])'
  <2>1. PICK v : v = call'[c]
    BY Zenon
  <2>2. CallFits(v)
    BY Zenon, <2>1, JevParts
  <2>3. CallFits(v)'
    BY Zenon, <1>1, <1>2, <2>2, CallKept
  <2> QED  BY Zenon, <2>1, <2>3
<1>4. ASSUME NEW p \in Procs, NEW b \in Bases PROVE FlightFits(b, flight[p][b])'
  <2>1. PICK f : f = flight'[p][b]
    BY Zenon
  <2>2. FlightFits(b, f)
    BY Zenon, <2>1, JevParts
  <2>3. FlightFits(b, f)'
    BY Zenon, <1>1, <1>2, <2>2, FlightKept
  <2> QED  BY Zenon, <2>1, <2>3
<1>5. LedgerInv'
  BY Zenon, JevParts, LedgerInvStill
<1> QED  BY Zenon, <1>3, <1>4, <1>5 DEF JevInv

(* The same while time stands still.                                       *)
LEMMA StandingStill ==
    ASSUME JevInv, UNCHANGED <<records, heads, clock>>,
           faults' \in 0..MaxFaults, call' = [c \in Callers |-> call'[c]], FlightShape',
           \A c \in Callers : call'[c] = call[c] \/ CallFits(call'[c]),
           \A p \in Procs, b \in Bases : flight'[p][b] = flight[p][b] \/ FlightFits(b, flight'[p][b])
    PROVE  JevInv'
<1>1. UNCHANGED ledger /\ clock' = clock /\ clock \in Nat /\ clock' \in 0..MaxTime
  BY Zenon, JevParts DEF ledger, JevInv
<1>2. clock <= clock'
  BY <1>1
<1> QED  BY Zenon, <1>1, <1>2, NothingWritten

(* Faults are counted up to their bound.                                   *)
LEMMA FaultsBounded ==
    ASSUME JevInv, Fault \/ UNCHANGED faults PROVE faults' \in 0..MaxFaults
<1>1. faults \in 0..MaxFaults
  BY Zenon DEF JevInv
<1> QED  BY <1>1, JevAssumption DEF Fault

(* A flight moves on and nothing else changes: only that flight is to be   *)
(* looked at.                                                              *)
LEMMA FlightMoves ==
    ASSUME JevInv, NEW p \in Procs, NEW b \in Bases, NEW f, Replace(p, b, f), FlightFits(b, f),
           UNCHANGED <<records, heads, clock, call>>, UNCHANGED faults
    PROVE  JevInv'
<1>1. /\ FlightShape' /\ flight'[p][b] = f
      /\ \A q \in Procs, c \in Bases : q # p \/ c # b => flight'[q][c] = flight[q][c]
  <2>1. FlightShape
    BY Zenon, JevParts
  <2> QED  BY Zenon, <2>1, FlightReplaced
<1>2. \A q \in Procs, c \in Bases : flight'[q][c] = flight[q][c] \/ FlightFits(c, flight'[q][c])
  BY Zenon, <1>1
<1>3. call' = [c \in Callers |-> call'[c]] /\ \A c \in Callers : call'[c] = call[c]
  BY Zenon, JevParts
<1> QED  BY Zenon, <1>1, <1>2, <1>3, FaultsBounded, StandingStill

(* An answer that is in the ledger and was fresh when asked, or none.      *)
LEMMA DoneFits ==
    ASSUME NEW now, NEW answer, answer # None => answer \in records /\ now < answer.until
    PROVE  CallFits(Done(now, answer))
BY Zenon DEF CallFits, Done, NoCall

(* A flight ends: whoever waits for it gets such an answer.                *)
LEMMA FlightEnds ==
    ASSUME JevInv, NEW p \in Procs, NEW b \in Bases, NEW answer, NEW s, Finish(p, b, answer, s),
           answer # None =>
               answer \in records /\ \A c \in Waiting(p, b) : call[c].now < answer.until,
           Fault \/ UNCHANGED faults
    PROVE  JevInv'
<1>1. UNCHANGED <<records, heads, clock>> /\ Replace(p, b, NoFlight)
  BY Zenon DEF Finish, Replace
<1>2. /\ FlightShape' /\ flight'[p][b] = NoFlight
      /\ \A q \in Procs, c \in Bases : q # p \/ c # b => flight'[q][c] = flight[q][c]
  <2>1. FlightShape
    BY Zenon, JevParts
  <2> QED  BY Zenon, <1>1, <2>1, FlightReplaced
<1>3. FlightFits(b, NoFlight)
  BY Zenon DEF FlightFits, NoFlight
<1>4. \A q \in Procs, c \in Bases : flight'[q][c] = flight[q][c] \/ FlightFits(c, flight'[q][c])
  BY Zenon, <1>2, <1>3
<1>5. /\ call' = [c \in Callers |-> call'[c]]
      /\ \A c \in Callers : call'[c] = IF c \in Waiting(p, b) THEN Done(call[c].now, answer) ELSE call[c]
  BY Zenon DEF Finish
<1>6. \A c \in Callers : call'[c] = call[c] \/ CallFits(call'[c])
  <2> SUFFICES ASSUME NEW c \in Callers, c \in Waiting(p, b) PROVE CallFits(Done(call[c].now, answer))
    BY Zenon, <1>5
  <2> QED  BY Zenon, DoneFits
<1> QED  BY Zenon, <1>1, <1>2, <1>4, <1>5, <1>6, FaultsBounded, StandingStill

(* The same for an answer that outlives the flight's deadline.             *)
LEMMA FlightEndsWithCurrent ==
    ASSUME JevInv, NEW p \in Procs, NEW b \in Bases, NEW s, Finish(p, b, Current(b), s),
           Timed(b, flight[p][b]), ~Expired(flight[p][b].dl),
           Current(b) # None, flight[p][b].dl < Current(b).until,
           Fault \/ UNCHANGED faults
    PROVE  JevInv'
<1>1. Current(b) \in records /\ Current(b).until \in Nat
  BY Zenon, JevParts, CurrentTyped
<1>2. clock \in Nat /\ flight[p][b].dl \in Nat /\ clock <= flight[p][b].dl
  <2>1. clock \in Nat
    BY Zenon, JevParts
  <2> QED  BY <2>1 DEF Timed, Expired
<1>3. ASSUME NEW c \in Waiting(p, b) PROVE call[c].now < Current(b).until
  <2>1. call[c].now \in Nat /\ call[c].now <= clock
    <3>1. c \in Callers /\ call[c].phase = "wait"
      BY Zenon DEF Waiting
    <3>2. CallFits(call[c])
      BY Zenon, <3>1, JevParts
    <3> QED  BY Zenon, <3>1, <3>2 DEF CallFits
  <2> QED  BY <1>1, <1>2, <2>1
<1> QED  BY Zenon, <1>1, <1>3, FlightEnds

Assign(c, v) == call' = [call EXCEPT ![c] = v]

(* One call moves; the others are where they were.                         *)
LEMMA CallReplaced ==
    ASSUME JevInv, NEW c \in Callers, NEW v, Assign(c, v)
    PROVE  /\ call' = [d \in Callers |-> call'[d]]
           /\ call'[c] = v /\ \A d \in Callers : d # c => call'[d] = call[d]
<1>1. call = [d \in Callers |-> call[d]]
  BY Zenon, JevParts
<1>2. call' = [d \in Callers |-> IF d = c THEN v ELSE call[d]]
  BY Zenon, <1>1 DEF Assign
<1> QED  BY Zenon, <1>2

(* A call moves and nothing else changes.                                  *)
LEMMA CallMoves ==
    ASSUME JevInv, NEW c \in Callers, NEW v, Assign(c, v), CallFits(v),
           UNCHANGED <<records, heads, clock, flight>>, Fault \/ UNCHANGED faults
    PROVE  JevInv'
<1>1. FlightShape' /\ \A p \in Procs, b \in Bases : flight'[p][b] = flight[p][b]
  BY Zenon, JevParts DEF FlightShape
<1>2. /\ call' = [d \in Callers |-> call'[d]]
      /\ \A d \in Callers : call'[d] = call[d] \/ CallFits(call'[d])
  BY Zenon, CallReplaced
<1> QED  BY Zenon, <1>1, <1>2, FaultsBounded, StandingStill

-----------------------------------------------------------------------------
(* Time passes.                                                            *)
LEMMA TickKeeps == ASSUME JevInv, Tick PROVE JevInv'
<1>1. UNCHANGED ledger /\ flight' = flight /\ call' = call /\ faults' = faults
  BY Zenon DEF Tick, ledger
<1>2. clock' \in 0..MaxTime /\ clock <= clock'
  <2>1. clock \in Nat
    BY Zenon, JevParts
  <2> QED  BY <2>1, JevAssumption DEF Tick
<1>3. FlightShape' /\ call' = [c \in Callers |-> call'[c]] /\ faults' \in 0..MaxFaults
  BY Zenon, <1>1, JevParts DEF FlightShape, JevInv
<1> QED  BY Zenon, <1>1, <1>2, <1>3, NothingWritten

(* The first look: what is reusable now is fresh, and what is not was over *)
(* when the question was asked.                                            *)
LEMMA JudgeKeeps ==
    ASSUME JevInv, NEW c \in Callers, NEW b \in Asks[c], Judge(c, b) PROVE JevInv'
<1>0. b \in Bases
  BY Zenon, JevAssumption
<1>1. LedgerInv /\ clock \in Nat /\ Deadline \in Nat /\ UNCHANGED <<records, heads, clock, flight>>
  BY Zenon, JevParts DEF Judge
<1>2. Current(b) # None => Current(b) \in records /\ Current(b).until \in Nat
  BY Zenon, <1>0, <1>1, CurrentTyped
<1>3. CASE Fault /\ call' = [call EXCEPT ![c] = Done(clock, None)]
  BY Zenon, <1>1, <1>3, DoneFits, CallMoves DEF Assign
<1>4. CASE Reusable(b, clock) /\ call' = [call EXCEPT ![c] = Done(clock, Current(b))] /\ UNCHANGED faults
  <2>1. Current(b) \in records /\ clock < Current(b).until
    BY Zenon, <1>2, <1>4 DEF Reusable
  <2>2. CallFits(Done(clock, Current(b)))
    BY Zenon, <2>1, DoneFits
  <2> QED  BY Zenon, <1>1, <1>4, <2>2, CallMoves DEF Assign
<1>5. CASE /\ ~Reusable(b, clock) /\ UNCHANGED faults
           /\ call' = [call EXCEPT ![c] = [phase |-> "miss", base |-> b, now |-> clock, dl |-> clock + Deadline]]
  <2> DEFINE v == [phase |-> "miss", base |-> b, now |-> clock, dl |-> clock + Deadline]
  <2>1. Assign(c, v)
    BY Zenon, <1>5 DEF Assign
  <2>2. Settled(b, clock + Deadline)
    BY <1>1, <1>2, <1>5 DEF Settled, Reusable
  <2>3. CallFits(v)
    BY <1>0, <1>1, <2>2 DEF CallFits
  <2> HIDE DEF v
  <2> QED  BY Zenon, <1>1, <1>5, <2>1, <2>3, CallMoves
<1> QED  BY Zenon, <1>3, <1>4, <1>5 DEF Judge

(* A caller joins a flight, or starts one with its own deadline.           *)
LEMMA DoChanKeeps == ASSUME JevInv, NEW c \in Callers, DoChan(c) PROVE JevInv'
<1>1. clock \in Nat /\ Deadline \in Nat /\ CallFits(call[c]) /\ call[c].phase = "miss" /\ FlightShape
  BY Zenon, JevParts DEF DoChan
<1>2. PICK p \in Procs, b \in Bases, n \in Nat, dl \in Nat :
        /\ p = ProcOf[c] /\ n <= clock /\ dl = n + Deadline /\ Settled(b, dl)
        /\ call[c] = [phase |-> "miss", base |-> b, now |-> n, dl |-> dl]
  <2>1. /\ call[c].base \in Bases /\ call[c].now \in Nat /\ call[c].now <= clock
        /\ call[c].dl = call[c].now + Deadline /\ Settled(call[c].base, call[c].dl)
        /\ call[c] = [phase |-> "miss", base |-> call[c].base, now |-> call[c].now, dl |-> call[c].dl]
    BY Zenon, <1>1 DEF CallFits
  <2>2. call[c].dl \in Nat /\ ProcOf[c] \in Procs
    BY <1>1, <2>1, JevAssumption
  <2> QED  BY Zenon, <2>1, <2>2
<1> DEFINE v == [phase |-> "wait", base |-> b, now |-> n, dl |-> dl]
           g == [phase |-> "lookup", now |-> clock, dl |-> dl]
<1>3. UNCHANGED <<records, heads, clock>> /\ UNCHANGED faults
  BY Zenon DEF DoChan
<1>4. Assign(c, v)
  <2>1. [call[c] EXCEPT !.phase = "wait"] = v
    BY <1>2
  <2>2. call' = [call EXCEPT ![c] = [call[c] EXCEPT !.phase = "wait"]]
    BY Zenon DEF DoChan
  <2> QED  BY Zenon, <2>1, <2>2 DEF Assign
<1>5. CallFits(v)
  BY Zenon, <1>2 DEF CallFits
<1>6. FlightFits(b, g)
  BY <1>1, <1>2 DEF FlightFits, Timed, Young
<1> HIDE DEF v
<1>7. /\ call' = [d \in Callers |-> call'[d]]
      /\ \A d \in Callers : call'[d] = call[d] \/ CallFits(call'[d])
  BY Zenon, <1>4, <1>5, CallReplaced
<1>8. /\ FlightShape'
      /\ \A q \in Procs, d \in Bases : flight'[q][d] = flight[q][d] \/ FlightFits(d, flight'[q][d])
  <2>1. CASE flight' = flight
    BY Zenon, <1>1, <2>1 DEF FlightShape
  <2>2. CASE Replace(p, b, g)
    <3> HIDE DEF g
    <3>1. p \in Procs /\ b \in Bases
      BY Zenon, <1>2
    <3>2. /\ FlightShape' /\ flight'[p][b] = g
          /\ \A q \in Procs, d \in Bases : q # p \/ d # b => flight'[q][d] = flight[q][d]
      BY Zenon, <1>1, <2>2, <3>1, FlightReplaced
    <3> QED  BY Zenon, <1>6, <3>2
  <2>3. ProcOf[c] = p /\ call[c].base = b /\ call[c].dl = dl
    BY <1>2
  <2> QED  BY Zenon, <2>1, <2>2, <2>3 DEF DoChan, Replace
<1> QED  BY Zenon, <1>3, <1>7, <1>8, FaultsBounded, StandingStill

(* A caller leaves; its flight goes on.                                    *)
LEMMA GiveUpKeeps == ASSUME JevInv, NEW c \in Callers, GiveUp(c) PROVE JevInv'
BY Zenon, DoneFits, CallMoves DEF GiveUp, Assign

(* What is reusable at a flight's time, which is not before the question,  *)
(* outlives the flight.                                                    *)
LEMMA FreshOutlives ==
    ASSUME JevInv, NEW b \in Bases, NEW f, Timed(b, f), NEW t \in Nat, f.dl <= t + Deadline,
           Current(b) # None, t < Current(b).until
    PROVE  f.dl < Current(b).until
<1>1. Current(b).until \in Nat /\ Deadline \in Nat
  BY Zenon, JevParts, CurrentTyped
<1> QED  BY <1>1 DEF Timed, Settled

(* So a flight that finds a reusable judgment ends with it.                *)
LEMMA ReusableEnds ==
    ASSUME JevInv, NEW p \in Procs, NEW b \in Bases, NEW s, Finish(p, b, Current(b), s),
           Timed(b, flight[p][b]), Young(flight[p][b]), ~Expired(flight[p][b].dl),
           Reusable(b, flight[p][b].now), UNCHANGED faults
    PROVE  JevInv'
<1>1. Current(b) # None /\ flight[p][b].dl < Current(b).until
  BY Zenon, FreshOutlives DEF Reusable, Young
<1> QED  BY Zenon, <1>1, FlightEndsWithCurrent

(* The second look.                                                        *)
LEMMA LookupKeeps ==
    ASSUME JevInv, NEW p \in Procs, NEW b \in Bases, Lookup(p, b) PROVE JevInv'
<1>1. FlightFits(b, flight[p][b]) /\ flight[p][b].phase = "lookup"
  BY Zenon, JevParts DEF Lookup
<1>2. PICK f : f = flight[p][b]
  BY Zenon
<1>3. Timed(b, f) /\ Young(f) /\ f = [phase |-> "lookup", now |-> f.now, dl |-> f.dl]
  BY Zenon, <1>1, <1>2, FlightParts
<1>4. CASE Finish(p, b, None, svc[p]) /\ (Fault \/ UNCHANGED faults)
  BY Zenon, <1>4, FlightEnds
<1>5. CASE ~Expired(f.dl) /\ Reusable(b, f.now) /\ Finish(p, b, Current(b), svc[p]) /\ UNCHANGED faults
  BY Zenon, <1>2, <1>3, <1>5, ReusableEnds
<1>6. CASE /\ flight' = [flight EXCEPT ![p][b].phase = "current"]
           /\ UNCHANGED <<records, heads, clock, call, svc, faults>>
  <2> DEFINE g == [phase |-> "current", now |-> f.now, dl |-> f.dl]
  <2>1. Replace(p, b, g)
    <3>1. [f EXCEPT !.phase = "current"] = g
      BY <1>3
    <3> QED  BY Zenon, <1>2, <1>6, <3>1 DEF Replace
  <2>2. FlightFits(b, g)
    <3>1. g.phase = "current" /\ g.now = f.now /\ g.dl = f.dl
      BY Zenon
    <3> HIDE DEF g
    <3> QED  BY Zenon, <1>3, <3>1 DEF FlightFits, Timed, Young
  <2> HIDE DEF g
  <2> QED  BY Zenon, <1>6, <2>1, <2>2, FlightMoves
<1> QED  BY Zenon, <1>2, <1>4, <1>5, <1>6 DEF Lookup

(* Admission: what is current becomes the predecessor.                     *)
LEMMA AdmitKeeps ==
    ASSUME JevInv, NEW p \in Procs, NEW b \in Bases, Admit(p, b) PROVE JevInv'
<1>1. FlightFits(b, flight[p][b]) /\ flight[p][b].phase = "current" /\ LedgerInv
  BY Zenon, JevParts DEF Admit
<1>2. PICK f : f = flight[p][b]
  BY Zenon
<1>3. Timed(b, f) /\ Young(f)
  BY Zenon, <1>1, <1>2, FlightParts
<1> DEFINE g == [phase |-> "evaluate", now |-> f.now, dl |-> f.dl, pred |-> Current(b)]
<1>4. CASE (\E s : Finish(p, b, None, s)) /\ (Fault \/ UNCHANGED faults)
  BY Zenon, <1>4, FlightEnds
<1>5. CASE ~Expired(f.dl) /\ Reusable(b, f.now) /\ Finish(p, b, Current(b), svc[p]) /\ UNCHANGED faults
  BY Zenon, <1>2, <1>3, <1>5, ReusableEnds
<1>6. CASE Replace(p, b, g) /\ UNCHANGED <<records, heads, clock, call>> /\ UNCHANGED faults
  <2>1. Current(b) = None \/ (Current(b) \in records /\ Current(b).base = b)
    BY Zenon, <1>1, CurrentTyped
  <2>2. Succeeds(b, Current(b), f.dl)
    BY Zenon, <2>1 DEF Succeeds
  <2>3. g.phase = "evaluate" /\ g.now = f.now /\ g.dl = f.dl /\ g.pred = Current(b)
    BY Zenon
  <2> HIDE DEF g
  <2>4. FlightFits(b, g)
    BY Zenon, <1>3, <2>2, <2>3 DEF FlightFits, Timed, Young
  <2> QED  BY Zenon, <1>6, <2>4, FlightMoves
<1> QED  BY Zenon, <1>2, <1>4, <1>5, <1>6 DEF Admit, Replace

(* The provider answers: the record to be committed.                       *)
LEMMA EvaluateKeeps ==
    ASSUME JevInv, NEW p \in Procs, NEW b \in Bases, Evaluate(p, b) PROVE JevInv'
<1>1. FlightFits(b, flight[p][b]) /\ flight[p][b].phase = "evaluate" /\ UNCHANGED faults
  BY Zenon, JevParts DEF Evaluate
<1>2. PICK f : f = flight[p][b]
  BY Zenon
<1>3. Timed(b, f) /\ Young(f) /\ Succeeds(b, f.pred, f.dl)
  BY Zenon, <1>1, <1>2, FlightParts
<1> DEFINE r(v) == [base |-> b, pred |-> f.pred, created |-> f.now, until |-> f.now + Reuse, verdict |-> v]
           g(v) == [phase |-> "commit", dl |-> f.dl, tries |-> 0, rec |-> r(v)]
<1>4. CASE \E s : Finish(p, b, None, s)
  BY Zenon, <1>1, <1>4, FlightEnds
<1>5. ASSUME NEW v, Replace(p, b, g(v)), UNCHANGED <<records, heads, clock, call>>
      PROVE  JevInv'
  <2>1. WellFormed(r(v))
    BY <1>3, JevAssumption, NoRecordAssumption DEF WellFormed, Young
  <2>2. r(v).until = r(v).created + Reuse /\ r(v).created = f.now /\ r(v).base = b /\ r(v).pred = f.pred
    BY Zenon
  <2>3. g(v).phase = "commit" /\ g(v).dl = f.dl /\ g(v).rec = r(v)
    BY Zenon
  <2> HIDE DEF r, g
  <2>4. FlightFits(b, g(v))
    BY Zenon, <1>3, <2>1, <2>2, <2>3 DEF FlightFits, Timed, Young, Carries
  <2> QED  BY Zenon, <1>1, <1>5, <2>4, FlightMoves
<1> QED  BY Zenon, <1>2, <1>4, <1>5 DEF Evaluate, Replace

(* commitOnce reads: a winner outlives the flight, and where there is none *)
(* the record may be committed on the head that was read.                  *)
LEMMA CommitReadKeeps ==
    ASSUME JevInv, NEW p \in Procs, NEW b \in Bases, CommitRead(p, b) PROVE JevInv'
<1>1. FlightFits(b, flight[p][b]) /\ flight[p][b].phase = "commit" /\ LedgerInv
  BY Zenon, JevParts DEF CommitRead
<1>2. PICK f : f = flight[p][b]
  BY Zenon
<1>3. Timed(b, f) /\ Carries(b, f)
  BY Zenon, <1>1, <1>2, FlightParts
<1>4. /\ WellFormed(f.rec) /\ f.rec.base = b /\ f.dl <= f.rec.created + Deadline
      /\ Succeeds(b, f.rec.pred, f.dl) /\ f.rec.created \in Nat
  BY Zenon, <1>3 DEF Carries, WellFormed
<1> DEFINE g == [phase |-> "write", dl |-> f.dl, tries |-> f.tries, rec |-> f.rec, head |-> heads[b]]
<1>5. CASE (\E s : Finish(p, b, None, s)) /\ (Fault \/ UNCHANGED faults)
  BY Zenon, <1>5, FlightEnds
<1>6. CASE ~Expired(f.dl) /\ Beaten(f.rec) /\ (\E s : Finish(p, b, Current(b), s)) /\ UNCHANGED faults
  <2>1. Current(b) # None /\ (f.rec.created < Current(b).until \/ Current(b) # f.rec.pred)
    BY Zenon, <1>4, <1>6 DEF Beaten
  <2>2. f.dl < Current(b).until
    <3>1. CASE f.rec.created < Current(b).until
      BY Zenon, <1>3, <1>4, <2>1, <3>1, FreshOutlives
    <3>2. CASE Current(b) # f.rec.pred
      BY Zenon, <1>4, <3>2 DEF Succeeds
    <3> QED  BY Zenon, <2>1, <3>1, <3>2
  <2> QED  BY Zenon, <1>2, <1>3, <1>6, <2>1, <2>2, FlightEndsWithCurrent
<1>7. CASE /\ ~Beaten(f.rec) /\ ~(\E s \in records : s.base = b /\ s.pred = f.rec.pred /\ s # f.rec)
           /\ Replace(p, b, g) /\ UNCHANGED <<records, heads, clock, call>> /\ UNCHANGED faults
  <2>1. f.rec.pred = Current(b)
    <3>1. CASE Current(b) = None
      BY Zenon, <1>1, <1>4, <3>1, CurrentIsRecord DEF Succeeds
    <3>2. CASE Current(b) # None
      BY Zenon, <1>4, <1>7, <3>2 DEF Beaten
    <3> QED  BY Zenon, <3>1, <3>2
  <2>2. Current(b) # None => Current(b).until <= f.rec.created
    <3> SUFFICES ASSUME Current(b) # None PROVE Current(b).until <= f.rec.created
      BY Zenon
    <3>1. Current(b).until \in Nat /\ ~(f.rec.created < Current(b).until)
      BY Zenon, <1>1, <1>4, <1>7, CurrentTyped DEF Beaten
    <3> QED  BY <1>4, <3>1
  <2>3. Committable(f.rec)
    BY Zenon, <1>4, <1>7, <2>1, <2>2 DEF Committable
  <2>4. heads[b] \in records \union {None}
    BY Zenon, <1>1 DEF LedgerInv
  <2>5. g.phase = "write" /\ g.dl = f.dl /\ g.rec = f.rec /\ g.head = heads[b]
    BY Zenon
  <2> HIDE DEF g
  <2>6. FlightFits(b, g)
    BY Zenon, <1>3, <2>3, <2>4, <2>5 DEF FlightFits, Timed, Carries, Prepared
  <2> QED  BY Zenon, <1>7, <2>6, FlightMoves
<1> QED  BY Zenon, <1>2, <1>5, <1>6, <1>7 DEF CommitRead, Committed, Unwritten, Replace

(* The transaction whose head has not moved is a commit of the ledger, and *)
(* its record outlives every deadline in force.                            *)
LEMMA WriteCommits ==
    ASSUME JevInv, NEW p \in Procs, NEW b \in Bases, flight[p][b].phase = "write",
           ~Expired(flight[p][b].dl), heads[b] = flight[p][b].head,
           NEW r, r = flight[p][b].rec, Persist(r)
    PROVE  Commit(r) /\ r \in records' /\ r # None /\ r.until \in Nat /\ clock + Deadline < r.until
<1>1. PICK f : f = flight[p][b]
  BY Zenon
<1>2. Timed(b, f) /\ Carries(b, f) /\ Prepared(b, f) /\ clock \in Nat
  BY Zenon, <1>1, JevParts, FlightParts
<1>3. /\ WellFormed(r) /\ r.base = b /\ r.until = r.created + Reuse /\ Committable(r)
      /\ f.dl \in Nat /\ f.dl <= r.created + Deadline
  BY Zenon, <1>1, <1>2 DEF Timed, Carries, Prepared
<1>4. Commit(r)
  BY Zenon, <1>3 DEF Commit, Committable, Persist
<1>5. r.created \in Nat /\ r.until \in Nat /\ r # None
  BY Zenon, <1>3 DEF WellFormed
<1>6. clock + Deadline < r.until
  <2>1. ~(clock > f.dl)
    BY Zenon, <1>1 DEF Expired
  <2> QED  BY <1>2, <1>3, <1>5, <2>1, JevAssumption
<1>7. r \in records'
  BY Zenon DEF Persist
<1> QED  BY Zenon, <1>4, <1>5, <1>6, <1>7

(* It keeps the invariant, whether the answer reaches the callers or not.  *)
LEMMA WriteKeeps ==
    ASSUME JevInv, NEW p \in Procs, NEW b \in Bases, flight[p][b].phase = "write",
           ~Expired(flight[p][b].dl), heads[b] = flight[p][b].head,
           NEW r, r = flight[p][b].rec, Persist(r), NEW answer \in {None, r},
           call' = [c \in Callers |-> IF c \in Waiting(p, b) THEN Done(call[c].now, answer)
                                      ELSE call[c]],
           flight' = [flight EXCEPT ![p][b] = NoFlight], clock' = clock, Fault \/ UNCHANGED faults
    PROVE  JevInv'
<1>1. Commit(r) /\ r \in records' /\ r # None /\ r.until \in Nat /\ clock + Deadline < r.until
  BY Zenon, WriteCommits
<1>2. LedgerInv /\ clock \in Nat /\ Deadline \in Nat /\ FlightShape
  BY Zenon, JevParts
<1>3. LedgerInv'
  BY Zenon, <1>1, <1>2, LedgerCommit
<1>4. /\ FlightShape' /\ flight'[p][b] = NoFlight
      /\ \A q \in Procs, c \in Bases : q # p \/ c # b => flight'[q][c] = flight[q][c]
  <2>1. Replace(p, b, NoFlight)
    BY Zenon DEF Replace
  <2> QED  BY Zenon, <1>2, <2>1, FlightReplaced
<1>5. /\ call' = [c \in Callers |-> call'[c]]
      /\ \A c \in Callers : call'[c] = IF c \in Waiting(p, b) THEN Done(call[c].now, answer) ELSE call[c]
  BY Zenon
<1>6. ASSUME NEW c \in Callers PROVE CallFits(call[c])'
  <2>0. CallFits(call[c])
    BY Zenon, JevParts
  <2>1. CASE c \in Waiting(p, b)
    <3>1. PICK now : now = call[c].now
      BY Zenon
    <3>2. now \in Nat /\ now <= clock
      BY Zenon, <2>0, <2>1, <3>1 DEF CallFits, Waiting
    <3>3. now < r.until
      BY <1>1, <1>2, <3>2
    <3>4. CallFits(Done(now, answer))'
      <4>1. \/ Done(now, answer) = NoCall
            \/ Done(now, answer) = [phase |-> "done", now |-> now, answer |-> r]
        BY Zenon DEF Done
      <4> QED  BY Zenon, <1>1, <3>3, <4>1 DEF CallFits, NoCall, Done
    <3> QED  BY Zenon, <1>5, <2>1, <3>1, <3>4 DEF Done
  <2>2. CASE c \notin Waiting(p, b)
    <3>1. PICK v : v = call[c]
      BY Zenon
    <3>2. CallFits(v)'
      BY Zenon, <1>1, <1>2, <2>0, <3>1, CallKeptByCommit
    <3> QED  BY Zenon, <1>5, <2>2, <3>1, <3>2
  <2> QED  BY Zenon, <2>1, <2>2
<1>7. ASSUME NEW q \in Procs, NEW c \in Bases PROVE FlightFits(c, flight[q][c])'
  <2>1. CASE q = p /\ c = b
    <3>1. flight'[q][c].phase = "none"
      BY <1>4, <2>1 DEF NoFlight
    <3> QED  BY Zenon, <3>1 DEF FlightFits
  <2>2. CASE q # p \/ c # b
    <3>1. PICK f : f = flight[q][c]
      BY Zenon
    <3>2. FlightFits(c, f)
      BY Zenon, <3>1, JevParts
    <3>3. FlightFits(c, f)'
      BY Zenon, <1>1, <1>2, <3>2, FlightKeptByCommit
    <3> QED  BY Zenon, <1>4, <2>2, <3>1, <3>3
  <2> QED  BY Zenon, <2>1, <2>2
<1>8. clock' \in 0..MaxTime /\ faults' \in 0..MaxFaults
  BY Zenon, FaultsBounded DEF JevInv
<1> QED  BY Zenon, <1>3, <1>4, <1>5, <1>6, <1>7, <1>8 DEF JevInv

(* commitOnce writes, finds the head moved and reads again, or fails.      *)
LEMMA CommitWriteKeeps ==
    ASSUME JevInv, NEW p \in Procs, NEW b \in Bases, CommitWrite(p, b) PROVE JevInv'
<1>1. FlightFits(b, flight[p][b]) /\ flight[p][b].phase = "write"
  BY Zenon, JevParts DEF CommitWrite
<1>2. PICK f : f = flight[p][b]
  BY Zenon
<1>3. Timed(b, f) /\ Carries(b, f)
  BY Zenon, <1>1, <1>2, FlightParts
<1> DEFINE g == [phase |-> "commit", dl |-> f.dl, tries |-> f.tries + 1, rec |-> f.rec]
<1>4. CASE (\E s : Finish(p, b, None, s)) /\ (Fault \/ UNCHANGED faults)
  BY Zenon, <1>4, FlightEnds
<1>5. CASE Replace(p, b, g) /\ UNCHANGED <<records, heads, clock, call>> /\ UNCHANGED faults
  <2>1. g.phase = "commit" /\ g.dl = f.dl /\ g.rec = f.rec
    BY Zenon
  <2> HIDE DEF g
  <2>2. FlightFits(b, g)
    BY Zenon, <1>3, <2>1 DEF FlightFits, Timed, Carries
  <2> QED  BY Zenon, <1>5, <2>2, FlightMoves
<1>6. ASSUME NEW answer \in {None, f.rec}, ~Expired(f.dl), heads[b] = f.head, Persist(f.rec),
             call' = [c \in Callers |-> IF c \in Waiting(p, b) THEN Done(call[c].now, answer)
                                        ELSE call[c]],
             flight' = [flight EXCEPT ![p][b] = NoFlight], clock' = clock, Fault \/ UNCHANGED faults
      PROVE  JevInv'
  BY Zenon, <1>1, <1>2, <1>6, WriteKeeps
<1>7. CASE /\ ~Expired(f.dl) /\ heads[b] = f.head /\ Persist(f.rec)
           /\ call' = [c \in Callers |-> IF c \in Waiting(p, b) THEN Done(call[c].now, f.rec) ELSE call[c]]
           /\ flight' = [flight EXCEPT ![p][b] = NoFlight] /\ UNCHANGED <<clock, faults>>
  BY Zenon, <1>6, <1>7
<1>8. CASE /\ ~Expired(f.dl) /\ heads[b] = f.head /\ Persist(f.rec) /\ Fault
           /\ call' = [c \in Callers |-> IF c \in Waiting(p, b) THEN Done(call[c].now, None) ELSE call[c]]
           /\ flight' = [flight EXCEPT ![p][b] = NoFlight] /\ UNCHANGED clock
  BY Zenon, <1>6, <1>8
<1> QED  BY Zenon, <1>2, <1>4, <1>5, <1>7, <1>8 DEF CommitWrite, Unwritten, Replace

(* A process restarts.                                                     *)
LEMMA CrashKeeps == ASSUME JevInv, NEW p \in Procs, Crash(p) PROVE JevInv'
<1>1. UNCHANGED <<records, heads, clock>> /\ faults' \in 0..MaxFaults
  BY Zenon, FaultsBounded DEF Crash
<1>2. /\ call' = [c \in Callers |-> call'[c]]
      /\ \A c \in Callers : call'[c] = call[c] \/ call'[c] = NoCall
  BY Zenon DEF Crash
<1>3. CallFits(NoCall) /\ \A b : FlightFits(b, NoFlight)
  BY Zenon DEF CallFits, NoCall, FlightFits, NoFlight
<1>4. /\ FlightShape'
      /\ \A q \in Procs, b \in Bases : flight'[q][b] = flight[q][b] \/ flight'[q][b] = NoFlight
  <2> DEFINE g == [b \in Bases |-> NoFlight]
  <2>1. flight' = [flight EXCEPT ![p] = g] /\ FlightShape
    BY Zenon, JevParts DEF Crash
  <2>2. \A b \in Bases : g[b] = NoFlight
    BY Zenon
  <2>3. g = [b \in Bases |-> g[b]]
    BY Zenon, <2>2
  <2> HIDE DEF g
  <2>4. flight' = [q \in Procs |-> IF q = p THEN g ELSE flight[q]]
    BY Zenon, <2>1 DEF FlightShape
  <2>5. flight'[p] = g /\ \A q \in Procs : q # p => flight'[q] = flight[q]
    BY Zenon, <2>4
  <2>6. \A q \in Procs : flight[q] = [b \in Bases |-> flight[q][b]]
    BY Zenon, <2>1 DEF FlightShape
  <2>7. \A q \in Procs : flight'[q] = [b \in Bases |-> flight'[q][b]]
    BY Zenon, <2>3, <2>5, <2>6
  <2>8. FlightShape'
    BY Zenon, <2>4, <2>7 DEF FlightShape
  <2> QED  BY Zenon, <2>2, <2>5, <2>8
<1> QED  BY Zenon, <1>1, <1>2, <1>3, <1>4, StandingStill

(* The service starts over a ledger of v1 records.                         *)
LEMMA ServiceInitially == JInit => Init /\ JevInv
<1> SUFFICES ASSUME JInit PROVE Init /\ JevInv  BY Zenon
<1>1. \A r \in records : WellFormed(r) /\ r.pred = None
  <2> SUFFICES ASSUME NEW b \in LegacyBases, NEW r,
                      r = [base |-> b, pred |-> None, created |-> 0, until |-> 1, verdict |-> None]
               PROVE  WellFormed(r) /\ r.pred = None
    BY Zenon DEF JInit
  <2> QED  BY JevAssumption, NoRecordAssumption DEF WellFormed
<1>2. \A r, s \in records : r.base = s.base => r = s
  BY DEF JInit
<1>3. Init
  BY Zenon, <1>1, <1>2 DEF JInit, Init
<1>4. LedgerInv
  BY Zenon, <1>3, LedgerInitially
<1>5. \A c \in Callers : call[c] = NoCall
  BY Zenon DEF JInit
<1>6. \A c \in Callers : CallFits(call[c])
  <2>1. CallFits(NoCall)
    BY Zenon DEF CallFits, NoCall
  <2> QED  BY Zenon, <1>5, <2>1
<1>7. \A p \in Procs, b \in Bases : flight[p][b] = NoFlight
  BY Zenon DEF JInit
<1>8. \A p \in Procs, b \in Bases : FlightFits(b, flight[p][b])
  <2>1. \A b : FlightFits(b, NoFlight)
    BY Zenon DEF FlightFits, NoFlight
  <2> QED  BY Zenon, <1>7, <2>1
<1>9. call = [c \in Callers |-> call[c]]
  BY Zenon, <1>5 DEF JInit
<1>10. FlightShape
  BY Zenon, <1>7 DEF JInit, FlightShape
<1>11. clock \in 0..MaxTime /\ faults \in 0..MaxFaults
  BY JevAssumption DEF JInit
<1> QED  BY Zenon, <1>3, <1>4, <1>6, <1>8, <1>9, <1>10, <1>11 DEF JevInv

(* Every step of the service keeps the invariant.                          *)
LEMMA ServiceStep == JevInv /\ [JNext]_vars => JevInv'
<1> SUFFICES ASSUME JevInv, [JNext]_vars PROVE JevInv'  BY Zenon
<1>1. CASE UNCHANGED vars
  <2>1. UNCHANGED <<records, heads, clock>> /\ UNCHANGED faults /\ call' = call /\ flight' = flight
    BY Zenon, <1>1 DEF vars
  <2>2. FlightShape' /\ call' = [c \in Callers |-> call'[c]]
    BY Zenon, <2>1, JevParts DEF FlightShape
  <2> QED  BY Zenon, <2>1, <2>2, FaultsBounded, StandingStill
<1> QED  BY Zenon, <1>1, TickKeeps, JudgeKeeps, DoChanKeeps, GiveUpKeeps, LookupKeeps, AdmitKeeps,
            EvaluateKeeps, CommitReadKeeps, CommitWriteKeeps, CrashKeeps DEF JNext

(* Whatever the callers, the processes, the faults and the restarts, the   *)
(* ledger is one chain for each base key, and calls and flights agree with *)
(* it.                                                                     *)
THEOREM ServiceInvariant == JSpec => []JevInv
BY ServiceInitially, ServiceStep, PTL DEF JSpec

(* A judgment handed to a caller is durable and was still reusable when    *)
(* that caller asked (service.go, Judge and judgeMiss).                    *)
THEOREM AnswersDurableAndFresh == JSpec => []AnswersAreDurableAndFresh
<1>1. JevInv => AnswersAreDurableAndFresh
  BY Zenon DEF JevInv, CallFits, AnswersAreDurableAndFresh
<1> QED  BY <1>1, ServiceInvariant, PTL

(* A step of the service commits one record to the ledger or leaves the    *)
(* ledger alone.                                                           *)
LEMMA ServiceStepCommits == JevInv /\ [JNext]_vars => [Next]_ledger
<1> SUFFICES ASSUME JevInv, [JNext]_vars PROVE [Next]_ledger  BY Zenon
<1>1. ASSUME NEW p \in Procs, NEW b \in Bases, CommitWrite(p, b) PROVE [Next]_ledger
  <2>1. CASE /\ ~Expired(flight[p][b].dl) /\ heads[b] = flight[p][b].head /\ Persist(flight[p][b].rec)
    <3>1. Commit(flight[p][b].rec) /\ flight[p][b].rec \in records'
      BY Zenon, <1>1, <2>1, WriteCommits DEF CommitWrite
    <3> QED  BY Zenon, <3>1 DEF Next
  <2>2. CASE UNCHANGED <<records, heads>>
    BY Zenon, <2>2 DEF ledger
  <2> QED  BY Zenon, <1>1, <2>1, <2>2 DEF CommitWrite, Unwritten, Finish
<1>2. CASE UNCHANGED <<records, heads>>
  BY Zenon, <1>2 DEF ledger
<1>3. ASSUME NEW p \in Procs, NEW b \in Bases,
             Lookup(p, b) \/ Admit(p, b) \/ Evaluate(p, b) \/ CommitRead(p, b)
      PROVE  UNCHANGED <<records, heads>>
  BY Zenon, <1>3 DEF Lookup, Admit, Evaluate, CommitRead, Committed, Unwritten, Finish
<1> QED  BY Zenon, <1>1, <1>2, <1>3 DEF JNext, vars, Tick, Judge, DoChan, GiveUp, Crash

(* The SurrealDB ledger behaves as the in-memory one: reading, deciding    *)
(* and writing in an optimistic transaction, from several processes, is a  *)
(* sequence of its atomic commits (store/surreal/jev.go against            *)
(* jev/repository.go).                                                     *)
THEOREM ServiceImplementsLedger == JSpec => ImplementsLedger
BY ServiceInitially, ServiceInvariant, ServiceStepCommits, PTL DEF JSpec, ImplementsLedger, Spec

(* So the judgments of a base key are one chain of generations whatever    *)
(* the processes do.                                                       *)
THEOREM ServiceKeepsOneGeneration == JSpec => []OneGenerationAtATime
BY ServiceImplementsLedger, LedgerKeepsOneGeneration, PTL DEF ImplementsLedger

-----------------------------------------------------------------------------
(* What a process keeps of its callers' load: the record of svc, with the  *)
(* failure count and the map of tenant limiters within their limits.       *)
Limiters(tenants) ==
    /\ IsFiniteSet(DOMAIN tenants) /\ DOMAIN tenants \subseteq Nat
    /\ Cardinality(DOMAIN tenants) <= MaximumTenantLimiters
    /\ \A t \in DOMAIN tenants : tenants[t].seen \in Nat
Fits(s) ==
    /\ DOMAIN s = {"failures", "openUntil", "probe", "inUse", "global", "tenants"}
    /\ s.failures \in 0..Threshold
    /\ Limiters(s.tenants)

Held == {"evaluate", "commit", "write"}
Running(p) == {b \in Bases : Holding(p, b)}

(* The capacity slots and the probe belong to running flights.             *)
SvcInv(p) ==
    /\ Fits(svc[p])
    /\ svc[p].inUse = Cardinality(Running(p)) /\ svc[p].inUse <= MaximumConcurrent
    /\ svc[p].probe => Running(p) # {}
ServiceInv == DOMAIN svc = Procs /\ \A p \in Procs : SvcInv(p)

(* A nonempty set of numbers has a least one.                              *)
LEMMA LeastNumber == ASSUME NEW S \in SUBSET Nat, S # {} PROVE \E m \in S : \A n \in S : m <= n
<1> DEFINE R == {p \in Nat \X Nat : p[1] < p[2]}
<1>1. IsWellFoundedOn(R, Nat)
  BY Zenon, NatLessThanWellFounded DEF OpToRel
<1>2. \A m, n \in Nat : m < n => <<m, n>> \in R
  BY Zenon
<1> HIDE DEF R
<1>3. PICK m \in S : \A n \in S : ~(<<n, m>> \in R)
  BY Zenon, <1>1, WFMin
<1>4. ASSUME NEW n \in S PROVE m <= n
  <2>1. m \in Nat /\ n \in Nat /\ ~(n < m)
    BY Zenon, <1>2, <1>3
  <2> QED  BY <2>1
<1> QED  BY Zenon, <1>4

(* A full limiter map has a tenant to evict: the one seen least recently,  *)
(* and of several the first by name (tenantRateAllows).                    *)
LEMMA OldestTenantExists ==
    ASSUME NEW tenants, Limiters(tenants), DOMAIN tenants # {}
    PROVE  OldestTenant(tenants) \in DOMAIN tenants
<1> DEFINE D == DOMAIN tenants
           seen == {tenants[t].seen : t \in D}
<1>1. D \in SUBSET Nat /\ D # {} /\ \A t \in D : tenants[t].seen \in Nat
  BY Zenon DEF Limiters
<1>2. seen \in SUBSET Nat /\ seen # {}
  BY Zenon, <1>1
<1>3. PICK m \in seen : \A n \in seen : m <= n
  <2> HIDE DEF seen
  <2> QED  BY Zenon, <1>2, LeastNumber
<1> DEFINE first == {t \in D : tenants[t].seen = m}
<1>4. first \in SUBSET Nat /\ first # {}
  BY Zenon, <1>1, <1>3
<1>5. PICK t \in first : \A u \in first : t <= u
  <2> HIDE DEF first
  <2> QED  BY Zenon, <1>4, LeastNumber
<1>6. ASSUME NEW u \in D
      PROVE  \/ tenants[t].seen < tenants[u].seen
             \/ tenants[t].seen = tenants[u].seen /\ t <= u
  <2>1. tenants[t].seen = m /\ m <= tenants[u].seen /\ m \in Nat /\ tenants[u].seen \in Nat
    BY Zenon, <1>1, <1>2, <1>3, <1>5
  <2>2. tenants[u].seen = m => t <= u
    BY Zenon, <1>5
  <2> QED  BY <2>1, <2>2
<1>7. t \in DOMAIN tenants
  BY Zenon, <1>5
<1> QED  BY Zenon, <1>6, <1>7 DEF OldestTenant

(* Charging a tenant keeps the limiter map within its limit.               *)
LEMMA ChargedFits ==
    ASSUME NEW tenants, Limiters(tenants), NEW t \in Nat, NEW now \in Nat
    PROVE  Limiters(TenantSpent(tenants, t, now))
<1> DEFINE D == DOMAIN tenants
           W == WithLimiter(tenants, t)
<1>1. IsFiniteSet(D) /\ D \subseteq Nat /\ Cardinality(D) \in Nat /\ Cardinality(D) <= MaximumTenantLimiters
      /\ \A u \in D : tenants[u].seen \in Nat
  BY Zenon, FS_CardinalityType DEF Limiters
<1>2. Limiters(W) /\ t \in DOMAIN W
  <2>1. CASE t \in D
    BY Zenon, <2>1 DEF WithLimiter
  <2>2. CASE t \notin D
    <3> DEFINE kept == IF Cardinality(D) >= MaximumTenantLimiters
                       THEN D \ {OldestTenant(tenants)} ELSE D
    <3>1. W = [u \in kept \union {t} |->
                IF u = t THEN [tokens |-> TenantBurst, last |-> 0, seen |-> 0] ELSE tenants[u]]
      BY Zenon, <2>2 DEF WithLimiter
    <3>2. /\ kept \subseteq D /\ IsFiniteSet(kept) /\ Cardinality(kept) \in Nat
          /\ Cardinality(kept) + 1 <= MaximumTenantLimiters
      <4>1. CASE Cardinality(D) >= MaximumTenantLimiters
        <5>1. D # {}
          BY <1>1, <4>1, FS_EmptySet, JevAssumption
        <5>2. OldestTenant(tenants) \in D
          BY Zenon, <5>1, OldestTenantExists
        <5>3. IsFiniteSet(kept) /\ Cardinality(kept) = Cardinality(D) - 1
          BY Zenon, <1>1, <4>1, <5>2, FS_RemoveElement
        <5>4. Cardinality(D) # 0
          BY Zenon, <1>1, <5>1, FS_EmptySet
        <5>5. kept \subseteq D
          BY Zenon, <4>1
        <5> HIDE DEF kept
        <5> QED  BY <1>1, <5>3, <5>4, <5>5
      <4>2. CASE ~(Cardinality(D) >= MaximumTenantLimiters)
        <5>1. kept = D
          BY Zenon, <4>2
        <5>2. Cardinality(D) + 1 <= MaximumTenantLimiters
          BY <1>1, <4>2, JevAssumption
        <5> QED  BY Zenon, <1>1, <5>1, <5>2
      <4> QED  BY Zenon, <4>1, <4>2
    <3>3. DOMAIN W = kept \union {t}
      BY Zenon, <3>1
    <3>4. t \notin kept
      BY Zenon, <2>2, <3>2
    <3>5. IsFiniteSet(DOMAIN W) /\ Cardinality(DOMAIN W) = Cardinality(kept) + 1
      <4> HIDE DEF kept, W
      <4> QED  BY <3>2, <3>3, <3>4, FS_AddElement
    <3>6. \A u \in DOMAIN W : u \in Nat /\ W[u].seen \in Nat
      <4> SUFFICES ASSUME NEW u \in DOMAIN W PROVE u \in Nat /\ W[u].seen \in Nat
        BY Zenon
      <4>1. u = t \/ (u # t /\ u \in D)
        BY Zenon, <3>2, <3>3
      <4>2. CASE u = t
        <5>1. W[u] = [tokens |-> TenantBurst, last |-> 0, seen |-> 0]
          BY Zenon, <3>1, <3>3, <4>2
        <5> HIDE DEF W
        <5> QED  BY <4>2, <5>1
      <4>3. CASE u # t /\ u \in D
        <5>1. W[u] = tenants[u]
          BY Zenon, <3>1, <3>3, <4>3
        <5> HIDE DEF W
        <5> QED  BY Zenon, <1>1, <4>3, <5>1
      <4> QED  BY Zenon, <4>1, <4>2, <4>3
    <3> HIDE DEF kept, W
    <3> QED  BY Zenon, <3>2, <3>3, <3>5, <3>6 DEF Limiters
  <2> QED  BY Zenon, <2>1, <2>2
<1> DEFINE bucket == Spent([tokens |-> W[t].tokens, last |-> W[t].last], TenantBurst, now)
           e == [tokens |-> bucket.tokens, last |-> bucket.last, seen |-> now]
<1>3. TenantSpent(tenants, t, now) = [W EXCEPT ![t] = e]
  BY Zenon DEF TenantSpent
<1>4. e.seen = now
  BY Zenon
<1> HIDE DEF W, e
<1> QED  BY Zenon, <1>2, <1>3, <1>4 DEF Limiters

(* The smaller of two numbers.                                             *)
LEMMA MinOfTwo ==
    ASSUME NEW a \in Int, NEW b \in Int PROVE Min({a, b}) \in {a, b} /\ Min({a, b}) <= a /\ Min({a, b}) <= b
<1>1. CASE a <= b
  <2>1. \E x \in {a, b} : \A y \in {a, b} : x <= y
    BY <1>1
  <2> QED  BY Zenon, <2>1 DEF Min
<1>2. CASE ~(a <= b)
  <2>1. \E x \in {a, b} : \A y \in {a, b} : x <= y
    BY <1>2
  <2> QED  BY Zenon, <2>1 DEF Min
<1> QED  BY Zenon, <1>1, <1>2

(* What a flight does to its process's limits keeps them.                  *)
LEMMA OutcomesFit ==
    ASSUME NEW s, Fits(s)
    PROVE  /\ \A i \in BOOLEAN : /\ Fits(Failure(s, i)) /\ Failure(s, i).inUse = s.inUse
                                 /\ Failure(s, i).probe = FALSE
           /\ Fits(Success(s)) /\ Success(s).inUse = s.inUse /\ Success(s).probe = FALSE
           /\ Fits(AbandonProbe(s)) /\ AbandonProbe(s).inUse = s.inUse /\ AbandonProbe(s).probe = FALSE
           /\ Fits(Allowed(s)) /\ Allowed(s).inUse = s.inUse
           /\ \A n : Fits([s EXCEPT !.inUse = n]) /\ [s EXCEPT !.inUse = n].inUse = n
                     /\ [s EXCEPT !.inUse = n].probe = s.probe
<1>1. ASSUME NEW i \in BOOLEAN
      PROVE  Fits(Failure(s, i)) /\ Failure(s, i).inUse = s.inUse /\ Failure(s, i).probe = FALSE
  <2> DEFINE n == Min({s.failures + 1, Threshold})
             u == IF i \/ n >= Threshold THEN clock + OpenFor ELSE s.openUntil
  <2>1. n \in 0..Threshold
    <3>1. s.failures \in Nat /\ Threshold \in Nat \ {0}
      BY JevAssumption DEF Fits
    <3> DEFINE a == s.failures + 1
    <3>2. a \in Int /\ a \in Nat /\ Threshold \in Int
      BY <3>1
    <3>3. n \in {a, Threshold} /\ n <= Threshold
      <4> HIDE DEF a
      <4>1. Min({a, Threshold}) \in {a, Threshold} /\ Min({a, Threshold}) <= Threshold
        BY Zenon, <3>2, MinOfTwo
      <4> QED  BY Zenon, <4>1 DEF a
    <3> HIDE DEF n, a
    <3> QED  BY <3>1, <3>2, <3>3
  <2>2. Failure(s, i) = [s EXCEPT !.probe = FALSE, !.failures = n, !.openUntil = u]
    BY Zenon DEF Failure
  <2> HIDE DEF n, u
  <2>3. DOMAIN Failure(s, i) = DOMAIN s /\ Failure(s, i).failures = n /\ Failure(s, i).probe = FALSE
        /\ Failure(s, i).tenants = s.tenants /\ Failure(s, i).inUse = s.inUse
    BY Zenon, <2>2 DEF Fits
  <2> QED  BY Zenon, <2>1, <2>3 DEF Fits
<1>2. Fits(Success(s)) /\ Success(s).inUse = s.inUse /\ Success(s).probe = FALSE
  BY JevAssumption DEF Fits, Success
<1>3. Fits(AbandonProbe(s)) /\ AbandonProbe(s).inUse = s.inUse /\ AbandonProbe(s).probe = FALSE
  BY Zenon DEF Fits, AbandonProbe
<1>4. Fits(Allowed(s)) /\ Allowed(s).inUse = s.inUse
  BY Zenon DEF Fits, Allowed
<1>5. ASSUME NEW n PROVE Fits([s EXCEPT !.inUse = n]) /\ [s EXCEPT !.inUse = n].inUse = n
                         /\ [s EXCEPT !.inUse = n].probe = s.probe
  BY Zenon DEF Fits
<1> QED  BY Zenon, <1>1, <1>2, <1>3, <1>4, <1>5

(* The buckets of a tenant and of the process are charged.                 *)
Charge(s, b, now) == [s EXCEPT !.tenants = TenantSpent(s.tenants, TenantOf[b], now)]
Pay(s, bucket) == [s EXCEPT !.global = bucket]
(* Charging a tenant keeps them too.                                       *)
LEMMA ChargesFit ==
    ASSUME NEW s, Fits(s), NEW b \in Bases, NEW now \in Nat
    PROVE  /\ Fits(Charge(s, b, now)) /\ Charge(s, b, now).inUse = s.inUse
           /\ Charge(s, b, now).probe = s.probe
<1>1. TenantOf[b] \in Nat
  BY Zenon, JevAssumption
<1> DEFINE tn == TenantSpent(s.tenants, TenantOf[b], now)
<1>2. Limiters(tn)
  BY Zenon, <1>1, ChargedFits DEF Fits
<1>3. Charge(s, b, now) = [s EXCEPT !.tenants = tn]
  BY Zenon DEF Charge
<1> HIDE DEF tn
<1> QED  BY Zenon, <1>2, <1>3 DEF Fits

(* So does paying.                                                         *)
LEMMA PaymentFits ==
    ASSUME NEW s, Fits(s), NEW bucket
    PROVE  Fits(Pay(s, bucket)) /\ Pay(s, bucket).inUse = s.inUse /\ Pay(s, bucket).probe = s.probe
BY Zenon DEF Fits, Pay

(* The set of running flights is finite.                                   *)
LEMMA RunningFinite ==
    ASSUME NEW p \in Procs PROVE IsFiniteSet(Running(p)) /\ Cardinality(Running(p)) \in Nat
<1>1. Running(p) \in SUBSET Bases
  BY Zenon DEF Running
<1> QED  BY Zenon, <1>1, FS_Subset, FS_CardinalityType, JevAssumption

(* One flight is replaced: the others keep running.                        *)
LEMMA RunningMoves ==
    ASSUME FlightShape, NEW p \in Procs, NEW b \in Bases, NEW f, Replace(p, b, f)
    PROVE  /\ (f.phase \in Held <=> Holding(p, b)) => Running(p)' = Running(p)
           /\ f.phase \in Held => Running(p)' = Running(p) \union {b}
           /\ f.phase \notin Held => Running(p)' = Running(p) \ {b}
           /\ \A q \in Procs : q # p => Running(q)' = Running(q)
<1>1. /\ flight'[p][b] = f
      /\ \A q \in Procs, c \in Bases : q # p \/ c # b => flight'[q][c] = flight[q][c]
  BY Zenon, FlightReplaced
<1>2. /\ Holding(p, b)' <=> f.phase \in Held
      /\ \A q \in Procs, c \in Bases : q # p \/ c # b => (Holding(q, c)' <=> Holding(q, c))
  BY Zenon, <1>1 DEF Holding, Held
<1> HIDE DEF Holding
<1> QED  BY Zenon, <1>2 DEF Running

(* A step of one flight of one process: the others are not disturbed.      *)
LEMMA ProcessMoves ==
    ASSUME ServiceInv, FlightShape, NEW p \in Procs, NEW b \in Bases, NEW f, Replace(p, b, f),
           NEW s, svc' = [svc EXCEPT ![p] = s], Fits(s),
           s.inUse = Cardinality(Running(p)'), s.inUse <= MaximumConcurrent,
           s.probe => Running(p)' # {}
    PROVE  ServiceInv'
<1>1. DOMAIN svc' = Procs /\ svc'[p] = s /\ \A q \in Procs : q # p => svc'[q] = svc[q]
  BY Zenon DEF ServiceInv
<1>2. SvcInv(p)'
  BY Zenon, <1>1 DEF SvcInv, Fits, Limiters
<1>3. ASSUME NEW q \in Procs, q # p PROVE SvcInv(q)'
  <2>1. svc'[q] = svc[q] /\ Running(q)' = Running(q) /\ SvcInv(q)
    BY Zenon, <1>1, <1>3, RunningMoves DEF ServiceInv
  <2> QED  BY Zenon, <2>1 DEF SvcInv, Fits, Limiters
<1> QED  BY Zenon, <1>1, <1>2, <1>3 DEF ServiceInv

(* A flight that holds nothing moves on or ends.                           *)
LEMMA IdleMoves ==
    ASSUME ServiceInv, FlightShape, NEW p \in Procs, NEW b \in Bases, NEW f, Replace(p, b, f),
           f.phase \in Held <=> Holding(p, b),
           NEW s, svc' = [svc EXCEPT ![p] = s], Fits(s), s.inUse = svc[p].inUse,
           s.probe = svc[p].probe
    PROVE  ServiceInv'
<1>1. Running(p)' = Running(p)
  BY Zenon, RunningMoves
<1>2. SvcInv(p)
  BY Zenon DEF ServiceInv
<1>3. s.inUse = Cardinality(Running(p)') /\ s.inUse <= MaximumConcurrent /\ (s.probe => Running(p)' # {})
  BY Zenon, <1>1, <1>2 DEF SvcInv
<1> QED  BY Zenon, <1>3, ProcessMoves

(* A flight that holds a slot ends: the slot and the probe are given back. *)
LEMMA HolderEnds ==
    ASSUME ServiceInv, FlightShape, NEW p \in Procs, NEW b \in Bases, Replace(p, b, NoFlight),
           Holding(p, b),
           NEW s, svc' = [svc EXCEPT ![p] = [s EXCEPT !.inUse = @ - 1]], Fits(s),
           s.inUse = svc[p].inUse, s.probe = FALSE
    PROVE  ServiceInv'
<1> DEFINE n == [s EXCEPT !.inUse = s.inUse - 1]
<1>1. Fits(n) /\ n.inUse = s.inUse - 1 /\ n.probe = FALSE
  <2> DEFINE m == s.inUse - 1
  <2> HIDE DEF m
  <2>1. Fits([s EXCEPT !.inUse = m]) /\ [s EXCEPT !.inUse = m].inUse = m
        /\ [s EXCEPT !.inUse = m].probe = FALSE
    BY Zenon DEF Fits
  <2> QED  BY Zenon, <2>1 DEF m
<1>2. Running(p)' = Running(p) \ {b} /\ b \in Running(p)
  <2>1. NoFlight.phase \notin Held
    BY Zenon DEF NoFlight, Held
  <2>2. Running(p)' = Running(p) \ {b}
    BY Zenon, <2>1, RunningMoves
  <2>3. b \in Running(p)
    BY Zenon DEF Running
  <2> QED  BY Zenon, <2>2, <2>3
<1>3. svc[p].inUse = Cardinality(Running(p)) /\ svc[p].inUse <= MaximumConcurrent
  BY Zenon DEF ServiceInv, SvcInv
<1>4. Cardinality(Running(p)') = Cardinality(Running(p)) - 1 /\ Cardinality(Running(p)) \in Nat
  BY Zenon, <1>2, RunningFinite, FS_RemoveElement
<1>5. n.inUse = Cardinality(Running(p)') /\ n.inUse <= MaximumConcurrent
  <2> HIDE DEF n
  <2> QED  BY <1>1, <1>3, <1>4, JevAssumption
<1>6. svc' = [svc EXCEPT ![p] = n]
  BY Zenon
<1> HIDE DEF n
<1> QED  BY Zenon, <1>1, <1>5, <1>6, ProcessMoves

(* The end of a flight, whatever it held.                                  *)
LEMMA FinishHolds ==
    ASSUME ServiceInv, FlightShape, NEW p \in Procs, NEW b \in Bases, NEW answer, NEW s,
           Finish(p, b, answer, s), Fits(s), s.inUse = svc[p].inUse,
           IF Holding(p, b) THEN s.probe = FALSE ELSE s.probe = svc[p].probe
    PROVE  ServiceInv'
<1>1. Replace(p, b, NoFlight)
  BY Zenon DEF Finish, Replace
<1>2. CASE Holding(p, b)
  <2>1. svc' = [svc EXCEPT ![p] = [s EXCEPT !.inUse = @ - 1]]
    BY Zenon, <1>2 DEF Finish
  <2> QED  BY Zenon, <1>1, <1>2, <2>1, HolderEnds
<1>3. CASE ~Holding(p, b)
  <2>1. svc' = [svc EXCEPT ![p] = s]
    BY Zenon, <1>3 DEF Finish
  <2>2. NoFlight.phase \in Held <=> Holding(p, b)
    BY Zenon, <1>3 DEF NoFlight, Held
  <2> QED  BY Zenon, <1>1, <1>3, <2>1, <2>2, IdleMoves
<1> QED  BY Zenon, <1>2, <1>3

(* A flight joins, looks up, writes or starts over, and holds what it      *)
(* held.                                                                   *)
LEMMA FlightHolds ==
    ASSUME ServiceInv, FlightShape, NEW p \in Procs, NEW b \in Bases, NEW f, Replace(p, b, f),
           f.phase \in Held <=> Holding(p, b), svc' = svc
    PROVE  ServiceInv'
<1>1. \A q \in Procs : Running(q)' = Running(q)
  BY Zenon, RunningMoves
<1> QED  BY Zenon, <1>1 DEF ServiceInv, SvcInv, Fits, Limiters

(* A step that touches neither flights nor limits.                         *)
LEMMA ServiceStill == ASSUME ServiceInv, UNCHANGED <<flight, svc>> PROVE ServiceInv'
<1>1. \A q \in Procs : Running(q)' = Running(q)
  BY Zenon DEF Running, Holding
<1> QED  BY Zenon, <1>1 DEF ServiceInv, SvcInv, Fits, Limiters

(* Joining or starting a flight holds nothing yet.                         *)
LEMMA DoChanHolds ==
    ASSUME JevInv, ServiceInv, NEW c \in Callers, DoChan(c) PROVE ServiceInv'
<1>1. FlightShape /\ CallFits(call[c]) /\ ProcOf[c] \in Procs
  <2>1. ProcOf[c] \in Procs
    BY Zenon, JevAssumption
  <2> QED  BY Zenon, <2>1, JevParts
<1>2. PICK p \in Procs : p = ProcOf[c]
  BY Zenon, <1>1
<1>3. PICK b \in Bases : b = call[c].base
  BY Zenon, <1>1 DEF DoChan, CallFits
<1>4. CASE flight' = flight
  BY Zenon, <1>4, ServiceStill DEF DoChan
<1>5. CASE flight[p][b].phase = "none" /\ flight' = [flight EXCEPT ![p][b] = [phase |-> "lookup", now |-> clock, dl |-> call[c].dl]]
  <2> DEFINE g == [phase |-> "lookup", now |-> clock, dl |-> call[c].dl]
  <2>1. g.phase \in Held <=> Holding(p, b)
    BY Zenon, <1>5 DEF Held, Holding
  <2>2. Replace(p, b, g) /\ svc' = svc
    BY Zenon, <1>5 DEF Replace, DoChan
  <2> HIDE DEF g
  <2> QED  BY Zenon, <1>1, <2>1, <2>2, FlightHolds
<1> QED  BY Zenon, <1>2, <1>3, <1>4, <1>5 DEF DoChan

(* Nor does the second look.                                               *)
LEMMA LookupHolds ==
    ASSUME JevInv, ServiceInv, NEW p \in Procs, NEW b \in Bases, Lookup(p, b) PROVE ServiceInv'
<1> DEFINE f == flight[p][b]
<1>1. FlightShape /\ f = [phase |-> "lookup", now |-> f.now, dl |-> f.dl] /\ Fits(svc[p])
  BY Zenon, JevParts, FlightParts DEF Lookup, ServiceInv, SvcInv
<1>2. ~Holding(p, b)
  BY Zenon DEF Lookup, Holding
<1>3. CASE \E a : Finish(p, b, a, svc[p])
  BY Zenon, <1>1, <1>2, <1>3, FinishHolds
<1>4. CASE flight' = [flight EXCEPT ![p][b].phase = "current"] /\ svc' = svc
  <2> DEFINE g == [phase |-> "current", now |-> f.now, dl |-> f.dl]
  <2>1. Replace(p, b, g)
    <3>1. [f EXCEPT !.phase = "current"] = g
      BY <1>1
    <3> QED  BY Zenon, <1>4, <3>1 DEF Replace
  <2>2. g.phase \in Held <=> Holding(p, b)
    BY Zenon, <1>2 DEF Held
  <2> HIDE DEF g
  <2> QED  BY Zenon, <1>1, <1>4, <2>1, <2>2, FlightHolds
<1> QED  BY Zenon, <1>3, <1>4 DEF Lookup

(* Admission charges the buckets in any case and takes a slot only where   *)
(* one is free.                                                            *)
LEMMA AdmitHolds ==
    ASSUME JevInv, ServiceInv, NEW p \in Procs, NEW b \in Bases, Admit(p, b) PROVE ServiceInv'
<1> DEFINE f == flight[p][b]
           s == svc[p]
           charged == [s EXCEPT !.tenants = TenantSpent(s.tenants, TenantOf[b], f.now)]
           spent == Spent(charged.global, GlobalBurst, f.now)
           paid == [charged EXCEPT !.global = spent]
           held == [Allowed(paid) EXCEPT !.inUse = @ + 1]
           g == [phase |-> "evaluate", now |-> f.now, dl |-> f.dl, pred |-> Current(b)]
<1>1. FlightShape /\ f.phase = "current" /\ FlightFits(b, f) /\ SvcInv(p)
  BY Zenon, JevParts DEF Admit, ServiceInv
<1>2. ~Holding(p, b) /\ f.now \in Nat /\ Fits(s)
  BY Zenon, <1>1, FlightParts DEF Holding, Young, SvcInv
<1>3. /\ Fits(charged) /\ charged.inUse = s.inUse /\ charged.probe = s.probe
      /\ Fits(paid) /\ paid.inUse = s.inUse /\ paid.probe = s.probe
  <2>1. charged = Charge(s, b, f.now) /\ paid = Pay(charged, spent)
    BY Zenon DEF Charge, Pay
  <2> HIDE DEF charged, spent, paid
  <2>2. Fits(charged) /\ charged.inUse = s.inUse /\ charged.probe = s.probe
    <3>1. /\ Fits(Charge(s, b, f.now)) /\ Charge(s, b, f.now).inUse = s.inUse
          /\ Charge(s, b, f.now).probe = s.probe
      BY Zenon, <1>2, ChargesFit
    <3> QED  BY Zenon, <2>1, <3>1
  <2>4. Fits(paid) /\ paid.inUse = charged.inUse /\ paid.probe = charged.probe
    BY Zenon, <2>1, <2>2, PaymentFits
  <2> QED  BY Zenon, <2>2, <2>4
<1>4. CASE \E a : Finish(p, b, a, s) \/ Finish(p, b, a, charged) \/ Finish(p, b, a, paid)
  <2> HIDE DEF charged, paid
  <2> QED  BY Zenon, <1>1, <1>2, <1>3, <1>4, FinishHolds
<1>5. CASE /\ ~(s.inUse >= MaximumConcurrent)
           /\ flight' = [flight EXCEPT ![p][b] = g] /\ svc' = [svc EXCEPT ![p] = held]
  <2>1. Replace(p, b, g)
    BY Zenon, <1>5 DEF Replace
  <2>2. g.phase \in Held
    BY Zenon DEF Held
  <2>3. Running(p)' = Running(p) \union {b} /\ b \notin Running(p) /\ Running(p)' # {}
    <3>1. b \notin Running(p)
      BY Zenon, <1>2 DEF Running
    <3> HIDE DEF g
    <3>2. Running(p)' = Running(p) \union {b}
      BY Zenon, <1>1, <2>1, <2>2, RunningMoves
    <3> QED  BY Zenon, <3>1, <3>2
  <2>4. s.inUse = Cardinality(Running(p)) /\ Cardinality(Running(p)) \in Nat
    BY Zenon, <1>1, RunningFinite DEF SvcInv
  <2>5. Cardinality(Running(p)') = Cardinality(Running(p)) + 1
    BY Zenon, <2>3, RunningFinite, FS_AddElement
  <2>6. Fits(Allowed(paid)) /\ Allowed(paid).inUse = s.inUse
    <3> HIDE DEF paid
    <3> QED  BY Zenon, <1>3, OutcomesFit
  <2>7. Fits(held) /\ held.inUse = s.inUse + 1
    <3> DEFINE q == Allowed(paid)
               m == s.inUse + 1
    <3>1. held = [q EXCEPT !.inUse = m]
      BY Zenon, <2>6
    <3> HIDE DEF q, m
    <3>2. Fits(q)
      BY Zenon, <2>6 DEF q
    <3>3. Fits([q EXCEPT !.inUse = m]) /\ [q EXCEPT !.inUse = m].inUse = m
      BY Zenon, <3>2 DEF Fits
    <3> QED  BY Zenon, <3>1, <3>3 DEF m
  <2>8. held.inUse = Cardinality(Running(p)') /\ held.inUse <= MaximumConcurrent
    <3> HIDE DEF held
    <3> QED  BY <1>5, <2>4, <2>5, <2>7, JevAssumption
  <2>9. svc' = [svc EXCEPT ![p] = held]
    BY Zenon, <1>5
  <2> HIDE DEF held, g
  <2> QED  BY Zenon, <1>1, <2>1, <2>3, <2>7, <2>8, <2>9, ProcessMoves
<1> QED  BY Zenon, <1>4, <1>5 DEF Admit

(* A provider error gives slot and probe back; an answer keeps them.       *)
LEMMA EvaluateHolds ==
    ASSUME JevInv, ServiceInv, NEW p \in Procs, NEW b \in Bases, Evaluate(p, b) PROVE ServiceInv'
<1> DEFINE f == flight[p][b]
<1>1. FlightShape /\ f.phase = "evaluate" /\ Fits(svc[p])
  BY Zenon, JevParts DEF Evaluate, ServiceInv, SvcInv
<1>2. Holding(p, b)
  BY Zenon, <1>1 DEF Holding
<1>3. CASE \E i \in BOOLEAN : Finish(p, b, None, Failure(svc[p], i))
  BY Zenon, <1>1, <1>2, <1>3, OutcomesFit, FinishHolds
<1>4. ASSUME NEW r, flight' = [flight EXCEPT ![p][b] = [phase |-> "commit", dl |-> f.dl, tries |-> 0, rec |-> r]],
             svc' = svc
      PROVE  ServiceInv'
  <2> DEFINE g == [phase |-> "commit", dl |-> f.dl, tries |-> 0, rec |-> r]
  <2>1. Replace(p, b, g)
    BY Zenon, <1>4 DEF Replace
  <2>2. g.phase \in Held <=> Holding(p, b)
    BY Zenon, <1>2 DEF Held
  <2> HIDE DEF g
  <2> QED  BY Zenon, <1>1, <1>4, <2>1, <2>2, FlightHolds
<1> QED  BY Zenon, <1>3, <1>4 DEF Evaluate

(* A flight that found a winner, or could not read, gives them back.       *)
LEMMA CommitReadHolds ==
    ASSUME JevInv, ServiceInv, NEW p \in Procs, NEW b \in Bases, CommitRead(p, b) PROVE ServiceInv'
<1> DEFINE f == flight[p][b]
           g == [phase |-> "write", dl |-> f.dl, tries |-> f.tries, rec |-> f.rec, head |-> heads[b]]
<1>1. FlightShape /\ f.phase = "commit" /\ Fits(svc[p])
  BY Zenon, JevParts DEF CommitRead, ServiceInv, SvcInv
<1>2. Holding(p, b)
  BY Zenon, <1>1 DEF Holding
<1>3. CASE \E a : Finish(p, b, a, Success(svc[p])) \/ Finish(p, b, a, AbandonProbe(svc[p]))
  BY Zenon, <1>1, <1>2, <1>3, OutcomesFit, FinishHolds
<1>4. CASE flight' = [flight EXCEPT ![p][b] = g] /\ svc' = svc
  <2>1. Replace(p, b, g)
    BY Zenon, <1>4 DEF Replace
  <2>2. g.phase \in Held <=> Holding(p, b)
    BY Zenon, <1>2 DEF Held
  <2> HIDE DEF g
  <2> QED  BY Zenon, <1>1, <1>4, <2>1, <2>2, FlightHolds
<1> QED  BY Zenon, <1>3, <1>4 DEF CommitRead, Committed, Unwritten

(* A write that succeeds closes the circuit; one that fails gives the      *)
(* probe back.                                                             *)
LEMMA CommitWriteHolds ==
    ASSUME JevInv, ServiceInv, NEW p \in Procs, NEW b \in Bases, CommitWrite(p, b) PROVE ServiceInv'
<1> DEFINE f == flight[p][b]
           g == [phase |-> "commit", dl |-> f.dl, tries |-> f.tries + 1, rec |-> f.rec]
<1>1. FlightShape /\ f.phase = "write" /\ Fits(svc[p])
  BY Zenon, JevParts DEF CommitWrite, ServiceInv, SvcInv
<1>2. Holding(p, b)
  BY Zenon, <1>1 DEF Holding
<1>3. CASE \E a : Finish(p, b, a, AbandonProbe(svc[p]))
  BY Zenon, <1>1, <1>2, <1>3, OutcomesFit, FinishHolds
<1>4. CASE flight' = [flight EXCEPT ![p][b] = g] /\ svc' = svc
  <2>1. Replace(p, b, g)
    BY Zenon, <1>4 DEF Replace
  <2>2. g.phase \in Held <=> Holding(p, b)
    BY Zenon, <1>2 DEF Held
  <2> HIDE DEF g
  <2> QED  BY Zenon, <1>1, <1>4, <2>1, <2>2, FlightHolds
<1>5. ASSUME flight' = [flight EXCEPT ![p][b] = NoFlight],
             \/ svc' = [svc EXCEPT ![p] = [Success(svc[p]) EXCEPT !.inUse = @ - 1]]
             \/ svc' = [svc EXCEPT ![p] = [AbandonProbe(svc[p]) EXCEPT !.inUse = @ - 1]]
      PROVE  ServiceInv'
  <2>1. Replace(p, b, NoFlight)
    BY Zenon, <1>5 DEF Replace
  <2>2. CASE svc' = [svc EXCEPT ![p] = [Success(svc[p]) EXCEPT !.inUse = @ - 1]]
    <3> DEFINE s == Success(svc[p])
    <3>1. svc' = [svc EXCEPT ![p] = [s EXCEPT !.inUse = @ - 1]]
      BY Zenon, <2>2
    <3>2. Fits(s) /\ s.inUse = svc[p].inUse /\ s.probe = FALSE
      BY Zenon, <1>1, OutcomesFit
    <3> HIDE DEF s
    <3> QED  BY Zenon, <1>1, <1>2, <2>1, <3>1, <3>2, HolderEnds
  <2>3. CASE svc' = [svc EXCEPT ![p] = [AbandonProbe(svc[p]) EXCEPT !.inUse = @ - 1]]
    <3> DEFINE s == AbandonProbe(svc[p])
    <3>1. svc' = [svc EXCEPT ![p] = [s EXCEPT !.inUse = @ - 1]]
      BY Zenon, <2>3
    <3>2. Fits(s) /\ s.inUse = svc[p].inUse /\ s.probe = FALSE
      BY Zenon, <1>1, OutcomesFit
    <3> HIDE DEF s
    <3> QED  BY Zenon, <1>1, <1>2, <2>1, <3>1, <3>2, HolderEnds
  <2> QED  BY Zenon, <1>5, <2>2, <2>3
<1> QED  BY Zenon, <1>3, <1>4, <1>5 DEF CommitWrite, Unwritten

(* A process that starts holds nothing.                                    *)
LEMMA NewServiceFits ==
    Fits(NewService) /\ NewService.inUse = 0 /\ NewService.probe = FALSE
<1> DEFINE tn == [t \in {} |-> [tokens |-> 0, last |-> 0, seen |-> 0]]
<1>1. DOMAIN tn = {}
  BY Zenon
<1>2. Limiters(tn)
  <2> HIDE DEF tn
  <2> QED  BY <1>1, FS_EmptySet, JevAssumption DEF Limiters
<1>3. NewService = [failures |-> 0, openUntil |-> 0, probe |-> FALSE, inUse |-> 0,
                    global |-> [tokens |-> GlobalBurst, last |-> 0], tenants |-> tn]
  BY Zenon DEF NewService
<1> HIDE DEF tn
<1>4. NewService.failures = 0 /\ NewService.tenants = tn /\ NewService.inUse = 0 /\ NewService.probe = FALSE
      /\ DOMAIN NewService = {"failures", "openUntil", "probe", "inUse", "global", "tenants"}
  BY Zenon, <1>3
<1>5. 0 \in 0..Threshold
  BY JevAssumption
<1> QED  BY Zenon, <1>2, <1>4, <1>5 DEF Fits

(* A restart leaves nothing held.                                          *)
LEMMA CrashHolds == ASSUME JevInv, ServiceInv, NEW p \in Procs, Crash(p) PROVE ServiceInv'
<1>1. /\ DOMAIN svc' = Procs /\ svc'[p] = NewService
      /\ \A q \in Procs : q # p => svc'[q] = svc[q]
  BY Zenon DEF Crash, ServiceInv
<1>2. /\ \A b \in Bases : flight'[p][b] = NoFlight
      /\ \A q \in Procs : q # p => flight'[q] = flight[q]
  <2> DEFINE g == [b \in Bases |-> NoFlight]
  <2>1. flight' = [flight EXCEPT ![p] = g] /\ FlightShape
    BY Zenon, JevParts DEF Crash
  <2>2. \A b \in Bases : g[b] = NoFlight
    BY Zenon
  <2> HIDE DEF g
  <2>3. flight' = [q \in Procs |-> IF q = p THEN g ELSE flight[q]]
    BY Zenon, <2>1 DEF FlightShape
  <2> QED  BY Zenon, <2>2, <2>3
<1>3. Running(p)' = {}
  BY <1>2 DEF Running, Holding, NoFlight
<1>4. SvcInv(p)'
  <2>1. Cardinality(Running(p)') = 0 /\ 0 <= MaximumConcurrent
    BY <1>3, FS_EmptySet, JevAssumption
  <2> QED  BY Zenon, <1>1, <2>1, NewServiceFits DEF SvcInv, Fits, Limiters
<1>5. ASSUME NEW q \in Procs, q # p PROVE SvcInv(q)'
  <2>1. Running(q)' = Running(q) /\ svc'[q] = svc[q] /\ SvcInv(q)
    BY Zenon, <1>1, <1>2, <1>5 DEF Running, Holding, ServiceInv
  <2> QED  BY Zenon, <2>1 DEF SvcInv, Fits, Limiters
<1> QED  BY Zenon, <1>1, <1>4, <1>5 DEF ServiceInv

(* In every state the capacity handed out is the number of running         *)
(* flights and is within its limit, the half-open probe belongs to a       *)
(* running flight, and failure counts and limiter maps are within theirs   *)
(* (service.go, judgeMiss, tenantRateAllows and the circuit).              *)
THEOREM ServiceWithinLimits == JSpec => []ServiceHoldsItsLimits
<1>1. JInit => ServiceInv
  <2> SUFFICES ASSUME JInit PROVE ServiceInv  BY Zenon
  <2>1. DOMAIN svc = Procs /\ \A p \in Procs : svc[p] = NewService
    BY Zenon DEF JInit
  <2>2. \A p \in Procs, b \in Bases : flight[p][b] = NoFlight
    BY Zenon DEF JInit
  <2>3. \A p \in Procs : Running(p) = {}
    BY <2>2 DEF Running, Holding, NoFlight
  <2>4. \A p \in Procs : Cardinality(Running(p)) = 0 /\ 0 <= MaximumConcurrent
    BY <2>3, FS_EmptySet, JevAssumption
  <2> QED  BY Zenon, <2>1, <2>4, NewServiceFits DEF ServiceInv, SvcInv
<1>2. JevInv /\ ServiceInv /\ [JNext]_vars => ServiceInv'
  <2> SUFFICES ASSUME JevInv, ServiceInv, [JNext]_vars PROVE ServiceInv'  BY Zenon
  <2>1. CASE UNCHANGED <<flight, svc>>
    BY Zenon, <2>1, ServiceStill
  <2> QED  BY Zenon, <2>1, DoChanHolds, LookupHolds, AdmitHolds, EvaluateHolds, CommitReadHolds,
              CommitWriteHolds, CrashHolds DEF JNext, vars, Tick, Judge, GiveUp
<1>3. JevInv /\ ServiceInv => ServiceHoldsItsLimits
  <2> SUFFICES ASSUME JevInv, ServiceInv PROVE ServiceHoldsItsLimits  BY Zenon
  <2>1. clock \in 0..MaxTime /\ faults \in 0..MaxFaults /\ LedgerInv
    BY Zenon DEF JevInv
  <2>2. (\A r \in records : WellFormed(r)) /\ \A b \in Bases : heads[b] = None \/ heads[b] \in records
    BY Zenon, <2>1 DEF LedgerInv
  <2>3. ASSUME NEW p \in Procs
        PROVE  /\ svc[p].failures \in 0..Threshold /\ svc[p].inUse \in 0..MaximumConcurrent
               /\ Cardinality(DOMAIN svc[p].tenants) <= MaximumTenantLimiters
    <3>1. SvcInv(p) /\ Cardinality(Running(p)) \in Nat
      BY Zenon, RunningFinite DEF ServiceInv
    <3>2. svc[p].inUse \in 0..MaximumConcurrent
      BY <3>1, JevAssumption DEF SvcInv
    <3> QED  BY Zenon, <3>1, <3>2 DEF SvcInv, Fits, Limiters
  <2>4. NothingHeldWhenIdle
    BY Zenon DEF ServiceInv, SvcInv, Running, NothingHeldWhenIdle
  <2> QED  BY Zenon, <2>1, <2>2, <2>3, <2>4 DEF ServiceHoldsItsLimits, TypeOK
<1> QED  BY <1>1, <1>2, <1>3, ServiceInvariant, PTL DEF JSpec
=============================================================================
