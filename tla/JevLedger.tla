----------------------------- MODULE JevLedger -----------------------------
(***************************************************************************)
(* What the judgment ledger promises (internal/jev/repository.go): the     *)
(* in-memory repository, whose Commit runs under one mutex.  A judgment    *)
(* record belongs to a base key; a renewal's key also covers the hash of   *)
(* its predecessor, so the records of one base are generations.  A record  *)
(* stands for its content hash.                                            *)
(***************************************************************************)
EXTENDS Integers

CONSTANTS Bases,    \* base keys: tenant, query, procedure version, rubric, model
          None      \* "no record", the empty hash

(* "No record" belongs to no base key. *)
ASSUME NoRecordAssumption == None.base \notin Bases

VARIABLES records,  \* repository.records: every judgment ever committed
          heads     \* repository.heads: base key -> current record, or None

ledger == <<records, heads>>

(* A record written before heads existed (schema jev-judgment.v1) has the  *)
(* base key as its own key and no head.                                    *)
Legacy(b) == {r \in records : r.base = b /\ r.pred = None}

Current(b) == IF heads[b] # None THEN heads[b]
              ELSE IF Legacy(b) # {} THEN CHOOSE r \in Legacy(b) : TRUE
              ELSE None

(* Validity of a record and its window, NewJudgmentRecord's check.         *)
WellFormed(r) == /\ r # None /\ r.base \in Bases
                 /\ r.created \in Nat /\ r.until \in Nat /\ r.created < r.until

Init == /\ heads = [b \in Bases |-> None]
        /\ \A r \in records : WellFormed(r) /\ r.pred = None
        /\ \A r, s \in records : r.base = s.base => r = s

Commit(r) ==
    /\ WellFormed(r)
    /\ r.pred = Current(r.base)
    /\ Current(r.base) # None => Current(r.base).until <= r.created
    /\ \A s \in records : s.base = r.base /\ s.pred = r.pred => s = r
    /\ records' = records \union {r}
    /\ heads' = [heads EXCEPT ![r.base] = r]

Next == \E r \in records' : Commit(r)

Spec == Init /\ [][Next]_ledger
-----------------------------------------------------------------------------
(* The judgments of one base key are generations of a single chain: no two *)
(* succeed the same predecessor, and no two are reusable at one instant, a *)
(* generation starting only after every earlier reuse window has closed    *)
(* (Commit, repository.go:191-200), so a cached answer is unambiguous.     *)
OneGenerationAtATime ==
    \A r, s \in records : r.base = s.base /\ r # s =>
        /\ r.pred # s.pred
        /\ r.until <= s.created \/ s.until <= r.created
=============================================================================
