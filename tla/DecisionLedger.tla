--------------------------- MODULE DecisionLedger ---------------------------
(***************************************************************************)
(* What the retrieval path may assume of its two ledgers: the run ledger   *)
(* (internal/store/memory/retrieval_run.go) and the plan ledger            *)
(* (internal/store/memory/selection.go), each operation one atomic step,   *)
(* and the expiry that maintenance runs on both.  One tenant.              *)
(***************************************************************************)
EXTENDS Naturals, FiniteSets

CONSTANTS None,
          Configs,       \* immutable, content-addressed serving configurations
          RunIds,        \* run ids, derived from (tenant, idempotency key)
          IdentityOf,    \* run id -> idempotency identity of its plan
          TTL            \* retention of runs and of plans (one setting)

ASSUME LedgerAssumption == TTL \in Nat \ {0}
(* What stands for the absence of a row is no plan of a run.               *)
ASSUME NoPlanAssumption == None.run \notin RunIds

VARIABLES configs,       \* serving configurations ever activated
          active,        \* the serving head
          runs,          \* persisted retrieval runs
          selections,    \* persisted selection records
          clock

ledger == <<configs, active, runs, selections, clock>>

RunAt(id)  == {r \in runs : r.id = id}
ByKey(key) == {s \in selections : s.key = key}
ByRun(id)  == {s \in selections : s.run = id}

Init == /\ configs = {} /\ active = None
        /\ runs = {} /\ selections = {} /\ clock = 0

ActivateServingConfig(c) ==
    /\ configs' = configs \union {c} /\ active' = c
    /\ UNCHANGED <<runs, selections, clock>>

(* A run is written once, under a configuration the tenant has activated.  *)
SaveRun(r) ==
    /\ r.id \in RunIds /\ RunAt(r.id) = {} /\ r.config \in configs
    /\ r.expires \in Nat /\ r.expires <= clock + TTL
    /\ runs' = runs \union {r}
    /\ UNCHANGED <<configs, active, selections, clock>>

(* A plan is written once per run and once per idempotency identity.       *)
CommitSelection(s) ==
    /\ s.run \in RunIds /\ s.key = IdentityOf[s.run]
    /\ ByKey(s.key) = {} /\ ByRun(s.run) = {}
    /\ s.expires \in Nat /\ s.expires <= clock + TTL
    /\ selections' = selections \union {s}
    /\ UNCHANGED <<configs, active, runs, clock>>

(* Expiry removes rows whose time is over, runs and plans independently.   *)
Expire ==
    /\ \A r \in runs \ runs' : r.expires <= clock
    /\ \A s \in selections \ selections' : s.expires <= clock
    /\ runs' \subseteq runs /\ selections' \subseteq selections
    /\ UNCHANGED <<configs, active, clock>>

Pass == clock' \in Nat /\ clock' > clock /\ UNCHANGED <<configs, active, runs, selections>>

Next == \/ \E c \in Configs : ActivateServingConfig(c)
        \/ \E r \in runs' : SaveRun(r)
        \/ \E s \in selections' : CommitSelection(s)
        \/ Expire
        \/ Pass

Spec == Init /\ [][Next]_ledger

(* One run row per run id and one plan row per run id, and every run cites *)
(* a configuration that was once active (memory/retrieval_run.go:79-97,    *)
(* memory/selection.go:48-74).                                             *)
OneDecisionPerRequest ==
    /\ \A r, q \in runs : r.id = q.id => r = q
    /\ \A s, t \in selections : s.run = t.run \/ s.key = t.key => s = t
    /\ \A r \in runs : r.config \in configs
(* A persisted run or plan is never rewritten, and leaves the ledger only  *)
(* once its retention is over (maintenance.go:218-268).                    *)
DecisionsAreKept ==
    [][ /\ \A r \in runs : r \notin runs' => r.expires <= clock
        /\ \A s \in selections : s \notin selections' => s.expires <= clock ]_ledger
=============================================================================
