---------------------------- MODULE ToolRegistry ----------------------------
(***************************************************************************)
(* The tool contracts a trace is read with (toolcontract/canonical.go,     *)
(* toolcontract/registry.go, tenantToolRegistry in                         *)
(* store/surreal/workflow.go): a graph-building stage makes a registry of  *)
(* its own, loads the tenant's contracts into it at its first query and    *)
(* resolves the tools of its events one after the other, while contracts   *)
(* are added to the table.  A contract's identifier is a hash of its       *)
(* canonical form, so a contract is that form; rows are read in the order  *)
(* of their identifiers, which says nothing about them.                    *)
(***************************************************************************)
EXTENDS Integers, Sequences, FiniteSets, SequencesExt

CONSTANTS
  Stages,
  Manifests,     \* what may be added to tool_contract_version
  Uses,          \* sequences of [name, version] a trace has; version 0 is no version
  MaxLoadFaults  \* bound on failed reads of the table

VARIABLES
  contracts,  \* rows of tool_contract_version
  stages,     \* each stage's registry and what it resolved
  loadFaults

tvars == <<contracts, stages, loadFaults>>

EmptyRegistry == [byKey |-> {}, names |-> {}, versions |-> <<>>]
NoStage == [pc |-> "idle", uses |-> <<>>, memory |-> EmptyRegistry, snapshot |-> {}, resolved |-> <<>>]

RegistryIdle == contracts = {} /\ stages = [s \in Stages |-> NoStage] /\ loadFaults = 0

-----------------------------------------------------------------------------
Distinct(s) == IsInjective(s)
Names(items) == {items[i].name : i \in DOMAIN items}

(* canonicalFields and canonicalResources: names are unique, and a         *)
(* resource is identified by a field of the contract.                      *)
canonicalFields(m) == Distinct(m.inputs) /\ Distinct(m.outputs) /\ "" \notin ToSet(m.inputs \o m.outputs)
canonicalResources(items, fields) ==
  /\ \A i, j \in DOMAIN items : items[i].name = items[j].name => i = j
  /\ \A i \in DOMAIN items : items[i].field \in fields

(* canonicalPredicates: about a field or a resource the contract has.      *)
canonicalPredicates(items, fields, resources) ==
  /\ \A i, j \in DOMAIN items : items[i].id = items[j].id => i = j
  /\ \A i \in DOMAIN items :
       /\ items[i].resource # "" \/ items[i].field # ""
       /\ items[i].resource \in resources \union {""} /\ items[i].field \in fields \union {""}

canonicalRanges(ranges) == \A i \in DOMAIN ranges : 0 < ranges[i][1] /\ ranges[i][1] < ranges[i][2]
canonicalStrings(m) == Distinct(<<m.tool>> \o m.aliases) /\ "" \notin ToSet(m.aliases)

validIdempotency(m, fields) == IF m.idempotency = "conditional" THEN m.key \in fields ELSE m.key = ""

(* Canonicalize: what it accepts; lists become sets, since they are sorted *)
(* by names that are unique.                                               *)
Canonical(m) ==
  LET fields == ToSet(m.inputs) \union ToSet(m.outputs)
      resources == Names(m.reads) \union Names(m.writes)
  IN  /\ m.tool # "" /\ m.version # 0
      /\ canonicalStrings(m) /\ canonicalFields(m)
      /\ canonicalResources(m.reads, fields) /\ canonicalResources(m.writes, fields)
      /\ canonicalPredicates(m.predicates, fields, resources)
      /\ canonicalRanges(m.ranges) /\ validIdempotency(m, fields)

Called(m) == {m.tool} \union ToSet(m.aliases)

(* Register: invalid manifests, another manifest for a version and names   *)
(* of another tool are refused; the versions of a tool are kept newest     *)
(* first.                                                                  *)
Register(r, m) ==
  IF \/ ~Canonical(m)
     \/ \E k \in r.byKey : k.tool = m.tool /\ k.version = m.version /\ k # m
     \/ \E n \in r.names : n[1] \in Called(m) /\ n[2] # m.tool
  THEN [ok |-> FALSE, memory |-> r]
  ELSE IF m \in r.byKey THEN [ok |-> TRUE, memory |-> r]
  ELSE [ok |-> TRUE,
        memory |-> [byKey |-> r.byKey \union {m}, names |-> r.names \union (Called(m) \X {m.tool}),
                    versions |-> SortSeq(Append(r.versions, m), LAMBDA a, b : a.version > b.version)]]

supports(m, version) == \E i \in DOMAIN m.ranges : m.ranges[i][1] <= version /\ version < m.ranges[i][2]

opaqueResolution(q) == [opaque |-> TRUE, tool |-> q.name, version |-> q.version]

(* Resolve: the version asked for, else the first registered version that  *)
(* supports it, else a contract that says nothing and is never promoted.   *)
ResolveTool(r, q) ==
  LET owner == {n[2] : n \in {x \in r.names : x[1] = q.name}}
      exact == {k \in r.byKey : k.tool \in owner /\ k.version = q.version}
      able == SelectSeq(r.versions, LAMBDA k : k.tool \in owner /\ supports(k, q.version))
      known(k) == [opaque |-> FALSE, tool |-> k.tool, version |-> k.version]
  IN  IF q.version = 0 THEN opaqueResolution(q)
      ELSE IF exact # {} THEN known(CHOOSE k \in exact : TRUE)
      ELSE IF able # <<>> THEN known(able[1])
      ELSE opaqueResolution(q)

(* load: every row is registered, in some order, or the load fails.        *)
LoadedInto(order) ==
  FoldLeft(LAMBDA acc, m : IF acc.ok THEN Register(acc.memory, m) ELSE acc,
           [ok |-> TRUE, memory |-> EmptyRegistry], order)

-----------------------------------------------------------------------------
SetStage(s, v) == stages' = [stages EXCEPT ![s] = v]

(* A contract is added (external); tool and version are unique.            *)
AddContract ==
  /\ \E m \in Manifests \ contracts :
       /\ \A k \in contracts : k.tool # m.tool \/ k.version # m.version
       /\ contracts' = contracts \union {m}
  /\ UNCHANGED <<stages, loadFaults>>

(* BuildGraph takes a registry for its tenant; Temporal runs a stage that  *)
(* failed again, with another registry.                                    *)
ForTenant(s) ==
  /\ stages[s].pc \in {"idle", "failed"}
  /\ \E uses \in Uses : SetStage(s, [NoStage EXCEPT !.pc = "load", !.uses = uses])
  /\ UNCHANGED <<contracts, loadFaults>>

(* Mutant: the contracts are read again for every event.                   *)
LoadEveryTime(s) ==
  /\ stages[s].pc \in {"load", "resolve"}
  /\ \E order \in SetToSeqs(contracts) :
       LET loaded == LoadedInto(order)
       IN  SetStage(s, IF ~loaded.ok THEN [stages[s] EXCEPT !.pc = "failed"]
                       ELSE [stages[s] EXCEPT !.pc = "resolve", !.memory = loaded.memory, !.snapshot = contracts])
  /\ UNCHANGED <<contracts, loadFaults>>

(* The first query loads; the registry of a failed load keeps its error.   *)
Load(s) ==
  /\ stages[s].pc = "load"
  /\ \E order \in SetToSeqs(contracts) :
       LET loaded == LoadedInto(order)
       IN  SetStage(s, IF ~loaded.ok THEN [stages[s] EXCEPT !.pc = "failed"]
                       ELSE [stages[s] EXCEPT !.pc = "resolve", !.memory = loaded.memory, !.snapshot = contracts])
  /\ UNCHANGED <<contracts, loadFaults>>

LoadFails(s) ==
  /\ stages[s].pc = "load" /\ loadFaults < MaxLoadFaults
  /\ SetStage(s, [stages[s] EXCEPT !.pc = "failed"])
  /\ loadFaults' = loadFaults + 1 /\ UNCHANGED contracts

(* Build: each event's tool in turn; the stage then records the registry's *)
(* SnapshotVersion, a hash of the contracts loaded.                        *)
ResolveNext(s) ==
  LET g == stages[s]
      n == Len(g.resolved) + 1
  IN  /\ g.pc = "resolve" /\ n <= Len(g.uses)
      /\ SetStage(s, [g EXCEPT !.resolved = Append(@, ResolveTool(g.memory, g.uses[n])),
                               !.pc = IF n = Len(g.uses) THEN "built" ELSE "resolve"])
      /\ UNCHANGED <<contracts, loadFaults>>

RegistryNext ==
  \/ AddContract
  \/ \E s \in Stages : ForTenant(s) \/ Load(s) \/ LoadFails(s) \/ ResolveNext(s)

-----------------------------------------------------------------------------
(* What a set of contracts says of a tool, whatever order it is read in.   *)
ContractFor(S, q) ==
  LET own == {m \in S : q.version # 0 /\ \E k \in S : k.tool = m.tool /\ q.name \in Called(k)}
      exact == {m \in own : m.version = q.version}
      able == {m \in own : supports(m, q.version)}
      best == IF exact # {} THEN exact ELSE {m \in able : \A k \in able : k.version <= m.version}
  IN  IF best = {} THEN opaqueResolution(q)
      ELSE LET m == CHOOSE m \in best : TRUE IN [opaque |-> FALSE, tool |-> m.tool, version |-> m.version]

(* A stage reads its whole trace with one set of contracts, the one its    *)
(* recorded registry version stands for, and that set alone decides the    *)
(* contract of each tool (workflow.go:351-395, registry.go:36-98,          *)
(* processor.go:184-200): neither the order of the rows nor a contract     *)
(* added while it runs does.                                               *)
StagesReadOneSnapshot ==
  \A s \in Stages : \A i \in DOMAIN stages[s].resolved :
    stages[s].resolved[i] = ContractFor(stages[s].snapshot, stages[s].uses[i])
=============================================================================
