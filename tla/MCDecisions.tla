---------------------------- MODULE MCDecisions ----------------------------
(***************************************************************************)
(* Parts that do not touch each other's state, each on its own instance:   *)
(* the planner, the decisions without state, the schema migrator, the      *)
(* vector channel, the provisioning of its index, the tool registry and    *)
(* the publication of graphs and permits.  A behaviour is one of one part; *)
(* the others rest.                                                        *)
(***************************************************************************)
EXTENDS Planner, Decisions, Migrations, Vector, ToolRegistry, Publications, TLC

VARIABLE part

(* Four resources and what a version requires and provides of them. *)
R(id, schema, preds) == [type |-> "t", id |-> id, schema |-> schema, preds |-> preds]
A == R(1, "s1", {})
AChecked == R(1, "s1", {"ok"})
AOther == R(1, "s2", {})
AApart == R(1, "s3", {})
B == R(2, "s1", {})

Version(i, seed, goal, serial, boundary) ==
  [req |-> i[1], prov |-> i[2], seed |-> seed, goals |-> IF goal THEN {"g"} ELSE {}, observed |-> seed,
   evidence |-> IF seed THEN 3 ELSE 2, risk |-> 1, cost |-> 1,
   reads |-> {r.id : r \in i[1]}, writes |-> {p.id : p \in i[2]}, exclusive |-> {}, mutex |-> {},
   boundary |-> boundary, serial |-> serial]
Limits(beam, d, p, b, x, w) ==
  [beam |-> beam, depth |-> d, procedures |-> p, bridges |-> b, toolCost |-> 3, expansions |-> x,
   work |-> w, novelty |-> 1, unobserved |-> 1]
Wide == [candidates |-> 4, entries |-> 4, total |-> 9, providers |-> 3, edges |-> 9, comparisons |-> 20]
Narrow == [Wide EXCEPT !.edges = 1]

Interfaces == {<<{}, {A}>>, <<{A}, {B}>>, <<{A, B}, {}>>, <<{B}, {A}>>, <<{AChecked}, {B}>>,
               <<{}, {AChecked}>>, <<{AOther}, {}>>}

PlanRequest(f, s, m, limits, flags, external) ==
  [cands |-> [v \in 1 .. 3 |-> Version(f[v], v \in s, v = 3, flags = "serial" /\ v = 2, flags = "boundary" /\ v = 2)],
   man |-> m, rules |-> {<<"t", "s1", "s2">>}, limits |-> limits, goals |-> {"g"}, external |-> external]

FurtherInterfaces == {<<{}, {A}>>, <<{A}, {B}>>, <<{B}, {A}>>, <<{B}, {}>>, <<{AApart}, {B}>>, <<{A, B}, {}>>}
Roomy == Limits(4, 4, 4, 3, 20, 200)
SearchManifests ==
  {Roomy, Limits(1, 4, 4, 3, 20, 200), Limits(4, 2, 4, 3, 20, 200), Limits(4, 4, 4, 1, 4, 200), Limits(4, 4, 4, 3, 20, 60)}
Variations ==
  {<<Wide, "none", {}>>, <<Narrow, "none", {}>>, <<Wide, "serial", {}>>, <<Wide, "boundary", {}>>,
   <<Wide, "none", {A, AApart}>>, <<Narrow, "boundary", {A, AApart}>>}

MCRequests ==
  {PlanRequest(q[1], q[2], q[3], q[4][1], q[4][2], q[4][3]) :
     q \in ([1 .. 3 -> Interfaces] \X {{1}, {1, 2}} \X SearchManifests \X {<<Wide, "none", {}>>})
           \union ([1 .. 3 -> FurtherInterfaces] \X {{}, {1}, {1, 2}} \X {Roomy} \X Variations)}

(* Traces of up to four events. *)
Tool(name, reads, writes, effectful, post, methods) ==
  [name |-> name, reads |-> reads, writes |-> writes, effectful |-> effectful, post |-> post, methods |-> methods]
MCContracts ==
  [write1 |-> Tool("write", {}, {"a"}, TRUE, {}, {}), write2 |-> Tool("write", {}, {"a"}, TRUE, {"q"}, {}),
   edit |-> Tool("edit", {"a"}, {"a"}, TRUE, {}, {"m"}), scratch |-> Tool("scratch", {"a"}, {"b"}, FALSE, {}, {}),
   check |-> Tool("check", {"a"}, {}, FALSE, {"p"}, {}), inspect |-> Tool("inspect", {"b"}, {}, FALSE, {"p"}, {})]

Event(tool, state, a, b) == [tool |-> tool, state |-> state, at |-> [a |-> a, b |-> b]]
MCEvents ==
  {Event(t, "success", at[1], at[2]) : t \in DOMAIN MCContracts, at \in {<<1, 2>>, <<2, 1>>, <<1, 1>>}}
  \union {Event(t, "failure", 1, 2) : t \in {"write1", "edit", "scratch", "check"}}
  \union {Event("edit", "none", 1, 2), Event("write1", "success", NoId, 2), Event("unknown", "success", 1, 2)}
CoreEvents == {e \in MCEvents : e.at = [a |-> 1, b |-> 2] /\ e.tool \notin {"write2", "unknown"} /\ e.state # "none"}
P == [predicate |-> "p", verifier |-> "v"]
Q == [predicate |-> "q", verifier |-> "m"]

TraceQuestion(t, f, o) == [kind |-> "trace", trace |-> t, facts |-> f, outcome |-> o]
AskTraces ==
  \/ \E t \in [1 .. 4 -> CoreEvents] : Ask(TraceQuestion(t, {P}, "verified_success"))
  \/ \E t \in [1 .. 3 -> MCEvents] : Ask(TraceQuestion(t, {P, Q}, "verified_success"))
  \/ \E t \in [1 .. 2 -> CoreEvents], f \in {{}, {P}} : Ask(TraceQuestion(t, f, "abandoned"))
  \/ \E t \in [1 .. 2 -> CoreEvents] : Ask(TraceQuestion(t, {}, "verified_success"))

Policy(z, samples, bounds, ceilings) ==
  [zSquared |-> z, trialSamples |-> samples[1], activeSamples |-> samples[2], trialBound |-> bounds[1],
   activeBound |-> bounds[2], trialCeiling |-> ceilings[1], activeCeiling |-> ceilings[2],
   quarantineAt |-> 2, freshness |-> 2, trialTime |-> 2]

AskEvidence ==
  \E prior \in {"candidate", "trial", "active", "retired", "quarantined"},
     p \in {Policy(77, <<1, 2>>, <<2, 6>>, <<0, 0>>), Policy(77, <<2, 3>>, <<4, 4>>, <<1, 0>>),
            Policy(20, <<1, 1>>, <<0, 10>>, <<0, 1>>), Policy(20, <<3, 2>>, <<0, 10>>, <<0, 1>>)},
     s \in {0, 1, 2, 4}, f \in 0 .. 3, u \in 0 .. 2, l \in {0, 2, 3, 6}, t \in {0, 3, 4}, q \in {{}, {"t"}} :
    Ask([kind |-> "evidence", prior |-> prior, cutoff |-> 5, policy |-> p,
    evidence |-> [successes |-> s, failures |-> f, unsafe |-> u, latest |-> l, trialStarted |-> t, triggers |-> q]])

Ranker(w, k, c, i, x) ==
  [weights |-> w, k |-> k, maxCandidates |-> 2, coefficient |-> c, intercept |-> i,
   features |-> <<[min |-> -3, max |-> 2, missing |-> -1, coefficient |-> x]>>]
Given(v) == [given |-> TRUE, value |-> v]
RankedVersions ==
  {[ranks |-> r, features |-> <<f>>, strength |-> s, observed |-> o] :
     r \in {<<0, 1>>, <<1, 2>>, <<2, 1>>, <<1, 1>>, <<0, 0>>, <<3, 0>>},
     f \in {Given(-3), Given(2), [given |-> FALSE, value |-> 0]}, s \in {1, 2}, o \in BOOLEAN}

AskRankings ==
  \E w \in {<<1, 3>>, <<4, 2>>}, k \in {1}, c \in {-1, 2}, i \in {-135, 60}, x \in {-8, 13},
     v1 \in RankedVersions, v2 \in {v \in RankedVersions : v.strength = 1 /\ v.observed /\ v.features # <<Given(-3)>>} :
    Ask([kind |-> "ranking", ranker |-> Ranker(w, k, c, i, x), candidates |-> <<v1, v2>>])

Pairs == {<<"t", "1">>, <<"t", "2">>, <<"u", "1">>}
Few(S) == UNION {[1 .. n -> S] : n \in 0 .. 3}
Caller(tools, resources, environment, risk, asOf) ==
  [tenant |-> "n1", asOf |-> asOf, recall |-> TRUE, tools |-> tools, resources |-> resources,
   environment |-> environment, harness |-> <<"h", "1">>, forbidden |-> {"wipe"}, risk |-> risk, regions |-> {"eu"}]
Plain == <<<<"t", "1">>>>
Screened(owner, lifecycle, needs, risk, at, region, effects) ==
  [owner |-> owner, shared |-> {}, lifecycle |-> lifecycle, superseded |-> FALSE, tools |-> needs,
   resources |-> {<<n[1], n[2]>> : n \in needs}, environment |-> needs, effects |-> effects, risk |-> risk,
   harness |-> <<"h", NoValue>>, validatedAt |-> at, policy |-> "v1", recall |-> TRUE, region |-> region]
Screening(advisory) ==
  [lifecycles |-> {"trial", "active"}, advisory |-> advisory, risk |-> 2, maxAge |-> 3, policies |-> {"v1"},
   regions |-> {"eu", "us"}]

AskScreenings ==
  \E d \in BOOLEAN, r \in {1, 3},
     x \in (Few(Pairs) \X {Plain} \X {Plain}) \union ({Plain} \X Few(Pairs) \X {Plain})
            \union ({Plain} \X {Plain} \X Few(Pairs)),
     c \in {Screened(k[1], l, n, 2, at, k[2], k[3]) :
              k \in {<<"n1", "eu", {}>>, <<"n2", "eu", {}>>, <<"n1", "us", {}>>, <<"n1", "eu", {"wipe"}>>},
              l \in {"candidate", "active", "superseded"}, n \in {{<<"t", "1">>}, {<<"t", "1">>, <<"u", "1">>}},
              at \in {0, 3, 6}} :
    Ask([kind |-> "screening", policy |-> Screening(d), context |-> Caller(x[1], x[2], x[3], r, IF d THEN 5 ELSE 3), candidate |-> c])

(* Binaries of a rollout: one ahead, one behind, one from another branch.  *)
MCBinary == [r1 |-> <<"a", "b", "c">>, r2 |-> <<"a", "b">>, r3 |-> <<"a", "x">>]

(* Two phrasings of one input, a text that has none, and documents that    *)
(* change with the epoch.                                                  *)
Text(task, harness, tools) == [task |-> task, harness |-> harness, tools |-> tools]
MCSearchTexts == {Text("a", "h", <<1, 2>>), Text("", "h", <<1>>)}
MCDocumentTexts ==
  {[version |-> 1, text |-> Text("a", "h", <<2, 1>>)], [version |-> 1, text |-> Text("b", "h", <<1>>)],
   [version |-> 2, text |-> Text("a", "h", <<2, 1>>)]}
MCAnswers == {<<>>, <<3, 4>>, <<2, 0>>}
Provisioned == ToSet(Statements) \union {"manifest", "generation"}

(* Contracts whose ranges overlap, one that claims another tool's name and *)
(* one that is not well formed.                                            *)
Manifest(tool, version, aliases, ranges) ==
  [tool |-> tool, version |-> version, aliases |-> aliases, ranges |-> ranges, inputs |-> <<"path">>,
   outputs |-> <<"sum">>, reads |-> <<[name |-> "file", field |-> "path"]>>, writes |-> <<>>,
   predicates |-> <<[id |-> "p", resource |-> "file", field |-> ""]>>, idempotency |-> "conditional", key |-> "path"]
MCManifests ==
  {Manifest("a", 1, <<"x">>, <<<<1, 4>>>>), Manifest("a", 2, <<>>, <<<<2, 5>>>>),
   Manifest("a", 3, <<"y">>, <<<<4, 6>>, <<1, 2>>>>), Manifest("b", 1, <<"y">>, <<>>), Manifest("b", 2, <<"b">>, <<>>)}
MCUses ==
  [1 .. 2 -> {[name |-> u[1], version |-> u[2]] : u \in {<<"a", 0>>, <<"a", 3>>, <<"a", 4>>, <<"x", 4>>, <<"y", 3>>, <<"y", 4>>}}]

(* Two graphs that differ under one key, one under another, one with two   *)
(* edges between the same versions; reads of one set of rows in two orders, *)
(* of another set, and one that saw a row twice.                           *)
Edge(source, target, s) == [source |-> source, target |-> target, satisfies |-> s]
Graph(key, E) == [key |-> key, edges |-> E]
MCGraphs ==
  {Graph(1, {Edge(1, 2, {"r"})}), Graph(1, {Edge(1, 2, {"r"}), Edge(2, 3, {"r"})}),
   Graph(2, {Edge(1, 2, {"r"})}), Graph(1, {Edge(1, 2, {"r"}), Edge(1, 2, {"q"})})}
Digest(id, hash) == [id |-> id, hash |-> hash]
Derived(credits, heads) == [credits |-> credits, heads |-> heads]
MCRebuildInputs ==
  {Derived(<<Digest(1, "x"), Digest(2, "y")>>, <<Digest(1, "h")>>),
   Derived(<<Digest(2, "y"), Digest(1, "x")>>, <<Digest(1, "h")>>),
   Derived(<<Digest(1, "x")>>, <<Digest(1, "h")>>), Derived(<<Digest(1, "x"), Digest(1, "y")>>, <<>>)}

Rest(p) ==
  /\ p = "plan" \/ PlannerIdle
  /\ p = "decide" \/ DecisionsIdle
  /\ MigrationsIdle
  /\ IF p # "search" THEN VectorIdle
     ELSE /\ values = <<>> /\ documents = {} /\ index = {} /\ generation = Provisioned
          /\ tasks = [q \in Processes |-> NoJob] /\ provisioning = [q \in Provisioners |-> "done"] /\ vectorFaults = 0
  /\ RegistryIdle
  /\ PublicationsIdle
  /\ part = p

MCInit ==
  \/ Rest("plan") /\ PlannerInit
  \/ Rest("decide") /\ (AskTraces \/ AskEvidence \/ AskRankings \/ AskScreenings)
  \/ \E p \in {"migrate", "search", "provision", "resolve", "publish", "activate"} : Rest(p)

MCNext ==
  /\ \/ part = "plan" /\ PlannerNext /\ UNCHANGED <<dvars, mvars, vvars, tvars, uvars>>
     \/ part = "decide" /\ DecisionsNext /\ UNCHANGED <<pvars, mvars, vvars, tvars, uvars>>
     \/ part = "migrate" /\ MigrationsNext /\ UNCHANGED <<pvars, dvars, vvars, tvars, uvars>>
     \/ part = "search" /\ SearchNext /\ UNCHANGED <<pvars, dvars, mvars, tvars, uvars>>
     \/ part = "provision" /\ ProvisionNext /\ UNCHANGED <<pvars, dvars, mvars, tvars, uvars>>
     \/ part = "resolve" /\ RegistryNext /\ UNCHANGED <<pvars, dvars, mvars, vvars, uvars>>
     \/ part = "publish" /\ PublishNext /\ UNCHANGED <<pvars, dvars, mvars, vvars, tvars>>
     \/ part = "activate" /\ ActivateNext /\ UNCHANGED <<pvars, dvars, mvars, vvars, tvars>>
  /\ UNCHANGED part

MCSymmetry == Permutations(Processes)

MCSpec == MCInit /\ [][MCNext]_<<pvars, dvars, mvars, vvars, tvars, uvars, part>>
=============================================================================
