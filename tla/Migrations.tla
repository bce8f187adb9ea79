----------------------------- MODULE Migrations -----------------------------
(***************************************************************************)
(* The schema migrator every process runs when it starts                   *)
(* (store/surreal/migrations.go, store/migrations.go), for several         *)
(* replicas at once and while binaries with different migrations are       *)
(* rolled out.  A migration is its checksum, which is a hash of its        *)
(* statements; the version is its place in the binary's list.  A           *)
(* transaction that executes the statements and records the version        *)
(* commits as a whole or not at all, and fails when the version is         *)
(* recorded already (schema_migration_version_unique).                     *)
(***************************************************************************)
EXTENDS Integers, Sequences

CONSTANTS
  Replicas,
  Checksums,
  Binary,       \* the migrations each replica was built with, in order
  MaxAttempts,  \* attempts = 8
  MaxAborts     \* bound on failed reads, failed commits and lost answers

ASSUME MigrationAssumption ==
  /\ Binary \in [Replicas -> Seq(Checksums)]
  /\ MaxAttempts \in Nat \ {0}
  /\ MaxAborts \in Nat

VARIABLES
  rows,      \* schema_migration: the checksum recorded for a version
  migrator,  \* what each replica is doing
  failures

mvars == <<rows, migrator, failures>>

Down == [pc |-> "down", at |-> 0, known |-> {}, tries |-> 0, error |-> "none"]

MigrationsIdle == rows = <<>> /\ migrator = [r \in Replicas |-> Down] /\ failures = 0

Failing == failures < MaxAborts /\ failures' = failures + 1
Working == failures' = failures

Set(r, m) == migrator' = [migrator EXCEPT ![r] = m]
Aborts(r) == Set(r, [Down EXCEPT !.pc = "failed"])

(* The end of applyWithConflictRetry without error: the loop goes on.      *)
Advance(r) ==
  Set(r, [migrator[r] EXCEPT !.pc = "loop", !.at = @ + 1, !.tries = 0, !.error = "none"])

(* verifyAppliedMigrations. *)
Verified(r) == \A v \in DOMAIN rows : v \in DOMAIN Binary[r] /\ Binary[r][v] = rows[v]

(* A version is the place of a migration in its list, so only a list of    *)
(* none is refused.                                                        *)
validateMigrationSequence(migrations) == migrations # <<>>

(* Apply, up to its loop. *)
Apply(r) ==
  /\ migrator[r].pc = "down"
  /\ IF validateMigrationSequence(Binary[r]) /\ Verified(r)
     THEN Set(r, [Down EXCEPT !.pc = "loop", !.at = 1, !.known = DOMAIN rows])
     ELSE Aborts(r)
  /\ Working /\ UNCHANGED rows

(* The loop of Apply: versions applied when it started are passed over.    *)
NextMigration(r) ==
  /\ migrator[r].pc = "loop"
  /\ LET m == migrator[r]
     IN  IF m.at > Len(Binary[r]) THEN Set(r, [Down EXCEPT !.pc = "ready"])
         ELSE IF m.at \in m.known THEN Advance(r)
         ELSE Set(r, [m EXCEPT !.pc = "refresh"])
  /\ Working /\ UNCHANGED rows

(* A read that finds the version recorded ends the attempts on it.         *)
Recorded(r, otherwise) ==
  LET m == migrator[r]
  IN  IF m.at \notin DOMAIN rows THEN otherwise
      ELSE IF rows[m.at] # Binary[r][m.at] THEN Aborts(r) ELSE Advance(r)

(* The refresh at the head of an attempt. *)
Refresh(r) ==
  /\ migrator[r].pc = "refresh"
  /\ Recorded(r, Set(r, [migrator[r] EXCEPT !.pc = "apply"]))
  /\ Working /\ UNCHANGED rows

Record(r) ==
  rows' = [v \in DOMAIN rows \cup {migrator[r].at} |->
             IF v = migrator[r].at THEN Binary[r][v] ELSE rows[v]]

Verify(r, error) == Set(r, [migrator[r] EXCEPT !.pc = "verify", !.error = error])

(* applyOne commits. *)
ApplyOne(r) ==
  /\ migrator[r].pc = "apply" /\ migrator[r].at \notin DOMAIN rows
  /\ Record(r)
  /\ Advance(r)
  /\ Working

(* applyOne fails because another replica was first; the database says so  *)
(* as a conflict or as a unique-index error.                               *)
ApplyCollides(r) ==
  /\ migrator[r].pc = "apply" /\ migrator[r].at \in DOMAIN rows
  /\ \E error \in {"conflict", "other"} : Verify(r, error)
  /\ Working /\ UNCHANGED rows

(* applyOne fails, before the commit or with its answer lost.              *)
ApplyFails(r) ==
  /\ migrator[r].pc = "apply" /\ Failing
  /\ \E error \in {"conflict", "other"} : Verify(r, error)
  /\ \/ UNCHANGED rows
     \/ migrator[r].at \notin DOMAIN rows /\ Record(r)

(* Mutant: a version that could not be applied is left for another replica. *)
ResolveOptimistic(r) ==
  /\ migrator[r].pc = "verify"
  /\ Advance(r)
  /\ Working /\ UNCHANGED rows

(* The read after a failed applyOne, and whether it is tried again.        *)
Resolve(r) ==
  /\ migrator[r].pc = "verify"
  /\ LET m == migrator[r]
     IN  Recorded(r, IF m.error # "conflict" \/ m.tries + 1 = MaxAttempts THEN Aborts(r)
                     ELSE Set(r, [m EXCEPT !.pc = "refresh", !.tries = @ + 1]))
  /\ Working /\ UNCHANGED rows

ReadFails(r) ==
  /\ migrator[r].pc \in {"down", "refresh", "verify"} /\ Failing
  /\ Aborts(r) /\ UNCHANGED rows

(* The process exits or is killed, wherever it is, and is started again.   *)
Restart(r) ==
  /\ migrator[r].pc # "down"
  /\ Set(r, Down) /\ Working /\ UNCHANGED rows

MigratorStep(r) ==
  \/ Apply(r) \/ NextMigration(r) \/ Refresh(r) \/ ApplyOne(r) \/ ApplyCollides(r) \/ ApplyFails(r)
  \/ Resolve(r) \/ ReadFails(r) \/ Restart(r)

MigrationsNext == \E r \in Replicas : MigratorStep(r)

MigrationsSpec == MigrationsIdle /\ [][MigrationsNext]_mvars

-----------------------------------------------------------------------------
IsPrefixOf(r) == \A v \in DOMAIN rows : v \in DOMAIN Binary[r] /\ rows[v] = Binary[r][v]

(* The schema is that of one binary, as far as it goes, whichever replicas *)
(* built it and however often they failed (migrations.go:77-122): versions *)
(* are recorded without a gap, and never one of each of two binaries that  *)
(* differ in an earlier one.                                               *)
OneLineage ==
  /\ \A v \in DOMAIN rows : \A w \in 1 .. v : w \in DOMAIN rows
  /\ rows # <<>> => \E r \in Replicas : IsPrefixOf(r)

(* A replica whose Apply returned without error has every migration it was *)
(* built with in the database, with its own checksum                       *)
(* (migrations.go:54-62, 95-108).                                          *)
ReadyReplicasHaveTheirSchema ==
  \A r \in Replicas : migrator[r].pc = "ready" =>
    \A v \in DOMAIN Binary[r] : v \in DOMAIN rows /\ rows[v] = Binary[r][v]

(* Replicas of different builds that start at once converge: the rows are  *)
(* one build's sequence, and a replica that reports ready has its own      *)
(* (migrations.go:54-122).                                                 *)
MigrationsConverge == OneLineage /\ ReadyReplicasHaveTheirSchema
=============================================================================
