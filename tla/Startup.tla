-------------------------------- MODULE Startup --------------------------------
(***************************************************************************)
(* Starting the server (main.py lifespan): init_db inspects the database,  *)
(* stamps or upgrades it with the revisions of migrations/versions, and    *)
(* then the configuration may refuse to serve.                             *)
(*                                                                         *)
(* The database is the default one, SQLite: a DDL statement commits by     *)
(* itself, and the first INSERT or UPDATE opens a transaction that lasts   *)
(* until the revision is done.  Processes are killed between any two       *)
(* commits, and two of them may start at once over one database file.      *)
(* How Alembic walks the revisions is modelled from how init_db and the    *)
(* revisions use it.                                                       *)
(***************************************************************************)
EXTENDS Naturals, FiniteSets, Sequences

CONSTANTS Processes, None

VARIABLES schema,   \* what the database has: tables, indexes, columns
          version,  \* the rows of alembic_version
          process,  \* the servers started on this database
          legacy,   \* not in the code: the database was there before Alembic
          broken    \* not in the code: a start was killed, or met by another,
                    \* before its init_db was done

vars == <<schema, version, process, legacy, broken>>

-----------------------------------------------------------------------------
\* migrations/versions

Revisions == {"baseline", "fk_cascade", "resolved_at", "decommission", "merge",
              "ephemeral"}

ASSUME StartupAssumption == None \notin Revisions

\* Mutant of DownRevision: the merge forgets one of the two heads.
DownRevisionUnmerged ==
  [baseline |-> {}, fk_cascade |-> {"baseline"}, resolved_at |-> {"fk_cascade"},
   decommission |-> {"fk_cascade"}, merge |-> {"resolved_at"},
   ephemeral |-> {"merge"}]

\* down_revision
DownRevision ==
  [baseline |-> {}, fk_cascade |-> {"baseline"}, resolved_at |-> {"fk_cascade"},
   decommission |-> {"fk_cascade"}, merge |-> {"resolved_at", "decommission"},
   ephemeral |-> {"merge"}]

Tables == {"tripwires", "endpoints", "deployments", "alerts", "integrations",
           "delivery_attempts"}

\* The statements of upgrade(), each with what it creates and what it drops.
Create(x) == [add |-> {x}, drop |-> {}]

Baseline ==
  <<Create("tripwires"), Create("endpoints"), Create("deployments"),
    Create("ix_deploy_tripwire"), Create("ix_deploy_endpoint"),
    Create("alerts"), Create("ix_alert_deployment"), Create("ix_alert_tripwire"),
    Create("integrations"), Create("delivery_attempts"),
    Create("ix_delivery_alert")>>

\* Mutant of FkCascade: the old table is dropped by a statement of its own.
FkCascadeDropFirst ==
  <<Create("_alembic_tmp_deployments"), [add |-> {}, drop |-> {"deployments"}]>>

\* The batch rebuilds the table: the new one is created by itself, the rest is
\* part of the transaction (see InCommit).
FkCascade == <<Create("_alembic_tmp_deployments")>>

\* A column, and here an index on it: a column that is nullable, or has a default,
\* needs no rebuild.
ResolvedAt == <<Create("alerts.resolved_at"), Create("ix_alert_resolved_at")>>

DecommissionRequested == <<Create("endpoints.decommission_requested_at")>>

Ephemeral == <<Create("endpoints.ephemeral")>>

\* The revision that rejoins the two heads does nothing else.
MergeHeads == <<>>

Statements ==
  [baseline |-> Baseline, fk_cascade |-> FkCascade, resolved_at |-> ResolvedAt,
   decommission |-> DecommissionRequested, merge |-> MergeHeads,
   ephemeral |-> Ephemeral]

\* What is done in the transaction that also moves the version: for the batch,
\* INSERT .. SELECT, DROP, and RENAME.
InCommit ==
  [r \in Revisions |->
     IF r = "fk_cascade"
     THEN [add |-> {"deployments", "deployments.cascade"},
           drop |-> {"_alembic_tmp_deployments"}]
     ELSE [add |-> {}, drop |-> {}]]

\* What the statements of a revision create.
Created(r) == UNION {Statements[r][i].add : i \in DOMAIN Statements[r]}

\* All that a revision leaves behind.
Effect(r) == (Created(r) \cup InCommit[r].add) \ InCommit[r].drop

Below[r \in Revisions] ==
  DownRevision[r] \cup UNION {Below[d] : d \in DownRevision[r]}

\* The revisions that a set of heads stands for.
Applied(heads) == heads \cup UNION {Below[r] : r \in heads}

ScriptHeads == {r \in Revisions : \A s \in Revisions : r \notin DownRevision[s]}

\* What the ORM classes of db.py name.
Needed == Tables \cup {"alerts.resolved_at", "endpoints.ephemeral",
                       "endpoints.decommission_requested_at"}

-----------------------------------------------------------------------------
\* A start: `tables' and `stamped' are init_db's has_tables and has_alembic,
\* `heads' and `todo' Alembic's, `revision' the one in progress and `step' the
\* statements of it that are done.
Starts ==
  [pc : {"down", "inspect", "inspected", "heads", "ensure", "stamp", "upgrade",
         "checks", "serving", "failed", "refused"},
   tables : BOOLEAN, stamped : BOOLEAN, heads : SUBSET Revisions,
   todo : SUBSET Revisions, revision : Revisions \cup {None},
   step : 0 .. Len(Baseline), url : {"https", "http_local", "http"},
   allow : BOOLEAN]

Down == [pc |-> "down", tables |-> FALSE, stamped |-> FALSE, heads |-> {},
         todo |-> {}, revision |-> None, step |-> 0, url |-> "https",
         allow |-> FALSE]

TypeOK ==
  /\ schema \subseteq {"alembic_version", "_alembic_tmp_deployments"}
                        \cup UNION {Effect(r) : r \in Revisions}
  /\ version \subseteq Revisions
  /\ process \in [Processes -> Starts]
  /\ legacy \in BOOLEAN /\ broken \in BOOLEAN

\* A new database, one of before Alembic, or one some release has left.
Init ==
  /\ \/ schema = {} /\ version = {} /\ legacy = FALSE
     \/ schema = Effect("baseline") /\ version = {} /\ legacy = TRUE
     \/ /\ version \in (SUBSET Revisions) \ {{}}
        /\ \A r \in version : Below[r] \cap version = {}
        /\ schema = {"alembic_version"}
                      \cup UNION {Effect(r) : r \in Applied(version)}
        /\ legacy = FALSE
  /\ process = [p \in Processes |-> Down]
  /\ broken = FALSE

Step(p, h) == process' = [process EXCEPT ![p] = h]
At(p, pc) == process[p].pc = pc

\* init_db is running.
Migrating(p) == process[p].pc \notin {"down", "checks", "serving", "failed",
                                      "refused"}

\* An exception out of lifespan: the server does not start.
Raise(p) == Step(p, [Down EXCEPT !.pc = "failed"])

\* The settings are those of the environment of this start.
Start(p, url, allow) ==
  /\ process[p].pc \in {"down", "failed", "refused"}
  /\ Step(p, [Down EXCEPT !.pc = "inspect", !.url = url, !.allow = allow])
  /\ broken' = (broken \/ \E q \in Processes : Migrating(q))
  /\ UNCHANGED <<schema, version, legacy>>

\* The process is killed, or a server stops serving.
Kill(p) ==
  /\ process[p].pc \notin {"down", "failed", "refused"}
  /\ Step(p, Down)
  /\ broken' = (broken \/ Migrating(p))
  /\ UNCHANGED <<schema, version, legacy>>

-----------------------------------------------------------------------------
\* init_db

\* Mutant of Inspect: alembic_version is looked for first.
InspectVersionFirst(p) ==
  LET h == process[p] IN
  /\ \/ /\ At(p, "inspect")
        /\ Step(p, [h EXCEPT !.pc = "inspected",
                             !.stamped = "alembic_version" \in schema])
     \/ /\ At(p, "inspected")
        /\ Step(p, [h EXCEPT !.pc = "heads", !.tables = "tripwires" \in schema])
  /\ UNCHANGED <<schema, version, legacy, broken>>

\* has_table("tripwires"), then has_table("alembic_version")
Inspect(p) ==
  LET h == process[p] IN
  /\ \/ /\ At(p, "inspect")
        /\ Step(p, [h EXCEPT !.pc = "inspected",
                             !.tables = "tripwires" \in schema])
     \/ /\ At(p, "inspected")
        /\ Step(p, [h EXCEPT !.pc = "heads",
                             !.stamped = "alembic_version" \in schema])
  /\ UNCHANGED <<schema, version, legacy, broken>>

\* The scripts must have one head, "head"; the database's are read once.
ReadHeads(p) ==
  LET h == [process[p] EXCEPT !.heads = version] IN
  /\ At(p, "heads")
  /\ \/ Cardinality(ScriptHeads) # 1 /\ Raise(p)
     \/ /\ Cardinality(ScriptHeads) = 1
        /\ version = {}
        /\ Step(p, [h EXCEPT !.pc = "ensure"])
     \/ /\ Cardinality(ScriptHeads) = 1
        /\ version # {}
        /\ Step(p, [h EXCEPT !.pc = "upgrade",
                             !.todo = Revisions \ Applied(version)])
  /\ UNCHANGED <<schema, version, legacy, broken>>

\* alembic_version is created if it is not there.
EnsureVersion(p) ==
  LET h == process[p] IN
  /\ At(p, "ensure")
  /\ schema' = schema \cup {"alembic_version"}
  /\ Step(p, IF h.tables /\ ~h.stamped
             THEN [h EXCEPT !.pc = "stamp"]
             ELSE [h EXCEPT !.pc = "upgrade", !.todo = Revisions])
  /\ UNCHANGED <<version, legacy, broken>>

\* command.stamp(cfg, "head")
Stamp(p) ==
  /\ At(p, "stamp")
  /\ \/ version = {} /\ version' = ScriptHeads
          /\ Step(p, [Down EXCEPT !.pc = "checks", !.url = process[p].url,
                                  !.allow = process[p].allow])
     \/ version # {} /\ Raise(p) /\ UNCHANGED version
  /\ UNCHANGED <<schema, legacy, broken>>

\* command.upgrade: the next revision whose down revisions are done.
NextRevision(p) ==
  LET h == process[p] IN
  /\ At(p, "upgrade") /\ h.revision = None
  /\ \/ \E r \in h.todo :
          /\ DownRevision[r] \cap h.todo = {}
          /\ Step(p, [h EXCEPT !.revision = r, !.step = 0,
                               !.todo = @ \ {r}])
     \/ /\ h.todo = {}
        /\ Step(p, [Down EXCEPT !.pc = "checks", !.url = h.url,
                                !.allow = h.allow])
  /\ UNCHANGED <<schema, version, legacy, broken>>

\* One DDL statement, committed by itself.  What exists cannot be created.
Execute(p) ==
  LET h == process[p]
      s == Statements[h.revision][h.step + 1]
  IN
  /\ At(p, "upgrade") /\ h.revision # None
  /\ h.step < Len(Statements[h.revision])
  /\ \/ /\ s.add \cap schema = {}
        /\ schema' = (schema \ s.drop) \cup s.add
        /\ Step(p, [h EXCEPT !.step = @ + 1])
     \/ s.add \cap schema # {} /\ Raise(p) /\ UNCHANGED schema
  /\ UNCHANGED <<version, legacy, broken>>

\* Mutant of Commit: the version is moved before the statements.
CommitFirst(p) ==
  LET h == process[p]
      moved == DownRevision[h.revision] \cap h.heads
  IN
  /\ At(p, "upgrade") /\ h.revision # None
  /\ h.step = 0 /\ h.revision \notin version
  /\ version' = (version \ moved) \cup {h.revision}
  /\ Step(p, [h EXCEPT !.heads = (@ \ moved) \cup {h.revision}])
  /\ UNCHANGED <<schema, legacy, broken>>

\* Mutant of Commit: whether the rows are still there is not looked at.
CommitBlind(p) ==
  LET h == process[p]
      r == h.revision
      moved == DownRevision[r] \cap h.heads
  IN
  /\ At(p, "upgrade") /\ r # None
  /\ h.step = Len(Statements[r]) /\ r \notin version
  /\ version' = (version \ moved) \cup {r}
  /\ schema' = (schema \ InCommit[r].drop) \cup InCommit[r].add
  /\ Step(p, [h EXCEPT !.revision = None, !.step = 0,
                       !.heads = (@ \ moved) \cup {r}])
  /\ UNCHANGED <<legacy, broken>>

\* The transaction that ends a revision: its rows of alembic_version are those
\* Alembic has in memory, and each must still be there.
Commit(p) ==
  LET h == process[p]
      r == h.revision
      moved == DownRevision[r] \cap h.heads
  IN
  /\ At(p, "upgrade") /\ h.revision # None
  /\ h.step = Len(Statements[r])
  /\ \/ /\ moved \subseteq version /\ r \notin version
        /\ InCommit[r].drop \subseteq schema
        /\ version' = (version \ moved) \cup {r}
        /\ schema' = (schema \ InCommit[r].drop) \cup InCommit[r].add
        /\ Step(p, [h EXCEPT !.revision = None, !.step = 0,
                             !.heads = (@ \ moved) \cup {r}])
     \/ /\ \/ ~(moved \subseteq version) \/ r \in version
           \/ ~(InCommit[r].drop \subseteq schema)
        /\ Raise(p) /\ UNCHANGED <<schema, version>>
  /\ UNCHANGED <<legacy, broken>>

-----------------------------------------------------------------------------
\* The rest of lifespan

InsecureBaseUrl(url) == url = "http"

BaseUrlFailClosed(url, allow) == InsecureBaseUrl(url) /\ ~allow

Serve(p) ==
  LET h == process[p] IN
  /\ At(p, "checks")
  /\ Step(p, [Down EXCEPT !.pc = IF BaseUrlFailClosed(h.url, h.allow)
                                 THEN "refused" ELSE "serving"])
  /\ UNCHANGED <<schema, version, legacy, broken>>

StartStep(p) ==
  \/ Inspect(p) \/ ReadHeads(p) \/ EnsureVersion(p) \/ Stamp(p)
  \/ NextRevision(p) \/ Execute(p) \/ Commit(p) \/ Serve(p)

Next ==
  \E p \in Processes :
    \/ StartStep(p) \/ Kill(p)
    \/ \E url \in {"https", "http_local", "http"}, allow \in BOOLEAN :
         Start(p, url, allow)

Spec == Init /\ [][Next]_vars

-----------------------------------------------------------------------------
\* Properties.

\* A server that serves has every table and column the ORM names, whatever was
\* killed and whoever started beside it: a half-made database is never taken
\* for a finished one.  (Databases of before Alembic: ServesWholeSchemaAlways.)
Whole == \A p \in Processes : At(p, "serving") => Needed \subseteq schema

ServesWholeSchema == ~legacy => Whole

\* init_db brings every database to head (db.py: "bring the schema to head").
ServesWholeSchemaAlways == Whole

\* alembic_version never claims a revision whose changes are not all there.
VersionTellsTruth ==
  ~legacy => \A r \in Applied(version) : Effect(r) \subseteq schema

\* No table is ever gone, also between the statements of a rebuild.
NoTableLost == [][Tables \cap schema \subseteq schema']_vars

\* A start fails only if one was killed or met by another in the middle: from
\* every released version, and from none, the revisions go through to one head.
FailsOnlyIfBroken ==
  (\E p \in Processes : At(p, "failed")) => broken

\* Revisions are recorded in their order and each of them once: two starts that
\* overlap, or one that goes on after a kill, never commit a revision again, and
\* none is recorded before those below it.
RevisedOnce ==
  [][~legacy /\ version' # version =>
       \E r \in Revisions \ Applied(version) :
         /\ DownRevision[r] \subseteq Applied(version)
         /\ Applied(version') = Applied(version) \cup {r}]_vars
=============================================================================
