--------------------------- MODULE Startup_proofs ---------------------------
(***************************************************************************)
(* Why the recorded revision tells the truth and a server that serves has  *)
(* the whole schema, however many starts overlap and wherever they are     *)
(* killed: nothing but the temporary table of the batch is ever dropped,   *)
(* so what a start has seen or done stays done.  Why, alone, none fails;    *)
(* and why no two of them record the same revision.                        *)
(***************************************************************************)
EXTENDS Startup, FiniteSetTheorems, TLAPS

-----------------------------------------------------------------------------
\* The history: Below is a recursive function over a finite set; its values.

\* All that is below each revision.
Chain == [baseline |-> {}, fk_cascade |-> {"baseline"},
          resolved_at |-> {"baseline", "fk_cascade"},
          decommission |-> {"baseline", "fk_cascade"},
          merge |-> {"baseline", "fk_cascade", "resolved_at", "decommission"},
          ephemeral |-> {"baseline", "fk_cascade", "resolved_at",
                         "decommission", "merge"}]

\* The equation.
Unfold(f) == [r \in Revisions |->
                DownRevision[r] \cup UNION {f[d] : d \in DownRevision[r]}]

\* The chain solves the equation that defines Below.
LEMMA ChainUnfolds == Chain = Unfold(Chain)
<1>1. \A r \in Revisions :
        Chain[r] = DownRevision[r] \cup UNION {Chain[d] : d \in DownRevision[r]}
  <2>1. Chain["baseline"] = DownRevision["baseline"] \cup UNION {Chain[d] : d \in DownRevision["baseline"]} BY DEF Chain, DownRevision
  <2>2. Chain["fk_cascade"] = DownRevision["fk_cascade"] \cup UNION {Chain[d] : d \in DownRevision["fk_cascade"]} BY DEF Chain, DownRevision
  <2>3. Chain["resolved_at"] = DownRevision["resolved_at"] \cup UNION {Chain[d] : d \in DownRevision["resolved_at"]} BY DEF Chain, DownRevision
  <2>4. Chain["decommission"] = DownRevision["decommission"] \cup UNION {Chain[d] : d \in DownRevision["decommission"]} BY DEF Chain, DownRevision
  <2>5. Chain["merge"] = DownRevision["merge"] \cup UNION {Chain[d] : d \in DownRevision["merge"]} BY DEF Chain, DownRevision
  <2>6. Chain["ephemeral"] = DownRevision["ephemeral"] \cup UNION {Chain[d] : d \in DownRevision["ephemeral"]} BY DEF Chain, DownRevision
  <2>. QED BY <2>1, <2>2, <2>3, <2>4, <2>5, <2>6 DEF Revisions
<1>2. Chain = [r \in Revisions |-> Chain[r]] BY DEF Chain, Revisions
<1>. QED BY <1>1, <1>2 DEF Unfold

\* So the equation has a solution, and Below is one.
LEMMA BelowUnfolds == Below = Unfold(Below)
BY ChainUnfolds DEF Below, Unfold

\* It has no other.
LEMMA BelowIsChain == Below = Chain
<1>1. Below["baseline"] = Chain["baseline"] BY BelowUnfolds DEF Unfold, DownRevision, Chain, Revisions
<1>2. Below["fk_cascade"] = Chain["fk_cascade"] BY BelowUnfolds, <1>1 DEF Unfold, DownRevision, Chain, Revisions
<1>3. Below["resolved_at"] = Chain["resolved_at"] BY BelowUnfolds, <1>2 DEF Unfold, DownRevision, Chain, Revisions
<1>4. Below["decommission"] = Chain["decommission"] BY BelowUnfolds, <1>2 DEF Unfold, DownRevision, Chain, Revisions
<1>5. Below["merge"] = Chain["merge"] BY BelowUnfolds, <1>3, <1>4 DEF Unfold, DownRevision, Chain, Revisions
<1>6. Below["ephemeral"] = Chain["ephemeral"] BY BelowUnfolds, <1>5 DEF Unfold, DownRevision, Chain, Revisions
<1>7. Below = [r \in Revisions |-> Below[r]] BY BelowUnfolds DEF Unfold
<1>. QED BY <1>1, <1>2, <1>3, <1>4, <1>5, <1>6, <1>7 DEF Revisions, Chain

\* What a set of heads stands for grows with the set, and a revision on top of
\* what is applied brings in nothing else.
LEMMA AppliedFacts ==
  /\ \A V : V \subseteq Applied(V)
  /\ \A V \in SUBSET Revisions : Applied(V) \subseteq Revisions
  /\ \A V, W \in SUBSET Revisions, r \in Revisions :
       /\ DownRevision[r] \subseteq Applied(V)
       /\ W \subseteq DownRevision[r]
       => Applied((V \ W) \cup {r}) = Applied(V) \cup {r}
<1>1. \A V : V \subseteq Applied(V) BY DEF Applied
<1>2. \A r \in Revisions : Below[r] \subseteq Revisions
  BY BelowIsChain DEF Chain, Revisions
<1>3. \A V \in SUBSET Revisions : Applied(V) \subseteq Revisions
  BY <1>2 DEF Applied
<1>4. \A r \in Revisions, d \in Revisions :
        /\ d \in DownRevision[r] => d \in Below[r]
        /\ d \in Below[r] => Below[d] \subseteq Below[r]
  BY BelowIsChain DEF Chain, DownRevision, Revisions
<1>5. ASSUME NEW V \in SUBSET Revisions, NEW W \in SUBSET Revisions,
             NEW r \in Revisions, DownRevision[r] \subseteq Applied(V),
             W \subseteq DownRevision[r]
      PROVE  Applied((V \ W) \cup {r}) = Applied(V) \cup {r}
  <2>1. \A d \in Applied(V) : Below[d] \subseteq Applied(V)
    BY <1>2, <1>4 DEF Applied
  <2>2. Below[r] = DownRevision[r] \cup UNION {Below[d] : d \in DownRevision[r]}
    BY BelowUnfolds DEF Unfold
  <2>3. Below[r] \subseteq Applied(V) BY <1>5, <2>1, <2>2
  <2>4. W \subseteq Below[r] /\ \A d \in W : Below[d] \subseteq Below[r]
    BY <1>4, <1>5
  <2>5. Applied((V \ W) \cup {r}) \subseteq Applied(V) \cup {r}
    BY <2>3 DEF Applied
  <2>6. Applied(V) \cup {r} \subseteq Applied((V \ W) \cup {r})
    BY <2>4 DEF Applied
  <2>. QED BY <2>5, <2>6
<1>. QED BY <1>1, <1>3, <1>5

\* The one head.
LEMMA HeadFacts ==
  ScriptHeads = {"ephemeral"} /\ Applied(ScriptHeads) = Revisions
<1>1. ScriptHeads = {"ephemeral"}
  BY DEF ScriptHeads, Revisions, DownRevision
<1>. QED BY <1>1, BelowIsChain DEF Applied, Chain, Revisions

-----------------------------------------------------------------------------
\* The revisions: what they create, and the one thing they drop.

Temporary == "_alembic_tmp_deployments"

\* Every statement creates one thing, only the batch a temporary one.
OneEach(r, n) ==
  /\ Len(Statements[r]) = n /\ DOMAIN Statements[r] = 1..n
  /\ \A i \in 1..n : \E x :
       Statements[r][i] = Create(x) /\ (x = Temporary => r = "fk_cascade")

LEMMA StatementFacts ==
  /\ Len(Baseline) = 11
  /\ OneEach("baseline", 11) /\ OneEach("fk_cascade", 1)
  /\ OneEach("resolved_at", 2) /\ OneEach("decommission", 1)
  /\ OneEach("merge", 0) /\ OneEach("ephemeral", 1)
<1>1. /\ Statements["baseline"] = Baseline
      /\ Statements["fk_cascade"] = FkCascade
      /\ Statements["resolved_at"] = ResolvedAt
      /\ Statements["decommission"] = DecommissionRequested
      /\ Statements["merge"] = MergeHeads
      /\ Statements["ephemeral"] = Ephemeral
  BY DEF Statements
<1>2. /\ Len(Baseline) = 11 /\ DOMAIN Baseline = 1..11
  BY DEF Baseline
<1>3. \A i \in 1..11 : \E x : Baseline[i] = Create(x) /\ x # Temporary
  BY DEF Baseline, Temporary
<1>4. OneEach("baseline", 11) BY <1>1, <1>2, <1>3 DEF OneEach
<1>5. OneEach("fk_cascade", 1) BY <1>1 DEF OneEach, FkCascade
<1>6. OneEach("resolved_at", 2) BY <1>1 DEF OneEach, ResolvedAt, Temporary
<1>7. OneEach("decommission", 1)
  BY <1>1 DEF OneEach, DecommissionRequested, Temporary
<1>8. OneEach("merge", 0) BY <1>1 DEF OneEach, MergeHeads
<1>9. OneEach("ephemeral", 1) BY <1>1 DEF OneEach, Ephemeral, Temporary
<1>. QED BY <1>2, <1>4, <1>5, <1>6, <1>7, <1>8, <1>9

LEMMA RevisionFacts ==
  ASSUME NEW r \in Revisions
  PROVE  /\ Len(Statements[r]) \in 0..Len(Baseline)
         /\ DOMAIN Statements[r] = 1..Len(Statements[r])
         /\ \A i \in DOMAIN Statements[r] : Statements[r][i].drop = {}
         /\ Effect(r) = (Created(r) \cup InCommit[r].add) \ InCommit[r].drop
         /\ InCommit[r].drop \subseteq {Temporary}
         /\ Temporary \notin Effect(r) \cup InCommit[r].add
<1>1. /\ Len(Statements[r]) \in 0..Len(Baseline)
      /\ DOMAIN Statements[r] = 1..Len(Statements[r])
      /\ \A i \in DOMAIN Statements[r] : \E x :
           Statements[r][i] = Create(x) /\ (x = Temporary => r = "fk_cascade")
  <2>1. \E n \in 0..11 : OneEach(r, n) BY StatementFacts DEF Revisions
  <2>. QED BY <2>1, StatementFacts DEF OneEach
<1>2. /\ InCommit[r].drop \subseteq {Temporary}
      /\ Temporary \notin InCommit[r].add
      /\ r = "fk_cascade" => Temporary \in InCommit[r].drop
  BY DEF InCommit, Temporary
<1>3. Effect(r) = (Created(r) \cup InCommit[r].add) \ InCommit[r].drop
  BY DEF Effect
<1>4. \A i \in DOMAIN Statements[r] :
        /\ Statements[r][i].drop = {}
        /\ Temporary \in Statements[r][i].add => r = "fk_cascade"
  <2>. SUFFICES ASSUME NEW i \in DOMAIN Statements[r]
                PROVE  /\ Statements[r][i].drop = {}
                       /\ Temporary \in Statements[r][i].add => r = "fk_cascade"
    OBVIOUS
  <2>1. PICK x : Statements[r][i] = Create(x) /\ (x = Temporary => r = "fk_cascade")
    BY <1>1
  <2>2. Create(x).add = {x} /\ Create(x).drop = {} BY DEF Create
  <2>. QED BY <2>1, <2>2
<1>5. Temporary \in Created(r) => r = "fk_cascade"
  <2>. SUFFICES ASSUME Temporary \in Created(r) PROVE r = "fk_cascade" OBVIOUS
  <2>1. PICK i \in DOMAIN Statements[r] : Temporary \in Statements[r][i].add
    BY DEF Created
  <2>. QED BY <1>4, <2>1
<1>6. Temporary \notin Effect(r) \cup InCommit[r].add BY <1>2, <1>3, <1>5
<1>7. \A i \in DOMAIN Statements[r] : Statements[r][i].drop = {} BY <1>4
<1>. QED BY <1>1, <1>2, <1>3, <1>6, <1>7

\* Together the revisions create all that the ORM names.
LEMMA NeededIsCreated == Needed \subseteq UNION {Effect(r) : r \in Revisions}
<1>1. ASSUME NEW r \in {"baseline", "resolved_at", "decommission", "ephemeral"}
      PROVE  r \in Revisions /\ Created(r) \subseteq Effect(r)
  BY <1>1, RevisionFacts DEF Revisions, InCommit
<1>2. ASSUME NEW i \in 1..11 PROVE Baseline[i].add \subseteq Effect("baseline")
  BY <1>1, <1>2, StatementFacts DEF Created, OneEach, Statements
<1>3. /\ Baseline[1].add = {"tripwires"} /\ Baseline[2].add = {"endpoints"}
      /\ Baseline[3].add = {"deployments"} /\ Baseline[6].add = {"alerts"}
      /\ Baseline[9].add = {"integrations"}
      /\ Baseline[10].add = {"delivery_attempts"}
  BY DEF Baseline, Create
<1>4. Tables \subseteq Effect("baseline") BY <1>2, <1>3 DEF Tables
<1>5. "alerts.resolved_at" \in Effect("resolved_at")
  <2>1. ResolvedAt[1].add = {"alerts.resolved_at"} BY DEF ResolvedAt, Create
  <2>. QED BY <1>1, <2>1, StatementFacts DEF Created, OneEach, Statements
<1>6. "endpoints.decommission_requested_at" \in Effect("decommission")
  <2>1. DecommissionRequested[1].add = {"endpoints.decommission_requested_at"}
    BY DEF DecommissionRequested, Create
  <2>. QED BY <1>1, <2>1, StatementFacts DEF Created, OneEach, Statements
<1>7. "endpoints.ephemeral" \in Effect("ephemeral")
  <2>1. Ephemeral[1].add = {"endpoints.ephemeral"} BY DEF Ephemeral, Create
  <2>. QED BY <1>1, <2>1, StatementFacts DEF Created, OneEach, Statements
<1>. QED BY <1>1, <1>4, <1>5, <1>6, <1>7 DEF Needed, Revisions


-----------------------------------------------------------------------------
\* The inductive invariant.

\* Tables come after alembic_version, and so does a recorded revision: but for
\* the databases of before Alembic.
Marked ==
  ~legacy => /\ "tripwires" \in schema => "alembic_version" \in schema
             /\ version # {} => "alembic_version" \in schema

\* What a start has inspected is still so, and it stamps no other database.
Seen(p) ==
  ~legacy =>
    /\ process[p].tables => "tripwires" \in schema
    /\ process[p].pc \in {"heads", "ensure"} /\ process[p].tables =>
         process[p].stamped
    /\ process[p].pc # "stamp"
    /\ At(p, "upgrade") => "alembic_version" \in schema

\* What an upgrade has left behind is applied, and the statements of the
\* revision in progress have done their work.
Upgrading(p) ==
  LET h == process[p] IN
  At(p, "upgrade") =>
    /\ \A r \in Revisions \ h.todo : r \in Applied(version) \/ r = h.revision
    /\ h.revision # None =>
         /\ DownRevision[h.revision] \subseteq Applied(version)
         /\ h.step \in 0..Len(Statements[h.revision])
         /\ \A i \in 1..h.step :
              Statements[h.revision][i].add \ {Temporary} \subseteq schema

\* A start that is past init_db has the whole schema.
Complete(p) ==
  ~legacy /\ process[p].pc \in {"checks", "serving"} => Needed \subseteq schema

\* No revision is in progress but in an upgrade.
Idle(p) == ~At(p, "upgrade") => process[p].revision = None

IndInv ==
  /\ TypeOK /\ Marked /\ VersionTellsTruth
  /\ \A p \in Processes : Seen(p) /\ Upgrading(p) /\ Idle(p) /\ Complete(p)

-----------------------------------------------------------------------------
\* Types.

\* A process that is not started is typed.
LEMMA DownTyped == Down \in Starts
BY StatementFacts DEF Down, Starts

LEMMA TypeInit == Init => TypeOK
<1>. SUFFICES ASSUME Init PROVE TypeOK OBVIOUS
<1>1. process \in [Processes -> Starts] BY DownTyped DEF Init
<1>2. legacy \in BOOLEAN /\ broken \in BOOLEAN BY DEF Init
<1>3. version \subseteq Revisions BY DEF Init
<1>4. Applied(version) \subseteq Revisions BY <1>3, AppliedFacts
<1>5. schema \subseteq {"alembic_version"} \cup UNION {Effect(r) : r \in Revisions}
  <2>1. CASE schema = {} BY <2>1
  <2>2. CASE schema = Effect("baseline") BY <2>2 DEF Revisions
  <2>3. CASE schema = {"alembic_version"}
                        \cup UNION {Effect(r) : r \in Applied(version)}
    BY <1>4, <2>3
  <2>. QED BY <2>1, <2>2, <2>3 DEF Init
<1>. QED BY <1>1, <1>2, <1>3, <1>5 DEF TypeOK


\* A step of p to a typed start keeps the types of them all.
LEMMA StepTyped ==
  ASSUME TypeOK, NEW p \in Processes, NEW h \in Starts, Step(p, h)
  PROVE  process' \in [Processes -> Starts]
BY DEF TypeOK, Step

\* What is done once init_db has returned.
LEMMA ChecksTyped ==
  ASSUME NEW h \in Starts
  PROVE  [Down EXCEPT !.pc = "checks", !.url = h.url, !.allow = h.allow] \in Starts
BY DownTyped DEF Starts


\* A start keeps its types.
LEMMA ProcessTypes ==
  ASSUME TypeOK, [Next]_vars
  PROVE  process' \in [Processes -> Starts]
<1>1. process \in [Processes -> Starts] /\ version \subseteq Revisions
  BY DEF TypeOK
<1>2. Down \in Starts BY DownTyped
<1>3. Len(Baseline) = 11 BY StatementFacts
<1>4. ASSUME NEW p \in Processes, NEW url \in {"https", "http_local", "http"},
             NEW allow \in BOOLEAN, Start(p, url, allow)
      PROVE process' \in [Processes -> Starts]
  <2>1. [Down EXCEPT !.pc = "inspect", !.url = url, !.allow = allow] \in Starts
    BY <1>2 DEF Starts
  <2>. QED BY <2>1, <1>4, StepTyped DEF Start
<1>5. ASSUME NEW p \in Processes, Kill(p) PROVE process' \in [Processes -> Starts]
  BY <1>2, <1>5, StepTyped DEF Kill
<1>6. ASSUME NEW p \in Processes, Inspect(p) PROVE process' \in [Processes -> Starts]
  <2>1. \A b \in BOOLEAN :
          /\ [process[p] EXCEPT !.pc = "inspected", !.tables = b] \in Starts
          /\ [process[p] EXCEPT !.pc = "heads", !.stamped = b] \in Starts
    BY <1>1 DEF Starts
  <2>2. /\ ("tripwires" \in schema) \in BOOLEAN
        /\ ("alembic_version" \in schema) \in BOOLEAN
    OBVIOUS
  <2>3. /\ [process[p] EXCEPT !.pc = "inspected",
                              !.tables = "tripwires" \in schema] \in Starts
        /\ [process[p] EXCEPT !.pc = "heads",
                              !.stamped = "alembic_version" \in schema] \in Starts
    BY <2>1, <2>2, Zenon
  <2>. QED BY <2>3, <1>6, StepTyped DEF Inspect
<1>7. ASSUME NEW p \in Processes, ReadHeads(p) PROVE process' \in [Processes -> Starts]
  <2>1. /\ [[process[p] EXCEPT !.heads = version] EXCEPT !.pc = "ensure"] \in Starts
        /\ [[process[p] EXCEPT !.heads = version]
              EXCEPT !.pc = "upgrade", !.todo = Revisions \ Applied(version)] \in Starts
        /\ [Down EXCEPT !.pc = "failed"] \in Starts
    BY <1>1, <1>2 DEF Starts
  <2>. QED BY <2>1, <1>7, StepTyped DEF ReadHeads, Raise
<1>8. ASSUME NEW p \in Processes, EnsureVersion(p) PROVE process' \in [Processes -> Starts]
  <2>1. /\ [process[p] EXCEPT !.pc = "stamp"] \in Starts
        /\ [process[p] EXCEPT !.pc = "upgrade", !.todo = Revisions] \in Starts
    BY <1>1 DEF Starts
  <2>. QED BY <2>1, <1>8, StepTyped DEF EnsureVersion
<1>9. ASSUME NEW p \in Processes, Stamp(p) PROVE process' \in [Processes -> Starts]
  <2>1. [Down EXCEPT !.pc = "failed"] \in Starts BY <1>2 DEF Starts
  <2>. QED BY <1>1, <2>1, <1>9, StepTyped, ChecksTyped DEF Stamp, Raise
<1>10. ASSUME NEW p \in Processes, NextRevision(p) PROVE process' \in [Processes -> Starts]
  <2>1. 0 \in 0..Len(Baseline) BY <1>3
  <2>2. \A r \in Revisions :
          [process[p] EXCEPT !.revision = r, !.step = 0, !.todo = @ \ {r}] \in Starts
    BY <1>1, <2>1 DEF Starts
  <2>3. process[p].todo \subseteq Revisions BY <1>1 DEF Starts
  <2>. QED BY <1>1, <2>2, <2>3, <1>10, StepTyped, ChecksTyped DEF NextRevision
<1>11. ASSUME NEW p \in Processes, Execute(p) PROVE process' \in [Processes -> Starts]
  <2>1. process[p].revision \in Revisions BY <1>1, <1>11 DEF Execute, Starts
  <2>2. process[p].step + 1 \in 0..Len(Baseline)
    <3>1. process[p].step \in Nat BY <1>1, <1>3 DEF Starts
    <3>2. Len(Statements[process[p].revision]) \in 0..Len(Baseline)
      BY <2>1, RevisionFacts
    <3>3. process[p].step < Len(Statements[process[p].revision])
      BY <1>11 DEF Execute
    <3>4. \A s, l, m \in Nat : s < l /\ l \in 0..m => s + 1 \in 0..m OBVIOUS
    <3>5. 11 \in Nat /\ Len(Statements[process[p].revision]) \in Nat
      BY <1>3, <3>2
    <3>. QED BY <1>3, <3>1, <3>2, <3>3, <3>4, <3>5
  <2>3. /\ [process[p] EXCEPT !.step = @ + 1] \in Starts
        /\ [Down EXCEPT !.pc = "failed"] \in Starts
    BY <1>1, <1>2, <2>2 DEF Starts
  <2>. QED BY <2>3, <1>11, StepTyped DEF Execute, Raise
<1>12. ASSUME NEW p \in Processes, Commit(p) PROVE process' \in [Processes -> Starts]
  <2>1. process[p].revision \in Revisions BY <1>1, <1>12 DEF Commit, Starts
  <2>2. 0 \in 0..Len(Baseline) BY <1>3
  <2>3. \A moved :
          [process[p] EXCEPT !.revision = None, !.step = 0,
             !.heads = (@ \ moved) \cup {process[p].revision}] \in Starts
    BY <1>1, <2>1, <2>2 DEF Starts
  <2>4. [Down EXCEPT !.pc = "failed"] \in Starts BY <1>2 DEF Starts
  <2>. QED BY <2>3, <2>4, <1>12, StepTyped DEF Commit, Raise
<1>13. ASSUME NEW p \in Processes, Serve(p) PROVE process' \in [Processes -> Starts]
  <2>1. \A pc \in {"refused", "serving"} : [Down EXCEPT !.pc = pc] \in Starts
    BY <1>2 DEF Starts
  <2>. QED BY <2>1, <1>13, StepTyped DEF Serve
<1>14. CASE UNCHANGED vars
  BY <1>1, <1>2, <1>3, <1>14 DEF vars
<1>. QED BY <1>4, <1>5, <1>6, <1>7, <1>8, <1>9, <1>10, <1>11, <1>12, <1>13,
          <1>14 DEF Next, StartStep

\* The database, and what only the model knows.
Database ==
  /\ version \subseteq Revisions /\ legacy \in BOOLEAN /\ broken \in BOOLEAN
  /\ schema \subseteq {"alembic_version", Temporary}
                         \cup UNION {Effect(r) : r \in Revisions}


\* The database keeps its types.
LEMMA DatabaseTypes ==
  ASSUME TypeOK, [Next]_vars
  PROVE  Database'
<1>1. Database BY DEF TypeOK, Database, Temporary
<1>2. process \in [Processes -> Starts] BY DEF TypeOK
<1>3. ScriptHeads \subseteq Revisions BY HeadFacts DEF Revisions
<1>4. ASSUME NEW p \in Processes, NEW url \in {"https", "http_local", "http"},
             NEW allow \in BOOLEAN, Start(p, url, allow)
      PROVE Database'
  BY <1>1, <1>2, <1>3, <1>4 DEF Start, Database
<1>5. ASSUME NEW p \in Processes, Kill(p) PROVE Database'
  BY <1>1, <1>2, <1>3, <1>5 DEF Kill, Database
<1>6. ASSUME NEW p \in Processes, Inspect(p) PROVE Database'
  BY <1>1, <1>2, <1>3, <1>6 DEF Inspect, Database
<1>7. ASSUME NEW p \in Processes, ReadHeads(p) PROVE Database'
  BY <1>1, <1>2, <1>3, <1>7 DEF ReadHeads, Database
<1>8. ASSUME NEW p \in Processes, EnsureVersion(p) PROVE Database'
  BY <1>1, <1>2, <1>3, <1>8 DEF EnsureVersion, Database
<1>9. ASSUME NEW p \in Processes, Stamp(p) PROVE Database'
  BY <1>1, <1>2, <1>3, <1>9 DEF Stamp, Database
<1>10. ASSUME NEW p \in Processes, NextRevision(p) PROVE Database'
  BY <1>1, <1>2, <1>3, <1>10 DEF NextRevision, Database
<1>11. ASSUME NEW p \in Processes, Execute(p) PROVE Database'
  <2>1. PICK r \in Revisions : r = process[p].revision
    BY <1>2, <1>11 DEF Execute, Starts
  <2>2. CASE schema' = schema BY <1>1, <1>11, <2>2 DEF Execute, Database
  <2>3. CASE schema' # schema
    <3>1. DOMAIN Statements[r] = 1..Len(Statements[r]) /\ Len(Statements[r]) \in Nat
      BY <2>1, RevisionFacts, StatementFacts
    <3>2. process[p].step \in Nat BY <1>2 DEF Starts
    <3>3. process[p].step + 1 \in DOMAIN Statements[r]
      BY <1>11, <2>1, <3>1, <3>2 DEF Execute
    <3>4. schema' \subseteq schema \cup Statements[r][process[p].step + 1].add
      BY <1>11, <2>1, <2>3 DEF Execute
    <3>5. Statements[r][process[p].step + 1].add \subseteq Created(r)
      BY <3>3 DEF Created
    <3>6. Created(r) \subseteq Effect(r) \cup {Temporary}
      BY <2>1, RevisionFacts
    <3>. QED BY <1>1, <1>11, <2>1, <3>4, <3>5, <3>6 DEF Execute, Database
  <2>. QED BY <2>2, <2>3
<1>12. ASSUME NEW p \in Processes, Commit(p) PROVE Database'
  <2>1. PICK r \in Revisions : r = process[p].revision
    BY <1>2, <1>12 DEF Commit, Starts
  <2>2. InCommit[r].add \subseteq Effect(r) BY <2>1, RevisionFacts
  <2>3. schema' \subseteq schema \cup Effect(r) BY <1>12, <2>1, <2>2 DEF Commit
  <2>4. version' \subseteq version \cup {r} BY <1>12, <2>1 DEF Commit
  <2>. QED BY <1>1, <1>12, <2>1, <2>3, <2>4 DEF Commit, Database
<1>13. ASSUME NEW p \in Processes, Serve(p) PROVE Database'
  BY <1>1, <1>2, <1>3, <1>13 DEF Serve, Database
<1>14. CASE UNCHANGED vars
  BY <1>1, <1>2, <1>3, <1>14 DEF vars, Database
<1>. QED BY <1>4, <1>5, <1>6, <1>7, <1>8, <1>9, <1>10, <1>11, <1>12, <1>13,
          <1>14 DEF Next, StartStep

-----------------------------------------------------------------------------
\* Nothing but the temporary table goes, and no revision is taken back.

Grows ==
  /\ legacy' = legacy /\ schema \ {Temporary} \subseteq schema'
  /\ version \subseteq Revisions
  /\ Applied(version) \subseteq Applied(version')


\* Every step of an invariant state keeps the history.
LEMMA History ==
  ASSUME IndInv, [Next]_vars
  PROVE  Grows
<1>1. process \in [Processes -> Starts] /\ version \subseteq Revisions
      /\ \A p \in Processes : Upgrading(p)
  BY DEF IndInv, TypeOK
<1>2. ASSUME NEW p \in Processes, NEW url \in {"https", "http_local", "http"},
             NEW allow \in BOOLEAN, Start(p, url, allow)
      PROVE Grows
  BY <1>1, <1>2 DEF Start, Grows
<1>3. ASSUME NEW p \in Processes, Kill(p) PROVE Grows
  BY <1>1, <1>3 DEF Kill, Grows
<1>4. ASSUME NEW p \in Processes, Inspect(p) PROVE Grows
  BY <1>1, <1>4 DEF Inspect, Grows
<1>5. ASSUME NEW p \in Processes, ReadHeads(p) PROVE Grows
  BY <1>1, <1>5 DEF ReadHeads, Grows
<1>6. ASSUME NEW p \in Processes, EnsureVersion(p) PROVE Grows
  BY <1>1, <1>6 DEF EnsureVersion, Grows
<1>7. ASSUME NEW p \in Processes, Stamp(p) PROVE Grows
  <2>1. Applied({}) = {} BY DEF Applied
  <2>. QED BY <1>1, <1>7, <2>1 DEF Stamp, Raise, Grows
<1>8. ASSUME NEW p \in Processes, NextRevision(p) PROVE Grows
  BY <1>1, <1>8 DEF NextRevision, Grows
<1>9. ASSUME NEW p \in Processes, Execute(p) PROVE Grows
  <2>1. PICK r \in Revisions : r = process[p].revision
    BY <1>1, <1>9 DEF Execute, Starts
  <2>2. CASE schema' = schema BY <1>1, <1>9, <2>2 DEF Execute, Grows
  <2>3. CASE schema' # schema
    <3>1. process[p].step + 1 \in DOMAIN Statements[r]
      <4>1. DOMAIN Statements[r] = 1..Len(Statements[r]) /\ Len(Statements[r]) \in Nat
        BY <2>1, RevisionFacts, StatementFacts
      <4>2. process[p].step \in Nat BY <1>1 DEF Starts
      <4>. QED BY <1>9, <2>1, <4>1, <4>2 DEF Execute
    <3>2. Statements[r][process[p].step + 1].drop = {}
      BY <2>1, <3>1, RevisionFacts
    <3>. QED BY <1>1, <1>9, <2>1, <2>3, <3>2 DEF Execute, Grows
  <2>. QED BY <2>2, <2>3
<1>10. ASSUME NEW p \in Processes, Commit(p) PROVE Grows
  <2>1. PICK r \in Revisions : r = process[p].revision
    BY <1>1, <1>10 DEF Commit, Starts
  <2>2. CASE UNCHANGED <<schema, version>>
    BY <1>1, <1>10, <2>2 DEF Commit, Grows
  <2>3. CASE ~UNCHANGED <<schema, version>>
    <3>. DEFINE moved == DownRevision[r] \cap process[p].heads
    <3>1. /\ version' = (version \ moved) \cup {r}
          /\ schema' = (schema \ InCommit[r].drop) \cup InCommit[r].add
          /\ legacy' = legacy
      BY <1>10, <2>1, <2>3 DEF Commit
    <3>2. DownRevision[r] \subseteq Applied(version)
      BY <1>1, <1>10, <2>1 DEF Commit, Upgrading
    <3>3. version \cap moved \in SUBSET Revisions BY <1>1
    <3>4. Applied((version \ (version \cap moved)) \cup {r}) = Applied(version) \cup {r}
      BY <1>1, <2>1, <3>2, <3>3, AppliedFacts
    <3>5. version \ (version \cap moved) = version \ moved OBVIOUS
    <3>6. Applied(version) \subseteq Applied(version')
      BY <3>1, <3>4, <3>5
    <3>7. InCommit[r].drop \subseteq {Temporary} BY <2>1, RevisionFacts
    <3>. QED BY <1>1, <3>1, <3>6, <3>7 DEF Grows
  <2>. QED BY <2>2, <2>3
<1>11. ASSUME NEW p \in Processes, Serve(p) PROVE Grows
  BY <1>1, <1>11 DEF Serve, Grows
<1>12. CASE UNCHANGED vars
  BY <1>1, <1>12 DEF vars, Grows
<1>. QED BY <1>2, <1>3, <1>4, <1>5, <1>6, <1>7, <1>8, <1>9, <1>10, <1>11,
          <1>12 DEF Next, StartStep

\* So what holds of a start that does not move goes on to hold.
LEMMA Kept ==
  ASSUME Grows, NEW q \in Processes, process'[q] = process[q],
         Seen(q), Upgrading(q), Idle(q), Complete(q)
  PROVE  Seen(q)' /\ Upgrading(q)' /\ Idle(q)' /\ Complete(q)'
<1>1. Temporary \notin {"tripwires", "alembic_version"} \cup Needed
  BY DEF Temporary, Needed, Tables
<1>2. Seen(q)' BY <1>1 DEF Grows, Seen, At
<1>3. Upgrading(q)'
  <2>. SUFFICES ASSUME At(q, "upgrade")' PROVE Upgrading(q)' BY DEF Upgrading
  <2>1. At(q, "upgrade") BY DEF At
  <2>2. \A r \in Revisions \ process[q].todo :
          r \in Applied(version') \/ r = process[q].revision
    BY <2>1 DEF Grows, Upgrading
  <2>3. ASSUME process[q].revision # None
        PROVE  /\ DownRevision[process[q].revision] \subseteq Applied(version')
               /\ process[q].step \in 0..Len(Statements[process[q].revision])
               /\ \A i \in 1..process[q].step :
                    Statements[process[q].revision][i].add \ {Temporary}
                       \subseteq schema'
    BY <2>1, <2>3 DEF Grows, Upgrading
  <2>. QED BY <2>2, <2>3 DEF Upgrading
<1>4. Complete(q)' BY <1>1 DEF Grows, Complete
<1>5. Idle(q)' BY DEF Idle, At
<1>. QED BY <1>2, <1>3, <1>4, <1>5

-----------------------------------------------------------------------------
\* The start that moves.

\* One step of p, and what it means for p.
Own(p) ==
  /\ \A q \in Processes \ {p} : process'[q] = process[q]
  /\ Seen(p)' /\ Upgrading(p)' /\ Idle(p)' /\ Complete(p)'

\* A start that is stopped, or past init_db, has nothing more to keep.
LEMMA Stopped ==
  ASSUME process \in [Processes -> Starts], NEW p \in Processes, NEW h,
         Step(p, h), ~h.tables, h.revision = None,
         h.pc \notin {"heads", "ensure", "stamp", "upgrade"},
         ~legacy' /\ h.pc \in {"checks", "serving"} => Needed \subseteq schema'
  PROVE  Own(p)
<1>1. process'[p] = h /\ \A q \in Processes \ {p} : process'[q] = process[q]
  BY DEF Step
<1>. QED BY <1>1 DEF Own, Seen, Upgrading, Idle, Complete, At


\* One step of one start.
LEMMA Move ==
  ASSUME IndInv, Grows, NEW p \in Processes,
         \/ StartStep(p) \/ Kill(p)
         \/ \E url \in {"https", "http_local", "http"}, allow \in BOOLEAN :
              Start(p, url, allow)
  PROVE  Own(p)
<1>1. /\ process \in [Processes -> Starts] /\ Marked /\ VersionTellsTruth /\ Grows
      /\ Seen(p) /\ Upgrading(p) /\ Complete(p) /\ Idle(p)
  BY DEF IndInv, TypeOK
<1>2. ASSUME NEW url \in {"https", "http_local", "http"}, NEW allow \in BOOLEAN,
             Start(p, url, allow)
      PROVE Own(p)
  <2>. DEFINE h == [Down EXCEPT !.pc = "inspect", !.url = url, !.allow = allow]
  <2>1. ~h.tables /\ h.revision = None /\ h.pc = "inspect" BY DEF Down
  <2>2. Step(p, h) BY <1>2 DEF Start
  <2>. HIDE DEF h
  <2>. QED BY <1>1, <2>1, <2>2, Stopped
<1>3. CASE Kill(p)
  BY <1>1, <1>3, Stopped DEF Kill, Down
<1>4. CASE Inspect(p)
  <2>1. /\ process'[p].pc \in {"inspected", "heads"}
        /\ ~legacy /\ process'[p].tables => "tripwires" \in schema'
        /\ process'[p].pc = "heads" /\ ~legacy /\ process'[p].tables
             => process'[p].stamped
        /\ process'[p].revision = None
        /\ \A q \in Processes \ {p} : process'[q] = process[q]
    <3>1. CASE process[p].pc = "inspect"
      <4>1. process' = [process EXCEPT ![p] =
              [process[p] EXCEPT !.pc = "inspected",
                                 !.tables = "tripwires" \in schema]]
        BY <1>4, <3>1 DEF Inspect, Step, At
      <4>2. /\ process'[p].pc = "inspected"
            /\ process'[p].tables = ("tripwires" \in schema)
            /\ process'[p].revision = None
            /\ \A q \in Processes \ {p} : process'[q] = process[q]
        BY <1>1, <3>1, <4>1 DEF Starts, Idle, At
      <4>3. schema' = schema BY <1>4 DEF Inspect
      <4>. QED BY <4>2, <4>3
    <3>2. CASE process[p].pc = "inspected"
      <4>1. process' = [process EXCEPT ![p] =
              [process[p] EXCEPT !.pc = "heads",
                                 !.stamped = "alembic_version" \in schema]]
        BY <1>4, <3>2 DEF Inspect, Step, At
      <4>2. /\ process'[p].pc = "heads"
            /\ process'[p].tables = process[p].tables
            /\ process'[p].revision = None
            /\ process'[p].stamped = ("alembic_version" \in schema)
            /\ \A q \in Processes \ {p} : process'[q] = process[q]
        BY <1>1, <3>2, <4>1 DEF Starts, Idle, At
      <4>3. schema' = schema BY <1>4 DEF Inspect
      <4>. QED BY <1>1, <4>2, <4>3 DEF Seen, Marked
    <3>. QED BY <1>4, <3>1, <3>2 DEF Inspect, At
  <2>2. legacy' = legacy BY <1>4 DEF Inspect
  <2>. QED BY <2>1, <2>2 DEF Own, Seen, Upgrading, Idle, Complete, At
<1>5. CASE ReadHeads(p)
  <2>1. CASE Raise(p)
    BY <1>1, <2>1, Stopped DEF Raise, Down
  <2>2. CASE ~Raise(p)
    <3>1. /\ process[p].pc = "heads"
          /\ \/ /\ process'[p].pc = "ensure"
                /\ process'[p].revision = process[p].revision
             \/ /\ process'[p].pc = "upgrade" /\ version # {}
                /\ process'[p].todo = Revisions \ Applied(version)
          /\ process'[p].revision = process[p].revision
          /\ process'[p].tables = process[p].tables
          /\ process'[p].stamped = process[p].stamped
          /\ \A q \in Processes \ {p} : process'[q] = process[q]
      <4>. DEFINE h == [process[p] EXCEPT !.heads = version]
                  i == [h EXCEPT !.pc = "ensure"]
                  j == [h EXCEPT !.pc = "upgrade",
                                 !.todo = Revisions \ Applied(version)]
      <4>1. /\ process[p].pc = "heads"
            /\ Step(p, i) \/ (version # {} /\ Step(p, j))
        BY <1>5, <2>2 DEF ReadHeads, At
      <4>2. /\ i.pc = "ensure" /\ i.revision = process[p].revision
            /\ i.tables = process[p].tables /\ i.stamped = process[p].stamped
            /\ j.pc = "upgrade" /\ j.todo = Revisions \ Applied(version)
            /\ j.revision = process[p].revision
            /\ j.tables = process[p].tables /\ j.stamped = process[p].stamped
        BY <1>1 DEF Starts
      <4>. HIDE DEF i, j
      <4>. QED BY <1>1, <4>1, <4>2 DEF Step
    <3>2. UNCHANGED <<schema, version, legacy>> BY <1>5 DEF ReadHeads
    <3>3. process[p].revision = None BY <1>1, <3>1 DEF Idle, At
    <3>4. Seen(p)' BY <1>1, <3>1, <3>2 DEF Seen, Marked, At
    <3>5. Upgrading(p)' BY <3>1, <3>2, <3>3 DEF Upgrading, At
    <3>. QED BY <3>1, <3>3, <3>4, <3>5 DEF Own, Complete, Idle, At
  <2>. QED BY <2>1, <2>2
<1>6. CASE EnsureVersion(p)
  <2>1. /\ process[p].pc = "ensure"
        /\ \/ /\ process'[p].pc = "stamp"
              /\ process[p].tables /\ ~process[p].stamped
           \/ process'[p].pc = "upgrade" /\ process'[p].todo = Revisions
        /\ process'[p].revision = process[p].revision
        /\ process'[p].tables = process[p].tables
        /\ \A q \in Processes \ {p} : process'[q] = process[q]
    BY <1>1, <1>6 DEF EnsureVersion, Step, At, Starts
  <2>2. /\ schema' = schema \cup {"alembic_version"}
        /\ UNCHANGED <<version, legacy>>
    BY <1>6 DEF EnsureVersion
  <2>3. process[p].revision = None BY <1>1, <2>1 DEF Idle, At
  <2>4. Seen(p)' BY <1>1, <2>1, <2>2 DEF Seen, At
  <2>5. Upgrading(p)' BY <2>1, <2>2, <2>3 DEF Upgrading, At
  <2>. QED BY <2>1, <2>3, <2>4, <2>5 DEF Own, Complete, Idle, At
<1>7. CASE Stamp(p)
  <2>1. process[p].pc = "stamp" /\ legacy' = legacy BY <1>7 DEF Stamp, At
  <2>2. legacy' BY <1>1, <2>1 DEF Seen
  <2>3. CASE Raise(p) BY <1>1, <2>3, Stopped DEF Raise, Down
  <2>4. CASE ~Raise(p)
    <3>1. Step(p, [Down EXCEPT !.pc = "checks", !.url = process[p].url,
                               !.allow = process[p].allow])
      BY <1>7, <2>4 DEF Stamp
    <3>. DEFINE h == [Down EXCEPT !.pc = "checks", !.url = process[p].url,
                                  !.allow = process[p].allow]
    <3>2. ~h.tables /\ h.revision = None /\ h.pc = "checks" BY DEF Down
    <3>3. Step(p, h) BY <3>1
    <3>. HIDE DEF h
    <3>. QED BY <1>1, <2>2, <3>2, <3>3, Stopped
  <2>. QED BY <2>3, <2>4
<1>8. CASE NextRevision(p)
  <2>1. /\ At(p, "upgrade") /\ process[p].revision = None
        /\ UNCHANGED <<schema, version, legacy>>
    BY <1>8 DEF NextRevision
  <2>2. \A r \in Revisions \ process[p].todo : r \in Applied(version)
    BY <1>1, <2>1, StartupAssumption DEF Upgrading
  <2>3. ASSUME NEW r \in process[p].todo, DownRevision[r] \cap process[p].todo = {},
               Step(p, [process[p] EXCEPT !.revision = r, !.step = 0,
                                          !.todo = @ \ {r}])
        PROVE  Own(p)
    <3>1. r \in Revisions /\ r # None
      BY <1>1, StartupAssumption DEF Starts
    <3>2. /\ process'[p].pc = "upgrade" /\ process'[p].revision = r
          /\ process'[p].step = 0 /\ process'[p].todo = process[p].todo \ {r}
          /\ process'[p].tables = process[p].tables
          /\ \A q \in Processes \ {p} : process'[q] = process[q]
      BY <1>1, <2>1, <2>3 DEF Step, At, Starts
    <3>3. DownRevision[r] \subseteq Revisions
      BY <3>1 DEF DownRevision, Revisions
    <3>4. Len(Statements[r]) \in Nat BY <3>1, RevisionFacts, StatementFacts
    <3>5. Upgrading(p)'
      <4>1. DownRevision[r] \subseteq Applied(version) BY <2>2, <2>3, <3>3
      <4>2. 0 \in 0..Len(Statements[r]) /\ 1..0 = {} BY <3>4
      <4>. QED BY <2>1, <2>2, <3>2, <4>1, <4>2 DEF Upgrading
    <3>6. Seen(p)' BY <1>1, <2>1, <3>2 DEF Seen, At
    <3>. QED BY <3>2, <3>5, <3>6 DEF Own, Complete, Idle, At
  <2>4. ASSUME process[p].todo = {},
               Step(p, [Down EXCEPT !.pc = "checks", !.url = process[p].url,
                                    !.allow = process[p].allow])
        PROVE  Own(p)
    <3>1. Revisions \subseteq Applied(version) BY <2>2, <2>4
    <3>2. ~legacy => Needed \subseteq schema
      BY <1>1, <3>1, NeededIsCreated DEF VersionTellsTruth
    <3>. DEFINE h == [Down EXCEPT !.pc = "checks", !.url = process[p].url,
                                  !.allow = process[p].allow]
    <3>3. ~h.tables /\ h.revision = None /\ h.pc = "checks" BY DEF Down
    <3>4. Step(p, h) BY <2>4
    <3>. HIDE DEF h
    <3>. QED BY <1>1, <2>1, <3>2, <3>3, <3>4, Stopped
  <2>. QED BY <1>8, <2>3, <2>4 DEF NextRevision
<1>9. CASE Execute(p)
  <2>1. CASE Raise(p) BY <1>1, <2>1, Stopped DEF Raise, Down
  <2>2. CASE ~Raise(p)
    <3>1. PICK r \in Revisions : r = process[p].revision
      BY <1>1, <1>9 DEF Execute, Starts
    <3>. DEFINE n == process[p].step + 1
    <3>2. /\ At(p, "upgrade") /\ process[p].revision # None
          /\ process[p].step < Len(Statements[r])
          /\ schema' = (schema \ Statements[r][n].drop) \cup Statements[r][n].add
          /\ Step(p, [process[p] EXCEPT !.step = @ + 1])
          /\ UNCHANGED <<version, legacy>>
      BY <1>9, <2>2, <3>1 DEF Execute
    <3>3. /\ process'[p].pc = "upgrade" /\ process'[p].revision = r
          /\ process'[p].step = n /\ process'[p].todo = process[p].todo
          /\ process'[p].tables = process[p].tables
          /\ \A q \in Processes \ {p} : process'[q] = process[q]
      BY <1>1, <3>1, <3>2 DEF Step, At, Starts
    <3>4. /\ process[p].step \in Nat
          /\ Len(Statements[r]) \in Nat
          /\ DOMAIN Statements[r] = 1..Len(Statements[r])
      BY <1>1, <3>1, RevisionFacts, StatementFacts DEF Starts
    <3>5. n \in 0..Len(Statements[r]) /\ n \in DOMAIN Statements[r]
      BY <3>2, <3>4
    <3>6. Statements[r][n].drop = {} BY <3>1, <3>5, RevisionFacts
    <3>7. schema' = schema \cup Statements[r][n].add BY <3>2, <3>6
    <3>8. /\ \A s \in Revisions \ process[p].todo : s \in Applied(version) \/ s = r
          /\ DownRevision[r] \subseteq Applied(version)
          /\ \A i \in 1..process[p].step :
               Statements[r][i].add \ {Temporary} \subseteq schema
      BY <1>1, <3>1, <3>2 DEF Upgrading
    <3>9. ASSUME NEW i \in 1..n
          PROVE  Statements[r][i].add \ {Temporary} \subseteq schema'
      <4>1. i = n \/ i \in 1..process[p].step BY <3>4
      <4>. QED BY <3>7, <3>8, <4>1
    <3>10. Upgrading(p)' BY <3>2, <3>3, <3>5, <3>8, <3>9 DEF Upgrading
    <3>11. Seen(p)' BY <1>1, <3>2, <3>3, <3>7 DEF Seen, At
    <3>. QED BY <3>3, <3>10, <3>11 DEF Own, Complete, Idle, At
  <2>. QED BY <2>1, <2>2
<1>10. CASE Commit(p)
  <2>1. CASE Raise(p) BY <1>1, <2>1, Stopped DEF Raise, Down
  <2>2. CASE ~Raise(p)
    <3>1. PICK r \in Revisions : r = process[p].revision
      BY <1>1, <1>10 DEF Commit, Starts
    <3>. DEFINE moved == DownRevision[r] \cap process[p].heads
    <3>2. /\ At(p, "upgrade") /\ process[p].revision # None
          /\ version' = (version \ moved) \cup {r}
          /\ Step(p, [process[p] EXCEPT !.revision = None, !.step = 0,
                                        !.heads = (@ \ moved) \cup {r}])
      BY <1>10, <2>2, <3>1 DEF Commit
    <3>3. /\ process'[p].pc = "upgrade" /\ process'[p].revision = None
          /\ process'[p].todo = process[p].todo
          /\ process'[p].tables = process[p].tables
          /\ \A q \in Processes \ {p} : process'[q] = process[q]
      BY <1>1, <3>2 DEF Step, At, Starts
    <3>4. /\ Applied(version) \subseteq Applied(version')
          /\ legacy' = legacy /\ schema \ {Temporary} \subseteq schema'
      BY <1>1 DEF Grows
    <3>5. r \in Applied(version') BY <3>2, AppliedFacts
    <3>6. \A s \in Revisions \ process[p].todo : s \in Applied(version) \/ s = r
      BY <1>1, <3>1, <3>2 DEF Upgrading
    <3>7. Upgrading(p)' BY <3>3, <3>4, <3>5, <3>6 DEF Upgrading
    <3>8. Temporary \notin {"tripwires", "alembic_version"} BY DEF Temporary
    <3>9. Seen(p)' BY <1>1, <3>2, <3>3, <3>4, <3>8 DEF Seen, At
    <3>. QED BY <3>3, <3>7, <3>9 DEF Own, Complete, Idle, At
  <2>. QED BY <2>1, <2>2
<1>11. CASE Serve(p)
  <2>1. /\ process[p].pc = "checks" /\ UNCHANGED <<schema, legacy>>
        /\ \E pc \in {"refused", "serving"} : Step(p, [Down EXCEPT !.pc = pc])
    BY <1>11 DEF Serve, At
  <2>2. ~legacy => Needed \subseteq schema BY <1>1, <2>1 DEF Complete
  <2>. QED BY <1>1, <2>1, <2>2, Stopped DEF Down
<1>. QED BY <1>2, <1>3, <1>4, <1>5, <1>6, <1>7, <1>8, <1>9, <1>10, <1>11 DEF StartStep

-----------------------------------------------------------------------------
\* The database.

LEMMA MarkedStep ==
  ASSUME IndInv, [Next]_vars, Grows
  PROVE  Marked'
<1>. SUFFICES ASSUME ~legacy PROVE Marked' BY DEF Grows, Marked
<1>1. /\ "tripwires" \in schema => "alembic_version" \in schema
      /\ version # {} => "alembic_version" \in schema
      /\ "alembic_version" \in schema => "alembic_version" \in schema'
  BY DEF IndInv, Marked, Grows, Temporary
<1>2. ASSUME NEW p \in Processes, Execute(p) \/ Commit(p) PROVE "alembic_version" \in schema'
  BY <1>1, <1>2 DEF IndInv, Seen, Execute, Commit
<1>3. ASSUME NEW p \in Processes, EnsureVersion(p) PROVE "alembic_version" \in schema'
  BY <1>3 DEF EnsureVersion
<1>4. ASSUME NEW p \in Processes, Stamp(p) PROVE FALSE
  BY <1>4 DEF IndInv, Seen, Stamp, At
<1>5. ASSUME UNCHANGED <<schema, version>> PROVE Marked'
  BY <1>1, <1>5 DEF Marked
<1>6. ASSUME NEW p \in Processes,
             \/ Inspect(p) \/ ReadHeads(p) \/ NextRevision(p) \/ Serve(p) \/ Kill(p)
             \/ \E url \in {"https", "http_local", "http"}, allow \in BOOLEAN :
                  Start(p, url, allow)
      PROVE  UNCHANGED <<schema, version>>
  BY <1>6 DEF Inspect, ReadHeads, NextRevision, Serve, Kill, Start
<1>7. UNCHANGED vars => UNCHANGED <<schema, version>> BY DEF vars
<1>. QED BY <1>2, <1>3, <1>4, <1>5, <1>6, <1>7 DEF Next, StartStep, Marked

LEMMA VersionStep ==
  ASSUME IndInv, [Next]_vars, Grows
  PROVE  VersionTellsTruth'
<1>. SUFFICES ASSUME ~legacy, NEW r \in Applied(version')
              PROVE  Effect(r) \subseteq schema'
  BY DEF Grows, VersionTellsTruth
<1>1. \A s \in Applied(version) \cap Revisions : Effect(s) \subseteq schema'
  <2>. SUFFICES ASSUME NEW s \in Applied(version), s \in Revisions
                PROVE  Effect(s) \subseteq schema'
    OBVIOUS
  <2>1. Effect(s) \subseteq schema BY DEF IndInv, VersionTellsTruth
  <2>2. Temporary \notin Effect(s) BY RevisionFacts
  <2>. QED BY <2>1, <2>2 DEF Grows
<1>2. Applied(version) \subseteq Revisions BY AppliedFacts DEF IndInv, TypeOK
<1>3. CASE r \in Applied(version) BY <1>1, <1>2, <1>3
<1>4. CASE r \notin Applied(version)
  <2>1. PICK p \in Processes : Commit(p) \/ Stamp(p)
    <3>1. ASSUME version' = version PROVE FALSE BY <1>4, <3>1
    <3>2. ASSUME NEW p \in Processes,
             \/ Inspect(p) \/ ReadHeads(p) \/ NextRevision(p) \/ Serve(p) \/ Kill(p)
             \/ EnsureVersion(p) \/ Execute(p)
             \/ \E url \in {"https", "http_local", "http"}, allow \in BOOLEAN :
                  Start(p, url, allow)
          PROVE  version' = version
      BY <3>2 DEF Inspect, ReadHeads, NextRevision, Serve, Kill, Start,
                  EnsureVersion, Execute
    <3>3. UNCHANGED vars => version' = version BY DEF vars
    <3>. QED BY <3>1, <3>2, <3>3 DEF Next, StartStep
  <2>2. ASSUME Stamp(p) PROVE FALSE
    BY <2>2 DEF IndInv, Seen, Stamp, At
  <2>3. Commit(p) BY <2>1, <2>2
  <2>4. process[p] \in Starts /\ version \subseteq Revisions /\ Upgrading(p)
    BY DEF IndInv, TypeOK
  <2>5. PICK c \in Revisions : c = process[p].revision
    BY <2>3, <2>4 DEF Commit, Starts
  <2>. DEFINE moved == DownRevision[c] \cap process[p].heads
  <2>6. /\ version' = (version \ moved) \cup {c}
        /\ schema' = (schema \ InCommit[c].drop) \cup InCommit[c].add
        /\ process[p].step = Len(Statements[c])
        /\ At(p, "upgrade") /\ process[p].revision # None
    <3>1. version' # version BY <1>4
    <3>. QED BY <2>3, <2>5, <3>1 DEF Commit
  <2>7. /\ DownRevision[c] \subseteq Applied(version)
        /\ \A i \in 1..Len(Statements[c]) :
             Statements[c][i].add \ {Temporary} \subseteq schema
    BY <2>4, <2>5, <2>6 DEF Upgrading
  <2>8. r = c
    <3>1. version \cap moved \in SUBSET Revisions BY <2>4
    <3>2. Applied((version \ (version \cap moved)) \cup {c}) = Applied(version) \cup {c}
      BY <2>4, <2>5, <2>7, <3>1, AppliedFacts
    <3>3. version \ (version \cap moved) = version \ moved OBVIOUS
    <3>. QED BY <1>4, <2>6, <3>2, <3>3
  <2>9. Created(c) \ {Temporary} \subseteq schema
    BY <2>5, <2>7, RevisionFacts DEF Created
  <2>. QED BY <2>5, <2>6, <2>8, <2>9, RevisionFacts
<1>. QED BY <1>3, <1>4


-----------------------------------------------------------------------------
\* The invariant.

LEMMA IndInvInit == Init => IndInv
<1>. SUFFICES ASSUME Init PROVE IndInv OBVIOUS
<1>1. TypeOK BY TypeInit
<1>2. \A p \in Processes : process[p] = Down BY DEF Init
<1>3. \A p \in Processes : Seen(p) /\ Upgrading(p) /\ Idle(p) /\ Complete(p)
  BY <1>2 DEF Down, Seen, Upgrading, Idle, Complete, At
<1>4. Applied({}) = {} BY DEF Applied
<1>5. Marked BY DEF Init, Marked
<1>6. VersionTellsTruth BY <1>4 DEF Init, VersionTellsTruth
<1>. QED BY <1>1, <1>3, <1>5, <1>6 DEF IndInv

LEMMA IndInvStep == IndInv /\ [Next]_vars => IndInv'
<1>. SUFFICES ASSUME IndInv, [Next]_vars PROVE IndInv' OBVIOUS
<1>1. Grows BY History
<1>2. TypeOK'
  <2>1. TypeOK BY DEF IndInv
  <2>2. process' \in [Processes -> Starts] BY <2>1, ProcessTypes
  <2>3. Database' BY <2>1, DatabaseTypes
  <2>. QED BY <2>2, <2>3 DEF TypeOK, Database, Temporary
<1>3. Marked' BY <1>1, MarkedStep
<1>4. VersionTellsTruth' BY <1>1, VersionStep
<1>5. ASSUME NEW q \in Processes, process'[q] = process[q]
      PROVE  Seen(q)' /\ Upgrading(q)' /\ Idle(q)' /\ Complete(q)'
  BY <1>1, <1>5, Kept DEF IndInv
<1>6. \A q \in Processes : Seen(q)' /\ Upgrading(q)' /\ Idle(q)' /\ Complete(q)'
  <2>1. CASE UNCHANGED vars BY <1>5, <2>1 DEF vars
  <2>2. CASE Next
    <3>1. PICK p \in Processes : Own(p) BY <1>1, <2>2, Move DEF Next
    <3>. QED BY <1>5, <3>1 DEF Own
  <2>. QED BY <2>1, <2>2
<1>. QED BY <1>2, <1>3, <1>4, <1>6 DEF IndInv

\* The invariant holds in every reachable state: what a start has inspected,
\* left behind or executed stays so under every other start and every kill.
THEOREM Inductive == Spec => []IndInv
<1>1. Init => IndInv BY IndInvInit
<1>2. IndInv /\ [Next]_vars => IndInv' BY IndInvStep
<1>. QED BY <1>1, <1>2, PTL DEF Spec

\* The types of the database and of the starts.
THEOREM TypeCorrect == Spec => []TypeOK
<1>1. IndInv => TypeOK BY DEF IndInv
<1>. QED BY <1>1, Inductive, PTL

\* alembic_version never claims a revision whose changes are not all there.
THEOREM VersionIsTrue == Spec => []VersionTellsTruth
<1>1. IndInv => VersionTellsTruth BY DEF IndInv
<1>. QED BY <1>1, Inductive, PTL

\* A server that serves has every table and column the ORM names.
THEOREM WholeSchemaServed == Spec => []ServesWholeSchema
<1>1. IndInv => ServesWholeSchema
  BY DEF IndInv, Complete, ServesWholeSchema, Whole, At
<1>. QED BY <1>1, Inductive, PTL

\* No table is ever gone, also between the statements of a rebuild.
THEOREM TablesAreKept == Spec => NoTableLost
<1>1. IndInv /\ [Next]_vars => [Tables \cap schema \subseteq schema']_vars
  BY History DEF Grows, Tables, Temporary
<1>. QED BY <1>1, Inductive, PTL DEF Spec, NoTableLost

-----------------------------------------------------------------------------
\* What the statements create is created once: no two of them make the same
\* thing, and only the batch makes again, in its transaction, what one made.

BaselineNames ==
  <<"tripwires", "endpoints", "deployments", "ix_deploy_tripwire",
    "ix_deploy_endpoint", "alerts", "ix_alert_deployment", "ix_alert_tripwire",
    "integrations", "delivery_attempts", "ix_delivery_alert">>

\* The name that a statement creates.
Name(r, i) ==
  CASE r = "baseline" -> BaselineNames[i]
    [] r = "fk_cascade" -> Temporary
    [] r = "resolved_at" -> IF i = 1 THEN "alerts.resolved_at"
                                     ELSE "ix_alert_resolved_at"
    [] r = "decommission" -> "endpoints.decommission_requested_at"
    [] r = "ephemeral" -> "endpoints.ephemeral"

LEMMA NameFacts ==
  ASSUME NEW r \in Revisions, NEW i \in DOMAIN Statements[r]
  PROVE  /\ Statements[r][i].add = {Name(r, i)}
         /\ Name(r, i) \notin {"alembic_version", "deployments.cascade"}
         /\ Name(r, i) = "tripwires" => r = "baseline"
         /\ Name(r, i) = "deployments" => r = "baseline"
         /\ \A s \in Revisions : \A j \in DOMAIN Statements[s] :
              Name(r, i) = Name(s, j) => r = s /\ i = j
<1>. DEFINE Late == {"alerts.resolved_at", "ix_alert_resolved_at", Temporary,
                     "endpoints.decommission_requested_at",
                     "endpoints.ephemeral"}
<1>1. \A k \in 1..11 :
        /\ Baseline[k] = Create(BaselineNames[k])
        /\ BaselineNames[k] \notin Late \cup {"alembic_version", "deployments.cascade"}
  BY DEF Baseline, BaselineNames, Temporary
<1>2. \A k, l \in 1..11 : BaselineNames[k] = BaselineNames[l] => k = l
  BY DEF BaselineNames
<1>3. /\ DOMAIN Statements["baseline"] = 1..11 /\ DOMAIN Statements["fk_cascade"] = 1..1
      /\ DOMAIN Statements["resolved_at"] = 1..2
      /\ DOMAIN Statements["decommission"] = 1..1
      /\ DOMAIN Statements["merge"] = {} /\ DOMAIN Statements["ephemeral"] = 1..1
  BY StatementFacts DEF OneEach
<1>4. \A x : Create(x).add = {x} BY DEF Create
<1>5. /\ Statements["baseline"] = Baseline
      /\ Statements["fk_cascade"][1] = Create(Temporary)
      /\ Statements["resolved_at"][1] = Create("alerts.resolved_at")
      /\ Statements["resolved_at"][2] = Create("ix_alert_resolved_at")
      /\ Statements["decommission"][1] = Create("endpoints.decommission_requested_at")
      /\ Statements["ephemeral"][1] = Create("endpoints.ephemeral")
  BY DEF Statements, FkCascade, ResolvedAt, DecommissionRequested, Ephemeral, Temporary
<1>6. ASSUME NEW s \in Revisions, NEW j \in DOMAIN Statements[s]
      PROVE  \/ s = "baseline" /\ j \in 1..11 /\ Name(s, j) = BaselineNames[j]
             \/ s = "fk_cascade" /\ j = 1 /\ Name(s, j) = Temporary
             \/ s = "resolved_at" /\ j = 1 /\ Name(s, j) = "alerts.resolved_at"
             \/ s = "resolved_at" /\ j = 2 /\ Name(s, j) = "ix_alert_resolved_at"
             \/ /\ s = "decommission" /\ j = 1
                /\ Name(s, j) = "endpoints.decommission_requested_at"
             \/ s = "ephemeral" /\ j = 1 /\ Name(s, j) = "endpoints.ephemeral"
  <2>1. CASE s = "baseline" BY <1>3, <2>1 DEF Name
  <2>2. CASE s = "fk_cascade" BY <1>3, <2>2 DEF Name
  <2>3. CASE s = "resolved_at"
    <3>1. j = 1 \/ j = 2 BY <1>3, <2>3
    <3>. QED BY <2>3, <3>1 DEF Name
  <2>4. CASE s = "decommission" BY <1>3, <2>4 DEF Name
  <2>5. CASE s = "merge" BY <1>3, <2>5
  <2>6. CASE s = "ephemeral" BY <1>3, <2>6 DEF Name
  <2>. QED BY <2>1, <2>2, <2>3, <2>4, <2>5, <2>6 DEF Revisions
<1>7. Statements[r][i].add = {Name(r, i)} BY <1>1, <1>4, <1>5, <1>6
<1>8. /\ Name(r, i) \notin {"alembic_version", "deployments.cascade"}
      /\ Name(r, i) = "tripwires" => r = "baseline"
      /\ Name(r, i) = "deployments" => r = "baseline"
  BY <1>1, <1>6 DEF Temporary
<1>9. ASSUME NEW s \in Revisions, NEW j \in DOMAIN Statements[s],
             Name(r, i) = Name(s, j)
      PROVE  r = s /\ i = j
  BY <1>1, <1>2, <1>6, <1>9 DEF Temporary
<1>. QED BY <1>7, <1>8, <1>9

-----------------------------------------------------------------------------
\* Why a start that nothing disturbs does not fail.

\* One init_db at a time.
Alone == \A p, q \in Processes : Migrating(p) /\ Migrating(q) => p = q

\* What the revisions to come create is not there yet, but for what the one in
\* progress has made: a database of before Alembic is never upgraded.
Pristine ==
  \/ legacy /\ version = {}
  \/ \A r \in Revisions \ Applied(version) : \A i \in DOMAIN Statements[r] :
       \/ \E p \in Processes : process[p].revision = r /\ i \in 1..process[p].step
       \/ Name(r, i) \notin schema

\* A database of before Alembic has its tables, and alembic_version only from a
\* start that is about to stamp it.
OldMarks ==
  legacy /\ version = {} =>
    /\ "tripwires" \in schema
    /\ "alembic_version" \in schema => \E p \in Processes : At(p, "stamp")

\* What a start has read is still so, and what it has executed is there.
Abreast(p) ==
  LET h == process[p] IN
  /\ h.pc # "failed"
  /\ h.pc = "ensure" => h.heads = {}
  /\ h.pc \in {"ensure", "stamp"} => version = {}
  /\ legacy /\ version = {} =>
       /\ h.pc \in {"inspected", "heads", "ensure"} => h.tables
       /\ h.pc \in {"heads", "ensure"} => ~h.stamped
       /\ h.pc # "upgrade"
  /\ h.pc = "upgrade" =>
       /\ h.heads = version
       /\ h.todo = Revisions \ (Applied(version) \cup {h.revision})
       /\ h.revision \notin Applied(version)
       /\ \A i \in 1..h.step : h.revision # None => Name(h.revision, i) \in schema

Quiet == Alone /\ Pristine /\ OldMarks /\ \A p \in Processes : Abreast(p)

Undisturbed == ~broken => Quiet

\* What a step of p owes to the others and to itself.
Owed(p) == Pristine' /\ OldMarks' /\ Abreast(p)'

\* A step that leaves the database alone, and its own revision as it was, keeps
\* the database pristine.
LEMMA PristineKept ==
  ASSUME NEW p \in Processes, Pristine, UNCHANGED <<schema, version, legacy>>,
         \A q \in Processes \ {p} : process'[q] = process[q],
         process[p].revision = None
  PROVE  Pristine'
<1>1. ASSUME NEW r \in Revisions, NEW i, NEW q \in Processes,
             process[q].revision = r, i \in 1..process[q].step
      PROVE  \E s \in Processes : process'[s].revision = r /\ i \in 1..process'[s].step
  <2>1. q # p BY <1>1, StartupAssumption
  <2>. QED BY <1>1, <2>1
<1>. QED BY <1>1 DEF Pristine

\* The same of the marks, when p does not stamp.
LEMMA MarksKept ==
  ASSUME NEW p \in Processes, OldMarks, UNCHANGED <<schema, version, legacy>>,
         \A q \in Processes \ {p} : process'[q] = process[q],
         ~At(p, "stamp")
  PROVE  OldMarks'
BY DEF OldMarks, At

\* The steps that change nothing in the database.
LEMMA OwedOutside ==
  ASSUME IndInv, Quiet, ~broken', NEW p \in Processes,
         \/ Kill(p) \/ Serve(p)
         \/ \E url \in {"https", "http_local", "http"}, allow \in BOOLEAN :
              Start(p, url, allow)
  PROVE  Owed(p)
<1>1. /\ process \in [Processes -> Starts] /\ Idle(p) /\ Pristine /\ OldMarks
  BY DEF IndInv, TypeOK, Quiet
<1>. DEFINE Out == {"down", "inspect", "refused", "serving"}
<1>2. /\ UNCHANGED <<schema, version, legacy>> /\ ~Migrating(p)
      /\ \E h : Step(p, h) /\ h.pc \in Out
  <2>1. CASE Kill(p)
    <3>1. Step(p, Down) /\ UNCHANGED <<schema, version, legacy>> /\ ~Migrating(p)
      BY <2>1 DEF Kill
    <3>2. Down.pc = "down" BY DEF Down
    <3>. QED BY <3>1, <3>2
  <2>2. CASE Serve(p)
    <3>1. \A pc : [Down EXCEPT !.pc = pc].pc = pc BY DEF Down
    <3>. QED BY <2>2, <3>1 DEF Serve, At, Migrating
  <2>3. ASSUME NEW url \in {"https", "http_local", "http"}, NEW allow \in BOOLEAN,
               Start(p, url, allow)
        PROVE  /\ UNCHANGED <<schema, version, legacy>> /\ ~Migrating(p)
               /\ \E h : Step(p, h) /\ h.pc \in Out
    <3>. DEFINE h == [Down EXCEPT !.pc = "inspect", !.url = url, !.allow = allow]
    <3>1. h.pc = "inspect" BY DEF Down
    <3>2. Step(p, h) /\ UNCHANGED <<schema, version, legacy>>
      BY ONLY <2>3 DEF Start
    <3>3. ~Migrating(p) BY ONLY <2>3 DEF Start, Migrating
    <3>. HIDE DEF h
    <3>. QED BY <3>1, <3>2, <3>3
  <2>. QED BY <2>1, <2>2, <2>3
<1>3. /\ process[p].revision = None /\ ~At(p, "stamp")
      /\ \A q \in Processes \ {p} : process'[q] = process[q]
      /\ process'[p].pc \in {"down", "inspect", "refused", "serving"}
  BY <1>1, <1>2 DEF Idle, Migrating, At, Step
<1>. QED BY <1>1, <1>2, <1>3, PristineKept, MarksKept DEF Owed, Abreast

\* Looking at the database.
LEMMA OwedInspect ==
  ASSUME IndInv, Quiet, NEW p \in Processes, Inspect(p)
  PROVE  Owed(p)
<1>1. /\ process[p] \in Starts /\ process \in [Processes -> Starts] /\ Idle(p)
      /\ Pristine /\ OldMarks /\ Abreast(p) /\ Alone
  BY DEF IndInv, TypeOK, Quiet
<1>2. UNCHANGED <<schema, version, legacy>> BY DEF Inspect
<1>3. process[p].pc \in {"inspect", "inspected"} BY DEF Inspect, At
<1>9. ASSUME process[p].pc = "inspect"
      PROVE  /\ process'[p].pc = "inspected"
             /\ process'[p].tables = ("tripwires" \in schema)
             /\ \A q \in Processes \ {p} : process'[q] = process[q]
  <2>1. process' = [process EXCEPT ![p] =
          [process[p] EXCEPT !.pc = "inspected", !.tables = "tripwires" \in schema]]
    BY <1>9 DEF Inspect, Step, At
  <2>. QED BY <1>1, <2>1 DEF Starts
<1>10. ASSUME process[p].pc = "inspected"
       PROVE  /\ process'[p].pc = "heads" /\ process'[p].tables = process[p].tables
              /\ process'[p].stamped = ("alembic_version" \in schema)
              /\ \A q \in Processes \ {p} : process'[q] = process[q]
  <2>1. process' = [process EXCEPT ![p] =
          [process[p] EXCEPT !.pc = "heads",
                             !.stamped = "alembic_version" \in schema]]
    BY <1>10 DEF Inspect, Step, At
  <2>. QED BY <1>1, <2>1 DEF Starts
<1>4. process[p].revision = None /\ ~At(p, "stamp") BY <1>1, <1>3 DEF Idle, At
<1>5. Pristine' /\ OldMarks' BY <1>1, <1>2, <1>3, <1>4, <1>9, <1>10, PristineKept, MarksKept
<1>6. legacy /\ version = {} => "tripwires" \in schema BY <1>1 DEF OldMarks
<1>7. legacy /\ version = {} => "alembic_version" \notin schema
  BY <1>1, <1>4, <1>3 DEF OldMarks, Alone, Migrating, At
<1>8. Abreast(p)'
  <2>1. CASE process[p].pc = "inspect"
    BY <1>2, <1>6, <1>9, <2>1 DEF Abreast
  <2>2. CASE process[p].pc = "inspected"
    BY <1>1, <1>2, <1>7, <1>10, <2>2 DEF Abreast
  <2>. QED BY <1>3, <2>1, <2>2
<1>. QED BY <1>5, <1>8 DEF Owed

\* Reading the heads.
LEMMA OwedReadHeads ==
  ASSUME IndInv, Quiet, NEW p \in Processes, ReadHeads(p)
  PROVE  Owed(p)
<1>1. /\ process[p] \in Starts /\ process \in [Processes -> Starts] /\ Idle(p)
      /\ Pristine /\ OldMarks /\ Abreast(p) /\ version \subseteq Revisions
  BY DEF IndInv, TypeOK, Quiet
<1>2. Cardinality(ScriptHeads) = 1
  BY HeadFacts, FS_Singleton
<1>3. /\ process[p].pc = "heads" /\ process[p].revision = None
      /\ UNCHANGED <<schema, version, legacy>>
  BY <1>1 DEF ReadHeads, At, Idle
<1>4. \A q \in Processes \ {p} : process'[q] = process[q]
  BY <1>1, <1>2 DEF ReadHeads, Step
<1>5. Pristine' /\ OldMarks'
  BY <1>1, <1>3, <1>4, PristineKept, MarksKept DEF At
<1>. DEFINE h == [process[p] EXCEPT !.heads = version]
            i == [h EXCEPT !.pc = "ensure"]
            j == [h EXCEPT !.pc = "upgrade", !.todo = Revisions \ Applied(version)]
<1>6. /\ i.pc = "ensure" /\ i.heads = version /\ i.tables = process[p].tables
      /\ i.stamped = process[p].stamped
      /\ j.pc = "upgrade" /\ j.heads = version /\ j.revision = None
      /\ j.todo = Revisions \ Applied(version)
  BY <1>1, <1>3 DEF Starts
<1>7. (version = {} /\ process'[p] = i) \/ (version # {} /\ process'[p] = j)
  BY <1>1, <1>2 DEF ReadHeads, Step
<1>. HIDE DEF i, j
<1>8. Abreast(p)'
  <2>1. CASE version = {} /\ process'[p] = i
    BY <1>1, <1>3, <1>6, <2>1 DEF Abreast
  <2>2. CASE version # {} /\ process'[p] = j
    <3>1. None \notin Applied(version) BY <1>1, AppliedFacts, StartupAssumption
    <3>2. Revisions \ Applied(version) = Revisions \ (Applied(version) \cup {None})
      BY StartupAssumption
    <3>. QED BY <1>3, <1>6, <2>2, <3>1, <3>2 DEF Abreast
  <2>. QED BY <1>7, <2>1, <2>2
<1>. QED BY <1>5, <1>8 DEF Owed

\* Making alembic_version.
LEMMA OwedEnsure ==
  ASSUME IndInv, Quiet, NEW p \in Processes, EnsureVersion(p)
  PROVE  Owed(p)
<1>1. /\ process[p] \in Starts /\ process \in [Processes -> Starts] /\ Idle(p)
      /\ Seen(p) /\ Pristine /\ OldMarks /\ Abreast(p)
  BY DEF IndInv, TypeOK, Quiet
<1>2. /\ process[p].pc = "ensure" /\ process[p].revision = None
      /\ schema' = schema \cup {"alembic_version"} /\ UNCHANGED <<version, legacy>>
      /\ \A q \in Processes \ {p} : process'[q] = process[q]
  BY <1>1 DEF EnsureVersion, Step, At, Idle
<1>3. Applied({}) = {} /\ version = {} /\ process[p].heads = {}
  BY <1>1, <1>2 DEF Abreast, Applied
<1>4. \/ /\ process[p].tables /\ ~process[p].stamped
         /\ process'[p].pc = "stamp"
      \/ /\ ~(process[p].tables /\ ~process[p].stamped)
         /\ process'[p].pc = "upgrade" /\ process'[p].todo = Revisions
         /\ process'[p].heads = {} /\ process'[p].revision = None
  BY <1>1, <1>2, <1>3 DEF EnsureVersion, Step, Starts
<1>5. Abreast(p)'
  BY <1>1, <1>2, <1>3, <1>4, StartupAssumption DEF Abreast
<1>6. OldMarks'
  <2>1. legacy /\ version = {} => process'[p].pc = "stamp"
    BY <1>1, <1>2, <1>4 DEF Abreast
  <2>. QED BY <1>1, <1>2, <2>1 DEF OldMarks, At
<1>7. Pristine'
  <2>. SUFFICES ASSUME ~(legacy /\ version = {}),
                       NEW r \in Revisions \ Applied(version), NEW i \in DOMAIN Statements[r]
                PROVE  \/ \E q \in Processes : /\ process'[q].revision = r
                                               /\ i \in 1..process'[q].step
                       \/ Name(r, i) \notin schema'
    BY <1>2 DEF Pristine
  <2>1. CASE Name(r, i) \notin schema BY <1>2, <2>1, NameFacts
  <2>2. ASSUME NEW q \in Processes, process[q].revision = r, i \in 1..process[q].step
        PROVE  \E s \in Processes : process'[s].revision = r /\ i \in 1..process'[s].step
    <3>1. q # p BY <1>2, <2>2, StartupAssumption
    <3>. QED BY <1>2, <2>2, <3>1
  <2>. QED BY <1>1, <2>1, <2>2 DEF Pristine
<1>. QED BY <1>5, <1>6, <1>7 DEF Owed

\* Stamping a database of before Alembic.
LEMMA OwedStamp ==
  ASSUME IndInv, Quiet, NEW p \in Processes, Stamp(p)
  PROVE  Owed(p)
<1>1. process \in [Processes -> Starts] /\ Abreast(p)
  BY DEF IndInv, TypeOK, Quiet
<1>2. process[p].pc = "stamp" /\ version = {} BY <1>1 DEF Stamp, At, Abreast
<1>. DEFINE h == [Down EXCEPT !.pc = "checks", !.url = process[p].url,
                              !.allow = process[p].allow]
<1>3. h.pc = "checks" BY DEF Down
<1>4. version' = ScriptHeads /\ Step(p, h) BY <1>2 DEF Stamp
<1>. HIDE DEF h
<1>5. process'[p].pc = "checks" /\ version' # {} /\ Applied(version') = Revisions
  BY <1>1, <1>3, <1>4, HeadFacts DEF Step
<1>. QED BY <1>5 DEF Owed, Pristine, OldMarks, Abreast

\* Taking the next revision, or having none to take.
LEMMA NextRevisionFacts ==
  ASSUME NEW p, NextRevision(p)
  PROVE  /\ At(p, "upgrade") /\ process[p].revision = None
         /\ schema' = schema /\ version' = version /\ legacy' = legacy
         /\ broken' = broken
         /\ \/ \E r \in process[p].todo :
                  Step(p, [process[p] EXCEPT !.revision = r, !.step = 0,
                                             !.todo = @ \ {r}])
            \/ Step(p, [Down EXCEPT !.pc = "checks", !.url = process[p].url,
                                    !.allow = process[p].allow])
<1>1. /\ At(p, "upgrade") /\ process[p].revision = None
      /\ UNCHANGED <<schema, version, legacy, broken>>
      /\ \/ \E r \in process[p].todo :
               Step(p, [process[p] EXCEPT !.revision = r, !.step = 0,
                                          !.todo = @ \ {r}])
         \/ Step(p, [Down EXCEPT !.pc = "checks", !.url = process[p].url,
                                 !.allow = process[p].allow])
  BY Zenon DEF NextRevision
<1>2. UNCHANGED <<schema, version, legacy, broken>>
      => schema' = schema /\ version' = version /\ legacy' = legacy /\ broken' = broken
  OBVIOUS
<1>. QED BY <1>1, <1>2, Zenon

LEMMA OwedNextRevision ==
  ASSUME IndInv, Quiet, NEW p \in Processes, NextRevision(p)
  PROVE  Owed(p)
<1>1. /\ process[p] \in Starts /\ process \in [Processes -> Starts]
      /\ Pristine /\ OldMarks /\ Abreast(p) /\ version \subseteq Revisions
  BY DEF IndInv, TypeOK, Quiet
<1>2. /\ process[p].pc = "upgrade" /\ process[p].revision = None
      /\ UNCHANGED <<schema, version, legacy>>
  <2>1. /\ At(p, "upgrade") /\ process[p].revision = None
        /\ schema' = schema /\ version' = version /\ legacy' = legacy
    BY NextRevisionFacts, Zenon
  <2>. QED BY <2>1 DEF At
<1>3. /\ process[p].heads = version /\ ~(legacy /\ version = {})
      /\ process[p].todo = Revisions \ Applied(version)
  BY <1>1, <1>2, StartupAssumption DEF Abreast
<1>4. ASSUME NEW r \in process[p].todo,
             Step(p, [process[p] EXCEPT !.revision = r, !.step = 0,
                                        !.todo = @ \ {r}])
      PROVE  Owed(p)
  <2>1. /\ process'[p].pc = "upgrade" /\ process'[p].revision = r
        /\ process'[p].step = 0 /\ process'[p].todo = process[p].todo \ {r}
        /\ process'[p].heads = process[p].heads
        /\ \A q \in Processes \ {p} : process'[q] = process[q]
    BY <1>1, <1>2, <1>4 DEF Step, Starts
  <2>2. r \in Revisions /\ r \notin Applied(version) BY <1>3
  <2>3. process'[p].todo = Revisions \ (Applied(version) \cup {r}) BY <1>3, <2>1
  <2>4. 1..0 = {} OBVIOUS
  <2>5. Abreast(p)' BY <1>2, <1>3, <2>1, <2>2, <2>3, <2>4 DEF Abreast
  <2>6. Pristine' /\ OldMarks'
    BY <1>1, <1>2, <2>1, PristineKept, MarksKept DEF At
  <2>. QED BY <2>5, <2>6 DEF Owed
<1>5. ASSUME NEW h, h.pc = "checks", Step(p, h) PROVE Owed(p)
  <2>1. /\ process'[p].pc = "checks"
        /\ \A q \in Processes \ {p} : process'[q] = process[q]
    BY <1>1, <1>5 DEF Step
  <2>2. Pristine' /\ OldMarks'
    BY <1>1, <1>2, <2>1, PristineKept, MarksKept DEF At
  <2>. QED BY <2>1, <2>2 DEF Owed, Abreast
<1>. DEFINE k == [Down EXCEPT !.pc = "checks", !.url = process[p].url,
                              !.allow = process[p].allow]
<1>6. k.pc = "checks" BY DEF Down
<1>7. \/ \E r \in process[p].todo :
           Step(p, [process[p] EXCEPT !.revision = r, !.step = 0, !.todo = @ \ {r}])
      \/ Step(p, k)
  BY NextRevisionFacts, Zenon
<1>. HIDE DEF k
<1>. QED BY <1>4, <1>5, <1>6, <1>7, Zenon

\* A statement of the revision in progress finds its place free.
LEMMA OwedExecute ==
  ASSUME IndInv, Quiet, NEW p \in Processes, Execute(p)
  PROVE  Owed(p)
<1>1. /\ process[p] \in Starts /\ process \in [Processes -> Starts]
      /\ Pristine /\ OldMarks /\ Abreast(p) /\ version \subseteq Revisions
      /\ \A q \in Processes : Idle(q) /\ Alone
  BY DEF IndInv, TypeOK, Quiet
<1>2. PICK r \in Revisions : r = process[p].revision
  BY <1>1 DEF Execute, Starts
<1>. DEFINE n == process[p].step + 1
<1>3. process[p].step \in Nat /\ n \in DOMAIN Statements[r]
  <2>1. /\ DOMAIN Statements[r] = 1..Len(Statements[r]) /\ Len(Statements[r]) \in Nat
        /\ process[p].step \in Nat
    BY <1>1, <1>2, RevisionFacts, StatementFacts DEF Starts
  <2>2. process[p].step < Len(Statements[r]) BY <1>2 DEF Execute
  <2>. QED BY <2>1, <2>2
<1>4. process[p].pc = "upgrade" /\ UNCHANGED <<version, legacy>>
  BY DEF Execute, At
<1>5. /\ r \notin Applied(version) /\ ~(legacy /\ version = {})
      /\ process[p].heads = version
      /\ process[p].todo = Revisions \ (Applied(version) \cup {r})
      /\ \A i \in 1..process[p].step : Name(r, i) \in schema
  BY <1>1, <1>2, <1>4, StartupAssumption DEF Abreast
<1>6. Statements[r][n].add = {Name(r, n)} /\ Statements[r][n].drop = {}
  BY <1>3, NameFacts, RevisionFacts
<1>7. Name(r, n) \notin schema
  <2>1. ASSUME NEW q \in Processes, process[q].revision = r PROVE q = p
    BY <1>1, <1>4, <2>1, StartupAssumption DEF Idle, Alone, Migrating, At
  <2>2. n \notin 1..process[p].step BY <1>3
  <2>. QED BY <1>1, <1>3, <1>5, <2>1, <2>2 DEF Pristine
<1>8. schema' = schema \cup {Name(r, n)}
  BY <1>2, <1>6, <1>7 DEF Execute
<1>9. /\ process'[p].pc = "upgrade" /\ process'[p].revision = r
      /\ process'[p].step = n /\ process'[p].todo = process[p].todo
      /\ process'[p].heads = process[p].heads
      /\ \A q \in Processes \ {p} : process'[q] = process[q]
  <2>1. Step(p, [process[p] EXCEPT !.step = @ + 1])
    BY <1>2, <1>6, <1>7 DEF Execute
  <2>. QED BY <1>1, <1>2, <1>4, <2>1 DEF Step, Starts
<1>10. \A i \in 1..n : i = n \/ i \in 1..process[p].step BY <1>3
<1>11. Abreast(p)'
  BY <1>4, <1>5, <1>8, <1>9, <1>10 DEF Abreast
<1>12. OldMarks' BY <1>4, <1>5 DEF OldMarks
<1>13. Pristine'
  <2>. SUFFICES ASSUME NEW s \in Revisions \ Applied(version), NEW i \in DOMAIN Statements[s],
                       Name(s, i) \in schema'
                PROVE  \E q \in Processes : /\ process'[q].revision = s
                                            /\ i \in 1..process'[q].step
    BY <1>4 DEF Pristine
  <2>1. CASE Name(s, i) = Name(r, n)
    <3>1. s = r /\ i = n BY <1>3, <2>1, NameFacts
    <3>. QED BY <1>3, <1>9, <3>1
  <2>2. CASE Name(s, i) # Name(r, n)
    <3>1. PICK q \in Processes : process[q].revision = s /\ i \in 1..process[q].step
      BY <1>1, <1>5, <1>8, <2>2 DEF Pristine
    <3>2. CASE q = p BY <1>2, <1>3, <1>9, <3>1, <3>2
    <3>3. CASE q # p BY <1>9, <3>1, <3>3
    <3>. QED BY <3>2, <3>3
  <2>. QED BY <2>1, <2>2
<1>. QED BY <1>11, <1>12, <1>13 DEF Owed

\* What the end of a revision finds: its rows, and the temporary table.
LEMMA OwedCommit ==
  ASSUME IndInv, Quiet, NEW p \in Processes, Commit(p)
  PROVE  Owed(p)
<1>1. /\ process[p] \in Starts /\ process \in [Processes -> Starts]
      /\ Pristine /\ OldMarks /\ Abreast(p) /\ version \subseteq Revisions
      /\ Upgrading(p) /\ \A q \in Processes : Idle(q) /\ Alone
  BY DEF IndInv, TypeOK, Quiet
<1>2. PICK r \in Revisions : r = process[p].revision
  BY <1>1 DEF Commit, Starts
<1>. DEFINE moved == DownRevision[r] \cap process[p].heads
<1>3. process[p].pc = "upgrade" /\ legacy' = legacy BY DEF Commit, At
<1>4. /\ r \notin Applied(version) /\ ~(legacy /\ version = {})
      /\ process[p].heads = version
      /\ process[p].todo = Revisions \ (Applied(version) \cup {r})
      /\ \A i \in 1..process[p].step : Name(r, i) \in schema
      /\ DownRevision[r] \subseteq Applied(version)
  BY <1>1, <1>2, <1>3, StartupAssumption DEF Abreast, Upgrading, At
<1>5. moved \subseteq version /\ r \notin version
  BY <1>4, AppliedFacts
<1>6. InCommit[r].drop \subseteq schema
  <2>1. CASE r # "fk_cascade" BY <1>2, <2>1 DEF InCommit
  <2>2. CASE r = "fk_cascade"
    <3>1. process[p].step = 1
      BY <1>2, <2>2, StatementFacts DEF Commit, OneEach
    <3>2. Name(r, 1) \in schema BY <1>4, <3>1
    <3>. QED BY <2>2, <3>2 DEF Name, InCommit, Temporary
  <2>. QED BY <2>1, <2>2
<1>7. /\ version' = (version \ moved) \cup {r}
      /\ schema' = (schema \ InCommit[r].drop) \cup InCommit[r].add
      /\ Step(p, [process[p] EXCEPT !.revision = None, !.step = 0,
                                    !.heads = (@ \ moved) \cup {r}])
  BY <1>2, <1>5, <1>6 DEF Commit
<1>8. /\ process'[p].pc = "upgrade" /\ process'[p].revision = None
      /\ process'[p].step = 0 /\ process'[p].todo = process[p].todo
      /\ process'[p].heads = version'
      /\ \A q \in Processes \ {p} : process'[q] = process[q]
  BY <1>1, <1>3, <1>4, <1>7 DEF Step, Starts
<1>9. Applied(version') = Applied(version) \cup {r}
  BY <1>1, <1>4, <1>5, <1>7, AppliedFacts
<1>10. version' # {} BY <1>7
<1>11. Abreast(p)'
  <2>1. None \notin Applied(version')
    BY <1>1, <1>9, AppliedFacts, StartupAssumption
  <2>2. process'[p].todo = Revisions \ (Applied(version') \cup {None})
    BY <1>4, <1>8, <1>9, StartupAssumption
  <2>. QED BY <1>8, <1>10, <2>1, <2>2 DEF Abreast
<1>12. OldMarks' BY <1>10 DEF OldMarks
<1>13. Pristine'
  <2>. SUFFICES ASSUME NEW s \in Revisions \ Applied(version'), NEW i \in DOMAIN Statements[s],
                       Name(s, i) \in schema'
                PROVE  \E q \in Processes : /\ process'[q].revision = s
                                            /\ i \in 1..process'[q].step
    BY DEF Pristine
  <2>1. s \notin Applied(version) /\ s # r BY <1>9
  <2>2. CASE Name(s, i) \in schema
    <3>1. PICK q \in Processes : process[q].revision = s /\ i \in 1..process[q].step
      BY <1>1, <1>4, <2>1, <2>2 DEF Pristine
    <3>2. q # p BY <1>2, <2>1, <3>1
    <3>. QED BY <1>8, <3>1, <3>2
  <2>3. CASE Name(s, i) \notin schema
    <3>1. Name(s, i) \in InCommit[r].add BY <1>7, <2>3
    <3>2. r = "fk_cascade" /\ Name(s, i) \in {"deployments", "deployments.cascade"}
      BY <1>2, <3>1 DEF InCommit
    <3>3. s = "baseline" BY <3>2, NameFacts
    <3>4. "baseline" \in Applied(version) BY <1>4, <3>2 DEF DownRevision
    <3>. QED BY <2>1, <3>3, <3>4
  <2>. QED BY <2>2, <2>3
<1>. QED BY <1>11, <1>12, <1>13 DEF Owed

\* What every step of init_db has in common.
LEMMA StartFacts ==
  ASSUME NEW p, StartStep(p)
  PROVE  broken' = broken /\ (Serve(p) \/ Migrating(p))
<1>1. broken' = broken
  <2>1. CASE Inspect(p) BY <2>1 DEF Inspect
  <2>2. CASE ReadHeads(p) BY <2>2 DEF ReadHeads
  <2>3. CASE EnsureVersion(p) BY <2>3 DEF EnsureVersion
  <2>4. CASE Stamp(p) BY <2>4 DEF Stamp
  <2>5. CASE NextRevision(p) BY <2>5, NextRevisionFacts, Zenon
  <2>6. CASE Execute(p) BY <2>6 DEF Execute
  <2>7. CASE Commit(p) BY <2>7 DEF Commit
  <2>8. CASE Serve(p) BY <2>8 DEF Serve
  <2>. QED BY <2>1, <2>2, <2>3, <2>4, <2>5, <2>6, <2>7, <2>8 DEF StartStep
<1>2. \/ Serve(p)
      \/ At(p, "inspect") \/ At(p, "inspected") \/ At(p, "heads")
      \/ At(p, "ensure") \/ At(p, "stamp") \/ At(p, "upgrade")
  <2>1. CASE Inspect(p) BY <2>1 DEF Inspect
  <2>2. CASE ReadHeads(p) BY <2>2 DEF ReadHeads
  <2>3. CASE EnsureVersion(p) BY <2>3 DEF EnsureVersion
  <2>4. CASE Stamp(p) BY <2>4 DEF Stamp
  <2>5. CASE NextRevision(p) BY <2>5, NextRevisionFacts, Zenon
  <2>6. CASE Execute(p) BY <2>6 DEF Execute
  <2>7. CASE Commit(p) BY <2>7 DEF Commit
  <2>. QED BY <2>1, <2>2, <2>3, <2>4, <2>5, <2>6, <2>7 DEF StartStep
<1>3. \A pc \in {"inspect", "inspected", "heads", "ensure", "stamp", "upgrade"} :
        At(p, pc) => Migrating(p)
  BY DEF At, Migrating
<1>. QED BY <1>1, <1>2, <1>3

\* While nothing is disturbed, every step leaves things quiet.
LEMMA UndisturbedStep ==
  ASSUME IndInv, Undisturbed, [Next]_vars
  PROVE  Undisturbed'
<1>. SUFFICES ASSUME ~broken' PROVE Quiet' BY DEF Undisturbed
<1>1. process \in [Processes -> Starts] /\ Grows
  BY History DEF IndInv, TypeOK
<1>2. Quiet
  <2>1. ASSUME NEW p \in Processes, StartStep(p) PROVE broken' = broken
    BY <2>1, StartFacts
  <2>2. ASSUME NEW p \in Processes, Kill(p) PROVE broken => broken'
    BY ONLY <2>2 DEF Kill
  <2>3. ASSUME NEW p \in Processes, NEW url \in {"https", "http_local", "http"},
               NEW allow \in BOOLEAN, Start(p, url, allow)
        PROVE  broken => broken'
    BY ONLY <2>3 DEF Start
  <2>4. ~broken BY <2>1, <2>2, <2>3 DEF Next, vars
  <2>. QED BY <2>4 DEF Undisturbed
<1>3. CASE UNCHANGED vars
  BY <1>2, <1>3 DEF Quiet, vars, Alone, Migrating, Pristine, OldMarks, Abreast, At
<1>4. CASE Next
  <2>1. PICK p \in Processes :
          \/ StartStep(p) \/ Kill(p)
          \/ \E url \in {"https", "http_local", "http"}, allow \in BOOLEAN :
               Start(p, url, allow)
    BY <1>4 DEF Next
  <2>2. Owed(p)
    BY <1>2, <2>1, OwedOutside, OwedInspect, OwedReadHeads, OwedEnsure, OwedStamp,
       OwedNextRevision, OwedExecute, OwedCommit DEF StartStep
  <2>3. \A q \in Processes \ {p} : process'[q] = process[q]
    BY <1>1, <2>1, Move DEF Own
  <2>4. Migrating(p)' => \A q \in Processes \ {p} : ~Migrating(q)
    <3>1. CASE StartStep(p)
      <4>1. CASE Serve(p)
        <5>1. \A pc : [Down EXCEPT !.pc = pc].pc = pc BY DEF Down
        <5>2. process'[p].pc \in {"refused", "serving"}
          BY <1>1, <4>1, <5>1 DEF Serve, Step
        <5>. QED BY <5>2 DEF Migrating
      <4>2. CASE ~Serve(p)
        <5>1. Migrating(p)
          BY <3>1, <4>2, StartFacts
        <5>. QED BY <1>2, <5>1 DEF Quiet, Alone
      <4>. QED BY <4>1, <4>2
    <3>2. CASE Kill(p)
      <4>1. process'[p].pc = "down" BY <1>1, <3>2 DEF Kill, Step, Down
      <4>. QED BY <4>1 DEF Migrating
    <3>3. ASSUME NEW url \in {"https", "http_local", "http"}, NEW allow \in BOOLEAN,
                 Start(p, url, allow)
          PROVE  \A q \in Processes : ~Migrating(q)
      BY ONLY ~broken', <3>3 DEF Start
    <3>. QED BY <2>1, <3>1, <3>2, <3>3
  <2>5. Alone' BY <1>2, <2>3, <2>4 DEF Quiet, Alone, Migrating
  <2>6. ASSUME NEW q \in Processes \ {p} PROVE Abreast(q)'
    <3>1. Abreast(q) /\ process'[q] = process[q] BY <1>2, <2>3 DEF Quiet
    <3>2. CASE ~Migrating(q)
      BY <3>1, <3>2 DEF Abreast, Migrating
    <3>3. CASE Migrating(q)
      <4>1. ~Migrating(p) BY <1>2, <3>3 DEF Quiet, Alone
      <4>2. UNCHANGED <<schema, version, legacy>>
        <5>1. StartStep(p) => Serve(p) BY <4>1, StartFacts
        <5>2. CASE Serve(p) BY <5>2 DEF Serve
        <5>3. CASE Kill(p) BY <5>3 DEF Kill
        <5>4. ASSUME NEW url \in {"https", "http_local", "http"},
                     NEW allow \in BOOLEAN, Start(p, url, allow)
              PROVE  UNCHANGED <<schema, version, legacy>>
          BY <5>4 DEF Start
        <5>. QED BY <2>1, <5>1, <5>2, <5>3, <5>4
      <4>. QED BY <3>1, <4>2 DEF Abreast
    <3>. QED BY <3>2, <3>3
  <2>. QED BY <2>2, <2>5, <2>6 DEF Quiet, Owed
<1>. QED BY <1>3, <1>4

LEMMA UndisturbedInit == Init => Undisturbed
<1>. SUFFICES ASSUME Init PROVE Quiet BY DEF Undisturbed
<1>1. \A p \in Processes : process[p] = Down BY DEF Init
<1>2. Down.pc = "down" BY DEF Down
<1>3. Alone /\ \A p \in Processes : Abreast(p)
  BY <1>1, <1>2 DEF Alone, Migrating, Abreast
<1>4. OldMarks /\ Pristine
  <2>1. CASE schema = {} /\ version = {} /\ legacy = FALSE
    BY <2>1 DEF OldMarks, Pristine
  <2>2. CASE schema = Effect("baseline") /\ version = {} /\ legacy = TRUE
    <3>1. "baseline" \in Revisions /\ InCommit["baseline"] = [add |-> {}, drop |-> {}]
      BY DEF Revisions, InCommit
    <3>2. Effect("baseline") = Created("baseline") BY <3>1 DEF Effect
    <3>3. DOMAIN Statements["baseline"] = 1..11 BY StatementFacts DEF OneEach
    <3>4. "alembic_version" \notin Effect("baseline")
      BY <3>1, <3>2, NameFacts DEF Created
    <3>5. Statements["baseline"][1].add = {"tripwires"}
      BY DEF Statements, Baseline, Create
    <3>6. "tripwires" \in Effect("baseline")
      BY <3>2, <3>3, <3>5 DEF Created
    <3>. QED BY <2>2, <3>4, <3>6 DEF OldMarks, Pristine
  <2>3. CASE /\ version \in (SUBSET Revisions) \ {{}} /\ legacy = FALSE
             /\ schema = {"alembic_version"}
                           \cup UNION {Effect(r) : r \in Applied(version)}
    <3>. SUFFICES ASSUME NEW r \in Revisions \ Applied(version), NEW i \in DOMAIN Statements[r]
                  PROVE  Name(r, i) \notin schema
      BY <2>3 DEF OldMarks, Pristine
    <3>1. Applied(version) \subseteq Revisions BY <2>3, AppliedFacts
    <3>2. ASSUME NEW s \in Applied(version), Name(r, i) \in Effect(s) PROVE FALSE
      <4>1. s \in Revisions /\ s # r BY <3>1
      <4>2. CASE Name(r, i) \in Created(s)
        <5>1. PICK j \in DOMAIN Statements[s] : Name(r, i) \in Statements[s][j].add
          BY <4>2 DEF Created
        <5>2. Statements[s][j].add = {Name(s, j)} BY <4>1, NameFacts
        <5>. QED BY <4>1, <5>1, <5>2, NameFacts
      <4>3. CASE Name(r, i) \in InCommit[s].add
        <5>1. s = "fk_cascade" /\ Name(r, i) \in {"deployments", "deployments.cascade"}
          BY <4>1, <4>3 DEF InCommit
        <5>2. r = "baseline" BY <5>1, NameFacts
        <5>3. "baseline" \in Applied(version)
          <6>1. s \in version \/ \E t \in version : s \in Below[t]
            BY DEF Applied
          <6>2. "baseline" \in Below["fk_cascade"] /\ \A t \in Revisions :
                  "fk_cascade" \in Below[t] => "baseline" \in Below[t]
            BY BelowIsChain DEF Chain, Revisions
          <6>. QED BY <2>3, <5>1, <6>1, <6>2 DEF Applied
        <5>. QED BY <5>2, <5>3
      <4>. QED BY <3>2, <4>2, <4>3 DEF Effect
    <3>3. Name(r, i) # "alembic_version" BY NameFacts
    <3>. QED BY <2>3, <3>2, <3>3
  <2>. QED BY <2>1, <2>2, <2>3 DEF Init
<1>. QED BY <1>3, <1>4 DEF Quiet

\* A start fails only if one was killed or met by another in the middle: alone,
\* it reads heads that stay, and finds free whatever it has to create.
THEOREM FailsForAReason == Spec => []FailsOnlyIfBroken
<1>1. Init => Undisturbed BY UndisturbedInit
<1>2. IndInv /\ Undisturbed /\ [Next]_vars => Undisturbed' BY UndisturbedStep
<1>3. Undisturbed => FailsOnlyIfBroken
  BY DEF Undisturbed, Quiet, Abreast, FailsOnlyIfBroken, At
<1>. QED BY <1>1, <1>2, <1>3, Inductive, PTL DEF Spec

-----------------------------------------------------------------------------
\* Why two starts that overlap never commit a revision twice.  The statements of
\* a revision can be executed once: but the batch makes its temporary table again
\* when it is gone, and the merge has none.  These two go by the rows they move.

ByRow == {"fk_cascade", "merge"}

\* The row that each of them replaces.
Moved(r) == IF r = "fk_cascade" THEN "baseline" ELSE "resolved_at"

\* What is replaced does not come back.
RowsReplaced == \A r \in ByRow : r \in Applied(version) => Moved(r) \notin version

\* Alembic has the row to replace in memory.
Held(p) ==
  LET h == process[p] IN
  At(p, "upgrade") =>
    /\ h.revision \notin h.todo
    /\ \A r \in ByRow :
         /\ r \in h.todo /\ Moved(r) \notin h.todo /\ Moved(r) # h.revision
              => Moved(r) \in h.heads
         /\ r = h.revision => Moved(r) \in h.heads

\* p has begun to execute r.
Begun(p, r) ==
  /\ At(p, "upgrade") /\ process[p].revision = r /\ process[p].step > 0

\* Who has begun a revision is the only one, and it is not there yet.
Sole ==
  \A r \in Revisions \ ByRow, p \in Processes : Begun(p, r) =>
    /\ r \notin Applied(version)
    /\ \A q \in Processes : Begun(q, r) => q = p

OnceInv == ~legacy => RowsReplaced /\ Sole /\ \A p \in Processes : Held(p)

\* The two rows, and what they are below.
LEMMA RowFacts ==
  /\ \A r \in ByRow :
       /\ r \in Revisions /\ Moved(r) \in DownRevision[r] /\ Moved(r) # r
       /\ Moved(r) \in Revisions
       /\ \A s \in Revisions : Moved(r) \in DownRevision[s] => s = r
  /\ \A V \in SUBSET Revisions : \A r \in ByRow :
       /\ r \in Applied(V) => Moved(r) \in Applied(V)
       /\ Moved(r) \in Applied(V) /\ r \notin Applied(V) => Moved(r) \in V
  /\ \A r \in Revisions \ ByRow : Len(Statements[r]) > 0
<1>1. \A r \in ByRow :
        /\ r \in Revisions /\ Moved(r) \in DownRevision[r] /\ Moved(r) # r
        /\ Moved(r) \in Revisions
        /\ \A s \in Revisions : Moved(r) \in DownRevision[s] => s = r
  BY DEF ByRow, Moved, DownRevision, Revisions
<1>2. \A r \in ByRow : \A t \in Revisions :
        /\ r \in Below[t] => Moved(r) \in Below[t]
        /\ Moved(r) \in Below[t] => t = r \/ r \in Below[t]
        /\ Moved(r) \in Below[r]
  BY BelowIsChain DEF ByRow, Moved, Chain, Revisions
<1>3. \A V \in SUBSET Revisions : \A r \in ByRow :
        /\ r \in Applied(V) => Moved(r) \in Applied(V)
        /\ Moved(r) \in Applied(V) /\ r \notin Applied(V) => Moved(r) \in V
  BY <1>2 DEF Applied
<1>4. \A r \in Revisions \ ByRow : Len(Statements[r]) > 0
  BY StatementFacts DEF ByRow, Revisions, OneEach
<1>. QED BY <1>1, <1>3, <1>4

\* A revision whose transaction commits was not there, and is then: nothing else.
LEMMA CommitsNew ==
  ASSUME IndInv, OnceInv, ~legacy, NEW p \in Processes, Commit(p), ~Raise(p)
  PROVE  LET r == process[p].revision IN
         /\ r \in Revisions /\ r \notin Applied(version)
         /\ DownRevision[r] \subseteq Applied(version)
         /\ version' = (version \ (DownRevision[r] \cap process[p].heads)) \cup {r}
         /\ Applied(version') = Applied(version) \cup {r}
<1>1. /\ process[p] \in Starts /\ version \subseteq Revisions /\ Upgrading(p)
      /\ Held(p) /\ RowsReplaced /\ Sole
  BY DEF IndInv, TypeOK, OnceInv
<1>2. PICK r \in Revisions : r = process[p].revision
  BY <1>1 DEF Commit, Starts
<1>. DEFINE moved == DownRevision[r] \cap process[p].heads
<1>3. /\ At(p, "upgrade") /\ r # None /\ process[p].step = Len(Statements[r])
      /\ moved \subseteq version
      /\ version' = (version \ moved) \cup {r}
  BY <1>2 DEF Commit
<1>4. DownRevision[r] \subseteq Applied(version)
  BY <1>1, <1>2, <1>3 DEF Upgrading
<1>5. r \notin Applied(version)
  <2>1. CASE r \in ByRow
    <3>1. Moved(r) \in process[p].heads /\ Moved(r) \in DownRevision[r]
      BY <1>1, <1>2, <1>3, <2>1, RowFacts DEF Held
    <3>. QED BY <1>1, <1>3, <2>1, <3>1 DEF RowsReplaced
  <2>2. CASE r \notin ByRow
    <3>1. Begun(p, r) BY <1>2, <1>3, <2>2, RowFacts DEF Begun
    <3>. QED BY <1>1, <2>2, <3>1 DEF Sole
  <2>. QED BY <2>1, <2>2
<1>6. Applied(version') = Applied(version) \cup {r}
  BY <1>1, <1>3, <1>4, AppliedFacts
<1>. QED BY <1>2, <1>3, <1>4, <1>5, <1>6

\* Every step moves the version to nothing, or by one revision that is new.
LEMMA VersionMoves ==
  ASSUME IndInv, OnceInv, ~legacy, NEW p \in Processes,
         \/ StartStep(p) \/ Kill(p)
         \/ \E url \in {"https", "http_local", "http"}, allow \in BOOLEAN :
              Start(p, url, allow),
         version' # version
  PROVE  Commit(p) /\ ~Raise(p)
<1>1. CASE Stamp(p) BY <1>1 DEF IndInv, Seen, Stamp, At
<1>2. CASE Commit(p)
  <2>1. process \in [Processes -> Starts] BY DEF IndInv, TypeOK
  <2>2. CASE Raise(p)
    <3>1. process'[p].pc = "failed" BY <2>1, <2>2 DEF Raise, Step, Down
    <3>2. PICK h : Step(p, h) /\ h.pc = "upgrade"
      <4>. DEFINE h == [process[p] EXCEPT !.revision = None, !.step = 0,
             !.heads = (@ \ (DownRevision[process[p].revision] \cap process[p].heads))
                         \cup {process[p].revision}]
      <4>1. Step(p, h) BY <1>2 DEF Commit
      <4>2. h.pc = "upgrade" BY <1>2, <2>1 DEF Commit, At, Starts
      <4>. HIDE DEF h
      <4>. QED BY <4>1, <4>2
    <3>. QED BY <2>1, <3>1, <3>2 DEF Step
  <2>. QED BY <1>2, <2>2
<1>3. ASSUME ~Commit(p), ~Stamp(p) PROVE FALSE
  <2>1. CASE Inspect(p) BY <2>1 DEF Inspect
  <2>2. CASE ReadHeads(p) BY <2>2 DEF ReadHeads
  <2>3. CASE EnsureVersion(p) BY <2>3 DEF EnsureVersion
  <2>4. CASE NextRevision(p) BY <2>4, NextRevisionFacts, Zenon
  <2>5. CASE Execute(p) BY <2>5 DEF Execute
  <2>6. CASE Serve(p) BY <2>6 DEF Serve
  <2>7. CASE Kill(p) BY <2>7 DEF Kill
  <2>8. ASSUME NEW url \in {"https", "http_local", "http"}, NEW allow \in BOOLEAN,
               Start(p, url, allow)
        PROVE  version' = version
    BY ONLY <2>8 DEF Start
  <2>. QED BY <1>3, <2>1, <2>2, <2>3, <2>4, <2>5, <2>6, <2>7, <2>8 DEF StartStep
<1>. QED BY <1>1, <1>2, <1>3

\* A step that takes nothing up keeps what a start holds.
LEMMA HeldStopped ==
  ASSUME NEW p, ~At(p, "upgrade")'
  PROVE  Held(p)' /\ \A r : ~Begun(p, r)'
BY DEF Held, Begun, At

\* What p does not hold or begin anew stays sole, if the version stays.
LEMMA SoleKept ==
  ASSUME Sole, NEW p \in Processes, version' = version,
         \A q \in Processes \ {p} : process'[q] = process[q],
         \A r \in Revisions \ ByRow : Begun(p, r)' => Begun(p, r)
  PROVE  Sole'
<1>1. \A r \in Revisions \ ByRow, q \in Processes : Begun(q, r)' => Begun(q, r)
  BY DEF Begun, At
<1>. QED BY <1>1 DEF Sole

\* A statement is executed where its place is free.
LEMMA ExecuteFacts ==
  ASSUME NEW p, Execute(p)
  PROVE  LET h == process[p] IN
         /\ At(p, "upgrade") /\ h.revision # None /\ version' = version
         /\ \/ Raise(p)
            \/ /\ h.step < Len(Statements[h.revision])
               /\ Statements[h.revision][h.step + 1].add \cap schema = {}
               /\ Step(p, [h EXCEPT !.step = @ + 1])
BY DEF Execute

\* A step of init_db in the middle of an upgrade.
LEMMA OnceUpgrade ==
  ASSUME IndInv, OnceInv, ~legacy, NEW p \in Processes,
         NextRevision(p) \/ Execute(p) \/ Commit(p),
         \A q \in Processes \ {p} : process'[q] = process[q]
  PROVE  RowsReplaced' /\ Sole' /\ Held(p)'
<1>1. /\ process \in [Processes -> Starts] /\ process[p] \in Starts
      /\ version \subseteq Revisions /\ schema' = schema' /\ VersionTellsTruth
      /\ RowsReplaced /\ Sole /\ Held(p)
      /\ \A q \in Processes : Upgrading(q)
  BY DEF IndInv, TypeOK, OnceInv
<1>2. CASE Raise(p)
  <2>1. ~At(p, "upgrade")' BY <1>1, <1>2 DEF Raise, Step, Down, At
  <2>2. version' = version
    <3>1. CASE NextRevision(p) BY <3>1, NextRevisionFacts, Zenon
    <3>2. CASE Execute(p) BY <3>2, ExecuteFacts
    <3>3. CASE Commit(p) BY <1>2, <3>3, VersionMoves DEF StartStep
    <3>. QED BY <3>1, <3>2, <3>3
  <2>3. Sole' BY <1>1, <2>1, <2>2, HeldStopped, SoleKept
  <2>. QED BY <1>1, <2>1, <2>2, <2>3, HeldStopped DEF RowsReplaced
<1>3. CASE NextRevision(p)
  <2>1. At(p, "upgrade") /\ process[p].revision = None /\ version' = version
    BY <1>3, NextRevisionFacts, Zenon
  <2>2. ASSUME NEW r \in process[p].todo, DownRevision[r] \cap process[p].todo = {},
               Step(p, [process[p] EXCEPT !.revision = r, !.step = 0,
                                          !.todo = @ \ {r}])
        PROVE  Sole' /\ Held(p)'
    <3>1. r \in Revisions /\ process[p].todo \subseteq Revisions
      BY <1>1 DEF Starts
    <3>2. /\ process'[p].pc = "upgrade" /\ process'[p].revision = r
          /\ process'[p].step = 0 /\ process'[p].todo = process[p].todo \ {r}
          /\ process'[p].heads = process[p].heads
      BY <1>1, <2>1, <2>2 DEF Step, At, Starts
    <3>3. \A s : ~Begun(p, s)' BY <3>2 DEF Begun
    <3>4. Sole' BY <1>1, <2>1, <3>3, SoleKept
    <3>5. ASSUME NEW s \in ByRow, s \in process[p].todo \/ s = r,
                 Moved(s) \notin process[p].todo
          PROVE  Moved(s) \in process[p].heads
      BY <1>1, <2>1, <2>2, <3>5, RowFacts, StartupAssumption DEF Held
    <3>6. ASSUME NEW s \in ByRow, s = r PROVE Moved(s) \notin process[p].todo
      BY <2>2, <3>6, RowFacts
    <3>7. Held(p)' BY <3>2, <3>5, <3>6 DEF Held
    <3>. QED BY <3>4, <3>7
  <2>3. ASSUME Step(p, [Down EXCEPT !.pc = "checks", !.url = process[p].url,
                                    !.allow = process[p].allow])
        PROVE  Sole' /\ Held(p)'
    <3>. DEFINE h == [Down EXCEPT !.pc = "checks", !.url = process[p].url,
                                  !.allow = process[p].allow]
    <3>1. h.pc = "checks" BY DEF Down
    <3>2. Step(p, h) BY <2>3
    <3>. HIDE DEF h
    <3>3. ~At(p, "upgrade")' BY <1>1, <3>1, <3>2 DEF Step, At
    <3>. QED BY <1>1, <2>1, <3>3, HeldStopped, SoleKept
  <2>4. RowsReplaced' BY <1>1, <2>1 DEF RowsReplaced
  <2>5. \/ \E r \in process[p].todo :
             /\ DownRevision[r] \cap process[p].todo = {}
             /\ Step(p, [process[p] EXCEPT !.revision = r, !.step = 0,
                                           !.todo = @ \ {r}])
        \/ Step(p, [Down EXCEPT !.pc = "checks", !.url = process[p].url,
                                !.allow = process[p].allow])
    BY <1>3, Zenon DEF NextRevision
  <2>. QED BY <2>2, <2>3, <2>4, <2>5, Zenon
<1>4. CASE Execute(p) /\ ~Raise(p)
  <2>1. PICK r \in Revisions : r = process[p].revision
    BY <1>1, <1>4, ExecuteFacts DEF Starts
  <2>2. /\ At(p, "upgrade") /\ version' = version
        /\ process[p].step < Len(Statements[r])
        /\ Statements[r][process[p].step + 1].add \cap schema = {}
        /\ Step(p, [process[p] EXCEPT !.step = @ + 1])
    BY <1>4, <2>1, ExecuteFacts
  <2>3. /\ process'[p].pc = "upgrade" /\ process'[p].revision = r
        /\ process'[p].step = process[p].step + 1
        /\ process'[p].todo = process[p].todo /\ process'[p].heads = process[p].heads
    BY <1>1, <2>1, <2>2 DEF Step, At, Starts
  <2>4. Held(p)' BY <1>1, <2>1, <2>2, <2>3 DEF Held, At
  <2>5. RowsReplaced' BY <1>1, <2>2 DEF RowsReplaced
  <2>6. process[p].step \in Nat BY <1>1, StatementFacts DEF Starts
  <2>7. CASE r \in ByRow \/ process[p].step > 0
    <3>1. \A s \in Revisions \ ByRow : Begun(p, s)' => Begun(p, s)
      BY <2>1, <2>2, <2>3, <2>7 DEF Begun
    <3>2. Sole' BY <1>1, <2>2, <3>1, SoleKept
    <3>. QED BY <2>4, <2>5, <3>2
  <2>8. CASE r \notin ByRow /\ process[p].step = 0
    <3>1. 1 \in DOMAIN Statements[r]
      BY <2>1, <2>8, RowFacts, RevisionFacts, StatementFacts
    <3>2. Statements[r][1].add = {Name(r, 1)} /\ Name(r, 1) \notin schema
      BY <2>2, <2>8, <3>1, NameFacts
    <3>3. Name(r, 1) # Temporary
      <4>1. "fk_cascade" \in ByRow /\ "fk_cascade" \in Revisions
            /\ 1 \in DOMAIN Statements["fk_cascade"]
            /\ Name("fk_cascade", 1) = Temporary
        BY StatementFacts DEF ByRow, Revisions, OneEach, Name
      <4>. QED BY <2>8, <3>1, <4>1, NameFacts
    <3>4. r \notin Applied(version)
      <4>1. Name(r, 1) \in Effect(r)
        BY <3>1, <3>2, <3>3, RevisionFacts DEF Created
      <4>. QED BY <1>1, <3>2, <4>1 DEF VersionTellsTruth
    <3>5. ASSUME NEW q \in Processes, Begun(q, r) PROVE FALSE
      <4>1. process[q].step \in Nat BY <1>1, StatementFacts DEF Starts
      <4>2. 1 \in 1..process[q].step BY <3>5, <4>1 DEF Begun
      <4>3. process[q].revision = r /\ At(q, "upgrade") BY <3>5 DEF Begun
      <4>4. Statements[r][1].add \ {Temporary} \subseteq schema
        BY <1>1, <4>2, <4>3, StartupAssumption DEF Upgrading
      <4>. QED BY <3>2, <3>3, <4>4
    <3>6. \A q \in Processes \ {p} : \A s : Begun(q, s)' <=> Begun(q, s)
      BY DEF Begun, At
    <3>7. \A s : Begun(p, s)' => s = r BY <2>3 DEF Begun
    <3>8. Sole'
      <4>. SUFFICES ASSUME NEW s \in Revisions \ ByRow, NEW q \in Processes, Begun(q, s)'
                    PROVE  /\ s \notin Applied(version)
                           /\ \A t \in Processes : Begun(t, s)' => t = q
        BY <2>2 DEF Sole
      <4>1. CASE s = r BY <3>4, <3>5, <3>6, <4>1
      <4>2. CASE s # r BY <1>1, <3>6, <3>7, <4>2 DEF Sole
      <4>. QED BY <4>1, <4>2
    <3>. QED BY <2>4, <2>5, <3>8
  <2>. QED BY <2>6, <2>7, <2>8
<1>5. CASE Commit(p) /\ ~Raise(p)
  <2>1. PICK r \in Revisions : r = process[p].revision
    BY <1>1, <1>5 DEF Commit, Starts
  <2>. DEFINE moved == DownRevision[r] \cap process[p].heads
  <2>2. /\ r \notin Applied(version) /\ DownRevision[r] \subseteq Applied(version)
        /\ version' = (version \ moved) \cup {r}
        /\ Applied(version') = Applied(version) \cup {r}
    BY <1>5, <2>1, CommitsNew
  <2>3. /\ At(p, "upgrade") /\ r # None /\ process[p].step = Len(Statements[r])
        /\ Step(p, [process[p] EXCEPT !.revision = None, !.step = 0,
                                      !.heads = (@ \ moved) \cup {r}])
    BY <1>5, <2>1 DEF Commit
  <2>4. /\ process'[p].pc = "upgrade" /\ process'[p].revision = None
        /\ process'[p].step = 0 /\ process'[p].todo = process[p].todo
        /\ process'[p].heads = (process[p].heads \ moved) \cup {r}
    BY <1>1, <2>3 DEF Step, At, Starts
  <2>5. r \notin process[p].todo /\ process[p].todo \subseteq Revisions
    BY <1>1, <2>1, <2>3 DEF Held, Starts
  <2>6. RowsReplaced'
    <3>. SUFFICES ASSUME NEW s \in ByRow, s \in Applied(version'),
                         Moved(s) \in version'
                  PROVE  FALSE
      BY DEF RowsReplaced
    <3>1. CASE Moved(s) = r
      <4>1. s \in Applied(version) BY <2>2, <3>1, RowFacts
      <4>. QED BY <1>1, <2>2, <3>1, <4>1, RowFacts
    <3>2. CASE Moved(s) # r /\ s # r
      BY <1>1, <2>2, <3>2 DEF RowsReplaced
    <3>3. CASE s = r
      <4>1. Moved(s) \in moved
        BY <1>1, <2>1, <2>3, <3>3, RowFacts DEF Held
      <4>. QED BY <2>2, <3>3, <4>1, RowFacts
    <3>. QED BY <3>1, <3>2, <3>3
  <2>7. Held(p)'
    <3>1. ASSUME NEW s \in ByRow, s \in process[p].todo, Moved(s) \notin process[p].todo
          PROVE  Moved(s) \in process'[p].heads
      <4>1. CASE Moved(s) = r BY <2>4, <4>1
      <4>2. CASE Moved(s) # r
        <5>1. Moved(s) \in process[p].heads
          BY <1>1, <2>1, <2>3, <3>1, <4>2 DEF Held
        <5>2. s # r BY <2>5, <3>1
        <5>3. Moved(s) \notin DownRevision[r] BY <5>2, RowFacts
        <5>. QED BY <2>4, <5>1, <5>3
      <4>. QED BY <4>1, <4>2
    <3>2. None \notin process[p].todo /\ None \notin ByRow
      BY <2>5, RowFacts, StartupAssumption
    <3>. QED BY <2>4, <3>1, <3>2 DEF Held
  <2>8. Sole'
    <3>1. \A s \in Revisions : ~Begun(p, s)'
      BY <2>4, StartupAssumption DEF Begun
    <3>2. \A q \in Processes \ {p} : \A s : Begun(q, s)' <=> Begun(q, s)
      BY DEF Begun, At
    <3>3. ASSUME NEW q \in Processes \ {p}, Begun(q, r), r \notin ByRow PROVE FALSE
      <4>1. Begun(p, r) BY <2>1, <2>3, <3>3, RowFacts DEF Begun
      <4>. QED BY <1>1, <3>3, <4>1 DEF Sole
    <3>. QED BY <1>1, <2>2, <3>1, <3>2, <3>3 DEF Sole
  <2>. QED BY <2>6, <2>7, <2>8
<1>. QED BY <1>2, <1>3, <1>4, <1>5

\* How an upgrade begins: with the heads that were read.
LEMMA UpgradeSteps ==
  ASSUME process \in [Processes -> Starts], version \subseteq Revisions,
         NEW p \in Processes,
         \/ StartStep(p) \/ Kill(p)
         \/ \E url \in {"https", "http_local", "http"}, allow \in BOOLEAN :
              Start(p, url, allow),
         ~(NextRevision(p) \/ Execute(p) \/ Commit(p)),
         At(p, "upgrade")'
  PROVE  /\ ~At(p, "upgrade") /\ process'[p].revision = process[p].revision
         /\ \/ process'[p].todo = Revisions
            \/ /\ process'[p].todo = Revisions \ Applied(version)
               /\ process'[p].heads = version
<1>1. process[p] \in Starts OBVIOUS
<1>2. ASSUME NEW h, Step(p, h), h.pc # "upgrade" PROVE FALSE
  BY <1>2 DEF Step, At
<1>3. ASSUME NEW pc, NEW url, NEW allow, pc # "upgrade"
      PROVE  /\ [Down EXCEPT !.pc = pc].pc # "upgrade"
             /\ [Down EXCEPT !.pc = pc, !.url = url, !.allow = allow].pc # "upgrade"
  BY <1>3 DEF Down
<1>4. ~Raise(p) BY <1>2, <1>3 DEF Raise
<1>5. ASSUME NEW url \in {"https", "http_local", "http"}, NEW allow \in BOOLEAN
      PROVE  ~Start(p, url, allow)
  <2>. DEFINE h == [Down EXCEPT !.pc = "inspect", !.url = url, !.allow = allow]
  <2>1. h.pc # "upgrade" BY <1>3
  <2>2. Start(p, url, allow) => Step(p, h) BY ONLY DEF Start
  <2>. HIDE DEF h
  <2>. QED BY <1>2, <2>1, <2>2
<1>6. ~Kill(p)
  <2>1. Down.pc # "upgrade" BY DEF Down
  <2>. QED BY <1>2, <2>1 DEF Kill
<1>7. ~Serve(p) BY <1>2, <1>3 DEF Serve
<1>8. ~Stamp(p)
  <2>. DEFINE h == [Down EXCEPT !.pc = "checks", !.url = process[p].url,
                                !.allow = process[p].allow]
  <2>1. h.pc # "upgrade" BY <1>3
  <2>2. Stamp(p) => Step(p, h) \/ Raise(p) BY DEF Stamp
  <2>. HIDE DEF h
  <2>. QED BY <1>2, <1>4, <2>1, <2>2
<1>9. ~Inspect(p)
  <2>. DEFINE h == [process[p] EXCEPT !.pc = "inspected",
                                      !.tables = "tripwires" \in schema]
              i == [process[p] EXCEPT !.pc = "heads",
                                      !.stamped = "alembic_version" \in schema]
  <2>1. h.pc # "upgrade" /\ i.pc # "upgrade" BY <1>1 DEF Starts
  <2>2. Inspect(p) => Step(p, h) \/ Step(p, i) BY DEF Inspect
  <2>. HIDE DEF h, i
  <2>. QED BY <1>2, <2>1, <2>2
<1>10. ReadHeads(p) \/ EnsureVersion(p)
  BY <1>5, <1>6, <1>7, <1>8, <1>9 DEF StartStep
<1>11. CASE ReadHeads(p)
  <2>. DEFINE h == [process[p] EXCEPT !.heads = version]
              i == [h EXCEPT !.pc = "ensure"]
              j == [h EXCEPT !.pc = "upgrade", !.todo = Revisions \ Applied(version)]
  <2>1. i.pc # "upgrade" /\ j.heads = version /\ j.revision = process[p].revision
        /\ j.todo = Revisions \ Applied(version)
    BY <1>1 DEF Starts
  <2>2. At(p, "heads") /\ (Step(p, i) \/ Step(p, j)) BY <1>4, <1>11 DEF ReadHeads
  <2>. HIDE DEF i, j
  <2>3. Step(p, j) BY <1>2, <2>1, <2>2
  <2>4. process'[p] = j BY <2>3 DEF Step
  <2>. QED BY <2>1, <2>2, <2>4 DEF At
<1>12. CASE EnsureVersion(p)
  <2>. DEFINE i == [process[p] EXCEPT !.pc = "stamp"]
              j == [process[p] EXCEPT !.pc = "upgrade", !.todo = Revisions]
  <2>1. i.pc # "upgrade" /\ j.revision = process[p].revision /\ j.todo = Revisions
    BY <1>1 DEF Starts
  <2>2. At(p, "ensure") /\ (Step(p, i) \/ Step(p, j)) BY <1>12 DEF EnsureVersion
  <2>. HIDE DEF i, j
  <2>3. Step(p, j) BY <1>2, <2>1, <2>2
  <2>4. process'[p] = j BY <2>3 DEF Step
  <2>. QED BY <2>1, <2>2, <2>4 DEF At
<1>. QED BY <1>10, <1>11, <1>12

\* Who overlaps whom, a revision is begun once and its rows are moved once.
LEMMA OnceStep ==
  ASSUME IndInv, OnceInv, [Next]_vars
  PROVE  OnceInv'
<1>1. process \in [Processes -> Starts] /\ version \subseteq Revisions /\ Grows
  BY History DEF IndInv, TypeOK
<1>. SUFFICES ASSUME ~legacy
              PROVE  RowsReplaced' /\ Sole' /\ \A p \in Processes : Held(p)'
  BY <1>1 DEF OnceInv, Grows
<1>2. RowsReplaced /\ Sole /\ \A p \in Processes : Held(p) BY DEF OnceInv
<1>3. ASSUME NEW q, process'[q] = process[q], Held(q) PROVE Held(q)'
  BY <1>3 DEF Held, At
<1>4. CASE UNCHANGED vars
  BY <1>2, <1>3, <1>4 DEF vars, RowsReplaced, Sole, Begun, At
<1>5. CASE Next
  <2>1. PICK p \in Processes :
          \/ StartStep(p) \/ Kill(p)
          \/ \E url \in {"https", "http_local", "http"}, allow \in BOOLEAN :
               Start(p, url, allow)
    BY <1>5 DEF Next
  <2>2. \A q \in Processes \ {p} : process'[q] = process[q]
    BY <1>1, <2>1, Move DEF Own
  <2>3. \A q \in Processes \ {p} : Held(q)' BY <1>2, <1>3, <2>2
  <2>4. CASE NextRevision(p) \/ Execute(p) \/ Commit(p)
    BY <2>2, <2>3, <2>4, OnceUpgrade
  <2>5. CASE ~(NextRevision(p) \/ Execute(p) \/ Commit(p))
    <3>1. version' = version BY <2>1, <2>5, VersionMoves
    <3>2. RowsReplaced' BY <1>2, <3>1 DEF RowsReplaced
    <3>3. \A r \in Revisions : ~Begun(p, r)'
      <4>1. At(p, "upgrade")' => process'[p].revision = None
        <5>1. ~At(p, "upgrade")' \/ ~At(p, "upgrade")
          BY <2>1, <2>5, UpgradeSteps, <1>1
        <5>2. process'[p].revision = process[p].revision \/ ~At(p, "upgrade")'
          BY <1>1, <2>1, <2>5, UpgradeSteps
        <5>. QED BY <5>1, <5>2 DEF IndInv, Idle
      <4>. QED BY <4>1, StartupAssumption DEF Begun
    <3>4. Sole' BY <1>2, <2>2, <3>1, <3>3, SoleKept
    <3>5. Held(p)'
      <4>1. CASE ~At(p, "upgrade")' BY <4>1, HeldStopped
      <4>2. CASE At(p, "upgrade")'
        <5>1. /\ process'[p].revision = None /\ process'[p].todo \subseteq Revisions
              /\ \A r \in ByRow : r \in process'[p].todo /\ Moved(r) \notin process'[p].todo
                                    => Moved(r) \in process'[p].heads
          BY <1>1, <2>1, <2>5, <4>2, UpgradeSteps, RowFacts DEF IndInv, Idle
        <5>. QED BY <5>1, RowFacts, StartupAssumption DEF Held
      <4>. QED BY <4>1, <4>2
    <3>. QED BY <2>3, <3>2, <3>4, <3>5
  <2>. QED BY <2>4, <2>5
<1>. QED BY <1>4, <1>5

\* A revision is recorded once, after the ones below it, whoever overlaps and
\* whatever is killed.
THEOREM EachRevisionOnce == Spec => RevisedOnce
<1>1. Init => OnceInv
  <2>. SUFFICES ASSUME Init, ~legacy PROVE RowsReplaced /\ Sole /\ \A p \in Processes : Held(p)
    BY DEF OnceInv
  <2>1. /\ \A p \in Processes : process[p] = Down
        /\ version \subseteq Revisions
        /\ \A r \in version : Below[r] \cap version = {}
    BY DEF Init
  <2>2. Down.pc = "down" BY DEF Down
  <2>3. Sole /\ \A p \in Processes : Held(p)
    BY <2>1, <2>2 DEF Sole, Held, Begun, At
  <2>4. \A r \in ByRow, s \in Revisions :
          /\ Moved(r) \in Below[r]
          /\ r \in Below[s] => Moved(r) \in Below[s]
    BY BelowIsChain DEF ByRow, Moved, Chain, Revisions
  <2>5. RowsReplaced BY <2>1, <2>4 DEF RowsReplaced, Applied
  <2>. QED BY <2>3, <2>5
<1>2. IndInv /\ OnceInv /\ [Next]_vars => OnceInv' BY OnceStep
<1>3. ASSUME IndInv, OnceInv, [Next]_vars, ~legacy, version' # version
      PROVE  \E r \in Revisions \ Applied(version) :
               /\ DownRevision[r] \subseteq Applied(version)
               /\ Applied(version') = Applied(version) \cup {r}
  <2>1. Next BY <1>3 DEF vars
  <2>2. PICK p \in Processes :
          \/ StartStep(p) \/ Kill(p)
          \/ \E url \in {"https", "http_local", "http"}, allow \in BOOLEAN :
               Start(p, url, allow)
    BY <2>1 DEF Next
  <2>3. Commit(p) /\ ~Raise(p) BY <1>3, <2>2, VersionMoves
  <2>. QED BY <1>3, <2>3, CommitsNew
<1>4. IndInv /\ OnceInv /\ [Next]_vars =>
        [~legacy /\ version' # version =>
           \E r \in Revisions \ Applied(version) :
             /\ DownRevision[r] \subseteq Applied(version)
             /\ Applied(version') = Applied(version) \cup {r}]_vars
  BY <1>3
<1>. QED BY <1>1, <1>2, <1>4, Inductive, PTL DEF Spec, RevisedOnce
=============================================================================
