---------------------------- MODULE ControlPlane ----------------------------
(***************************************************************************)
(* The thumper server's control plane: the tables of server/thumper/db.py, *)
(* the queries of store.py and the handlers of api/routes.py that change   *)
(* them.                                                                   *)
(*                                                                         *)
(* A handler is not atomic.  SQLite runs a SELECT outside a transaction    *)
(* and a write with its commit as one transaction, so a handler is a       *)
(* sequence of such steps, and another handler may run between any two.    *)
(* `def' handlers run in a thread pool and interleave freely; `async def'  *)
(* handlers run on the one event loop and, once the body is read, give it  *)
(* up only when they return (LoopFree).  A commit or a rollback expires    *)
(* every row object of the session: the next attribute access reads the    *)
(* row again and raises if it has been deleted (pc "raised", a 500).       *)
(*                                                                         *)
(* An endpoint's token is drawn with its row and never changes, so the     *)
(* endpoint's id stands for the token as well.  A request refused by its   *)
(* first SELECT (401, 404) changes nothing and is not a step.              *)
(***************************************************************************)
EXTENDS Naturals, FiniteSets

CONSTANTS
  Tripwires, Endpoints, Deployments, Alerts,  \* ids the server may draw
  Machines,                                   \* machine_ids of the hosts
  Requests,                                   \* bound: requests in progress
  Ops,                                        \* the operations clients use
  Lifetimes,                                  \* values of the ephemeral flag
  None

AllOps == {"CreateTripwire", "UpdateTripwire", "DeleteTripwire", "Assign",
           "Unassign",
           "Decommission", "ForceRemove", "ListEndpoints", "Resolve",
           "ResolveDeployment", "ResolveAll", "Enroll", "Heartbeat", "Pull",
           "Decommissioned", "Report", "Trigger"}

AsyncOps == {"Enroll", "Report", "Trigger"}

ASSUME OpsAssumption == /\ Ops \subseteq AllOps /\ None \notin AllOps
                        /\ Lifetimes \subseteq BOOLEAN

VARIABLES
  tripwires,    \* ids of the rows of table tripwires
  endpoints,    \* table endpoints, keyed by id
  deployments,  \* table deployments, keyed by id
  alerts,       \* table alerts, keyed by id
  issued,       \* every tripwire, endpoint and deployment id drawn so far
  told,         \* endpoints whose agent was answered "decommission"
  delivery,     \* what became of the background task of each alert
  request       \* the handlers in progress, with their local variables

tables == <<tripwires, endpoints, deployments, alerts, issued>>
vars == <<tripwires, endpoints, deployments, alerts, issued, told, delivery,
          request>>

EndpointRows == [machine : Machines, flagged : BOOLEAN, ephemeral : BOOLEAN,
                 seen : {"recent", "old"}]
DeploymentRows == [tripwire : Tripwires, endpoint : Endpoints,
                   state : {"pending", "planted", "failed"}]
AlertRows == [deployment : Deployments, endpoint : Endpoints, open : BOOLEAN]

Pcs == {"idle", "raised", "insert", "update", "reload", "next", "endpoint",
        "tripwire", "lookup", "create", "relookup", "refresh", "list",
        "delete", "flag", "touch", "answer", "sweep", "prune", "resolve",
        "body", "set", "alert", "check", "plant", "mark", "schedule",
        "rename", "reread"}

\* The local variables of a handler.  `todo' are the rows a loop still has to
\* visit, `stale' what a snapshot said of them, `expired' whether the session's
\* objects have been expired, `want' (not in the code) the tripwires an
\* enrollment asked for that existed when it arrived.
Handlers ==
  [op : AllOps \cup {None}, pc : Pcs, machine : Machines \cup {None},
   ephemeral : BOOLEAN, tw : Tripwires \cup {None},
   ep : Endpoints \cup {None}, dp : Deployments \cup {None},
   al : Alerts \cup {None}, state : {"planted", "failed"},
   todo : SUBSET (Tripwires \cup Endpoints), stale : SUBSET Endpoints,
   expired : BOOLEAN, want : SUBSET Tripwires]

Idle == [op |-> None, pc |-> "idle", machine |-> None, ephemeral |-> FALSE,
         tw |-> None, ep |-> None, dp |-> None, al |-> None,
         state |-> "failed", todo |-> {}, stale |-> {}, expired |-> FALSE,
         want |-> {}]

TablesTyped ==
  /\ tripwires \subseteq Tripwires \cap issued
  /\ DOMAIN endpoints \subseteq Endpoints \cap issued
  /\ endpoints \in [DOMAIN endpoints -> EndpointRows]
  /\ DOMAIN deployments \subseteq Deployments \cap issued
  /\ deployments \in [DOMAIN deployments -> DeploymentRows]
  /\ DOMAIN alerts \subseteq Alerts
  /\ alerts \in [DOMAIN alerts -> AlertRows]
  /\ issued \subseteq Tripwires \cup Endpoints \cup Deployments
  /\ told \subseteq Endpoints \cap issued
  /\ delivery \in [Alerts -> {"none", "queued", "done", "lost"}]

TypeOK == TablesTyped /\ request \in [Requests -> Handlers]

Init ==
  /\ tripwires = {}
  /\ endpoints = [e \in {} |-> None]
  /\ deployments = [d \in {} |-> None]
  /\ alerts = [a \in {} |-> None]
  /\ issued = {}
  /\ told = {}
  /\ delivery = [a \in Alerts |-> "none"]
  /\ request = [r \in Requests |-> Idle]

-----------------------------------------------------------------------------
\* Tables.

Insert(table, key, row) ==
  [k \in DOMAIN table \cup {key} |-> IF k = key THEN row ELSE table[k]]

Without(table, keys) == [k \in DOMAIN table \ keys |-> table[k]]

\* _find_deployment: the instances of a (tripwire, endpoint) pair.
Instances(t, e) ==
  {d \in DOMAIN deployments : /\ deployments[d].tripwire = t
                              /\ deployments[d].endpoint = e}

\* Mutant of Linked: a connection that never got its foreign_keys pragma.
LinkedNever(t, e) == TRUE

\* The foreign keys, which SQLite checks because every connection of the engine
\* sets foreign_keys=ON.
Linked(t, e) == t \in tripwires /\ e \in DOMAIN endpoints

\* Mutant of Insertable: a table without its unique constraint.
InsertableTwice(t, e) == Linked(t, e)

\* What an INSERT into deployments must satisfy: both foreign keys and
\* UNIQUE(tripwire_id, endpoint_id).
Insertable(t, e) == Linked(t, e) /\ Instances(t, e) = {}

\* store.delete_endpoint: the row and its deployments, in one transaction.
DeleteEndpoint(e) ==
  /\ endpoints' = Without(endpoints, {e})
  /\ deployments' = Without(deployments, {d \in DOMAIN deployments :
                                            deployments[d].endpoint = e})
  /\ UNCHANGED <<tripwires, alerts, issued>>

-----------------------------------------------------------------------------
\* Handlers.

Holding(r) == /\ request[r].op \in AsyncOps
              /\ request[r].pc \notin {"idle", "raised", "body"}

\* Mutant of LoopFree: the agent's handlers run in the thread pool too.
LoopFreeThreads == TRUE
LoopFree == \A r \in Requests : ~Holding(r)

At(r, op, pc) == request[r].op = op /\ request[r].pc = pc
Becomes(r, handler) == request' = [request EXCEPT ![r] = handler]
Goto(r, pc) == Becomes(r, [request[r] EXCEPT !.pc = pc])
Return(r) == Becomes(r, Idle)
Raise(r) == Goto(r, "raised")

CanStart(r, op) == /\ op \in Ops
                   /\ request[r].pc = "idle"
                   /\ op \in AsyncOps => LoopFree
Start(op, pc) == [Idle EXCEPT !.op = op, !.pc = pc]

\* A step that only reads the tables.
Reads == UNCHANGED <<tables, told, delivery>>

-----------------------------------------------------------------------------
\* Tripwires and assignment (management API, thread pool).

\* store.create_tripwire: a row under an id that was not drawn before.
InsertTripwire(t) ==
  /\ t \notin issued
  /\ tripwires' = tripwires \cup {t}
  /\ issued' = issued \cup {t}

CreateTripwire(t) ==
  /\ "CreateTripwire" \in Ops
  /\ InsertTripwire(t)
  /\ UNCHANGED <<endpoints, deployments, alerts, told, delivery, request>>

\* Renaming: the row is found, written and read again.  The name itself tells
\* no two states apart.
UpdateTripwire(r, t) ==
  /\ CanStart(r, "UpdateTripwire")
  /\ t \in tripwires
  /\ Becomes(r, [Start("UpdateTripwire", "rename") EXCEPT !.tw = t])
  /\ Reads

\* An UPDATE that finds no row raises; the same name again needs no UPDATE.
RenameTripwire(r) ==
  /\ At(r, "UpdateTripwire", "rename")
  /\ \/ Goto(r, "reread")
     \/ request[r].tw \notin tripwires /\ Raise(r)
  /\ Reads

\* db.refresh(row) after the commit.
RereadTripwire(r) ==
  /\ At(r, "UpdateTripwire", "reread")
  /\ \/ request[r].tw \in tripwires /\ Return(r)
     \/ request[r].tw \notin tripwires /\ Raise(r)
  /\ Reads

DeleteTripwire(r, t) ==
  /\ CanStart(r, "DeleteTripwire")
  /\ t \in tripwires
  /\ Becomes(r, [Start("DeleteTripwire", "delete") EXCEPT !.tw = t])
  /\ Reads

\* Mutant of DeleteTripwireRows: the row goes, its deployments stay.
DeleteTripwireBare(r) ==
  /\ At(r, "DeleteTripwire", "delete")
  /\ tripwires' = tripwires \ {request[r].tw}
  /\ Return(r)
  /\ UNCHANGED <<endpoints, deployments, alerts, issued, told, delivery>>

DeleteTripwireRows(r) ==
  /\ At(r, "DeleteTripwire", "delete")
  /\ tripwires' = tripwires \ {request[r].tw}
  /\ deployments' = Without(deployments,
                            {d \in DOMAIN deployments :
                               deployments[d].tripwire = request[r].tw})
  /\ Return(r)
  /\ UNCHANGED <<endpoints, alerts, issued, told, delivery>>

Assign(r, e, t) ==
  /\ CanStart(r, "Assign")
  /\ e \in DOMAIN endpoints
  /\ Becomes(r, [Start("Assign", "tripwire") EXCEPT !.ep = e, !.tw = t])
  /\ Reads

AssignTripwire(r) ==
  /\ At(r, "Assign", "tripwire")
  /\ \/ request[r].tw \in tripwires /\ Goto(r, "lookup")
     \/ request[r].tw \notin tripwires /\ Return(r)  \* 400
  /\ Reads

Unassign(r, e, t) ==
  /\ CanStart(r, "Unassign")
  /\ e \in DOMAIN endpoints
  /\ Becomes(r, [Start("Unassign", "list") EXCEPT !.ep = e, !.tw = t])
  /\ Reads

UnassignFind(r) ==
  /\ At(r, "Unassign", "list")
  /\ LET found == Instances(request[r].tw, request[r].ep)
     IN \/ \E d \in found :
             Becomes(r, [request[r] EXCEPT !.pc = "delete", !.dp = d])
        \/ found = {} /\ Return(r)  \* 404
  /\ Reads

UnassignDelete(r) ==
  /\ At(r, "Unassign", "delete")
  /\ deployments' = Without(deployments, {request[r].dp})
  /\ Return(r)
  /\ UNCHANGED <<tripwires, endpoints, alerts, issued, told, delivery>>

-----------------------------------------------------------------------------
\* store.materialize_deployment, run by both Assign and Enroll.

Materializing(r, pc) == request[r].op \in {"Assign", "Enroll"}
                        /\ request[r].pc = pc

\* An assignment answers; an enrollment goes on to its next tripwire.
Materialized(r, expired) ==
  \/ request[r].op = "Assign" /\ Return(r)
  \/ /\ request[r].op = "Enroll"
     /\ Becomes(r, [request[r] EXCEPT !.pc = "next", !.tw = None, !.dp = None,
                                      !.todo = @ \ {request[r].tw},
                                      !.expired = @ \/ expired])

LookupDeployment(r) ==
  /\ Materializing(r, "lookup")
  /\ LET found == Instances(request[r].tw, request[r].ep)
     IN \/ found # {} /\ Materialized(r, FALSE)
        \/ found = {} /\ Goto(r, "create")
  /\ Reads

\* Mutant of InsertDeployment: an id may be drawn twice.
InsertDeploymentReused(r) ==
  /\ Materializing(r, "create")
  /\ Insertable(request[r].tw, request[r].ep)
  /\ \E d \in Deployments \ DOMAIN deployments :
       /\ deployments' = Insert(deployments, d,
                                [tripwire |-> request[r].tw,
                                 endpoint |-> request[r].ep,
                                 state |-> "pending"])
       /\ Becomes(r, [request[r] EXCEPT !.pc = "refresh", !.dp = d])
  /\ UNCHANGED <<tripwires, endpoints, alerts, issued, told, delivery>>

InsertDeployment(r) ==
  /\ Materializing(r, "create")
  /\ Insertable(request[r].tw, request[r].ep)
  /\ \E d \in Deployments \ issued :
       /\ deployments' = Insert(deployments, d,
                                [tripwire |-> request[r].tw,
                                 endpoint |-> request[r].ep,
                                 state |-> "pending"])
       /\ issued' = issued \cup {d}
       /\ Becomes(r, [request[r] EXCEPT !.pc = "refresh", !.dp = d])
  /\ UNCHANGED <<tripwires, endpoints, alerts, told, delivery>>

\* IntegrityError and rollback: another handler inserted the pair first, or the
\* tripwire or the endpoint is gone.
LoseInsert(r) ==
  /\ Materializing(r, "create")
  /\ ~Insertable(request[r].tw, request[r].ep)
  /\ Goto(r, "relookup")
  /\ Reads

\* db.refresh(row) after the commit.
RefreshDeployment(r) ==
  /\ Materializing(r, "refresh")
  /\ \/ request[r].dp \in DOMAIN deployments /\ Materialized(r, TRUE)
     \/ request[r].dp \notin DOMAIN deployments /\ Raise(r)
  /\ Reads

\* Mutant of RelookupDeployment: a lost insert breaks out of the loop.
RelookupBreaks(r) ==
  /\ Materializing(r, "relookup")
  /\ Becomes(r, [request[r] EXCEPT !.pc = "next", !.todo = {}])
  /\ Reads

\* The loser's second look.  Enroll ignores the result; Assign formats it and
\* crashes on None.
RelookupDeployment(r) ==
  /\ Materializing(r, "relookup")
  /\ LET found == Instances(request[r].tw, request[r].ep)
     IN \/ (found # {} \/ request[r].op = "Enroll") /\ Materialized(r, TRUE)
        \/ found = {} /\ request[r].op = "Assign" /\ Raise(r)
  /\ Reads

-----------------------------------------------------------------------------
\* Enrollment (agent API, event loop).

EnrollFind(r, m, token, ephemeral, ids) ==
  /\ CanStart(r, "Enroll")
  /\ LET handler == [Start("Enroll", "insert") EXCEPT
                       !.machine = m, !.ephemeral = ephemeral, !.todo = ids,
                       !.want = ids \cap tripwires]
         existing == {e \in DOMAIN endpoints : endpoints[e].machine = m}
     IN \/ existing = {} /\ Becomes(r, handler)
        \/ /\ token \in existing  \* otherwise MachineIdConflictError, 409
           /\ Becomes(r, [handler EXCEPT !.pc = "update", !.ep = token])
  /\ Reads

\* machine_id is UNIQUE; the IntegrityError of a second insert is not caught.
EnrollInsert(r) ==
  /\ At(r, "Enroll", "insert")
  /\ LET taken == \E e \in DOMAIN endpoints :
                     endpoints[e].machine = request[r].machine
     IN \/ /\ ~taken
           /\ \E e \in Endpoints \ issued :
                /\ endpoints' = Insert(endpoints, e,
                                       [machine |-> request[r].machine,
                                        flagged |-> FALSE,
                                        ephemeral |-> request[r].ephemeral,
                                        seen |-> "recent"])
                /\ issued' = issued \cup {e}
                /\ Becomes(r, [request[r] EXCEPT !.pc = "reload", !.ep = e])
        \/ taken /\ Raise(r) /\ UNCHANGED <<endpoints, issued>>
  /\ UNCHANGED <<tripwires, deployments, alerts, told, delivery>>

\* Mutant of EnrollUpdate: the whole row is written, as for a new endpoint.
EnrollUpdateAll(r) ==
  /\ At(r, "Enroll", "update")
  /\ request[r].ep \in DOMAIN endpoints
  /\ endpoints' = [endpoints EXCEPT ![request[r].ep].flagged = FALSE]
  /\ Goto(r, "reload")
  /\ UNCHANGED <<tripwires, deployments, alerts, issued, told, delivery>>

\* Only the changed columns are written: a decommission flag stays.
EnrollUpdate(r) ==
  /\ At(r, "Enroll", "update")
  /\ LET e == request[r].ep
     IN \/ /\ e \in DOMAIN endpoints
           /\ endpoints' = [endpoints EXCEPT
                              ![e].ephemeral = request[r].ephemeral,
                              ![e].seen = "recent"]
           /\ Goto(r, "reload")
        \/ e \notin DOMAIN endpoints /\ Raise(r) /\ UNCHANGED endpoints
  /\ UNCHANGED <<tripwires, deployments, alerts, issued, told, delivery>>

EnrollReload(r) ==
  /\ At(r, "Enroll", "reload")
  /\ \/ request[r].ep \in DOMAIN endpoints /\ Goto(r, "next")
     \/ request[r].ep \notin DOMAIN endpoints /\ Raise(r)
  /\ Reads

\* One turn of the loop over tripwire_ids: read the tripwire, skip it if it is
\* gone.  The order of the ids is the client's.
EnrollNext(r) ==
  /\ At(r, "Enroll", "next")
  /\ \E t \in request[r].todo :
       \/ /\ t \notin tripwires
          /\ Becomes(r, [request[r] EXCEPT !.todo = @ \ {t}])
       \/ /\ t \in tripwires
          /\ Becomes(r, [request[r] EXCEPT !.pc = "endpoint", !.tw = t])
  /\ Reads

\* endpoint.id is read again when the session has expired it.
EnrollEndpoint(r) ==
  /\ At(r, "Enroll", "endpoint")
  /\ LET gone == request[r].expired /\ request[r].ep \notin DOMAIN endpoints
     IN \/ gone /\ Raise(r)
        \/ ~gone /\ Becomes(r, [request[r] EXCEPT !.pc = "lookup",
                                                  !.expired = FALSE])
  /\ Reads

\* The answer carries endpoint.id and endpoint.agent_token.
EnrollAnswer(r) ==
  /\ At(r, "Enroll", "next")
  /\ request[r].todo = {}
  /\ LET gone == request[r].expired /\ request[r].ep \notin DOMAIN endpoints
     IN (gone /\ Raise(r)) \/ (~gone /\ Return(r))
  /\ Reads

-----------------------------------------------------------------------------
\* Decommission, removal, pruning and agent polls (thread pool).

Decommission(r, e) ==
  /\ CanStart(r, "Decommission")
  /\ e \in DOMAIN endpoints /\ ~endpoints[e].flagged
  /\ Becomes(r, [Start("Decommission", "flag") EXCEPT !.ep = e])
  /\ Reads

DecommissionFlag(r) ==
  /\ At(r, "Decommission", "flag")
  /\ LET e == request[r].ep
     IN \/ /\ e \in DOMAIN endpoints
           /\ endpoints' = [endpoints EXCEPT ![e].flagged = TRUE]
           /\ Return(r)
        \/ e \notin DOMAIN endpoints /\ Raise(r) /\ UNCHANGED endpoints
  /\ UNCHANGED <<tripwires, deployments, alerts, issued, told, delivery>>

\* The operator may force-remove any endpoint; the agent confirms its own
\* self-destruction, after "decommission" or, when ephemeral, on exit.
Remove(r, op, e) ==
  /\ op \in {"ForceRemove", "Decommissioned"}
  /\ CanStart(r, op)
  /\ e \in DOMAIN endpoints
  /\ op = "Decommissioned" => e \in told \/ endpoints[e].ephemeral
  /\ Becomes(r, [Start(op, "delete") EXCEPT !.ep = e])
  /\ Reads

RemoveRows(r) ==
  /\ \E op \in {"ForceRemove", "Decommissioned"} : At(r, op, "delete")
  /\ DeleteEndpoint(request[r].ep)
  /\ Return(r)
  /\ UNCHANGED <<told, delivery>>

Poll(r, op, e) ==
  /\ op \in {"Heartbeat", "Pull"}
  /\ CanStart(r, op)
  /\ e \in DOMAIN endpoints
  /\ Becomes(r, [Start(op, "touch") EXCEPT !.ep = e])
  /\ Reads

Touch(r) ==
  /\ request[r].pc = "touch"
  /\ endpoints' = [e \in DOMAIN endpoints |->
                     IF e = request[r].ep
                     THEN [endpoints[e] EXCEPT !.seen = "recent"]
                     ELSE endpoints[e]]
  /\ Goto(r, "answer")
  /\ UNCHANGED <<tripwires, deployments, alerts, issued, told, delivery>>

\* The commit of touch_endpoint expired the endpoint: its flag is read anew.
PollAnswer(r) ==
  /\ request[r].pc = "answer"
  /\ LET e == request[r].ep
     IN \/ e \notin DOMAIN endpoints /\ Raise(r) /\ UNCHANGED told
        \/ /\ e \in DOMAIN endpoints
           /\ Return(r)
           /\ told' = IF request[r].op = "Heartbeat" /\ endpoints[e].flagged
                      THEN told \cup {e} ELSE told
  /\ UNCHANGED <<tables, delivery>>

\* An hour passes without a sign of life from e.
GrowOld(e) ==
  /\ "ListEndpoints" \in Ops
  /\ e \in DOMAIN endpoints /\ endpoints[e].seen = "recent"
  /\ endpoints' = [endpoints EXCEPT ![e].seen = "old"]
  /\ UNCHANGED <<tripwires, deployments, alerts, issued, told, delivery, request>>

\* store.prune_stale_ephemeral, run by GET /endpoints: one SELECT of the
\* candidates, then a decision and a delete for each.
ListEndpoints(r) ==
  /\ CanStart(r, "ListEndpoints")
  /\ LET candidates == {e \in DOMAIN endpoints : endpoints[e].ephemeral}
     IN /\ candidates # {}
        /\ Becomes(r, [Start("ListEndpoints", "sweep") EXCEPT
                         !.todo = candidates,
                         !.stale = {e \in candidates :
                                      endpoints[e].seen = "old"}])
  /\ Reads

\* last_seen comes from the snapshot until the first delete's commit expires it.
Sweep(r) ==
  /\ At(r, "ListEndpoints", "sweep")
  /\ LET expired == request[r].expired
         old(e) == IF expired THEN endpoints[e].seen = "old"
                              ELSE e \in request[r].stale
     IN \/ request[r].todo = {} /\ Return(r)
        \/ \E e \in request[r].todo :
             \/ expired /\ e \notin DOMAIN endpoints /\ Raise(r)
             \/ /\ expired => e \in DOMAIN endpoints
                /\ IF old(e)
                   THEN Becomes(r, [request[r] EXCEPT !.pc = "prune", !.ep = e,
                                                      !.todo = @ \ {e}])
                   ELSE Becomes(r, [request[r] EXCEPT !.todo = @ \ {e}])
  /\ Reads

Prune(r) ==
  /\ At(r, "ListEndpoints", "prune")
  /\ DeleteEndpoint(request[r].ep)
  /\ Becomes(r, [request[r] EXCEPT
                   !.pc = "sweep", !.ep = None,
                   !.expired = @ \/ request[r].ep \in DOMAIN endpoints])
  /\ UNCHANGED <<told, delivery>>

-----------------------------------------------------------------------------
\* Plant reports and callbacks (agent API, event loop).

\* The report authenticates before it awaits the body, and so gives up the
\* event loop once with its endpoint already read.
Report(r, e, d, state) ==
  /\ CanStart(r, "Report")
  /\ e \in DOMAIN endpoints
  /\ Becomes(r, [Start("Report", "body") EXCEPT !.ep = e, !.dp = d,
                                                !.state = state])
  /\ Reads

ReportFind(r) ==
  /\ At(r, "Report", "body")
  /\ LoopFree
  /\ LET mine == /\ request[r].dp \in DOMAIN deployments
                 /\ deployments[request[r].dp].endpoint = request[r].ep
     IN (mine /\ Goto(r, "set")) \/ (~mine /\ Return(r))  \* 404
  /\ Reads

\* store.set_deployment_state: an UPDATE by id, which may match no row.
SetState(d, state) ==
  deployments' = [x \in DOMAIN deployments |->
                    IF x = d THEN [deployments[x] EXCEPT !.state = state]
                             ELSE deployments[x]]

ReportSet(r) ==
  /\ At(r, "Report", "set")
  /\ SetState(request[r].dp, request[r].state)
  /\ Return(r)
  /\ UNCHANGED <<tripwires, endpoints, alerts, issued, told, delivery>>

\* A callback that is fresh and signed with the deployment's secret.
Trigger(r, d) ==
  /\ CanStart(r, "Trigger")
  /\ d \in DOMAIN deployments
  /\ Alerts \ DOMAIN alerts # {}  \* bound
  /\ Becomes(r, [Start("Trigger", "alert") EXCEPT
                   !.dp = d, !.ep = deployments[d].endpoint])
  /\ Reads

\* store.create_alert
CreateAlert(a, d, e) ==
  alerts' = Insert(alerts, a, [deployment |-> d, endpoint |-> e, open |-> TRUE])

TriggerAlert(r) ==
  /\ At(r, "Trigger", "alert")
  /\ \E a \in Alerts \ DOMAIN alerts :
       /\ CreateAlert(a, request[r].dp, request[r].ep)
       /\ Becomes(r, [request[r] EXCEPT !.pc = "check", !.al = a])
  /\ UNCHANGED <<tripwires, endpoints, deployments, issued, told, delivery>>

\* Mutant of TriggerCheck: a callback from a failed deployment ends here.
TriggerCheckFailed(r) ==
  /\ At(r, "Trigger", "check")
  /\ request[r].dp \in DOMAIN deployments
  /\ \/ deployments[request[r].dp].state # "failed" /\ Goto(r, "plant")
     \/ deployments[request[r].dp].state = "failed" /\ Return(r)
  /\ Reads

\* deployment.state, read again after the alert's commit.
TriggerCheck(r) ==
  /\ At(r, "Trigger", "check")
  /\ LET d == request[r].dp
     IN \/ d \notin DOMAIN deployments /\ Raise(r)
        \/ /\ d \in DOMAIN deployments
           /\ \/ deployments[d].state = "pending" /\ Goto(r, "plant")
              \/ deployments[d].state # "pending" /\ Goto(r, "schedule")
  /\ Reads

TriggerPlant(r) ==
  /\ At(r, "Trigger", "plant")
  /\ SetState(request[r].dp, "planted")
  /\ Goto(r, "mark")
  /\ UNCHANGED <<tripwires, endpoints, alerts, issued, told, delivery>>

\* mark_deployment_triggered(deployment.id): the id is read again.
TriggerMark(r) ==
  /\ At(r, "Trigger", "mark")
  /\ \/ request[r].dp \in DOMAIN deployments /\ Goto(r, "schedule")
     \/ request[r].dp \notin DOMAIN deployments /\ Raise(r)
  /\ Reads

\* The event is built from the deployment, read once more, and handed to the
\* background task with the answer.
TriggerSchedule(r) ==
  /\ At(r, "Trigger", "schedule")
  /\ \/ /\ request[r].dp \in DOMAIN deployments
        /\ delivery' = [delivery EXCEPT ![request[r].al] = "queued"]
        /\ Return(r)
     \/ request[r].dp \notin DOMAIN deployments /\ Raise(r) /\ UNCHANGED delivery
  /\ UNCHANGED <<tables, told>>

\* alerting.deliver_alert runs to its end.
Deliver(a) ==
  /\ delivery[a] = "queued"
  /\ delivery' = [delivery EXCEPT ![a] = "done"]
  /\ UNCHANGED <<tables, told, request>>

ResolveAlert(r, a) ==
  /\ CanStart(r, "Resolve")
  /\ a \in DOMAIN alerts /\ alerts[a].open
  /\ Becomes(r, [Start("Resolve", "resolve") EXCEPT !.al = a])
  /\ Reads

\* The UPDATE that closes every alert of a set.
Close(closed) ==
  /\ alerts' = [a \in DOMAIN alerts |->
                  IF a \in closed THEN [alerts[a] EXCEPT !.open = FALSE]
                                  ELSE alerts[a]]
  /\ UNCHANGED <<tripwires, endpoints, deployments, issued, told, delivery>>

ResolveSet(r) ==
  /\ At(r, "Resolve", "resolve")
  /\ Close({request[r].al})
  /\ Return(r)

ResolveDeployment(d) ==
  /\ "ResolveDeployment" \in Ops
  /\ Close({a \in DOMAIN alerts : alerts[a].deployment = d})
  /\ UNCHANGED request

ResolveAll ==
  /\ "ResolveAll" \in Ops
  /\ Close(DOMAIN alerts)
  /\ UNCHANGED request

-----------------------------------------------------------------------------
\* A handler that raised is answered with a 500.
ErrorResponse(r) ==
  /\ request[r].pc = "raised"
  /\ Return(r)
  /\ Reads

\* The server process dies and starts again: handlers and background tasks are
\* lost, the database is not.
InFlight ==
  {request[r].al : r \in {s \in Requests : /\ request[s].op = "Trigger"
                                           /\ request[s].pc # "alert"}}
Restart ==
  /\ request' = [r \in Requests |-> Idle]
  /\ delivery' = [a \in Alerts |-> IF delivery[a] = "queued" \/ a \in InFlight
                                   THEN "lost" ELSE delivery[a]]
  /\ UNCHANGED <<tables, told>>

\* The first SELECT of a handler.
Begin(r) ==
  \/ \E t \in Tripwires : UpdateTripwire(r, t) \/ DeleteTripwire(r, t)
  \/ \E e \in Endpoints, t \in Tripwires : Assign(r, e, t) \/ Unassign(r, e, t)
  \/ \E e \in Endpoints : Decommission(r, e)
  \/ \E a \in Alerts : ResolveAlert(r, a)
  \/ ListEndpoints(r)
  \/ \E m \in Machines, token \in Endpoints \cup {None}, x \in Lifetimes,
        ids \in SUBSET Tripwires : EnrollFind(r, m, token, x, ids)
  \/ \E op \in Ops, e \in Endpoints : Remove(r, op, e) \/ Poll(r, op, e)
  \/ \E e \in Endpoints, d \in Deployments, s \in {"planted", "failed"} :
        Report(r, e, d, s)
  \/ \E d \in Deployments : Trigger(r, d)

\* A later SELECT, or the 500 of a handler that raised.
Select(r) ==
  \/ RenameTripwire(r) \/ RereadTripwire(r)
  \/ AssignTripwire(r) \/ UnassignFind(r) \/ LookupDeployment(r)
  \/ LoseInsert(r) \/ RefreshDeployment(r) \/ RelookupDeployment(r)
  \/ EnrollReload(r) \/ EnrollNext(r) \/ EnrollEndpoint(r) \/ EnrollAnswer(r)
  \/ Sweep(r) \/ ReportFind(r) \/ TriggerCheck(r) \/ TriggerMark(r)
  \/ ErrorResponse(r)

\* A write transaction, or an answer that sets something going.
Write(r) ==
  \/ DeleteTripwireRows(r) \/ UnassignDelete(r) \/ InsertDeployment(r)
  \/ EnrollInsert(r) \/ EnrollUpdate(r) \/ DecommissionFlag(r)
  \/ RemoveRows(r) \/ Touch(r) \/ PollAnswer(r) \/ Prune(r) \/ ReportSet(r)
  \/ TriggerAlert(r) \/ TriggerPlant(r) \/ TriggerSchedule(r)
  \/ ResolveSet(r)

\* Steps that belong to no handler in progress.
Background ==
  \/ \E t \in Tripwires : CreateTripwire(t)
  \/ \E e \in Endpoints : GrowOld(e)
  \/ \E a \in Alerts : Deliver(a)
  \/ \E d \in Deployments : ResolveDeployment(d)
  \/ ResolveAll
  \/ Restart

Next == Background \/ \E r \in Requests : Begin(r) \/ Select(r) \/ Write(r)

Spec == Init /\ [][Next]_vars

-----------------------------------------------------------------------------
\* Properties.

\* No deployment outlives its tripwire or its endpoint, whatever deletes run
\* between the checks of materialize_deployment and its insert.
RefIntegrity ==
  \A d \in DOMAIN deployments : /\ deployments[d].tripwire \in tripwires
                                /\ deployments[d].endpoint \in DOMAIN endpoints

\* Concurrent assignments and enrollments of the same tripwire on the same
\* endpoint leave one instance (store.py:191-213).
OneInstancePerPair ==
  \A c, d \in DOMAIN deployments :
    /\ deployments[c].tripwire = deployments[d].tripwire
    /\ deployments[c].endpoint = deployments[d].endpoint
    => c = d

\* The insert of a new endpoint, whose IntegrityError enroll_endpoint does not
\* catch, never meets a row with its machine_id: find and insert are two steps,
\* but no other enrollment runs between them.
EnrollNeverConflicts ==
  \A r \in Requests : At(r, "Enroll", "insert") =>
    \A e \in DOMAIN endpoints : endpoints[e].machine # request[r].machine

\* An agent that was told to destroy itself belongs to an endpoint that still
\* shows as decommissioning, or that is gone: no re-enrollment, prune or poll
\* in between takes the flag back.
KillOnlyWhenAsked ==
  \A e \in told \cap DOMAIN endpoints : endpoints[e].flagged

\* An enrollment that lost races against assignments or deletes still covers
\* every tripwire it was asked for and has passed.
EnrollCoversInstall ==
  \A r \in Requests : At(r, "Enroll", "next") =>
    \A t \in (request[r].want \cap tripwires) \ request[r].todo :
      Instances(t, request[r].ep) # {} \/ request[r].ep \notin DOMAIN endpoints

\* Only the agent's own report takes a deployment out of "failed": the trigger
\* reads the state in one step and writes "planted" in another, and "a failed
\* one stays failed" (routes.py:821) even if the report comes in between.
FailedStaysFailed ==
  [][\A d \in DOMAIN deployments \cap DOMAIN deployments' :
       deployments[d].state = "failed" /\ deployments'[d].state # "failed"
       => \E r \in Requests : At(r, "Report", "set") /\ request[r].dp = d]_vars

\* A stored alert is never silently dropped before its fan-out: either its
\* callback is still running, or its delivery was scheduled, or its deployment
\* was deleted under the callback, or the server died.
UndeliveredOnlyIfRemoved ==
  \A a \in DOMAIN alerts : delivery[a] = "none" =>
    a \in InFlight \/ alerts[a].deployment \notin DOMAIN deployments

\* The registry that the tables amount to: a host is a machine_id, whatever the
\* id of its row.
Hosts == {endpoints[e].machine : e \in DOMAIN endpoints}
Flagged == {endpoints[e].machine :
              e \in {x \in DOMAIN endpoints : endpoints[x].flagged}}
Plant(d) == [tripwire |-> deployments[d].tripwire,
             host     |-> endpoints[deployments[d].endpoint].machine,
             state    |-> deployments[d].state]
Plants == {Plant(d) : d \in DOMAIN deployments}

Inventory == INSTANCE Registry WITH hosts <- Hosts, flagged <- Flagged,
                                    plants <- Plants

\* However the statements of concurrent handlers interleave, what they do to the
\* tables is a sequence of whole operations of the registry.
ImplementsRegistry == Inventory!Spec

\* What makes the safety properties inductive: one holder of the event loop, and
\* what a handler's local variables say of the tables.
LoopExclusive == \A r, s \in Requests : Holding(r) /\ Holding(s) => r = s

Coherent(r) ==
  /\ At(r, "Enroll", "insert") => request[r].machine \in Machines
  /\ At(r, "Trigger", "alert") => request[r].dp \in Deployments \cap issued
                                 /\ request[r].ep \in Endpoints
  /\ request[r].op = "Trigger" /\ request[r].pc # "alert" =>
       /\ request[r].pc \in {"check", "plant", "mark", "schedule", "raised"}
       /\ request[r].al \in DOMAIN alerts
       /\ alerts[request[r].al].deployment = request[r].dp
  /\ At(r, "Trigger", "plant") /\ request[r].dp \in DOMAIN deployments =>
       deployments[request[r].dp].state = "pending"
  /\ At(r, "Trigger", "raised") => request[r].dp \notin DOMAIN deployments

IndInv ==
  /\ TypeOK
  /\ RefIntegrity
  /\ OneInstancePerPair
  /\ EnrollNeverConflicts
  /\ KillOnlyWhenAsked
  /\ UndeliveredOnlyIfRemoved
  /\ LoopExclusive
  /\ \A a \in DOMAIN alerts : alerts[a].deployment \in issued
  /\ \A r \in Requests : Coherent(r)

\* store.py:195-198: the loser of the insert "returns the winner's row instead
\* of surfacing a 500".
LoserFindsRow ==
  \A r \in Requests : ~(At(r, "Assign", "raised") /\ request[r].dp = None)

\* store.py:146: "Non-ephemeral endpoints are never touched" by the prune that
\* GET /endpoints runs: the row it is about to delete is an ephemeral one.
PruneSparesPersistent ==
  \A r \in Requests :
    At(r, "ListEndpoints", "prune") /\ request[r].ep \in DOMAIN endpoints
    => endpoints[request[r].ep].ephemeral
=============================================================================
