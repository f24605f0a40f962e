------------------------ MODULE ControlPlane_proofs ------------------------
(***************************************************************************)
(* The invariant of ControlPlane, for any number of requests, endpoints,   *)
(* tripwires and alerts.  A step is one statement of one handler: first    *)
(* what a step may do to the handlers (Moves, Proceeds), then to the       *)
(* tables (TablesStep, RowsStep), and from both what every handler and     *)
(* every alert may rely on.  After the safety properties: what an          *)
(* enrollment has covered, and the refinement of Registry.                 *)
(***************************************************************************)
EXTENDS ControlPlane, TLAPS

\* A request that has not come is a well-typed handler.
LEMMA IdleHandler == Idle \in Handlers
BY DEF Idle, Handlers, Pcs

\* The handlers that occupy the event loop.
Takes(h) == h.op \in AsyncOps /\ h.pc \notin {"idle", "raised", "body"}

\* The one handler that moves is r, and it enters the loop only if it is in it
\* already or the loop is free.
Moves(r) == \E h \in Handlers : /\ Becomes(r, h)
                                /\ Takes(h) => Holding(r) \/ LoopFree

\* How Moves is shown: name what the handler becomes.
LEMMA Moving ==
  ASSUME NEW r \in Requests, NEW h \in Handlers, Becomes(r, h),
         Takes(h) => Holding(r) \/ LoopFree
  PROVE  Moves(r)
BY DEF Moves

\* The handler goes on with its operation, short of the INSERT of an enrollment
\* and of the row of an alert, or it is over.
Proceeds(r) == \/ request'[r] = Idle
               \/ /\ request'[r].op = request[r].op
                  /\ request'[r].pc \notin {"insert", "alert"}

\* A step within an operation moves the handler and lets it proceed.
LEMMA Proceeding ==
  ASSUME TypeOK, NEW r \in Requests, NEW h \in Handlers, Becomes(r, h),
         h.op = request[r].op, h.pc \notin {"insert", "alert"},
         h.op \in AsyncOps /\ h.pc # "raised" => Holding(r) \/ LoopFree
  PROVE  Moves(r) /\ Proceeds(r)
<1>1. request'[r] = h BY DEF TypeOK, Becomes
<1>. QED BY <1>1, Moving DEF Proceeds, Takes

\* ... in particular a change of the program counter alone.
LEMMA GotoMoves ==
  ASSUME TypeOK, NEW r \in Requests, NEW pc \in Pcs \ {"insert", "alert"},
         Goto(r, pc), request[r].op \in AsyncOps => Holding(r) \/ LoopFree
  PROVE  Moves(r) /\ Proceeds(r)
<1>. DEFINE h == [request[r] EXCEPT !.pc = pc]
<1>1. h \in Handlers /\ h.op = request[r].op /\ h.pc = pc
  BY DEF TypeOK, Handlers
<1>2. Becomes(r, h) BY DEF Goto
<1>. HIDE DEF h
<1>. QED BY <1>1, <1>2, Proceeding

\* ... an exception,
LEMMA RaiseMoves ==
  ASSUME TypeOK, NEW r \in Requests, Raise(r)
  PROVE  Moves(r) /\ Proceeds(r)
<1>. DEFINE h == [request[r] EXCEPT !.pc = "raised"]
<1>1. h \in Handlers /\ h.op = request[r].op /\ h.pc = "raised"
  BY DEF TypeOK, Handlers, Pcs
<1>2. Becomes(r, h) BY DEF Raise, Goto
<1>. HIDE DEF h
<1>. QED BY <1>1, <1>2, Proceeding

\* ... the end of the handler,
LEMMA ReturnMoves ==
  ASSUME TypeOK, NEW r \in Requests, Return(r)
  PROVE  Moves(r) /\ Proceeds(r)
<1>1. request'[r] = Idle BY DEF TypeOK, Return, Becomes
<1>. QED BY <1>1, IdleHandler, Moving DEF Return, Takes, Idle, Proceeds

\* (the next turn of a loop over tripwires or endpoints is well typed)
LEMMA NextTyped ==
  ASSUME NEW h \in Handlers, NEW expired \in BOOLEAN
  PROVE  [h EXCEPT !.pc = "next", !.tw = None, !.dp = None,
                   !.todo = @ \ {h.tw}, !.expired = @ \/ expired] \in Handlers
<1>1. (h.expired \/ expired) \in BOOLEAN OBVIOUS
<1>2. h.todo \ {h.tw} \in SUBSET (Tripwires \cup Endpoints) BY DEF Handlers
<1>3. "next" \in Pcs BY DEF Pcs
<1>. QED BY <1>1, <1>2, <1>3 DEF Handlers

\* ... and the end of materialize().
LEMMA MaterializedMoves ==
  ASSUME TypeOK, NEW r \in Requests, NEW expired \in BOOLEAN,
         Materialized(r, expired), request[r].op = "Enroll" => Holding(r)
  PROVE  Moves(r) /\ Proceeds(r)
<1>1. CASE Return(r) BY <1>1, ReturnMoves
<1>2. CASE request[r].op = "Enroll" /\ ~Return(r)
  <2>. DEFINE h == [request[r] EXCEPT !.pc = "next", !.tw = None, !.dp = None,
                                      !.todo = @ \ {request[r].tw},
                                      !.expired = @ \/ expired]
  <2>1. request[r] \in Handlers BY DEF TypeOK
  <2>2. h \in Handlers BY <2>1, NextTyped
  <2>3. h.op = request[r].op /\ h.pc = "next" BY <2>1 DEF Handlers
  <2>4. Becomes(r, h) BY <1>2 DEF Materialized
  <2>5. Holding(r) BY <1>2
  <2>. HIDE DEF h
  <2>. QED BY <2>2, <2>3, <2>4, <2>5, Proceeding
<1>. QED BY <1>1, <1>2 DEF Materialized

\* The first state of every operation is well typed.
LEMMA StartTyped ==
  ASSUME NEW op \in AllOps, NEW pc \in Pcs
  PROVE  Start(op, pc) \in Handlers /\ Start(op, pc).op = op /\ Start(op, pc).pc = pc
BY DEF Start, Idle, Handlers, Pcs

\* A request that comes in reads tables and changes none.
LEMMA BeginMoves ==
  ASSUME TypeOK, NEW r \in Requests, Begin(r)
  PROVE  Moves(r) /\ Reads
<1>1. ASSUME NEW t \in Tripwires, DeleteTripwire(r, t)
      PROVE  Moves(r) /\ Reads
  <2>1. [Start("DeleteTripwire", "delete") EXCEPT !.tw = t] \in Handlers
    BY DEF Start, Idle, Handlers, AllOps, Pcs
  <2>. QED BY <1>1, <2>1, Moving DEF DeleteTripwire, Takes, Start, Idle, AsyncOps
<1>0. ASSUME NEW t \in Tripwires, UpdateTripwire(r, t)
      PROVE  Moves(r) /\ Reads
  <2>1. [Start("UpdateTripwire", "rename") EXCEPT !.tw = t] \in Handlers
    BY DEF Start, Idle, Handlers, AllOps, Pcs
  <2>. QED BY <1>0, <2>1, Moving DEF UpdateTripwire, Takes, Start, Idle, AsyncOps
<1>2. ASSUME NEW e \in Endpoints, NEW t \in Tripwires, Assign(r, e, t)
      PROVE  Moves(r) /\ Reads
  <2>1. [Start("Assign", "tripwire") EXCEPT !.ep = e, !.tw = t] \in Handlers
    BY DEF Start, Idle, Handlers, AllOps, Pcs
  <2>. QED BY <1>2, <2>1, Moving DEF Assign, Takes, Start, Idle, AsyncOps
<1>3. ASSUME NEW e \in Endpoints, NEW t \in Tripwires, Unassign(r, e, t)
      PROVE  Moves(r) /\ Reads
  <2>1. [Start("Unassign", "list") EXCEPT !.ep = e, !.tw = t] \in Handlers
    BY DEF Start, Idle, Handlers, AllOps, Pcs
  <2>. QED BY <1>3, <2>1, Moving DEF Unassign, Takes, Start, Idle, AsyncOps
<1>4. ASSUME NEW e \in Endpoints, Decommission(r, e)
      PROVE  Moves(r) /\ Reads
  <2>1. [Start("Decommission", "flag") EXCEPT !.ep = e] \in Handlers
    BY DEF Start, Idle, Handlers, AllOps, Pcs
  <2>. QED BY <1>4, <2>1, Moving DEF Decommission, Takes, Start, Idle, AsyncOps
<1>5. ASSUME NEW a \in Alerts, ResolveAlert(r, a)
      PROVE  Moves(r) /\ Reads
  <2>1. [Start("Resolve", "resolve") EXCEPT !.al = a] \in Handlers
    BY DEF Start, Idle, Handlers, AllOps, Pcs
  <2>. QED BY <1>5, <2>1, Moving DEF ResolveAlert, Takes, Start, Idle, AsyncOps
<1>6. CASE ListEndpoints(r)
  <2>. DEFINE candidates == {e \in DOMAIN endpoints : endpoints[e].ephemeral}
              stale == {e \in candidates : endpoints[e].seen = "old"}
  <2>1. candidates \subseteq Endpoints /\ stale \subseteq Endpoints
    BY DEF TypeOK, TablesTyped
  <2>2. [Start("ListEndpoints", "sweep") EXCEPT !.todo = candidates,
                                                !.stale = stale] \in Handlers
    BY <2>1 DEF Start, Idle, Handlers, AllOps, Pcs
  <2>. QED BY <1>6, <2>2, Moving DEF ListEndpoints, Takes, Start, Idle, AsyncOps
<1>7. ASSUME NEW m \in Machines, NEW token \in Endpoints \cup {None},
             NEW x \in Lifetimes, NEW ids \in SUBSET Tripwires,
             EnrollFind(r, m, token, x, ids)
      PROVE  Moves(r) /\ Reads
  <2>. DEFINE h == [Start("Enroll", "insert") EXCEPT
                       !.machine = m, !.ephemeral = x, !.todo = ids,
                       !.want = ids \cap tripwires]
  <2>1. x \in BOOLEAN BY OpsAssumption
  <2>2. h \in Handlers
    <3>1. Start("Enroll", "insert") \in Handlers BY StartTyped DEF AllOps, Pcs
    <3>. QED BY <2>1, <3>1 DEF Handlers
  <2>3. [h EXCEPT !.pc = "update", !.ep = token] \in Handlers
    <3>. HIDE DEF h
    <3>1. "update" \in Pcs BY DEF Pcs
    <3>. QED BY <2>2, <3>1 DEF Handlers
  <2>4. LoopFree BY <1>7 DEF EnrollFind, CanStart, AsyncOps
  <2>. QED BY <1>7, <2>2, <2>3, <2>4, Moving DEF EnrollFind
<1>8. ASSUME NEW op \in Ops, NEW e \in Endpoints, Remove(r, op, e)
      PROVE  Moves(r) /\ Reads
  <2>1. [Start(op, "delete") EXCEPT !.ep = e] \in Handlers
    BY OpsAssumption DEF Start, Idle, Handlers, Pcs
  <2>. QED BY <1>8, <2>1, Moving DEF Remove, Takes, Start, Idle, AsyncOps
<1>9. ASSUME NEW op \in Ops, NEW e \in Endpoints, Poll(r, op, e)
      PROVE  Moves(r) /\ Reads
  <2>1. [Start(op, "touch") EXCEPT !.ep = e] \in Handlers
    BY OpsAssumption DEF Start, Idle, Handlers, Pcs
  <2>. QED BY <1>9, <2>1, Moving DEF Poll, Takes, Start, Idle, AsyncOps
<1>10. ASSUME NEW e \in Endpoints, NEW d \in Deployments,
              NEW s \in {"planted", "failed"}, Report(r, e, d, s)
       PROVE  Moves(r) /\ Reads
  <2>1. [Start("Report", "body") EXCEPT !.ep = e, !.dp = d, !.state = s]
          \in Handlers
    BY DEF Start, Idle, Handlers, AllOps, Pcs
  <2>. QED BY <1>10, <2>1, Moving DEF Report, Takes, Start, Idle, AsyncOps
<1>11. ASSUME NEW d \in Deployments, Trigger(r, d)
       PROVE  Moves(r) /\ Reads
  <2>1. deployments[d].endpoint \in Endpoints
    BY <1>11 DEF Trigger, TypeOK, TablesTyped, DeploymentRows
  <2>2. [Start("Trigger", "alert") EXCEPT !.dp = d,
                                          !.ep = deployments[d].endpoint]
          \in Handlers
    BY <2>1 DEF Start, Idle, Handlers, AllOps, Pcs
  <2>3. LoopFree BY <1>11 DEF Trigger, CanStart, AsyncOps
  <2>. QED BY <1>11, <2>2, <2>3, Moving DEF Trigger
<1>. QED BY <1>0, <1>1, <1>2, <1>3, <1>4, <1>5, <1>6, <1>7, <1>8, <1>9, <1>10,
            <1>11 DEF Begin

\* An async handler that is past its body occupies the loop.
LEMMA HoldingAt ==
  ASSUME NEW r \in Requests, request[r].op \in AsyncOps,
         request[r].pc \notin {"idle", "raised", "body"}
  PROVE  Holding(r)
BY DEF Holding

\* A SELECT moves its handler and changes no table.
LEMMA SelectMoves ==
  ASSUME TypeOK, NEW r \in Requests, Select(r)
  PROVE  Moves(r) /\ Proceeds(r) /\ Reads
<1>0. CASE RenameTripwire(r) \/ RereadTripwire(r)
  BY <1>0, GotoMoves, ReturnMoves, RaiseMoves
     DEF RenameTripwire, RereadTripwire, At, Pcs, AsyncOps
<1>1. CASE AssignTripwire(r)
  BY <1>1, GotoMoves, ReturnMoves DEF AssignTripwire, At, Pcs, AsyncOps
<1>2. CASE UnassignFind(r)
  <2>0. request[r] \in Handlers BY DEF TypeOK
  <2>1. CASE Return(r) BY <1>2, <2>1, ReturnMoves DEF UnassignFind
  <2>2. ASSUME NEW d \in Instances(request[r].tw, request[r].ep),
               Becomes(r, [request[r] EXCEPT !.pc = "delete", !.dp = d])
        PROVE  Moves(r) /\ Proceeds(r)
    <3>. DEFINE h == [request[r] EXCEPT !.pc = "delete", !.dp = d]
    <3>1. d \in Deployments BY DEF Instances, TypeOK, TablesTyped
    <3>2. h \in Handlers /\ h.op = request[r].op /\ h.pc = "delete"
      <4>1. h \in Handlers
        <5>1. "delete" \in Pcs BY DEF Pcs
        <5>. QED BY <2>0, <3>1, <5>1 DEF Handlers
      <4>2. h.op = request[r].op /\ h.pc = "delete" BY <2>0 DEF Handlers
      <4>. QED BY <4>1, <4>2
    <3>3. h.op \notin AsyncOps
      BY <1>2, <3>2 DEF UnassignFind, At, AsyncOps
    <3>. HIDE DEF h
    <3>4. Becomes(r, h) BY <2>2 DEF h
    <3>. QED BY <3>2, <3>3, <3>4, Proceeding
  <2>. QED BY <1>2, <2>1, <2>2 DEF UnassignFind
<1>3. CASE LookupDeployment(r)
  <2>1. request[r].op = "Enroll" => Holding(r)
    BY <1>3, HoldingAt DEF LookupDeployment, Materializing, AsyncOps
  <2>2. request[r].op \in AsyncOps => Holding(r)
    BY <1>3, <2>1 DEF LookupDeployment, Materializing, AsyncOps
  <2>. QED BY <1>3, <2>1, <2>2, MaterializedMoves, GotoMoves
           DEF LookupDeployment, Pcs
<1>4. CASE LoseInsert(r)
  <2>1. request[r].op \in AsyncOps => Holding(r)
    BY <1>4, HoldingAt DEF LoseInsert, Materializing
  <2>. QED BY <1>4, <2>1, GotoMoves DEF LoseInsert, Pcs
<1>5. CASE RefreshDeployment(r)
  <2>1. request[r].op = "Enroll" => Holding(r)
    BY <1>5, HoldingAt DEF RefreshDeployment, Materializing, AsyncOps
  <2>. QED BY <1>5, <2>1, MaterializedMoves, RaiseMoves DEF RefreshDeployment
<1>6. CASE RelookupDeployment(r)
  <2>1. request[r].op = "Enroll" => Holding(r)
    BY <1>6, HoldingAt DEF RelookupDeployment, Materializing, AsyncOps
  <2>. QED BY <1>6, <2>1, MaterializedMoves, RaiseMoves DEF RelookupDeployment
<1>7. CASE EnrollReload(r)
  BY <1>7, HoldingAt, GotoMoves, RaiseMoves DEF EnrollReload, At, Pcs, AsyncOps
<1>8. CASE EnrollNext(r)
  <2>0. request[r] \in Handlers BY DEF TypeOK
  <2>1. Holding(r) /\ Reads BY <1>8, HoldingAt DEF EnrollNext, At, AsyncOps
  <2>2. PICK t \in request[r].todo :
          \/ Becomes(r, [request[r] EXCEPT !.todo = @ \ {t}])
          \/ /\ t \in tripwires
             /\ Becomes(r, [request[r] EXCEPT !.pc = "endpoint", !.tw = t])
    BY <1>8 DEF EnrollNext
  <2>3. CASE Becomes(r, [request[r] EXCEPT !.todo = @ \ {t}])
    <3>. DEFINE h == [request[r] EXCEPT !.todo = @ \ {t}]
    <3>1. h \in Handlers /\ h.op = request[r].op /\ h.pc = request[r].pc
      <4>1. h \in Handlers BY <2>0 DEF Handlers
      <4>2. h.op = request[r].op /\ h.pc = request[r].pc BY <2>0 DEF Handlers
      <4>. QED BY <4>1, <4>2
    <3>2. h.pc = "next" BY <1>8, <3>1 DEF EnrollNext, At
    <3>. HIDE DEF h
    <3>3. Becomes(r, h) BY <2>3 DEF h
    <3>. QED BY <2>1, <3>1, <3>2, <3>3, Proceeding
  <2>4. CASE /\ t \in tripwires
             /\ Becomes(r, [request[r] EXCEPT !.pc = "endpoint", !.tw = t])
    <3>. DEFINE h == [request[r] EXCEPT !.pc = "endpoint", !.tw = t]
    <3>1. t \in Tripwires BY <2>4 DEF TypeOK, TablesTyped
    <3>2. h \in Handlers /\ h.op = request[r].op /\ h.pc = "endpoint"
      <4>1. h \in Handlers
        <5>1. "endpoint" \in Pcs BY DEF Pcs
        <5>. QED BY <2>0, <3>1, <5>1 DEF Handlers
      <4>2. h.op = request[r].op /\ h.pc = "endpoint" BY <2>0, <3>1 DEF Handlers
      <4>. QED BY <4>1, <4>2
    <3>. HIDE DEF h
    <3>3. Becomes(r, h) BY <2>4 DEF h
    <3>. QED BY <2>1, <3>2, <3>3, Proceeding
  <2>. QED BY <2>2, <2>3, <2>4
<1>9. CASE EnrollEndpoint(r)
  <2>0. request[r] \in Handlers BY DEF TypeOK
  <2>1. Holding(r) BY <1>9, HoldingAt DEF EnrollEndpoint, At, AsyncOps
  <2>2. CASE Raise(r) BY <1>9, <2>2, RaiseMoves DEF EnrollEndpoint
  <2>3. CASE Becomes(r, [request[r] EXCEPT !.pc = "lookup", !.expired = FALSE])
    <3>. DEFINE h == [request[r] EXCEPT !.pc = "lookup", !.expired = FALSE]
    <3>1. h \in Handlers /\ h.op = request[r].op /\ h.pc = "lookup"
      <4>1. h \in Handlers
        <5>1. "lookup" \in Pcs BY DEF Pcs
        <5>. QED BY <2>0, <5>1 DEF Handlers
      <4>2. h.op = request[r].op /\ h.pc = "lookup" BY <2>0 DEF Handlers
      <4>. QED BY <4>1, <4>2
    <3>. HIDE DEF h
    <3>2. Becomes(r, h) BY <2>3 DEF h
    <3>3. Reads BY <1>9 DEF EnrollEndpoint
    <3>. QED BY <2>1, <3>1, <3>2, <3>3, Proceeding
  <2>. QED BY <1>9, <2>2, <2>3 DEF EnrollEndpoint
<1>10. CASE EnrollAnswer(r)
  BY <1>10, ReturnMoves, RaiseMoves DEF EnrollAnswer
<1>11. CASE Sweep(r)
  <2>0. request[r] \in Handlers BY DEF TypeOK
  <2>1. request[r].op \notin AsyncOps BY <1>11 DEF Sweep, At, AsyncOps
  <2>2. CASE Return(r) \/ Raise(r)
    BY <1>11, <2>2, ReturnMoves, RaiseMoves DEF Sweep
  <2>3. ASSUME NEW e \in request[r].todo,
               Becomes(r, [request[r] EXCEPT !.todo = @ \ {e}])
        PROVE  Moves(r) /\ Proceeds(r)
    <3>. DEFINE h == [request[r] EXCEPT !.todo = @ \ {e}]
    <3>1. h \in Handlers /\ h.op = request[r].op /\ h.pc = request[r].pc
      <4>1. h \in Handlers BY <2>0 DEF Handlers
      <4>2. h.op = request[r].op /\ h.pc = request[r].pc BY <2>0 DEF Handlers
      <4>. QED BY <4>1, <4>2
    <3>2. h.pc = "sweep" BY <1>11, <3>1 DEF Sweep, At
    <3>. HIDE DEF h
    <3>3. Becomes(r, h) BY <2>3 DEF h
    <3>. QED BY <2>1, <3>1, <3>2, <3>3, Proceeding
  <2>4. ASSUME NEW e \in Endpoints,
               Becomes(r, [request[r] EXCEPT !.pc = "prune", !.ep = e,
                                             !.todo = @ \ {e}])
        PROVE  Moves(r) /\ Proceeds(r)
    <3>. DEFINE h == [request[r] EXCEPT !.pc = "prune", !.ep = e,
                                        !.todo = @ \ {e}]
    <3>1. h \in Handlers /\ h.op = request[r].op /\ h.pc = "prune"
      <4>1. h \in Handlers
        <5>1. "prune" \in Pcs BY DEF Pcs
        <5>. QED BY <2>0, <5>1 DEF Handlers
      <4>2. h.op = request[r].op /\ h.pc = "prune" BY <2>0 DEF Handlers
      <4>. QED BY <4>1, <4>2
    <3>. HIDE DEF h
    <3>2. Becomes(r, h) BY <2>4 DEF h
    <3>. QED BY <2>1, <3>1, <3>2, Proceeding
  <2>5. request[r].stale \cup DOMAIN endpoints \subseteq Endpoints
    BY DEF TypeOK, TablesTyped, Handlers
  <2>6. Reads BY <1>11 DEF Sweep
  <2>. QED BY <1>11, <2>2, <2>3, <2>4, <2>5, <2>6 DEF Sweep
<1>12. CASE ReportFind(r)
  BY <1>12, GotoMoves, ReturnMoves DEF ReportFind, Pcs
<1>13. CASE TriggerCheck(r)
  BY <1>13, HoldingAt, GotoMoves, RaiseMoves DEF TriggerCheck, At, Pcs, AsyncOps
<1>14. CASE TriggerMark(r)
  BY <1>14, HoldingAt, GotoMoves, RaiseMoves DEF TriggerMark, At, Pcs, AsyncOps
<1>15. CASE ErrorResponse(r)
  BY <1>15, ReturnMoves DEF ErrorResponse
<1>. QED BY <1>1, <1>2, <1>3, <1>4, <1>5, <1>6, <1>7, <1>8, <1>9, <1>10,
            <1>11, <1>12, <1>13, <1>14, <1>15, <1>0 DEF Select

\* An INSERT, UPDATE or DELETE moves its handler and no other.
LEMMA WriteMoves ==
  ASSUME TypeOK, NEW r \in Requests, Write(r)
  PROVE  Moves(r) /\ Proceeds(r)
<1>0. request[r] \in Handlers BY DEF TypeOK
<1>1. CASE DeleteTripwireRows(r) BY <1>1, ReturnMoves DEF DeleteTripwireRows
<1>2. CASE UnassignDelete(r) BY <1>2, ReturnMoves DEF UnassignDelete
<1>3. CASE InsertDeployment(r)
  <2>1. request[r].op \in AsyncOps => Holding(r)
    BY <1>3, HoldingAt DEF InsertDeployment, Materializing
  <2>2. PICK d \in Deployments :
          Becomes(r, [request[r] EXCEPT !.pc = "refresh", !.dp = d])
    BY <1>3 DEF InsertDeployment
  <2>. DEFINE h == [request[r] EXCEPT !.pc = "refresh", !.dp = d]
  <2>3. h \in Handlers
    <3>1. "refresh" \in Pcs BY DEF Pcs
    <3>. QED BY <1>0, <3>1 DEF Handlers
  <2>4. h.op = request[r].op /\ h.pc = "refresh" BY <1>0 DEF Handlers
  <2>5. Becomes(r, h) BY <2>2
  <2>. HIDE DEF h
  <2>. QED BY <2>1, <2>3, <2>4, <2>5, Proceeding
<1>4. CASE EnrollInsert(r)
  <2>1. Holding(r) BY <1>4, HoldingAt DEF EnrollInsert, At, AsyncOps
  <2>2. CASE Raise(r) BY <2>2, RaiseMoves
  <2>3. ASSUME NEW e \in Endpoints,
               Becomes(r, [request[r] EXCEPT !.pc = "reload", !.ep = e])
        PROVE  Moves(r) /\ Proceeds(r)
    <3>. DEFINE h == [request[r] EXCEPT !.pc = "reload", !.ep = e]
    <3>1. h \in Handlers
      <4>1. "reload" \in Pcs BY DEF Pcs
      <4>. QED BY <1>0, <4>1 DEF Handlers
    <3>2. h.op = request[r].op /\ h.pc = "reload" BY <1>0 DEF Handlers
    <3>3. Becomes(r, h) BY <2>3
    <3>. HIDE DEF h
    <3>. QED BY <2>1, <3>1, <3>2, <3>3, Proceeding
  <2>. QED BY <1>4, <2>2, <2>3 DEF EnrollInsert
<1>5. CASE EnrollUpdate(r)
  BY <1>5, HoldingAt, GotoMoves, RaiseMoves DEF EnrollUpdate, At, Pcs, AsyncOps
<1>6. CASE DecommissionFlag(r)
  BY <1>6, ReturnMoves, RaiseMoves DEF DecommissionFlag
<1>7. CASE RemoveRows(r) BY <1>7, ReturnMoves DEF RemoveRows
<1>8. CASE Touch(r)
  <2>1. request[r].op \in AsyncOps => Holding(r)
    BY <1>8, HoldingAt DEF Touch
  <2>. QED BY <1>8, <2>1, GotoMoves DEF Touch, Pcs
<1>9. CASE PollAnswer(r) BY <1>9, ReturnMoves, RaiseMoves DEF PollAnswer
<1>10. CASE Prune(r)
  <2>. DEFINE x == request[r].expired \/ request[r].ep \in DOMAIN endpoints
              h == [request[r] EXCEPT !.pc = "sweep", !.ep = None, !.expired = x]
  <2>1. x \in BOOLEAN OBVIOUS
  <2>2. Becomes(r, h) BY <1>10 DEF Prune
  <2>3. request[r].op \notin AsyncOps BY <1>10 DEF Prune, At, AsyncOps
  <2>. HIDE DEF x
  <2>4. h \in Handlers
    <3>1. "sweep" \in Pcs BY DEF Pcs
    <3>. QED BY <1>0, <2>1, <3>1 DEF Handlers
  <2>5. h.op = request[r].op /\ h.pc = "sweep" BY <1>0 DEF Handlers
  <2>. HIDE DEF h
  <2>. QED BY <2>2, <2>3, <2>4, <2>5, Proceeding
<1>11. CASE ReportSet(r) BY <1>11, ReturnMoves DEF ReportSet
<1>12. CASE TriggerAlert(r)
  <2>1. Holding(r) BY <1>12, HoldingAt DEF TriggerAlert, CreateAlert, At, AsyncOps
  <2>2. PICK a \in Alerts :
          Becomes(r, [request[r] EXCEPT !.pc = "check", !.al = a])
    BY <1>12 DEF TriggerAlert, CreateAlert
  <2>. DEFINE h == [request[r] EXCEPT !.pc = "check", !.al = a]
  <2>3. h \in Handlers
    <3>1. "check" \in Pcs BY DEF Pcs
    <3>. QED BY <1>0, <3>1 DEF Handlers
  <2>4. h.op = request[r].op /\ h.pc = "check" BY <1>0 DEF Handlers
  <2>5. Becomes(r, h) BY <2>2
  <2>. HIDE DEF h
  <2>. QED BY <2>1, <2>3, <2>4, <2>5, Proceeding
<1>13. CASE TriggerPlant(r)
  BY <1>13, HoldingAt, GotoMoves DEF TriggerPlant, At, Pcs, AsyncOps
<1>14. CASE TriggerSchedule(r)
  BY <1>14, ReturnMoves, RaiseMoves DEF TriggerSchedule
<1>15. CASE ResolveSet(r) BY <1>15, ReturnMoves DEF ResolveSet
<1>. QED BY <1>1, <1>2, <1>3, <1>4, <1>5, <1>6, <1>7, <1>8, <1>9, <1>10,
            <1>11, <1>12, <1>13, <1>14, <1>15 DEF Write

\* What no step does to the tables: they keep their types and constraints, an id
\* is never drawn twice, and an alert and its deployment's id stay.
KeepsIds ==
  /\ issued \subseteq issued'
  /\ (DOMAIN deployments' \ DOMAIN deployments) \cap issued = {}
  /\ \A a \in DOMAIN alerts : /\ a \in DOMAIN alerts'
                              /\ alerts'[a].deployment = alerts[a].deployment

\* After the step the tables are typed and consistent, and what an alert says
\* of its deployment has not changed.
TablesStep ==
  /\ TablesTyped'
  /\ RefIntegrity'
  /\ OneInstancePerPair'
  /\ KeepsIds

\* Reading keeps the typing and the keys of the tables.
LEMMA ReadsTables ==
  ASSUME TypeOK, RefIntegrity, OneInstancePerPair, Reads
  PROVE  TablesStep
BY DEF TablesStep, KeepsIds, Reads, tables, TypeOK, TablesTyped, RefIntegrity,
       OneInstancePerPair

\* Every write keeps the tables typed, no deployment without its tripwire and
\* its endpoint, and one instance per pair.
LEMMA WriteTables ==
  ASSUME IndInv, NEW r \in Requests, Write(r)
  PROVE  TablesStep
<1>. USE DEF IndInv, TypeOK, TablesTyped, Without
<1>1. CASE DeleteTripwireRows(r)
  <2>1. TablesTyped' BY <1>1 DEF DeleteTripwireRows
  <2>2. RefIntegrity' BY <1>1 DEF DeleteTripwireRows, RefIntegrity
  <2>3. OneInstancePerPair' BY <1>1 DEF DeleteTripwireRows, OneInstancePerPair
  <2>4. KeepsIds BY <1>1 DEF DeleteTripwireRows, KeepsIds
  <2>. QED BY <2>1, <2>2, <2>3, <2>4 DEF TablesStep
<1>2. CASE UnassignDelete(r)
  <2>1. TablesTyped' BY <1>2 DEF UnassignDelete
  <2>2. RefIntegrity' BY <1>2 DEF UnassignDelete, RefIntegrity
  <2>3. OneInstancePerPair' BY <1>2 DEF UnassignDelete, OneInstancePerPair
  <2>4. KeepsIds BY <1>2 DEF UnassignDelete, KeepsIds
  <2>. QED BY <2>1, <2>2, <2>3, <2>4 DEF TablesStep
<1>3. CASE InsertDeployment(r)
  <2>1. TablesTyped' BY <1>3 DEF InsertDeployment, Insert, Insertable, Linked, DeploymentRows
  <2>2. RefIntegrity' BY <1>3 DEF InsertDeployment, RefIntegrity, Insert, Insertable, Linked, Instances
  <2>3. OneInstancePerPair' BY <1>3 DEF InsertDeployment, OneInstancePerPair, Insert, Insertable, Linked, Instances
  <2>4. KeepsIds BY <1>3 DEF InsertDeployment, KeepsIds, Insert, Insertable, Linked, Instances
  <2>. QED BY <2>1, <2>2, <2>3, <2>4 DEF TablesStep
<1>4. CASE EnrollInsert(r)
  <2>0. request[r] \in Handlers OBVIOUS
  <2>1. request[r].machine \in Machines BY <1>4 DEF EnrollInsert, Coherent, At
  <2>2. request[r].ephemeral \in BOOLEAN BY <2>0 DEF Handlers
  <2>3. CASE Raise(r) /\ UNCHANGED <<endpoints, issued>>
    BY <1>4, <2>3, ReadsTables DEF EnrollInsert, Reads, tables
  <2>. HIDE DEF IndInv, TypeOK
  <2>4. ASSUME NEW e \in Endpoints \ issued, NEW row \in EndpointRows,
               endpoints' = Insert(endpoints, e, row),
               issued' = issued \cup {e}
        PROVE  TablesStep
    <3>0. /\ UNCHANGED <<tripwires, deployments, alerts, told, delivery>>
          /\ TablesTyped /\ RefIntegrity /\ OneInstancePerPair
      BY <1>4 DEF EnrollInsert, IndInv, TypeOK
    <3>1. TablesTyped'
      <4>1. /\ DOMAIN endpoints' \subseteq Endpoints \cap issued'
            /\ endpoints' \in [DOMAIN endpoints' -> EndpointRows]
        BY <2>4, <3>0 DEF Insert
      <4>. QED BY <2>4, <3>0, <4>1
    <3>2. RefIntegrity' BY <2>4, <3>0 DEF Insert, RefIntegrity
    <3>3. OneInstancePerPair' BY <3>0 DEF OneInstancePerPair
    <3>4. KeepsIds BY <2>4, <3>0 DEF KeepsIds
    <3>. QED BY <3>1, <3>2, <3>3, <3>4 DEF TablesStep
  <2>5. [machine |-> request[r].machine, flagged |-> FALSE,
         ephemeral |-> request[r].ephemeral, seen |-> "recent"]
          \in EndpointRows
    BY <2>1, <2>2 DEF EndpointRows
  <2>6. CASE \E e \in Endpoints \ issued :
               /\ endpoints' = Insert(endpoints, e,
                                      [machine |-> request[r].machine,
                                       flagged |-> FALSE,
                                       ephemeral |-> request[r].ephemeral,
                                       seen |-> "recent"])
               /\ issued' = issued \cup {e}
    BY <2>4, <2>5, <2>6
  <2>. QED BY <1>4, <2>3, <2>6 DEF EnrollInsert
<1>5. CASE EnrollUpdate(r)
  <2>1. TablesTyped' BY <1>5 DEF EnrollUpdate, EndpointRows, Handlers
  <2>2. RefIntegrity' BY <1>5 DEF EnrollUpdate, RefIntegrity
  <2>3. OneInstancePerPair' BY <1>5 DEF EnrollUpdate, OneInstancePerPair
  <2>4. KeepsIds BY <1>5 DEF EnrollUpdate, KeepsIds
  <2>. QED BY <2>1, <2>2, <2>3, <2>4 DEF TablesStep
<1>6. CASE DecommissionFlag(r)
  <2>1. TablesTyped'
    <3>1. \A e \in DOMAIN endpoints :
            [endpoints[e] EXCEPT !.flagged = TRUE] \in EndpointRows
      BY DEF EndpointRows
    <3>. QED BY <1>6, <3>1 DEF DecommissionFlag
  <2>2. RefIntegrity' BY <1>6 DEF DecommissionFlag, RefIntegrity
  <2>3. OneInstancePerPair' BY <1>6 DEF DecommissionFlag, OneInstancePerPair
  <2>4. KeepsIds BY <1>6 DEF DecommissionFlag, KeepsIds
  <2>. QED BY <2>1, <2>2, <2>3, <2>4 DEF TablesStep
<1>7. CASE RemoveRows(r)
  <2>1. TablesTyped' BY <1>7 DEF RemoveRows, DeleteEndpoint
  <2>2. RefIntegrity' BY <1>7 DEF RemoveRows, RefIntegrity, DeleteEndpoint
  <2>3. OneInstancePerPair' BY <1>7 DEF RemoveRows, OneInstancePerPair, DeleteEndpoint
  <2>4. KeepsIds BY <1>7 DEF RemoveRows, KeepsIds, DeleteEndpoint
  <2>. QED BY <2>1, <2>2, <2>3, <2>4 DEF TablesStep
<1>8. CASE Touch(r)
  <2>1. TablesTyped' BY <1>8 DEF Touch, EndpointRows
  <2>2. RefIntegrity' BY <1>8 DEF Touch, RefIntegrity
  <2>3. OneInstancePerPair' BY <1>8 DEF Touch, OneInstancePerPair
  <2>4. KeepsIds BY <1>8 DEF Touch, KeepsIds
  <2>. QED BY <2>1, <2>2, <2>3, <2>4 DEF TablesStep
<1>9. CASE PollAnswer(r)
  <2>1. TablesTyped' BY <1>9 DEF PollAnswer, tables
  <2>2. RefIntegrity' BY <1>9 DEF PollAnswer, RefIntegrity, tables
  <2>3. OneInstancePerPair' BY <1>9 DEF PollAnswer, OneInstancePerPair, tables
  <2>4. KeepsIds BY <1>9 DEF PollAnswer, KeepsIds, tables
  <2>. QED BY <2>1, <2>2, <2>3, <2>4 DEF TablesStep
<1>10. CASE Prune(r)
  <2>1. TablesTyped' BY <1>10 DEF Prune, DeleteEndpoint
  <2>2. RefIntegrity' BY <1>10 DEF Prune, RefIntegrity, DeleteEndpoint
  <2>3. OneInstancePerPair' BY <1>10 DEF Prune, OneInstancePerPair, DeleteEndpoint
  <2>4. KeepsIds BY <1>10 DEF Prune, KeepsIds, DeleteEndpoint
  <2>. QED BY <2>1, <2>2, <2>3, <2>4 DEF TablesStep
<1>11. CASE ReportSet(r)
  <2>1. TablesTyped' BY <1>11 DEF ReportSet, SetState, DeploymentRows, Handlers
  <2>2. RefIntegrity' BY <1>11 DEF ReportSet, RefIntegrity, SetState
  <2>3. OneInstancePerPair' BY <1>11 DEF ReportSet, OneInstancePerPair, SetState
  <2>4. KeepsIds BY <1>11 DEF ReportSet, KeepsIds, SetState
  <2>. QED BY <2>1, <2>2, <2>3, <2>4 DEF TablesStep
<1>12. CASE TriggerAlert(r)
  <2>1. request[r].dp \in Deployments \cap issued /\ request[r].ep \in Endpoints
    BY <1>12 DEF TriggerAlert, CreateAlert, Coherent
  <2>2. TablesTyped' BY <1>12, <2>1 DEF TriggerAlert, CreateAlert, Insert, AlertRows
  <2>3. RefIntegrity' BY <1>12 DEF TriggerAlert, CreateAlert, RefIntegrity
  <2>4. OneInstancePerPair' BY <1>12 DEF TriggerAlert, CreateAlert, OneInstancePerPair
  <2>5. KeepsIds BY <1>12 DEF TriggerAlert, CreateAlert, Insert, KeepsIds
  <2>. QED BY <2>2, <2>3, <2>4, <2>5 DEF TablesStep
<1>13. CASE TriggerPlant(r)
  <2>1. TablesTyped' BY <1>13 DEF TriggerPlant, SetState, DeploymentRows
  <2>2. RefIntegrity' BY <1>13 DEF TriggerPlant, RefIntegrity, SetState
  <2>3. OneInstancePerPair' BY <1>13 DEF TriggerPlant, OneInstancePerPair, SetState
  <2>4. KeepsIds BY <1>13 DEF TriggerPlant, KeepsIds, SetState
  <2>. QED BY <2>1, <2>2, <2>3, <2>4 DEF TablesStep
<1>14. CASE TriggerSchedule(r)
  <2>1. TablesTyped' BY <1>14 DEF TriggerSchedule, tables
  <2>2. RefIntegrity' BY <1>14 DEF TriggerSchedule, RefIntegrity, tables
  <2>3. OneInstancePerPair' BY <1>14 DEF TriggerSchedule, OneInstancePerPair, tables
  <2>4. KeepsIds BY <1>14 DEF TriggerSchedule, KeepsIds, tables
  <2>. QED BY <2>1, <2>2, <2>3, <2>4 DEF TablesStep
<1>15. CASE ResolveSet(r)
  <2>1. TablesTyped' BY <1>15 DEF ResolveSet, Close, AlertRows
  <2>2. RefIntegrity' BY <1>15 DEF ResolveSet, RefIntegrity, Close
  <2>3. OneInstancePerPair' BY <1>15 DEF ResolveSet, OneInstancePerPair, Close
  <2>4. KeepsIds BY <1>15 DEF ResolveSet, KeepsIds, Close
  <2>. QED BY <2>1, <2>2, <2>3, <2>4 DEF TablesStep
<1>. QED BY <1>1, <1>2, <1>3, <1>4, <1>5, <1>6, <1>7, <1>8, <1>9, <1>10,
            <1>11, <1>12, <1>13, <1>14, <1>15 DEF Write

\* So do the steps that are not those of a modelled handler.
LEMMA BackgroundTables ==
  ASSUME IndInv, Background
  PROVE  TablesStep
<1>. USE DEF IndInv, TypeOK, TablesTyped
<1>1. ASSUME NEW t \in Tripwires, CreateTripwire(t)
      PROVE  TablesStep
  BY <1>1 DEF CreateTripwire, InsertTripwire, TablesStep, KeepsIds, RefIntegrity,
              OneInstancePerPair
<1>2. ASSUME NEW e \in Endpoints, GrowOld(e)
      PROVE  TablesStep
  BY <1>2 DEF GrowOld, TablesStep, KeepsIds, RefIntegrity, OneInstancePerPair,
              EndpointRows
<1>3. ASSUME NEW a \in Alerts, Deliver(a)
      PROVE  TablesStep
  BY <1>3 DEF Deliver, tables, TablesStep, KeepsIds, RefIntegrity,
              OneInstancePerPair
<1>4. ASSUME NEW A, Close(A)
      PROVE  TablesStep
  <2>1. TablesTyped' BY <1>4 DEF Close, AlertRows
  <2>2. RefIntegrity' BY <1>4 DEF Close, RefIntegrity
  <2>3. OneInstancePerPair' BY <1>4 DEF Close, OneInstancePerPair
  <2>4. KeepsIds BY <1>4 DEF Close, KeepsIds
  <2>. QED BY <2>1, <2>2, <2>3, <2>4 DEF TablesStep
<1>5. CASE Restart
  BY <1>5 DEF Restart, tables, TablesStep, KeepsIds, RefIntegrity,
              OneInstancePerPair
<1>. QED BY <1>1, <1>2, <1>3, <1>4, <1>5
         DEF Background, ResolveDeployment, ResolveAll

-----------------------------------------------------------------------------
\* The event loop.

\* One handler at a time occupies the loop, because only one moves.
LEMMA LoopStep ==
  ASSUME TypeOK, LoopExclusive, NEW r \in Requests, Moves(r)
  PROVE  /\ request' \in [Requests -> Handlers]
         /\ LoopExclusive'
         /\ \A s \in Requests \ {r} : request'[s] = request[s]
<1>1. PICK h \in Handlers : /\ request' = [request EXCEPT ![r] = h]
                            /\ Takes(h) => Holding(r) \/ LoopFree
  BY DEF Moves, Becomes
<1>2. request \in [Requests -> Handlers] BY DEF TypeOK
<1>3. /\ request' \in [Requests -> Handlers]
      /\ request'[r] = h
      /\ \A s \in Requests \ {r} : request'[s] = request[s]
  <2>1. request' \in [Requests -> Handlers] BY <1>1, <1>2
  <2>2. request'[r] = h BY <1>1, <1>2
  <2>3. \A s \in Requests \ {r} : request'[s] = request[s] BY <1>1, <1>2
  <2>. QED BY <2>1, <2>2, <2>3
<1>4. Holding(r)' => Takes(h) BY <1>3 DEF Holding, Takes
<1>5. \A s \in Requests \ {r} : Holding(s)' => Holding(s)
  BY <1>3 DEF Holding
<1>6. ASSUME NEW s \in Requests \ {r}, Holding(r)', Holding(s)'
      PROVE  FALSE
  <2>1. Holding(s) BY <1>5, <1>6
  <2>2. Holding(r) \/ LoopFree BY <1>1, <1>4, <1>6
  <2>. QED BY <2>1, <2>2 DEF LoopFree, LoopExclusive
<1>7. LoopExclusive' BY <1>5, <1>6 DEF LoopExclusive
<1>. QED BY <1>3, <1>7

-----------------------------------------------------------------------------
\* What a step of one handler leaves of what the others know.

\* No deployment that stays changes its state.
StatesKept == \A d \in DOMAIN deployments \cap DOMAIN deployments' :
                deployments'[d].state = deployments[d].state

\* Rows keep their machine and their flag, and none appears under an id drawn
\* before.
RowsStep ==
  /\ \A e \in DOMAIN endpoints \cap DOMAIN endpoints' :
       /\ endpoints'[e].machine = endpoints[e].machine
       /\ endpoints[e].flagged => endpoints'[e].flagged
  /\ (DOMAIN endpoints' \ DOMAIN endpoints) \cap issued = {}
  /\ \A e \in (told' \ told) \cap DOMAIN endpoints' : endpoints'[e].flagged
  /\ \A a \in Alerts : delivery'[a] = "none" => delivery[a] = "none"

\* What a handler knows stays true while another one writes.
LEMMA OthersCoherent ==
  ASSUME IndInv, TablesStep, NEW s \in Requests, request'[s] = request[s],
         StatesKept \/ ~Holding(s)
  PROVE  Coherent(s)'
<1>0. Coherent(s) BY DEF IndInv
<1>1. At(s, "Enroll", "insert")' => request'[s].machine \in Machines
  BY <1>0 DEF At, Coherent
<1>2. At(s, "Trigger", "alert")' => /\ request'[s].dp \in Deployments \cap issued'
                                   /\ request'[s].ep \in Endpoints
  BY <1>0 DEF At, Coherent, TablesStep, KeepsIds
<1>3. ASSUME request[s].op = "Trigger", request[s].pc # "alert"
      PROVE  /\ request[s].pc \in {"check", "plant", "mark", "schedule", "raised"}
             /\ request[s].al \in DOMAIN alerts'
             /\ alerts'[request[s].al].deployment = request[s].dp
             /\ request[s].dp \in DOMAIN deployments' =>
                  request[s].dp \in DOMAIN deployments
  BY <1>0, <1>3 DEF IndInv, Coherent, TablesStep, KeepsIds
<1>4. ASSUME At(s, "Trigger", "plant")', request'[s].dp \in DOMAIN deployments'
      PROVE  deployments'[request'[s].dp].state = "pending"
  <2>1. Holding(s) BY <1>4, HoldingAt DEF At, AsyncOps
  <2>. QED BY <1>0, <1>3, <1>4, <2>1 DEF At, Coherent, StatesKept
<1>5. At(s, "Trigger", "raised")' => request'[s].dp \notin DOMAIN deployments'
  BY <1>0, <1>3 DEF At, Coherent
<1>. QED BY <1>1, <1>2, <1>3, <1>4, <1>5 DEF Coherent, At

\* Only a report and a trigger change the state of a deployment.
LEMMA OtherWrites ==
  ASSUME IndInv, NEW r \in Requests, Write(r), ~ReportSet(r), ~TriggerPlant(r)
  PROVE  StatesKept
<1>. USE DEF StatesKept, Without
<1>1. CASE DeleteTripwireRows(r) BY <1>1 DEF DeleteTripwireRows
<1>2. CASE UnassignDelete(r) BY <1>2 DEF UnassignDelete
<1>3. CASE InsertDeployment(r)
  BY <1>3 DEF InsertDeployment, Insert, IndInv, TypeOK, TablesTyped
<1>4. CASE RemoveRows(r) \/ Prune(r)
  BY <1>4 DEF RemoveRows, Prune, DeleteEndpoint
<1>5. CASE UNCHANGED deployments BY <1>5
<1>. QED BY <1>1, <1>2, <1>3, <1>4, <1>5
         DEF Write, EnrollInsert, EnrollUpdate, DecommissionFlag, Touch,
             PollAnswer, tables, TriggerAlert, CreateAlert, TriggerSchedule, ResolveSet, Close

\* Those that do are on the loop.
LEMMA WriteStates ==
  ASSUME IndInv, NEW r \in Requests, Write(r)
  PROVE  StatesKept \/ Holding(r)
<1>1. CASE ReportSet(r) \/ TriggerPlant(r)
  BY <1>1, HoldingAt DEF ReportSet, TriggerPlant, At, AsyncOps
<1>. QED BY <1>1, OtherWrites

\* Which endpoint rows a write may add, remove or flag.
LEMMA WriteRows ==
  ASSUME IndInv, NEW r \in Requests, Write(r)
  PROVE  /\ RowsStep
         /\ DOMAIN endpoints' \subseteq DOMAIN endpoints \/ Holding(r)
<1>0. /\ DOMAIN endpoints \subseteq Endpoints \cap issued
      /\ endpoints \in [DOMAIN endpoints -> EndpointRows]
      /\ delivery \in [Alerts -> {"none", "queued", "done", "lost"}]
  BY DEF IndInv, TypeOK, TablesTyped
<1>1. CASE EnrollInsert(r)
  <2>1. Holding(r) /\ UNCHANGED <<told, delivery>>
    BY <1>1, HoldingAt DEF EnrollInsert, At, AsyncOps
  <2>2. CASE endpoints' = endpoints BY <2>1, <2>2 DEF RowsStep
  <2>3. ASSUME NEW e \in Endpoints \ issued, NEW row,
               endpoints' = Insert(endpoints, e, row)
        PROVE  RowsStep
    BY <1>0, <2>1, <2>3 DEF Insert, RowsStep
  <2>. QED BY <1>1, <2>1, <2>2, <2>3 DEF EnrollInsert
<1>2. CASE EnrollUpdate(r)
  BY <1>0, <1>2 DEF EnrollUpdate, RowsStep, EndpointRows
<1>3. CASE DecommissionFlag(r)
  <2>1. \A e \in DOMAIN endpoints :
          /\ [endpoints[e] EXCEPT !.flagged = TRUE].machine = endpoints[e].machine
          /\ [endpoints[e] EXCEPT !.flagged = TRUE].flagged
    BY <1>0 DEF EndpointRows
  <2>. QED BY <1>3, <2>1 DEF DecommissionFlag, RowsStep
<1>4. CASE RemoveRows(r) \/ Prune(r)
  BY <1>4 DEF RemoveRows, Prune, DeleteEndpoint, Without, RowsStep
<1>5. CASE Touch(r)
  BY <1>0, <1>5 DEF Touch, RowsStep, EndpointRows
<1>6. CASE PollAnswer(r) BY <1>6 DEF PollAnswer, tables, RowsStep
<1>7. CASE TriggerSchedule(r)
  BY <1>0, <1>7 DEF TriggerSchedule, tables, RowsStep
<1>8. CASE UNCHANGED <<endpoints, told, delivery>> BY <1>8 DEF RowsStep
<1>. QED BY <1>1, <1>2, <1>3, <1>4, <1>5, <1>6, <1>7, <1>8
         DEF Write, DeleteTripwireRows, UnassignDelete, InsertDeployment,
             ReportSet, TriggerAlert, CreateAlert, TriggerPlant, ResolveSet, Close

-----------------------------------------------------------------------------
\* A handler's own next step.

\* After the step the trigger still has its alert, or has scheduled it, or its
\* deployment is gone.
InFlightStep(r) ==
  request[r].op = "Trigger" /\ request[r].pc # "alert" =>
    \/ /\ request'[r].op = "Trigger" /\ request'[r].pc # "alert"
       /\ request'[r].al = request[r].al
    \/ request[r].dp \notin DOMAIN deployments
    \/ delivery'[request[r].al] # "none"

\* Only a Trigger handler adds an alert, and it stays in flight.
AlertsStep ==
  \A a \in DOMAIN alerts' \ DOMAIN alerts :
    alerts'[a].deployment \in issued /\ a \in InFlight'

\* The steps a trigger handler can take.
LEMMA TriggerSteps ==
  ASSUME IndInv, NEW r \in Requests, request[r].op = "Trigger",
         Select(r) \/ Write(r)
  PROVE  \/ TriggerCheck(r) \/ TriggerMark(r) \/ ErrorResponse(r)
         \/ TriggerAlert(r) \/ TriggerPlant(r) \/ TriggerSchedule(r)
<1>1. request[r].pc \notin {"touch", "answer"} BY DEF IndInv, Coherent, At
<1>. QED
  BY <1>1 DEF Select, Write, RenameTripwire, RereadTripwire, AssignTripwire,
     UnassignFind, LookupDeployment,
     LoseInsert, RefreshDeployment, RelookupDeployment, EnrollReload,
     EnrollNext, EnrollEndpoint, EnrollAnswer, Sweep, ReportFind,
     DeleteTripwireRows, UnassignDelete, InsertDeployment, EnrollInsert,
     EnrollUpdate, DecommissionFlag, RemoveRows, Touch, PollAnswer, Prune,
     ReportSet, ResolveSet, At, Materializing

\* A trigger that has stored its alert goes on with it.
LEMMA GoesOn ==
  ASSUME IndInv, TablesStep, NEW r \in Requests, request[r].op = "Trigger",
         request[r].pc # "alert",
         NEW pc \in {"check", "plant", "mark", "schedule", "raised"}, Goto(r, pc),
         pc = "plant" /\ request[r].dp \in DOMAIN deployments' =>
           deployments'[request[r].dp].state = "pending",
         pc = "raised" => request[r].dp \notin DOMAIN deployments'
  PROVE  Coherent(r)' /\ InFlightStep(r)
<1>1. request[r] \in Handlers /\ request \in [Requests -> Handlers]
  BY DEF IndInv, TypeOK
<1>2. request'[r] = [request[r] EXCEPT !.pc = pc]
  BY <1>1 DEF Goto, Becomes
<1>. DEFINE h == [request[r] EXCEPT !.pc = pc]
<1>3. /\ h.op = "Trigger" /\ h.pc = pc
      /\ h.al = request[r].al /\ h.dp = request[r].dp
  BY <1>1 DEF Handlers
<1>. HIDE DEF h
<1>4. request'[r] = h BY <1>2 DEF h
<1>5. /\ request[r].al \in DOMAIN alerts
      /\ alerts[request[r].al].deployment = request[r].dp
  BY DEF IndInv, Coherent
<1>6. /\ request[r].al \in DOMAIN alerts'
      /\ alerts'[request[r].al].deployment = request[r].dp
  BY <1>5 DEF TablesStep, KeepsIds
<1>. QED BY <1>3, <1>4, <1>6 DEF Coherent, InFlightStep, At

\* A handler that is over knows nothing.
LEMMA Finished ==
  ASSUME IndInv, NEW r \in Requests, Return(r)
  PROVE  Coherent(r)'
<1>1. request'[r] = Idle BY DEF IndInv, TypeOK, Return, Becomes
<1>. QED BY <1>1, OpsAssumption DEF Coherent, At, Idle, AllOps

\* What a handler knows stays true over its own steps.
LEMMA OwnStep ==
  ASSUME IndInv, TablesStep, NEW r \in Requests, Proceeds(r),
         Select(r) \/ Write(r)
  PROVE  Coherent(r)' /\ InFlightStep(r)
<1>0. request \in [Requests -> Handlers] /\ request[r] \in Handlers
  BY DEF IndInv, TypeOK
<1>1. CASE request[r].op # "Trigger"
  BY <1>1, OpsAssumption DEF Proceeds, Coherent, InFlightStep, At, Idle, AllOps
<1>2. CASE TriggerCheck(r)
  <2>1. /\ request[r].op = "Trigger" /\ request[r].pc # "alert"
        /\ UNCHANGED deployments
    BY <1>2 DEF TriggerCheck, At, Reads, tables
  <2>. QED BY <1>2, <2>1, GoesOn DEF TriggerCheck, Raise
<1>3. CASE TriggerMark(r)
  <2>1. /\ request[r].op = "Trigger" /\ request[r].pc # "alert"
        /\ UNCHANGED deployments
    BY <1>3 DEF TriggerMark, At, Reads, tables
  <2>. QED BY <1>3, <2>1, GoesOn DEF TriggerMark, Raise
<1>4. CASE ErrorResponse(r)
  <2>1. InFlightStep(r) BY <1>4 DEF ErrorResponse, InFlightStep, IndInv, Coherent, At
  <2>. QED BY <1>4, <2>1, Finished DEF ErrorResponse
<1>5. CASE TriggerAlert(r)
  <2>1. PICK a \in Alerts \ DOMAIN alerts :
          /\ alerts' = Insert(alerts, a, [deployment |-> request[r].dp,
                                          endpoint |-> request[r].ep,
                                          open |-> TRUE])
          /\ Becomes(r, [request[r] EXCEPT !.pc = "check", !.al = a])
    BY <1>5 DEF TriggerAlert, CreateAlert
  <2>. DEFINE h == [request[r] EXCEPT !.pc = "check", !.al = a]
  <2>2. h.op = "Trigger" /\ h.pc = "check" /\ h.al = a /\ h.dp = request[r].dp
    BY <1>0, <1>5 DEF TriggerAlert, CreateAlert, At, Handlers
  <2>3. request'[r] = h BY <1>0, <2>1 DEF Becomes
  <2>4. a \in DOMAIN alerts' /\ alerts'[a].deployment = request[r].dp
    BY <2>1 DEF Insert
  <2>. HIDE DEF h
  <2>. QED BY <1>5, <2>2, <2>3, <2>4 DEF Coherent, InFlightStep, At, TriggerAlert, CreateAlert
<1>6. CASE TriggerPlant(r)
  <2>1. request[r].op = "Trigger" /\ request[r].pc # "alert"
    BY <1>6 DEF TriggerPlant, At
  <2>. QED BY <1>6, <2>1, GoesOn DEF TriggerPlant
<1>7. CASE TriggerSchedule(r)
  <2>1. /\ request[r].op = "Trigger" /\ request[r].pc # "alert"
        /\ UNCHANGED deployments
        /\ request[r].al \in Alerts
    BY <1>7 DEF TriggerSchedule, At, tables, IndInv, Coherent, TypeOK, TablesTyped
  <2>2. CASE Raise(r) /\ request[r].dp \notin DOMAIN deployments
    BY <2>1, <2>2, GoesOn DEF Raise
  <2>3. CASE /\ delivery' = [delivery EXCEPT ![request[r].al] = "queued"]
             /\ Return(r)
    BY <2>1, <2>3, Finished DEF InFlightStep, IndInv, TypeOK, TablesTyped
  <2>. QED BY <1>7, <2>2, <2>3 DEF TriggerSchedule
<1>. QED BY <1>1, <1>2, <1>3, <1>4, <1>5, <1>6, <1>7, TriggerSteps
         DEF TriggerAlert, CreateAlert, TriggerPlant, TriggerSchedule

\* Only a trigger adds an alert, and no write takes one away.
LEMMA WriteAlerts ==
  ASSUME IndInv, NEW r \in Requests, Write(r)
  PROVE  AlertsStep
<1>1. CASE TriggerAlert(r)
  <2>0. request \in [Requests -> Handlers] /\ request[r] \in Handlers
    BY DEF IndInv, TypeOK
  <2>1. PICK a \in Alerts \ DOMAIN alerts :
          /\ alerts' = Insert(alerts, a, [deployment |-> request[r].dp,
                                          endpoint |-> request[r].ep,
                                          open |-> TRUE])
          /\ Becomes(r, [request[r] EXCEPT !.pc = "check", !.al = a])
    BY <1>1 DEF TriggerAlert, CreateAlert
  <2>. DEFINE h == [request[r] EXCEPT !.pc = "check", !.al = a]
  <2>2. h.op = "Trigger" /\ h.pc = "check" /\ h.al = a
    BY <1>1, <2>0 DEF TriggerAlert, CreateAlert, At, Handlers
  <2>3. request'[r] = h BY <2>0, <2>1 DEF Becomes
  <2>. HIDE DEF h
  <2>4. a \in InFlight' BY <2>2, <2>3 DEF InFlight
  <2>5. alerts'[a].deployment = request[r].dp /\ request[r].dp \in issued
    BY <1>1, <2>1 DEF Insert, TriggerAlert, CreateAlert, IndInv, Coherent, At
  <2>6. DOMAIN alerts' \ DOMAIN alerts \subseteq {a} BY <2>1 DEF Insert
  <2>. QED BY <2>4, <2>5, <2>6 DEF AlertsStep
<1>2. CASE DOMAIN alerts' = DOMAIN alerts BY <1>2 DEF AlertsStep
<1>. QED BY <1>1, <1>2
         DEF Write, DeleteTripwireRows, UnassignDelete, InsertDeployment,
             EnrollInsert, EnrollUpdate, DecommissionFlag, RemoveRows, Touch,
             PollAnswer, Prune, DeleteEndpoint, ReportSet, TriggerPlant,
             TriggerSchedule, ResolveSet, Close, tables

\* An alert without a delivery is accounted for after the step too.
LEMMA UndeliveredStep ==
  ASSUME IndInv, TablesStep, RowsStep, AlertsStep, NEW r \in Requests,
         \A s \in Requests \ {r} : request'[s] = request[s], InFlightStep(r)
  PROVE  UndeliveredOnlyIfRemoved'
<1>1. SUFFICES ASSUME NEW a \in DOMAIN alerts', delivery'[a] = "none",
                      a \notin InFlight'
               PROVE  alerts'[a].deployment \notin DOMAIN deployments'
  BY DEF UndeliveredOnlyIfRemoved
<1>2. a \in Alerts /\ a \in DOMAIN alerts
  BY <1>1 DEF TablesStep, TablesTyped, AlertsStep
<1>3. delivery[a] = "none" BY <1>1, <1>2 DEF RowsStep
<1>4. alerts[a].deployment \notin DOMAIN deployments
  <2>1. CASE a \in InFlight
    <3>1. PICK s \in Requests : /\ request[s].op = "Trigger"
                                /\ request[s].pc # "alert"
                                /\ request[s].al = a
      BY <2>1 DEF InFlight
    <3>2. s = r BY <1>1, <3>1 DEF InFlight
    <3>3. request[r].dp \notin DOMAIN deployments
      BY <1>1, <3>1, <3>2 DEF InFlightStep, InFlight
    <3>. QED BY <3>1, <3>2, <3>3 DEF IndInv, Coherent
  <2>2. CASE a \notin InFlight
    BY <1>2, <1>3, <2>2 DEF IndInv, UndeliveredOnlyIfRemoved
  <2>. QED BY <2>1, <2>2
<1>5. alerts[a].deployment \in issued BY <1>2 DEF IndInv
<1>. QED BY <1>2, <1>4, <1>5 DEF TablesStep, KeepsIds

\* An agent is told to destroy itself only by a flagged or missing row.
LEMMA FlagsStep ==
  ASSUME IndInv, RowsStep
  PROVE  KillOnlyWhenAsked'
<1>1. ASSUME NEW e \in told' \cap DOMAIN endpoints', e \in told
      PROVE  endpoints'[e].flagged
  <2>1. e \in issued BY <1>1 DEF IndInv, TypeOK, TablesTyped
  <2>2. e \in DOMAIN endpoints BY <1>1, <2>1 DEF RowsStep
  <2>. QED BY <1>1, <2>2 DEF RowsStep, IndInv, KillOnlyWhenAsked
<1>. QED BY <1>1 DEF RowsStep, KillOnlyWhenAsked

\* An alert names a deployment id that was issued.
LEMMA AlertIdsStep ==
  ASSUME IndInv, TablesStep, AlertsStep
  PROVE  (\A a \in DOMAIN alerts : alerts[a].deployment \in issued)'
<1>1. ASSUME NEW a \in DOMAIN alerts'
      PROVE  alerts'[a].deployment \in issued'
  <2>1. CASE a \in DOMAIN alerts BY <2>1 DEF IndInv, TablesStep, KeepsIds
  <2>2. CASE a \notin DOMAIN alerts
    BY <1>1, <2>2 DEF AlertsStep, TablesStep, KeepsIds
  <2>. QED BY <2>1, <2>2
<1>. QED BY <1>1

\* A step that reads keeps everything the tables promise.
LEMMA ReadsKeep ==
  ASSUME Reads
  PROVE  RowsStep /\ AlertsStep /\ StatesKept /\ UNCHANGED endpoints
BY DEF Reads, tables, RowsStep, AlertsStep, StatesKept

\* The invariant survives the steps of a running handler,
LEMMA HandlerStep ==
  ASSUME IndInv, NEW r \in Requests, Select(r) \/ Write(r)
  PROVE  IndInv'
<1>0. TypeOK /\ RefIntegrity /\ OneInstancePerPair /\ LoopExclusive
  BY DEF IndInv
<1>1. /\ Moves(r) /\ Proceeds(r)
      /\ TablesStep /\ RowsStep /\ AlertsStep
      /\ StatesKept \/ Holding(r)
      /\ DOMAIN endpoints' \subseteq DOMAIN endpoints \/ Holding(r)
  <2>1. CASE Select(r)
    BY <1>0, <2>1, SelectMoves, ReadsTables, ReadsKeep
  <2>2. CASE Write(r)
    BY <1>0, <2>2, WriteMoves, WriteTables, WriteRows, WriteAlerts, WriteStates
  <2>. QED BY <2>1, <2>2
<1>2. /\ request' \in [Requests -> Handlers]
      /\ LoopExclusive'
      /\ \A s \in Requests \ {r} : request'[s] = request[s]
  BY <1>0, <1>1, LoopStep
<1>3. Coherent(r)' /\ InFlightStep(r) BY <1>1, OwnStep
<1>4. ASSUME NEW s \in Requests \ {r}
      PROVE  Coherent(s)'
  <2>1. ~Holding(s) \/ ~Holding(r) BY <1>0 DEF LoopExclusive
  <2>. QED BY <1>1, <1>2, <2>1, OthersCoherent
<1>5. ASSUME NEW s \in Requests, At(s, "Enroll", "insert")',
             NEW e \in DOMAIN endpoints'
      PROVE  endpoints'[e].machine # request'[s].machine
  <2>1. s # r BY <1>1, <1>5 DEF Proceeds, At, Idle
  <2>2. request'[s] = request[s] /\ At(s, "Enroll", "insert")
    BY <1>2, <1>5, <2>1 DEF At
  <2>3. Holding(s) BY <2>2, HoldingAt DEF At, AsyncOps
  <2>4. e \in DOMAIN endpoints BY <1>0, <1>1, <2>1, <2>3 DEF LoopExclusive
  <2>. QED BY <1>1, <2>2, <2>4 DEF IndInv, EnrollNeverConflicts, RowsStep
<1>6. UndeliveredOnlyIfRemoved' BY <1>1, <1>2, <1>3, UndeliveredStep
<1>7. KillOnlyWhenAsked' BY <1>1, FlagsStep
<1>8. (\A a \in DOMAIN alerts : alerts[a].deployment \in issued)'
  BY <1>1, AlertIdsStep
<1>9. EnrollNeverConflicts' BY <1>5 DEF EnrollNeverConflicts
<1>10. \A s \in Requests : Coherent(s)' BY <1>3, <1>4
<1>11. TypeOK' /\ RefIntegrity' /\ OneInstancePerPair'
  BY <1>1, <1>2 DEF TypeOK, TablesStep
<1>. QED BY <1>2, <1>6, <1>7, <1>8, <1>9, <1>10, <1>11 DEF IndInv

\* (what a handler knows when it starts)
LEMMA BeginsCoherent ==
  ASSUME IndInv, NEW r \in Requests, Begin(r), Reads
  PROVE  /\ Coherent(r)'
         /\ At(r, "Enroll", "insert")' =>
              \A e \in DOMAIN endpoints : endpoints[e].machine # request'[r].machine
<1>0. request \in [Requests -> Handlers] BY DEF IndInv, TypeOK
<1>. DEFINE Fresh(h) == h.op # "Trigger" /\ h.pc \notin {"insert", "alert"}
<1>1. ASSUME NEW h, Becomes(r, h), Fresh(h)
      PROVE  Coherent(r)' /\ ~At(r, "Enroll", "insert")'
  <2>1. request'[r] = h BY <1>0, <1>1 DEF Becomes
  <2>. QED BY <1>1, <2>1 DEF Coherent, At
<1>2. ASSUME NEW t \in Tripwires, UpdateTripwire(r, t) \/ DeleteTripwire(r, t)
      PROVE  Coherent(r)' /\ ~At(r, "Enroll", "insert")'
  BY <1>1, <1>2 DEF UpdateTripwire, DeleteTripwire, Start, Idle
<1>3. ASSUME NEW e \in Endpoints, NEW t \in Tripwires,
             Assign(r, e, t) \/ Unassign(r, e, t)
      PROVE  Coherent(r)' /\ ~At(r, "Enroll", "insert")'
  BY <1>1, <1>3 DEF Assign, Unassign, Start, Idle
<1>4. ASSUME NEW e \in Endpoints, Decommission(r, e)
      PROVE  Coherent(r)' /\ ~At(r, "Enroll", "insert")'
  BY <1>1, <1>4 DEF Decommission, Start, Idle
<1>5. ASSUME NEW a \in Alerts, ResolveAlert(r, a)
      PROVE  Coherent(r)' /\ ~At(r, "Enroll", "insert")'
  BY <1>1, <1>5 DEF ResolveAlert, Start, Idle
<1>6. CASE ListEndpoints(r) BY <1>1, <1>6 DEF ListEndpoints, Start, Idle
<1>7. ASSUME NEW op \in Ops, NEW e \in Endpoints,
             Remove(r, op, e) \/ Poll(r, op, e)
      PROVE  Coherent(r)' /\ ~At(r, "Enroll", "insert")'
  BY <1>1, <1>7 DEF Remove, Poll, Start, Idle
<1>8. ASSUME NEW e \in Endpoints, NEW d \in Deployments,
             NEW s \in {"planted", "failed"}, Report(r, e, d, s)
      PROVE  Coherent(r)' /\ ~At(r, "Enroll", "insert")'
  BY <1>1, <1>8 DEF Report, Start, Idle
<1>9. ASSUME NEW d \in Deployments, Trigger(r, d)
      PROVE  Coherent(r)' /\ ~At(r, "Enroll", "insert")'
  <2>1. /\ d \in DOMAIN deployments
        /\ request'[r] = [Start("Trigger", "alert") EXCEPT
                            !.dp = d, !.ep = deployments[d].endpoint]
    BY <1>0, <1>9 DEF Trigger, Becomes
  <2>2. /\ request'[r].op = "Trigger" /\ request'[r].pc = "alert"
        /\ request'[r].dp = d /\ request'[r].ep = deployments[d].endpoint
    BY <2>1 DEF Start, Idle
  <2>3. d \in Deployments \cap issued /\ deployments[d].endpoint \in Endpoints
    BY <2>1 DEF IndInv, TypeOK, TablesTyped, DeploymentRows
  <2>4. issued' = issued BY DEF Reads, tables
  <2>. QED BY <2>2, <2>3, <2>4 DEF Coherent, At
<1>10. ASSUME NEW m \in Machines, NEW token \in Endpoints \cup {None},
              NEW x \in Lifetimes, NEW ids \in SUBSET Tripwires,
              EnrollFind(r, m, token, x, ids)
       PROVE  /\ Coherent(r)'
              /\ At(r, "Enroll", "insert")' =>
                   \A e \in DOMAIN endpoints :
                     endpoints[e].machine # request'[r].machine
  <2>. DEFINE h == [Start("Enroll", "insert") EXCEPT
                      !.machine = m, !.ephemeral = x, !.todo = ids,
                      !.want = ids \cap tripwires]
              g == [h EXCEPT !.pc = "update", !.ep = token]
  <2>1. h.op = "Enroll" /\ h.pc = "insert" /\ h.machine = m
    BY DEF Start, Idle
  <2>2. g.op = "Enroll" /\ g.pc = "update" BY DEF Start, Idle
  <2>3. CASE Becomes(r, g)
    <3>. HIDE DEF g
    <3>. QED BY <1>1, <2>2, <2>3
  <2>4. CASE Becomes(r, h) /\ \A e \in DOMAIN endpoints : endpoints[e].machine # m
    <3>. HIDE DEF h
    <3>1. request'[r] = h BY <1>0, <2>4 DEF Becomes
    <3>. QED BY <2>1, <2>4, <3>1 DEF Coherent, At
  <2>. QED BY <1>10, <2>3, <2>4 DEF EnrollFind
<1>. QED BY <1>2, <1>3, <1>4, <1>5, <1>6, <1>7, <1>8, <1>9, <1>10 DEF Begin

\* (only an idle slot takes a request)
LEMMA BeginsIdle ==
  ASSUME NEW r \in Requests, Begin(r)
  PROVE  request[r].pc = "idle"
BY DEF Begin, CanStart, UpdateTripwire, DeleteTripwire, Assign, Unassign, Decommission,
       ResolveAlert, ListEndpoints, EnrollFind, Remove, Poll, Report, Trigger

\* ... the arrival of a request,
LEMMA BeginStep ==
  ASSUME IndInv, NEW r \in Requests, Begin(r)
  PROVE  IndInv'
<1>0. TypeOK /\ RefIntegrity /\ OneInstancePerPair /\ LoopExclusive
  BY DEF IndInv
<1>1. Moves(r) /\ Reads BY <1>0, BeginMoves
<1>2. TablesStep /\ RowsStep /\ AlertsStep /\ StatesKept /\ UNCHANGED endpoints
  BY <1>0, <1>1, ReadsTables, ReadsKeep
<1>3. /\ request' \in [Requests -> Handlers]
      /\ LoopExclusive'
      /\ \A s \in Requests \ {r} : request'[s] = request[s]
  BY <1>0, <1>1, LoopStep
<1>4. \A s \in Requests : Coherent(s)'
  BY <1>1, <1>2, <1>3, BeginsCoherent, OthersCoherent
<1>5. ASSUME NEW s \in Requests, At(s, "Enroll", "insert")'
      PROVE  \A e \in DOMAIN endpoints' : endpoints'[e].machine # request'[s].machine
  <2>1. CASE s = r BY <1>1, <1>2, <1>5, <2>1, BeginsCoherent
  <2>2. CASE s # r
    BY <1>2, <1>3, <1>5, <2>2 DEF At, IndInv, EnrollNeverConflicts
  <2>. QED BY <2>1, <2>2
<1>6. InFlightStep(r) BY BeginsIdle DEF InFlightStep, IndInv, Coherent
<1>7. UndeliveredOnlyIfRemoved' BY <1>2, <1>3, <1>6, UndeliveredStep
<1>8. KillOnlyWhenAsked' BY <1>2, FlagsStep
<1>9. (\A a \in DOMAIN alerts : alerts[a].deployment \in issued)'
  BY <1>2, AlertIdsStep
<1>10. EnrollNeverConflicts' BY <1>5 DEF EnrollNeverConflicts
<1>11. TypeOK' /\ RefIntegrity' /\ OneInstancePerPair'
  BY <1>2, <1>3 DEF TypeOK, TablesStep
<1>. QED BY <1>3, <1>4, <1>7, <1>8, <1>9, <1>10, <1>11 DEF IndInv

\* (what a background step may do to rows)
LEMMA BackgroundRows ==
  ASSUME IndInv, Background
  PROVE  /\ RowsStep /\ StatesKept /\ UNCHANGED deployments
         /\ DOMAIN endpoints' = DOMAIN endpoints
         /\ DOMAIN alerts' = DOMAIN alerts
<1>0. /\ endpoints \in [DOMAIN endpoints -> EndpointRows]
      /\ delivery \in [Alerts -> {"none", "queued", "done", "lost"}]
  BY DEF IndInv, TypeOK, TablesTyped
<1>1. ASSUME NEW t \in Tripwires, CreateTripwire(t)
      PROVE  /\ UNCHANGED <<endpoints, told, delivery, deployments>>
             /\ DOMAIN alerts' = DOMAIN alerts
  BY <1>1 DEF CreateTripwire, InsertTripwire
<1>2. ASSUME NEW e \in Endpoints, GrowOld(e)
      PROVE  /\ RowsStep /\ UNCHANGED deployments
             /\ DOMAIN endpoints' = DOMAIN endpoints
             /\ DOMAIN alerts' = DOMAIN alerts
  BY <1>0, <1>2 DEF GrowOld, RowsStep, EndpointRows
<1>3. ASSUME NEW a \in Alerts, Deliver(a)
      PROVE  RowsStep /\ UNCHANGED <<endpoints, deployments, alerts>>
  BY <1>0, <1>3 DEF Deliver, tables, RowsStep
<1>4. ASSUME NEW A, Close(A)
      PROVE  /\ UNCHANGED <<endpoints, told, delivery, deployments>>
             /\ DOMAIN alerts' = DOMAIN alerts
  BY <1>4 DEF Close
<1>5. CASE Restart
  <2>1. /\ UNCHANGED <<endpoints, told, deployments, alerts>>
        /\ \A a \in Alerts : delivery'[a] = "none" => delivery[a] = "none"
    BY <1>5 DEF Restart, tables
  <2>. QED BY <2>1 DEF RowsStep, StatesKept
<1>. QED BY <1>1, <1>2, <1>3, <1>4, <1>5
         DEF Background, ResolveDeployment, ResolveAll, RowsStep, StatesKept

\* (and to handlers: nothing, but for the restart)
LEMMA BackgroundRequests ==
  ASSUME Background
  PROVE  UNCHANGED request \/ Restart
BY DEF Background, CreateTripwire, InsertTripwire, GrowOld, Deliver, ResolveDeployment,
       ResolveAll

\* ... and the steps of the rest of the system.
LEMMA BackgroundStep ==
  ASSUME IndInv, Background
  PROVE  IndInv'
<1>0. request \in [Requests -> Handlers] BY DEF IndInv, TypeOK
<1>1. /\ TablesStep /\ RowsStep /\ StatesKept
      /\ UNCHANGED deployments
      /\ DOMAIN endpoints' = DOMAIN endpoints
      /\ DOMAIN alerts' = DOMAIN alerts
  BY BackgroundTables, BackgroundRows
<1>2. \A s \in Requests : request'[s] = request[s] \/ request'[s] = Idle
  BY BackgroundRequests DEF Restart
<1>3. request' \in [Requests -> Handlers]
  BY <1>0, BackgroundRequests, IdleHandler DEF Restart
<1>4. \A s \in Requests : Holding(s)' => Holding(s)
  BY <1>2 DEF Holding, Idle
<1>5. LoopExclusive' BY <1>4 DEF LoopExclusive, IndInv
<1>6. ASSUME NEW s \in Requests
      PROVE  Coherent(s)'
  <2>1. CASE request'[s] = request[s] BY <1>1, <2>1, OthersCoherent
  <2>2. CASE request'[s] = Idle
    BY <2>2, OpsAssumption DEF Coherent, At, Idle, AllOps
  <2>. QED BY <1>2, <2>1, <2>2
<1>7. ASSUME NEW s \in Requests, At(s, "Enroll", "insert")',
             NEW e \in DOMAIN endpoints'
      PROVE  endpoints'[e].machine # request'[s].machine
  <2>1. request'[s] = request[s] /\ At(s, "Enroll", "insert")
    BY <1>2, <1>7 DEF At, Idle
  <2>. QED BY <1>1, <2>1 DEF IndInv, EnrollNeverConflicts, RowsStep
<1>8. ASSUME NEW a \in DOMAIN alerts', delivery'[a] = "none", a \notin InFlight'
      PROVE  alerts'[a].deployment \notin DOMAIN deployments'
  <2>1. a \in Alerts /\ a \in DOMAIN alerts /\ delivery[a] = "none"
    BY <1>1, <1>8 DEF TablesStep, TablesTyped, RowsStep
  <2>2. a \notin InFlight
    <3>1. CASE UNCHANGED request BY <1>8, <3>1 DEF InFlight
    <3>2. CASE Restart BY <1>8, <2>1, <3>2 DEF Restart
    <3>. QED BY <3>1, <3>2, BackgroundRequests
  <2>3. alerts[a].deployment \notin DOMAIN deployments
    BY <2>1, <2>2 DEF IndInv, UndeliveredOnlyIfRemoved
  <2>. QED BY <1>1, <2>1, <2>3 DEF TablesStep, KeepsIds
<1>9. KillOnlyWhenAsked' BY <1>1, FlagsStep
<1>10. (\A a \in DOMAIN alerts : alerts[a].deployment \in issued)'
  BY <1>1, AlertIdsStep DEF AlertsStep
<1>11. EnrollNeverConflicts' BY <1>7 DEF EnrollNeverConflicts
<1>12. UndeliveredOnlyIfRemoved' BY <1>8 DEF UndeliveredOnlyIfRemoved
<1>13. TypeOK' /\ RefIntegrity' /\ OneInstancePerPair'
  BY <1>1, <1>3 DEF TypeOK, TablesStep
<1>. QED BY <1>5, <1>6, <1>9, <1>10, <1>11, <1>12, <1>13 DEF IndInv

\* The empty database satisfies the invariant.
LEMMA IndInvInit == Init => IndInv
<1>. SUFFICES ASSUME Init PROVE IndInv OBVIOUS
<1>. USE DEF Init
<1>1. TablesTyped
  <2>1. /\ DOMAIN endpoints = {} /\ DOMAIN deployments = {} /\ DOMAIN alerts = {}
        /\ endpoints \in [{} -> EndpointRows]
        /\ deployments \in [{} -> DeploymentRows]
        /\ alerts \in [{} -> AlertRows]
    OBVIOUS
  <2>. QED BY <2>1 DEF TablesTyped
<1>2. request \in [Requests -> Handlers] BY IdleHandler
<1>3. RefIntegrity /\ OneInstancePerPair /\ UndeliveredOnlyIfRemoved
      /\ \A a \in DOMAIN alerts : alerts[a].deployment \in issued
  BY DEF RefIntegrity, OneInstancePerPair, UndeliveredOnlyIfRemoved
<1>4. EnrollNeverConflicts /\ KillOnlyWhenAsked /\ LoopExclusive
  BY DEF EnrollNeverConflicts, KillOnlyWhenAsked, LoopExclusive, Holding, Idle
<1>5. \A r \in Requests : Coherent(r)
  BY OpsAssumption DEF Coherent, At, Idle, AllOps
<1>. QED BY <1>1, <1>2, <1>3, <1>4, <1>5 DEF IndInv, TypeOK

\* Every step preserves the invariant.
LEMMA IndInvStep == IndInv /\ [Next]_vars => IndInv'
<1>. SUFFICES ASSUME IndInv, [Next]_vars PROVE IndInv' OBVIOUS
<1>1. CASE UNCHANGED vars
  BY <1>1 DEF vars, IndInv, TypeOK, TablesTyped, RefIntegrity, Instances,
       OneInstancePerPair, EnrollNeverConflicts, KillOnlyWhenAsked, InFlight,
       UndeliveredOnlyIfRemoved, LoopExclusive, Holding, Coherent, At
<1>. QED BY <1>1, BackgroundStep, BeginStep, HandlerStep DEF Next

-----------------------------------------------------------------------------
\* The theorems.

\* IndInv holds of every reachable state, whatever the number of rows, machines
\* and concurrent handlers.
THEOREM Inductive == Spec => []IndInv
BY IndInvInit, IndInvStep, PTL DEF Spec

\* Every row keeps its type, and no table holds an id that was never issued.
THEOREM TypeCorrect == Spec => []TypeOK
<1>1. IndInv => TypeOK BY DEF IndInv
<1>. QED BY <1>1, Inductive, PTL

\* The foreign keys and the check-then-insert of materialize_deployment leave no
\* orphaned deployment.
THEOREM Referential == Spec => []RefIntegrity
<1>1. IndInv => RefIntegrity BY DEF IndInv
<1>. QED BY <1>1, Inductive, PTL

\* Racing assignments and enrollments never install a tripwire twice.
THEOREM OneInstance == Spec => []OneInstancePerPair
<1>1. IndInv => OneInstancePerPair BY DEF IndInv
<1>. QED BY <1>1, Inductive, PTL

\* The event loop makes find-then-insert of an enrollment atomic.
THEOREM EnrollUnique == Spec => []EnrollNeverConflicts
<1>1. IndInv => EnrollNeverConflicts BY DEF IndInv
<1>. QED BY <1>1, Inductive, PTL

\* No agent is told to destroy itself by an endpoint an operator keeps.
THEOREM KillSafe == Spec => []KillOnlyWhenAsked
<1>1. IndInv => KillOnlyWhenAsked BY DEF IndInv
<1>. QED BY <1>1, Inductive, PTL

\* An alert without a scheduled delivery has an excuse: its callback still runs,
\* or its deployment was deleted under it.
THEOREM AlertsAccounted == Spec => []UndeliveredOnlyIfRemoved
<1>1. IndInv => UndeliveredOnlyIfRemoved BY DEF IndInv
<1>. QED BY <1>1, Inductive, PTL

\* A deployment leaves 'failed' by the report of its agent alone.
LEMMA StateWriters ==
  ASSUME IndInv, Next,
         NEW d \in DOMAIN deployments \cap DOMAIN deployments',
         deployments[d].state = "failed", deployments'[d].state # "failed"
  PROVE  \E r \in Requests : At(r, "Report", "set") /\ request[r].dp = d
<1>1. CASE Background BY <1>1, BackgroundRows DEF StatesKept
<1>2. ASSUME NEW r \in Requests, Begin(r) \/ Select(r)
      PROVE  FALSE
  BY <1>2, BeginMoves, SelectMoves, ReadsKeep DEF IndInv, StatesKept
<1>3. ASSUME NEW r \in Requests, Write(r)
      PROVE  \E s \in Requests : At(s, "Report", "set") /\ request[s].dp = d
  <2>1. CASE ReportSet(r) BY <2>1 DEF ReportSet, SetState
  <2>2. CASE TriggerPlant(r)
    <3>1. request[r].dp = d BY <2>2 DEF TriggerPlant, SetState
    <3>. QED BY <2>2, <3>1 DEF TriggerPlant, IndInv, Coherent, At
  <2>3. CASE ~ReportSet(r) /\ ~TriggerPlant(r)
    BY <1>3, <2>3, OtherWrites DEF StatesKept
  <2>. QED BY <2>1, <2>2, <2>3
<1>. QED BY <1>1, <1>2, <1>3 DEF Next

\* "A failed one stays failed" (routes.py:821): a callback that read the state
\* before the agent's report of failure does not overwrite it.
THEOREM FailedFinal == Spec => FailedStaysFailed
<1>1. IndInv /\ [Next]_vars =>
        [\A d \in DOMAIN deployments \cap DOMAIN deployments' :
           deployments[d].state = "failed" /\ deployments'[d].state # "failed"
           => \E r \in Requests : At(r, "Report", "set") /\ request[r].dp = d]_vars
  BY StateWriters
<1>. QED BY <1>1, Inductive, PTL DEF Spec, FailedStaysFailed

-----------------------------------------------------------------------------
\* What an enrollment has covered.

\* The pair has its instance, or one side of it is gone for good.
Served(t, e) == \/ Instances(t, e) # {}
                \/ t \notin tripwires
                \/ e \notin DOMAIN endpoints

\* The handler works on one tripwire of its list.
OnTripwire == {"endpoint", "lookup", "create", "refresh", "relookup"}

\* What the local variables of an enrollment say of the tables: what it has
\* passed is served, a lost insert means that someone else served the pair, and
\* a won one is the handler's own row.
Covers(h) ==
  h.op = "Enroll" =>
    /\ h.want \subseteq issued
    /\ h.pc = "insert" => h.want \subseteq h.todo
    /\ h.pc \notin {"insert", "raised"} => h.ep \in issued
    /\ \A t \in h.want \ h.todo : h.ep \in issued /\ Served(t, h.ep)
    /\ h.pc \in OnTripwire => h.tw \in issued
    /\ h.pc = "relookup" => Served(h.tw, h.ep)
    /\ h.pc = "refresh" =>
         /\ h.dp \in issued
         /\ h.dp \in DOMAIN deployments =>
              deployments[h.dp].tripwire = h.tw /\ deployments[h.dp].endpoint = h.ep

Covered == \A r \in Requests : Covers(request[r])

\* What every step but an unassignment leaves of the tables: an id that is gone
\* does not come back, and a deployment goes only with its tripwire or its
\* endpoint.
GoesWithItsPair ==
  /\ issued \subseteq issued'
  /\ (tripwires' \ tripwires) \cap issued = {}
  /\ (DOMAIN endpoints' \ DOMAIN endpoints) \cap issued = {}
  /\ (DOMAIN deployments' \ DOMAIN deployments) \cap issued = {}
  /\ \A d \in DOMAIN deployments :
       IF d \in DOMAIN deployments'
       THEN /\ deployments'[d].tripwire = deployments[d].tripwire
            /\ deployments'[d].endpoint = deployments[d].endpoint
       ELSE \/ deployments[d].tripwire \notin tripwires'
            \/ deployments[d].endpoint \notin DOMAIN endpoints'

\* An INSERT adds the key of its row and no other.
LEMMA InsertDomain ==
  ASSUME NEW table, NEW key, NEW row
  PROVE  DOMAIN Insert(table, key, row) = DOMAIN table \cup {key}
BY DEF Insert

\* What a SELECT leaves: everything.
LEMMA ReadsPairs ==
  ASSUME Reads
  PROVE  GoesWithItsPair
BY DEF Reads, tables, GoesWithItsPair

\* Every write leaves the pairs alone but an unassignment.
LEMMA WritePairs ==
  ASSUME IndInv, NEW r \in Requests, Write(r), ~UnassignDelete(r)
  PROVE  GoesWithItsPair
<1>0. /\ DOMAIN endpoints \subseteq Endpoints \cap issued
      /\ DOMAIN deployments \subseteq Deployments \cap issued
      /\ deployments \in [DOMAIN deployments -> DeploymentRows]
  BY DEF IndInv, TypeOK, TablesTyped
<1>1. CASE DeleteTripwireRows(r)
  BY <1>1 DEF DeleteTripwireRows, Without, GoesWithItsPair
<1>2. CASE InsertDeployment(r)
  BY <1>0, <1>2 DEF InsertDeployment, Insert, GoesWithItsPair
<1>3. CASE EnrollInsert(r)
  <2>1. /\ UNCHANGED <<tripwires, deployments>>
        /\ \/ UNCHANGED <<endpoints, issued>>
           \/ \E e \in Endpoints \ issued : \E row :
                endpoints' = Insert(endpoints, e, row) /\ issued' = issued \cup {e}
    BY Zenon, <1>3 DEF EnrollInsert
  <2>2. CASE UNCHANGED <<endpoints, issued>>
    BY ONLY <2>1, <2>2 DEF GoesWithItsPair
  <2>3. ASSUME NEW e \in Endpoints \ issued, NEW row,
               endpoints' = Insert(endpoints, e, row),
               issued' = issued \cup {e}
        PROVE  GoesWithItsPair
    <3>1. DOMAIN endpoints' = DOMAIN endpoints \cup {e}
      BY ONLY <2>3, InsertDomain
    <3>2. UNCHANGED <<tripwires, deployments>> BY <2>1
    <3>. QED BY ONLY <1>0, <2>3, <3>1, <3>2 DEF GoesWithItsPair
  <2>. QED BY Zenon, <2>1, <2>2, <2>3
<1>4. CASE RemoveRows(r) \/ Prune(r)
  BY <1>4 DEF RemoveRows, Prune, DeleteEndpoint, Without, GoesWithItsPair
<1>5. CASE ReportSet(r) \/ TriggerPlant(r)
  <2>1. /\ UNCHANGED <<tripwires, endpoints, issued>>
        /\ \E s : SetState(request[r].dp, s)
    BY Zenon, <1>5 DEF ReportSet, TriggerPlant
  <2>2. \A d \in DOMAIN deployments : \A s :
          /\ [deployments[d] EXCEPT !.state = s].tripwire = deployments[d].tripwire
          /\ [deployments[d] EXCEPT !.state = s].endpoint = deployments[d].endpoint
    BY <1>0 DEF DeploymentRows
  <2>. QED BY <2>1, <2>2 DEF SetState, GoesWithItsPair
<1>6. CASE /\ UNCHANGED <<tripwires, deployments, issued>>
           /\ DOMAIN endpoints' = DOMAIN endpoints
  BY <1>6 DEF GoesWithItsPair
<1>7. EnrollUpdate(r) \/ DecommissionFlag(r) \/ Touch(r) =>
        /\ UNCHANGED <<tripwires, deployments, issued>>
        /\ DOMAIN endpoints' = DOMAIN endpoints
  BY DEF EnrollUpdate, DecommissionFlag, Touch
<1>8. PollAnswer(r) \/ TriggerAlert(r) \/ TriggerSchedule(r) \/ ResolveSet(r) =>
        UNCHANGED <<tripwires, endpoints, deployments, issued>>
  <2>1. PollAnswer(r) => UNCHANGED <<tripwires, endpoints, deployments, issued>>
    BY ONLY DEF PollAnswer, tables
  <2>2. TriggerAlert(r) => UNCHANGED <<tripwires, endpoints, deployments, issued>>
    BY ONLY DEF TriggerAlert
  <2>3. TriggerSchedule(r) => UNCHANGED <<tripwires, endpoints, deployments, issued>>
    BY ONLY DEF TriggerSchedule, tables
  <2>4. ResolveSet(r) => UNCHANGED <<tripwires, endpoints, deployments, issued>>
    BY ONLY DEF ResolveSet, Close
  <2>. QED BY Zenon, <2>1, <2>2, <2>3, <2>4
<1>9. CASE UNCHANGED <<tripwires, endpoints, deployments, issued>>
  BY <1>9 DEF GoesWithItsPair
<1>. QED BY Zenon, <1>1, <1>2, <1>3, <1>4, <1>5, <1>6, <1>7, <1>8, <1>9 DEF Write

\* So do the steps outside the handlers.
LEMMA BackgroundPairs ==
  ASSUME IndInv, Background
  PROVE  GoesWithItsPair
<1>1. UNCHANGED deployments /\ DOMAIN endpoints' = DOMAIN endpoints
  BY BackgroundRows
<1>2. /\ issued \subseteq issued'
      /\ (tripwires' \ tripwires) \cap issued = {}
  BY DEF Background, CreateTripwire, InsertTripwire, GrowOld, Deliver, tables,
         ResolveDeployment, ResolveAll, Close, Restart
<1>. QED BY <1>1, <1>2 DEF GoesWithItsPair

\* A served pair stays served: its deployment leaves only with one of the two.
LEMMA ServedKept ==
  ASSUME GoesWithItsPair, NEW t \in issued, NEW e \in issued, Served(t, e)
  PROVE  Served(t, e)'
<1>1. CASE t \notin tripwires \/ e \notin DOMAIN endpoints
  <2>1. t \notin tripwires' \/ e \notin DOMAIN endpoints'
    BY <1>1 DEF GoesWithItsPair
  <2>. QED BY <2>1 DEF Served
<1>2. ASSUME NEW d \in Instances(t, e)
      PROVE  Served(t, e)'
  <2>1. /\ d \in DOMAIN deployments
        /\ deployments[d].tripwire = t /\ deployments[d].endpoint = e
    BY DEF Instances
  <2>2. CASE d \in DOMAIN deployments'
    <3>1. d \in Instances(t, e)' BY <2>1, <2>2 DEF GoesWithItsPair, Instances
    <3>. QED BY <3>1 DEF Served
  <2>3. CASE d \notin DOMAIN deployments'
    <3>1. t \notin tripwires' \/ e \notin DOMAIN endpoints'
      BY <2>1, <2>3 DEF GoesWithItsPair
    <3>. QED BY <3>1 DEF Served
  <2>. QED BY <2>2, <2>3
<1>. QED BY <1>1, <1>2 DEF Served

\* What an enrollment has passed stays served, whoever moves.
LEMMA PassedKept ==
  ASSUME GoesWithItsPair, NEW r \in Requests, request[r].op = "Enroll",
         Covers(request[r])
  PROVE  /\ request[r].want \subseteq issued'
         /\ \A t \in request[r].want \ request[r].todo : \A e :
              e = request[r].ep => e \in issued' /\ Served(t, e)'
<1>1. /\ request[r].want \subseteq issued
      /\ \A t \in request[r].want \ request[r].todo :
           request[r].ep \in issued /\ Served(t, request[r].ep)
  BY DEF Covers
<1>2. issued \subseteq issued' BY DEF GoesWithItsPair
<1>3. ASSUME NEW t \in request[r].want \ request[r].todo, NEW e,
             e = request[r].ep
      PROVE  e \in issued' /\ Served(t, e)'
  <2>1. t \in issued /\ e \in issued /\ Served(t, e) BY <1>1, <1>3
  <2>. QED BY <1>2, <2>1, ServedKept
<1>. QED BY <1>1, <1>2, <1>3

\* What an enrollment knows stays true while another handler moves.
LEMMA CoversKept ==
  ASSUME GoesWithItsPair, NEW r \in Requests, Covers(request[r]),
         request'[r] = request[r]
  PROVE  Covers(request[r])'
<1>. SUFFICES ASSUME request[r].op = "Enroll" PROVE Covers(request[r])'
  BY DEF Covers
<1>1. /\ request[r].want \subseteq issued'
      /\ \A t \in request[r].want \ request[r].todo : \A e :
           e = request[r].ep => e \in issued' /\ Served(t, e)'
  BY PassedKept
<1>2. ASSUME request[r].pc = "relookup"
      PROVE  \A t, e : t = request[r].tw /\ e = request[r].ep => Served(t, e)'
  BY <1>2, ServedKept DEF Covers, OnTripwire
<1>3. ASSUME request[r].pc = "refresh"
      PROVE  /\ request[r].dp \in issued'
             /\ request[r].dp \in DOMAIN deployments' =>
                  /\ deployments'[request[r].dp].tripwire = request[r].tw
                  /\ deployments'[request[r].dp].endpoint = request[r].ep
  BY <1>3 DEF Covers, GoesWithItsPair
<1>4. /\ request[r].pc = "insert" => request[r].want \subseteq request[r].todo
      /\ request[r].pc \notin {"insert", "raised"} => request[r].ep \in issued'
      /\ request[r].pc \in OnTripwire => request[r].tw \in issued'
  BY DEF Covers, GoesWithItsPair
<1>. QED BY <1>1, <1>2, <1>3, <1>4 DEF Covers

\* A handler that is over has nothing to cover.
LEMMA CoversIdle ==
  ASSUME NEW r \in Requests, request'[r] = Idle
  PROVE  Covers(request[r])'
<1>1. Idle.op = None BY DEF Idle
<1>2. request'[r].op # "Enroll" BY <1>1, OpsAssumption DEF AllOps
<1>. QED BY <1>2 DEF Covers

\* An enrollment that changes its place alone keeps what it knows, unless the
\* new place promises more.
LEMMA CoversGoto ==
  ASSUME TypeOK, GoesWithItsPair, NEW r \in Requests, Covers(request[r]),
         request[r].op = "Enroll", request[r].pc # "raised",
         NEW pc \in Pcs \ {"insert", "refresh"}, Goto(r, pc),
         request[r].pc = "insert" => pc = "raised",
         pc \in OnTripwire => request[r].pc \in OnTripwire,
         pc = "relookup" =>
           \A t, e : t = request[r].tw /\ e = request[r].ep => Served(t, e)'
  PROVE  Covers(request[r])'
<1>1. request'[r] = [request[r] EXCEPT !.pc = pc] /\ request[r] \in Handlers
  BY DEF TypeOK, Goto, Becomes
<1>2. /\ request'[r].op = request[r].op /\ request'[r].pc = pc
      /\ request'[r].want = request[r].want /\ request'[r].todo = request[r].todo
      /\ request'[r].ep = request[r].ep /\ request'[r].tw = request[r].tw
  BY ONLY <1>1 DEF Handlers
<1>3. /\ request[r].want \subseteq issued'
      /\ \A t \in request[r].want \ request[r].todo : \A e :
           e = request[r].ep => e \in issued' /\ Served(t, e)'
  BY PassedKept
<1>4. /\ pc # "raised" => request[r].ep \in issued'
      /\ pc \in OnTripwire => request[r].tw \in issued'
  BY DEF Covers, GoesWithItsPair
<1>. QED BY <1>2, <1>3, <1>4 DEF Covers

\* The end of a tripwire's turn: it is served.
LEMMA CoversMaterialized ==
  ASSUME TypeOK, GoesWithItsPair, NEW r \in Requests, Covers(request[r]),
         request[r].op = "Enroll", request[r].pc \in OnTripwire,
         NEW expired \in BOOLEAN, Materialized(r, expired),
         \A t, e : t = request[r].tw /\ e = request[r].ep => Served(t, e)'
  PROVE  Covers(request[r])'
<1>1. /\ request'[r] = [request[r] EXCEPT !.pc = "next", !.tw = None, !.dp = None,
                                          !.todo = @ \ {request[r].tw},
                                          !.expired = @ \/ expired]
      /\ request[r] \in Handlers
  BY DEF TypeOK, Materialized, Becomes
<1>2. /\ request'[r].op = request[r].op /\ request'[r].pc = "next"
      /\ request'[r].want = request[r].want
      /\ request'[r].todo = request[r].todo \ {request[r].tw}
      /\ request'[r].ep = request[r].ep
  BY ONLY <1>1 DEF Handlers
<1>3. /\ request[r].want \subseteq issued'
      /\ \A t \in request[r].want \ request[r].todo : \A e :
           e = request[r].ep => e \in issued' /\ Served(t, e)'
  BY PassedKept
<1>4. request[r].ep \in issued' BY DEF Covers, GoesWithItsPair, OnTripwire
<1>. QED BY <1>2, <1>3, <1>4 DEF Covers, OnTripwire

\* The steps an enrollment can take.
LEMMA EnrollSteps ==
  ASSUME NEW r \in Requests, request[r].op = "Enroll", Select(r) \/ Write(r)
  PROVE  \/ LookupDeployment(r) \/ LoseInsert(r) \/ RefreshDeployment(r)
         \/ RelookupDeployment(r) \/ EnrollReload(r) \/ EnrollNext(r)
         \/ EnrollEndpoint(r) \/ EnrollAnswer(r) \/ ErrorResponse(r)
         \/ InsertDeployment(r) \/ EnrollInsert(r) \/ EnrollUpdate(r)
         \/ Touch(r) \/ PollAnswer(r)
BY DEF Select, Write, RenameTripwire, RereadTripwire, AssignTripwire,
       UnassignFind, Sweep, ReportFind, TriggerCheck, TriggerMark,
       DeleteTripwireRows, UnassignDelete, DecommissionFlag, RemoveRows, Prune,
       ReportSet, TriggerAlert, TriggerPlant, TriggerSchedule, ResolveSet, At

\* A handler's return and its exceptions.
LEMMA CoversReturn ==
  ASSUME TypeOK, NEW r \in Requests, Return(r)
  PROVE  Covers(request[r])'
<1>1. request'[r] = Idle BY DEF TypeOK, Return, Becomes
<1>. QED BY <1>1, CoversIdle

LEMMA CoversRaise ==
  ASSUME TypeOK, GoesWithItsPair, NEW r \in Requests, Covers(request[r]),
         request[r].op = "Enroll", request[r].pc # "raised", Raise(r)
  PROVE  Covers(request[r])'
BY CoversGoto DEF Raise, Pcs, OnTripwire

\* The turns of the loop over the tripwires, up to materialize().
LEMMA LoopCovers ==
  ASSUME TypeOK, GoesWithItsPair, NEW r \in Requests, Covers(request[r]),
         request[r].op = "Enroll", EnrollNext(r) \/ EnrollEndpoint(r)
  PROVE  Covers(request[r])'
<1>0. request \in [Requests -> Handlers] /\ request[r] \in Handlers BY DEF TypeOK
<1>1. /\ request[r].want \subseteq issued'
      /\ \A t \in request[r].want \ request[r].todo : \A e :
           e = request[r].ep => e \in issued' /\ Served(t, e)'
  BY PassedKept
<1>2. request[r].pc \in {"next", "endpoint"}
  BY Zenon DEF EnrollNext, EnrollEndpoint, At
<1>3. request[r].ep \in issued'
  BY <1>2 DEF Covers, GoesWithItsPair
<1>4. ASSUME NEW t \in request[r].todo, t \notin tripwires,
             Becomes(r, [request[r] EXCEPT !.todo = @ \ {t}]),
             request[r].pc = "next"
      PROVE  Covers(request[r])'
  <2>1. request'[r] = [request[r] EXCEPT !.todo = @ \ {t}]
    BY <1>0, <1>4 DEF Becomes
  <2>2. /\ request'[r].op = request[r].op /\ request'[r].pc = "next"
        /\ request'[r].want = request[r].want
        /\ request'[r].todo = request[r].todo \ {t}
        /\ request'[r].ep = request[r].ep
    BY ONLY <1>0, <1>4, <2>1 DEF Handlers
  <2>3. t \in request[r].want => t \notin tripwires'
    BY <1>4 DEF Covers, GoesWithItsPair
  <2>. QED BY <1>1, <1>3, <2>2, <2>3 DEF Covers, Served, OnTripwire
<1>5. ASSUME NEW t \in tripwires,
             Becomes(r, [request[r] EXCEPT !.pc = "endpoint", !.tw = t])
      PROVE  Covers(request[r])'
  <2>1. request'[r] = [request[r] EXCEPT !.pc = "endpoint", !.tw = t]
    BY <1>0, <1>5 DEF Becomes
  <2>2. /\ request'[r].op = request[r].op /\ request'[r].pc = "endpoint"
        /\ request'[r].want = request[r].want
        /\ request'[r].todo = request[r].todo
        /\ request'[r].ep = request[r].ep /\ request'[r].tw = t
    BY ONLY <1>0, <2>1 DEF Handlers
  <2>3. t \in issued' BY DEF TypeOK, TablesTyped, GoesWithItsPair
  <2>. QED BY <1>1, <1>3, <2>2, <2>3 DEF Covers, OnTripwire
<1>6. ASSUME Becomes(r, [request[r] EXCEPT !.pc = "lookup", !.expired = FALSE]),
             request[r].pc = "endpoint"
      PROVE  Covers(request[r])'
  <2>1. request'[r] = [request[r] EXCEPT !.pc = "lookup", !.expired = FALSE]
    BY <1>0, <1>6 DEF Becomes
  <2>2. /\ request'[r].op = request[r].op /\ request'[r].pc = "lookup"
        /\ request'[r].want = request[r].want
        /\ request'[r].todo = request[r].todo
        /\ request'[r].ep = request[r].ep /\ request'[r].tw = request[r].tw
    BY ONLY <1>0, <2>1 DEF Handlers
  <2>3. request[r].tw \in issued' BY <1>6 DEF Covers, OnTripwire, GoesWithItsPair
  <2>. QED BY <1>1, <1>3, <2>2, <2>3 DEF Covers, OnTripwire
<1>7. CASE EnrollNext(r)
  BY Zenon, <1>4, <1>5, <1>7 DEF EnrollNext, At
<1>8. CASE EnrollEndpoint(r)
  <2>1. /\ request[r].pc = "endpoint"
        /\ \/ Raise(r)
           \/ Becomes(r, [request[r] EXCEPT !.pc = "lookup", !.expired = FALSE])
    BY Zenon, <1>8 DEF EnrollEndpoint, At
  <2>. QED BY <1>2, <1>6, <2>1, CoversRaise
<1>. QED BY <1>7, <1>8

\* materialize(): whoever inserted the row, the pair is served when it is done.
LEMMA MaterializeCovers ==
  ASSUME TypeOK, GoesWithItsPair, NEW r \in Requests, Covers(request[r]),
         request[r].op = "Enroll",
         \/ LookupDeployment(r) \/ LoseInsert(r) \/ RefreshDeployment(r)
         \/ RelookupDeployment(r) \/ InsertDeployment(r)
  PROVE  Covers(request[r])'
<1>0. request \in [Requests -> Handlers] /\ request[r] \in Handlers BY DEF TypeOK
<1>1. CASE LookupDeployment(r)
  <2>1. request[r].pc = "lookup" /\ Reads
    BY ONLY <1>1 DEF LookupDeployment, Materializing
  <2>2. CASE Goto(r, "create")
    BY <2>1, <2>2, CoversGoto DEF Pcs, OnTripwire
  <2>3. CASE Materialized(r, FALSE) /\ Instances(request[r].tw, request[r].ep) # {}
    <3>1. \A t, e : t = request[r].tw /\ e = request[r].ep => Served(t, e)'
      BY <2>1, <2>3 DEF Served, Instances, Reads, tables
    <3>. QED BY <2>1, <2>3, <3>1, CoversMaterialized DEF OnTripwire
  <2>. QED BY Zenon, <1>1, <2>2, <2>3 DEF LookupDeployment
<1>2. CASE LoseInsert(r)
  <2>1. /\ request[r].pc = "create" /\ Reads /\ Goto(r, "relookup")
        /\ ~Insertable(request[r].tw, request[r].ep)
    BY ONLY <1>2 DEF LoseInsert, Materializing
  <2>2. \A t, e : t = request[r].tw /\ e = request[r].ep => Served(t, e)'
    BY <2>1 DEF Insertable, Linked, Served, Instances, Reads, tables
  <2>. QED BY <2>1, <2>2, CoversGoto DEF Pcs, OnTripwire
<1>3. CASE RefreshDeployment(r)
  <2>1. /\ request[r].pc = "refresh" /\ Reads
        /\ \/ request[r].dp \in DOMAIN deployments /\ Materialized(r, TRUE)
           \/ Raise(r)
    BY ONLY <1>3 DEF RefreshDeployment, Materializing
  <2>2. CASE Raise(r) BY <2>1, <2>2, CoversRaise
  <2>3. CASE request[r].dp \in DOMAIN deployments /\ Materialized(r, TRUE)
    <3>1. request[r].dp \in Instances(request[r].tw, request[r].ep)
      BY <2>1, <2>3 DEF Covers, Instances
    <3>2. \A t, e : t = request[r].tw /\ e = request[r].ep => Served(t, e)'
      BY <2>1, <3>1 DEF Served, Instances, Reads, tables
    <3>. QED BY <2>1, <2>3, <3>2, CoversMaterialized DEF OnTripwire
  <2>. QED BY <2>1, <2>2, <2>3
<1>4. CASE RelookupDeployment(r)
  <2>1. /\ request[r].pc = "relookup" /\ Materialized(r, TRUE)
    BY ONLY <1>4, request[r].op = "Enroll"
       DEF RelookupDeployment, Materializing
  <2>2. request[r].tw \in issued /\ request[r].ep \in issued
        /\ Served(request[r].tw, request[r].ep)
    BY <2>1 DEF Covers, OnTripwire
  <2>3. \A t, e : t = request[r].tw /\ e = request[r].ep => Served(t, e)'
    BY <2>2, ServedKept
  <2>. QED BY <2>1, <2>3, CoversMaterialized DEF OnTripwire
<1>5. CASE InsertDeployment(r)
  <2>1. request[r].pc = "create" BY ONLY <1>5 DEF InsertDeployment, Materializing
  <2>2. PICK d \in Deployments \ issued :
          /\ deployments' = Insert(deployments, d,
                                   [tripwire |-> request[r].tw,
                                    endpoint |-> request[r].ep,
                                    state |-> "pending"])
          /\ issued' = issued \cup {d}
          /\ Becomes(r, [request[r] EXCEPT !.pc = "refresh", !.dp = d])
    BY Zenon, <1>5 DEF InsertDeployment
  <2>3. request'[r] = [request[r] EXCEPT !.pc = "refresh", !.dp = d]
    BY ONLY <1>0, <2>2 DEF Becomes
  <2>4. /\ request'[r].op = request[r].op /\ request'[r].pc = "refresh"
        /\ request'[r].want = request[r].want
        /\ request'[r].todo = request[r].todo
        /\ request'[r].ep = request[r].ep /\ request'[r].tw = request[r].tw
        /\ request'[r].dp = d
    BY ONLY <1>0, <2>3 DEF Handlers
  <2>5. /\ deployments'[d].tripwire = request[r].tw
        /\ deployments'[d].endpoint = request[r].ep
    BY ONLY <2>2 DEF Insert
  <2>6. /\ request[r].want \subseteq issued'
        /\ \A t \in request[r].want \ request[r].todo : \A e :
             e = request[r].ep => e \in issued' /\ Served(t, e)'
    BY PassedKept
  <2>7. d \in issued' /\ request[r].ep \in issued' /\ request[r].tw \in issued'
    BY <2>1, <2>2 DEF Covers, OnTripwire
  <2>. QED BY <2>4, <2>5, <2>6, <2>7 DEF Covers
<1>. QED BY <1>1, <1>2, <1>3, <1>4, <1>5

\* An enrollment keeps what it knows over its own steps,
LEMMA OwnCovers ==
  ASSUME TypeOK, GoesWithItsPair, NEW r \in Requests, Covers(request[r]),
         Proceeds(r), Select(r) \/ Write(r)
  PROVE  Covers(request[r])'
<1>0. request \in [Requests -> Handlers] /\ request[r] \in Handlers BY DEF TypeOK
<1>1. CASE request[r].op # "Enroll"
  BY <1>1, CoversIdle DEF Proceeds, Covers
<1>. SUFFICES ASSUME request[r].op = "Enroll" PROVE Covers(request[r])' BY <1>1
<1>2. CASE EnrollReload(r)
  <2>1. request[r].pc = "reload" /\ (Goto(r, "next") \/ Raise(r))
    BY ONLY <1>2 DEF EnrollReload, At
  <2>. QED BY <2>1, CoversGoto, CoversRaise DEF Pcs, OnTripwire
<1>3. CASE EnrollAnswer(r) \/ ErrorResponse(r)
  <2>1. Return(r) \/ (request[r].pc = "next" /\ Raise(r))
    BY ONLY <1>3 DEF EnrollAnswer, ErrorResponse, At
  <2>. QED BY <2>1, CoversReturn, CoversRaise
<1>4. CASE EnrollUpdate(r)
  <2>1. request[r].pc = "update" /\ (Goto(r, "reload") \/ Raise(r))
    BY ONLY <1>4 DEF EnrollUpdate, At
  <2>. QED BY <2>1, CoversGoto, CoversRaise DEF Pcs, OnTripwire
<1>5. CASE Touch(r) \/ PollAnswer(r)
  <2>1. /\ request[r].pc \in {"touch", "answer"}
        /\ Goto(r, "answer") \/ Raise(r) \/ Return(r)
    BY ONLY <1>5 DEF Touch, PollAnswer
  <2>. QED BY <2>1, CoversGoto, CoversRaise, CoversReturn DEF Pcs, OnTripwire
<1>6. CASE EnrollInsert(r)
  <2>0. request[r].pc = "insert" BY Zenon, <1>6 DEF EnrollInsert, At
  <2>1. \/ Raise(r)
        \/ \E e \in Endpoints \ issued :
             /\ issued' = issued \cup {e}
             /\ Becomes(r, [request[r] EXCEPT !.pc = "reload", !.ep = e])
    BY Zenon, <1>6 DEF EnrollInsert
  <2>2. ASSUME NEW e \in Endpoints \ issued, issued' = issued \cup {e},
               Becomes(r, [request[r] EXCEPT !.pc = "reload", !.ep = e])
        PROVE  Covers(request[r])'
    <3>1. request'[r] = [request[r] EXCEPT !.pc = "reload", !.ep = e]
      BY ONLY <1>0, <2>2 DEF Becomes
    <3>2. /\ request'[r].op = request[r].op /\ request'[r].pc = "reload"
          /\ request'[r].want = request[r].want
          /\ request'[r].todo = request[r].todo
          /\ request'[r].ep = e
      BY ONLY <1>0, <3>1 DEF Handlers
    <3>3. /\ request[r].want \subseteq request[r].todo
          /\ request[r].want \subseteq issued
      BY Zenon, <2>0 DEF Covers
    <3>4. e \in issued' /\ request[r].want \subseteq issued'
      BY ONLY <2>2, <3>3
    <3>. QED BY ONLY <3>2, <3>3, <3>4 DEF Covers, OnTripwire
  <2>3. CASE Raise(r) BY <2>0, <2>3, CoversRaise
  <2>. QED BY Zenon, <2>1, <2>2, <2>3
<1>. QED BY Zenon, <1>2, <1>3, <1>4, <1>5, <1>6, LoopCovers, MaterializeCovers, EnrollSteps

\* ... and from its first one, which only reads.
LEMMA BeginCovers ==
  ASSUME TypeOK, Reads, NEW r \in Requests, Begin(r)
  PROVE  /\ Covers(request[r])'
         /\ request'[r].op \in Ops
<1>0. request \in [Requests -> Handlers] BY DEF TypeOK
<1>1. ASSUME NEW h, Becomes(r, h)
      PROVE  request'[r] = h
  BY <1>0, <1>1 DEF Becomes
<1>. DEFINE Goal == Covers(request[r])' /\ request'[r].op \in Ops
<1>2. ASSUME NEW h, Becomes(r, h), h.op \in Ops \ {"Enroll"}
      PROVE  Goal
  BY <1>1, <1>2 DEF Covers
<1>. HIDE DEF Goal
<1>3. ASSUME NEW t \in Tripwires, UpdateTripwire(r, t) \/ DeleteTripwire(r, t)
      PROVE  Goal
  BY <1>2, <1>3 DEF UpdateTripwire, DeleteTripwire, CanStart, Start, Idle
<1>4. ASSUME NEW e \in Endpoints, NEW t \in Tripwires,
             Assign(r, e, t) \/ Unassign(r, e, t)
      PROVE  Goal
  BY <1>2, <1>4 DEF Assign, Unassign, CanStart, Start, Idle
<1>5. ASSUME NEW e \in Endpoints, Decommission(r, e)
      PROVE  Goal
  BY <1>2, <1>5 DEF Decommission, CanStart, Start, Idle
<1>6. ASSUME NEW a \in Alerts, ResolveAlert(r, a)
      PROVE  Goal
  BY <1>2, <1>6 DEF ResolveAlert, CanStart, Start, Idle
<1>7. ASSUME ListEndpoints(r)
      PROVE  Goal
  BY <1>2, <1>7 DEF ListEndpoints, CanStart, Start, Idle
<1>8. ASSUME NEW op \in Ops, NEW e \in Endpoints,
             Remove(r, op, e) \/ Poll(r, op, e)
      PROVE  Goal
  BY <1>2, <1>8 DEF Remove, Poll, CanStart, Start, Idle
<1>9. ASSUME NEW e \in Endpoints, NEW d \in Deployments,
             NEW s \in {"planted", "failed"}, Report(r, e, d, s)
      PROVE  Goal
  BY <1>2, <1>9 DEF Report, CanStart, Start, Idle
<1>10. ASSUME NEW d \in Deployments, Trigger(r, d)
       PROVE  Goal
  BY <1>2, <1>10 DEF Trigger, CanStart, Start, Idle
<1>11. ASSUME NEW m \in Machines, NEW token \in Endpoints \cup {None},
              NEW x \in Lifetimes, NEW ids \in SUBSET Tripwires,
              EnrollFind(r, m, token, x, ids)
       PROVE  Goal
  <2>. DEFINE h == [Start("Enroll", "insert") EXCEPT
                      !.machine = m, !.ephemeral = x, !.todo = ids,
                      !.want = ids \cap tripwires]
              g == [h EXCEPT !.pc = "update", !.ep = token]
  <2>1. /\ h.op = "Enroll" /\ h.pc = "insert"
        /\ h.todo = ids /\ h.want = ids \cap tripwires
        /\ g.op = "Enroll" /\ g.pc = "update" /\ g.ep = token
        /\ g.todo = ids /\ g.want = ids \cap tripwires
    BY DEF Start, Idle
  <2>2. "Enroll" \in Ops BY <1>11 DEF EnrollFind, CanStart
  <2>3. tripwires \subseteq issued' /\ DOMAIN endpoints \subseteq issued'
    BY DEF TypeOK, TablesTyped, Reads, tables
  <2>. HIDE DEF h, g
  <2>4. CASE Becomes(r, h)
    <3>1. request'[r] = h BY <1>1, <2>4
    <3>. QED BY <2>1, <2>2, <2>3, <3>1 DEF Covers, OnTripwire, Goal
  <2>5. CASE Becomes(r, g) /\ token \in DOMAIN endpoints
    <3>1. request'[r] = g BY <1>1, <2>5
    <3>. QED BY <2>1, <2>2, <2>3, <2>5, <3>1 DEF Covers, OnTripwire, Goal
  <2>6. Becomes(r, h) \/ (Becomes(r, g) /\ token \in DOMAIN endpoints)
    BY <1>11 DEF EnrollFind, h, g
  <2>. QED BY <2>4, <2>5, <2>6
<1>12. Goal
  BY Zenon, <1>3, <1>4, <1>5, <1>6, <1>7, <1>8, <1>9, <1>10, <1>11
     DEF Begin
<1>. QED BY <1>12 DEF Goal

\* Unassignment is the one step that can take a deployment from under an
\* enrollment whose tripwire and endpoint both stay.
LEMMA CoveredStep ==
  ASSUME IndInv, Covered, Next, \A r \in Requests : ~UnassignDelete(r)
  PROVE  Covered'
<1>0. TypeOK /\ LoopExclusive /\ request \in [Requests -> Handlers]
  BY DEF IndInv, TypeOK
<1>1. CASE Background
  <2>1. GoesWithItsPair BY <1>1, BackgroundPairs
  <2>2. \A s \in Requests : request'[s] = request[s] \/ request'[s] = Idle
    BY <1>1, BackgroundRequests DEF Restart
  <2>3. ASSUME NEW s \in Requests
        PROVE  Covers(request[s])'
    BY <2>1, <2>2, CoversKept, CoversIdle DEF Covered
  <2>. QED BY <2>3 DEF Covered
<1>2. ASSUME NEW r \in Requests, Begin(r) \/ Select(r) \/ Write(r)
      PROVE  Covered'
  <2>1. Moves(r) /\ GoesWithItsPair
    <3>1. CASE Begin(r) BY <1>0, <3>1, BeginMoves, ReadsPairs
    <3>2. CASE Select(r) BY <1>0, <3>2, SelectMoves, ReadsPairs
    <3>3. CASE Write(r) BY <1>0, <3>3, WriteMoves, WritePairs
    <3>. QED BY <1>2, <3>1, <3>2, <3>3
  <2>2. \A s \in Requests \ {r} : request'[s] = request[s]
    BY <1>0, <2>1, LoopStep
  <2>3. Covers(request[r])'
    <3>1. CASE Begin(r) BY <1>0, <3>1, BeginMoves, BeginCovers
    <3>2. CASE Select(r) \/ Write(r)
      <4>1. Proceeds(r) BY <1>0, <3>2, SelectMoves, WriteMoves
      <4>. QED BY <1>0, <2>1, <3>2, <4>1, OwnCovers DEF Covered
    <3>. QED BY <1>2, <3>1, <3>2
  <2>4. ASSUME NEW s \in Requests
        PROVE  Covers(request[s])'
    BY <2>1, <2>2, <2>3, CoversKept DEF Covered
  <2>. QED BY <2>4 DEF Covered
<1>. QED BY <1>1, <1>2 DEF Next

\* A server whose operators do not unassign by hand has no such handler.
Unassigns == \E r \in Requests : request[r].op = "Unassign"

LEMMA NoUnassignStep ==
  ASSUME IndInv, "Unassign" \notin Ops, ~Unassigns, Next
  PROVE  ~Unassigns'
<1>0. TypeOK /\ LoopExclusive /\ Idle.op # "Unassign"
  BY OpsAssumption DEF IndInv, Idle, AllOps
<1>1. CASE Background
  BY <1>0, <1>1, BackgroundRequests DEF Restart, Unassigns
<1>2. ASSUME NEW r \in Requests, Begin(r) \/ Select(r) \/ Write(r)
      PROVE  ~Unassigns'
  <2>1. Moves(r) BY <1>0, <1>2, BeginMoves, SelectMoves, WriteMoves
  <2>2. \A s \in Requests \ {r} : request'[s] = request[s]
    BY <1>0, <2>1, LoopStep
  <2>3. request'[r].op # "Unassign"
    <3>1. CASE Begin(r) BY <1>0, <3>1, BeginMoves, BeginCovers
    <3>2. CASE Select(r) \/ Write(r)
      <4>1. Proceeds(r) BY <1>0, <3>2, SelectMoves, WriteMoves
      <4>. QED BY <1>0, <4>1 DEF Proceeds, Unassigns
    <3>. QED BY <1>2, <3>1, <3>2
  <2>. QED BY <2>2, <2>3 DEF Unassigns
<1>. QED BY <1>1, <1>2 DEF Next

\* An enrollment covers the tripwires it has passed, in every interleaving with
\* other enrollments, assignments, deletes, removals and prunes.  Unassigning a
\* tripwire by hand while the host enrolls is the only thing that can undo it,
\* so the theorem is about servers where nobody does.
THEOREM InstallCovered ==
  ASSUME "Unassign" \notin Ops
  PROVE  Spec => []EnrollCoversInstall
<1>. DEFINE Inv == Covered /\ ~Unassigns
<1>1. Init => Inv
  <2>1. Idle.op \notin {"Enroll", "Unassign"} BY OpsAssumption DEF Idle, AllOps
  <2>. QED BY <2>1 DEF Init, Covered, Covers, Unassigns
<1>2. Inv /\ IndInv /\ [Next]_vars => Inv'
  <2>1. SUFFICES ASSUME Inv, IndInv, Next \/ UNCHANGED vars PROVE Inv' OBVIOUS
  <2>2. CASE UNCHANGED vars
    <3>1. Covered'
      BY <2>1, <2>2 DEF vars, Covered, Covers, Served, Instances, OnTripwire
    <3>2. ~Unassigns' BY <2>1, <2>2 DEF vars, Unassigns
    <3>. QED BY <3>1, <3>2
  <2>3. CASE Next
    <3>1. \A r \in Requests : ~UnassignDelete(r)
      BY <2>1 DEF UnassignDelete, At, Unassigns
    <3>. QED BY <2>1, <2>3, <3>1, CoveredStep, NoUnassignStep
  <2>. QED BY <2>1, <2>2, <2>3
<1>3. Inv => EnrollCoversInstall
  BY DEF Covered, Covers, Served, EnrollCoversInstall, At
<1>. QED BY <1>1, <1>2, <1>3, Inductive, PTL DEF Spec

-----------------------------------------------------------------------------
\* The tables as a registry.

\* UNIQUE(machine_id): a host has one row.
OneRowPerMachine ==
  \A e, f \in DOMAIN endpoints : endpoints[e].machine = endpoints[f].machine => e = f

\* The rows stay, and with them the hosts and who is flagged.
RowsStay ==
  /\ DOMAIN endpoints' = DOMAIN endpoints
  /\ \A e \in DOMAIN endpoints : /\ endpoints'[e].machine = endpoints[e].machine
                                 /\ endpoints'[e].flagged = endpoints[e].flagged

\* Neither the tripwires nor the hosts nor the plants are touched.
RegistryStays == UNCHANGED <<tripwires, Hosts, Flagged, Plants>>

\* Two rows that keep machine and flag are the same hosts.
LEMMA HostsStay ==
  ASSUME RowsStay
  PROVE  Hosts' = Hosts /\ Flagged' = Flagged
BY DEF RowsStay, Hosts, Flagged

\* ... and their deployments the same plants.
LEMMA PlantsStay ==
  ASSUME RefIntegrity, RowsStay, UNCHANGED deployments
  PROVE  Plants' = Plants
<1>1. \A d \in DOMAIN deployments : Plant(d)' = Plant(d)
  BY DEF RowsStay, RefIntegrity, Plant
<1>2. Plants' = {Plant(d)' : d \in DOMAIN deployments} BY DEF Plants
<1>. QED BY <1>1, <1>2 DEF Plants

\* A step that leaves these tables alone is a stutter of the registry.
LEMMA TablesStay ==
  ASSUME RefIntegrity, RowsStay, UNCHANGED <<tripwires, deployments>>
  PROVE  RegistryStays
BY HostsStay, PlantsStay DEF RegistryStays

\* A plant says to which deployment it belongs.
LEMMA PlantFields ==
  ASSUME NEW d
  PROVE  /\ Plant(d).tripwire = deployments[d].tripwire
         /\ Plant(d).host = endpoints[deployments[d].endpoint].machine
         /\ Plant(d).state = deployments[d].state
BY DEF Plant

\* Two deployments are two plants: they differ in the tripwire or in the host.
LEMMA PlantsDiffer ==
  ASSUME RefIntegrity, OneInstancePerPair, OneRowPerMachine,
         NEW c \in DOMAIN deployments, NEW d \in DOMAIN deployments,
         Plant(c).tripwire = Plant(d).tripwire, Plant(c).host = Plant(d).host
  PROVE  c = d
BY PlantFields DEF RefIntegrity, OneInstancePerPair, OneRowPerMachine

\* The plants of the deployments that a DELETE leaves.
LEMMA PlantsWithout ==
  ASSUME UNCHANGED endpoints, NEW D,
         deployments' = Without(deployments, D)
  PROVE  Plants' = {Plant(d) : d \in DOMAIN deployments \ D}
<1>1. DOMAIN deployments' = DOMAIN deployments \ D BY DEF Without
<1>2. \A d \in DOMAIN deployments \ D : Plant(d)' = Plant(d)
  BY DEF Without, Plant
<1>3. Plants' = {Plant(d)' : d \in DOMAIN deployments'} BY DEF Plants
<1>. QED BY <1>1, <1>2, <1>3

\* Deleting a tripwire drops it with its plants.
LEMMA DropsTripwire ==
  ASSUME RefIntegrity, tripwires \subseteq Tripwires, NEW r \in Requests,
         DeleteTripwireRows(r)
  PROVE  Inventory!Next \/ RegistryStays
<1>. DEFINE t == request[r].tw
            D == {d \in DOMAIN deployments : deployments[d].tripwire = t}
<1>1. /\ tripwires' = tripwires \ {t}
      /\ deployments' = Without(deployments, D)
      /\ UNCHANGED endpoints
  BY DEF DeleteTripwireRows
<1>2. Plants' = {Plant(d) : d \in DOMAIN deployments \ D} BY <1>1, PlantsWithout
<1>3. Plants' = {p \in Plants : p.tripwire # t}
  BY <1>2, PlantFields DEF Plants
<1>4. Hosts' = Hosts /\ Flagged' = Flagged BY <1>1 DEF Hosts, Flagged
<1>5. CASE t \in tripwires
  <2>1. Inventory!Drop(t) BY <1>1, <1>3, <1>4, <1>5 DEF Inventory!Drop
  <2>. QED BY <1>5, <2>1 DEF Inventory!Next
<1>6. CASE t \notin tripwires
  <2>1. \A p \in Plants : p.tripwire # t
    BY <1>6, PlantFields DEF Plants, RefIntegrity
  <2>2. Plants' = Plants BY <1>3, <2>1
  <2>. QED BY <1>1, <1>4, <1>6, <2>2 DEF RegistryStays
<1>. QED BY <1>5, <1>6

\* Unassigning takes one plant away.
LEMMA Unassigned ==
  ASSUME RefIntegrity, OneInstancePerPair, OneRowPerMachine, NEW r \in Requests,
         UnassignDelete(r)
  PROVE  Inventory!Next \/ RegistryStays
<1>. DEFINE x == request[r].dp
<1>1. /\ deployments' = Without(deployments, {x})
      /\ UNCHANGED <<tripwires, endpoints>>
  BY DEF UnassignDelete
<1>2. Plants' = {Plant(d) : d \in DOMAIN deployments \ {x}}
  BY <1>1, PlantsWithout
<1>3. Hosts' = Hosts /\ Flagged' = Flagged BY <1>1 DEF Hosts, Flagged
<1>4. CASE x \in DOMAIN deployments
  <2>1. \A d \in DOMAIN deployments \ {x} : Plant(d) # Plant(x)
    BY <1>4, PlantsDiffer
  <2>2. Plants' = Plants \ {Plant(x)} BY <1>2, <2>1 DEF Plants
  <2>3. Plant(x) \in Plants BY <1>4 DEF Plants
  <2>4. Inventory!Unassign(Plant(x))
    BY <1>1, <1>3, <2>2, <2>3 DEF Inventory!Unassign
  <2>. QED BY <2>3, <2>4 DEF Inventory!Next
<1>5. CASE x \notin DOMAIN deployments
  <2>1. Plants' = Plants BY <1>2, <1>5 DEF Plants
  <2>. QED BY <1>1, <1>3, <2>1 DEF RegistryStays
<1>. QED BY <1>4, <1>5

\* The insert of materialize() assigns the tripwire to the host.
LEMMA Assigned ==
  ASSUME TypeOK, RefIntegrity, OneRowPerMachine, NEW r \in Requests,
         InsertDeployment(r)
  PROVE  Inventory!Next \/ RegistryStays
<1>. DEFINE t == request[r].tw
            e == request[r].ep
            m == endpoints[e].machine
            p == [tripwire |-> t, host |-> m, state |-> "pending"]
<1>1. PICK x \in Deployments \ issued :
        deployments' = Insert(deployments, x, [tripwire |-> t, endpoint |-> e,
                                               state |-> "pending"])
  BY Zenon DEF InsertDeployment
<1>2. /\ t \in tripwires /\ e \in DOMAIN endpoints /\ Instances(t, e) = {}
      /\ UNCHANGED <<tripwires, endpoints>>
  BY Zenon DEF InsertDeployment, Insertable, Linked
<1>3. x \notin DOMAIN deployments BY DEF TypeOK, TablesTyped
<1>4. t \in Tripwires /\ m \in Machines /\ m \in Hosts
  BY <1>2 DEF TypeOK, TablesTyped, EndpointRows, Hosts
<1>5. \A q \in Plants : q.tripwire # t \/ q.host # m
  <2>1. SUFFICES ASSUME NEW d \in DOMAIN deployments,
                        Plant(d).tripwire = t, Plant(d).host = m
                 PROVE  FALSE
    BY DEF Plants
  <2>2. deployments[d].endpoint = e /\ deployments[d].tripwire = t
    BY <1>2, <2>1, PlantFields DEF RefIntegrity, OneRowPerMachine
  <2>. QED BY <1>2, <2>2 DEF Instances
<1>6. Plants' = Plants \cup {p}
  <2>1. DOMAIN deployments' = DOMAIN deployments \cup {x} BY <1>1, InsertDomain
  <2>2. \A d \in DOMAIN deployments : Plant(d)' = Plant(d)
    BY <1>1, <1>2, <1>3 DEF Insert, Plant
  <2>3. Plant(x)' = p BY <1>1, <1>2 DEF Insert, Plant
  <2>4. Plants' = {Plant(d)' : d \in DOMAIN deployments \cup {x}}
    BY <2>1 DEF Plants
  <2>5. Plants' = {Plant(d)' : d \in DOMAIN deployments} \cup {Plant(x)'}
    BY <2>4
  <2>. QED BY <2>2, <2>3, <2>5 DEF Plants
<1>7. Hosts' = Hosts /\ Flagged' = Flagged BY <1>2 DEF Hosts, Flagged
<1>8. Inventory!Assign(t, m)
  BY <1>2, <1>4, <1>5, <1>6, <1>7 DEF Inventory!Assign
<1>. QED BY <1>4, <1>8 DEF Inventory!Next

\* Deleting an endpoint's row removes the host with its flag and its plants.
LEMMA RemovesHost ==
  ASSUME TypeOK, RefIntegrity, OneRowPerMachine, NEW e, DeleteEndpoint(e)
  PROVE  Inventory!Next \/ RegistryStays
<1>. DEFINE m == endpoints[e].machine
            D == {d \in DOMAIN deployments : deployments[d].endpoint = e}
<1>1. /\ endpoints' = Without(endpoints, {e})
      /\ deployments' = Without(deployments, D)
      /\ UNCHANGED tripwires
  BY DEF DeleteEndpoint
<1>2. /\ DOMAIN endpoints' = DOMAIN endpoints \ {e}
      /\ \A f \in DOMAIN endpoints \ {e} : endpoints'[f] = endpoints[f]
      /\ DOMAIN deployments' = DOMAIN deployments \ D
      /\ \A d \in DOMAIN deployments \ D : deployments'[d] = deployments[d]
  BY <1>1 DEF Without
<1>3. \A d \in DOMAIN deployments \ D : Plant(d)' = Plant(d)
  BY <1>2 DEF RefIntegrity, Plant
<1>4. Plants' = {Plant(d) : d \in DOMAIN deployments \ D}
  <2>1. Plants' = {Plant(d)' : d \in DOMAIN deployments'} BY DEF Plants
  <2>. QED BY <1>2, <1>3, <2>1
<1>5. CASE e \in DOMAIN endpoints
  <2>1. Hosts' = Hosts \ {m} BY <1>2, <1>5 DEF Hosts, OneRowPerMachine
  <2>2. Flagged' = Flagged \ {m} BY <1>2, <1>5 DEF Flagged, OneRowPerMachine
  <2>3. \A d \in DOMAIN deployments : Plant(d).host # m <=> d \notin D
    BY <1>5, PlantFields DEF RefIntegrity, OneRowPerMachine
  <2>4. Plants' = {p \in Plants : p.host # m} BY <1>4, <2>3 DEF Plants
  <2>5. m \in Hosts /\ m \in Machines
    BY <1>5 DEF Hosts, TypeOK, TablesTyped, EndpointRows
  <2>6. Inventory!Remove(m)
    BY <1>1, <2>1, <2>2, <2>4, <2>5 DEF Inventory!Remove
  <2>. QED BY <2>5, <2>6 DEF Inventory!Next
<1>6. CASE e \notin DOMAIN endpoints
  <2>1. D = {} BY <1>6 DEF RefIntegrity
  <2>2. Plants' = Plants BY <1>4, <2>1 DEF Plants
  <2>3. RowsStay BY <1>2, <1>6 DEF RowsStay
  <2>. QED BY <1>1, <2>2, <2>3, HostsStay DEF RegistryStays
<1>. QED BY <1>5, <1>6

\* A state written by a report or an alert is the state of that one plant.
LEMMA Reported ==
  ASSUME TypeOK, RefIntegrity, OneInstancePerPair, OneRowPerMachine, NEW x,
         NEW s \in {"planted", "failed"}, SetState(x, s),
         UNCHANGED <<tripwires, endpoints>>
  PROVE  Inventory!Next \/ RegistryStays
<1>1. Hosts' = Hosts /\ Flagged' = Flagged BY DEF Hosts, Flagged
<1>2. /\ DOMAIN deployments' = DOMAIN deployments
      /\ \A d \in DOMAIN deployments \ {x} : deployments'[d] = deployments[d]
  BY DEF SetState
<1>3. \A d \in DOMAIN deployments \ {x} : Plant(d)' = Plant(d)
  BY <1>2 DEF Plant
<1>4. Plants' = {Plant(d)' : d \in DOMAIN deployments}
  BY <1>2 DEF Plants
<1>5. CASE x \in DOMAIN deployments
  <2>. DEFINE p == Plant(x)
              q == [p EXCEPT !.state = s]
  <2>1. Plant(x)' = q
    <3>1. deployments[x] \in DeploymentRows BY <1>5 DEF TypeOK, TablesTyped
    <3>2. deployments'[x] = [deployments[x] EXCEPT !.state = s]
      BY <1>5 DEF SetState
    <3>3. /\ deployments'[x].tripwire = deployments[x].tripwire
          /\ deployments'[x].endpoint = deployments[x].endpoint
          /\ deployments'[x].state = s
      BY ONLY <3>1, <3>2 DEF DeploymentRows
    <3>. QED BY <3>3 DEF Plant
  <2>2. \A d \in DOMAIN deployments \ {x} : Plant(d) # p
    BY <1>5, PlantsDiffer
  <2>. HIDE DEF q
  <2>3. Plants' = {Plant(d) : d \in DOMAIN deployments \ {x}} \cup {q}
    <3>1. Plants' = {Plant(d)' : d \in DOMAIN deployments \ {x}} \cup {Plant(x)'}
      BY <1>4, <1>5
    <3>. QED BY <1>3, <2>1, <3>1
  <2>4. Plants = {Plant(d) : d \in DOMAIN deployments \ {x}} \cup {p}
    BY <1>5 DEF Plants
  <2>5. Plants' = (Plants \ {p}) \cup {q} BY <2>2, <2>3, <2>4
  <2>6. p \in Plants BY <2>4
  <2>7. Inventory!Report(p, s)
    BY <1>1, <2>5, <2>6 DEF Inventory!Report, q
  <2>8. s \in Inventory!States BY DEF Inventory!States
  <2>. QED BY <2>6, <2>7, <2>8 DEF Inventory!Next
<1>6. CASE x \notin DOMAIN deployments
  <2>1. Plants' = Plants BY <1>3, <1>4, <1>6 DEF Plants
  <2>. QED BY <1>1, <2>1 DEF RegistryStays
<1>. QED BY <1>5, <1>6

\* An INSERT of a row enrolls its host, or raises.
LEMMA Enrolled ==
  ASSUME TypeOK, RefIntegrity, NEW r \in Requests, Coherent(r), EnrollInsert(r)
  PROVE  Inventory!Next \/ RegistryStays
<1>. DEFINE m == request[r].machine
<1>1. /\ UNCHANGED <<tripwires, deployments>>
      /\ \/ UNCHANGED endpoints
         \/ /\ \A e \in DOMAIN endpoints : endpoints[e].machine # m
            /\ \E e \in Endpoints \ issued : \E row :
                 /\ endpoints' = Insert(endpoints, e, row)
                 /\ row.machine = m /\ row.flagged = FALSE
  <2>1. UNCHANGED <<tripwires, deployments>> BY Zenon DEF EnrollInsert
  <2>2. \/ UNCHANGED endpoints
        \/ /\ \A e \in DOMAIN endpoints : endpoints[e].machine # m
           /\ \E e \in Endpoints \ issued :
                endpoints' = Insert(endpoints, e,
                                    [machine |-> m, flagged |-> FALSE,
                                     ephemeral |-> request[r].ephemeral,
                                     seen |-> "recent"])
    BY Zenon DEF EnrollInsert
  <2>. QED BY <2>1, <2>2
<1>2. CASE UNCHANGED endpoints
  <2>1. RowsStay BY <1>2 DEF RowsStay
  <2>. QED BY <1>1, <2>1, TablesStay
<1>3. ASSUME \A e \in DOMAIN endpoints : endpoints[e].machine # m,
             NEW e \in Endpoints \ issued, NEW row,
             endpoints' = Insert(endpoints, e, row),
             row.machine = m, row.flagged = FALSE
      PROVE  Inventory!Next
  <2>1. /\ DOMAIN endpoints' = DOMAIN endpoints \cup {e}
        /\ e \notin DOMAIN endpoints /\ endpoints'[e] = row
        /\ \A f \in DOMAIN endpoints : endpoints'[f] = endpoints[f]
    BY <1>3, InsertDomain DEF Insert, TypeOK, TablesTyped
  <2>2. m \in Machines BY Zenon DEF EnrollInsert, Coherent
  <2>3. m \notin Hosts BY <1>3 DEF Hosts
  <2>4. Hosts' = Hosts \cup {m} BY <1>3, <2>1 DEF Hosts
  <2>5. Flagged' = Flagged BY <1>3, <2>1 DEF Flagged
  <2>6. Plants' = Plants
    <3>1. \A d \in DOMAIN deployments : Plant(d)' = Plant(d)
      BY <1>1, <2>1 DEF RefIntegrity, Plant
    <3>2. Plants' = {Plant(d)' : d \in DOMAIN deployments} BY <1>1 DEF Plants
    <3>. QED BY <3>1, <3>2 DEF Plants
  <2>7. Inventory!Enroll(m)
    BY <1>1, <2>3, <2>4, <2>5, <2>6 DEF Inventory!Enroll
  <2>. QED BY <2>2, <2>7 DEF Inventory!Next
<1>. QED BY Zenon, <1>1, <1>2, <1>3

\* A decommission flags the host, unless it is flagged or gone already.
LEMMA DecommissionFlags ==
  ASSUME TypeOK, RefIntegrity, OneRowPerMachine, NEW r \in Requests,
         DecommissionFlag(r)
  PROVE  Inventory!Next \/ RegistryStays
<1>. DEFINE e == request[r].ep
            m == endpoints[e].machine
<1>1. UNCHANGED <<tripwires, deployments>> BY DEF DecommissionFlag
<1>2. CASE UNCHANGED endpoints
  <2>1. RowsStay BY <1>2 DEF RowsStay
  <2>. QED BY <1>1, <2>1, TablesStay
<1>3. CASE /\ e \in DOMAIN endpoints
           /\ endpoints' = [endpoints EXCEPT ![e].flagged = TRUE]
  <2>0. endpoints \in [DOMAIN endpoints -> EndpointRows]
    BY DEF TypeOK, TablesTyped
  <2>1. /\ DOMAIN endpoints' = DOMAIN endpoints
        /\ endpoints'[e].flagged /\ endpoints'[e].machine = m
        /\ \A f \in DOMAIN endpoints \ {e} : endpoints'[f] = endpoints[f]
    BY <1>3, <2>0 DEF EndpointRows
  <2>2. CASE endpoints[e].flagged
    <3>1. RowsStay BY <1>3, <2>0, <2>1, <2>2 DEF RowsStay, EndpointRows
    <3>. QED BY <1>1, <3>1, TablesStay
  <2>3. CASE ~endpoints[e].flagged
    <3>1. m \in Hosts \ Flagged /\ m \in Machines
      BY <1>3, <2>0, <2>3 DEF Hosts, Flagged, OneRowPerMachine, EndpointRows
    <3>2. Hosts' = Hosts BY <1>3, <2>1 DEF Hosts
    <3>3. Flagged' = Flagged \cup {m} BY <1>3, <2>1 DEF Flagged
    <3>4. Plants' = Plants
      <4>1. \A d \in DOMAIN deployments : Plant(d)' = Plant(d)
        BY <1>1, <2>1 DEF RefIntegrity, Plant
      <4>2. Plants' = {Plant(d)' : d \in DOMAIN deployments} BY <1>1 DEF Plants
      <4>. QED BY <4>1, <4>2 DEF Plants
    <3>5. Inventory!Flag(m)
      BY <1>1, <3>1, <3>2, <3>3, <3>4 DEF Inventory!Flag
    <3>. QED BY <3>1, <3>5 DEF Inventory!Next
  <2>. QED BY <2>2, <2>3
<1>. QED BY <1>2, <1>3 DEF DecommissionFlag

\* Every write is one operation of the registry, or none.
LEMMA WriteRegistry ==
  ASSUME IndInv, OneRowPerMachine, NEW r \in Requests, Write(r)
  PROVE  Inventory!Next \/ RegistryStays
<1>0. /\ TypeOK /\ RefIntegrity /\ OneInstancePerPair /\ Coherent(r)
      /\ endpoints \in [DOMAIN endpoints -> EndpointRows]
      /\ tripwires \subseteq Tripwires
      /\ request[r].state \in {"planted", "failed"}
  BY DEF IndInv, TypeOK, TablesTyped, Handlers
<1>1. CASE DeleteTripwireRows(r) BY <1>0, <1>1, DropsTripwire
<1>2. CASE UnassignDelete(r) BY <1>0, <1>2, Unassigned
<1>3. CASE InsertDeployment(r) BY <1>0, <1>3, Assigned
<1>4. CASE EnrollInsert(r) BY <1>0, <1>4, Enrolled
<1>5. CASE DecommissionFlag(r) BY <1>0, <1>5, DecommissionFlags
<1>6. CASE RemoveRows(r) \/ Prune(r)
  <2>1. DeleteEndpoint(request[r].ep) BY Zenon, <1>6 DEF RemoveRows, Prune
  <2>. QED BY <1>0, <2>1, RemovesHost
<1>7. CASE ReportSet(r)
  <2>1. SetState(request[r].dp, request[r].state) /\ UNCHANGED <<tripwires, endpoints>>
    BY Zenon, <1>7 DEF ReportSet
  <2>. QED BY <1>0, <2>1, Reported
<1>8. CASE TriggerPlant(r)
  <2>1. SetState(request[r].dp, "planted") /\ UNCHANGED <<tripwires, endpoints>>
    BY Zenon, <1>8 DEF TriggerPlant
  <2>. QED BY <1>0, <2>1, Reported
<1>9. CASE EnrollUpdate(r) \/ Touch(r)
  <2>1. UNCHANGED <<tripwires, deployments>>
    BY Zenon, <1>9 DEF EnrollUpdate, Touch
  <2>2. RowsStay BY <1>0, <1>9 DEF EnrollUpdate, Touch, RowsStay, EndpointRows
  <2>. QED BY <1>0, <2>1, <2>2, TablesStay
<1>10. CASE PollAnswer(r) \/ TriggerAlert(r) \/ TriggerSchedule(r) \/ ResolveSet(r)
  <2>1. UNCHANGED <<tripwires, endpoints, deployments>>
    BY Zenon, <1>10 DEF PollAnswer, tables, TriggerAlert, TriggerSchedule,
                        ResolveSet, Close
  <2>2. RowsStay BY <2>1 DEF RowsStay
  <2>. QED BY <1>0, <2>1, <2>2, TablesStay
<1>. QED BY Zenon, <1>1, <1>2, <1>3, <1>4, <1>5, <1>6, <1>7, <1>8, <1>9, <1>10
     DEF Write

\* Outside the handlers a tripwire is created, and nothing else happens to the
\* registry.
LEMMA BackgroundRegistry ==
  ASSUME IndInv, Background
  PROVE  Inventory!Next \/ RegistryStays
<1>0. /\ RefIntegrity /\ UNCHANGED deployments
      /\ endpoints \in [DOMAIN endpoints -> EndpointRows]
      /\ tripwires \subseteq issued
  BY BackgroundRows DEF IndInv, TypeOK, TablesTyped
<1>1. ASSUME NEW t \in Tripwires, CreateTripwire(t)
      PROVE  Inventory!Next
  <2>1. /\ t \notin tripwires /\ tripwires' = tripwires \cup {t}
        /\ UNCHANGED <<endpoints, deployments>>
    BY <1>0, <1>1 DEF CreateTripwire, InsertTripwire
  <2>2. RowsStay BY <2>1 DEF RowsStay
  <2>3. UNCHANGED <<Hosts, Flagged, Plants>>
    BY <1>0, <2>1, <2>2, HostsStay, PlantsStay
  <2>4. Inventory!Create(t) BY <2>1, <2>3 DEF Inventory!Create
  <2>. QED BY <2>4 DEF Inventory!Next
<1>2. ASSUME NEW e \in Endpoints, GrowOld(e)
      PROVE  RegistryStays
  <2>1. RowsStay BY <1>0, <1>2 DEF GrowOld, RowsStay, EndpointRows
  <2>2. UNCHANGED tripwires BY <1>2 DEF GrowOld
  <2>. QED BY <1>0, <2>1, <2>2, TablesStay
<1>3. ASSUME UNCHANGED <<tripwires, endpoints>>
      PROVE  RegistryStays
  <2>1. RowsStay BY <1>3 DEF RowsStay
  <2>. QED BY <1>0, <1>3, <2>1, TablesStay
<1>. QED BY Zenon, <1>1, <1>2, <1>3
     DEF Background, Deliver, ResolveDeployment, ResolveAll, Restart, Close, tables

\* No step gives a host a second row: an INSERT has looked for the first.
LEMMA OneRowStep ==
  ASSUME IndInv, OneRowPerMachine, Next
  PROVE  OneRowPerMachine'
<1>0. DOMAIN endpoints \subseteq issued BY DEF IndInv, TypeOK, TablesTyped
<1>1. ASSUME RowsStep, DOMAIN endpoints' \subseteq DOMAIN endpoints
      PROVE  OneRowPerMachine'
  BY <1>1 DEF RowsStep, OneRowPerMachine
<1>2. CASE Background BY <1>1, <1>2, BackgroundRows
<1>3. ASSUME NEW r \in Requests, Begin(r) \/ Select(r)
      PROVE  OneRowPerMachine'
  <2>1. Reads BY <1>3, BeginMoves, SelectMoves DEF IndInv
  <2>. QED BY <1>1, <2>1, ReadsKeep
<1>4. ASSUME NEW r \in Requests, Write(r)
      PROVE  OneRowPerMachine'
  <2>1. RowsStep BY <1>4, WriteRows
  <2>2. CASE EnrollInsert(r)
    <3>. DEFINE m == request[r].machine
    <3>1. \/ UNCHANGED endpoints
          \/ /\ \A e \in DOMAIN endpoints : endpoints[e].machine # m
             /\ \E e \in Endpoints \ issued :
                  endpoints' = Insert(endpoints, e,
                                      [machine |-> m, flagged |-> FALSE,
                                       ephemeral |-> request[r].ephemeral,
                                       seen |-> "recent"])
      BY Zenon, <2>2 DEF EnrollInsert
    <3>2. ASSUME \A e \in DOMAIN endpoints : endpoints[e].machine # m,
                 NEW e \in Endpoints \ issued,
                 endpoints' = Insert(endpoints, e,
                                     [machine |-> m, flagged |-> FALSE,
                                      ephemeral |-> request[r].ephemeral,
                                      seen |-> "recent"])
          PROVE  OneRowPerMachine'
      <4>1. /\ DOMAIN endpoints' = DOMAIN endpoints \cup {e}
            /\ e \notin DOMAIN endpoints /\ endpoints'[e].machine = m
            /\ \A f \in DOMAIN endpoints : endpoints'[f] = endpoints[f]
        BY <1>0, <3>2, InsertDomain DEF Insert
      <4>2. \A f \in DOMAIN endpoints :
              /\ endpoints'[f].machine = endpoints[f].machine
              /\ endpoints'[f].machine # endpoints'[e].machine
        BY <3>2, <4>1
      <4>3. ASSUME NEW f \in DOMAIN endpoints', NEW g \in DOMAIN endpoints',
                   endpoints'[f].machine = endpoints'[g].machine
            PROVE  f = g
        BY ONLY <4>1, <4>2, <4>3, OneRowPerMachine DEF OneRowPerMachine
      <4>. QED BY ONLY <4>3 DEF OneRowPerMachine
    <3>3. CASE UNCHANGED endpoints BY <1>1, <2>1, <3>3
    <3>. QED BY Zenon, <3>1, <3>2, <3>3
  <2>3. CASE ~EnrollInsert(r)
    <3>1. DOMAIN endpoints' \subseteq DOMAIN endpoints
      <4>1. CASE RemoveRows(r) \/ Prune(r)
        BY <4>1 DEF RemoveRows, Prune, DeleteEndpoint, Without
      <4>2. CASE EnrollUpdate(r) \/ DecommissionFlag(r) \/ Touch(r)
        BY <4>2 DEF EnrollUpdate, DecommissionFlag, Touch
      <4>3. CASE UNCHANGED endpoints BY <4>3
      <4>. QED BY Zenon, <1>4, <2>3, <4>1, <4>2, <4>3
           DEF Write, DeleteTripwireRows, UnassignDelete, InsertDeployment,
               PollAnswer, tables, ReportSet, TriggerAlert, CreateAlert,
               TriggerPlant, TriggerSchedule, ResolveSet, Close
    <3>. QED BY <1>1, <2>1, <3>1
  <2>. QED BY <2>2, <2>3
<1>. QED BY <1>2, <1>3, <1>4 DEF Next

\* A server without rows is a registry without entries.
LEMMA InitRegistry == Init => Inventory!Init /\ OneRowPerMachine
<1>. SUFFICES ASSUME Init PROVE Inventory!Init /\ OneRowPerMachine OBVIOUS
<1>1. tripwires = {} /\ DOMAIN endpoints = {} /\ DOMAIN deployments = {}
  BY DEF Init
<1>. QED BY <1>1 DEF Inventory!Init, Hosts, Flagged, Plants, OneRowPerMachine

\* Every step of the server is one of the registry or leaves it alone.
LEMMA NextRegistry ==
  IndInv /\ OneRowPerMachine /\ [Next]_vars
    => /\ [Inventory!Next]_<<tripwires, Hosts, Flagged, Plants>>
       /\ OneRowPerMachine'
<1>. SUFFICES ASSUME IndInv, OneRowPerMachine, Next \/ UNCHANGED vars
              PROVE  /\ Inventory!Next \/ RegistryStays
                     /\ OneRowPerMachine'
  BY DEF RegistryStays
<1>1. CASE UNCHANGED vars
  <2>1. UNCHANGED <<tripwires, endpoints, deployments>> /\ RefIntegrity
    BY <1>1 DEF vars, IndInv
  <2>2. RowsStay /\ OneRowPerMachine' BY <2>1 DEF RowsStay, OneRowPerMachine
  <2>. QED BY <2>1, <2>2, TablesStay
<1>2. CASE Next
  <2>1. OneRowPerMachine' BY <1>2, OneRowStep
  <2>2. ASSUME NEW r \in Requests, Begin(r) \/ Select(r)
        PROVE  RegistryStays
    <3>1. Reads /\ RefIntegrity BY <2>2, BeginMoves, SelectMoves DEF IndInv
    <3>2. UNCHANGED <<tripwires, endpoints, deployments>>
      BY <3>1 DEF Reads, tables
    <3>3. RowsStay BY <3>2 DEF RowsStay
    <3>. QED BY <3>1, <3>2, <3>3, TablesStay
  <2>. QED BY <1>2, <2>1, <2>2, BackgroundRegistry, WriteRegistry DEF Next
<1>. QED BY <1>1, <1>2

\* However the statements of any number of handlers interleave, a crash
\* included, the server behaves as a registry whose operations are atomic: hosts
\* enroll once, flags stay, and removals take all their plants.
THEOREM RegistryImplemented == Spec => ImplementsRegistry
<1>1. IndInv /\ OneRowPerMachine /\ [Next]_vars => OneRowPerMachine'
  BY NextRegistry
<1>2. Init => OneRowPerMachine BY InitRegistry
<1>3. Spec => []OneRowPerMachine BY <1>1, <1>2, Inductive, PTL DEF Spec
<1>. QED BY <1>3, InitRegistry, NextRegistry, Inductive, PTL
         DEF Spec, ImplementsRegistry, Inventory!Spec
=============================================================================
