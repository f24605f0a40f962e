---------------------------- MODULE AlertFanout -----------------------------
(***************************************************************************)
(* services/alerting.py: the background task that hands an alert to every  *)
(* configured alert plugin and records each outcome in delivery_attempts,  *)
(* composed with the handlers that change the table of integrations while  *)
(* it runs.                                                                *)
(*                                                                         *)
(* The task loads all rows in one SELECT and walks over the row objects.   *)
(* Each recorded outcome is a commit, and each failed one a rollback: both *)
(* expire every object of the session, so from the second plugin on the    *)
(* loop reads each row again, finds what other requests have made of it,   *)
(* and raises if it is gone.  What raises outside the two `try' blocks     *)
(* ends the task (deliver_alert swallows it).  The tasks live in memory:   *)
(* the server loses them when it stops.                                    *)
(***************************************************************************)
EXTENDS Integrations

CONSTANT Alerts

VARIABLES task,      \* the background task of each alert
          received,  \* <<plugin, outcome>> of the calls made for each alert
          attempts   \* table delivery_attempts, per alert

vars == <<integrations, key, request, task, received, attempts>>

\* `todo' are the row objects the loop has not visited, `unreadable' those whose
\* loaded config does not unpack.  `listed' and `spoiled' (not in the code): the
\* rows the SELECT returned, and those of them that were unreadable then or have
\* been deleted since.
Tasks ==
  [pc : {"none", "queued", "next", "call", "record", "ended", "lost"},
   plugin : Plugins \cup {None}, status : {"none", "ok", "failed"},
   expired : BOOLEAN, todo : SUBSET Plugins, unreadable : SUBSET Plugins,
   listed : SUBSET Plugins, spoiled : SUBSET Plugins]

NoTask == [pc |-> "none", plugin |-> None, status |-> "none",
           expired |-> FALSE, todo |-> {}, unreadable |-> {}, listed |-> {},
           spoiled |-> {}]

TypeOK ==
  /\ IntegrationsTypeOK
  /\ task \in [Alerts -> Tasks]
  /\ received \in [Alerts -> SUBSET (AlertPlugins \X {"ok", "failed"})]
  /\ attempts \in [Alerts -> SUBSET (AlertPlugins \X {"ok", "failed"})]

Init ==
  /\ IntegrationsInit
  /\ task = [a \in Alerts |-> NoTask]
  /\ received = [a \in Alerts |-> {}]
  /\ attempts = [a \in Alerts |-> {}]

InProgress(a) == task[a].pc \in {"queued", "next", "call", "record"}
Unchanged == UNCHANGED <<integrations, key, request>>

-----------------------------------------------------------------------------
\* deliver_alert and route_alert

\* The trigger handler schedules the task (ControlPlane!TriggerSchedule).
Schedule(a) ==
  /\ task[a].pc = "none"
  /\ task' = [task EXCEPT ![a].pc = "queued"]
  /\ UNCHANGED <<received, attempts>> /\ Unchanged

ListRows(a) ==
  LET rows == DOMAIN integrations
      bad == {p \in rows : ~Readable(integrations[p])}
  IN
  /\ task[a].pc = "queued"
  /\ task' = [task EXCEPT ![a] = [@ EXCEPT !.pc = "next", !.todo = rows,
                                           !.unreadable = bad, !.listed = rows,
                                           !.spoiled = bad]]
  /\ UNCHANGED <<received, attempts>> /\ Unchanged

\* The task is over: the loop is done, or something raised.
Finish(a) == task' = [task EXCEPT ![a].pc = "ended", ![a].todo = {}]

Gone(a, p) == task[a].expired /\ p \notin DOMAIN integrations

Unpacks(a, p) == IF task[a].expired THEN Readable(integrations[p])
                                    ELSE p \notin task[a].unreadable

\* Mutant of VisitRow: the loop does not look at the kind of the row.
VisitRowAnyKind(a, p) ==
  /\ task[a].pc = "next"
  /\ p \in task[a].todo
  /\ IF Gone(a, p) \/ ~Unpacks(a, p)
     THEN Finish(a)
     ELSE task' = [task EXCEPT ![a].pc = "call", ![a].plugin = p,
                               ![a].todo = @ \ {p}]
  /\ UNCHANGED <<received, attempts>> /\ Unchanged

\* One turn of the loop up to unpack_config, which stands outside the try.
VisitRow(a, p) ==
  /\ task[a].pc = "next"
  /\ p \in task[a].todo
  /\ \/ Gone(a, p) /\ Finish(a)
     \/ /\ ~Gone(a, p) /\ p \in DeployPlugins
        /\ task' = [task EXCEPT ![a].todo = @ \ {p}]
     \/ ~Gone(a, p) /\ p \in AlertPlugins /\ ~Unpacks(a, p) /\ Finish(a)
     \/ /\ ~Gone(a, p) /\ p \in AlertPlugins /\ Unpacks(a, p)
        /\ task' = [task EXCEPT ![a].pc = "call", ![a].plugin = p,
                                ![a].todo = @ \ {p}]
  /\ UNCHANGED <<received, attempts>> /\ Unchanged

\* Mutant of CallPlugin: nothing catches what the plugin raises.
CallPluginUncaught(a, outcome) ==
  /\ task[a].pc = "call"
  /\ received' = [received EXCEPT ![a] = @ \cup {<<task[a].plugin, outcome>>}]
  /\ IF outcome = "failed"
     THEN Finish(a)
     ELSE task' = [task EXCEPT ![a].pc = "record", ![a].status = outcome]
  /\ UNCHANGED attempts /\ Unchanged

\* plugin.alert(event) returns or raises; its HTTP request has a timeout.
CallPlugin(a, outcome) ==
  /\ task[a].pc = "call"
  /\ received' = [received EXCEPT ![a] = @ \cup {<<task[a].plugin, outcome>>}]
  /\ task' = [task EXCEPT ![a].pc = "record", ![a].status = outcome]
  /\ UNCHANGED attempts /\ Unchanged

NextTurn(a) ==
  task' = [task EXCEPT ![a] = [@ EXCEPT !.pc = "next", !.plugin = None,
                                        !.status = "none", !.expired = TRUE]]

\* Mutant of Recorded: a failed plugin is put back to be tried again.
RecordedRetry(a) ==
  /\ task[a].pc = "record"
  /\ attempts' = [attempts EXCEPT
                    ![a] = @ \cup {<<task[a].plugin, task[a].status>>}]
  /\ task' = [task EXCEPT
       ![a] = [@ EXCEPT !.pc = "next", !.plugin = None, !.status = "none",
                        !.expired = TRUE,
                        !.todo = IF task[a].status = "failed"
                                 THEN @ \cup {task[a].plugin} ELSE @]]
  /\ Unchanged /\ UNCHANGED received

\* record_delivery commits its row.
Recorded(a) ==
  /\ task[a].pc = "record"
  /\ attempts' = [attempts EXCEPT
                    ![a] = @ \cup {<<task[a].plugin, task[a].status>>}]
  /\ NextTurn(a)
  /\ Unchanged /\ UNCHANGED received

\* record_delivery raises: rollback, and the outcome is only logged.
Unrecorded(a) ==
  /\ task[a].pc = "record"
  /\ NextTurn(a)
  /\ Unchanged /\ UNCHANGED <<received, attempts>>

LoopDone(a) ==
  /\ task[a].pc = "next" /\ task[a].todo = {}
  /\ Finish(a)
  /\ UNCHANGED <<received, attempts>> /\ Unchanged

TaskStep(a) ==
  \/ ListRows(a) \/ Recorded(a) \/ Unrecorded(a) \/ LoopDone(a)
  \/ \E p \in Plugins : VisitRow(a, p)
  \/ \E o \in {"ok", "failed"} : CallPlugin(a, o)

-----------------------------------------------------------------------------
\* The rest of the server

\* A row is deleted under the tasks that have loaded it.
DeleteRow(p) ==
  /\ Delete(p)
  /\ task' = [a \in Alerts |->
                [task[a] EXCEPT !.spoiled = @ \cup
                   (IF InProgress(a) THEN {p} \cap task[a].listed ELSE {})]]
  /\ UNCHANGED <<received, attempts>>

RestartServer ==
  /\ Restart
  /\ task' = [a \in Alerts |-> IF InProgress(a)
                               THEN [NoTask EXCEPT !.pc = "lost"] ELSE task[a]]
  /\ UNCHANGED <<received, attempts>>

Handler == /\ \E r \in Requests : Request(r) \/ HandlerStep(r)
           /\ UNCHANGED <<task, received, attempts>>

Next == \/ \E a \in Alerts : Schedule(a) \/ TaskStep(a)
        \/ \E p \in Plugins : DeleteRow(p)
        \/ RestartServer
        \/ Handler

\* The task's thread runs on.  Nothing obliges requests to come or to end.
Fairness == \A a \in Alerts : WF_vars(TaskStep(a))

Spec == Init /\ [][Next]_vars /\ Fairness

-----------------------------------------------------------------------------
\* Properties.

\* The delivery_attempts rows and the calls are those of the abstract delivery:
\* at most one call per plugin and alert, nothing recorded that did not happen,
\* nothing sent once the task has ended (services/alerting.py:1-4).
Promise == INSTANCE Delivery WITH
  Plugins <- AlertPlugins,
  open <- {a \in Alerts : InProgress(a)},
  over <- {a \in Alerts : task[a].pc \in {"ended", "lost"}}

DeliversOnce == Promise!Spec

\* A plugin that fails, a row that cannot be recorded and a save that changes
\* the rows under the loop keep nobody else from being told: a task that ran to
\* its end called every listed alert plugin, unless one of the rows it had
\* listed was unreadable or was deleted under it.
FanOutComplete ==
  \A a \in Alerts : task[a].pc = "ended" /\ task[a].spoiled = {} =>
    \A p \in task[a].listed \cap AlertPlugins :
      \E o \in {"ok", "failed"} : <<p, o>> \in received[a]

\* A task that was scheduled comes to an end, whatever is saved, deleted and
\* tested meanwhile, or is lost with the server.
DeliveryEnds ==
  \A a \in Alerts : InProgress(a) ~> ~InProgress(a)

\* distribute() answers for every deploy plugin that was configured when it was
\* called, though the configs may be unreadable or deleted by then.
DistributeAnswersAll ==
  \A r \in Requests :
    request[r].op = "Distribute" /\ request[r].todo = {} =>
      request[r].results = request[r].listed

Wipes(p) ==
  /\ p \in DOMAIN integrations \cap DOMAIN integrations'
  /\ \E f \in Fields : /\ integrations[p].config[f] # None
                       /\ integrations'[p].config[f] = None

\* Fields left blank in the form keep what was saved, however late the save
\* commits, if no other save or delete of the plugin came in between
\* (services/integrations.py:50-51).
BlankKeepsSaved ==
  [][\A r \in Requests :
       request[r].op = "Save" /\ request[r].alone /\ request'[r] = Idle
         => ~Wipes(request[r].plugin)]_vars

\* What makes them inductive.  Of a task: nothing was sent before it listed the
\* rows, what it holds has not been sent, and while it runs the rows that nobody
\* has spoiled are there and readable.
TaskCoherent(a) ==
  LET t == task[a] IN
  /\ t.pc \in {"none", "queued"} => received[a] = {} /\ t.listed = {}
  /\ t.pc = "call" => t.plugin \in AlertPlugins \ t.todo
  /\ t.pc = "record" => <<t.plugin, t.status>> \in received[a]
  /\ t.pc = "ended" => t.todo = {}
  /\ t.todo \subseteq t.listed
  /\ t.unreadable \subseteq t.spoiled

OncePerPlugin(a) ==
  \A c \in received[a] : /\ c[1] \notin task[a].todo
                         /\ task[a].pc = "call" => c[1] # task[a].plugin

Told(a) ==
  task[a].spoiled = {} =>
    \A p \in task[a].listed \cap AlertPlugins :
      \/ p \in task[a].todo
      \/ task[a].pc = "call" /\ task[a].plugin = p
      \/ \E o \in {"ok", "failed"} : <<p, o>> \in received[a]

RowsStand(a) ==
  InProgress(a) => \A p \in task[a].listed \ task[a].spoiled :
                     p \in DOMAIN integrations /\ Readable(integrations[p])

TaskInv(a) == /\ TaskCoherent(a) /\ OncePerPlugin(a) /\ Told(a)
              /\ RowsStand(a) /\ attempts[a] \subseteq received[a]

\* Of a handler: a distribution has a result for every row it is done with, and
\* a save that is alone holds a value for every field that has one in the row.
RequestInv(r) ==
  LET h == request[r] IN
  /\ h.op = "Save" => h.plugin \in Plugins
  /\ h.op = "Distribute" => h.results \cup h.todo = h.listed
  /\ h.op = "Save" /\ h.alone =>
       /\ \A q \in Requests \ {r} : request[q].op = "Save"
                                     => request[q].plugin # h.plugin
       /\ h.plugin \in DOMAIN integrations =>
            \A f \in Fields : integrations[h.plugin].config[f] # None
                               => h.config[f] # None

IndInv == /\ TypeOK
          /\ \A a \in Alerts : TaskInv(a)
          /\ \A r \in Requests : RequestInv(r)

\* "One plugin failing must never drop the alert" (services/alerting.py:1-2):
\* no alert plugin that is readable and still configured is passed over.
OthersReached ==
  \A a \in Alerts : task[a].pc = "ended" =>
    \A p \in (task[a].listed \cap AlertPlugins) \ task[a].spoiled :
      \E o \in {"ok", "failed"} : <<p, o>> \in received[a]
=============================================================================
