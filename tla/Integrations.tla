---------------------------- MODULE Integrations ----------------------------
(***************************************************************************)
(* The table of integrations and the handlers that change it: save, delete *)
(* and connection test (api/routes.py), with the read-merge-upsert of      *)
(* services/integrations.py and store.upsert_integration, and the          *)
(* encryption at rest of services/secrets_crypto.py.                       *)
(*                                                                         *)
(* The handlers run in the thread pool, so any of them may run between two *)
(* database calls of another.  A config is what each field of the plugin's *)
(* form holds; a row remembers the key it was packed with, and only that   *)
(* key (or no key, for plaintext) unpacks it.  Requests refused by their   *)
(* first checks (404, 400) change nothing and are not steps.               *)
(***************************************************************************)
EXTENDS Naturals, FiniteSets

CONSTANTS AlertPlugins, DeployPlugins,  \* plugins by kind, as on disk
          Fields, Values,               \* what a config may hold
          Keys,                         \* values of THUMPER_SECRET_KEY
          Requests,                     \* bound: requests in progress
          Ops,                          \* the operations clients use
          None

AllOps == {"Save", "Delete", "Test", "Distribute"}

Plugins == AlertPlugins \cup DeployPlugins

ASSUME IntegrationsAssumption ==
  /\ AlertPlugins \cap DeployPlugins = {}
  /\ None \notin Plugins \cup Values \cup Keys
  /\ Ops \subseteq AllOps

VARIABLES integrations,  \* table integrations, keyed by plugin
          key,           \* the secret key of this run of the server, or None
          request        \* the handlers in progress

Configs == [Fields -> Values \cup {None}]
Empty == [f \in Fields |-> None]

\* What encrypts the row, the config, and last_test_status.
Rows == [key : Keys \cup {None}, config : Configs,
         tested : {"none", "ok", "failed"}]

NewRow == [key |-> None, config |-> Empty, tested |-> "none"]

\* The local variables of a handler: `config' the merged or the tested config,
\* `same' whether the UPDATE would write what the row already held, `todo' and
\* `unreadable' the rows distribute() has loaded, `results' its answer.  `alone'
\* (not in the code): no other save or delete of the plugin since the read.
Handlers ==
  [op : {"none", "Save", "Test", "Distribute"},
   pc : {"idle", "find", "insert", "refind", "update", "probe", "next"},
   plugin : Plugins \cup {None}, config : Configs, same : BOOLEAN,
   status : {"none", "ok", "failed"}, alone : BOOLEAN,
   todo : SUBSET Plugins, unreadable : SUBSET Plugins,
   listed : SUBSET Plugins, results : SUBSET Plugins]

Idle == [op |-> "none", pc |-> "idle", plugin |-> None, config |-> Empty,
         same |-> FALSE, status |-> "none", alone |-> FALSE,
         todo |-> {}, unreadable |-> {}, listed |-> {}, results |-> {}]

IntegrationsTypeOK ==
  /\ DOMAIN integrations \subseteq Plugins
  /\ integrations \in [DOMAIN integrations -> Rows]
  /\ key \in Keys \cup {None}
  /\ request \in [Requests -> Handlers]

IntegrationsInit ==
  /\ integrations = [p \in {} |-> None]
  /\ key \in Keys \cup {None}
  /\ request = [r \in Requests |-> Idle]

-----------------------------------------------------------------------------
\* Helpers.

\* unpack_config succeeds: plaintext passes through, a key must be the same.
Readable(row) == row.key \in {None, key}

\* pack_config: the config is encrypted under the key of this run of the server,
\* or stored as it is when there is none.
Pack(row, config) == [row EXCEPT !.key = key, !.config = config]

\* saved_config
SavedConfig(p) ==
  IF p \in DOMAIN integrations THEN integrations[p].config ELSE Empty

\* Mutant of MergeConfig: what the form sends replaces the config.
MergeConfigBlank(existing, incoming) == incoming

\* merge_config: non-empty incoming values over the existing ones.
MergeConfig(existing, incoming) ==
  [f \in Fields |-> IF incoming[f] = None THEN existing[f] ELSE incoming[f]]

CanStart(r, op) == op \in Ops /\ request[r].pc = "idle"
At(r, op, pc) == request[r].op = op /\ request[r].pc = pc
Return(r) == request' = [request EXCEPT ![r] = Idle]

Put(p, row) ==
  integrations' = [q \in DOMAIN integrations \cup {p} |->
                     IF q = p THEN row ELSE integrations[q]]

Saving(p) == {r \in Requests : request[r].op = "Save" /\ request[r].plugin = p}

\* The saves of p that had already read its config are no longer alone.
Disturbed(p) ==
  [r \in Requests |-> [request[r] EXCEPT !.alone = @ /\ r \notin Saving(p)]]

-----------------------------------------------------------------------------
\* save_integration

\* saved_config and merge_config.  A row that cannot be unpacked ends the
\* request here (500), so this is not a step for it.
Save(r, p, incoming) ==
  /\ CanStart(r, "Save")
  /\ p \in DOMAIN integrations => Readable(integrations[p])
  /\ request' = [Disturbed(p) EXCEPT
       ![r] = [Idle EXCEPT !.op = "Save", !.pc = "find", !.plugin = p,
                           !.config = MergeConfig(SavedConfig(p), incoming),
                           !.alone = Saving(p) = {}]]
  /\ UNCHANGED <<integrations, key>>

\* The SELECTs of upsert_integration, before its INSERT and after a lost one.
\* After a lost INSERT a row that is gone again is None: AttributeError.
SaveFind(r) ==
  LET h == request[r]
      p == h.plugin
      found == p \in DOMAIN integrations
  IN
  /\ h.op = "Save" /\ h.pc \in {"find", "refind"}
  /\ \/ /\ found
        /\ request' = [request EXCEPT
             ![r].pc = "update",
             ![r].same = /\ key = None /\ integrations[p].key = None
                         /\ integrations[p].config = h.config]
     \/ /\ ~found /\ h.pc = "find"
        /\ request' = [request EXCEPT ![r].pc = "insert"]
     \/ ~found /\ h.pc = "refind" /\ Return(r)
  /\ UNCHANGED <<integrations, key>>

SaveInsert(r) ==
  LET p == request[r].plugin IN
  /\ At(r, "Save", "insert")
  /\ \/ /\ p \notin DOMAIN integrations
        /\ Put(p, Pack(NewRow, request[r].config))
        /\ Return(r)
     \/ /\ p \in DOMAIN integrations  \* IntegrityError, rollback
        /\ request' = [request EXCEPT ![r].pc = "refind"]
        /\ UNCHANGED integrations
  /\ UNCHANGED key

\* The UPDATE writes the columns that differ from what was loaded; if the row
\* is gone it matches nothing and raises.
SaveUpdate(r) ==
  LET p == request[r].plugin IN
  /\ At(r, "Save", "update")
  /\ IF p \in DOMAIN integrations /\ ~request[r].same
     THEN Put(p, Pack(integrations[p], request[r].config))
     ELSE UNCHANGED integrations
  /\ Return(r)
  /\ UNCHANGED key

-----------------------------------------------------------------------------
\* delete_integration

Delete(p) ==
  /\ "Delete" \in Ops
  /\ p \in DOMAIN integrations
  /\ integrations' = [q \in DOMAIN integrations \ {p} |-> integrations[q]]
  /\ request' = Disturbed(p)
  /\ UNCHANGED key

-----------------------------------------------------------------------------
\* test_integration: read, call the plugin, SELECT the row again, UPDATE.

Test(r, p) ==
  /\ CanStart(r, "Test")
  /\ p \in AlertPlugins \cap DOMAIN integrations
  /\ Readable(integrations[p]) /\ integrations[p].config # Empty
  /\ request' = [request EXCEPT
       ![r] = [Idle EXCEPT !.op = "Test", !.pc = "probe", !.plugin = p]]
  /\ UNCHANGED <<integrations, key>>

TestProbe(r, status) ==
  /\ At(r, "Test", "probe")
  /\ request' = [request EXCEPT ![r].pc = "find", ![r].status = status]
  /\ UNCHANGED <<integrations, key>>

TestFind(r) ==
  /\ At(r, "Test", "find")
  /\ \/ /\ request[r].plugin \in DOMAIN integrations
        /\ request' = [request EXCEPT ![r].pc = "update"]
     \/ request[r].plugin \notin DOMAIN integrations /\ Return(r)
  /\ UNCHANGED <<integrations, key>>

TestUpdate(r) ==
  LET p == request[r].plugin IN
  /\ At(r, "Test", "update")
  /\ IF p \in DOMAIN integrations
     THEN Put(p, [integrations[p] EXCEPT !.tested = request[r].status])
     ELSE UNCHANGED integrations
  /\ Return(r)
  /\ UNCHANGED key

-----------------------------------------------------------------------------
\* services/deploy.py distribute(): the rows are loaded once and never again.

Distribute(r) ==
  LET loaded == DeployPlugins \cap DOMAIN integrations IN
  /\ CanStart(r, "Distribute")
  /\ loaded # {}
  /\ request' = [request EXCEPT
       ![r] = [Idle EXCEPT !.op = "Distribute", !.pc = "next",
                           !.todo = loaded, !.listed = loaded,
                           !.unreadable = {p \in loaded :
                                             ~Readable(integrations[p])}]]
  /\ UNCHANGED <<integrations, key>>

\* Mutant of DistributeNext: the config is unpacked outside the try.
DistributeNextRaises(r, p) ==
  /\ At(r, "Distribute", "next")
  /\ p \in request[r].todo
  /\ IF p \in request[r].unreadable
     THEN request' = [request EXCEPT ![r].todo = {}]
     ELSE request' = [request EXCEPT ![r].todo = @ \ {p},
                                     ![r].results = @ \cup {p}]
  /\ UNCHANGED <<integrations, key>>

\* Unpacking, loading and deploying are inside the try: one result per row.
DistributeNext(r, p) ==
  /\ At(r, "Distribute", "next")
  /\ p \in request[r].todo
  /\ request' = [request EXCEPT ![r].todo = @ \ {p},
                                ![r].results = @ \cup {p}]
  /\ UNCHANGED <<integrations, key>>

DistributeReturn(r) ==
  /\ At(r, "Distribute", "next")
  /\ request[r].todo = {}
  /\ Return(r)
  /\ UNCHANGED <<integrations, key>>

-----------------------------------------------------------------------------
\* The server stops and starts again, perhaps under another key.

Restart ==
  /\ key' \in Keys \cup {None}
  /\ request' = [r \in Requests |-> Idle]
  /\ UNCHANGED integrations

HandlerStep(r) ==
  \/ SaveFind(r) \/ SaveInsert(r) \/ SaveUpdate(r)
  \/ TestFind(r) \/ TestUpdate(r) \/ DistributeReturn(r)
  \/ \E s \in {"ok", "failed"} : TestProbe(r, s)
  \/ \E p \in Plugins : DistributeNext(r, p)

Request(r) ==
  \/ \E p \in Plugins, c \in Configs : Save(r, p, c)
  \/ \E p \in AlertPlugins : Test(r, p)
  \/ Distribute(r)
=============================================================================
