--------------------------------- MODULE Deploy ---------------------------------
(***************************************************************************)
(* Distributing a tripwire through the MDM plugin: services/deploy.py      *)
(* hands it the install command, and plugins/deploy/mdm writes a script    *)
(* and a policy to a Jamf tenant through services/jamf.py.                 *)
(*                                                                         *)
(* distribute_tripwire is a plain def: two calls run in two threads, each  *)
(* with a client of its own, over one tenant that also has an              *)
(* administrator.  One step is one HTTP request.  A request may be         *)
(* refused, its answer may be lost after it took effect, and a write that  *)
(* timed out may take effect later.                                        *)
(***************************************************************************)
EXTENDS Naturals, FiniteSets, Sequences

CONSTANTS Tripwires,
          Foreign,           \* names of scripts that are not ours
          Requests,          \* bound: calls of distribute in progress
          Commands,          \* install commands (a token per start of the server)
          PageSize,          \* _SCRIPT_PAGE_SIZE
          MaxIds,            \* bound: scripts and policies ever created
          MaxFaults,         \* bound: what happens behind the server's back
          None

ASSUME DeployAssumption ==
  /\ PageSize \in Nat \ {0} /\ MaxIds \in Nat /\ MaxFaults \in Nat
  /\ Tripwires \cap Foreign = {} /\ IsFiniteSet(Foreign) /\ None \notin Tripwires

VARIABLES scripts,    \* the tenant's scripts, in the order it lists them
          policies,   \* the tenant's policies
          group,      \* the configured smart group exists
          created,    \* ids given so far
          late,       \* writes on their way whose sender has given up
          command,    \* the command this run of the server builds
          request,    \* the calls of distribute in progress
          faults,     \* counts towards MaxFaults
          disturbed,  \* not in the code: tripwires distributed by two calls at
                      \* once, or while the list shifted
          delayed,    \* not in the code: tripwires with a write that timed out
          halfway     \* not in the code: tripwires a deploy of which has failed
                      \* after it found the group

vars == <<scripts, policies, group, created, late, command, request, faults,
          disturbed, delayed, halfway>>

Ids == 0 .. MaxIds

Scripts == [id : Ids, name : Tripwires \cup Foreign, body : Commands \cup {None}]
Policies == [id : Ids, name : Tripwires, script : Ids]

\* A PUT of the object `id', or a POST when id is 0.
Writes == [kind : {"script", "policy"}, id : Ids, name : Tripwires,
           body : Commands, script : Ids]

\* The local variables of the plugin and of its JamfClient: `attempt' of
\* _send_authed, `existing' the id an upsert has found, `scoped' that group_id
\* is set.
Calls ==
  [pc : {"idle", "group", "scripts", "script", "policies", "policy", "count",
         "done"},
   tripwire : Tripwires \cup {None}, attempt : 1 .. 2,
   page : Nat, existing : Ids, scoped : BOOLEAN,
   script : Ids, mdm : {"none", "pending", "failed"}]

Idle == [pc |-> "idle", tripwire |-> None, attempt |-> 1,
         page |-> 0, existing |-> 0, scoped |-> FALSE, script |-> 0,
         mdm |-> "none"]

TypeOK ==
  /\ scripts \in Seq(Scripts) /\ policies \subseteq Policies
  /\ group \in BOOLEAN /\ created \in Ids
  /\ late \subseteq Writes /\ faults \in 0 .. MaxFaults
  /\ command \in Commands
  /\ request \in [Requests -> Calls]
  /\ disturbed \subseteq Tripwires /\ delayed \subseteq Tripwires
  /\ halfway \subseteq Tripwires

Init ==
  /\ scripts \in {s \in [1 .. Cardinality(Foreign) -> Scripts] :
                    /\ \A i \in DOMAIN s : s[i].id = 0 /\ s[i].body = None
                    /\ {s[i].name : i \in DOMAIN s} = Foreign}
  /\ policies = {} /\ group \in BOOLEAN /\ created = 0 /\ late = {} /\ faults = 0
  /\ command \in Commands
  /\ request = [r \in Requests |-> Idle]
  /\ disturbed = {} /\ delayed = {} /\ halfway = {}

tenant == <<scripts, policies, created, late>>

\* Behind the server's back (the bound is the model's).
Fault == faults < MaxFaults /\ faults' = faults + 1

others == <<tenant, group, command, faults, disturbed, delayed, halfway>>
Step(r, h) == request' = [request EXCEPT ![r] = h]

-----------------------------------------------------------------------------
\* distribute()

\* build_install: the command for a tripwire, the same text every time until the
\* server is started again with other settings.
BuildInstall(t) == [tripwire_id |-> t, command |-> command]

\* What remains once the plugin has returned.
Finish(h, outcome) ==
  [Idle EXCEPT !.pc = "done", !.tripwire = h.tripwire, !.mdm = outcome]

\* deploy, up to its first request: settings that are missing, a URL that is not
\* allowed or a command of another shape end it.
Prepare(r, t) ==
  \/ Step(r, [Idle EXCEPT !.pc = "group", !.tripwire = t])
  \/ Step(r, Finish([Idle EXCEPT !.tripwire = t], "failed"))

\* distribute_tripwire, build_install
Distribute(r, t) ==
  /\ request[r].pc = "idle"
  /\ Prepare(r, t)
  /\ \/ /\ \A q \in Requests : request[q].tripwire # t
        /\ UNCHANGED <<faults, disturbed>>
     \/ /\ \E q \in Requests : request[q].tripwire = t
        /\ Fault /\ disturbed' = disturbed \cup {t}
  /\ UNCHANGED <<tenant, group, command, delayed, halfway>>

Return(r) ==
  /\ request[r].pc = "done"
  /\ Step(r, Idle)
  /\ UNCHANGED others

-----------------------------------------------------------------------------
\* JamfClient: the token, and requests that fail.

At(r, pc) == request[r].pc = pc
Calling(r) == request[r].pc \notin {"idle", "done"}

\* The next request of the plugin: a _send_authed of its own.
Goto(h, pc) == [h EXCEPT !.pc = pc, !.attempt = 1]

\* JamfError, PluginError: distribute() records "failed" and goes on.
Raise(r) ==
  /\ Step(r, Finish(request[r], "failed"))
  /\ halfway' = IF request[r].scoped THEN halfway \cup {request[r].tripwire}
                                     ELSE halfway

\* Mutant of Unauthorized: every 401 is tried again.
UnauthorizedForever(r) ==
  /\ Calling(r)
  /\ Step(r, [request[r] EXCEPT !.attempt = 3 - @])
  /\ UNCHANGED others

\* A 401, at any time (tokens expire and are revoked): a new token and the same
\* request again, once; then an error.
Unauthorized(r) ==
  /\ Calling(r)
  /\ \/ /\ request[r].attempt = 1
        /\ Step(r, [request[r] EXCEPT !.attempt = 2])
        /\ UNCHANGED halfway
     \/ request[r].attempt = 2 /\ Raise(r)
  /\ UNCHANGED <<tenant, group, command, faults, disturbed, delayed>>

\* No token, a transport error, a status or a body that is not what is expected.
Error(r) ==
  /\ Calling(r) /\ Raise(r)
  /\ UNCHANGED <<tenant, group, command, faults, disturbed, delayed>>

-----------------------------------------------------------------------------
\* The tenant: what a write does when it takes effect.

\* Policies refer to scripts that exist and are scoped to a group that exists.
Accepted(w) ==
  IF w.kind = "script"
  THEN w.id = 0 \/ \E i \in DOMAIN scripts : scripts[i].id = w.id
  ELSE /\ group /\ \E i \in DOMAIN scripts : scripts[i].id = w.script
       /\ w.id = 0 \/ \E p \in policies : p.id = w.id

NewId(w) == IF w.id = 0 THEN created + 1 ELSE w.id

Apply(w) ==
  LET s == [id |-> NewId(w), name |-> w.name, body |-> w.body]
      p == [id |-> NewId(w), name |-> w.name, script |-> w.script]
  IN
  /\ NewId(w) <= MaxIds
  /\ created' = IF w.id = 0 THEN created + 1 ELSE created
  /\ IF w.kind = "script"
     THEN /\ scripts' = IF w.id = 0 THEN Append(scripts, s)
                        ELSE [i \in DOMAIN scripts |->
                                IF scripts[i].id = w.id THEN s ELSE scripts[i]]
          /\ UNCHANGED policies
     ELSE /\ policies' = {q \in policies : q.id # w.id} \cup {p}
          /\ UNCHANGED scripts

\* A write of call r: it is answered and the plugin goes on as h, it takes
\* effect but its answer is lost, or it times out and may still take effect.
Write(r, w, h) ==
  \/ /\ Accepted(w) /\ Apply(w)
     /\ \/ Step(r, h) /\ UNCHANGED halfway
        \/ Raise(r)
     /\ UNCHANGED <<late, faults, delayed>>
  \/ /\ Accepted(w) /\ Fault
     /\ Raise(r)
     /\ late' = late \cup {w}
     /\ delayed' = delayed \cup {w.name}
     /\ UNCHANGED <<scripts, policies, created>>

Land(w) ==
  /\ w \in late
  /\ late' = late \ {w}
  /\ \/ Accepted(w) /\ Apply(w)
     \/ ~Accepted(w) /\ UNCHANGED <<scripts, policies, created>>
  /\ UNCHANGED <<group, command, request, faults, disturbed, delayed, halfway>>

-----------------------------------------------------------------------------
\* The calls of the MDM plugin's deploy, in their order.

\* Mutant of FindGroup: the group is looked up without being required.
FindGroupLater(r) ==
  /\ At(r, "group")
  /\ Step(r, [Goto(request[r], "scripts") EXCEPT !.page = 0, !.scoped = group])
  /\ UNCHANGED others

\* find_smart_group_id (a group that is missing is an Error)
FindGroup(r) ==
  /\ At(r, "group") /\ group
  /\ Step(r, [Goto(request[r], "scripts") EXCEPT !.page = 0, !.scoped = TRUE])
  /\ UNCHANGED others

Page(n) ==
  LET last == (n + 1) * PageSize IN
  SubSeq(scripts, n * PageSize + 1,
         IF last <= Len(scripts) THEN last ELSE Len(scripts))

\* Mutant of ListScripts: only the first page is read.
ListScriptsFirst(r) ==
  LET h == request[r]
      found == {i \in DOMAIN Page(0) : Page(0)[i].name = h.tripwire}
      first == CHOOSE i \in found : \A j \in found : i <= j
  IN
  /\ At(r, "scripts")
  /\ IF found # {}
     THEN Step(r, [Goto(h, "script") EXCEPT !.existing = Page(0)[first].id])
     ELSE Step(r, [Goto(h, "script") EXCEPT !.existing = 0])
  /\ UNCHANGED others

\* _find_script_id: one page; the first match, or the next page if this is full.
ListScripts(r) ==
  LET h == request[r]
      page == Page(h.page)
      found == {i \in DOMAIN page : page[i].name = h.tripwire}
      first == CHOOSE i \in found : \A j \in found : i <= j
  IN
  /\ At(r, "scripts")
  /\ IF found # {}
     THEN Step(r, [Goto(h, "script") EXCEPT !.existing = page[first].id,
                                            !.page = 0])
     ELSE IF Len(page) < PageSize
     THEN Step(r, [Goto(h, "script") EXCEPT !.existing = 0, !.page = 0])
     ELSE Step(r, [Goto(h, "scripts") EXCEPT !.page = @ + 1])
  /\ UNCHANGED others

\* Mutant of WriteScript: a script that exists is left as it is.
WriteScriptOnce(r) ==
  LET h == request[r]
      install == BuildInstall(h.tripwire)
      w == [kind |-> "script", id |-> h.existing, name |-> install.tripwire_id,
            body |-> install.command, script |-> 0]
      next == [Goto(h, "policies") EXCEPT !.existing = 0, !.script = NewId(w)]
  IN
  /\ At(r, "script")
  /\ \/ h.existing = 0 /\ Write(r, w, next)
     \/ h.existing # 0 /\ Step(r, next)
          /\ UNCHANGED <<tenant, faults, delayed, halfway>>
  /\ UNCHANGED <<group, command, disturbed>>

\* upsert_script: PUT the script that was found, or POST one.
WriteScript(r) ==
  LET h == request[r]
      install == BuildInstall(h.tripwire)
      w == [kind |-> "script", id |-> h.existing, name |-> install.tripwire_id,
            body |-> install.command, script |-> 0]
  IN
  /\ At(r, "script")
  /\ Write(r, w, [Goto(h, "policies") EXCEPT !.existing = 0,
                                                !.script = NewId(w)])
  /\ UNCHANGED <<group, command, disturbed>>

\* _find_policy_id: by name; of several, the tenant answers with one.
FindPolicy(r) ==
  LET h == request[r]
      named == {p \in policies : p.name = h.tripwire}
  IN
  /\ At(r, "policies")
  /\ \/ \E p \in named : Step(r, [Goto(h, "policy") EXCEPT !.existing = p.id])
     \/ named = {} /\ Step(r, [Goto(h, "policy") EXCEPT !.existing = 0])
  /\ UNCHANGED others

\* upsert_policy: the XML names the script and the group that were found.
WritePolicy(r) ==
  LET h == request[r]
      w == [kind |-> "policy", id |-> h.existing, name |-> h.tripwire,
            body |-> command, script |-> h.script]
  IN
  /\ At(r, "policy")
  /\ Write(r, w, [Goto(h, "count") EXCEPT !.existing = 0, !.script = 0])
  /\ UNCHANGED <<group, command, disturbed>>

\* smart_group_member_count, and the plugin's result
CountMembers(r) ==
  /\ At(r, "count") /\ group
  /\ Step(r, Finish(request[r], "pending"))
  /\ UNCHANGED others

-----------------------------------------------------------------------------
\* Around the calls.

\* The tenant's administrator removes or creates the group, or removes a script
\* of somebody else: what is listed after it moves up by one.
ChangeGroup ==
  /\ Fault /\ group' = ~group
  /\ UNCHANGED <<tenant, command, request, disturbed, delayed, halfway>>

DeleteForeign ==
  /\ Fault
  /\ \E i \in DOMAIN scripts :
       /\ scripts[i].name \in Foreign
       /\ scripts' = SubSeq(scripts, 1, i - 1)
                       \o SubSeq(scripts, i + 1, Len(scripts))
  /\ disturbed' = disturbed \cup {request[r].tripwire : r \in
                    {q \in Requests : request[q].pc = "scripts"
                                        /\ request[q].page > 0}}
  /\ UNCHANGED <<policies, created, late, group, command, request, delayed,
                 halfway>>

\* The server stops at any point and starts again, perhaps with other settings.
Restart ==
  /\ Fault
  /\ command' \in Commands
  /\ request' = [r \in Requests |-> Idle]
  /\ halfway' = halfway \cup {request[r].tripwire : r \in
                               {q \in Requests : request[q].scoped}}
  /\ UNCHANGED <<tenant, group, disturbed, delayed>>

Handler(r) ==
  \/ Return(r) \/ Unauthorized(r) \/ Error(r)
  \/ FindGroup(r) \/ ListScripts(r) \/ WriteScript(r) \/ FindPolicy(r)
  \/ WritePolicy(r) \/ CountMembers(r)

Next ==
  \/ \E r \in Requests : Handler(r)
  \/ \E r \in Requests, t \in Tripwires : Distribute(r, t)
  \/ \E w \in late : Land(w)
  \/ ChangeGroup \/ DeleteForeign \/ Restart

Spec == Init /\ [][Next]_vars /\ \A r \in Requests : WF_vars(Handler(r))

-----------------------------------------------------------------------------
\* Properties.

\* Scripts and policies are upserted by name: whatever fails, is answered 401,
\* loses its answer or dies with the server, and however far down the list the
\* script is, doing it again never makes a second one.
OneEach(t) ==
  /\ \A i, j \in DOMAIN scripts :
       scripts[i].name = t /\ scripts[j].name = t => i = j
  /\ \A p, q \in policies : p.name = t /\ q.name = t => p = q

\* ... for a tripwire that is distributed by one call at a time, to a tenant
\* that does nothing behind its back.
OneEachIfUndisturbed ==
  \A t \in Tripwires \ (disturbed \cup delayed) : OneEach(t)

\* The same for every tripwire.
OneEachAlways == \A t \in Tripwires : OneEach(t)

\* A script that no policy refers to is only left by a deploy that had found
\* the group: the likely failure, a group that does not exist, leaves nothing.
\* (Of two scripts of a disturbed tripwire the policy refers to one.)
OrphanOnlyHalfway ==
  \A i \in DOMAIN scripts :
    \/ scripts[i].name \in Foreign \cup halfway \cup disturbed \cup delayed
    \/ \E p \in policies : p.script = scripts[i].id
    \/ \E r \in Requests : request[r].tripwire = scripts[i].name
                             /\ request[r].scoped

\* A deploy that reported success has put its own install command in force: the
\* policy of the tripwire runs a script of the tripwire with that command.
ReportedIsInForce ==
  \A r \in Requests :
    LET h == request[r] IN
    h.mdm = "pending" /\ h.tripwire \notin delayed =>
      \E p \in policies, i \in DOMAIN scripts :
        /\ p.name = h.tripwire /\ p.script = scripts[i].id
        /\ scripts[i].name = h.tripwire /\ scripts[i].body = command

\* Every call is answered, also when Jamf refuses every token it gives.
DistributeEnds ==
  \A r \in Requests : request[r].pc # "idle" ~> request[r].pc = "idle"
=============================================================================
