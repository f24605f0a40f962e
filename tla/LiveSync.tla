------------------------------- MODULE LiveSync -------------------------------
(***************************************************************************)
(* One agent installation and the bait it keeps on disk: the start of      *)
(* run(), the sync loop (pull, reconcile, verify), plant(), the manifest   *)
(* and self_destruct of agent/thumper_agent.sh, with what they ask of the  *)
(* server.                                                                 *)
(*                                                                         *)
(* A step is one command of the shell: between two of them the user of the *)
(* machine may touch the bait paths, the operator may change what is       *)
(* assigned, the agent may be killed, and a trapped signal is handled.     *)
(* At most one agent runs (Singleton), its identity is kept (Enrollment),  *)
(* and a change of the set restarts the sensors (Watcher).                 *)
(***************************************************************************)
EXTENDS Naturals, FiniteSets

CONSTANTS Tripwires, Paths,
          PathOf, SensorOf,   \* of a tripwire: its path, "fifo" or "atime"
          Install,            \* the tripwires of the install command
          ReplantMax,         \* REPLANT_MAX
          MaxIds,             \* bound: assignments of one tripwire
          MaxFaults,          \* bound: kills, lost requests, files of the user
          None

ASSUME LiveSyncAssumption ==
  /\ PathOf \in [Tripwires -> Paths]
  /\ SensorOf \in [Tripwires -> {"fifo", "atime"}]
  /\ Install \subseteq Tripwires
  /\ {ReplantMax, MaxIds, MaxFaults} \subseteq Nat
  /\ None \notin Tripwires

VARIABLES server,    \* the row of this endpoint and its deployments
          disk,      \* what is at each bait path
          manifest,  \* planted.list
          agent,     \* the main process
          faults,    \* bound: how many faults there were
          begun,     \* not in the code: paths the agent has set about planting
          slipped    \* not in the code: bait whose record a signal prevented

vars == <<server, disk, manifest, agent, faults, begun, slipped>>

\* What may be at a path: nothing, a regular bait, a FIFO bait, a file of the
\* user's, a file the user made where the agent plants, or a symbolic link.
Bait == {"file", "fifo"}
Contents == Bait \cup {"none", "user", "swap", "link"}

\* A deployment is a tripwire and the number of its assignment: the server
\* draws a new id for every one.
Servers ==
  [known : BOOLEAN, assigned : SUBSET Tripwires, id : [Tripwires -> 0..MaxIds],
   state : [Tripwires -> {"pending", "planted", "failed"}], flagged : BOOLEAN]

Starting == {"preflight", "enroll", "pull", "plantall"}
Cycle == {"sleep", "resync", "repull", "remove", "forget", "add", "verify"}
Planting == {"check", "fetch", "clear", "record", "mkfifo", "report"}
Destroying == {"unplant", "confirm", "wipe"}

\* `deps' is the pulled set (the id of each tripwire, or 0), `old' the one
\* before it, `todo' what the loop at hand has left, `cur' its deployment,
\* `loop' where plant() was called from and `ok' what it will return,
\* `planted' that plant_all planted one, `armed' that the sync loop is on and
\* the signals are trapped, `cool' that resync may run again.
Agents ==
  [pc : {"down", "gone"} \cup Starting \cup Cycle \cup Planting \cup Destroying,
   loop : {"plantall", "add", "verify"}, ok : BOOLEAN,
   deps : [Tripwires -> 0..MaxIds], old : [Tripwires -> 0..MaxIds],
   todo : SUBSET Tripwires, cur : Tripwires \cup {None},
   heal : [Tripwires -> 0..ReplantMax], planted : BOOLEAN, armed : BOOLEAN,
   cool : BOOLEAN]

TypeOK ==
  /\ server \in Servers /\ agent \in Agents
  /\ disk \in [Paths -> Contents]
  /\ manifest \subseteq Paths /\ begun \subseteq Paths /\ slipped \subseteq Paths
  /\ faults \in 0..MaxFaults

Nothing == [t \in Tripwires |-> 0]
Unstated == [t \in Tripwires |-> "pending"]
Down == [pc |-> "down", loop |-> "plantall", ok |-> FALSE, deps |-> Nothing,
         old |-> Nothing, todo |-> {}, cur |-> None, heal |-> Nothing,
         planted |-> FALSE, armed |-> FALSE, cool |-> TRUE]

Init ==
  /\ server = [known |-> FALSE, assigned |-> {}, id |-> Nothing,
               state |-> Unstated, flagged |-> FALSE]
  /\ disk \in [Paths -> {"none", "user"}]
  /\ manifest = {} /\ begun = {} /\ slipped = {} /\ faults = 0
  /\ agent = Down

-----------------------------------------------------------------------------
\* Helpers.

Fault == faults < MaxFaults /\ faults' = faults + 1
NoFault == UNCHANGED faults

At(pc) == agent.pc = pc
Goto(pc) == agent' = [agent EXCEPT !.pc = pc]
path == PathOf[agent.cur]
Fifo == SensorOf[agent.cur] = "fifo"

\* What is at p becomes c; bait that is gone has slipped no longer.
Put(p, c) ==
  /\ disk' = [disk EXCEPT ![p] = c]
  /\ slipped' = IF c \in Bait THEN slipped ELSE slipped \ {p}

Keep == UNCHANGED <<disk, slipped>>

\* The server still has the deployment the agent knows for t: it answers for its
\* content and takes its state.
Known(t) == t \in server.assigned /\ agent.deps[t] = server.id[t]

\* Mutant of Counted: every pull starts the count again.
CountedAnew(deps) == Nothing

\* The new set replaces the old; attempts are counted by deployment id.
Counted(deps) ==
  [t \in Tripwires |-> IF deps[t] = agent.deps[t] THEN agent.heal[t] ELSE 0]

\* The row is deleted, with its deployments.
Forgotten == [server EXCEPT !.known = FALSE, !.assigned = {}, !.state = Unstated,
                            !.flagged = FALSE]

\* report_plant: the server ignores a deployment it no longer has, and the
\* agent goes on when the report is lost.
Report(t, state) ==
  \/ /\ NoFault
     /\ server' = IF Known(t) THEN [server EXCEPT !.state[t] = state] ELSE server
  \/ Fault /\ UNCHANGED server

-----------------------------------------------------------------------------
\* run(): sweep, preflight, enroll, pull, plant_all.

Listed == [t \in Tripwires |-> IF t \in server.assigned THEN server.id[t] ELSE 0]
Deployed(deps) == {t \in Tripwires : deps[t] # 0}

\* remove_fifos
Swept == [p \in Paths |-> IF p \in manifest /\ disk[p] = "fifo" THEN "none"
                                                              ELSE disk[p]]

Start ==
  /\ At("down")
  /\ disk' = Swept
  /\ agent' = [Down EXCEPT !.pc = "preflight"]
  /\ UNCHANGED <<server, manifest, faults, begun, slipped>>

\* What /agent/tripwire-paths answers, which needs no enrollment.
Previewed == {PathOf[t] : t \in Install}

\* preflight_paths: an occupied path, or no answer, ends the start.
Conflict == \E p \in Previewed : disk[p] # "none" /\ p \notin manifest

Preflight ==
  /\ At("preflight")
  /\ \/ NoFault /\ Goto(IF Conflict THEN "down" ELSE "enroll")
     \/ Fault /\ Goto("down")
  /\ UNCHANGED <<server, disk, manifest, begun, slipped>>

\* do_enroll: the server adds the row, and what is not assigned of Install.
Enroll ==
  LET new == Install \ server.assigned IN
  /\ At("enroll")
  /\ \/ /\ NoFault
        /\ \A t \in new : server.id[t] < MaxIds
        /\ server' = [server EXCEPT
             !.known = TRUE,
             !.assigned = @ \cup new,
             !.id = [t \in Tripwires |-> @[t] + IF t \in new THEN 1 ELSE 0],
             !.state = [t \in Tripwires |-> IF t \in new THEN "pending"
                                                        ELSE @[t]]]
        /\ Goto(IF agent.armed THEN "repull" ELSE "pull")
     \/ /\ Fault /\ Goto(IF agent.armed THEN "sleep" ELSE "down")
        /\ UNCHANGED server
  /\ UNCHANGED <<disk, manifest, begun, slipped>>

\* Mutant of Removed: an empty set is taken for a bad answer.
RemovedUnlessAll(old, new) ==
  {t \in Tripwires : new # Nothing /\ old[t] \notin {0, new[t]}}

Removed(old, new) == {t \in Tripwires : old[t] \notin {0, new[t]}}
Added(old, new) == {t \in Tripwires : new[t] \notin {0, old[t]}}

\* pull_deployments, then the comparison of the snapshots.
Pulled ==
  LET changed == agent.armed /\ Listed # agent.deps IN
  agent' = [agent EXCEPT
    !.deps = Listed, !.heal = Counted(Listed),
    !.old = IF changed THEN agent.deps ELSE Nothing,
    !.pc = CASE changed -> "remove" [] ~agent.armed -> "plantall"
             [] OTHER -> "verify",
    !.todo = IF changed THEN Removed(agent.deps, Listed) ELSE Deployed(Listed)]

\* Without a row the token is refused.  A failed pull ends a start, sends a
\* cycle to resync, and ends the cycle after resync.
Pull ==
  /\ agent.pc \in {"pull", "repull"}
  /\ \/ server.known /\ NoFault /\ Pulled
     \/ /\ IF server.known THEN Fault ELSE NoFault
        /\ Goto(CASE At("repull") -> "sleep" [] ~agent.armed -> "down"
                  [] OTHER -> "resync")
  /\ UNCHANGED <<server, disk, manifest, begun, slipped>>

\* resync, within its cooldown or not.
Resync ==
  /\ At("resync")
  /\ agent' = [agent EXCEPT !.pc = IF agent.cool THEN "enroll" ELSE "sleep",
                            !.cool = FALSE]
  /\ UNCHANGED <<server, disk, manifest, faults, begun, slipped>>

Wake ==
  /\ At("sleep") /\ Goto("pull")
  /\ UNCHANGED <<server, disk, manifest, faults, begun, slipped>>

\* plant_all and the second half of reconcile call plant(); the first sets the
\* traps when it has planted something, and gives up otherwise.
PlantNext(t) ==
  /\ agent.pc \in {"plantall", "add"}
  /\ t \in agent.todo
  /\ agent' = [agent EXCEPT !.todo = @ \ {t}, !.cur = t, !.loop = agent.pc,
                            !.pc = "check"]
  /\ UNCHANGED <<server, disk, manifest, faults, begun, slipped>>

PlantEnd ==
  /\ agent.pc \in {"plantall", "add"} /\ agent.todo = {}
  /\ agent' = IF At("add")
              THEN [agent EXCEPT !.pc = "verify", !.old = Nothing,
                                 !.todo = Deployed(agent.deps)]
              ELSE IF agent.planted
              THEN [agent EXCEPT !.pc = "sleep", !.armed = TRUE, !.planted = FALSE]
              ELSE Down
  /\ UNCHANGED <<server, disk, manifest, faults, begun, slipped>>

-----------------------------------------------------------------------------
\* plant(): the overwrite guard, the fetch, the record and the report.

Check ==
  /\ At("check")
  /\ IF (disk[path] # "none" /\ path \notin manifest) \/ disk[path] = "link"
     THEN /\ agent' = [agent EXCEPT !.pc = "report", !.ok = FALSE]
          /\ UNCHANGED begun
     ELSE Goto("fetch") /\ begun' = begun \cup {path}
  /\ UNCHANGED <<server, disk, manifest, faults, slipped>>

\* A FIFO's content goes to the cache; a regular bait is written in place, and
\* removed whatever it was when the fetch fails.  A link that came after the
\* check is written through.
Fetch ==
  /\ At("fetch")
  /\ \/ /\ Known(agent.cur)
        /\ IF Fifo THEN Goto("clear") /\ Keep
           ELSE Goto("record")
                /\ IF disk[path] = "link" THEN Keep ELSE Put(path, "file")
     \/ /\ agent' = [agent EXCEPT !.pc = "report", !.ok = FALSE]
        /\ IF Fifo THEN Keep ELSE Put(path, "none")
  /\ UNCHANGED <<server, manifest, faults, begun>>

\* What a FIFO replaces; a link that leads nowhere stays.
Clear ==
  /\ At("clear")
  /\ Goto("record")
  /\ \/ Put(path, "none")
     \/ disk[path] = "link" /\ Keep
  /\ UNCHANGED <<server, manifest, faults, begun>>

\* Mutant of Record: only regular bait is recorded.
RecordRegular ==
  /\ At("record")
  /\ IF Fifo THEN Goto("mkfifo") /\ UNCHANGED manifest
     ELSE /\ agent' = [agent EXCEPT !.pc = "report", !.ok = TRUE]
          /\ manifest' = manifest \cup {path}
  /\ UNCHANGED <<server, disk, faults, begun, slipped>>

\* record_planted
Record ==
  /\ At("record")
  /\ manifest' = manifest \cup {path}
  /\ IF Fifo THEN Goto("mkfifo")
     ELSE agent' = [agent EXCEPT !.pc = "report", !.ok = TRUE]
  /\ UNCHANGED <<server, disk, faults, begun, slipped>>

\* mkfifo fails where something is, and may fail anywhere; the record is then
\* withdrawn.
Mkfifo ==
  /\ At("mkfifo")
  /\ \/ /\ disk[path] = "none" /\ Put(path, "fifo") /\ UNCHANGED manifest
        /\ agent' = [agent EXCEPT !.pc = "report", !.ok = TRUE]
     \/ /\ manifest' = manifest \ {path} /\ Keep
        /\ agent' = [agent EXCEPT !.pc = "report", !.ok = FALSE]
  /\ UNCHANGED <<server, faults, begun>>

\* plant() reports and returns; a failed attempt of verify_planted is counted.
PlantReport ==
  /\ At("report")
  /\ Report(agent.cur, IF agent.ok THEN "planted" ELSE "failed")
  /\ agent' = [agent EXCEPT
       !.pc = agent.loop, !.cur = None, !.ok = FALSE, !.loop = "plantall",
       !.planted = ~agent.armed /\ (@ \/ agent.ok),
       !.heal[agent.cur] = IF agent.loop = "verify" /\ ~agent.ok THEN @ + 1
                                                             ELSE @]
  /\ begun' = IF agent.ok \/ path \in manifest THEN begun ELSE begun \ {path}
  /\ UNCHANGED <<disk, manifest, slipped>>

-----------------------------------------------------------------------------
\* reconcile: bait of the deployments that are no longer listed.

\* Only what the manifest vouches for is removed, whatever it is by now.
Remove(t) ==
  /\ At("remove") /\ t \in agent.todo
  /\ IF PathOf[t] \in manifest
     THEN /\ Put(PathOf[t], "none")
          /\ agent' = [agent EXCEPT !.todo = @ \ {t}, !.cur = t, !.pc = "forget"]
     ELSE /\ agent' = [agent EXCEPT !.todo = @ \ {t}] /\ Keep
  /\ UNCHANGED <<server, manifest, faults, begun>>

\* Mutant of Forget: forget_planted is not called.
ForgetNothing ==
  /\ At("forget")
  /\ begun' = begun \ {path}
  /\ agent' = [agent EXCEPT !.pc = "remove", !.cur = None]
  /\ UNCHANGED <<server, disk, manifest, faults, slipped>>

\* forget_planted
Forget ==
  /\ At("forget")
  /\ manifest' = manifest \ {path} /\ begun' = begun \ {path}
  /\ agent' = [agent EXCEPT !.pc = "remove", !.cur = None]
  /\ UNCHANGED <<server, disk, faults, slipped>>

RemoveEnd ==
  /\ At("remove") /\ agent.todo = {}
  /\ agent' = [agent EXCEPT !.pc = "add", !.todo = Added(agent.old, agent.deps)]
  /\ UNCHANGED <<server, disk, manifest, faults, begun, slipped>>

-----------------------------------------------------------------------------
\* verify_planted

\* Missing, or no FIFO where one should be.
Lost(t) == \/ disk[PathOf[t]] = "none"
           \/ SensorOf[t] = "fifo" /\ disk[PathOf[t]] \notin {"fifo", "link"}

Verdict(t) == IF Lost(t) \/ disk[PathOf[t]] = "link" THEN "failed" ELSE "planted"

Verified(t, again) ==
  agent' = IF Lost(t) /\ again
           THEN [agent EXCEPT !.todo = @ \ {t}, !.cur = t, !.loop = "verify",
                              !.pc = "check"]
           ELSE [agent EXCEPT !.todo = @ \ {t}]

\* Mutant of Verify: what is missing is planted again, not reported.
VerifyQuietly(t) ==
  /\ At("verify") /\ t \in agent.todo
  /\ IF Lost(t) THEN UNCHANGED <<server, faults>> ELSE Report(t, Verdict(t))
  /\ Verified(t, agent.heal[t] < ReplantMax)
  /\ UNCHANGED <<disk, manifest, begun, slipped>>

\* Mutant of Verify: what is in place is not reported.
VerifyFailures(t) ==
  /\ At("verify") /\ t \in agent.todo
  /\ IF Verdict(t) = "planted" THEN UNCHANGED <<server, faults>>
                              ELSE Report(t, "failed")
  /\ Verified(t, agent.heal[t] < ReplantMax)
  /\ UNCHANGED <<disk, manifest, begun, slipped>>

Verify(t) ==
  /\ At("verify") /\ t \in agent.todo
  /\ Report(t, Verdict(t)) /\ Verified(t, agent.heal[t] < ReplantMax)
  /\ UNCHANGED <<disk, manifest, begun, slipped>>

VerifyEnd ==
  /\ At("verify") /\ agent.todo = {} /\ Goto("sleep")
  /\ UNCHANGED <<server, disk, manifest, faults, begun, slipped>>

-----------------------------------------------------------------------------
\* Signals, kills and self_destruct.

\* The agent stops before the record of the bait it has just written.
Slip == slipped' = IF At("record") /\ path \notin manifest /\ disk[path] = "file"
                   THEN slipped \cup {path} ELSE slipped

Running == agent.pc \notin {"down", "gone"}

\* A trap waits for the loop of reconcile that runs in a pipe.
Interruptible ==
  agent.armed /\ agent.pc \notin {"remove", "forget"} \cup Destroying

\* heartbeat_loop hears "decommission" and raises USR1.
Heartbeat ==
  /\ Interruptible /\ server.known /\ server.flagged
  /\ agent' = [Down EXCEPT !.pc = "unplant"]
  /\ Slip
  /\ UNCHANGED <<server, disk, manifest, faults, begun>>

\* INT or TERM in the sync loop: remove_fifos, then the end.
Terminate ==
  /\ Interruptible /\ Fault
  /\ disk' = Swept /\ Slip /\ agent' = Down
  /\ UNCHANGED <<server, manifest, begun>>

Kill ==
  /\ Running /\ Fault
  /\ Slip /\ agent' = Down
  /\ UNCHANGED <<server, disk, manifest, begun>>

\* unplant_all, the confirmation, then the agent's own files.
Unplant(p) ==
  /\ At("unplant") /\ p \in manifest /\ disk[p] # "none"
  /\ Put(p, "none")
  /\ UNCHANGED <<server, manifest, agent, faults, begun>>

Unplanted ==
  /\ At("unplant") /\ \A p \in manifest : disk[p] = "none"
  /\ Goto("confirm")
  /\ UNCHANGED <<server, disk, manifest, faults, begun, slipped>>


\* /api/agent/decommissioned deletes the row; nobody waits for the answer.
Confirm ==
  /\ At("confirm") /\ Goto("wipe")
  /\ \/ /\ NoFault
        /\ server' = Forgotten
     \/ Fault /\ UNCHANGED server
  /\ UNCHANGED <<disk, manifest, begun, slipped>>

Wipe ==
  /\ At("wipe") /\ Goto("gone")
  /\ manifest' = {} /\ begun' = {}
  /\ UNCHANGED <<server, disk, faults, slipped>>

-----------------------------------------------------------------------------
\* The operator, the user of the machine, and time.

Assign(t) ==
  /\ server.known /\ t \notin server.assigned /\ server.id[t] < MaxIds
  /\ server' = [server EXCEPT !.assigned = @ \cup {t}, !.id[t] = @ + 1,
                              !.state[t] = "pending"]
  /\ UNCHANGED <<disk, manifest, agent, faults, begun, slipped>>

\* Bound: an id is left for the next enrollment.
Enrollable(t) == t \notin Install \/ server.id[t] < MaxIds

Unassign(t) ==
  /\ t \in server.assigned /\ Enrollable(t)
  /\ server' = [server EXCEPT !.assigned = @ \ {t}, !.state[t] = "pending"]
  /\ UNCHANGED <<disk, manifest, agent, faults, begun, slipped>>

Decommission ==
  /\ server.known /\ ~server.flagged
  /\ server' = [server EXCEPT !.flagged = TRUE]
  /\ UNCHANGED <<disk, manifest, agent, faults, begun, slipped>>

\* The row is deleted, or the database is reset.
DeleteEndpoint ==
  /\ server.known /\ \A t \in server.assigned : Enrollable(t)
  /\ Fault
  /\ server' = Forgotten
  /\ UNCHANGED <<disk, manifest, agent, begun, slipped>>

UserWrites(p) ==
  /\ disk[p] \in Bait \cup {"none"} /\ Fault
  /\ Put(p, IF p \in begun THEN "swap" ELSE "user")
  /\ UNCHANGED <<server, manifest, agent, begun>>

UserLinks(p) ==
  /\ disk[p] \in Bait \cup {"none"} /\ Fault /\ Put(p, "link")
  /\ UNCHANGED <<server, manifest, agent, begun>>

\* Bait may be deleted any number of times.
UserRemoves(p) ==
  /\ disk[p] # "none" /\ Put(p, "none")
  /\ IF disk[p] \in Bait THEN NoFault ELSE Fault
  /\ UNCHANGED <<server, manifest, agent, begun>>

\* RESYNC_COOLDOWN is over.
Cool ==
  /\ Running /\ ~agent.cool
  /\ agent' = [agent EXCEPT !.cool = TRUE]
  /\ UNCHANGED <<server, disk, manifest, faults, begun, slipped>>

-----------------------------------------------------------------------------
AgentStep ==
  \/ Preflight \/ Enroll \/ Pull \/ Resync \/ Wake \/ PlantEnd
  \/ Check \/ Fetch \/ Clear \/ Record \/ Mkfifo \/ PlantReport
  \/ Forget \/ RemoveEnd \/ VerifyEnd
  \/ Unplanted \/ Confirm \/ Wipe
  \/ \E t \in Tripwires : PlantNext(t) \/ Remove(t) \/ Verify(t)
  \/ \E p \in Paths : Unplant(p)

UserStep == \E p \in Paths : UserWrites(p) \/ UserLinks(p) \/ UserRemoves(p)

Next ==
  \/ AgentStep \/ UserStep
  \/ Start \/ Heartbeat \/ Terminate \/ Kill \/ Cool
  \/ Decommission \/ DeleteEndpoint
  \/ \E t \in Tripwires : Assign(t) \/ Unassign(t)

\* Commands end, the heartbeat beats and time passes.  Nothing is assumed of
\* the operator, of the user or of whoever starts the agent again; what may go
\* wrong more than MaxFaults times is a fetch, a mkfifo and a bait's staying.
Spec == Init /\ [][Next]_vars
             /\ WF_vars(AgentStep) /\ WF_vars(Heartbeat) /\ WF_vars(Cool)

-----------------------------------------------------------------------------
\* Properties.

Up == agent.armed

\* A file that the user made where the agent was planting nothing is never
\* overwritten or removed by it: not by a plant, not by an un-assignment, not
\* by the self-destruction, whatever was planted there and removed before
\* (plant's overwrite guard, lines 351-361, and the records of the manifest).
KeepsUserFiles ==
  [][\A p \in Paths :
       disk[p] = "user" /\ disk'[p] # "user" => UserStep]_vars

\* All bait on disk is in the manifest, which is what preflight, the removals
\* and self_destruct go by: but for the regular bait being written, and what
\* was left when the agent stopped right there.
BaitVouched ==
  \A p \in Paths :
    disk[p] \in Bait =>
      \/ p \in manifest \cup slipped
      \/ At("record") /\ path = p /\ ~Fifo

\* The user leaves the bait paths alone from some point on.
UserRests == <>[][~UserStep]_vars

\* An assigned tripwire gets its bait, and the server is told, unless the path
\* holds something of the user's or REPLANT_MAX attempts have failed.
AssignedIsPlanted ==
  UserRests =>
    \A t \in Tripwires :
      (Up /\ t \in server.assigned) ~>
        \/ ~Up \/ t \notin server.assigned
        \/ server.state[t] = "planted" /\ disk[PathOf[t]] \in Bait
        \/ disk[PathOf[t]] \in {"user", "swap", "link"}
        \/ agent.heal[t] = ReplantMax

\* Bait whose tripwire is un-assigned while the agent runs goes away, unless
\* another tripwire wants the path.
WithdrawnIsRemoved ==
  \A t \in Tripwires :
    (Up /\ agent.deps[t] # 0 /\ t \notin server.assigned) ~>
      \/ ~Up
      \/ \E u \in server.assigned : PathOf[u] = PathOf[t]
      \/ disk[PathOf[t]] \notin Bait \/ PathOf[t] \in slipped

\* A bait that stays away is shown as failed.
LossIsReported ==
  \A t \in Tripwires :
    (Up /\ t \in server.assigned /\ disk[PathOf[t]] = "none") ~>
      \/ ~Up \/ t \notin server.assigned
      \/ server.state[t] = "failed" \/ disk[PathOf[t]] # "none"

\* Failing plants are given up: an agent that stays up, and whose user stops
\* deleting bait at some point, has from then on nothing left to plant.
HealingEnds == <>[]Up /\ UserRests => <>[](agent.cur = None)


\* A comment of verify_planted: re-planted up to REPLANT_MAX times over the
\* agent's lifetime, "so a path that keeps failing (or an attacker repeatedly
\* deleting bait) can never turn this into a hot loop" (lines 971-974).
HealingAlwaysEnds == <>[]Up => <>[](agent.cur = None)

\* A comment of reconcile: "an un-assign must never destroy a real credential
\* that happens to sit at that path" (lines 940-941).
UnassignSpares ==
  [][\A p \in Paths :
       At("remove") /\ disk[p] \in {"user", "swap"} /\ disk'[p] # disk[p]
         => UserStep]_vars
=============================================================================
