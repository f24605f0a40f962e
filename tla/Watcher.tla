------------------------------- MODULE Watcher -------------------------------
(***************************************************************************)
(* The sensors of one agent (agent/thumper_agent.sh): the main shell, the  *)
(* supervisor it forks (watch_fifo, watch_mixed) and the workers that one  *)
(* forks, a serve_fifo for each FIFO bait and an atime_poll for the rest.  *)
(*                                                                         *)
(* A step is one command of one of the processes.  A worker is a lifetime, *)
(* what its pid and its start fingerprint identify together; a dead one    *)
(* that nobody remembers may be used again for another.  What the sync     *)
(* loop decides to plant and to remove is LiveSync's; here it is a choice. *)
(***************************************************************************)
EXTENDS Naturals, FiniteSets

CONSTANTS Slots,      \* what needs a worker: the FIFO baits, and the atime poll
          Pipes,      \* the FIFO baits among them
          Workers,    \* bound: worker lifetimes somebody remembers
          ReplantMax, \* REPLANT_MAX
          MaxFaults,  \* bound: deaths, signals, baits missing, sets changed
          None

ASSUME WatcherAssumption ==
  /\ Pipes \subseteq Slots /\ None \notin Slots \cup Workers
  /\ {ReplantMax, MaxFaults} \subseteq Nat

VARIABLES main,        \* the main shell
          supervisor,  \* the background supervisor, one at a time
          worker,      \* what each worker is doing, or None
          registry,    \* watcher.workers, of this main shell
          flag,        \* watcher.stopping exists
          pipe,        \* the FIFO baits on disk
          heal,        \* heal_<id>: failed attempts of verify_planted
          faults,      \* bound: how many faults there were
          leaked       \* not in the code: workers that were in no registry
                       \* when their supervisor ended, or that a stop skipped

vars == <<main, supervisor, worker, registry, flag, pipe, heal, faults, leaked>>

Stopping == {"flag", "children", "parent", "wait", "cleanup"}

\* `watch' and `started' are WATCH_PID and WATCH_STARTED; `set' the set in use,
\* `next' the pulled one, `goal' what a stop is for, `then' where a start is
\* called from: what the cycle does next.
Mains ==
  [pc : {"sleep", "sync", "verify", "reap", "orphans", "start", "fork", "forked",
         "fingerprint", "reconcile", "exited", "abandoned"} \cup Stopping,
   watch : BOOLEAN, started : BOOLEAN, set : SUBSET Slots, next : SUBSET Slots,
   goal : {"restart", "exit"}, then : {"sleep", "sync", "verify"}]

\* `slot' the worker it believes serves each slot, `todo' what its loop at hand
\* has left, `at' the slot it is about to restart.
Supervisors ==
  [pc : {"none", "spawn", "register", "top", "scan", "again", "respawn",
         "reregister"},
   set : SUBSET Slots, todo : SUBSET Slots, at : Slots \cup {None},
   slot : [Slots -> Workers \cup {None}]]

\* `child' until the supervisor ends; `stale' when the FIFO it waits on is gone.
Working == [slot : Slots, child : BOOLEAN, stale : BOOLEAN]

ASSUME NoWorkerAssumption == None \notin Working

TypeOK ==
  /\ main \in Mains /\ supervisor \in Supervisors
  /\ worker \in [Workers -> Working \cup {None}]
  /\ registry \subseteq Workers /\ leaked \subseteq Workers
  /\ flag \in BOOLEAN /\ pipe \subseteq Pipes
  /\ heal \in [Pipes -> 0..ReplantMax]
  /\ faults \in 0..MaxFaults

NoSupervisor == [pc |-> "none", set |-> {}, todo |-> {}, at |-> None,
                 slot |-> [s \in Slots |-> None]]

Init ==
  /\ main = [pc |-> "start", watch |-> FALSE, started |-> FALSE, set |-> Slots,
             next |-> Slots, goal |-> "restart", then |-> "sleep"]
  /\ supervisor = NoSupervisor
  /\ worker = [w \in Workers |-> None]
  /\ registry = {} /\ flag = FALSE /\ leaked = {}
  /\ pipe \in SUBSET Pipes  \* what plant_all could make
  /\ heal = [s \in Pipes |-> 0]
  /\ faults = (IF pipe = Pipes THEN 0 ELSE 1) /\ faults \in 0..MaxFaults

-----------------------------------------------------------------------------
\* Helpers.

Fault == faults < MaxFaults /\ faults' = faults + 1

At(pc) == main.pc = pc
Goto(pc) == main' = [main EXCEPT !.pc = pc]
Alive == {w \in Workers : worker[w] # None}
Children == {w \in Alive : worker[w].child}
Running == supervisor.pc # "none"

\* watcher_identity_matches
Matches == main.watch /\ main.started /\ Running

\* There is something for a worker of s to wait on.
Present(s) == s \in pipe \cup (Slots \ Pipes)

\* A lifetime that nobody remembers; any will do.
Free == {w \in Workers \ Alive :
           w \notin registry \cup {supervisor.slot[s] : s \in Slots}}

Fresh == CHOOSE w \in Free : TRUE

Killed(dead) == [w \in Workers |-> IF w \in dead THEN None ELSE worker[w]]

\* The supervisor ends; its workers live on.
SupervisorEnds ==
  /\ supervisor' = NoSupervisor
  /\ worker' = [w \in Workers |->
                  IF w \in Alive THEN [worker[w] EXCEPT !.child = FALSE] ELSE None]
  /\ leaked' = IF supervisor.pc \in {"spawn", "register", "reregister"}
               THEN leaked \cup (Children \ registry) ELSE leaked

-----------------------------------------------------------------------------
\* The main shell: the sync loop.

Wake ==
  /\ At("sleep")
  /\ Goto(IF Matches THEN "sync" ELSE "reap")
  /\ UNCHANGED <<supervisor, worker, registry, flag, pipe, heal, faults, leaked>>

\* A supervisor that ended by itself: wait for it and empty WATCH_PID and
\* WATCH_STARTED, of which a trap's stop_watcher looks at the first only.
Reap ==
  /\ At("reap") /\ ~Running
  /\ main' = [main EXCEPT !.pc = "orphans", !.watch = FALSE, !.started = FALSE]
  /\ UNCHANGED <<supervisor, worker, registry, flag, pipe, heal, faults, leaked>>

\* cleanup_watcher_workers, a line of the registry at a time.
ReapOrphan(w) ==
  /\ At("orphans") /\ w \in registry \cap Alive
  /\ worker' = Killed({w}) /\ leaked' = leaked \ {w}
  /\ UNCHANGED <<main, supervisor, registry, flag, pipe, heal, faults>>

\* Mutant of ReapEnd: the registry goes and its workers stay.
ReapEndEarly ==
  /\ At("orphans")
  /\ main' = [main EXCEPT !.pc = "start", !.then = "sync"]
  /\ registry' = {}
  /\ UNCHANGED <<supervisor, worker, flag, pipe, heal, faults, leaked>>

ReapEnd ==
  /\ At("orphans") /\ registry \cap Alive = {}
  /\ main' = [main EXCEPT !.pc = "start", !.then = "sync"]
  /\ registry' = {}
  /\ UNCHANGED <<supervisor, worker, flag, pipe, heal, faults, leaked>>

\* The pulled set is another one.
Change(set) ==
  /\ At("sync") /\ set # main.set /\ Fault
  /\ main' = [main EXCEPT !.pc = "flag", !.next = set, !.then = "verify"]
  /\ UNCHANGED <<supervisor, worker, registry, flag, pipe, heal, leaked>>

\* The FIFOs verify_planted tries to make: missing, and not given up.
Tried == {s \in (Pipes \cap main.set) \ pipe : heal[s] < ReplantMax}

\* Those it tried and could not make have one attempt less.
Counted(made) ==
  heal' = [s \in Pipes |-> IF s \in Tried \ made THEN heal[s] + 1 ELSE heal[s]]

\* Mutant of Verify: the sensors are not restarted.
VerifyQuietly(made) ==
  /\ main.pc \in {"sync", "verify"}
  /\ made \subseteq Tried
  /\ pipe' = pipe \cup made /\ Counted(made)
  /\ Goto("sleep")
  /\ UNCHANGED <<supervisor, worker, registry, flag, faults, leaked>>

\* The set is the same, or has just been reconciled: verify_planted makes what
\* it can of what is missing, and that calls for a restart.
Verify(made) ==
  /\ main.pc \in {"sync", "verify"}
  /\ made \subseteq Tried
  /\ pipe' = pipe \cup made /\ Counted(made)
  /\ main' = [main EXCEPT !.pc = IF made = {} THEN "sleep" ELSE "flag",
                          !.then = "sleep"]
  /\ UNCHANGED <<supervisor, worker, registry, flag, faults, leaked>>

\* reconcile, between the stop and the start: what of the added FIFOs could be
\* made is there, and their deployments have new ids.  What waited on a FIFO
\* that is removed waits for ever.
Reconcile(made) ==
  /\ At("reconcile")
  /\ made \subseteq Pipes \cap (main.next \ main.set)
  /\ main' = [main EXCEPT !.pc = "start", !.set = main.next]
  /\ pipe' = (pipe \cap main.next) \cup made
  /\ heal' = [s \in Pipes |-> IF s \in main.set \cap main.next THEN heal[s] ELSE 0]
  /\ worker' = [w \in Workers |->
                  IF w \in Alive /\ worker[w].slot \notin main.next
                  THEN [worker[w] EXCEPT !.stale = TRUE] ELSE worker[w]]
  /\ UNCHANGED <<supervisor, registry, flag, faults, leaked>>

-----------------------------------------------------------------------------
\* start_watcher

StartFlag ==
  /\ At("start") /\ Goto("fork") /\ flag' = FALSE
  /\ UNCHANGED <<supervisor, worker, registry, pipe, heal, faults, leaked>>

StartFork ==
  /\ At("fork") /\ Goto("forked")
  /\ supervisor' = [NoSupervisor EXCEPT !.pc = "spawn", !.set = main.set,
                                        !.todo = main.set]
  /\ UNCHANGED <<worker, registry, flag, pipe, heal, faults, leaked>>

StartPid ==
  /\ At("forked") /\ main' = [main EXCEPT !.pc = "fingerprint", !.watch = TRUE]
  /\ UNCHANGED <<supervisor, worker, registry, flag, pipe, heal, faults, leaked>>

StartFingerprint ==
  /\ At("fingerprint")
  /\ main' = [main EXCEPT !.pc = main.then, !.watch = Running,
                          !.started = Running]
  /\ UNCHANGED <<supervisor, worker, registry, flag, pipe, heal, faults, leaked>>

-----------------------------------------------------------------------------
\* stop_watcher

\* Without a WATCH_PID there is nothing to stop: but for the workers of a
\* supervisor that died before its fingerprint was taken.
StopFlag ==
  /\ At("flag")
  /\ \/ /\ main.watch /\ flag' = TRUE
        /\ Goto(IF Matches THEN "children" ELSE "wait")
        /\ UNCHANGED leaked
     \/ /\ ~main.watch /\ Goto("reconcile")
        /\ leaked' = leaked \cup Alive /\ UNCHANGED flag
  /\ UNCHANGED <<supervisor, worker, registry, pipe, heal, faults>>

\* pkill -P
StopChildren ==
  /\ At("children") /\ Goto("parent")
  /\ worker' = Killed(Children)
  /\ UNCHANGED <<supervisor, registry, flag, pipe, heal, faults, leaked>>

StopParent ==
  /\ At("parent") /\ Goto("wait")
  /\ IF Running THEN SupervisorEnds ELSE UNCHANGED <<supervisor, worker, leaked>>
  /\ UNCHANGED <<registry, flag, pipe, heal, faults>>

StopWait ==
  /\ At("wait") /\ ~Running /\ Goto("cleanup")
  /\ UNCHANGED <<supervisor, worker, registry, flag, pipe, heal, faults, leaked>>

\* cleanup_watcher_workers; then what the stop was for.
StopCleanup ==
  /\ At("cleanup")
  /\ worker' = Killed(registry) /\ registry' = {} /\ leaked' = leaked \ registry
  /\ main' = [main EXCEPT
       !.watch = FALSE, !.started = FALSE,
       !.pc = IF main.goal = "exit" THEN "exited" ELSE "reconcile"]
  /\ UNCHANGED <<supervisor, flag, pipe, heal, faults>>

\* INT or TERM between two commands: the trap stops the sensors and exits.
\* Without a WATCH_PID it stops nothing.  Nothing is left to stop when a stop
\* has just emptied it, up to the next fork; but there may be workers right
\* after the fork, when no fingerprint could be taken, and while the orphans of
\* a supervisor that ended by itself are being reaped.
Terminate ==
  /\ main.goal = "restart" /\ Fault
  /\ main' = [main EXCEPT !.goal = "exit",
                          !.pc = IF main.watch THEN "flag"
                                 ELSE IF main.pc \in {"reconcile", "start", "fork"}
                                 THEN "exited" ELSE "abandoned"]
  /\ UNCHANGED <<supervisor, worker, registry, flag, pipe, heal, leaked>>

-----------------------------------------------------------------------------
\* The supervisor.

Super(pc) == supervisor.pc = pc
SuperGoto(pc) == supervisor' = [supervisor EXCEPT !.pc = pc]

\* serve_fifo returns at once where there is no FIFO.
Forked(s) ==
  worker' = [worker EXCEPT
    ![Fresh] = IF Present(s) THEN [slot |-> s, child |-> TRUE, stale |-> FALSE]
                             ELSE None]

\* One worker for each slot, whatever the flag says, then the registry.
Spawn(s) ==
  /\ Super("spawn") /\ s \in supervisor.todo /\ Free # {}
  /\ Forked(s)
  /\ supervisor' = [supervisor EXCEPT !.slot[s] = Fresh, !.todo = @ \ {s}]
  /\ UNCHANGED <<main, registry, flag, pipe, heal, faults, leaked>>

SpawnEnd ==
  /\ Super("spawn") /\ supervisor.todo = {} /\ SuperGoto("register")
  /\ UNCHANGED <<main, worker, registry, flag, pipe, heal, faults, leaked>>

\* Mutant of Register: the registry is only written once.
RegisterOnce ==
  /\ supervisor.pc \in {"register", "reregister"}
  /\ registry' = IF Super("register")
                 THEN {supervisor.slot[s] : s \in Slots} \cap Alive ELSE registry
  /\ SuperGoto(IF Super("register") THEN "top" ELSE "scan")
  /\ UNCHANGED <<main, worker, flag, pipe, heal, faults, leaked>>

\* write_watcher_workers: those of its workers that are alive.
Register ==
  /\ supervisor.pc \in {"register", "reregister"}
  /\ registry' = {supervisor.slot[s] : s \in Slots} \cap Alive
  /\ SuperGoto(IF Super("register") THEN "top" ELSE "scan")
  /\ UNCHANGED <<main, worker, flag, pipe, heal, faults, leaked>>

\* Mutant of Top: the flag is looked at before a restart only.
TopBlind ==
  /\ Super("top")
  /\ supervisor' = [supervisor EXCEPT !.pc = "scan", !.todo = supervisor.set]
  /\ UNCHANGED <<main, worker, registry, flag, pipe, heal, faults, leaked>>

Top ==
  /\ Super("top")
  /\ IF flag THEN SupervisorEnds
     ELSE /\ supervisor' = [supervisor EXCEPT !.pc = "scan",
                                              !.todo = supervisor.set]
          /\ UNCHANGED <<worker, leaked>>
  /\ UNCHANGED <<main, registry, flag, pipe, heal, faults>>

\* A worker that died while there is something to wait on.
Scan(s) ==
  /\ Super("scan") /\ s \in supervisor.todo
  /\ supervisor' = IF Present(s) /\ supervisor.slot[s] \notin Alive
                   THEN [supervisor EXCEPT !.pc = "again", !.at = s,
                                           !.todo = @ \ {s}]
                   ELSE [supervisor EXCEPT !.todo = @ \ {s}]
  /\ UNCHANGED <<main, worker, registry, flag, pipe, heal, faults, leaked>>

ScanEnd ==
  /\ Super("scan") /\ supervisor.todo = {} /\ SuperGoto("top")
  /\ UNCHANGED <<main, worker, registry, flag, pipe, heal, faults, leaked>>

\* The second look at the flag.
Again ==
  /\ Super("again")
  /\ IF flag THEN SupervisorEnds
     ELSE SuperGoto("respawn") /\ UNCHANGED <<worker, leaked>>
  /\ UNCHANGED <<main, registry, flag, pipe, heal, faults>>

Respawn ==
  /\ Super("respawn") /\ Free # {}
  /\ Forked(supervisor.at)
  /\ supervisor' = [supervisor EXCEPT !.pc = "reregister", !.at = None,
                                      !.slot[supervisor.at] = Fresh]
  /\ UNCHANGED <<main, registry, flag, pipe, heal, faults, leaked>>

-----------------------------------------------------------------------------
\* What dies, and what the user removes.

WorkerDies(w) ==
  /\ w \in Alive /\ Fault
  /\ worker' = Killed({w}) /\ leaked' = leaked \ {w}
  /\ UNCHANGED <<main, supervisor, registry, flag, pipe, heal>>

SupervisorDies ==
  /\ Running /\ Fault /\ SupervisorEnds
  /\ UNCHANGED <<main, registry, flag, pipe, heal>>

PipeRemoved(s) ==
  /\ s \in pipe /\ Fault
  /\ pipe' = pipe \ {s}
  /\ worker' = [w \in Workers |->
                  IF w \in Alive /\ worker[w].slot = s
                  THEN [worker[w] EXCEPT !.stale = TRUE] ELSE worker[w]]
  /\ UNCHANGED <<main, supervisor, registry, flag, heal, leaked>>

-----------------------------------------------------------------------------
MainStep ==
  \/ Wake \/ Reap \/ ReapEnd
  \/ StartFlag \/ StartFork \/ StartPid \/ StartFingerprint
  \/ StopFlag \/ StopChildren \/ StopParent \/ StopWait \/ StopCleanup
  \/ \E w \in Workers : ReapOrphan(w)
  \/ \E made \in SUBSET Pipes : Verify(made) \/ Reconcile(made)

SupervisorStep ==
  \/ SpawnEnd \/ Register \/ Top \/ ScanEnd \/ Again \/ Respawn
  \/ \E s \in Slots : Spawn(s) \/ Scan(s)

FaultStep ==
  \/ Terminate \/ SupervisorDies
  \/ \E set \in SUBSET Slots \ {{}} : Change(set)
  \/ \E w \in Workers : WorkerDies(w)
  \/ \E s \in Pipes : PipeRemoved(s)

Next == MainStep \/ SupervisorStep \/ FaultStep

\* The processes run.
Spec == Init /\ [][Next]_vars
             /\ WF_vars(MainStep) /\ WF_vars(SupervisorStep)

-----------------------------------------------------------------------------
\* Properties.

\* When a stop is done, or the trap exits after one, no worker is left to write
\* into a FIFO or to poll, and no supervisor to fork one.  Leaked workers remain:
\* those that were in no registry when their supervisor died or was killed (the
\* respawn between pkill and kill among them), and those of a supervisor that
\* died before its fingerprint.  A trap that finds no WATCH_PID makes no stop
\* ("abandoned", see Terminate).
StopIsComplete ==
  main.pc \in {"reconcile", "start", "fork", "exited"} =>
    ~Running /\ Alive \subseteq leaked

\* A bait is served by one worker: a read is answered, and alerted, once.
OneWorkerEach ==
  \A v, w \in Alive \ leaked :
    worker[v].slot = worker[w].slot /\ ~worker[v].stale /\ ~worker[w].stale
      => v = w

\* A FIFO that is gone, and that verify_planted does not try to make any more.
GivenUp(s) == s \in Pipes \ pipe /\ heal[s] = ReplantMax

\* Whatever dies or is removed, what the agent watches is watched again, but
\* for a FIFO that could not be made again in REPLANT_MAX attempts.
ServedAgain ==
  \A s \in Slots :
    (s \in main.set) ~> \/ s \notin main.set \/ main.goal = "exit" \/ GivenUp(s)
                        \/ \E w \in Alive : worker[w].slot = s /\ ~worker[w].stale

\* A signal that ends the agent ends it, wherever it strikes.
ExitEnds == main.goal = "exit" ~> At("exited") \/ At("abandoned")

\* A comment of watch_mixed: the look at the stop flag before every respawn is
\* there "so a deliberate teardown can't leak a writer" (lines 836-837; likewise
\* 779-785).
TeardownLeaksNothing ==
  [][StopParent /\ Super("reregister") => Children \subseteq registry]_vars

\* A comment of run: "On any exit: stop the background watcher" (line 1110).
ExitStopsWatcher ==
  At("abandoned") => ~Running /\ Alive \subseteq leaked
=============================================================================
