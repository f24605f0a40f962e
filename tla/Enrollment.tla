----------------------------- MODULE Enrollment -----------------------------
(***************************************************************************)
(* The identity of one host: do_enroll of thumper_agent.sh, run by the     *)
(* agent that holds the lock, by its watcher (resync after a 401) and by   *)
(* install commands that register with it, against the server's table of   *)
(* endpoints (store.enroll_endpoint), with resets and force-removals,      *)
(* requests and answers that are lost, and signals at any command.         *)
(*                                                                         *)
(* One step is one command of the script or one request served (`enroll'   *)
(* does not leave the event loop after its body, see ControlPlane).  The   *)
(* state file is truncated and then written line by line: an enrollment    *)
(* may read it half written, and two may write it into each other.         *)
(***************************************************************************)
EXTENDS Naturals, FiniteSets

CONSTANTS Main, Watcher,  \* the lock holder and its watcher process
          Registrants,    \* install commands that find the lock taken
          Machines,       \* what gen_machine_id returns; bound: rows at once
          Tokens,         \* agent tokens; bound: identities at once
          MaxEvents,      \* bound: what others do (see Happens)
          None

Procs == {Main, Watcher} \cup Registrants

ASSUME EnrollmentAssumption ==
  /\ Main # Watcher /\ Main \notin Registrants /\ Watcher \notin Registrants
  /\ None \notin Machines \cup Tokens
  /\ MaxEvents \in Nat

VARIABLES endpoints,  \* table endpoints: machine_id -> agent_token
          file,       \* the state file
          proc,       \* the processes of the host
          events,     \* how often others have done something
          clean       \* history: every endpoint created is the one the file
                      \* names or is about to (see Forks and Harmful)

vars == <<endpoints, file, proc, events, clean>>

\* `machine', `token' and `answer' are machine_id, existing_token and the token in
\* the response (None: refused); `mem' is AGENT_TOKEN.  A pc is the next command.
\* `late' is history: another machine id has been saved since this one was read.
Enrolling == {"readMachine", "readToken", "post", "answer", "truncate",
              "writeMachine", "writeToken"}

Processes == [pc : Enrolling \cup {"off", "run"}, machine : Machines \cup {None},
              token : Tokens \cup {None}, answer : Tokens \cup {None},
              mem : Tokens \cup {None}, late : BOOLEAN]

At(pc, mem) == [pc |-> pc, machine |-> None, token |-> None, answer |-> None,
                mem |-> mem, late |-> FALSE]

Files == [machine : Machines \cup {None}, token : Tokens \cup {None}]

TypeOK ==
  /\ DOMAIN endpoints \subseteq Machines
  /\ endpoints \in [DOMAIN endpoints -> Tokens]
  /\ file \in Files
  /\ proc \in [Procs -> Processes]
  /\ events \in 0..MaxEvents
  /\ clean \in BOOLEAN

Init ==
  /\ endpoints = [m \in {} |-> None]
  /\ file = [machine |-> None, token |-> None]
  /\ proc = [p \in Procs |-> At("off", None)]
  /\ events = 0
  /\ clean = TRUE

-----------------------------------------------------------------------------
\* Helpers

Known == {endpoints[m] : m \in DOMAIN endpoints}

\* Ids are random: new ones are in nobody's hands.
NewMachines == Machines \ (DOMAIN endpoints \cup {file.machine}
                             \cup {proc[p].machine : p \in Procs})
NewTokens == Tokens \ (Known \cup {file.token}
                         \cup UNION {{proc[p].token, proc[p].answer, proc[p].mem} :
                                       p \in Procs})

\* state_get agent_token: bytes before the second line that nobody has written
\* hide it from sed's `^agent_token='.
SavedToken == IF file.machine = None THEN None ELSE file.token

Busy(p) == proc[p].pc \in Enrolling

\* Stopping p here leaves a row whose token is nowhere, or part of the file.
Harmful(p) ==
  \/ proc[p].pc \in {"answer", "truncate"}
     /\ proc[p].answer \notin {None, proc[p].token}
  \/ proc[p].pc \in {"writeMachine", "writeToken"}

\* The row created for p makes a second identity: another enrollment that overlaps
\* is about to save its own, or has.
Forks(p) ==
  \/ proc[p].late
  \/ \E q \in Procs \ {p} : proc[q].answer # None

\* Install commands, signals, rows that go, requests and answers that are lost:
\* there are finitely many.
Happens == events < MaxEvents /\ events' = events + 1

Begin(p, mem) == proc' = [proc EXCEPT ![p] = At("readMachine", mem)]

\* do_enroll returns 1: a start exits, an agent or a watcher that runs goes on.
Fail(p) ==
  proc' = [proc EXCEPT ![p] = IF @.mem = None THEN At("off", None)
                                              ELSE At("run", @.mem)]

-----------------------------------------------------------------------------
\* Who enrolls

\* An install command: it gets the lock, or finds it taken and registers.
Start(p) ==
  /\ p # Watcher /\ proc[p].pc = "off"
  /\ p # Main => proc[Main].pc # "off"
  /\ Begin(p, None)
  /\ Happens
  /\ UNCHANGED <<endpoints, file, clean>>

\* start_watcher: the watcher inherits the token of the main process.
Fork ==
  /\ proc[Main].pc = "run" /\ proc[Watcher].pc = "off"
  /\ proc' = [proc EXCEPT ![Watcher] = At("run", proc[Main].mem)]
  /\ UNCHANGED <<endpoints, file, events, clean>>

\* The sync loop: the pull is answered 401.
ResyncMain ==
  /\ proc[Main].pc = "run"
  /\ proc[Main].mem \notin Known
  /\ Begin(Main, proc[Main].mem)
  /\ UNCHANGED <<endpoints, file, events, clean>>

\* A callback is answered 401: the endpoint is gone, or only the deployment.
ResyncWatcher ==
  /\ proc[Watcher].pc = "run"
  /\ IF proc[Watcher].mem \in Known THEN Happens ELSE UNCHANGED events
  /\ Begin(Watcher, proc[Watcher].mem)
  /\ UNCHANGED <<endpoints, file, clean>>

\* A signal, a reboot, or stop_watcher.
Stop(p) ==
  /\ proc[p].pc # "off"
  /\ proc' = [proc EXCEPT ![p] = At("off", None)]
  /\ clean' = (clean /\ ~Harmful(p))
  /\ Happens
  /\ UNCHANGED <<endpoints, file>>

-----------------------------------------------------------------------------
\* do_enroll

\* Mutant of ReadMachine: every enrollment makes up a machine id.
ReadMachineFresh(p) ==
  /\ proc[p].pc = "readMachine"
  /\ \E m \in NewMachines :
       proc' = [proc EXCEPT ![p].pc = "readToken", ![p].machine = m]
  /\ UNCHANGED <<endpoints, file, events, clean>>

ReadMachine(p) ==
  /\ proc[p].pc = "readMachine"
  /\ \E m \in IF file.machine = None THEN NewMachines ELSE {file.machine} :
       proc' = [proc EXCEPT ![p].pc = "readToken", ![p].machine = m]
  /\ UNCHANGED <<endpoints, file, events, clean>>

ReadToken(p) ==
  /\ proc[p].pc = "readToken"
  /\ proc' = [proc EXCEPT ![p].pc = "post", ![p].token = SavedToken]
  /\ UNCHANGED <<endpoints, file, events, clean>>

\* Mutant of Serve: an unknown machine that shows a token is refused as well.
ServeKnownOnly(p) ==
  LET m == proc[p].machine IN
  /\ proc[p].pc = "post"
  /\ IF m \in DOMAIN endpoints \/ proc[p].token # None
     THEN /\ proc' = [proc EXCEPT
               ![p].pc = "answer",
               ![p].answer = IF m \in DOMAIN endpoints /\ endpoints[m] = proc[p].token
                             THEN endpoints[m] ELSE None]
          /\ UNCHANGED <<endpoints, clean>>
     ELSE \E t \in NewTokens :
            /\ endpoints' = [n \in DOMAIN endpoints \cup {m} |->
                               IF n = m THEN t ELSE endpoints[n]]
            /\ proc' = [proc EXCEPT ![p].pc = "answer", ![p].answer = t]
            /\ clean' = (clean /\ ~Forks(p))
  /\ UNCHANGED <<file, events>>

\* enroll_endpoint: a known machine must show its token, a new one gets one.
Serve(p) ==
  LET m == proc[p].machine IN
  /\ proc[p].pc = "post"
  /\ IF m \in DOMAIN endpoints
     THEN /\ proc' = [proc EXCEPT
               ![p].pc = "answer",
               ![p].answer = IF endpoints[m] = proc[p].token
                             THEN endpoints[m] ELSE None]
          /\ UNCHANGED <<endpoints, clean>>
     ELSE \E t \in NewTokens :
            /\ endpoints' = [n \in DOMAIN endpoints \cup {m} |->
                               IF n = m THEN t ELSE endpoints[n]]
            /\ proc' = [proc EXCEPT ![p].pc = "answer", ![p].answer = t]
            /\ clean' = (clean /\ ~Forks(p))
  /\ UNCHANGED <<file, events>>

\* curl fails: the request did not arrive, or its answer did not.
Lose(p) ==
  /\ proc[p].pc \in {"post", "answer"}
  /\ Fail(p)
  /\ clean' = (clean /\ ~Harmful(p))
  /\ Happens
  /\ UNCHANGED <<endpoints, file>>

\* curl -f fails on 409.
Refused(p) ==
  /\ proc[p].pc = "answer" /\ proc[p].answer = None
  /\ Fail(p)
  /\ UNCHANGED <<endpoints, file, events, clean>>

Answered(p) ==
  /\ proc[p].pc = "answer" /\ proc[p].answer # None
  /\ proc' = [proc EXCEPT ![p].pc = "truncate", ![p].mem = proc[p].answer]
  /\ UNCHANGED <<endpoints, file, events, clean>>

Truncate(p) ==
  /\ proc[p].pc = "truncate"
  /\ file' = [machine |-> None, token |-> None]
  /\ proc' = [proc EXCEPT ![p].pc = "writeMachine"]
  /\ UNCHANGED <<endpoints, events, clean>>

WriteMachine(p) ==
  /\ proc[p].pc = "writeMachine"
  /\ file' = [file EXCEPT !.machine = proc[p].machine]
  /\ proc' = [q \in Procs |->
       IF q = p THEN [proc[p] EXCEPT !.pc = "writeToken"]
       ELSE [proc[q] EXCEPT
               !.late = @ \/ proc[q].machine \notin {None, proc[p].machine}]]
  /\ UNCHANGED <<endpoints, events, clean>>

\* Mutant of WriteToken: the token that was sent is saved, not the answer.
WriteTokenSent(p) ==
  /\ proc[p].pc = "writeToken"
  /\ file' = [file EXCEPT !.token = proc[p].token]
  /\ proc' = [proc EXCEPT ![p] = IF p \in Registrants THEN At("off", None)
                                                     ELSE At("run", @.mem)]
  /\ UNCHANGED <<endpoints, events, clean>>

\* The last line; a registering command exits, the others go on.
WriteToken(p) ==
  /\ proc[p].pc = "writeToken"
  /\ file' = [file EXCEPT !.token = proc[p].answer]
  /\ proc' = [proc EXCEPT ![p] = IF p \in Registrants THEN At("off", None)
                                                     ELSE At("run", @.mem)]
  /\ UNCHANGED <<endpoints, events, clean>>

-----------------------------------------------------------------------------
\* The server loses rows: one is force-removed, or the database is reset.
Remove(gone) ==
  /\ gone # {}
  /\ endpoints' = [m \in DOMAIN endpoints \ gone |-> endpoints[m]]
  /\ Happens
  /\ UNCHANGED <<file, proc, clean>>

EnrollStep(p) ==
  \/ ReadMachine(p) \/ ReadToken(p) \/ Serve(p) \/ Refused(p) \/ Answered(p)
  \/ Truncate(p) \/ WriteMachine(p) \/ WriteToken(p)

Next ==
  \/ \E p \in Procs : Start(p) \/ EnrollStep(p) \/ Lose(p) \/ Stop(p)
  \/ Fork \/ ResyncMain \/ ResyncWatcher
  \/ \E m \in DOMAIN endpoints : Remove({m})
  \/ Remove(DOMAIN endpoints)

\* The shell runs its commands, the server answers, and the sync loop goes round
\* (its cooldown passes).
Fairness ==
  /\ \A p \in Procs : WF_vars(EnrollStep(p))
  /\ WF_vars(ResyncMain)

Spec == Init /\ [][Next]_vars /\ Fairness

-----------------------------------------------------------------------------
\* Properties.

\* The server knows the machine of the state file under another token, and no
\* enrollment under way can change that: every later one is answered 409.
LockedOut ==
  /\ file.machine \in DOMAIN endpoints
  /\ endpoints[file.machine] # SavedToken
  /\ \A p \in Procs : ~Busy(p)

\* Resets, removals, restarts and lost requests never lock a host out, nor do lost
\* answers to enrollments that found their row (thumper_agent.sh:418-420).
RecoverableIfClean == clean => ~LockedOut

\* "Enroll is idempotent (same machine_id -> same endpoint + token)"
\* (thumper_agent.sh:157-160): whoever enrolls a host, it is one endpoint.
OneEndpointIfClean == clean => Cardinality(DOMAIN endpoints) <= 1

\* A running agent whose endpoint the server has lost is enrolled again, unless
\* it stops (thumper_agent.sh:1152-1156).
Recovers ==
  proc[Main].mem \notin Known /\ proc[Main].pc = "run"
    ~> \/ proc[Main].mem \in Known \/ proc[Main].pc = "off" \/ ~clean

\* Enrolling "never blocks first-time enrollment or recovery" (store.py:83-86).
NeverLockedOut == ~LockedOut
=============================================================================
