--------------------------- MODULE Watcher_proofs ---------------------------
(***************************************************************************)
(* Why a stop of the sensors leaves no worker behind and a bait has one    *)
(* worker, for any number of baits and whatever dies: between any two      *)
(* commands every worker that is alive is in the registry, or is a child   *)
(* of a supervisor about to write it there, or is counted as leaked.       *)
(***************************************************************************)
EXTENDS Watcher, TLAPS

-----------------------------------------------------------------------------
\* The inductive invariant.

\* The places where the sensors are stopped.
Halted == {"reconcile", "start", "fork", "exited"}

\* A supervisor without a WATCH_PID is one just forked, or has been abandoned.
OneSupervisor ==
  /\ main.pc \in Halted \cup {"cleanup", "orphans"} => ~Running
  /\ ~main.watch /\ main.pc \notin {"forked", "abandoned"} => ~Running

Emptied == main.pc \in Halted => Alive \subseteq leaked

\* The registry is behind by what has just been forked.
Unwritten == supervisor.pc \in {"spawn", "register", "reregister"}

Accounted ==
  Alive \subseteq leaked \cup registry \cup (IF Unwritten THEN Children ELSE {})

Own == {supervisor.slot[s] : s \in Slots}

\* A supervisor's own workers are all there are, each where it believes it is.
Owned ==
  Running =>
    /\ Alive \subseteq leaked \cup Own
    /\ \A s \in Slots :
         supervisor.slot[s] \in Alive => worker[supervisor.slot[s]].slot = s

\* It forks a worker only where it has none.
Vacant ==
  /\ Super("spawn") => \A s \in supervisor.todo : supervisor.slot[s] \notin Alive
  /\ supervisor.pc \in {"again", "respawn"} =>
       supervisor.at \in Slots /\ supervisor.slot[supervisor.at] \notin Alive

IndInv ==
  /\ TypeOK /\ OneSupervisor /\ Emptied /\ Accounted /\ Owned /\ Vacant
  /\ OneWorkerEach

-----------------------------------------------------------------------------
\* Helpers.

\* CHOOSE finds a lifetime nobody remembers.
LEMMA FreshFree ==
  ASSUME Free # {}
  PROVE  /\ Fresh \in Workers \ Alive
         /\ Fresh \notin Own
BY DEF Free, Fresh, Own


-----------------------------------------------------------------------------
\* Types.

LEMMA NoSupervisorTyped == NoSupervisor \in Supervisors
BY DEF NoSupervisor, Supervisors

LEMMA EndsTyped ==
  ASSUME TypeOK, SupervisorEnds
  PROVE  /\ supervisor' \in Supervisors /\ leaked' \subseteq Workers
         /\ worker' \in [Workers -> Working \cup {None}]
<1>1. supervisor' \in Supervisors BY NoSupervisorTyped DEF SupervisorEnds
<1>2. leaked' \subseteq Workers BY DEF SupervisorEnds, TypeOK, Children, Alive
<1>3. \A x \in Alive : [worker[x] EXCEPT !.child = FALSE] \in Working
  BY DEF TypeOK, Alive, Working
<1>4. worker' \in [Workers -> Working \cup {None}]
  BY <1>3 DEF SupervisorEnds
<1>. QED BY <1>1, <1>2, <1>4


\* Every step keeps the types of the main shell.
LEMMA MainTyped ==
  ASSUME IndInv, [Next]_vars
  PROVE  main' \in Mains
<1>1. main \in Mains BY DEF IndInv, TypeOK
<1>2. ASSUME Wake PROVE main' \in Mains
  <2>1. \A pc \in {"sync", "reap"} : [main EXCEPT !.pc = pc] \in Mains
    BY <1>1 DEF Mains
  <2>. QED BY <1>2, <2>1 DEF Wake, Goto
<1>3. ASSUME Reap PROVE main' \in Mains
  BY <1>1, <1>3 DEF Reap, Mains, Goto, Stopping
<1>40. ASSUME NEW w \in Workers, ReapOrphan(w) PROVE main' \in Mains
  BY <1>1, <1>40 DEF ReapOrphan, Mains, Goto, Stopping
<1>41. ASSUME ReapEnd PROVE main' \in Mains
  BY <1>1, <1>41 DEF ReapEnd, Mains, Goto, Stopping
<1>4. ASSUME NEW made \in SUBSET Pipes, Reconcile(made) PROVE main' \in Mains
  BY <1>1, <1>4 DEF Reconcile, Mains, Goto, Stopping
<1>5. ASSUME StartFlag PROVE main' \in Mains
  BY <1>1, <1>5 DEF StartFlag, Mains, Goto, Stopping
<1>6. ASSUME StartFork PROVE main' \in Mains
  BY <1>1, <1>6 DEF StartFork, Mains, Goto, Stopping
<1>7. ASSUME StartPid PROVE main' \in Mains
  BY <1>1, <1>7 DEF StartPid, Mains, Goto, Stopping
<1>8. ASSUME StartFingerprint PROVE main' \in Mains
  <2>1. \A b \in BOOLEAN :
          [main EXCEPT !.pc = main.then, !.watch = b, !.started = b] \in Mains
    BY <1>1 DEF Mains
  <2>2. Running \in BOOLEAN BY DEF Running
  <2>. QED BY <1>8, <2>1, <2>2 DEF StartFingerprint
<1>9. ASSUME StopFlag PROVE main' \in Mains
  BY <1>1, <1>9 DEF StopFlag, Mains, Goto, Stopping
<1>10. ASSUME StopChildren PROVE main' \in Mains
  BY <1>1, <1>10 DEF StopChildren, Mains, Goto, Stopping
<1>11. ASSUME StopParent PROVE main' \in Mains
  BY <1>1, <1>11 DEF StopParent, Mains, Goto, Stopping
<1>12. ASSUME StopWait PROVE main' \in Mains
  BY <1>1, <1>12 DEF StopWait, Mains, Goto, Stopping
<1>13. ASSUME StopCleanup PROVE main' \in Mains
  BY <1>1, <1>13 DEF StopCleanup, Mains, Goto, Stopping
<1>14. ASSUME NEW made \in SUBSET Pipes, Verify(made) PROVE main' \in Mains
  BY <1>1, <1>14 DEF Verify, Mains, Goto, Stopping
<1>15. ASSUME SpawnEnd PROVE main' \in Mains
  BY <1>1, <1>15 DEF SpawnEnd, Mains, Goto, Stopping
<1>16. ASSUME Register PROVE main' \in Mains
  BY <1>1, <1>16 DEF Register, Mains, Goto, Stopping
<1>17. ASSUME Top PROVE main' \in Mains
  BY <1>1, <1>17 DEF Top, Mains, Goto, Stopping
<1>18. ASSUME ScanEnd PROVE main' \in Mains
  BY <1>1, <1>18 DEF ScanEnd, Mains, Goto, Stopping
<1>19. ASSUME Again PROVE main' \in Mains
  BY <1>1, <1>19 DEF Again, Mains, Goto, Stopping
<1>20. ASSUME Respawn PROVE main' \in Mains
  BY <1>1, <1>20 DEF Respawn, Mains, Goto, Stopping
<1>21. ASSUME NEW s \in Slots, Spawn(s) PROVE main' \in Mains
  BY <1>1, <1>21 DEF Spawn, Mains, Goto, Stopping
<1>22. ASSUME NEW s \in Slots, Scan(s) PROVE main' \in Mains
  BY <1>1, <1>22 DEF Scan, Mains, Goto, Stopping
<1>23. ASSUME Terminate PROVE main' \in Mains
  <2>1. \A pc \in {"flag", "exited", "abandoned"} :
          [main EXCEPT !.goal = "exit", !.pc = pc] \in Mains
    BY <1>1 DEF Mains, Stopping
  <2>2. PICK pc \in {"flag", "exited", "abandoned"} :
          main' = [main EXCEPT !.goal = "exit", !.pc = pc]
    <3>1. CASE main.watch BY <1>23, <3>1 DEF Terminate
    <3>2. CASE ~main.watch /\ main.pc \in {"start", "fork"}
      BY <1>23, <3>2 DEF Terminate
    <3>3. CASE ~main.watch /\ main.pc \notin {"start", "fork"}
      BY <1>23, <3>3 DEF Terminate
    <3>. QED BY <3>1, <3>2, <3>3
  <2>. QED BY <2>1, <2>2
<1>24. ASSUME SupervisorDies PROVE main' \in Mains
  BY <1>1, <1>24 DEF SupervisorDies, Mains, Goto, Stopping
<1>25. ASSUME NEW set \in SUBSET Slots, Change(set) PROVE main' \in Mains
  BY <1>1, <1>25 DEF Change, Mains, Goto, Stopping
<1>26. ASSUME NEW x \in Workers, WorkerDies(x) PROVE main' \in Mains
  BY <1>1, <1>26 DEF WorkerDies, Mains, Goto, Stopping
<1>27. ASSUME NEW s \in Pipes, PipeRemoved(s) PROVE main' \in Mains
  BY <1>1, <1>27 DEF PipeRemoved, Mains, Goto, Stopping
<1>28. CASE UNCHANGED vars
  BY <1>1, <1>28 DEF vars, Mains, Goto, Stopping
<1>. QED BY <1>2, <1>3, <1>4, <1>5, <1>6, <1>7, <1>8, <1>9, <1>10, <1>11,
          <1>12, <1>13, <1>14, <1>15, <1>16, <1>17, <1>18, <1>19, <1>20,
          <1>21, <1>22, <1>23, <1>24, <1>25, <1>26, <1>27, <1>28, <1>40, <1>41 DEF Next,
          MainStep, SupervisorStep, FaultStep

\* Every step keeps the types of the supervisor.
LEMMA SupervisorTyped ==
  ASSUME IndInv, [Next]_vars
  PROVE  supervisor' \in Supervisors
<1>1. supervisor \in Supervisors BY DEF IndInv, TypeOK
<1>2. NoSupervisor \in Supervisors BY NoSupervisorTyped
<1>3. TypeOK BY DEF IndInv
<1>4. ASSUME Wake PROVE supervisor' \in Supervisors
  BY <1>1, <1>2, <1>3, <1>4 DEF Wake, Supervisors, SuperGoto
<1>5. ASSUME Reap PROVE supervisor' \in Supervisors
  BY <1>1, <1>2, <1>3, <1>5 DEF Reap, Supervisors, SuperGoto
<1>40. ASSUME NEW w \in Workers, ReapOrphan(w) PROVE supervisor' \in Supervisors
  BY <1>1, <1>2, <1>3, <1>40 DEF ReapOrphan, Supervisors, SuperGoto
<1>41. ASSUME ReapEnd PROVE supervisor' \in Supervisors
  BY <1>1, <1>2, <1>3, <1>41 DEF ReapEnd, Supervisors, SuperGoto
<1>6. ASSUME NEW made \in SUBSET Pipes, Reconcile(made) PROVE supervisor' \in Supervisors
  BY <1>1, <1>2, <1>3, <1>6 DEF Reconcile, Supervisors, SuperGoto
<1>7. ASSUME StartFlag PROVE supervisor' \in Supervisors
  BY <1>1, <1>2, <1>3, <1>7 DEF StartFlag, Supervisors, SuperGoto
<1>8. ASSUME StartFork PROVE supervisor' \in Supervisors
  <2>1. main.set \subseteq Slots BY <1>3 DEF TypeOK, Mains
  <2>2. [NoSupervisor EXCEPT !.pc = "spawn", !.set = main.set, !.todo = main.set]
          \in Supervisors
    BY <1>2, <2>1 DEF Supervisors
  <2>. QED BY <1>8, <2>2 DEF StartFork
<1>9. ASSUME StartPid PROVE supervisor' \in Supervisors
  BY <1>1, <1>2, <1>3, <1>9 DEF StartPid, Supervisors, SuperGoto
<1>10. ASSUME StartFingerprint PROVE supervisor' \in Supervisors
  BY <1>1, <1>2, <1>3, <1>10 DEF StartFingerprint, Supervisors, SuperGoto
<1>11. ASSUME StopFlag PROVE supervisor' \in Supervisors
  BY <1>1, <1>2, <1>3, <1>11 DEF StopFlag, Supervisors, SuperGoto
<1>12. ASSUME StopChildren PROVE supervisor' \in Supervisors
  BY <1>1, <1>2, <1>3, <1>12 DEF StopChildren, Supervisors, SuperGoto
<1>13. ASSUME StopParent PROVE supervisor' \in Supervisors
  <2>1. CASE SupervisorEnds BY <1>3, <2>1, EndsTyped
  <2>. QED BY <1>1, <1>13, <2>1 DEF StopParent, SuperGoto, Supervisors
<1>14. ASSUME StopWait PROVE supervisor' \in Supervisors
  BY <1>1, <1>2, <1>3, <1>14 DEF StopWait, Supervisors, SuperGoto
<1>15. ASSUME StopCleanup PROVE supervisor' \in Supervisors
  BY <1>1, <1>2, <1>3, <1>15 DEF StopCleanup, Supervisors, SuperGoto
<1>16. ASSUME NEW made \in SUBSET Pipes, Verify(made) PROVE supervisor' \in Supervisors
  BY <1>1, <1>2, <1>3, <1>16 DEF Verify, Supervisors, SuperGoto
<1>17. ASSUME SpawnEnd PROVE supervisor' \in Supervisors
  BY <1>1, <1>2, <1>3, <1>17 DEF SpawnEnd, Supervisors, SuperGoto
<1>18. ASSUME Register PROVE supervisor' \in Supervisors
  BY <1>1, <1>2, <1>3, <1>18 DEF Register, Supervisors, SuperGoto
<1>19. ASSUME Top PROVE supervisor' \in Supervisors
  <2>1. CASE SupervisorEnds BY <1>3, <2>1, EndsTyped
  <2>. QED BY <1>1, <1>19, <2>1 DEF Top, SuperGoto, Supervisors
<1>20. ASSUME ScanEnd PROVE supervisor' \in Supervisors
  BY <1>1, <1>2, <1>3, <1>20 DEF ScanEnd, Supervisors, SuperGoto
<1>21. ASSUME Again PROVE supervisor' \in Supervisors
  <2>1. CASE SupervisorEnds BY <1>3, <2>1, EndsTyped
  <2>. QED BY <1>1, <1>21, <2>1 DEF Again, SuperGoto, Supervisors
<1>22. ASSUME Respawn PROVE supervisor' \in Supervisors
  <2>1. Fresh \in Workers /\ supervisor.at \in Slots
    BY <1>22, FreshFree DEF IndInv, Vacant, Respawn, Super
  <2>. QED BY <1>1, <1>22, <2>1 DEF Respawn, Supervisors
<1>23. ASSUME NEW s \in Slots, Spawn(s) PROVE supervisor' \in Supervisors
  <2>1. Fresh \in Workers BY <1>23, FreshFree DEF Spawn
  <2>. QED BY <1>1, <1>23, <2>1 DEF Spawn, Supervisors
<1>24. ASSUME NEW s \in Slots, Scan(s) PROVE supervisor' \in Supervisors
  BY <1>1, <1>2, <1>3, <1>24 DEF Scan, Supervisors, SuperGoto
<1>25. ASSUME Terminate PROVE supervisor' \in Supervisors
  BY <1>1, <1>2, <1>3, <1>25 DEF Terminate, Supervisors, SuperGoto
<1>26. ASSUME SupervisorDies PROVE supervisor' \in Supervisors
  BY <1>3, <1>26, EndsTyped DEF SupervisorDies
<1>27. ASSUME NEW set \in SUBSET Slots, Change(set) PROVE supervisor' \in Supervisors
  BY <1>1, <1>2, <1>3, <1>27 DEF Change, Supervisors, SuperGoto
<1>28. ASSUME NEW x \in Workers, WorkerDies(x) PROVE supervisor' \in Supervisors
  BY <1>1, <1>2, <1>3, <1>28 DEF WorkerDies, Supervisors, SuperGoto
<1>29. ASSUME NEW s \in Pipes, PipeRemoved(s) PROVE supervisor' \in Supervisors
  BY <1>1, <1>2, <1>3, <1>29 DEF PipeRemoved, Supervisors, SuperGoto
<1>30. CASE UNCHANGED vars
  BY <1>1, <1>2, <1>3, <1>30 DEF vars, Supervisors, SuperGoto
<1>. QED BY <1>4, <1>5, <1>6, <1>7, <1>8, <1>9, <1>10, <1>11, <1>12, <1>13,
          <1>14, <1>15, <1>16, <1>17, <1>18, <1>19, <1>20, <1>21, <1>22,
          <1>23, <1>24, <1>25, <1>26, <1>27, <1>28, <1>29, <1>30, <1>40, <1>41 DEF Next,
          MainStep, SupervisorStep, FaultStep

\* Every step keeps the types of the workers.
LEMMA WorkersTyped ==
  ASSUME IndInv, [Next]_vars
  PROVE  worker' \in [Workers -> Working \cup {None}]
<1>1. worker \in [Workers -> Working \cup {None}] BY DEF IndInv, TypeOK
<1>2. TypeOK BY DEF IndInv
<1>3. ASSUME Wake PROVE worker' \in [Workers -> Working \cup {None}]
  BY <1>1, <1>2, <1>3 DEF Wake, Killed
<1>4. ASSUME Reap PROVE worker' \in [Workers -> Working \cup {None}]
  BY <1>1, <1>2, <1>4 DEF Reap, Killed
<1>40. ASSUME NEW w \in Workers, ReapOrphan(w) PROVE worker' \in [Workers -> Working \cup {None}]
  BY <1>1, <1>2, <1>40 DEF ReapOrphan, Killed
<1>41. ASSUME ReapEnd PROVE worker' \in [Workers -> Working \cup {None}]
  BY <1>1, <1>2, <1>41 DEF ReapEnd, Killed
<1>5. ASSUME NEW made \in SUBSET Pipes, Reconcile(made) PROVE worker' \in [Workers -> Working \cup {None}]
  <2>1. \A x \in Alive : [worker[x] EXCEPT !.stale = TRUE] \in Working
    BY <1>1 DEF Alive, Working
  <2>. QED BY <1>1, <1>5, <2>1 DEF Reconcile
<1>6. ASSUME StartFlag PROVE worker' \in [Workers -> Working \cup {None}]
  BY <1>1, <1>2, <1>6 DEF StartFlag, Killed
<1>7. ASSUME StartFork PROVE worker' \in [Workers -> Working \cup {None}]
  BY <1>1, <1>2, <1>7 DEF StartFork, Killed
<1>8. ASSUME StartPid PROVE worker' \in [Workers -> Working \cup {None}]
  BY <1>1, <1>2, <1>8 DEF StartPid, Killed
<1>9. ASSUME StartFingerprint PROVE worker' \in [Workers -> Working \cup {None}]
  BY <1>1, <1>2, <1>9 DEF StartFingerprint, Killed
<1>10. ASSUME StopFlag PROVE worker' \in [Workers -> Working \cup {None}]
  BY <1>1, <1>2, <1>10 DEF StopFlag, Killed
<1>11. ASSUME StopChildren PROVE worker' \in [Workers -> Working \cup {None}]
  BY <1>1, <1>2, <1>11 DEF StopChildren, Killed
<1>12. ASSUME StopParent PROVE worker' \in [Workers -> Working \cup {None}]
  <2>1. CASE SupervisorEnds BY <1>2, <2>1, EndsTyped
  <2>. QED BY <1>1, <1>12, <2>1 DEF StopParent
<1>13. ASSUME StopWait PROVE worker' \in [Workers -> Working \cup {None}]
  BY <1>1, <1>2, <1>13 DEF StopWait, Killed
<1>14. ASSUME StopCleanup PROVE worker' \in [Workers -> Working \cup {None}]
  BY <1>1, <1>2, <1>14 DEF StopCleanup, Killed
<1>15. ASSUME NEW made \in SUBSET Pipes, Verify(made) PROVE worker' \in [Workers -> Working \cup {None}]
  BY <1>1, <1>2, <1>15 DEF Verify, Killed
<1>16. ASSUME SpawnEnd PROVE worker' \in [Workers -> Working \cup {None}]
  BY <1>1, <1>2, <1>16 DEF SpawnEnd, Killed
<1>17. ASSUME Register PROVE worker' \in [Workers -> Working \cup {None}]
  BY <1>1, <1>2, <1>17 DEF Register, Killed
<1>18. ASSUME Top PROVE worker' \in [Workers -> Working \cup {None}]
  <2>1. CASE SupervisorEnds BY <1>2, <2>1, EndsTyped
  <2>. QED BY <1>1, <1>18, <2>1 DEF Top
<1>19. ASSUME ScanEnd PROVE worker' \in [Workers -> Working \cup {None}]
  BY <1>1, <1>2, <1>19 DEF ScanEnd, Killed
<1>20. ASSUME Again PROVE worker' \in [Workers -> Working \cup {None}]
  <2>1. CASE SupervisorEnds BY <1>2, <2>1, EndsTyped
  <2>. QED BY <1>1, <1>20, <2>1 DEF Again
<1>21. ASSUME Respawn PROVE worker' \in [Workers -> Working \cup {None}]
  <2>1. Fresh \in Workers BY <1>21, FreshFree DEF Respawn
  <2>2. supervisor.at \in Slots BY <1>21 DEF IndInv, Vacant, Respawn, Super
  <2>3. [slot |-> supervisor.at, child |-> TRUE, stale |-> FALSE] \in Working
    BY <2>2 DEF Working
  <2>. QED BY <1>1, <1>21, <2>1, <2>3 DEF Respawn, Forked
<1>22. ASSUME NEW s \in Slots, Spawn(s) PROVE worker' \in [Workers -> Working \cup {None}]
  <2>1. Fresh \in Workers BY <1>22, FreshFree DEF Spawn
  <2>2. s \in Slots BY <1>22 DEF IndInv, Vacant, Spawn, Super
  <2>3. [slot |-> s, child |-> TRUE, stale |-> FALSE] \in Working
    BY <2>2 DEF Working
  <2>. QED BY <1>1, <1>22, <2>1, <2>3 DEF Spawn, Forked
<1>23. ASSUME NEW s \in Slots, Scan(s) PROVE worker' \in [Workers -> Working \cup {None}]
  BY <1>1, <1>2, <1>23 DEF Scan, Killed
<1>24. ASSUME Terminate PROVE worker' \in [Workers -> Working \cup {None}]
  BY <1>1, <1>2, <1>24 DEF Terminate, Killed
<1>25. ASSUME SupervisorDies PROVE worker' \in [Workers -> Working \cup {None}]
  <2>1. CASE SupervisorEnds BY <1>2, <2>1, EndsTyped
  <2>. QED BY <1>1, <1>25, <2>1 DEF SupervisorDies
<1>26. ASSUME NEW set \in SUBSET Slots, Change(set) PROVE worker' \in [Workers -> Working \cup {None}]
  BY <1>1, <1>2, <1>26 DEF Change, Killed
<1>27. ASSUME NEW x \in Workers, WorkerDies(x) PROVE worker' \in [Workers -> Working \cup {None}]
  BY <1>1, <1>2, <1>27 DEF WorkerDies, Killed
<1>28. ASSUME NEW s \in Pipes, PipeRemoved(s) PROVE worker' \in [Workers -> Working \cup {None}]
  <2>1. \A x \in Alive : [worker[x] EXCEPT !.stale = TRUE] \in Working
    BY <1>1 DEF Alive, Working
  <2>. QED BY <1>1, <1>28, <2>1 DEF PipeRemoved
<1>29. CASE UNCHANGED vars
  BY <1>1, <1>2, <1>29 DEF vars, Killed
<1>. QED BY <1>3, <1>4, <1>5, <1>6, <1>7, <1>8, <1>9, <1>10, <1>11, <1>12,
          <1>13, <1>14, <1>15, <1>16, <1>17, <1>18, <1>19, <1>20, <1>21,
          <1>22, <1>23, <1>24, <1>25, <1>26, <1>27, <1>28, <1>29, <1>40, <1>41 DEF Next,
          MainStep, SupervisorStep, FaultStep

Rest ==
  /\ registry \subseteq Workers /\ leaked \subseteq Workers
  /\ flag \in BOOLEAN /\ pipe \subseteq Pipes /\ faults \in 0..MaxFaults
  /\ heal \in [Pipes -> 0..ReplantMax]


\* Every step keeps the other types.
LEMMA RestTyped ==
  ASSUME IndInv, [Next]_vars
  PROVE  Rest'
<1>1. Rest BY DEF IndInv, TypeOK, Rest
<1>2. TypeOK BY DEF IndInv
<1>3. Alive \subseteq Workers /\ Children \subseteq Alive BY DEF Alive, Children
<1>4. Fault => faults' \in 0..MaxFaults
  BY <1>1, WatcherAssumption DEF Fault, Rest
<1>5. ASSUME Wake PROVE Rest'
  BY <1>1, <1>2, <1>3, <1>4, <1>5 DEF Wake, Rest
<1>6. ASSUME Reap PROVE Rest'
  BY <1>1, <1>2, <1>3, <1>4, <1>6 DEF Reap, Rest
<1>40. ASSUME NEW w \in Workers, ReapOrphan(w) PROVE Rest'
  BY <1>1, <1>2, <1>3, <1>4, <1>40 DEF ReapOrphan, Rest
<1>41. ASSUME ReapEnd PROVE Rest'
  BY <1>1, <1>2, <1>3, <1>4, <1>41 DEF ReapEnd, Rest
<1>7. ASSUME NEW made \in SUBSET Pipes, Reconcile(made) PROVE Rest'
  <2>1. heal' \in [Pipes -> 0..ReplantMax]
    BY <1>1, <1>7, WatcherAssumption DEF Reconcile, Rest
  <2>. QED BY <1>1, <1>7, <2>1 DEF Reconcile, Rest
<1>8. ASSUME StartFlag PROVE Rest'
  BY <1>1, <1>2, <1>3, <1>4, <1>8 DEF StartFlag, Rest
<1>9. ASSUME StartFork PROVE Rest'
  BY <1>1, <1>2, <1>3, <1>4, <1>9 DEF StartFork, Rest
<1>10. ASSUME StartPid PROVE Rest'
  BY <1>1, <1>2, <1>3, <1>4, <1>10 DEF StartPid, Rest
<1>11. ASSUME StartFingerprint PROVE Rest'
  BY <1>1, <1>2, <1>3, <1>4, <1>11 DEF StartFingerprint, Rest
<1>12. ASSUME StopFlag PROVE Rest'
  BY <1>1, <1>2, <1>3, <1>4, <1>12 DEF StopFlag, Rest
<1>13. ASSUME StopChildren PROVE Rest'
  BY <1>1, <1>2, <1>3, <1>4, <1>13 DEF StopChildren, Rest
<1>14. ASSUME StopParent PROVE Rest'
  <2>1. leaked' \subseteq Workers
    BY <1>1, <1>2, <1>14, EndsTyped DEF StopParent, Rest
  <2>. QED BY <1>1, <1>4, <1>14, <2>1 DEF StopParent, Rest
<1>15. ASSUME StopWait PROVE Rest'
  BY <1>1, <1>2, <1>3, <1>4, <1>15 DEF StopWait, Rest
<1>16. ASSUME StopCleanup PROVE Rest'
  BY <1>1, <1>2, <1>3, <1>4, <1>16 DEF StopCleanup, Rest
<1>17. ASSUME NEW made \in SUBSET Pipes, Verify(made) PROVE Rest'
  <2>1. \A s \in Tried : heal[s] + 1 \in 0..ReplantMax
    BY <1>1, WatcherAssumption DEF Tried, Rest
  <2>2. heal' \in [Pipes -> 0..ReplantMax] BY <1>1, <1>17, <2>1 DEF Verify, Counted, Rest
  <2>. QED BY <1>1, <1>17, <2>2 DEF Verify, Tried, Rest
<1>18. ASSUME SpawnEnd PROVE Rest'
  BY <1>1, <1>2, <1>3, <1>4, <1>18 DEF SpawnEnd, Rest
<1>19. ASSUME Register PROVE Rest'
  BY <1>1, <1>2, <1>3, <1>4, <1>19 DEF Register, Rest
<1>20. ASSUME Top PROVE Rest'
  <2>1. leaked' \subseteq Workers
    BY <1>1, <1>2, <1>20, EndsTyped DEF Top, Rest
  <2>. QED BY <1>1, <1>4, <1>20, <2>1 DEF Top, Rest
<1>21. ASSUME ScanEnd PROVE Rest'
  BY <1>1, <1>2, <1>3, <1>4, <1>21 DEF ScanEnd, Rest
<1>22. ASSUME Again PROVE Rest'
  <2>1. leaked' \subseteq Workers
    BY <1>1, <1>2, <1>22, EndsTyped DEF Again, Rest
  <2>. QED BY <1>1, <1>4, <1>22, <2>1 DEF Again, Rest
<1>23. ASSUME Respawn PROVE Rest'
  BY <1>1, <1>2, <1>3, <1>4, <1>23 DEF Respawn, Rest
<1>24. ASSUME NEW s \in Slots, Spawn(s) PROVE Rest'
  BY <1>1, <1>2, <1>3, <1>4, <1>24 DEF Spawn, Rest
<1>25. ASSUME NEW s \in Slots, Scan(s) PROVE Rest'
  BY <1>1, <1>2, <1>3, <1>4, <1>25 DEF Scan, Rest
<1>26. ASSUME Terminate PROVE Rest'
  BY <1>1, <1>2, <1>3, <1>4, <1>26 DEF Terminate, Rest
<1>27. ASSUME SupervisorDies PROVE Rest'
  <2>1. leaked' \subseteq Workers
    BY <1>1, <1>2, <1>27, EndsTyped DEF SupervisorDies, Rest
  <2>. QED BY <1>1, <1>4, <1>27, <2>1 DEF SupervisorDies, Rest
<1>28. ASSUME NEW set \in SUBSET Slots, Change(set) PROVE Rest'
  BY <1>1, <1>2, <1>3, <1>4, <1>28 DEF Change, Rest
<1>29. ASSUME NEW x \in Workers, WorkerDies(x) PROVE Rest'
  BY <1>1, <1>2, <1>3, <1>4, <1>29 DEF WorkerDies, Rest
<1>30. ASSUME NEW s \in Pipes, PipeRemoved(s) PROVE Rest'
  BY <1>1, <1>2, <1>3, <1>4, <1>30 DEF PipeRemoved, Rest
<1>31. CASE UNCHANGED vars
  BY <1>1, <1>2, <1>3, <1>4, <1>31 DEF vars, Rest
<1>. QED BY <1>5, <1>6, <1>7, <1>8, <1>9, <1>10, <1>11, <1>12, <1>13, <1>14,
          <1>15, <1>16, <1>17, <1>18, <1>19, <1>20, <1>21, <1>22, <1>23,
          <1>24, <1>25, <1>26, <1>27, <1>28, <1>29, <1>30, <1>31, <1>40, <1>41 DEF Next,
          MainStep, SupervisorStep, FaultStep

-----------------------------------------------------------------------------
\* What a step does to the workers.

LEMMA KilledAlive ==
  ASSUME TypeOK, NEW dead, worker' = Killed(dead)
  PROVE  /\ Alive' = Alive \ dead
         /\ \A x \in Alive' : worker'[x] = worker[x]
BY DEF TypeOK, Killed, Alive

LEMMA EndsAlive ==
  ASSUME TypeOK, SupervisorEnds
  PROVE  /\ Alive' = Alive /\ ~Running'
         /\ leaked \subseteq leaked'
         /\ Unwritten => Children \ registry \subseteq leaked'
         /\ supervisor' = NoSupervisor
         /\ \A x \in Alive' : /\ worker'[x].slot = worker[x].slot
                              /\ worker'[x].stale = worker[x].stale
<1>1. \A x \in Alive : /\ worker'[x] = [worker[x] EXCEPT !.child = FALSE]
                       /\ worker[x] \in Working
  BY DEF SupervisorEnds, TypeOK, Alive
<1>2. \A x \in Alive : /\ worker'[x].slot = worker[x].slot
                       /\ worker'[x].stale = worker[x].stale
                       /\ worker'[x] # None
  <2>. SUFFICES ASSUME NEW x \in Alive
                PROVE  /\ worker'[x].slot = worker[x].slot
                       /\ worker'[x].stale = worker[x].stale
                       /\ worker'[x] # None
    OBVIOUS
  <2>1. worker'[x] \in Working BY <1>1 DEF Working
  <2>2. worker'[x] # None BY <2>1, NoWorkerAssumption
  <2>. QED BY <1>1, <2>2 DEF Working
<1>3. \A x \in Workers \ Alive : worker'[x] = None BY DEF SupervisorEnds
<1>4. Alive' = Alive BY <1>2, <1>3 DEF Alive
<1>. QED BY <1>2, <1>4 DEF SupervisorEnds, NoSupervisor, Running, Unwritten


\* A fork revives a lifetime nobody remembers, and no other.
LEMMA ForkedAlive ==
  ASSUME TypeOK, Free # {}, NEW s \in Slots, Forked(s)
  PROVE  /\ Alive \subseteq Alive' /\ Alive' \subseteq Alive \cup {Fresh}
         /\ \A x \in Alive : worker'[x] = worker[x]
         /\ Fresh \in Alive' => worker'[Fresh].slot = s /\ worker'[Fresh].child
<1>1. Fresh \in Workers \ Alive BY FreshFree
<1>2. \A x \in Workers \ {Fresh} : worker'[x] = worker[x]
  BY DEF Forked, TypeOK
<1>3. worker'[Fresh] \in {None, [slot |-> s, child |-> TRUE, stale |-> FALSE]}
  BY <1>1 DEF Forked, TypeOK
<1>. QED BY <1>1, <1>2, <1>3 DEF Alive

\* A FIFO that is gone leaves its worker waiting.
LEMMA StaleAlive ==
  ASSUME TypeOK, NEW hit,
         worker' = [x \in Workers |-> IF x \in Alive /\ x \in hit
                                      THEN [worker[x] EXCEPT !.stale = TRUE]
                                      ELSE worker[x]]
  PROVE  /\ Alive' = Alive
         /\ \A x \in Alive : /\ worker'[x].slot = worker[x].slot
                             /\ worker'[x].child = worker[x].child
                             /\ worker[x].stale => worker'[x].stale
<1>1. ASSUME NEW x \in Alive
      PROVE  /\ worker'[x] # None
             /\ worker'[x].slot = worker[x].slot
             /\ worker'[x].child = worker[x].child
             /\ worker[x].stale => worker'[x].stale
  <2>1. worker[x] \in Working /\ x \in Workers BY DEF TypeOK, Alive
  <2>2. CASE x \in hit
    <3>1. worker'[x] = [worker[x] EXCEPT !.stale = TRUE] BY <2>1, <2>2
    <3>2. worker'[x] \in Working BY <2>1, <3>1 DEF Working
    <3>. QED BY <2>1, <3>1, <3>2, NoWorkerAssumption DEF Working
  <2>3. CASE x \notin hit
    <3>1. worker'[x] = worker[x] BY <2>1, <2>3
    <3>. QED BY <2>1, <3>1, NoWorkerAssumption
  <2>. QED BY <2>2, <2>3
<1>2. \A x \in Workers \ Alive : worker'[x] = worker[x] /\ worker'[x] = None
  BY DEF Alive
<1>3. Alive' = Alive BY <1>1, <1>2 DEF Alive
<1>. QED BY <1>1, <1>3

\* But for a fork a step only kills workers, or those that are leaked, and the
\* others stay what they are.
Shrinks ==
  /\ Alive' \subseteq Alive
  /\ Alive' \cap leaked \subseteq leaked'
  /\ \A x \in Alive' : /\ worker'[x].slot = worker[x].slot
                       /\ worker[x].stale => worker'[x].stale
  /\ SupervisorEnds \/ Children \cap Alive' \subseteq Children'


\* Every step but a fork shrinks the set of workers.
LEMMA Shrink ==
  ASSUME IndInv, [Next]_vars
  PROVE  Shrinks \/ Respawn \/ \E z \in Slots : Spawn(z)
<1>1. TypeOK BY DEF IndInv
<1>2. ASSUME Wake PROVE Shrinks \/ Respawn \/ \E z \in Slots : Spawn(z)
  <2>1. UNCHANGED worker /\ leaked \subseteq leaked' BY <1>2 DEF Wake
  <2>. QED BY <2>1 DEF Shrinks, Alive, Children
<1>3. ASSUME Reap PROVE Shrinks \/ Respawn \/ \E z \in Slots : Spawn(z)
  <2>1. UNCHANGED worker /\ leaked \subseteq leaked' BY <1>3 DEF Reap
  <2>. QED BY <2>1 DEF Shrinks, Alive, Children
<1>40. ASSUME NEW w \in Workers, ReapOrphan(w) PROVE Shrinks \/ Respawn \/ \E z \in Slots : Spawn(z)
  <2>1. /\ worker' = Killed({w}) /\ Alive \cap leaked \subseteq leaked' \cup {w}
    BY <1>1, <1>40 DEF ReapOrphan, TypeOK
  <2>. QED BY <1>1, <2>1, KilledAlive DEF Shrinks, Children
<1>41. ASSUME ReapEnd PROVE Shrinks \/ Respawn \/ \E z \in Slots : Spawn(z)
  <2>1. UNCHANGED worker /\ leaked \subseteq leaked' BY <1>41 DEF ReapEnd
  <2>. QED BY <2>1 DEF Shrinks, Alive, Children
<1>4. ASSUME NEW made \in SUBSET Pipes, Reconcile(made) PROVE Shrinks \/ Respawn \/ \E z \in Slots : Spawn(z)
  <2>. DEFINE hit == {x \in Alive : worker[x].slot \notin main.next}
  <2>1. /\ leaked' = leaked
        /\ worker' = [x \in Workers |-> IF x \in Alive /\ x \in hit
                                        THEN [worker[x] EXCEPT !.stale = TRUE]
                                        ELSE worker[x]]
    BY <1>4 DEF Reconcile
  <2>. HIDE DEF hit
  <2>2. /\ Alive' = Alive
        /\ \A x \in Alive : /\ worker'[x].slot = worker[x].slot
                            /\ worker'[x].child = worker[x].child
                            /\ worker[x].stale => worker'[x].stale
    BY <1>1, <2>1, StaleAlive
  <2>. QED BY <2>1, <2>2 DEF Shrinks, Children
<1>5. ASSUME StartFlag PROVE Shrinks \/ Respawn \/ \E z \in Slots : Spawn(z)
  <2>1. UNCHANGED worker /\ leaked \subseteq leaked' BY <1>5 DEF StartFlag
  <2>. QED BY <2>1 DEF Shrinks, Alive, Children
<1>6. ASSUME StartFork PROVE Shrinks \/ Respawn \/ \E z \in Slots : Spawn(z)
  <2>1. UNCHANGED worker /\ leaked \subseteq leaked' BY <1>6 DEF StartFork
  <2>. QED BY <2>1 DEF Shrinks, Alive, Children
<1>7. ASSUME StartPid PROVE Shrinks \/ Respawn \/ \E z \in Slots : Spawn(z)
  <2>1. UNCHANGED worker /\ leaked \subseteq leaked' BY <1>7 DEF StartPid
  <2>. QED BY <2>1 DEF Shrinks, Alive, Children
<1>8. ASSUME StartFingerprint PROVE Shrinks \/ Respawn \/ \E z \in Slots : Spawn(z)
  <2>1. UNCHANGED worker /\ leaked \subseteq leaked' BY <1>8 DEF StartFingerprint
  <2>. QED BY <2>1 DEF Shrinks, Alive, Children
<1>9. ASSUME StopFlag PROVE Shrinks \/ Respawn \/ \E z \in Slots : Spawn(z)
  <2>1. UNCHANGED worker /\ leaked \subseteq leaked' BY <1>9 DEF StopFlag
  <2>. QED BY <2>1 DEF Shrinks, Alive, Children
<1>10. ASSUME StopChildren PROVE Shrinks \/ Respawn \/ \E z \in Slots : Spawn(z)
  <2>1. /\ worker' = Killed(Children) /\ Alive \cap leaked \subseteq leaked' \cup (Children)
    BY <1>1, <1>10 DEF StopChildren, TypeOK
  <2>. QED BY <1>1, <2>1, KilledAlive DEF Shrinks, Children
<1>11. ASSUME StopParent PROVE Shrinks \/ Respawn \/ \E z \in Slots : Spawn(z)
  <2>1. CASE SupervisorEnds BY <1>1, <2>1, EndsAlive DEF Shrinks
  <2>2. CASE UNCHANGED <<worker, leaked>> BY <2>2 DEF Shrinks, Alive, Children
  <2>. QED BY <1>11, <2>1, <2>2 DEF StopParent
<1>12. ASSUME StopWait PROVE Shrinks \/ Respawn \/ \E z \in Slots : Spawn(z)
  <2>1. UNCHANGED worker /\ leaked \subseteq leaked' BY <1>12 DEF StopWait
  <2>. QED BY <2>1 DEF Shrinks, Alive, Children
<1>13. ASSUME StopCleanup PROVE Shrinks \/ Respawn \/ \E z \in Slots : Spawn(z)
  <2>1. /\ worker' = Killed(registry) /\ Alive \cap leaked \subseteq leaked' \cup (registry)
    BY <1>1, <1>13 DEF StopCleanup, TypeOK
  <2>. QED BY <1>1, <2>1, KilledAlive DEF Shrinks, Children
<1>14. ASSUME NEW made \in SUBSET Pipes, Verify(made) PROVE Shrinks \/ Respawn \/ \E z \in Slots : Spawn(z)
  <2>1. UNCHANGED worker /\ leaked \subseteq leaked' BY <1>14 DEF Verify
  <2>. QED BY <2>1 DEF Shrinks, Alive, Children
<1>15. ASSUME SpawnEnd PROVE Shrinks \/ Respawn \/ \E z \in Slots : Spawn(z)
  <2>1. UNCHANGED worker /\ leaked \subseteq leaked' BY <1>15 DEF SpawnEnd
  <2>. QED BY <2>1 DEF Shrinks, Alive, Children
<1>16. ASSUME Register PROVE Shrinks \/ Respawn \/ \E z \in Slots : Spawn(z)
  <2>1. UNCHANGED worker /\ leaked \subseteq leaked' BY <1>16 DEF Register
  <2>. QED BY <2>1 DEF Shrinks, Alive, Children
<1>17. ASSUME Top PROVE Shrinks \/ Respawn \/ \E z \in Slots : Spawn(z)
  <2>1. CASE SupervisorEnds BY <1>1, <2>1, EndsAlive DEF Shrinks
  <2>2. CASE UNCHANGED <<worker, leaked>> BY <2>2 DEF Shrinks, Alive, Children
  <2>. QED BY <1>17, <2>1, <2>2 DEF Top
<1>18. ASSUME ScanEnd PROVE Shrinks \/ Respawn \/ \E z \in Slots : Spawn(z)
  <2>1. UNCHANGED worker /\ leaked \subseteq leaked' BY <1>18 DEF ScanEnd
  <2>. QED BY <2>1 DEF Shrinks, Alive, Children
<1>19. ASSUME Again PROVE Shrinks \/ Respawn \/ \E z \in Slots : Spawn(z)
  <2>1. CASE SupervisorEnds BY <1>1, <2>1, EndsAlive DEF Shrinks
  <2>2. CASE UNCHANGED <<worker, leaked>> BY <2>2 DEF Shrinks, Alive, Children
  <2>. QED BY <1>19, <2>1, <2>2 DEF Again
<1>20. ASSUME Respawn PROVE Shrinks \/ Respawn \/ \E z \in Slots : Spawn(z)
  BY <1>20
<1>21. ASSUME NEW s \in Slots, Spawn(s) PROVE Shrinks \/ Respawn \/ \E z \in Slots : Spawn(z)
  BY <1>21
<1>22. ASSUME NEW s \in Slots, Scan(s) PROVE Shrinks \/ Respawn \/ \E z \in Slots : Spawn(z)
  <2>1. UNCHANGED worker /\ leaked \subseteq leaked' BY <1>22 DEF Scan
  <2>. QED BY <2>1 DEF Shrinks, Alive, Children
<1>23. ASSUME Terminate PROVE Shrinks \/ Respawn \/ \E z \in Slots : Spawn(z)
  <2>1. UNCHANGED worker /\ leaked \subseteq leaked' BY <1>23 DEF Terminate
  <2>. QED BY <2>1 DEF Shrinks, Alive, Children
<1>24. ASSUME SupervisorDies PROVE Shrinks \/ Respawn \/ \E z \in Slots : Spawn(z)
  <2>1. CASE SupervisorEnds BY <1>1, <2>1, EndsAlive DEF Shrinks
  <2>2. CASE UNCHANGED <<worker, leaked>> BY <2>2 DEF Shrinks, Alive, Children
  <2>. QED BY <1>24, <2>1, <2>2 DEF SupervisorDies
<1>25. ASSUME NEW set \in SUBSET Slots, Change(set) PROVE Shrinks \/ Respawn \/ \E z \in Slots : Spawn(z)
  <2>1. UNCHANGED worker /\ leaked \subseteq leaked' BY <1>25 DEF Change
  <2>. QED BY <2>1 DEF Shrinks, Alive, Children
<1>26. ASSUME NEW x \in Workers, WorkerDies(x) PROVE Shrinks \/ Respawn \/ \E z \in Slots : Spawn(z)
  <2>1. /\ worker' = Killed({x}) /\ Alive \cap leaked \subseteq leaked' \cup ({x})
    BY <1>1, <1>26 DEF WorkerDies, TypeOK
  <2>. QED BY <1>1, <2>1, KilledAlive DEF Shrinks, Children
<1>27. ASSUME NEW s \in Pipes, PipeRemoved(s) PROVE Shrinks \/ Respawn \/ \E z \in Slots : Spawn(z)
  <2>. DEFINE hit == {x \in Alive : worker[x].slot = s}
  <2>1. /\ leaked' = leaked
        /\ worker' = [x \in Workers |-> IF x \in Alive /\ x \in hit
                                        THEN [worker[x] EXCEPT !.stale = TRUE]
                                        ELSE worker[x]]
    BY <1>27 DEF PipeRemoved
  <2>. HIDE DEF hit
  <2>2. /\ Alive' = Alive
        /\ \A x \in Alive : /\ worker'[x].slot = worker[x].slot
                            /\ worker'[x].child = worker[x].child
                            /\ worker[x].stale => worker'[x].stale
    BY <1>1, <2>1, StaleAlive
  <2>. QED BY <2>1, <2>2 DEF Shrinks, Children
<1>28. CASE UNCHANGED vars
  BY <1>28 DEF vars, Shrinks, Alive, Children
<1>. QED BY <1>2, <1>3, <1>4, <1>5, <1>6, <1>7, <1>8, <1>9, <1>10, <1>11,
          <1>12, <1>13, <1>14, <1>15, <1>16, <1>17, <1>18, <1>19, <1>20,
          <1>21, <1>22, <1>23, <1>24, <1>25, <1>26, <1>27, <1>28, <1>40, <1>41 DEF Next,
          MainStep, SupervisorStep, FaultStep

-----------------------------------------------------------------------------
\* The parts of the invariant.


\* There is a supervisor only where the main shell knows of it.
LEMMA OneSupervisorStep ==
  ASSUME IndInv, [Next]_vars
  PROVE  OneSupervisor'
<1>1. main \in Mains BY DEF IndInv, TypeOK
<1>2. OneSupervisor BY DEF IndInv
<1>3. SupervisorEnds => ~Running' BY DEF SupervisorEnds, NoSupervisor, Running
<1>4. supervisor' = supervisor => Running' = Running BY DEF Running
<1>5. ASSUME Wake PROVE OneSupervisor'
  BY <1>1, <1>2, <1>3, <1>4, <1>5 DEF Wake, OneSupervisor, Halted, Goto, At,
         Mains
<1>6. ASSUME Reap PROVE OneSupervisor'
  BY <1>1, <1>2, <1>3, <1>4, <1>6 DEF Reap, OneSupervisor, Halted, Goto, At,
         Mains
<1>40. ASSUME NEW w \in Workers, ReapOrphan(w) PROVE OneSupervisor'
  BY <1>1, <1>2, <1>3, <1>4, <1>40 DEF ReapOrphan, OneSupervisor, Halted, Goto, At,
         Mains
<1>41. ASSUME ReapEnd PROVE OneSupervisor'
  BY <1>1, <1>2, <1>3, <1>4, <1>41 DEF ReapEnd, OneSupervisor, Halted, Goto, At,
         Mains
<1>7. ASSUME NEW made \in SUBSET Pipes, Reconcile(made) PROVE OneSupervisor'
  BY <1>1, <1>2, <1>3, <1>4, <1>7 DEF Reconcile, OneSupervisor, Halted, Goto,
         At, Mains
<1>8. ASSUME StartFlag PROVE OneSupervisor'
  BY <1>1, <1>2, <1>3, <1>4, <1>8 DEF StartFlag, OneSupervisor, Halted, Goto,
         At, Mains
<1>9. ASSUME StartFork PROVE OneSupervisor'
  <2>1. main'.pc = "forked" BY <1>1, <1>9 DEF StartFork, Goto, Mains
  <2>. QED BY <2>1 DEF OneSupervisor, Halted
<1>10. ASSUME StartPid PROVE OneSupervisor'
  BY <1>1, <1>2, <1>3, <1>4, <1>10 DEF StartPid, OneSupervisor, Halted, Goto,
         At, Mains
<1>11. ASSUME StartFingerprint PROVE OneSupervisor'
  <2>1. supervisor' = supervisor /\ main'.watch = Running
        /\ main'.pc \in {"sleep", "sync", "verify"}
    BY <1>1, <1>11 DEF StartFingerprint, Mains
  <2>. QED BY <1>4, <2>1 DEF OneSupervisor, Halted
<1>12. ASSUME StopFlag PROVE OneSupervisor'
  BY <1>1, <1>2, <1>3, <1>4, <1>12 DEF StopFlag, OneSupervisor, Halted, Goto,
         At, Mains
<1>13. ASSUME StopChildren PROVE OneSupervisor'
  BY <1>1, <1>2, <1>3, <1>4, <1>13 DEF StopChildren, OneSupervisor, Halted,
         Goto, At, Mains
<1>14. ASSUME StopParent PROVE OneSupervisor'
  BY <1>1, <1>2, <1>3, <1>4, <1>14 DEF StopParent, OneSupervisor, Halted,
         Goto, At, Mains
<1>15. ASSUME StopWait PROVE OneSupervisor'
  BY <1>1, <1>2, <1>3, <1>4, <1>15 DEF StopWait, OneSupervisor, Halted, Goto,
         At, Mains
<1>16. ASSUME StopCleanup PROVE OneSupervisor'
  BY <1>1, <1>2, <1>3, <1>4, <1>16 DEF StopCleanup, OneSupervisor, Halted,
         Goto, At, Mains
<1>17. ASSUME NEW made \in SUBSET Pipes, Verify(made) PROVE OneSupervisor'
  BY <1>1, <1>2, <1>3, <1>4, <1>17 DEF Verify, OneSupervisor, Halted, Goto,
         At, Mains
<1>18. ASSUME SpawnEnd PROVE OneSupervisor'
  BY <1>2, <1>18 DEF SpawnEnd, OneSupervisor, Halted, Super, SuperGoto, Running
<1>19. ASSUME Register PROVE OneSupervisor'
  BY <1>2, <1>19 DEF Register, OneSupervisor, Halted, Super, SuperGoto, Running
<1>20. ASSUME Top PROVE OneSupervisor'
  BY <1>2, <1>3, <1>20 DEF Top, OneSupervisor, Halted, Super, SuperGoto, Running
<1>21. ASSUME ScanEnd PROVE OneSupervisor'
  BY <1>2, <1>21 DEF ScanEnd, OneSupervisor, Halted, Super, SuperGoto, Running
<1>22. ASSUME Again PROVE OneSupervisor'
  BY <1>2, <1>3, <1>22 DEF Again, OneSupervisor, Halted, Super, SuperGoto, Running
<1>23. ASSUME Respawn PROVE OneSupervisor'
  BY <1>2, <1>23 DEF Respawn, OneSupervisor, Halted, Super, SuperGoto, Running
<1>24. ASSUME NEW s \in Slots, Spawn(s) PROVE OneSupervisor'
  BY <1>2, <1>24 DEF Spawn, OneSupervisor, Halted, Super, SuperGoto, Running
<1>25. ASSUME NEW s \in Slots, Scan(s) PROVE OneSupervisor'
  BY <1>2, <1>25 DEF Scan, OneSupervisor, Halted, Super, SuperGoto, Running
<1>26. ASSUME Terminate PROVE OneSupervisor'
  BY <1>1, <1>2, <1>3, <1>4, <1>26 DEF Terminate, OneSupervisor, Halted, Goto,
         At, Mains
<1>27. ASSUME SupervisorDies PROVE OneSupervisor'
  BY <1>1, <1>2, <1>3, <1>4, <1>27 DEF SupervisorDies, OneSupervisor, Halted,
         Goto, At
<1>28. ASSUME NEW set \in SUBSET Slots, Change(set) PROVE OneSupervisor'
  BY <1>1, <1>2, <1>3, <1>4, <1>28 DEF Change, OneSupervisor, Halted, Goto,
         At, Mains
<1>29. ASSUME NEW x \in Workers, WorkerDies(x) PROVE OneSupervisor'
  BY <1>1, <1>2, <1>3, <1>4, <1>29 DEF WorkerDies, OneSupervisor, Halted,
         Goto, At
<1>30. ASSUME NEW s \in Pipes, PipeRemoved(s) PROVE OneSupervisor'
  BY <1>1, <1>2, <1>3, <1>4, <1>30 DEF PipeRemoved, OneSupervisor, Halted,
         Goto, At
<1>31. CASE UNCHANGED vars
  BY <1>1, <1>2, <1>3, <1>4, <1>31 DEF vars, OneSupervisor, Halted, Goto, At
<1>. QED BY <1>5, <1>6, <1>7, <1>8, <1>9, <1>10, <1>11, <1>12, <1>13, <1>14,
          <1>15, <1>16, <1>17, <1>18, <1>19, <1>20, <1>21, <1>22, <1>23,
          <1>24, <1>25, <1>26, <1>27, <1>28, <1>29, <1>30, <1>31, <1>40, <1>41 DEF Next,
          MainStep, SupervisorStep, FaultStep

\* Where the sensors are stopped, what is alive has leaked.
LEMMA EmptiedStep ==
  ASSUME IndInv, [Next]_vars
  PROVE  Emptied'
<1>1. main \in Mains BY DEF IndInv, TypeOK
<1>2. OneSupervisor /\ Emptied BY DEF IndInv
<1>3. Shrinks => (Alive \subseteq leaked => Alive' \subseteq leaked')
  BY DEF Shrinks
<1>4. main' = main /\ Shrinks => Emptied' BY <1>2, <1>3 DEF Emptied
<1>5. ~Running => Alive \subseteq leaked \cup registry
  BY DEF IndInv, Accounted, Running, Unwritten
<1>6. Respawn \/ (\E s \in Slots : Spawn(s)) => Running /\ main' = main
  BY DEF Respawn, Spawn, Super, Running
<1>7. Respawn \/ (\E s \in Slots : Spawn(s)) => Emptied'
  BY <1>2, <1>6 DEF OneSupervisor, Emptied
<1>8. SUFFICES ASSUME Shrinks PROVE Emptied' BY <1>7, Shrink
<1>9. ASSUME Wake PROVE Emptied'
  <2>1. main'.pc \notin Halted BY <1>1, <1>9 DEF Wake, Goto, Halted, Mains
  <2>. QED BY <2>1 DEF Emptied
<1>10. ASSUME Reap PROVE Emptied'
  <2>1. main'.pc \notin Halted BY <1>1, <1>10 DEF Reap, Halted, Mains
  <2>. QED BY <2>1 DEF Emptied
<1>40. ASSUME NEW w \in Workers, ReapOrphan(w) PROVE Emptied'
  BY <1>4, <1>8, <1>40 DEF ReapOrphan
<1>41. ASSUME ReapEnd PROVE Emptied'
  <2>1. UNCHANGED <<worker, leaked>> /\ registry \cap Alive = {}
    BY <1>41 DEF ReapEnd
  <2>2. ~Running BY <1>2, <1>41 DEF ReapEnd, OneSupervisor, At
  <2>. QED BY <1>5, <2>1, <2>2 DEF Emptied, Alive
<1>11. ASSUME NEW made \in SUBSET Pipes, Reconcile(made) PROVE Emptied'
  BY <1>2, <1>3, <1>8, <1>11 DEF Reconcile, Emptied, Halted, At
<1>12. ASSUME StartFlag PROVE Emptied'
  BY <1>2, <1>3, <1>8, <1>12 DEF StartFlag, Emptied, Halted, At
<1>13. ASSUME StartFork PROVE Emptied'
  <2>1. main'.pc \notin Halted BY <1>1, <1>13 DEF StartFork, Goto, Halted, Mains
  <2>. QED BY <2>1 DEF Emptied
<1>14. ASSUME StartPid PROVE Emptied'
  <2>1. main'.pc \notin Halted BY <1>1, <1>14 DEF StartPid, Goto, Halted, Mains
  <2>. QED BY <2>1 DEF Emptied
<1>15. ASSUME StartFingerprint PROVE Emptied'
  <2>1. main'.pc \notin Halted BY <1>1, <1>15 DEF StartFingerprint, Goto, Halted, Mains
  <2>. QED BY <2>1 DEF Emptied
<1>16. ASSUME StopFlag PROVE Emptied'
  <2>1. main'.pc \in Halted => Alive' \subseteq leaked'
    BY <1>1, <1>16 DEF StopFlag, Goto, Halted, Mains, Alive
  <2>. QED BY <2>1 DEF Emptied
<1>17. ASSUME StopChildren PROVE Emptied'
  <2>1. main'.pc \notin Halted BY <1>1, <1>17 DEF StopChildren, Goto, Halted, Mains
  <2>. QED BY <2>1 DEF Emptied
<1>18. ASSUME StopParent PROVE Emptied'
  <2>1. main'.pc \notin Halted BY <1>1, <1>18 DEF StopParent, Goto, Halted, Mains
  <2>. QED BY <2>1 DEF Emptied
<1>19. ASSUME StopWait PROVE Emptied'
  <2>1. main'.pc \notin Halted BY <1>1, <1>19 DEF StopWait, Goto, Halted, Mains
  <2>. QED BY <2>1 DEF Emptied
<1>20. ASSUME StopCleanup PROVE Emptied'
  <2>1. Alive' = Alive \ registry /\ leaked' = leaked \ registry
    BY <1>20, KilledAlive DEF StopCleanup, IndInv
  <2>2. ~Running BY <1>2, <1>20 DEF StopCleanup, OneSupervisor, At
  <2>. QED BY <1>5, <2>1, <2>2 DEF Emptied
<1>21. ASSUME NEW made \in SUBSET Pipes, Verify(made) PROVE Emptied'
  <2>1. main'.pc \notin Halted BY <1>1, <1>21 DEF Verify, Goto, Halted, Mains
  <2>. QED BY <2>1 DEF Emptied
<1>22. ASSUME SpawnEnd PROVE Emptied'
  BY <1>4, <1>8, <1>22 DEF SpawnEnd
<1>23. ASSUME Register PROVE Emptied'
  BY <1>4, <1>8, <1>23 DEF Register
<1>24. ASSUME Top PROVE Emptied'
  BY <1>4, <1>8, <1>24 DEF Top
<1>25. ASSUME ScanEnd PROVE Emptied'
  BY <1>4, <1>8, <1>25 DEF ScanEnd
<1>26. ASSUME Again PROVE Emptied'
  BY <1>4, <1>8, <1>26 DEF Again
<1>27. ASSUME Respawn PROVE Emptied'
  BY <1>7, <1>27
<1>28. ASSUME NEW s \in Slots, Spawn(s) PROVE Emptied'
  BY <1>7, <1>28
<1>29. ASSUME NEW s \in Slots, Scan(s) PROVE Emptied'
  BY <1>4, <1>8, <1>29 DEF Scan
<1>30. ASSUME Terminate PROVE Emptied'
  <2>1. main'.pc \in Halted => main.pc \in Halted
    BY <1>1, <1>30 DEF Terminate, Halted, Mains
  <2>. QED BY <1>2, <1>3, <1>8, <2>1 DEF Emptied
<1>31. ASSUME SupervisorDies PROVE Emptied'
  BY <1>4, <1>8, <1>31 DEF SupervisorDies
<1>32. ASSUME NEW set \in SUBSET Slots, Change(set) PROVE Emptied'
  <2>1. main'.pc \notin Halted BY <1>1, <1>32 DEF Change, Goto, Halted, Mains
  <2>. QED BY <2>1 DEF Emptied
<1>33. ASSUME NEW x \in Workers, WorkerDies(x) PROVE Emptied'
  BY <1>4, <1>8, <1>33 DEF WorkerDies
<1>34. ASSUME NEW s \in Pipes, PipeRemoved(s) PROVE Emptied'
  BY <1>4, <1>8, <1>34 DEF PipeRemoved
<1>35. CASE UNCHANGED vars
  BY <1>4, <1>8, <1>35 DEF vars
<1>. QED BY <1>9, <1>10, <1>11, <1>12, <1>13, <1>14, <1>15, <1>16, <1>17,
          <1>18, <1>19, <1>20, <1>21, <1>22, <1>23, <1>24, <1>25, <1>26,
          <1>27, <1>28, <1>29, <1>30, <1>31, <1>32, <1>33, <1>34, <1>35, <1>40, <1>41 DEF
          Next, MainStep, SupervisorStep, FaultStep

\* A fork of the supervisor, for what is left to do.
LEMMA Forking ==
  ASSUME IndInv, NEW s \in Slots, Spawn(s) \/ (Respawn /\ s = supervisor.at)
  PROVE  /\ Running /\ Running' /\ Unwritten'
         /\ Alive' \subseteq Alive \cup {Fresh} /\ Alive \subseteq Alive'
         /\ \A x \in Alive : worker'[x] = worker[x]
         /\ Fresh \in Alive' => worker'[Fresh].slot = s /\ worker'[Fresh].child
         /\ Fresh \in Workers \ Alive /\ Fresh \notin Own
         /\ supervisor.slot[s] \notin Alive
         /\ supervisor'.slot = [supervisor.slot EXCEPT ![s] = Fresh]
         /\ UNCHANGED <<main, registry, leaked>>
<1>1. TypeOK /\ Vacant BY DEF IndInv
<1>2. Free # {} /\ Forked(s) BY DEF Spawn, Respawn
<1>3. CASE Spawn(s)
  <2>1. /\ supervisor.pc = "spawn" /\ s \in supervisor.todo
        /\ supervisor' = [supervisor EXCEPT !.slot[s] = Fresh, !.todo = @ \ {s}]
        /\ UNCHANGED <<main, registry, leaked>>
    BY <1>3 DEF Spawn, Super
  <2>2. /\ supervisor'.pc = "spawn"
        /\ supervisor'.slot = [supervisor.slot EXCEPT ![s] = Fresh]
    BY <1>1, <2>1 DEF TypeOK, Supervisors
  <2>. QED BY <1>1, <1>2, <2>1, <2>2, ForkedAlive, FreshFree
           DEF Vacant, Running, Unwritten, Super
<1>4. CASE Respawn /\ s = supervisor.at
  <2>1. /\ supervisor.pc = "respawn"
        /\ supervisor' = [supervisor EXCEPT !.pc = "reregister", !.at = None,
                                            !.slot[supervisor.at] = Fresh]
        /\ UNCHANGED <<main, registry, leaked>>
    BY <1>4 DEF Respawn, Super
  <2>2. /\ supervisor'.pc = "reregister"
        /\ supervisor'.slot = [supervisor.slot EXCEPT ![s] = Fresh]
    BY <1>1, <1>4, <2>1 DEF TypeOK, Supervisors
  <2>. QED BY <1>1, <1>2, <1>4, <2>1, <2>2, ForkedAlive, FreshFree
           DEF Vacant, Running, Unwritten, Super
<1>. QED BY <1>3, <1>4

\* Every step is a fork or shrinks the set of workers.
LEMMA ForkOrShrink ==
  ASSUME IndInv, [Next]_vars
  PROVE  \/ Shrinks
         \/ \E s \in Slots : Spawn(s) \/ (Respawn /\ s = supervisor.at)
<1>1. Respawn => supervisor.at \in Slots BY DEF IndInv, Vacant, Respawn, Super
<1>. QED BY <1>1, Shrink


\* Every worker is in the registry or about to be.
LEMMA AccountedStep ==
  ASSUME IndInv, [Next]_vars
  PROVE  Accounted'
<1>1. TypeOK /\ Accounted /\ Owned /\ Emptied /\ OneSupervisor BY DEF IndInv
<1>2. ASSUME NEW s \in Slots, Spawn(s) \/ (Respawn /\ s = supervisor.at)
      PROVE  Accounted'
  <2>1. \A x \in Alive : x \in Children => x \in Children'
    BY <1>2, Forking DEF Children
  <2>2. Fresh \in Alive' => Fresh \in Children' BY <1>2, Forking DEF Children
  <2>3. Alive \subseteq leaked \cup registry \cup Children'
    BY <1>1, <2>1 DEF Accounted, Children
  <2>. QED BY <1>2, <2>2, <2>3, Forking DEF Accounted
<1>3. SUFFICES ASSUME Shrinks PROVE Accounted' BY <1>2, ForkOrShrink
<1>4. SupervisorEnds /\ registry' = registry => Accounted'
  BY <1>1, EndsAlive DEF Accounted, Unwritten, NoSupervisor
<1>5. ~SupervisorEnds /\ registry' = registry /\ (Unwritten => Unwritten') => Accounted'
  BY <1>1, <1>3 DEF Shrinks, Accounted
<1>6. registry' = registry /\ Alive \subseteq leaked => Accounted'
  BY <1>3 DEF Shrinks, Accounted
<1>7. registry' = registry /\ ~Unwritten => Accounted'
  BY <1>1, <1>3 DEF Shrinks, Accounted
<1>8. supervisor' = supervisor => Unwritten' = Unwritten BY DEF Unwritten
<1>9. ASSUME Wake PROVE Accounted'
  BY <1>4, <1>5, <1>8, <1>9 DEF Wake
<1>10. ASSUME Reap PROVE Accounted'
  BY <1>4, <1>5, <1>8, <1>10 DEF Reap
<1>40. ASSUME NEW w \in Workers, ReapOrphan(w) PROVE Accounted'
  BY <1>4, <1>5, <1>8, <1>40 DEF ReapOrphan
<1>41. ASSUME ReapEnd PROVE Accounted'
  <2>1. UNCHANGED <<worker, leaked>> /\ registry \cap Alive = {}
    BY <1>41 DEF ReapEnd
  <2>2. ~Unwritten
    BY <1>1, <1>41 DEF ReapEnd, OneSupervisor, At, Running, Unwritten
  <2>. QED BY <1>1, <2>1, <2>2 DEF Accounted, Alive
<1>11. ASSUME NEW made \in SUBSET Pipes, Reconcile(made) PROVE Accounted'
  BY <1>4, <1>5, <1>8, <1>11 DEF Reconcile
<1>12. ASSUME StartFlag PROVE Accounted'
  BY <1>4, <1>5, <1>8, <1>12 DEF StartFlag
<1>13. ASSUME StartFork PROVE Accounted'
  BY <1>1, <1>6, <1>13 DEF StartFork, Emptied, Halted, At
<1>14. ASSUME StartPid PROVE Accounted'
  BY <1>4, <1>5, <1>8, <1>14 DEF StartPid
<1>15. ASSUME StartFingerprint PROVE Accounted'
  BY <1>4, <1>5, <1>8, <1>15 DEF StartFingerprint
<1>16. ASSUME StopFlag PROVE Accounted'
  BY <1>4, <1>5, <1>8, <1>16 DEF StopFlag
<1>17. ASSUME StopChildren PROVE Accounted'
  BY <1>4, <1>5, <1>8, <1>17 DEF StopChildren
<1>18. ASSUME StopParent PROVE Accounted'
  BY <1>4, <1>5, <1>8, <1>18 DEF StopParent
<1>19. ASSUME StopWait PROVE Accounted'
  BY <1>4, <1>5, <1>8, <1>19 DEF StopWait
<1>20. ASSUME StopCleanup PROVE Accounted'
  <2>1. ~Running BY <1>1, <1>20 DEF StopCleanup, OneSupervisor, At
  <2>2. Alive' = Alive \ registry /\ leaked' = leaked \ registry /\ ~Unwritten
    BY <1>1, <1>20, <2>1, KilledAlive DEF StopCleanup, Running, Unwritten
  <2>. QED BY <1>1, <2>2 DEF Accounted
<1>21. ASSUME NEW made \in SUBSET Pipes, Verify(made) PROVE Accounted'
  BY <1>4, <1>5, <1>8, <1>21 DEF Verify
<1>22. ASSUME SpawnEnd PROVE Accounted'
  <2>1. Unwritten' BY <1>1, <1>22 DEF SpawnEnd, SuperGoto, Unwritten, TypeOK, Supervisors
  <2>. QED BY <1>4, <1>5, <1>22, <2>1 DEF SpawnEnd
<1>23. ASSUME Register PROVE Accounted'
  <2>1. registry' = Own \cap Alive /\ Running /\ UNCHANGED <<worker, leaked>>
    BY <1>23 DEF Register, Own, Running
  <2>2. Alive' \subseteq leaked' \cup registry' BY <1>1, <2>1 DEF Owned, Alive
  <2>. QED BY <2>2 DEF Accounted
<1>24. ASSUME Top PROVE Accounted'
  BY <1>4, <1>7, <1>24 DEF Top, Unwritten, Super
<1>25. ASSUME ScanEnd PROVE Accounted'
  BY <1>4, <1>7, <1>25 DEF ScanEnd, Unwritten, Super
<1>26. ASSUME Again PROVE Accounted'
  BY <1>4, <1>7, <1>26 DEF Again, Unwritten, Super
<1>27. ASSUME Respawn PROVE Accounted'
  <2>1. supervisor.at \in Slots BY <1>27 DEF IndInv, Vacant, Respawn, Super
  <2>. QED BY <1>2, <1>27, <2>1
<1>28. ASSUME NEW s \in Slots, Spawn(s) PROVE Accounted'
  BY <1>2, <1>28
<1>29. ASSUME NEW s \in Slots, Scan(s) PROVE Accounted'
  BY <1>4, <1>7, <1>29 DEF Scan, Unwritten, Super
<1>30. ASSUME Terminate PROVE Accounted'
  BY <1>4, <1>5, <1>8, <1>30 DEF Terminate
<1>31. ASSUME SupervisorDies PROVE Accounted'
  BY <1>4, <1>5, <1>8, <1>31 DEF SupervisorDies
<1>32. ASSUME NEW set \in SUBSET Slots, Change(set) PROVE Accounted'
  BY <1>4, <1>5, <1>8, <1>32 DEF Change
<1>33. ASSUME NEW x \in Workers, WorkerDies(x) PROVE Accounted'
  BY <1>4, <1>5, <1>8, <1>33 DEF WorkerDies
<1>34. ASSUME NEW s \in Pipes, PipeRemoved(s) PROVE Accounted'
  BY <1>4, <1>5, <1>8, <1>34 DEF PipeRemoved
<1>35. CASE UNCHANGED vars
  BY <1>4, <1>5, <1>8, <1>35 DEF vars
<1>. QED BY <1>9, <1>10, <1>11, <1>12, <1>13, <1>14, <1>15, <1>16, <1>17,
          <1>18, <1>19, <1>20, <1>21, <1>22, <1>23, <1>24, <1>25, <1>26,
          <1>27, <1>28, <1>29, <1>30, <1>31, <1>32, <1>33, <1>34, <1>35, <1>40, <1>41 DEF
          Next, MainStep, SupervisorStep, FaultStep

\* A supervisor knows its workers.
LEMMA OwnedStep ==
  ASSUME IndInv, [Next]_vars
  PROVE  Owned'
<1>1. TypeOK /\ Owned /\ Emptied /\ OneSupervisor BY DEF IndInv
<1>2. ASSUME NEW s \in Slots, Spawn(s) \/ (Respawn /\ s = supervisor.at)
      PROVE  Owned'
  <2>1. supervisor.slot \in [Slots -> Workers \cup {None}]
    BY <1>1 DEF TypeOK, Supervisors
  <2>0. /\ supervisor'.slot = [supervisor.slot EXCEPT ![s] = Fresh]
        /\ Alive' \subseteq Alive \cup {Fresh} /\ leaked' = leaked
        /\ \A x \in Alive : worker'[x] = worker[x]
        /\ Fresh \in Alive' => worker'[Fresh].slot = s
        /\ Fresh \notin Own /\ Running
    BY <1>1, <1>2, Forking
  <2>2. supervisor'.slot[s] = Fresh BY <2>0, <2>1
  <2>3. \A t \in Slots \ {s} : supervisor'.slot[t] = supervisor.slot[t]
    BY <2>0, <2>1
  <2>4. Alive \subseteq leaked \cup (Own \ {supervisor.slot[s]})
    BY <1>1, <1>2, Forking DEF Owned
  <2>5. Alive' \subseteq leaked' \cup Own'
    <3>1. Fresh \in Own' BY <2>2 DEF Own
    <3>2. \A t \in Slots \ {s} : supervisor.slot[t] \in Own' BY <2>3 DEF Own
    <3>3. Own \ {supervisor.slot[s]} \subseteq Own' BY <3>2 DEF Own
    <3>. QED BY <2>0, <2>4, <3>1, <3>3
  <2>6. ASSUME NEW t \in Slots, supervisor'.slot[t] \in Alive'
        PROVE  worker'[supervisor'.slot[t]].slot = t
    <3>1. CASE t = s BY <2>0, <2>2, <2>6, <3>1
    <3>2. CASE t # s
      <4>1. supervisor.slot[t] \in Own BY DEF Own
      <4>2. supervisor.slot[t] \in Alive
        BY <2>0, <2>3, <2>6, <3>2, <4>1
      <4>. QED BY <1>1, <2>0, <2>3, <3>2, <4>2 DEF Owned
    <3>. QED BY <3>1, <3>2
  <2>. QED BY <2>5, <2>6 DEF Owned
<1>3. SUFFICES ASSUME Shrinks PROVE Owned' BY <1>2, ForkOrShrink
<1>4. ASSUME Running, supervisor'.slot = supervisor.slot PROVE Owned'
  <2>1. Alive' \subseteq leaked' \cup Own' BY <1>1, <1>3, <1>4 DEF Shrinks, Owned, Own
  <2>2. \A s \in Slots :
          supervisor'.slot[s] \in Alive' => worker'[supervisor'.slot[s]].slot = s
    BY <1>1, <1>3, <1>4 DEF Shrinks, Owned
  <2>. QED BY <2>1, <2>2 DEF Owned
<1>5. ~Running' => Owned' BY DEF Owned
<1>6. SupervisorEnds => ~Running' BY <1>1, EndsAlive
<1>7. supervisor' = supervisor => Owned' BY <1>4, <1>5 DEF Running
<1>8. ASSUME Wake PROVE Owned'
  BY <1>7, <1>8 DEF Wake
<1>9. ASSUME Reap PROVE Owned'
  BY <1>7, <1>9 DEF Reap
<1>40. ASSUME NEW w \in Workers, ReapOrphan(w) PROVE Owned'
  BY <1>7, <1>40 DEF ReapOrphan
<1>41. ASSUME ReapEnd PROVE Owned'
  BY <1>7, <1>41 DEF ReapEnd
<1>10. ASSUME NEW made \in SUBSET Pipes, Reconcile(made) PROVE Owned'
  BY <1>7, <1>10 DEF Reconcile
<1>11. ASSUME StartFlag PROVE Owned'
  BY <1>7, <1>11 DEF StartFlag
<1>12. ASSUME StartFork PROVE Owned'
  <2>1. Alive' \subseteq leaked' BY <1>1, <1>3, <1>12 DEF StartFork, Emptied, Halted, At, Shrinks
  <2>2. \A s \in Slots : supervisor'.slot[s] = None
    BY <1>12 DEF StartFork, NoSupervisor
  <2>3. None \notin Alive' BY WatcherAssumption DEF Alive
  <2>. QED BY <2>1, <2>2, <2>3 DEF Owned
<1>13. ASSUME StartPid PROVE Owned'
  BY <1>7, <1>13 DEF StartPid
<1>14. ASSUME StartFingerprint PROVE Owned'
  BY <1>7, <1>14 DEF StartFingerprint
<1>15. ASSUME StopFlag PROVE Owned'
  BY <1>7, <1>15 DEF StopFlag
<1>16. ASSUME StopChildren PROVE Owned'
  BY <1>7, <1>16 DEF StopChildren
<1>17. ASSUME StopParent PROVE Owned'
  BY <1>5, <1>6, <1>7, <1>17 DEF StopParent
<1>18. ASSUME StopWait PROVE Owned'
  BY <1>7, <1>18 DEF StopWait
<1>19. ASSUME StopCleanup PROVE Owned'
  BY <1>7, <1>19 DEF StopCleanup
<1>20. ASSUME NEW made \in SUBSET Pipes, Verify(made) PROVE Owned'
  BY <1>7, <1>20 DEF Verify
<1>21. ASSUME SpawnEnd PROVE Owned'
  <2>1. Running /\ supervisor'.slot = supervisor.slot
    BY <1>1, <1>21 DEF SpawnEnd, Super, SuperGoto, Running, TypeOK, Supervisors
  <2>. QED BY <1>4, <2>1
<1>22. ASSUME Register PROVE Owned'
  <2>1. Running /\ supervisor'.slot = supervisor.slot
    BY <1>1, <1>22 DEF Register, Super, SuperGoto, Running, TypeOK, Supervisors
  <2>. QED BY <1>4, <2>1
<1>23. ASSUME Top PROVE Owned'
  <2>1. CASE SupervisorEnds BY <1>5, <1>6, <2>1
  <2>2. CASE ~SupervisorEnds
    <3>1. Running /\ supervisor'.slot = supervisor.slot
      BY <1>1, <1>23, <2>2 DEF Top, Super, SuperGoto, Running, TypeOK, Supervisors
    <3>. QED BY <1>4, <3>1
  <2>. QED BY <2>1, <2>2
<1>24. ASSUME ScanEnd PROVE Owned'
  <2>1. Running /\ supervisor'.slot = supervisor.slot
    BY <1>1, <1>24 DEF ScanEnd, Super, SuperGoto, Running, TypeOK, Supervisors
  <2>. QED BY <1>4, <2>1
<1>25. ASSUME Again PROVE Owned'
  <2>1. CASE SupervisorEnds BY <1>5, <1>6, <2>1
  <2>2. CASE ~SupervisorEnds
    <3>1. Running /\ supervisor'.slot = supervisor.slot
      BY <1>1, <1>25, <2>2 DEF Again, Super, SuperGoto, Running, TypeOK, Supervisors
    <3>. QED BY <1>4, <3>1
  <2>. QED BY <2>1, <2>2
<1>26. ASSUME Respawn PROVE Owned'
  <2>1. supervisor.at \in Slots BY <1>26 DEF IndInv, Vacant, Respawn, Super
  <2>. QED BY <1>2, <1>26, <2>1
<1>27. ASSUME NEW s \in Slots, Spawn(s) PROVE Owned'
  BY <1>2, <1>27
<1>28. ASSUME NEW s \in Slots, Scan(s) PROVE Owned'
  <2>1. Running /\ supervisor'.slot = supervisor.slot
    BY <1>1, <1>28 DEF Scan, Super, SuperGoto, Running, TypeOK, Supervisors
  <2>. QED BY <1>4, <2>1
<1>29. ASSUME Terminate PROVE Owned'
  BY <1>7, <1>29 DEF Terminate
<1>30. ASSUME SupervisorDies PROVE Owned'
  BY <1>5, <1>6, <1>30 DEF SupervisorDies
<1>31. ASSUME NEW set \in SUBSET Slots, Change(set) PROVE Owned'
  BY <1>7, <1>31 DEF Change
<1>32. ASSUME NEW x \in Workers, WorkerDies(x) PROVE Owned'
  BY <1>7, <1>32 DEF WorkerDies
<1>33. ASSUME NEW s \in Pipes, PipeRemoved(s) PROVE Owned'
  BY <1>7, <1>33 DEF PipeRemoved
<1>34. CASE UNCHANGED vars
  BY <1>7, <1>34 DEF vars
<1>. QED BY <1>8, <1>9, <1>10, <1>11, <1>12, <1>13, <1>14, <1>15, <1>16,
          <1>17, <1>18, <1>19, <1>20, <1>21, <1>22, <1>23, <1>24, <1>25,
          <1>26, <1>27, <1>28, <1>29, <1>30, <1>31, <1>32, <1>33, <1>34, <1>40, <1>41 DEF
          Next, MainStep, SupervisorStep, FaultStep

\* A supervisor forks where it has no worker.
LEMMA VacantStep ==
  ASSUME IndInv, [Next]_vars
  PROVE  Vacant'
<1>1. TypeOK /\ Vacant /\ OneSupervisor /\ supervisor \in Supervisors
  BY DEF IndInv, TypeOK
<1>2. ASSUME NEW s \in Slots, Spawn(s) PROVE Vacant'
  <2>0. /\ supervisor'.slot = [supervisor.slot EXCEPT ![s] = Fresh]
        /\ Alive' \subseteq Alive \cup {Fresh} /\ Fresh \notin Own
    BY <1>2, Forking
  <2>1. /\ supervisor'.pc = "spawn" /\ supervisor'.todo = supervisor.todo \ {s}
        /\ supervisor.pc = "spawn"
    BY <1>1, <1>2 DEF Spawn, Super, Supervisors
  <2>2. ASSUME NEW t \in supervisor'.todo PROVE supervisor'.slot[t] \notin Alive'
    <3>1. t \in Slots \ {s} /\ t \in supervisor.todo
      BY <1>1, <2>1 DEF Supervisors
    <3>2. supervisor'.slot[t] = supervisor.slot[t]
      BY <1>1, <2>0, <3>1 DEF Supervisors
    <3>3. supervisor.slot[t] \in Own BY <3>1 DEF Own
    <3>4. supervisor.slot[t] \notin Alive BY <1>1, <2>1, <3>1 DEF Vacant, Super
    <3>. QED BY <2>0, <3>2, <3>3, <3>4
  <2>. QED BY <2>1, <2>2 DEF Vacant, Super
<1>3. ASSUME Respawn PROVE Vacant'
  <2>1. supervisor'.pc = "reregister" BY <1>1, <1>3 DEF Respawn, Supervisors
  <2>. QED BY <2>1 DEF Vacant, Super
<1>4. SUFFICES ASSUME Shrinks PROVE Vacant' BY <1>2, <1>3, Shrink
<1>5. supervisor' = supervisor => Vacant' BY <1>1, <1>4 DEF Vacant, Super, Shrinks
<1>6. supervisor'.pc \notin {"spawn", "again", "respawn"} => Vacant'
  BY DEF Vacant, Super
<1>7. SupervisorEnds => Vacant' BY <1>6 DEF SupervisorEnds, NoSupervisor
<1>8. ASSUME Wake PROVE Vacant'
  BY <1>5, <1>8 DEF Wake
<1>9. ASSUME Reap PROVE Vacant'
  BY <1>5, <1>9 DEF Reap
<1>40. ASSUME NEW w \in Workers, ReapOrphan(w) PROVE Vacant'
  BY <1>5, <1>40 DEF ReapOrphan
<1>41. ASSUME ReapEnd PROVE Vacant'
  BY <1>5, <1>41 DEF ReapEnd
<1>10. ASSUME NEW made \in SUBSET Pipes, Reconcile(made) PROVE Vacant'
  BY <1>5, <1>10 DEF Reconcile
<1>11. ASSUME StartFlag PROVE Vacant'
  BY <1>5, <1>11 DEF StartFlag
<1>12. ASSUME StartFork PROVE Vacant'
  <2>1. \A s \in Slots : supervisor'.slot[s] = None
    BY <1>12 DEF StartFork, NoSupervisor
  <2>2. None \notin Alive' BY WatcherAssumption DEF Alive
  <2>3. supervisor'.pc = "spawn" /\ supervisor'.todo \subseteq Slots
    BY <1>1, <1>12 DEF StartFork, NoSupervisor, TypeOK, Mains
  <2>. QED BY <2>1, <2>2, <2>3 DEF Vacant, Super
<1>13. ASSUME StartPid PROVE Vacant'
  BY <1>5, <1>13 DEF StartPid
<1>14. ASSUME StartFingerprint PROVE Vacant'
  BY <1>5, <1>14 DEF StartFingerprint
<1>15. ASSUME StopFlag PROVE Vacant'
  BY <1>5, <1>15 DEF StopFlag
<1>16. ASSUME StopChildren PROVE Vacant'
  BY <1>5, <1>16 DEF StopChildren
<1>17. ASSUME StopParent PROVE Vacant'
  BY <1>5, <1>7, <1>17 DEF StopParent
<1>18. ASSUME StopWait PROVE Vacant'
  BY <1>5, <1>18 DEF StopWait
<1>19. ASSUME StopCleanup PROVE Vacant'
  BY <1>5, <1>19 DEF StopCleanup
<1>20. ASSUME NEW made \in SUBSET Pipes, Verify(made) PROVE Vacant'
  BY <1>5, <1>20 DEF Verify
<1>21. ASSUME SpawnEnd PROVE Vacant'
  <2>1. supervisor'.pc = "register" BY <1>1, <1>21 DEF SpawnEnd, SuperGoto, Supervisors
  <2>. QED BY <1>6, <2>1
<1>22. ASSUME Register PROVE Vacant'
  <2>1. supervisor'.pc \in {"top", "scan"}
    BY <1>1, <1>22 DEF Register, SuperGoto, Supervisors
  <2>. QED BY <1>6, <2>1
<1>23. ASSUME Top PROVE Vacant'
  <2>1. CASE ~SupervisorEnds
    <3>1. supervisor'.pc = "scan" BY <1>1, <1>23, <2>1 DEF Top, Supervisors
    <3>. QED BY <1>6, <3>1
  <2>. QED BY <1>7, <2>1
<1>24. ASSUME ScanEnd PROVE Vacant'
  <2>1. supervisor'.pc = "top" BY <1>1, <1>24 DEF ScanEnd, SuperGoto, Supervisors
  <2>. QED BY <1>6, <2>1
<1>25. ASSUME Again PROVE Vacant'
  <2>1. CASE ~SupervisorEnds
    <3>1. /\ supervisor.pc = "again" /\ supervisor'.pc = "respawn"
          /\ supervisor'.at = supervisor.at /\ supervisor'.slot = supervisor.slot
      BY <1>1, <1>25, <2>1 DEF Again, Super, SuperGoto, Supervisors
    <3>. QED BY <1>1, <1>4, <3>1 DEF Vacant, Super, Shrinks
  <2>. QED BY <1>7, <2>1
<1>26. ASSUME Respawn PROVE Vacant'
  BY <1>3, <1>26
<1>27. ASSUME NEW s \in Slots, Spawn(s) PROVE Vacant'
  BY <1>2, <1>27
<1>28. ASSUME NEW s \in Slots, Scan(s) PROVE Vacant'
  <2>1. CASE Present(s) /\ supervisor.slot[s] \notin Alive
    <3>1. /\ supervisor'.pc = "again" /\ supervisor'.at = s
          /\ supervisor'.slot = supervisor.slot
      BY <1>1, <1>28, <2>1 DEF Scan, Supervisors
    <3>. QED BY <1>4, <2>1, <3>1 DEF Vacant, Super, Shrinks
  <2>2. CASE ~(Present(s) /\ supervisor.slot[s] \notin Alive)
    <3>1. supervisor'.pc = "scan" BY <1>1, <1>28, <2>2 DEF Scan, Super, Supervisors
    <3>. QED BY <1>6, <3>1
  <2>. QED BY <2>1, <2>2
<1>29. ASSUME Terminate PROVE Vacant'
  BY <1>5, <1>29 DEF Terminate
<1>30. ASSUME SupervisorDies PROVE Vacant'
  BY <1>7, <1>30 DEF SupervisorDies
<1>31. ASSUME NEW set \in SUBSET Slots, Change(set) PROVE Vacant'
  BY <1>5, <1>31 DEF Change
<1>32. ASSUME NEW x \in Workers, WorkerDies(x) PROVE Vacant'
  BY <1>5, <1>32 DEF WorkerDies
<1>33. ASSUME NEW s \in Pipes, PipeRemoved(s) PROVE Vacant'
  BY <1>5, <1>33 DEF PipeRemoved
<1>34. CASE UNCHANGED vars
  BY <1>5, <1>34 DEF vars
<1>. QED BY <1>8, <1>9, <1>10, <1>11, <1>12, <1>13, <1>14, <1>15, <1>16,
          <1>17, <1>18, <1>19, <1>20, <1>21, <1>22, <1>23, <1>24, <1>25,
          <1>26, <1>27, <1>28, <1>29, <1>30, <1>31, <1>32, <1>33, <1>34, <1>40, <1>41 DEF
          Next, MainStep, SupervisorStep, FaultStep

\* The workers of a supervisor serve different slots.
LEMMA OneWorkerStep ==
  ASSUME IndInv, [Next]_vars, Owned'
  PROVE  OneWorkerEach'
<1>1. CASE Shrinks
  BY <1>1 DEF IndInv, OneWorkerEach, Shrinks
<1>2. ASSUME NEW s \in Slots, Spawn(s) \/ (Respawn /\ s = supervisor.at)
      PROVE  OneWorkerEach'
  <2>1. Running' BY <1>2, Forking
  <2>. QED BY <2>1 DEF Owned, Own, OneWorkerEach
<1>. QED BY <1>1, <1>2, ForkOrShrink

-----------------------------------------------------------------------------
\* The invariant.

LEMMA IndInvInit == Init => IndInv
<1>. SUFFICES ASSUME Init PROVE IndInv OBVIOUS
<1>1. main \in Mains BY DEF Init, Mains
<1>2. supervisor \in Supervisors /\ ~Running /\ supervisor.pc = "none"
  BY NoSupervisorTyped DEF Init, NoSupervisor, Running
<1>3. Alive = {} BY DEF Init, Alive
<1>4. heal \in [Pipes -> 0..ReplantMax] BY WatcherAssumption DEF Init
<1>6. worker \in [Workers -> Working \cup {None}] BY DEF Init
<1>5. TypeOK BY <1>1, <1>2, <1>4, <1>6 DEF Init, TypeOK
<1>. QED BY <1>2, <1>3, <1>5
         DEF IndInv, OneSupervisor, Emptied, Accounted, Owned, Vacant, Super,
             OneWorkerEach

LEMMA IndInvStep == IndInv /\ [Next]_vars => IndInv'
<1>. SUFFICES ASSUME IndInv, [Next]_vars PROVE IndInv' OBVIOUS
<1>1. TypeOK'
  BY MainTyped, SupervisorTyped, WorkersTyped, RestTyped DEF TypeOK, Rest
<1>2. OneSupervisor' BY OneSupervisorStep
<1>3. Emptied' BY EmptiedStep
<1>4. Accounted' BY AccountedStep
<1>5. Owned' BY OwnedStep
<1>6. Vacant' BY VacantStep
<1>7. OneWorkerEach' BY <1>5, OneWorkerStep
<1>. QED BY <1>1, <1>2, <1>3, <1>4, <1>5, <1>6, <1>7 DEF IndInv

\* The invariant holds in every reachable state, for any set of baits and
\* however many faults there are.
THEOREM Inductive == Spec => []IndInv
BY IndInvInit, IndInvStep, PTL DEF Spec

\* The types of the processes, the registry and the baits.
THEOREM TypeCorrect == Spec => []TypeOK
<1>1. IndInv => TypeOK BY DEF IndInv
<1>. QED BY <1>1, Inductive, PTL

\* When a stop of the sensors is done, or the trap exits after one, there is no
\* supervisor, and no worker but those that its registry did not know when it
\* ended and those that a stop without a WATCH_PID has skipped.
THEOREM StopsAreComplete == Spec => []StopIsComplete
<1>1. IndInv => StopIsComplete
  BY DEF IndInv, OneSupervisor, Emptied, Halted, StopIsComplete
<1>. QED BY <1>1, Inductive, PTL

\* A bait is served by one worker.
THEOREM OneEach == Spec => []OneWorkerEach
<1>1. IndInv => OneWorkerEach BY DEF IndInv
<1>. QED BY <1>1, Inductive, PTL

=============================================================================
