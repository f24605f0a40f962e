------------------------- MODULE Enrollment_proofs -------------------------
(***************************************************************************)
(* Why enrolling a host again and again leaves it one endpoint that it can *)
(* always find again, for any number of enrollments that overlap, as long  *)
(* as none is stopped in the window between the row and the file and none  *)
(* creates a row beside another one: while some process holds an answer    *)
(* the only row is the one it was told, and when none does the file names  *)
(* the row.                                                                *)
(***************************************************************************)
EXTENDS Enrollment, FiniteSetTheorems, TLAPS

-----------------------------------------------------------------------------
\* The inductive invariant.

\* What a process at each command has in its variables.
Locals(p) ==
  /\ proc[p].answer # None =>
       proc[p].pc \in {"answer", "truncate", "writeMachine", "writeToken"}
  /\ proc[p].pc \in {"truncate", "writeMachine", "writeToken"} =>
       proc[p].answer # None
  /\ proc[p].pc \in Enrolling \ {"readMachine"} => proc[p].machine # None

\* A machine id that is not late is the one in the file, if there is one.
Timely(p) ==
  proc[p].machine # None /\ ~proc[p].late =>
    file.machine \in {None, proc[p].machine}

\* While p holds an answer there is no other row than the one it was told.
Told(p) ==
  proc[p].answer # None =>
    \A m \in DOMAIN endpoints :
      m = proc[p].machine /\ endpoints[m] = proc[p].answer

\* Between its two lines p has written the id, or somebody truncated the file
\* again and will write the same.
Written(p) ==
  proc[p].pc = "writeToken" /\ DOMAIN endpoints # {} =>
    \/ file.machine = proc[p].machine
    \/ file.machine = None /\ \E q \in Procs : proc[q].pc = "writeMachine"

\* A row is in the file, or somebody cannot be stopped without harm.
Covered ==
  \A m \in DOMAIN endpoints :
    \/ file = [machine |-> m, token |-> endpoints[m]]
    \/ \E p \in Procs : Harmful(p)

Single == \A m, n \in DOMAIN endpoints : m = n

Identity == /\ Single /\ Covered
            /\ \A p \in Procs : Told(p) /\ Written(p)

IndInv ==
  /\ TypeOK
  /\ \A p \in Procs : Locals(p) /\ Timely(p)
  /\ clean => Identity


-----------------------------------------------------------------------------
\* Types.

LEMMA AtTyped ==
  ASSUME NEW pc \in {"off", "run", "readMachine"}, NEW mem \in Tokens \cup {None}
  PROVE  At(pc, mem) \in Processes
BY DEF At, Processes, Enrolling

LEMMA TypeInit == Init => TypeOK
<1>. SUFFICES ASSUME Init PROVE TypeOK OBVIOUS
<1>1. proc \in [Procs -> Processes] BY AtTyped DEF Init
<1>2. /\ DOMAIN endpoints \subseteq Machines
      /\ endpoints \in [DOMAIN endpoints -> Tokens]
  BY DEF Init
<1>3. events \in 0..MaxEvents BY EnrollmentAssumption DEF Init
<1>. QED BY <1>1, <1>2, <1>3 DEF Init, TypeOK, Files


\* Every step keeps the types.
LEMMA TypeStep ==
  ASSUME IndInv, [Next]_vars
  PROVE  proc' \in [Procs -> Processes]
<1>1. TypeOK BY DEF IndInv
<1>2. Main \in Procs /\ Watcher \in Procs BY DEF Procs
<1>3. \A mem \in Tokens \cup {None} :
       /\ At("off", mem) \in Processes /\ At("run", mem) \in Processes
       /\ At("readMachine", mem) \in Processes
  BY AtTyped
<1>4. \A p \in Procs : /\ proc[p] \in Processes
                       /\ proc[p].mem \in Tokens \cup {None}
  BY <1>1 DEF TypeOK, Processes
<1>5. ASSUME NEW p \in Procs, Start(p) PROVE proc' \in [Procs -> Processes]
  BY <1>1, <1>2, <1>3, <1>4, <1>5 DEF Start, TypeOK, Begin
<1>6. ASSUME NEW p \in Procs, Stop(p) PROVE proc' \in [Procs -> Processes]
  BY <1>1, <1>2, <1>3, <1>4, <1>6 DEF Stop, TypeOK, Stop
<1>7. ASSUME NEW p \in Procs, Lose(p) PROVE proc' \in [Procs -> Processes]
  BY <1>1, <1>2, <1>3, <1>4, <1>7 DEF Lose, TypeOK, Fail
<1>8. ASSUME NEW p \in Procs, ReadMachine(p) PROVE proc' \in [Procs -> Processes]
  <2>1. \A m \in Machines :
          [proc[p] EXCEPT !.pc = "readToken", !.machine = m] \in Processes
    BY <1>4 DEF Processes, Enrolling
  <2>2. file.machine \in Machines \cup {None} BY <1>1 DEF TypeOK, Files
  <2>3. PICK m \in Machines :
          proc' = [proc EXCEPT ![p] =
                     [proc[p] EXCEPT !.pc = "readToken", !.machine = m]]
    BY <1>1, <1>8, <2>2 DEF ReadMachine, NewMachines, TypeOK
  <2>. QED BY <1>1, <2>1, <2>3 DEF TypeOK
<1>9. ASSUME NEW p \in Procs, ReadToken(p) PROVE proc' \in [Procs -> Processes]
  <2>1. SavedToken \in Tokens \cup {None} BY <1>1 DEF TypeOK, Files, SavedToken
  <2>2. [proc[p] EXCEPT !.pc = "post", !.token = SavedToken] \in Processes
    BY <1>4, <2>1 DEF Processes, Enrolling
  <2>. QED BY <1>1, <1>9, <2>2 DEF ReadToken, TypeOK
<1>10. ASSUME NEW p \in Procs, Serve(p) PROVE proc' \in [Procs -> Processes]
  <2>1. \A t \in Tokens \cup {None} :
          [proc[p] EXCEPT !.pc = "answer", !.answer = t] \in Processes
    BY <1>4 DEF Processes, Enrolling
  <2>2. \A m \in DOMAIN endpoints : endpoints[m] \in Tokens BY <1>1 DEF TypeOK
  <2>3. \E t \in Tokens \cup {None} :
          proc' = [proc EXCEPT ![p] =
                     [proc[p] EXCEPT !.pc = "answer", !.answer = t]]
    BY <1>1, <1>10, <2>2 DEF Serve, NewTokens, TypeOK
  <2>. QED BY <1>1, <2>1, <2>3 DEF TypeOK
<1>11. ASSUME NEW p \in Procs, Refused(p) PROVE proc' \in [Procs -> Processes]
  BY <1>1, <1>2, <1>3, <1>4, <1>11 DEF Refused, TypeOK, Fail
<1>12. ASSUME NEW p \in Procs, Answered(p) PROVE proc' \in [Procs -> Processes]
  <2>1. proc[p].answer \in Tokens \cup {None} BY <1>4 DEF Processes
  <2>2. [proc[p] EXCEPT !.pc = "truncate", !.mem = proc[p].answer] \in Processes
    BY <1>4, <2>1 DEF Processes, Enrolling
  <2>. QED BY <1>1, <1>12, <2>2 DEF Answered, TypeOK
<1>13. ASSUME NEW p \in Procs, Truncate(p) PROVE proc' \in [Procs -> Processes]
  <2>1. [proc[p] EXCEPT !.pc = "writeMachine"] \in Processes
    BY <1>4 DEF Processes, Enrolling
  <2>. QED BY <1>1, <1>13, <2>1 DEF Truncate, TypeOK
<1>14. ASSUME NEW p \in Procs, WriteMachine(p) PROVE proc' \in [Procs -> Processes]
  <2>1. [proc[p] EXCEPT !.pc = "writeToken"] \in Processes
    BY <1>4 DEF Processes, Enrolling
  <2>2. ASSUME NEW q \in Procs
        PROVE  [proc[q] EXCEPT
                  !.late = @ \/ proc[q].machine \notin {None, proc[p].machine}]
                 \in Processes
    <3>1. \A b \in BOOLEAN : [proc[q] EXCEPT !.late = b] \in Processes
      BY <1>4 DEF Processes
    <3>2. (proc[q].late \/ proc[q].machine \notin {None, proc[p].machine})
            \in BOOLEAN
      OBVIOUS
    <3>. QED BY <3>1, <3>2, Zenon
  <2>. QED BY <1>14, <2>1, <2>2 DEF WriteMachine
<1>15. ASSUME NEW p \in Procs, WriteToken(p) PROVE proc' \in [Procs -> Processes]
  BY <1>1, <1>2, <1>3, <1>4, <1>15 DEF WriteToken, TypeOK
<1>16. ASSUME Fork PROVE proc' \in [Procs -> Processes]
  BY <1>1, <1>2, <1>3, <1>4, <1>16 DEF Fork, TypeOK
<1>17. ASSUME ResyncMain PROVE proc' \in [Procs -> Processes]
  BY <1>1, <1>2, <1>3, <1>4, <1>17 DEF ResyncMain, TypeOK, Begin
<1>18. ASSUME ResyncWatcher PROVE proc' \in [Procs -> Processes]
  BY <1>1, <1>2, <1>3, <1>4, <1>18 DEF ResyncWatcher, TypeOK, Begin
<1>19. ASSUME NEW gone \in SUBSET DOMAIN endpoints, Remove(gone) PROVE proc' \in [Procs -> Processes]
  BY <1>1, <1>2, <1>3, <1>4, <1>19 DEF Remove, TypeOK
<1>20. CASE UNCHANGED vars
  BY <1>1, <1>2, <1>3, <1>4, <1>20 DEF vars, TypeOK
<1>. QED BY <1>5, <1>6, <1>7, <1>8, <1>9, <1>10, <1>11, <1>12, <1>13, <1>14,
          <1>15, <1>16, <1>17, <1>18, <1>19, <1>20 DEF Next, EnrollStep

\* Every step keeps the types of the tables and the file.
LEMMA StateTypes ==
  ASSUME IndInv, [Next]_vars
  PROVE  TypeOK'
<1>1. TypeOK BY DEF IndInv
<1>2. proc' \in [Procs -> Processes] BY TypeStep
<1>3. events \in 0..MaxEvents /\ MaxEvents \in Nat BY <1>1, EnrollmentAssumption DEF TypeOK
<1>4. Happens => events' \in 0..MaxEvents BY <1>3 DEF Happens
<1>5. \A p \in Procs : proc[p] \in Processes BY <1>1 DEF TypeOK
<1>6. ASSUME NEW p \in Procs, Start(p) PROVE TypeOK'
  BY <1>1, <1>2, <1>3, <1>4, <1>5, <1>6 DEF Start, TypeOK
<1>7. ASSUME NEW p \in Procs, Stop(p) PROVE TypeOK'
  <2>1. clean' \in BOOLEAN BY <1>1, <1>7 DEF Stop, TypeOK
  <2>. QED BY <1>1, <1>2, <1>4, <1>7, <2>1 DEF Stop, TypeOK
<1>8. ASSUME NEW p \in Procs, Lose(p) PROVE TypeOK'
  <2>1. clean' \in BOOLEAN BY <1>1, <1>8 DEF Lose, TypeOK
  <2>. QED BY <1>1, <1>2, <1>4, <1>8, <2>1 DEF Lose, TypeOK
<1>9. ASSUME NEW p \in Procs, ReadMachine(p) PROVE TypeOK'
  BY <1>1, <1>2, <1>3, <1>4, <1>5, <1>9 DEF ReadMachine, TypeOK
<1>10. ASSUME NEW p \in Procs, ReadToken(p) PROVE TypeOK'
  BY <1>1, <1>2, <1>3, <1>4, <1>5, <1>10 DEF ReadToken, TypeOK
<1>11. ASSUME NEW p \in Procs, Serve(p) PROVE TypeOK'
  <2>1. clean' \in BOOLEAN /\ UNCHANGED <<file, events>>
    BY <1>1, <1>11 DEF Serve, TypeOK
  <2>2. /\ DOMAIN endpoints' \subseteq Machines
        /\ endpoints' \in [DOMAIN endpoints' -> Tokens]
    <3>1. CASE endpoints' = endpoints BY <1>1, <3>1 DEF TypeOK
    <3>2. ASSUME NEW t \in Tokens,
                 endpoints' = [n \in DOMAIN endpoints \cup {proc[p].machine} |->
                                 IF n = proc[p].machine THEN t ELSE endpoints[n]],
                 proc[p].machine # None
          PROVE  /\ DOMAIN endpoints' \subseteq Machines
                 /\ endpoints' \in [DOMAIN endpoints' -> Tokens]
      <4>1. proc[p].machine \in Machines BY <1>5, <3>2 DEF Processes
      <4>. QED BY <1>1, <3>2, <4>1 DEF TypeOK
    <3>3. proc[p].machine # None BY <1>11 DEF IndInv, Locals, Serve, Enrolling
    <3>. QED BY <1>11, <3>1, <3>2, <3>3 DEF Serve, NewTokens
  <2>. QED BY <1>1, <1>2, <2>1, <2>2 DEF TypeOK
<1>12. ASSUME NEW p \in Procs, Refused(p) PROVE TypeOK'
  BY <1>1, <1>2, <1>3, <1>4, <1>5, <1>12 DEF Refused, TypeOK
<1>13. ASSUME NEW p \in Procs, Answered(p) PROVE TypeOK'
  BY <1>1, <1>2, <1>3, <1>4, <1>5, <1>13 DEF Answered, TypeOK
<1>14. ASSUME NEW p \in Procs, Truncate(p) PROVE TypeOK'
  <2>1. file' \in Files BY <1>14 DEF Truncate, Files
  <2>. QED BY <1>1, <1>2, <1>14, <2>1 DEF Truncate, TypeOK
<1>15. ASSUME NEW p \in Procs, WriteMachine(p) PROVE TypeOK'
  <2>1. file' \in Files
    BY <1>1, <1>5, <1>15 DEF WriteMachine, TypeOK, Files, Processes
  <2>. QED BY <1>1, <1>2, <1>15, <2>1 DEF WriteMachine, TypeOK
<1>16. ASSUME NEW p \in Procs, WriteToken(p) PROVE TypeOK'
  <2>1. file' \in Files
    BY <1>1, <1>5, <1>16 DEF WriteToken, TypeOK, Files, Processes
  <2>. QED BY <1>1, <1>2, <1>16, <2>1 DEF WriteToken, TypeOK
<1>17. ASSUME Fork PROVE TypeOK'
  BY <1>1, <1>2, <1>3, <1>4, <1>5, <1>17 DEF Fork, TypeOK
<1>18. ASSUME ResyncMain PROVE TypeOK'
  BY <1>1, <1>2, <1>3, <1>4, <1>5, <1>18 DEF ResyncMain, TypeOK
<1>19. ASSUME ResyncWatcher PROVE TypeOK'
  BY <1>1, <1>2, <1>3, <1>4, <1>5, <1>19 DEF ResyncWatcher, TypeOK
<1>20. ASSUME NEW gone \in SUBSET DOMAIN endpoints, Remove(gone) PROVE TypeOK'
  <2>1. /\ DOMAIN endpoints' \subseteq Machines
        /\ endpoints' \in [DOMAIN endpoints' -> Tokens]
    BY <1>1, <1>20 DEF Remove, TypeOK
  <2>. QED BY <1>1, <1>2, <1>4, <1>20, <2>1 DEF Remove, TypeOK
<1>21. CASE UNCHANGED vars
  BY <1>1, <1>2, <1>3, <1>4, <1>5, <1>21 DEF vars, TypeOK
<1>. QED BY <1>6, <1>7, <1>8, <1>9, <1>10, <1>11, <1>12, <1>13, <1>14, <1>15,
          <1>16, <1>17, <1>18, <1>19, <1>20, <1>21 DEF Next, EnrollStep

-----------------------------------------------------------------------------
\* Each process by itself.

\* What only one of them does.
Only(p) == \A q \in Procs \ {p} : proc'[q] = proc[q]


\* Every step keeps what holds of each process.
LEMMA LocalStep ==
  ASSUME IndInv, [Next]_vars
  PROVE  \A q \in Procs : Locals(q)' /\ Timely(q)'
<1>1. /\ TypeOK /\ \A q \in Procs : Locals(q) /\ Timely(q)
      /\ proc \in [Procs -> Processes]
  BY DEF IndInv, TypeOK
<1>2. Main \in Procs /\ Watcher \in Procs BY DEF Procs
<1>3. None \notin Machines \cup Tokens BY EnrollmentAssumption
<1>4. ASSUME NEW p \in Procs, Start(p) PROVE \A q \in Procs : Locals(q)' /\ Timely(q)'
  <2>1. file' = file /\ \A q \in Procs \ {p} : proc'[q] = proc[q]
    BY <1>1, <1>2, <1>4 DEF Start, Begin
  <2>2. /\ proc'[p].pc \in {"off", "run", "readMachine"}
        /\ proc'[p].machine = None /\ proc'[p].answer = None
    BY <1>1, <1>2, <1>4 DEF Start, Begin, At
  <2>. QED BY <1>1, <1>2, <2>1, <2>2 DEF Locals, Timely, Enrolling
<1>5. ASSUME NEW p \in Procs, Stop(p) PROVE \A q \in Procs : Locals(q)' /\ Timely(q)'
  <2>1. file' = file /\ \A q \in Procs \ {p} : proc'[q] = proc[q]
    BY <1>1, <1>2, <1>5 DEF Stop, vars
  <2>2. /\ proc'[p].pc \in {"off", "run", "readMachine"}
        /\ proc'[p].machine = None /\ proc'[p].answer = None
    BY <1>1, <1>2, <1>5 DEF Stop, vars, At
  <2>. QED BY <1>1, <1>2, <2>1, <2>2 DEF Locals, Timely, Enrolling
<1>6. ASSUME NEW p \in Procs, Lose(p) PROVE \A q \in Procs : Locals(q)' /\ Timely(q)'
  <2>1. file' = file /\ \A q \in Procs \ {p} : proc'[q] = proc[q]
    BY <1>1, <1>2, <1>6 DEF Lose, Fail
  <2>2. /\ proc'[p].pc \in {"off", "run", "readMachine"}
        /\ proc'[p].machine = None /\ proc'[p].answer = None
    BY <1>1, <1>2, <1>6 DEF Lose, Fail, At
  <2>. QED BY <1>1, <1>2, <2>1, <2>2 DEF Locals, Timely, Enrolling
<1>7. ASSUME NEW p \in Procs, ReadMachine(p) PROVE \A q \in Procs : Locals(q)' /\ Timely(q)'
  <2>1. PICK m \in Machines :
          /\ proc' = [proc EXCEPT ![p] =
                        [proc[p] EXCEPT !.pc = "readToken", !.machine = m]]
          /\ file.machine \in {None, m}
    BY <1>1, <1>7 DEF ReadMachine, NewMachines, TypeOK, Files
  <2>2. file' = file /\ proc[p].pc = "readMachine" BY <1>7 DEF ReadMachine
  <2>3. Only(p) BY <1>1, <2>1 DEF Only
  <2>4. /\ proc'[p].pc = "readToken" /\ proc'[p].machine = m
        /\ proc'[p].answer = proc[p].answer
    BY <1>1, <2>1 DEF Processes
  <2>. QED BY <1>1, <1>3, <2>1, <2>2, <2>3, <2>4
           DEF Only, Locals, Timely, Enrolling
<1>8. ASSUME NEW p \in Procs, ReadToken(p) PROVE \A q \in Procs : Locals(q)' /\ Timely(q)'
  <2>1. file' = file /\ proc[p].pc = "readToken" /\ Only(p)
    BY <1>1, <1>8 DEF ReadToken, Only
  <2>2. /\ proc'[p].pc = "post" /\ proc'[p].machine = proc[p].machine
        /\ proc'[p].answer = proc[p].answer /\ proc'[p].late = proc[p].late
    BY <1>1, <1>8 DEF ReadToken, Processes
  <2>. QED BY <1>1, <2>1, <2>2 DEF Only, Locals, Timely, Enrolling
<1>9. ASSUME NEW p \in Procs, Serve(p) PROVE \A q \in Procs : Locals(q)' /\ Timely(q)'
  <2>1. PICK t \in Tokens \cup {None} :
          proc' = [proc EXCEPT ![p] =
                     [proc[p] EXCEPT !.pc = "answer", !.answer = t]]
    <3>1. \A m \in DOMAIN endpoints : endpoints[m] \in Tokens BY <1>1 DEF TypeOK
    <3>. QED BY <1>1, <1>9, <3>1 DEF Serve, NewTokens
  <2>2. file' = file /\ proc[p].pc = "post" BY <1>9 DEF Serve
  <2>3. Only(p) BY <1>1, <2>1 DEF Only
  <2>4. /\ proc'[p].pc = "answer" /\ proc'[p].machine = proc[p].machine
        /\ proc'[p].late = proc[p].late
    BY <1>1, <2>1 DEF Processes
  <2>. QED BY <1>1, <2>2, <2>3, <2>4 DEF Only, Locals, Timely, Enrolling
<1>10. ASSUME NEW p \in Procs, Refused(p) PROVE \A q \in Procs : Locals(q)' /\ Timely(q)'
  <2>1. file' = file /\ \A q \in Procs \ {p} : proc'[q] = proc[q]
    BY <1>1, <1>2, <1>10 DEF Refused, Fail
  <2>2. /\ proc'[p].pc \in {"off", "run", "readMachine"}
        /\ proc'[p].machine = None /\ proc'[p].answer = None
    BY <1>1, <1>2, <1>10 DEF Refused, Fail, At
  <2>. QED BY <1>1, <1>2, <2>1, <2>2 DEF Locals, Timely, Enrolling
<1>11. ASSUME NEW p \in Procs, Answered(p) PROVE \A q \in Procs : Locals(q)' /\ Timely(q)'
  <2>1. /\ file' = file /\ proc[p].pc = "answer" /\ Only(p)
        /\ proc[p].answer # None
    BY <1>1, <1>11 DEF Answered, Only
  <2>2. /\ proc'[p].pc = "truncate" /\ proc'[p].machine = proc[p].machine
        /\ proc'[p].answer = proc[p].answer /\ proc'[p].late = proc[p].late
    BY <1>1, <1>11 DEF Answered, Processes
  <2>. QED BY <1>1, <2>1, <2>2 DEF Only, Locals, Timely, Enrolling
<1>12. ASSUME NEW p \in Procs, Truncate(p) PROVE \A q \in Procs : Locals(q)' /\ Timely(q)'
  <2>1. file'.machine = None /\ proc[p].pc = "truncate" /\ Only(p)
    BY <1>1, <1>12 DEF Truncate, Only
  <2>2. /\ proc'[p].pc = "writeMachine" /\ proc'[p].machine = proc[p].machine
        /\ proc'[p].answer = proc[p].answer /\ proc'[p].late = proc[p].late
    BY <1>1, <1>12 DEF Truncate, Processes
  <2>. QED BY <1>1, <2>1, <2>2 DEF Only, Locals, Timely, Enrolling
<1>13. ASSUME NEW p \in Procs, WriteMachine(p) PROVE \A q \in Procs : Locals(q)' /\ Timely(q)'
  <2>1. file'.machine = proc[p].machine /\ proc[p].pc = "writeMachine"
    BY <1>1, <1>13 DEF WriteMachine, TypeOK, Files
  <2>2. /\ proc'[p].pc = "writeToken" /\ proc'[p].machine = proc[p].machine
        /\ proc'[p].answer = proc[p].answer
    BY <1>1, <1>13 DEF WriteMachine, Processes
  <2>3. ASSUME NEW q \in Procs \ {p}
        PROVE  /\ proc'[q].pc = proc[q].pc /\ proc'[q].machine = proc[q].machine
               /\ proc'[q].answer = proc[q].answer
               /\ proc[q].machine \notin {None, proc[p].machine} => proc'[q].late
    <3>1. proc'[q] = [proc[q] EXCEPT
                !.late = @ \/ proc[q].machine \notin {None, proc[p].machine}]
      BY <1>13 DEF WriteMachine
    <3>2. proc[q] \in Processes BY <1>1
    <3>. QED BY <3>1, <3>2 DEF Processes
  <2>4. Locals(p)' /\ Timely(p)' BY <1>1, <2>1, <2>2 DEF Locals, Timely, Enrolling
  <2>5. ASSUME NEW q \in Procs \ {p} PROVE Locals(q)' /\ Timely(q)'
    BY <1>1, <2>1, <2>3 DEF Locals, Timely
  <2>. QED BY <2>4, <2>5
<1>14. ASSUME NEW p \in Procs, WriteToken(p) PROVE \A q \in Procs : Locals(q)' /\ Timely(q)'
  <2>1. file'.machine = file.machine /\ Only(p)
    BY <1>1, <1>14 DEF WriteToken, Only, TypeOK, Files
  <2>2. /\ proc'[p].pc \in {"off", "run"} /\ proc'[p].machine = None
        /\ proc'[p].answer = None
    BY <1>1, <1>14 DEF WriteToken, At
  <2>. QED BY <1>1, <2>1, <2>2 DEF Only, Locals, Timely, Enrolling
<1>15. ASSUME Fork PROVE \A q \in Procs : Locals(q)' /\ Timely(q)'
  <2>1. file' = file /\ \A q \in Procs \ {Watcher} : proc'[q] = proc[q]
    BY <1>1, <1>2, <1>15 DEF Fork, vars
  <2>2. /\ proc'[Watcher].pc \in {"off", "run", "readMachine"}
        /\ proc'[Watcher].machine = None /\ proc'[Watcher].answer = None
    BY <1>1, <1>2, <1>15 DEF Fork, vars, At
  <2>. QED BY <1>1, <1>2, <2>1, <2>2 DEF Locals, Timely, Enrolling
<1>16. ASSUME ResyncMain PROVE \A q \in Procs : Locals(q)' /\ Timely(q)'
  <2>1. file' = file /\ \A q \in Procs \ {Main} : proc'[q] = proc[q]
    BY <1>1, <1>2, <1>16 DEF ResyncMain, Begin
  <2>2. /\ proc'[Main].pc \in {"off", "run", "readMachine"}
        /\ proc'[Main].machine = None /\ proc'[Main].answer = None
    BY <1>1, <1>2, <1>16 DEF ResyncMain, Begin, At
  <2>. QED BY <1>1, <1>2, <2>1, <2>2 DEF Locals, Timely, Enrolling
<1>17. ASSUME ResyncWatcher PROVE \A q \in Procs : Locals(q)' /\ Timely(q)'
  <2>1. file' = file /\ \A q \in Procs \ {Watcher} : proc'[q] = proc[q]
    BY <1>1, <1>2, <1>17 DEF ResyncWatcher, Begin
  <2>2. /\ proc'[Watcher].pc \in {"off", "run", "readMachine"}
        /\ proc'[Watcher].machine = None /\ proc'[Watcher].answer = None
    BY <1>1, <1>2, <1>17 DEF ResyncWatcher, Begin, At
  <2>. QED BY <1>1, <1>2, <2>1, <2>2 DEF Locals, Timely, Enrolling
<1>18. ASSUME NEW gone \in SUBSET DOMAIN endpoints, Remove(gone) PROVE \A q \in Procs : Locals(q)' /\ Timely(q)'
  BY <1>1, <1>2, <1>3, <1>18 DEF Remove, Locals, Timely
<1>19. CASE UNCHANGED vars
  BY <1>1, <1>2, <1>3, <1>19 DEF vars, Locals, Timely
<1>. QED BY <1>4, <1>5, <1>6, <1>7, <1>8, <1>9, <1>10, <1>11, <1>12, <1>13,
          <1>14, <1>15, <1>16, <1>17, <1>18, <1>19 DEF Next, EnrollStep

-----------------------------------------------------------------------------
\* The rows and the file.

\* A step that only takes rows away, and starts or ends what does no harm.
LEMMA Quiet ==
  ASSUME IndInv, Identity, file' = file,
         DOMAIN endpoints' \subseteq DOMAIN endpoints,
         \A m \in DOMAIN endpoints' : endpoints'[m] = endpoints[m],
         \A q \in Procs :
           \/ proc'[q] = proc[q]
           \/ /\ ~Harmful(q) /\ proc'[q].answer = None
              /\ proc'[q].pc \notin {"writeMachine", "writeToken"}
  PROVE  Identity'
<1>1. \A q \in Procs : Harmful(q) => Harmful(q)' BY DEF Harmful
<1>2. \A q \in Procs : proc[q].pc = "writeMachine" => proc'[q].pc = "writeMachine"
  BY DEF Harmful
<1>3. Single' BY DEF Identity, Single
<1>4. Covered' BY <1>1 DEF Identity, Covered
<1>5. \A q \in Procs : Told(q)' BY DEF Identity, Told
<1>6. \A q \in Procs : Written(q)' BY <1>2 DEF Identity, Written
<1>. QED BY <1>3, <1>4, <1>5, <1>6 DEF Identity


\* Every clean step keeps the identity.
LEMMA IdentityStep ==
  ASSUME IndInv, [Next]_vars, clean'
  PROVE  Identity'
<1>1. /\ TypeOK /\ \A q \in Procs : Locals(q) /\ Timely(q)
      /\ proc \in [Procs -> Processes] /\ clean' \in BOOLEAN
  BY StateTypes DEF IndInv, TypeOK
<1>2. Main \in Procs /\ Watcher \in Procs BY DEF Procs
<1>3. None \notin Machines \cup Tokens BY EnrollmentAssumption
<1>4. clean => Identity BY DEF IndInv
<1>5. \A q \in Procs : proc[q].pc \in {"off", "run", "readMachine", "readToken", "post"}
        => proc[q].answer = None /\ ~Harmful(q)
  BY <1>1 DEF Locals, Harmful
<1>6. ASSUME NEW p \in Procs, Start(p) PROVE Identity'
  <2>1. /\ UNCHANGED <<file, endpoints>> /\ clean
        /\ \A q \in Procs \ {p} : proc'[q] = proc[q]
    BY <1>1, <1>2, <1>6 DEF Start, Begin
  <2>2. ~Harmful(p) BY <1>1, <1>2, <1>5, <1>6 DEF Start, Begin, Harmful
  <2>3. /\ proc'[p].answer = None
        /\ proc'[p].pc \notin {"writeMachine", "writeToken"}
    BY <1>1, <1>2, <1>5, <1>6 DEF Start, Begin, At, Processes
  <2>. QED BY <1>4, <2>1, <2>2, <2>3, Quiet
<1>7. ASSUME NEW p \in Procs, Stop(p) PROVE Identity'
  <2>1. /\ UNCHANGED <<file, endpoints>> /\ clean
        /\ \A q \in Procs \ {p} : proc'[q] = proc[q]
    BY <1>1, <1>2, <1>7 DEF Stop, vars
  <2>2. ~Harmful(p) BY <1>1, <1>2, <1>5, <1>7 DEF Stop, vars, Harmful
  <2>3. /\ proc'[p].answer = None
        /\ proc'[p].pc \notin {"writeMachine", "writeToken"}
    BY <1>1, <1>2, <1>5, <1>7 DEF Stop, vars, At, Processes
  <2>. QED BY <1>4, <2>1, <2>2, <2>3, Quiet
<1>8. ASSUME NEW p \in Procs, Lose(p) PROVE Identity'
  <2>1. /\ UNCHANGED <<file, endpoints>> /\ clean
        /\ \A q \in Procs \ {p} : proc'[q] = proc[q]
    BY <1>1, <1>2, <1>8 DEF Lose, Fail
  <2>2. ~Harmful(p) BY <1>1, <1>2, <1>5, <1>8 DEF Lose, Fail, Harmful
  <2>3. /\ proc'[p].answer = None
        /\ proc'[p].pc \notin {"writeMachine", "writeToken"}
    BY <1>1, <1>2, <1>5, <1>8 DEF Lose, Fail, At, Processes
  <2>. QED BY <1>4, <2>1, <2>2, <2>3, Quiet
<1>9. ASSUME NEW p \in Procs, ReadMachine(p) PROVE Identity'
  <2>1. /\ UNCHANGED <<file, endpoints>> /\ clean
        /\ \A q \in Procs \ {p} : proc'[q] = proc[q]
    BY <1>1, <1>2, <1>9 DEF ReadMachine, vars
  <2>2. ~Harmful(p) BY <1>1, <1>2, <1>5, <1>9 DEF ReadMachine, vars, Harmful
  <2>3. /\ proc'[p].answer = None
        /\ proc'[p].pc \notin {"writeMachine", "writeToken"}
    BY <1>1, <1>2, <1>5, <1>9 DEF ReadMachine, vars, At, Processes
  <2>. QED BY <1>4, <2>1, <2>2, <2>3, Quiet
<1>10. ASSUME NEW p \in Procs, ReadToken(p) PROVE Identity'
  <2>1. /\ UNCHANGED <<file, endpoints>> /\ clean
        /\ \A q \in Procs \ {p} : proc'[q] = proc[q]
    BY <1>1, <1>2, <1>10 DEF ReadToken, vars
  <2>2. ~Harmful(p) BY <1>1, <1>2, <1>5, <1>10 DEF ReadToken, vars, Harmful
  <2>3. /\ proc'[p].answer = None
        /\ proc'[p].pc \notin {"writeMachine", "writeToken"}
    BY <1>1, <1>2, <1>5, <1>10 DEF ReadToken, vars, At, Processes
  <2>. QED BY <1>4, <2>1, <2>2, <2>3, Quiet
<1>11. ASSUME NEW p \in Procs, Serve(p) PROVE Identity'
  <2>. DEFINE m == proc[p].machine
  <2>1. /\ proc[p].pc = "post" /\ proc[p].answer = None /\ ~Harmful(p)
        /\ m # None /\ file' = file /\ clean
    BY <1>1, <1>5, <1>11 DEF Serve, Locals, Enrolling
  <2>2. Identity BY <1>4, <2>1
  <2>3. CASE m \in DOMAIN endpoints /\ endpoints[m] # proc[p].token
    <3>1. /\ endpoints' = endpoints
          /\ proc' = [proc EXCEPT ![p].pc = "answer", ![p].answer = None]
      BY <1>11, <2>3 DEF Serve
    <3>2. /\ \A q \in Procs \ {p} : proc'[q] = proc[q]
          /\ proc'[p].pc = "answer" /\ proc'[p].answer = None
      BY <1>1, <3>1 DEF Processes
    <3>. QED BY <2>1, <2>2, <3>1, <3>2, Quiet
  <2>4. CASE m \in DOMAIN endpoints /\ endpoints[m] = proc[p].token
    <3>1. /\ endpoints' = endpoints
          /\ proc' = [proc EXCEPT ![p].pc = "answer", ![p].answer = endpoints[m]]
      BY <1>11, <2>4 DEF Serve
    <3>2. /\ \A q \in Procs \ {p} : proc'[q] = proc[q]
          /\ proc'[p].pc = "answer" /\ proc'[p].answer = endpoints[m]
          /\ proc'[p].machine = m
      BY <1>1, <3>1 DEF Processes
    <3>3. \A q \in Procs : Harmful(q) => Harmful(q)'
      BY <2>1, <3>2 DEF Harmful
    <3>4. Single' /\ Covered' BY <2>1, <2>2, <3>1, <3>3 DEF Identity, Single, Covered
    <3>5. Told(p)' BY <2>2, <2>4, <3>1, <3>2 DEF Identity, Single, Told
    <3>6. \A q \in Procs \ {p} : Told(q)' BY <2>2, <3>1, <3>2 DEF Identity, Told
    <3>7. \A q \in Procs : proc[q].pc = "writeMachine" => proc'[q].pc = "writeMachine"
      BY <2>1, <3>2
    <3>8. \A q \in Procs : Written(q)'
      BY <2>1, <2>2, <3>1, <3>2, <3>7 DEF Identity, Written
    <3>. QED BY <3>4, <3>5, <3>6, <3>8 DEF Identity
  <2>5. CASE m \notin DOMAIN endpoints
    <3>1. PICK t \in NewTokens :
            /\ endpoints' = [n \in DOMAIN endpoints \cup {m} |->
                               IF n = m THEN t ELSE endpoints[n]]
            /\ proc' = [proc EXCEPT ![p].pc = "answer", ![p].answer = t]
            /\ ~Forks(p)
      BY <1>11, <2>5 DEF Serve
    <3>2. /\ \A q \in Procs \ {p} : proc'[q] = proc[q]
          /\ proc'[p].pc = "answer" /\ proc'[p].answer = t
          /\ proc'[p].machine = m /\ proc'[p].token = proc[p].token
      BY <1>1, <3>1 DEF Processes
    <3>3. t # None /\ t # proc[p].token
      BY <1>3 DEF NewTokens
    <3>4. \A q \in Procs : proc[q].answer = None BY <2>1, <3>1 DEF Forks
    <3>5. \A q \in Procs : ~Harmful(q) BY <1>1, <3>4 DEF Harmful, Locals
    <3>6. DOMAIN endpoints = {}
      <4>1. SUFFICES ASSUME NEW n \in DOMAIN endpoints PROVE FALSE OBVIOUS
      <4>2. file.machine = n BY <2>2, <3>5 DEF Identity, Covered
      <4>3. file.machine \in {None, m} BY <1>1, <2>1, <3>1 DEF Timely, Forks
      <4>4. n # None BY <1>1, <1>3 DEF TypeOK
      <4>. QED BY <2>5, <4>2, <4>3, <4>4
    <3>7. DOMAIN endpoints' = {m} /\ endpoints'[m] = t BY <3>1, <3>6
    <3>8. Single' BY <3>7 DEF Single
    <3>9. Harmful(p)' BY <3>2, <3>3 DEF Harmful
    <3>10. Covered' BY <3>9 DEF Covered
    <3>11. \A q \in Procs : Told(q)' BY <3>2, <3>4, <3>7 DEF Told
    <3>12. \A q \in Procs : proc'[q].pc # "writeToken"
      BY <1>1, <3>2, <3>4 DEF Locals
    <3>13. \A q \in Procs : Written(q)' BY <3>12 DEF Written
    <3>. QED BY <3>8, <3>10, <3>11, <3>13 DEF Identity
  <2>. QED BY <2>3, <2>4, <2>5
<1>12. ASSUME NEW p \in Procs, Refused(p) PROVE Identity'
  <2>1. /\ UNCHANGED <<file, endpoints>> /\ clean
        /\ \A q \in Procs \ {p} : proc'[q] = proc[q]
    BY <1>1, <1>2, <1>12 DEF Refused, Fail
  <2>2. ~Harmful(p) BY <1>1, <1>2, <1>5, <1>12 DEF Refused, Fail, Harmful
  <2>3. /\ proc'[p].answer = None
        /\ proc'[p].pc \notin {"writeMachine", "writeToken"}
    BY <1>1, <1>2, <1>5, <1>12 DEF Refused, Fail, At, Processes
  <2>. QED BY <1>4, <2>1, <2>2, <2>3, Quiet
<1>13. ASSUME NEW p \in Procs, Answered(p) PROVE Identity'
  <2>1. /\ proc[p].pc = "answer" /\ UNCHANGED <<endpoints, file>> /\ clean
        /\ \A q \in Procs \ {p} : proc'[q] = proc[q]
    BY <1>1, <1>13 DEF Answered
  <2>2. /\ proc'[p].pc = "truncate" /\ proc'[p].machine = proc[p].machine
        /\ proc'[p].answer = proc[p].answer /\ proc'[p].token = proc[p].token
    BY <1>1, <1>13 DEF Answered, Processes
  <2>3. Identity BY <1>4, <2>1
  <2>4. \A q \in Procs : /\ Harmful(q) => Harmful(q)'
                         /\ proc[q].pc = "writeMachine" => proc'[q].pc = "writeMachine"
    BY <2>1, <2>2 DEF Harmful
  <2>5. Single' /\ Covered' BY <2>1, <2>3, <2>4 DEF Identity, Single, Covered
  <2>6. \A q \in Procs : Told(q)' BY <2>1, <2>2, <2>3 DEF Identity, Told
  <2>7. \A q \in Procs : Written(q)' BY <2>1, <2>2, <2>3, <2>4 DEF Identity, Written
  <2>. QED BY <2>5, <2>6, <2>7 DEF Identity
<1>14. ASSUME NEW p \in Procs, Truncate(p) PROVE Identity'
  <2>1. /\ proc[p].pc = "truncate" /\ UNCHANGED endpoints /\ clean
        /\ \A q \in Procs \ {p} : proc'[q] = proc[q]
        /\ file'.machine = None
    BY <1>1, <1>14 DEF Truncate
  <2>2. /\ proc'[p].pc = "writeMachine" /\ proc'[p].machine = proc[p].machine
        /\ proc'[p].answer = proc[p].answer
    BY <1>1, <1>14 DEF Truncate, Processes
  <2>3. Identity BY <1>4, <2>1
  <2>4. Harmful(p)' BY <2>2 DEF Harmful
  <2>5. Single' /\ Covered' BY <2>1, <2>3, <2>4 DEF Identity, Single, Covered
  <2>6. \A q \in Procs : Told(q)' BY <2>1, <2>2, <2>3 DEF Identity, Told
  <2>7. \A q \in Procs : Written(q)' BY <2>1, <2>2 DEF Written
  <2>. QED BY <2>5, <2>6, <2>7 DEF Identity
<1>15. ASSUME NEW p \in Procs, WriteMachine(p) PROVE Identity'
  <2>1. /\ proc[p].pc = "writeMachine" /\ UNCHANGED endpoints /\ clean
        /\ file'.machine = proc[p].machine
    BY <1>1, <1>15 DEF WriteMachine, TypeOK, Files
  <2>2. /\ proc'[p].pc = "writeToken"
        /\ \A q \in Procs : /\ proc'[q].machine = proc[q].machine
                            /\ proc'[q].answer = proc[q].answer
                            /\ q # p => proc'[q].pc = proc[q].pc
    <3>1. /\ proc'[p] = [proc[p] EXCEPT !.pc = "writeToken"]
          /\ \A q \in Procs \ {p} : proc'[q] = [proc[q] EXCEPT
                !.late = @ \/ proc[q].machine \notin {None, proc[p].machine}]
      BY <1>15 DEF WriteMachine
    <3>2. \A q \in Procs : proc[q] \in Processes BY <1>1
    <3>3. ASSUME NEW q \in Procs \ {p}
          PROVE  /\ proc'[q].machine = proc[q].machine /\ proc'[q].pc = proc[q].pc
                 /\ proc'[q].answer = proc[q].answer
      BY <3>1, <3>2 DEF Processes
    <3>4. /\ proc'[p].pc = "writeToken" /\ proc'[p].machine = proc[p].machine
          /\ proc'[p].answer = proc[p].answer
      BY <3>1, <3>2 DEF Processes
    <3>. QED BY <3>3, <3>4
  <2>3. Identity /\ proc[p].answer # None BY <1>1, <1>4, <2>1 DEF Locals
  <2>4. Harmful(p)' BY <2>2 DEF Harmful
  <2>5. Single' /\ Covered' BY <2>1, <2>3, <2>4 DEF Identity, Single, Covered
  <2>6. \A q \in Procs : Told(q)' BY <2>1, <2>2, <2>3 DEF Identity, Told
  <2>7. ASSUME NEW q \in Procs PROVE Written(q)'
    <3>1. CASE q = p BY <2>1, <2>2, <3>1 DEF Written
    <3>2. CASE q # p /\ proc[q].pc = "writeToken" /\ DOMAIN endpoints # {}
      <4>1. proc[q].answer # None BY <1>1, <3>2 DEF Locals
      <4>2. proc[q].machine = proc[p].machine
        BY <2>3, <3>2, <4>1 DEF Identity, Told
      <4>. QED BY <2>1, <2>2, <4>2 DEF Written
    <3>. QED BY <2>1, <2>2, <3>1, <3>2 DEF Written
  <2>. QED BY <2>5, <2>6, <2>7 DEF Identity
<1>16. ASSUME NEW p \in Procs, WriteToken(p) PROVE Identity'
  <2>1. /\ proc[p].pc = "writeToken" /\ UNCHANGED endpoints /\ clean
        /\ \A q \in Procs \ {p} : proc'[q] = proc[q]
        /\ file'.machine = file.machine
        /\ file' = [machine |-> file.machine, token |-> proc[p].answer]
    BY <1>1, <1>16 DEF WriteToken, TypeOK, Files
  <2>2. proc'[p].answer = None /\ proc'[p].pc \in {"off", "run"}
    BY <1>1, <1>16 DEF WriteToken, At
  <2>3. Identity /\ proc[p].answer # None BY <1>1, <1>4, <2>1 DEF Locals
  <2>4. Single' BY <2>1, <2>3 DEF Identity, Single
  <2>5. \A q \in Procs : Told(q)' BY <2>1, <2>2, <2>3 DEF Identity, Told
  <2>6. \A q \in Procs : proc[q].pc = "writeMachine" => proc'[q].pc = "writeMachine"
    BY <2>1
  <2>7. \A q \in Procs : Written(q)'
    BY <2>1, <2>2, <2>3, <2>6 DEF Identity, Written
  <2>8. Covered'
    <3>. SUFFICES ASSUME NEW m \in DOMAIN endpoints,
                         \A q \in Procs : ~Harmful(q)'
                  PROVE  file' = [machine |-> m, token |-> endpoints[m]]
      BY <2>1 DEF Covered
    <3>1. \A q \in Procs : proc[q].pc # "writeMachine"
      BY <2>1, <2>6 DEF Harmful
    <3>2. file.machine = proc[p].machine
      BY <2>1, <2>3, <3>1 DEF Identity, Written
    <3>3. m = proc[p].machine /\ endpoints[m] = proc[p].answer
      BY <2>3 DEF Identity, Told
    <3>. QED BY <2>1, <3>2, <3>3
  <2>. QED BY <2>4, <2>5, <2>7, <2>8 DEF Identity
<1>17. ASSUME Fork PROVE Identity'
  <2>1. /\ UNCHANGED <<file, endpoints>> /\ clean
        /\ \A q \in Procs \ {Watcher} : proc'[q] = proc[q]
    BY <1>1, <1>2, <1>17 DEF Fork, vars
  <2>2. ~Harmful(Watcher) BY <1>1, <1>2, <1>5, <1>17 DEF Fork, vars, Harmful
  <2>3. /\ proc'[Watcher].answer = None
        /\ proc'[Watcher].pc \notin {"writeMachine", "writeToken"}
    BY <1>1, <1>2, <1>5, <1>17 DEF Fork, vars, At, Processes
  <2>. QED BY <1>4, <2>1, <2>2, <2>3, Quiet
<1>18. ASSUME ResyncMain PROVE Identity'
  <2>1. /\ UNCHANGED <<file, endpoints>> /\ clean
        /\ \A q \in Procs \ {Main} : proc'[q] = proc[q]
    BY <1>1, <1>2, <1>18 DEF ResyncMain, Begin
  <2>2. ~Harmful(Main) BY <1>1, <1>2, <1>5, <1>18 DEF ResyncMain, Begin, Harmful
  <2>3. /\ proc'[Main].answer = None
        /\ proc'[Main].pc \notin {"writeMachine", "writeToken"}
    BY <1>1, <1>2, <1>5, <1>18 DEF ResyncMain, Begin, At, Processes
  <2>. QED BY <1>4, <2>1, <2>2, <2>3, Quiet
<1>19. ASSUME ResyncWatcher PROVE Identity'
  <2>1. /\ UNCHANGED <<file, endpoints>> /\ clean
        /\ \A q \in Procs \ {Watcher} : proc'[q] = proc[q]
    BY <1>1, <1>2, <1>19 DEF ResyncWatcher, Begin
  <2>2. ~Harmful(Watcher) BY <1>1, <1>2, <1>5, <1>19 DEF ResyncWatcher, Begin, Harmful
  <2>3. /\ proc'[Watcher].answer = None
        /\ proc'[Watcher].pc \notin {"writeMachine", "writeToken"}
    BY <1>1, <1>2, <1>5, <1>19 DEF ResyncWatcher, Begin, At, Processes
  <2>. QED BY <1>4, <2>1, <2>2, <2>3, Quiet
<1>20. ASSUME NEW gone \in SUBSET DOMAIN endpoints, Remove(gone) PROVE Identity'
  <2>1. /\ UNCHANGED <<file, proc, clean>>
        /\ DOMAIN endpoints' \subseteq DOMAIN endpoints
        /\ \A m \in DOMAIN endpoints' : endpoints'[m] = endpoints[m]
    BY <1>20 DEF Remove
  <2>. QED BY <1>4, <2>1, Quiet
<1>21. CASE UNCHANGED vars
  BY <1>4, <1>21, Quiet DEF vars
<1>. QED BY <1>6, <1>7, <1>8, <1>9, <1>10, <1>11, <1>12, <1>13, <1>14, <1>15,
          <1>16, <1>17, <1>18, <1>19, <1>20, <1>21 DEF Next, EnrollStep

-----------------------------------------------------------------------------
\* The invariant.

LEMMA IndInvInit == Init => IndInv
<1>. SUFFICES ASSUME Init PROVE IndInv OBVIOUS
<1>1. TypeOK BY TypeInit
<1>2. DOMAIN endpoints = {} BY DEF Init
<1>3. \A p \in Procs : proc[p] = At("off", None) BY DEF Init
<1>. QED BY <1>1, <1>2, <1>3
         DEF IndInv, Identity, Single, Covered, Told, Written, Locals, Timely, At,
             Enrolling

LEMMA IndInvStep == IndInv /\ [Next]_vars => IndInv'
BY StateTypes, LocalStep, IdentityStep DEF IndInv

\* The invariant holds in every reachable state.
THEOREM Inductive == Spec => []IndInv
BY IndInvInit, IndInvStep, PTL DEF Spec

\* The types of the table, the state file and the processes.
THEOREM TypeCorrect == Spec => []TypeOK
<1>1. IndInv => TypeOK BY DEF IndInv
<1>. QED BY <1>1, Inductive, PTL

\* A host whose enrollments were never stopped at a harmful moment is never
\* locked out, whatever is reset, removed, restarted or lost.
THEOREM Recoverable == Spec => []RecoverableIfClean
<1>1. IndInv => RecoverableIfClean
  <2>. SUFFICES ASSUME IndInv, clean, file.machine \in DOMAIN endpoints,
                       endpoints[file.machine] # SavedToken,
                       \A p \in Procs : ~Busy(p)
                PROVE  FALSE
    BY DEF RecoverableIfClean, LockedOut
  <2>1. \A p \in Procs : ~Harmful(p) BY DEF Busy, Harmful, Enrolling
  <2>2. file.token = endpoints[file.machine]
    BY <2>1 DEF IndInv, Identity, Single, Covered
  <2>3. file.machine # None BY EnrollmentAssumption DEF IndInv, TypeOK
  <2>. QED BY <2>2, <2>3 DEF SavedToken
<1>. QED BY <1>1, Inductive, PTL

\* Whoever enrolls a host, it is one endpoint.
THEOREM OneEndpoint == Spec => []OneEndpointIfClean
<1>1. IndInv => OneEndpointIfClean
  <2>. SUFFICES ASSUME IndInv, clean PROVE Cardinality(DOMAIN endpoints) <= 1
    BY DEF OneEndpointIfClean
  <2>1. CASE DOMAIN endpoints = {} BY <2>1, FS_EmptySet
  <2>2. ASSUME NEW m \in DOMAIN endpoints
        PROVE  Cardinality(DOMAIN endpoints) <= 1
    <3>1. DOMAIN endpoints = {m} BY DEF IndInv, Identity, Single
    <3>2. Cardinality({m}) = 1 BY FS_Singleton
    <3>3. Cardinality(DOMAIN endpoints) = 1 BY <3>1, <3>2
    <3>. QED BY <3>3
  <2>. QED BY <2>1, <2>2
<1>. QED BY <1>1, Inductive, PTL

=============================================================================
