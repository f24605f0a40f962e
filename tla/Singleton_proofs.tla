-------------------------- MODULE Singleton_proofs --------------------------
(***************************************************************************)
(* Why the lock excludes a second agent as long as starts do not overlap:  *)
(* only an acquiring process takes or removes the lock of another, there   *)
(* is one, and between its judgement that the holder is dead and the end   *)
(* of its rm -rf nobody can become a holder.  And why, overlapping or not, *)
(* a start leaves alone the lock of whoever held it when it looked: that   *)
(* holder's pid is in the file by the second cat, if it ever will be.      *)
(***************************************************************************)
EXTENDS Singleton, TLAPS

\* The types, with the bound on the attempts of a starting agent.
Typed == TypeOK /\ TriesLeft

\* Every command keeps the types.
LEMMA TypeStep == Typed /\ [Next]_vars => Typed'
<1>. SUFFICES ASSUME Typed, [Next]_vars PROVE Typed' OBVIOUS
<1>. USE DEF Typed, TriesLeft, TypeOK, Goto, Exit, Settled, Forget, Lock, Locals, Agent,
             Acquiring, Holding
<1>1. ASSUME NEW p \in Pids, Start(p) PROVE Typed'
  BY <1>1 DEF Start
<1>2. ASSUME NEW p \in Pids, Command(p) PROVE Typed'
  <2>1. CASE Mkdir(p) BY <1>2, <2>1 DEF Command, Mkdir
  <2>2. CASE WritePid(p) BY <1>2, <2>2 DEF Command, WritePid
  <2>3. CASE ReadPid(p) BY <1>2, <2>3 DEF Command, ReadPid, Owners
  <2>4. CASE RereadPid(p) BY <1>2, <2>4 DEF Command, RereadPid
  <2>5. CASE CheckHolder(p) BY <1>2, <2>5 DEF Command, CheckHolder
  <2>6. CASE Register(p) BY <1>2, <2>6 DEF Command, Register
  <2>7. CASE Unlink(p) BY <1>2, <2>7 DEF Command, Unlink
  <2>8. CASE Rmdir(p)
    <3>1. CASE file # None BY <1>2, <2>8, <3>1 DEF Command, Rmdir
    <3>2. CASE file = None
      <4>1. tries[p] + 1 \in 0..3 BY <2>8 DEF Rmdir
      <4>2. tries' \in [Pids -> 0..3] BY <2>8, <3>2, <4>1 DEF Rmdir
      <4>3. /\ pc' \in [Pids -> Agent \cup {"none"}]
            /\ \A q \in Pids : /\ pc'[q] \in {"unlink", "rmdir"} => q # p
                              /\ q # p => pc'[q] = pc[q] /\ tries'[q] = tries[q]
        BY <2>8, <3>2 DEF Rmdir
      <4>. QED BY <1>2, <2>8, <3>2, <4>2, <4>3 DEF Command, Rmdir
    <3>. QED BY <3>1, <3>2
  <2>9. CASE Release(p) BY <1>2, <2>9 DEF Command, Release
  <2>10. CASE Drop(p) BY <1>2, <2>10 DEF Command, Drop
  <2>11. CASE DropDir(p) BY <1>2, <2>11 DEF Command, DropDir
  <2>. QED BY <1>2, <2>1, <2>2, <2>3, <2>4, <2>5, <2>6, <2>7, <2>8, <2>9,
              <2>10, <2>11 DEF Command
<1>3. ASSUME NEW p \in Pids, Stop(p) \/ Kill(p), UNCHANGED overlap PROVE Typed'
  BY <1>3 DEF Stop, Kill
<1>4. CASE UNCHANGED vars BY <1>4 DEF vars
<1>. QED BY <1>1, <1>2, <1>3, <1>4 DEF Next

\* What the lock promises while starts do not overlap.
Locked == RunningOwnsLock /\ StaleOnlyIfUnheld /\ OneStart

\* Every command keeps it, unless a start overlaps another.
LEMMA LockStep ==
  ASSUME TypeOK, ~overlap, Locked, Next
  PROVE  ~overlap' => Locked'
<1>. SUFFICES ASSUME ~overlap' PROVE Locked' OBVIOUS
<1>0. /\ pc \in [Pids -> Agent \cup {"none"}]
      /\ oldpid \in [Pids -> Pids \cup {None}]
  BY DEF TypeOK
<1>. USE DEF Goto, Exit, Settled, Lock, Locals, Acquiring, Holding, Locked,
             RunningOwnsLock, StaleOnlyIfUnheld, OneStart
<1>1. ASSUME NEW p \in Pids, Start(p) PROVE Locked'
  BY <1>0, <1>1 DEF Start
<1>2. ASSUME NEW p \in Pids, Command(p) PROVE Locked'
  <2>1. CASE Mkdir(p) BY <1>0, <2>1 DEF Mkdir
  <2>2. CASE WritePid(p) BY <1>0, <2>2 DEF WritePid
  <2>3. CASE ReadPid(p) BY <1>0, <2>3, NoneAssumption DEF ReadPid
  <2>4. CASE RereadPid(p) BY <1>0, <2>4 DEF RereadPid
  <2>5. CASE CheckHolder(p)
    BY <1>0, <2>5, NoneAssumption DEF CheckHolder, Alive, Agent
  <2>6. CASE Register(p) BY <1>0, <2>6 DEF Register
  <2>7. CASE Unlink(p) BY <1>0, <2>7 DEF Unlink
  <2>8. CASE Rmdir(p) BY <1>0, <2>8 DEF Rmdir
  <2>9. CASE Release(p) BY <1>0, <2>9 DEF Release
  <2>10. CASE Drop(p) BY <1>0, <2>10 DEF Drop
  <2>11. CASE DropDir(p) BY <1>0, <2>11, NoneAssumption DEF DropDir
  <2>. QED BY <1>2, <2>1, <2>2, <2>3, <2>4, <2>5, <2>6, <2>7, <2>8, <2>9,
              <2>10, <2>11 DEF Command
<1>3. ASSUME NEW p \in Pids, Stop(p) \/ Kill(p) PROVE Locked'
  BY <1>0, <1>3 DEF Stop, Kill
<1>. QED BY <1>1, <1>2, <1>3 DEF Next

\* Every command keeps what the starts know of the owners, overlap or not.
LEMMA OwnerStep == TypeOK /\ OwnerKnown /\ Next => OwnerKnown'
<1>. SUFFICES ASSUME TypeOK, OwnerKnown, Next PROVE OwnerKnown' OBVIOUS
<1>0. /\ pc \in [Pids -> Agent \cup {"none"}]
      /\ oldpid \in [Pids -> Pids \cup {None}]
      /\ winners \in [Pids -> SUBSET Pids]
      /\ owner \in [Pids -> SUBSET Pids]
      /\ file \in Pids \cup {None}
  BY DEF TypeOK
<1>. USE DEF Goto, Exit, Settled, Forget, Lock, Locals, Holding, OwnerKnown
<1>1. ASSUME NEW p \in Pids, Start(p) PROVE OwnerKnown'
  BY <1>0, <1>1 DEF Start
<1>2. ASSUME NEW p \in Pids, Command(p) PROVE OwnerKnown'
  <2>1. CASE Mkdir(p) BY <1>0, <2>1 DEF Mkdir
  <2>2. CASE WritePid(p) BY <1>0, <2>2 DEF WritePid
  <2>3. CASE ReadPid(p) BY <1>0, <2>3, NoneAssumption DEF ReadPid, Owners
  <2>4. CASE RereadPid(p) BY <1>0, <2>4 DEF RereadPid
  <2>5. CASE CheckHolder(p)
    BY <1>0, <2>5, NoneAssumption DEF CheckHolder, Alive, Agent
  <2>6. CASE Register(p) BY <1>0, <2>6 DEF Register
  <2>7. CASE Unlink(p) BY <1>0, <2>7, NoneAssumption DEF Unlink
  <2>8. CASE Rmdir(p) BY <1>0, <2>8 DEF Rmdir
  <2>9. CASE Release(p) BY <1>0, <2>9 DEF Release
  <2>10. CASE Drop(p) BY <1>0, <2>10, NoneAssumption DEF Drop
  <2>11. CASE DropDir(p) BY <1>0, <2>11 DEF DropDir
  <2>. QED BY <1>2, <2>1, <2>2, <2>3, <2>4, <2>5, <2>6, <2>7, <2>8, <2>9,
              <2>10, <2>11 DEF Command
<1>3. ASSUME NEW p \in Pids, Stop(p) \/ Kill(p) PROVE OwnerKnown'
  BY <1>0, <1>3 DEF Stop, Kill
<1>. QED BY <1>1, <1>2, <1>3 DEF Next

\* Once starts have overlapped, they have.
LEMMA OverlapStays == Next /\ overlap => overlap'
BY DEF Next, Start, Command

\* No agent runs and no lock exists at first.
LEMMA IndInvInit == Init => IndInv
<1>. SUFFICES ASSUME Init PROVE IndInv OBVIOUS
<1>1. TypeOK
  <2>1. pc \in [Pids -> Agent \cup {"none"}] BY DEF Init
  <2>2. oldpid \in [Pids -> Pids \cup {None}] BY DEF Init
  <2>3. tries \in [Pids -> 0..3] BY DEF Init
  <2>4. winners \in [Pids -> SUBSET Pids] BY DEF Init
  <2>5. owner \in [Pids -> SUBSET Pids] BY DEF Init
  <2>. QED BY <2>1, <2>2, <2>3, <2>4, <2>5 DEF Init, TypeOK
<1>2. TriesLeft /\ OwnerKnown BY DEF Init, TriesLeft, OwnerKnown
<1>3. RunningOwnsLock /\ StaleOnlyIfUnheld
  BY DEF Init, RunningOwnsLock, StaleOnlyIfUnheld, Holding
<1>4. OneStart BY DEF Init, OneStart, Acquiring
<1>. QED BY <1>1, <1>2, <1>3, <1>4 DEF IndInv

\* Every step preserves the invariant.
LEMMA IndInvStep == IndInv /\ [Next]_vars => IndInv'
<1>. SUFFICES ASSUME IndInv, [Next]_vars PROVE IndInv' OBVIOUS
<1>1. TypeOK' /\ TriesLeft' BY TypeStep DEF IndInv, Typed
<1>4. OwnerKnown'
  <2>1. CASE Next BY <2>1, OwnerStep DEF IndInv
  <2>2. CASE UNCHANGED vars BY <2>2 DEF vars, IndInv, OwnerKnown, Holding
  <2>. QED BY <2>1, <2>2
<1>2. CASE Next
  <2>1. ~overlap' => Locked'
    BY <1>2, LockStep, OverlapStays DEF IndInv, Locked
  <2>. QED BY <1>1, <1>4, <2>1 DEF IndInv, Locked, RunningOwnsLock
<1>3. CASE UNCHANGED vars
  BY <1>1, <1>3, <1>4 DEF vars, IndInv, RunningOwnsLock, StaleOnlyIfUnheld, OneStart
<1>. QED BY <1>2, <1>3

\* The inductive invariant holds of every reachable state, for any set of pids.
THEOREM Inductive == Spec => []IndInv
BY IndInvInit, IndInvStep, PTL DEF Spec

\* The types of the lock and of the processes.
THEOREM TypeCorrect == Spec => []TypeOK
<1>1. IndInv => TypeOK BY DEF IndInv
<1>. QED BY <1>1, Inductive, PTL

\* As long as starts do not overlap, a running agent's pid is in the lock.
THEOREM OwnsLock == Spec => []RunningOwnsLock
<1>1. IndInv => RunningOwnsLock BY DEF IndInv
<1>. QED BY <1>1, Inductive, PTL

\* As long as starts do not overlap, one agent runs per install location.
THEOREM MutualExclusion == Spec => []OneAgentIfSerial
<1>1. IndInv => OneAgentIfSerial
  BY DEF IndInv, RunningOwnsLock, OneAgentIfSerial
<1>. QED BY <1>1, Inductive, PTL

\* The removal of a stale lock never takes it from whoever held it when the
\* start looked, however the starts overlap.
THEOREM Reclaims == Spec => NoEviction
<1>1. IndInv /\ [Next]_vars =>
        [\A p, q \in Pids :
           pc[p] = "unlink" /\ pc'[p] = "rmdir" /\ q \in owner[p] /\ pc[q] \in Holding
           => file # q]_vars
  BY DEF IndInv, OwnerKnown
<1>. QED BY <1>1, Inductive, PTL DEF Spec, NoEviction
=============================================================================
