----------------------------- MODULE Singleton -----------------------------
(***************************************************************************)
(* The agent's singleton lock (agent/thumper_agent.sh, acquire_singleton   *)
(* and release_singleton): a directory made with an atomic mkdir, with the *)
(* holder's pid written into it by a second command and removed by an      *)
(* `rm -rf', which is itself an unlink and an rmdir.                       *)
(*                                                                         *)
(* Every shell command is a step of its own, because another run of the    *)
(* install command (MDM re-push, reboot, manual paste) may act between any *)
(* two of them.  The script runs under `set -e': a printf into a directory *)
(* that is gone, or an rm that cannot rmdir, ends it.  A process is named  *)
(* by its pid, which another agent may be given once the process is dead;  *)
(* "none" is a pid that is free or a foreign process's, which the lock     *)
(* does not tell apart.  SIGKILL, power loss, and a signal that arrives    *)
(* before the traps are set all end a process without a release.           *)
(***************************************************************************)
EXTENDS Naturals, FiniteSets

CONSTANTS Pids,  \* pids the host may hand out
          None

ASSUME NoneAssumption == None \notin Pids

VARIABLES dir,      \* whether agent.lock exists
          file,     \* the pid in agent.lock/pid
          pc,       \* the command each process is about to run
          oldpid,   \* the shell variables $oldpid and $n
          tries,
          winners,  \* holders that were writing their pid when a pause began
          owner,    \* history: who held the lock when p last looked at it
          overlap   \* history: two starts have been acquiring at once

vars == <<dir, file, pc, oldpid, tries, winners, owner, overlap>>

Acquiring == {"mkdir", "write", "read", "pause", "check", "register", "unlink",
              "rmdir", "last"}
Holding == {"running", "release", "drop"}
Agent == Acquiring \cup Holding \cup {"dropdir"}

TypeOK ==
  /\ dir \in BOOLEAN
  /\ file \in Pids \cup {None}
  /\ pc \in [Pids -> Agent \cup {"none"}]
  /\ oldpid \in [Pids -> Pids \cup {None}]
  /\ tries \in [Pids -> 0..3]
  /\ winners \in [Pids -> SUBSET Pids]
  /\ owner \in [Pids -> SUBSET Pids]
  /\ overlap \in BOOLEAN

Init ==
  /\ dir = FALSE
  /\ file = None
  /\ pc = [p \in Pids |-> "none"]
  /\ oldpid = [p \in Pids |-> None]
  /\ tries = [p \in Pids |-> 0]
  /\ winners = [p \in Pids |-> {}]
  /\ owner = [p \in Pids |-> {}]
  /\ overlap = FALSE

Goto(p, l) == pc' = [pc EXCEPT ![p] = l]

\* p is no longer between its mkdir and its write.
Settled(p) == winners' = [q \in Pids |-> winners[q] \ {p}]

\* The process is gone, and so are its variables.
Exit(p) ==
  /\ Goto(p, "none")
  /\ oldpid' = [oldpid EXCEPT ![p] = None]
  /\ tries' = [tries EXCEPT ![p] = 0]
  /\ winners' = [q \in Pids |-> IF q = p THEN {} ELSE winners[q] \ {p}]
  /\ owner' = [q \in Pids |-> IF q = p THEN {} ELSE owner[q] \ {p}]

\* p is done with what it saw of the lock.
Forget(p) == owner' = [owner EXCEPT ![p] = {}]

Locals == <<oldpid, tries, winners, owner>>
Lock == <<dir, file>>

-----------------------------------------------------------------------------
\* acquire_singleton

Start(p) ==
  /\ pc[p] = "none"
  /\ Goto(p, "mkdir")
  /\ overlap' = (overlap \/ \E q \in Pids : pc[q] \in Acquiring)
  /\ UNCHANGED <<Lock, Locals>>

\* Atomic: exactly one winner.
Mkdir(p) ==
  /\ pc[p] = "mkdir"
  /\ \/ ~dir /\ dir' = TRUE /\ Goto(p, "write")
     \/ dir /\ UNCHANGED dir /\ Goto(p, "read")
  /\ UNCHANGED <<file, Locals>>

WritePid(p) ==
  /\ pc[p] = "write"
  /\ \/ /\ dir /\ file' = p
        /\ Goto(p, "running")
        /\ Settled(p)
        /\ UNCHANGED <<dir, oldpid, tries, owner>>
     \/ ~dir /\ Exit(p) /\ UNCHANGED Lock

\* Whose lock it is: that of the running agent it names or, when it names
\* nobody, that of a start which is about to write its pid into it.
Owners == IF file = None THEN {q \in Pids : pc[q] = "write"}
          ELSE {q \in {file} : pc[q] \in Holding}

\* lock_holder_alive, the first cat of the pid file.
ReadPid(p) ==
  /\ pc[p] \in {"read", "last"}
  /\ oldpid' = [oldpid EXCEPT ![p] = file]
  /\ owner' = [owner EXCEPT ![p] = Owners]
  /\ IF file = None
     THEN /\ Goto(p, "pause")
          /\ winners' = [winners EXCEPT ![p] = {q \in Pids : pc[q] = "write"}]
     ELSE Goto(p, "check") /\ UNCHANGED winners
  /\ UNCHANGED <<Lock, tries>>

\* Mutant of RereadPid: an empty lock is waited for until its pid appears.
RereadPidForever(p) ==
  /\ pc[p] = "pause"
  /\ oldpid' = [oldpid EXCEPT ![p] = file]
  /\ IF file = None THEN Goto(p, "read") ELSE Goto(p, "check")
  /\ winners' = [winners EXCEPT ![p] = {}]
  /\ UNCHANGED <<Lock, tries, owner>>

\* Mutant of RereadPid: the second cat follows at once.
RereadPidAtOnce(p) ==
  /\ pc[p] = "pause"
  /\ oldpid' = [oldpid EXCEPT ![p] = file]
  /\ winners' = [winners EXCEPT ![p] = {}]
  /\ Goto(p, "check")
  /\ UNCHANGED <<Lock, tries, owner>>

\* The second cat, a second later: long enough for a holder that was between
\* its mkdir and its write to have written.
RereadPid(p) ==
  /\ pc[p] = "pause"
  /\ winners[p] = {}
  /\ oldpid' = [oldpid EXCEPT ![p] = file]
  /\ Goto(p, "check")
  /\ UNCHANGED <<Lock, tries, winners, owner>>

\* kill -0 and ps: the pid belongs to a running thumper_agent.
Alive(q) == q # None /\ pc[q] \in Agent

CheckHolder(p) ==
  /\ pc[p] = "check"
  /\ \/ /\ Alive(oldpid[p])
        /\ Goto(p, "register")
        /\ Forget(p)
        /\ UNCHANGED <<oldpid, tries, winners>>
     \/ /\ ~Alive(oldpid[p]) /\ tries[p] < 3
        /\ Goto(p, "unlink")
        /\ oldpid' = [oldpid EXCEPT ![p] = None]
        /\ UNCHANGED <<tries, winners, owner>>
     \/ ~Alive(oldpid[p]) /\ tries[p] = 3 /\ Exit(p)
  /\ UNCHANGED Lock

\* register_with_running_agent: enroll and leave.
Register(p) ==
  /\ pc[p] = "register"
  /\ Exit(p)
  /\ UNCHANGED Lock

\* rm -rf "$LOCK_DIR" on a lock taken for stale.
Unlink(p) ==
  /\ pc[p] = "unlink"
  /\ file' = None
  /\ Goto(p, "rmdir")
  /\ Forget(p)
  /\ UNCHANGED <<dir, oldpid, tries, winners>>

Rmdir(p) ==
  /\ pc[p] = "rmdir"
  /\ \/ /\ file = None
        /\ dir' = FALSE
        /\ tries' = [tries EXCEPT ![p] = @ + 1]
        /\ Goto(p, IF tries[p] < 2 THEN "mkdir" ELSE "last")
        /\ UNCHANGED <<file, oldpid, winners, owner>>
     \/ file # None /\ Exit(p) /\ UNCHANGED Lock  \* not empty: rm fails

-----------------------------------------------------------------------------
\* release_singleton, from a trap or self_destruct

Stop(p) ==
  /\ pc[p] = "running"
  /\ Goto(p, "release")
  /\ UNCHANGED <<Lock, Locals>>

\* Only remove a lock that is still ours.
Release(p) ==
  /\ pc[p] = "release"
  /\ \/ file = p /\ Goto(p, "drop") /\ UNCHANGED Locals
     \/ file # p /\ Exit(p)
  /\ UNCHANGED Lock

Drop(p) ==
  /\ pc[p] = "drop"
  /\ file' = None
  /\ Goto(p, "dropdir")
  /\ UNCHANGED <<dir, Locals>>

\* Mutant of DropDir: the whole directory goes, whatever it holds by now.
DropDirForce(p) ==
  /\ pc[p] = "dropdir"
  /\ Exit(p)
  /\ dir' = FALSE /\ file' = None

DropDir(p) ==
  /\ pc[p] = "dropdir"
  /\ Exit(p)
  /\ dir' = (dir /\ file # None)
  /\ UNCHANGED file

-----------------------------------------------------------------------------
\* The host

Kill(p) ==
  /\ pc[p] \in Agent
  /\ Exit(p)
  /\ UNCHANGED Lock

Command(p) ==
  /\ \/ Mkdir(p) \/ WritePid(p) \/ ReadPid(p) \/ RereadPid(p) \/ CheckHolder(p)
     \/ Register(p) \/ Unlink(p) \/ Rmdir(p)
     \/ Release(p) \/ Drop(p) \/ DropDir(p)
  /\ UNCHANGED overlap

Next == \E p \in Pids :
          \/ Start(p) \/ Command(p)
          \/ (Stop(p) \/ Kill(p)) /\ UNCHANGED overlap

\* The shell always gets on to its next command; nothing obliges anyone to
\* start, stop or kill an agent.
Fairness == \A p \in Pids : WF_vars(Command(p))

Spec == Init /\ [][Next]_vars /\ Fairness

-----------------------------------------------------------------------------
\* Properties.

\* While starts never overlap, no two agents are past the lock, however many
\* stop, die halfway through a command and start again under the same pids.  It
\* follows from RunningOwnsLock, which says which agent that is.
OneAgentIfSerial ==
  ~overlap => \A p, q \in Pids : pc[p] \in Holding /\ pc[q] \in Holding => p = q

\* The agent that runs is the one the lock names: a later start defers to it,
\* and its own release finds its pid.
RunningOwnsLock ==
  ~overlap => \A p \in Pids : pc[p] \in Holding => dir /\ file = p

\* Whoever held the lock when a start looked at it keeps it for as long as it
\* runs: that start's rm -rf does not take it, overlapping starts or not.  This
\* includes the holder that had made the directory and not yet written its pid
\* when the start found the lock empty, which is what the second cat after a
\* pause is for (thumper_agent.sh:142-145).
NoEviction ==
  [][\A p, q \in Pids :
       pc[p] = "unlink" /\ pc'[p] = "rmdir" /\ q \in owner[p] /\ pc[q] \in Holding
       => file # q]_vars

\* Every start comes to an end: it runs, it registers or it gives up.  Neither a
\* dead agent's lock nor a peer that keeps winning the mkdir holds it for ever.
StartsEnd == \A p \in Pids : pc[p] \in Acquiring ~> pc[p] \notin Acquiring

\* "Only one agent per install location" (thumper_agent.sh:134): concurrent
\* starts included.
OneAgent == \A p, q \in Pids : pc[p] \in Holding /\ pc[q] \in Holding => p = q

\* "A leftover lock from a SIGKILL / power loss never permanently blocks
\* restart" (thumper_agent.sh:138-139): no start defers to itself.
NeverDefersToItself == \A p \in Pids : pc[p] = "register" => oldpid[p] # p

\* What makes the safety properties inductive: one start at a time, and nobody
\* holds the lock while it is being taken or removed.
StaleOnlyIfUnheld ==
  \A p, q \in Pids : pc[q] \in Holding =>
    /\ pc[p] \notin {"write", "pause", "unlink", "rmdir"}
    /\ pc[p] = "check" => oldpid[p] = q

OneStart == \A p, q \in Pids : pc[p] \in Acquiring /\ pc[q] \in Acquiring => p = q

TriesLeft == \A p \in Pids : pc[p] \in {"unlink", "rmdir"} => tries[p] < 3

\* What a start knows of the lock's owner, from its look to its rm -rf.
OwnerKnown ==
  \A p \in Pids : \A q \in owner[p] :
    /\ p # q
    /\ pc[p] \in {"pause", "check", "unlink"}
    /\ pc[q] \in {"write", "dropdir"} \cup Holding
    /\ pc[q] = "write" => pc[p] = "pause" /\ q \in winners[p]
    /\ pc[p] = "check" /\ file = q /\ pc[q] \in Holding => oldpid[p] = q
    /\ pc[p] = "unlink" /\ pc[q] \in Holding => file # q

IndInv ==
  /\ TypeOK
  /\ TriesLeft
  /\ OwnerKnown
  /\ RunningOwnsLock
  /\ ~overlap => StaleOnlyIfUnheld /\ OneStart
=============================================================================
