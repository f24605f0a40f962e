--------------------------- MODULE LiveSync_proofs ---------------------------
(***************************************************************************)
(* Why the manifest can be trusted: what plant() is about to write is      *)
(* recorded before a FIFO and right after a regular bait, what is          *)
(* withdrawn is removed before its record, and the user's files are        *)
(* outside of what the agent has set about.                                *)
(***************************************************************************)
EXTENDS LiveSync, TLAPS

\* plant() or the removal of a bait is at work on `cur', and a repair has
\* attempts left.
Current ==
  /\ agent.pc \in Planting \cup {"forget"} => agent.cur \in Tripwires
  /\ agent.pc \in Planting /\ agent.loop = "verify" =>
       agent.heal[agent.cur] < ReplantMax

\* The steps between the guard of plant() and its report.
AtWork == {"fetch", "clear", "record", "mkfifo"}

\* What is at the path at hand, and who answers for it.
InHand ==
  /\ agent.pc \in AtWork => path \in begun
  /\ agent.pc \in {"clear", "mkfifo"} => Fifo
  /\ agent.pc \in {"record", "mkfifo"} /\ Fifo => disk[path] \notin Bait
  /\ At("record") => disk[path] # "fifo"
  /\ At("mkfifo") => path \in manifest
  /\ At("forget") => disk[path] \notin Bait

\* The user's own files are outside of what the agent has set about.
UserApart ==
  /\ manifest \subseteq begun
  /\ \A p \in begun : disk[p] # "user"

\* When the manifest is about to be deleted nothing on disk depends on it.
WipedClean ==
  agent.pc \in {"confirm", "wipe", "gone"} =>
    \A p \in Paths : disk[p] \in Bait => p \in slipped

\* What is on record, and the bounds.
Records ==
  /\ manifest \subseteq Paths /\ begun \subseteq Paths /\ slipped \subseteq Paths
  /\ faults \in 0..MaxFaults

IndInv ==
  TypeOK /\ Current /\ InHand /\ UserApart /\ WipedClean /\ BaitVouched

-----------------------------------------------------------------------------
\* Types, one variable at a time.

\* The values a start begins with.
LEMMA Initially ==
  /\ Nothing \in [Tripwires -> 0..MaxIds] /\ Nothing \in [Tripwires -> 0..ReplantMax]
  /\ Unstated \in [Tripwires -> {"pending", "planted", "failed"}]
  /\ Down \in Agents
<1>1. /\ Nothing \in [Tripwires -> 0..MaxIds]
      /\ Nothing \in [Tripwires -> 0..ReplantMax]
  BY LiveSyncAssumption DEF Nothing
<1>. QED BY <1>1 DEF Down, Agents, Unstated

LEMMA TypeInit == Init => TypeOK /\ Current
<1>. SUFFICES ASSUME Init PROVE TypeOK /\ Current OBVIOUS
<1>1. server \in Servers BY Initially DEF Init, Servers
<1>2. disk \in [Paths -> Contents] BY DEF Init, Contents, Bait
<1>3. faults \in 0..MaxFaults BY LiveSyncAssumption DEF Init
<1>4. agent \in Agents BY Initially DEF Init
<1>. QED BY <1>1, <1>2, <1>3, <1>4 DEF Init, TypeOK, Current, Down, Planting


\* The rows keep their types.
LEMMA ServerTypes ==
  ASSUME TypeOK, [Next]_vars
  PROVE  server' \in Servers
<1>1. server \in Servers BY DEF TypeOK
<1>2. agent.cur \in Tripwires \cup {None} BY DEF TypeOK, Agents
<1>3. MaxIds \in Nat BY LiveSyncAssumption
<1>4. Forgotten \in Servers BY <1>1, Initially DEF Forgotten, Servers
<1>5. ASSUME Enroll PROVE server' \in Servers
<2>1. CASE UNCHANGED server BY <1>1, <2>1
  <2>2. CASE server' # server
    <3>. DEFINE new == Install \ server.assigned
                id == [t \in Tripwires |->
                         server.id[t] + IF t \in new THEN 1 ELSE 0]
    <3>1. server.id \in [Tripwires -> 0..MaxIds] BY <1>1 DEF Servers
    <3>2. \A t \in new : server.id[t] < MaxIds BY <1>5, <2>2 DEF Enroll
    <3>3. id \in [Tripwires -> 0..MaxIds]
      BY <3>1, <3>2, <1>3
    <3>4. server' = [server EXCEPT
             !.known = TRUE, !.assigned = @ \cup new, !.id = id,
             !.state = [t \in Tripwires |-> IF t \in new THEN "pending"
                                                         ELSE @[t]]]
      BY <1>5, <2>2, <1>1 DEF Enroll, Servers
    <3>. QED BY <1>1, <3>3, <3>4, LiveSyncAssumption DEF Servers
  <2>. QED BY <2>1, <2>2
<1>6. ASSUME PlantReport PROVE server' \in Servers
  BY <1>1, <1>2, <1>3, <1>4, LiveSyncAssumption, Initially, <1>6 DEF
         PlantReport, Report, Servers
<1>7. ASSUME NEW t \in Tripwires, Verify(t) PROVE server' \in Servers
  BY <1>1, <1>2, <1>3, <1>4, LiveSyncAssumption, Initially, <1>7 DEF Verify,
         Report, Verdict, Servers
<1>8. ASSUME Confirm PROVE server' \in Servers
  BY <1>1, <1>2, <1>3, <1>4, LiveSyncAssumption, Initially, <1>8 DEF Confirm
<1>9. ASSUME DeleteEndpoint PROVE server' \in Servers
  BY <1>1, <1>2, <1>3, <1>4, LiveSyncAssumption, Initially, <1>9 DEF
         DeleteEndpoint
<1>10. ASSUME NEW t \in Tripwires, Assign(t) PROVE server' \in Servers
<2>1. server.id[t] + 1 \in 0..MaxIds BY <1>1, <1>3, <1>10 DEF Assign, Servers
  <2>. QED BY <1>1, <1>10, <2>1 DEF Assign, Servers
<1>11. ASSUME NEW t \in Tripwires, Unassign(t) PROVE server' \in Servers
  BY <1>1, <1>2, <1>3, <1>4, LiveSyncAssumption, Initially, <1>11 DEF
         Unassign, Servers
<1>12. ASSUME Decommission PROVE server' \in Servers
  BY <1>1, <1>2, <1>3, <1>4, LiveSyncAssumption, Initially, <1>12 DEF
         Decommission, Servers
<1>13. CASE \/ Start \/ Preflight \/ Pull \/ Resync \/ Wake \/ PlantEnd \/ Check
           \/ Fetch \/ Clear \/ Record \/ Mkfifo \/ Forget \/ RemoveEnd
           \/ VerifyEnd \/ Unplanted \/ Wipe \/ Heartbeat \/ Terminate \/ Kill
           \/ Cool
  BY <1>1, <1>13 DEF Start, Preflight, Pull, Resync, Wake, PlantEnd, Check,
         Fetch, Clear, Record, Mkfifo, Forget, RemoveEnd, VerifyEnd,
         Unplanted, Wipe, Heartbeat, Terminate, Kill, Cool
<1>14. ASSUME NEW t \in Tripwires, PlantNext(t) \/ Remove(t)
      PROVE  server' \in Servers
  BY <1>1, <1>14 DEF PlantNext, Remove
<1>15. ASSUME NEW p \in Paths, Unplant(p) \/ UserWrites(p) \/ UserLinks(p) \/ UserRemoves(p)
      PROVE  server' \in Servers
  BY <1>1, <1>15 DEF Unplant, UserWrites, UserLinks, UserRemoves
<1>16. CASE UNCHANGED vars
  BY <1>1, <1>16 DEF vars
<1>. QED BY <1>5, <1>6, <1>7, <1>8, <1>9, <1>10, <1>11, <1>12, <1>13, <1>14,
          <1>15, <1>16 DEF Next, AgentStep, UserStep

\* What is on disk keeps its type.
LEMMA DiskTypes ==
  ASSUME TypeOK, [Next]_vars
  PROVE  disk' \in [Paths -> Contents]
<1>1. disk \in [Paths -> Contents] BY DEF TypeOK
<1>2. ASSUME Start PROVE disk' \in [Paths -> Contents]
  BY <1>1, <1>2 DEF Start, Swept, Contents
<1>3. ASSUME Terminate PROVE disk' \in [Paths -> Contents]
  BY <1>1, <1>3 DEF Terminate, Swept, Contents
<1>4. ASSUME Fetch PROVE disk' \in [Paths -> Contents]
  BY <1>1, <1>4 DEF Fetch, Put, Keep, Contents, Bait
<1>5. ASSUME Clear PROVE disk' \in [Paths -> Contents]
  BY <1>1, <1>5 DEF Clear, Put, Keep, Contents
<1>6. ASSUME Mkfifo PROVE disk' \in [Paths -> Contents]
  BY <1>1, <1>6 DEF Mkfifo, Put, Keep, Contents, Bait
<1>7. ASSUME NEW t \in Tripwires, Remove(t) PROVE disk' \in [Paths -> Contents]
  BY <1>1, <1>7 DEF Remove, Put, Keep, Contents
<1>8. ASSUME NEW p \in Paths, Unplant(p) PROVE disk' \in [Paths -> Contents]
  BY <1>1, <1>8 DEF Unplant, Put, Contents
<1>9. ASSUME NEW p \in Paths, UserWrites(p) PROVE disk' \in [Paths -> Contents]
  BY <1>1, <1>9 DEF UserWrites, Put, Contents
<1>10. ASSUME NEW p \in Paths, UserLinks(p) PROVE disk' \in [Paths -> Contents]
  BY <1>1, <1>10 DEF UserLinks, Put, Contents
<1>11. ASSUME NEW p \in Paths, UserRemoves(p) PROVE disk' \in [Paths -> Contents]
  BY <1>1, <1>11 DEF UserRemoves, Put, Contents
<1>12. CASE \/ Preflight \/ Enroll \/ Pull \/ Resync \/ Wake \/ PlantEnd \/ Check
           \/ Record \/ PlantReport \/ Forget \/ RemoveEnd \/ VerifyEnd
           \/ Unplanted \/ Confirm \/ Wipe \/ Heartbeat \/ Kill \/ Cool
           \/ Decommission \/ DeleteEndpoint
  BY <1>1, <1>12 DEF Preflight, Enroll, Pull, Resync, Wake, PlantEnd, Check,
         Record, PlantReport, Forget, RemoveEnd, VerifyEnd, Unplanted,
         Confirm, Wipe, Heartbeat, Kill, Cool, Decommission, DeleteEndpoint
<1>13. ASSUME NEW t \in Tripwires, PlantNext(t) \/ Verify(t) \/ Assign(t) \/ Unassign(t)
      PROVE  disk' \in [Paths -> Contents]
  BY <1>1, <1>13 DEF PlantNext, Verify, Assign, Unassign
<1>14. CASE UNCHANGED vars
  BY <1>1, <1>14 DEF vars
<1>. QED BY <1>2, <1>3, <1>4, <1>5, <1>6, <1>7, <1>8, <1>9, <1>10, <1>11,
          <1>12, <1>13, <1>14 DEF Next, AgentStep, UserStep

\* The manifest, and what only the model knows, keep their types.
LEMMA RecordTypes ==
  ASSUME TypeOK, Current, [Next]_vars
  PROVE  Records'
<1>1. /\ manifest \subseteq Paths /\ begun \subseteq Paths /\ slipped \subseteq Paths
      /\ faults \in 0..MaxFaults BY DEF TypeOK
<1>2. agent.pc \in Planting \cup {"forget"} => path \in Paths
  BY LiveSyncAssumption DEF Current, path
<1>3. MaxFaults \in Nat BY LiveSyncAssumption
<1>4. ASSUME Check PROVE Records'
  BY <1>1, <1>2, <1>3, <1>3, <1>4 DEF Check, Planting, At, Records
<1>5. ASSUME Fetch PROVE Records'
  BY <1>1, <1>2, <1>3, <1>3, <1>5 DEF Fetch, Put, Keep, Planting, At, Records
<1>6. ASSUME Clear PROVE Records'
  BY <1>1, <1>2, <1>3, <1>3, <1>6 DEF Clear, Put, Keep, Planting, At, Records
<1>7. ASSUME Record PROVE Records'
  BY <1>1, <1>2, <1>3, <1>3, <1>7 DEF Record, Planting, At, Records
<1>8. ASSUME Mkfifo PROVE Records'
  BY <1>1, <1>2, <1>3, <1>3, <1>8 DEF Mkfifo, Put, Keep, At, Records
<1>9. ASSUME PlantReport PROVE Records'
  BY <1>1, <1>2, <1>3, <1>3, <1>9 DEF PlantReport, Report, Fault, NoFault, At,
         Records
<1>10. ASSUME Forget PROVE Records'
  BY <1>1, <1>2, <1>3, <1>3, <1>10 DEF Forget, At, Records
<1>11. ASSUME Confirm PROVE Records'
  BY <1>1, <1>2, <1>3, <1>3, <1>11 DEF Confirm, Fault, NoFault, At, Records
<1>12. ASSUME Wipe PROVE Records'
  BY <1>1, <1>2, <1>3, <1>3, <1>12 DEF Wipe, At, Records
<1>13. ASSUME Heartbeat PROVE Records'
  BY <1>1, <1>2, <1>3, <1>3, <1>13 DEF Heartbeat, Slip, Planting, At, Records
<1>14. ASSUME Terminate PROVE Records'
  BY <1>1, <1>2, <1>3, <1>3, <1>14 DEF Terminate, Slip, Fault, Planting, At,
         Records
<1>15. ASSUME Kill PROVE Records'
  BY <1>1, <1>2, <1>3, <1>3, <1>15 DEF Kill, Slip, Fault, Planting, At,
         Records
<1>16. ASSUME NEW t \in Tripwires, Remove(t) PROVE Records'
  BY <1>1, <1>2, <1>3, <1>3, <1>16 DEF Remove, Put, Keep, Records
<1>17. CASE \/ Start \/ Preflight \/ Enroll \/ Pull \/ Resync \/ Wake \/ PlantEnd
           \/ RemoveEnd \/ VerifyEnd \/ Unplanted \/ Cool \/ Decommission
           \/ DeleteEndpoint
  BY <1>1, <1>17, <1>3 DEF Start, Preflight, Enroll, Pull, Resync, Wake,
         PlantEnd, RemoveEnd, VerifyEnd, Unplanted, Cool, Decommission,
         DeleteEndpoint, Put, Fault, NoFault, Report, Records
<1>18. ASSUME NEW t \in Tripwires, PlantNext(t) \/ Verify(t) \/ Assign(t) \/ Unassign(t)
      PROVE  Records'
  BY <1>1, <1>18, <1>3 DEF PlantNext, Verify, Assign, Unassign, Put, Fault,
         NoFault, Report, Records
<1>19. ASSUME NEW p \in Paths, Unplant(p) \/ UserWrites(p) \/ UserLinks(p) \/ UserRemoves(p)
      PROVE  Records'
  BY <1>1, <1>19, <1>3 DEF Unplant, UserWrites, UserLinks, UserRemoves, Put,
         Fault, NoFault, Report, Records
<1>20. CASE UNCHANGED vars
  BY <1>1, <1>20, <1>3 DEF vars, Put, Fault, NoFault, Report, Records
<1>. QED BY <1>4, <1>5, <1>6, <1>7, <1>8, <1>9, <1>10, <1>11, <1>12, <1>13,
          <1>14, <1>15, <1>16, <1>17, <1>18, <1>19, <1>20 DEF Next, AgentStep,
          UserStep

\* The variables of the shell keep their types.
LEMMA AgentTypes ==
  ASSUME TypeOK, Current, [Next]_vars
  PROVE  agent' \in Agents
<1>1. agent \in Agents /\ server \in Servers BY DEF TypeOK
<1>2. Listed \in [Tripwires -> 0..MaxIds]
  BY <1>1, LiveSyncAssumption DEF Listed, Servers
<1>3. Counted(Listed) \in [Tripwires -> 0..ReplantMax]
  BY <1>1, LiveSyncAssumption DEF Counted, Agents
<1>4. Nothing \in [Tripwires -> 0..MaxIds] /\ Down \in Agents BY Initially
<1>5. ASSUME Start PROVE agent' \in Agents
  BY <1>4, <1>5 DEF Start, Agents, Starting
<1>6. ASSUME Preflight PROVE agent' \in Agents
  BY <1>1, <1>6 DEF Preflight, Goto, Agents, Starting
<1>7. ASSUME Enroll PROVE agent' \in Agents
  BY <1>1, <1>7 DEF Enroll, Goto, Agents, Starting, Cycle
<1>8. ASSUME Pull PROVE agent' \in Agents
<2>1. \/ \E pc \in {"sleep", "down", "resync"} :
                agent' = [agent EXCEPT !.pc = pc]
        \/ Pulled
    BY <1>8 DEF Pull, Goto
  <2>2. ASSUME NEW pc \in {"sleep", "down", "resync"},
               agent' = [agent EXCEPT !.pc = pc]
        PROVE agent' \in Agents
    BY <1>1, <2>2 DEF Agents, Cycle
  <2>3. CASE Pulled
    <3>1. PICK old \in {agent.deps, Nothing}, todo \in SUBSET Tripwires,
               pc \in {"remove", "plantall", "verify"} :
            agent' = [agent EXCEPT !.deps = Listed, !.heal = Counted(Listed),
                                   !.old = old, !.pc = pc, !.todo = todo]
      BY <2>3 DEF Pulled, Removed, Deployed
    <3>2. old \in [Tripwires -> 0..MaxIds] BY <1>1, <1>4 DEF Agents
    <3>. QED BY <1>1, <1>2, <1>3, <3>1, <3>2 DEF Agents, Starting, Cycle
  <2>. QED BY <2>1, <2>2, <2>3
<1>9. ASSUME Resync PROVE agent' \in Agents
  BY <1>1, <1>9 DEF Resync, Agents, Starting, Cycle
<1>10. ASSUME Wake PROVE agent' \in Agents
  BY <1>1, <1>10 DEF Wake, Goto, Agents, Starting
<1>11. ASSUME NEW t \in Tripwires, PlantNext(t) PROVE agent' \in Agents
  BY <1>1, <1>11 DEF PlantNext, Agents, Planting
<1>12. ASSUME PlantEnd PROVE agent' \in Agents
<2>1. Deployed(agent.deps) \subseteq Tripwires BY DEF Deployed
  <2>2. CASE At("add")
    BY <1>1, <1>4, <1>12, <2>1, <2>2 DEF PlantEnd, Agents, Cycle
  <2>3. CASE ~At("add") /\ agent.planted
    BY <1>1, <1>12, <2>3 DEF PlantEnd, Agents, Cycle
  <2>4. CASE ~At("add") /\ ~agent.planted
    BY <1>4, <1>12, <2>4 DEF PlantEnd
  <2>. QED BY <2>2, <2>3, <2>4
<1>13. ASSUME Check PROVE agent' \in Agents
  BY <1>1, <1>13 DEF Check, Goto, Agents, Planting
<1>14. ASSUME Fetch PROVE agent' \in Agents
  BY <1>1, <1>14 DEF Fetch, Goto, Agents, Planting
<1>15. ASSUME Clear PROVE agent' \in Agents
  BY <1>1, <1>15 DEF Clear, Goto, Agents, Planting
<1>16. ASSUME Record PROVE agent' \in Agents
  BY <1>1, <1>16 DEF Record, Goto, Agents, Planting
<1>17. ASSUME Mkfifo PROVE agent' \in Agents
  BY <1>1, <1>17 DEF Mkfifo, Agents, Planting
<1>18. ASSUME PlantReport PROVE agent' \in Agents
<2>1. agent.cur \in Tripwires /\ agent.pc \in Planting
    BY <1>18 DEF PlantReport, At, Current, Planting
  <2>2. agent.loop = "verify" => agent.heal[agent.cur] + 1 \in 0..ReplantMax
    BY <1>1, <2>1, LiveSyncAssumption DEF Current, Agents
  <2>3. PICK heal \in [Tripwires -> 0..ReplantMax],
             planted \in BOOLEAN :
          agent' = [agent EXCEPT !.pc = agent.loop, !.cur = None, !.ok = FALSE,
                                 !.loop = "plantall", !.planted = planted,
                                 !.heal = heal]
    <3>. DEFINE heal == [agent.heal EXCEPT ![agent.cur] =
                           IF agent.loop = "verify" /\ ~agent.ok THEN @ + 1
                                                                ELSE @]
                planted == ~agent.armed /\ (agent.planted \/ agent.ok)
    <3>1. heal \in [Tripwires -> 0..ReplantMax]
      BY <1>1, <2>1, <2>2 DEF Agents
    <3>2. agent' = [agent EXCEPT !.pc = agent.loop, !.cur = None, !.ok = FALSE,
                                 !.loop = "plantall", !.planted = planted,
                                 !.heal = heal]
      BY <1>1, <1>18 DEF PlantReport, Agents
    <3>3. planted \in BOOLEAN OBVIOUS
    <3>. QED BY <3>1, <3>2, <3>3
  <2>. QED BY <1>1, <2>3 DEF Agents, Starting, Cycle
<1>19. ASSUME NEW t \in Tripwires, Remove(t) PROVE agent' \in Agents
<2>1. \/ agent' = [agent EXCEPT !.todo = @ \ {t}, !.cur = t, !.pc = "forget"]
        \/ agent' = [agent EXCEPT !.todo = @ \ {t}]
    BY <1>19 DEF Remove
  <2>. QED BY <1>1, <2>1 DEF Agents, Cycle
<1>20. ASSUME Forget PROVE agent' \in Agents
  BY <1>1, <1>20 DEF Forget, Agents, Cycle
<1>21. ASSUME RemoveEnd PROVE agent' \in Agents
  BY <1>1, <1>21 DEF RemoveEnd, Added, Agents, Cycle
<1>22. ASSUME NEW t \in Tripwires, Verify(t) PROVE agent' \in Agents
  BY <1>1, <1>22 DEF Verify, Verified, Agents, Planting
<1>23. ASSUME VerifyEnd PROVE agent' \in Agents
  BY <1>1, <1>23 DEF VerifyEnd, Goto, Agents, Cycle
<1>24. ASSUME Heartbeat PROVE agent' \in Agents
  BY <1>4, <1>24 DEF Heartbeat, Agents, Destroying
<1>25. ASSUME Terminate PROVE agent' \in Agents
  BY <1>4, <1>25 DEF Terminate
<1>26. ASSUME Kill PROVE agent' \in Agents
  BY <1>4, <1>26 DEF Kill
<1>27. ASSUME Unplanted PROVE agent' \in Agents
  BY <1>1, <1>27 DEF Unplanted, Goto, Agents, Destroying
<1>28. ASSUME Confirm PROVE agent' \in Agents
  BY <1>1, <1>28 DEF Confirm, Goto, Agents, Destroying
<1>29. ASSUME Wipe PROVE agent' \in Agents
  BY <1>1, <1>29 DEF Wipe, Goto, Agents
<1>30. ASSUME Cool PROVE agent' \in Agents
  BY <1>1, <1>30 DEF Cool, Agents
<1>31. CASE \/ Decommission \/ DeleteEndpoint
  BY <1>1, <1>31 DEF Decommission, DeleteEndpoint
<1>32. ASSUME NEW t \in Tripwires, Assign(t) \/ Unassign(t)
      PROVE  agent' \in Agents
  BY <1>1, <1>32 DEF Assign, Unassign
<1>33. ASSUME NEW p \in Paths, Unplant(p) \/ UserWrites(p) \/ UserLinks(p) \/ UserRemoves(p)
      PROVE  agent' \in Agents
  BY <1>1, <1>33 DEF Unplant, UserWrites, UserLinks, UserRemoves
<1>34. CASE UNCHANGED vars
  BY <1>1, <1>34 DEF vars
<1>. QED BY <1>5, <1>6, <1>7, <1>8, <1>9, <1>10, <1>11, <1>12, <1>13, <1>14,
          <1>15, <1>16, <1>17, <1>18, <1>19, <1>20, <1>21, <1>22, <1>23,
          <1>24, <1>25, <1>26, <1>27, <1>28, <1>29, <1>30, <1>31, <1>32,
          <1>33, <1>34 DEF Next, AgentStep, UserStep

\* What plant() works on stays a tripwire with attempts left.
LEMMA CurrentStep ==
  ASSUME TypeOK, Current, [Next]_vars
  PROVE  Current'
<1>1. agent \in Agents BY DEF TypeOK
<1>2. ASSUME Start PROVE Current'
  BY <1>1, <1>2 DEF Start, Current, At, Goto, Planting, Down
<1>3. ASSUME Preflight PROVE Current'
  BY <1>1, <1>3 DEF Preflight, Current, At, Goto, Planting, Agents
<1>4. ASSUME Enroll PROVE Current'
  BY <1>1, <1>4 DEF Enroll, Current, At, Goto, Planting, Agents
<1>5. ASSUME Pull PROVE Current'
  BY <1>1, <1>5 DEF Pull, Current, At, Goto, Planting, Pulled, Agents
<1>6. ASSUME Resync PROVE Current'
  BY <1>1, <1>6 DEF Resync, Current, At, Goto, Planting
<1>7. ASSUME Wake PROVE Current'
  BY <1>1, <1>7 DEF Wake, Current, At, Goto, Planting
<1>8. ASSUME NEW t \in Tripwires, PlantNext(t) PROVE Current'
  BY <1>1, <1>8 DEF PlantNext, Current, At, Goto, Planting, Agents
<1>9. ASSUME PlantEnd PROVE Current'
  BY <1>1, <1>9 DEF PlantEnd, Current, At, Goto, Planting, Down
<1>10. ASSUME Check PROVE Current'
  BY <1>1, <1>10 DEF Check, Current, At, Goto, Planting, Agents
<1>11. ASSUME Fetch PROVE Current'
  BY <1>1, <1>11 DEF Fetch, Current, At, Goto, Planting, Agents
<1>12. ASSUME Clear PROVE Current'
  BY <1>1, <1>12 DEF Clear, Current, At, Goto, Planting, Agents
<1>13. ASSUME Record PROVE Current'
  BY <1>1, <1>13 DEF Record, Current, At, Goto, Planting, Agents
<1>14. ASSUME Mkfifo PROVE Current'
  BY <1>1, <1>14 DEF Mkfifo, Current, At, Goto, Planting, Agents
<1>15. ASSUME PlantReport PROVE Current'
  BY <1>1, <1>15 DEF PlantReport, Current, At, Goto, Planting, Agents
<1>16. ASSUME NEW t \in Tripwires, Remove(t) PROVE Current'
  BY <1>1, <1>16 DEF Remove, Current, At, Goto, Planting, Agents
<1>17. ASSUME Forget PROVE Current'
  BY <1>1, <1>17 DEF Forget, Current, At, Goto, Planting, Agents
<1>18. ASSUME RemoveEnd PROVE Current'
  BY <1>1, <1>18 DEF RemoveEnd, Current, At, Goto, Planting, Agents
<1>19. ASSUME NEW t \in Tripwires, Verify(t) PROVE Current'
  BY <1>1, <1>19 DEF Verify, Current, At, Goto, Planting, Agents, Verified
<1>20. ASSUME VerifyEnd PROVE Current'
  BY <1>1, <1>20 DEF VerifyEnd, Current, At, Goto, Planting
<1>21. ASSUME Heartbeat PROVE Current'
  BY <1>1, <1>21 DEF Heartbeat, Current, At, Goto, Planting, Down
<1>22. ASSUME Terminate PROVE Current'
  BY <1>1, <1>22 DEF Terminate, Current, At, Goto, Planting, Down
<1>23. ASSUME Kill PROVE Current'
  BY <1>1, <1>23 DEF Kill, Current, At, Goto, Planting, Down
<1>24. ASSUME Unplanted PROVE Current'
  BY <1>1, <1>24 DEF Unplanted, Current, At, Goto, Planting
<1>25. ASSUME Confirm PROVE Current'
  BY <1>1, <1>25 DEF Confirm, Current, At, Goto, Planting
<1>26. ASSUME Wipe PROVE Current'
  BY <1>1, <1>26 DEF Wipe, Current, At, Goto, Planting
<1>27. ASSUME Cool PROVE Current'
  BY <1>1, <1>27 DEF Cool, Current, At, Goto, Planting, Agents
<1>28. CASE \/ Decommission \/ DeleteEndpoint
  BY <1>1, <1>28 DEF Decommission, DeleteEndpoint, Current
<1>29. ASSUME NEW t \in Tripwires, Assign(t) \/ Unassign(t)
      PROVE  Current'
  BY <1>1, <1>29 DEF Assign, Unassign, Current
<1>30. ASSUME NEW p \in Paths, Unplant(p) \/ UserWrites(p) \/ UserLinks(p) \/ UserRemoves(p)
      PROVE  Current'
  BY <1>1, <1>30 DEF Unplant, UserWrites, UserLinks, UserRemoves, Current
<1>31. CASE UNCHANGED vars
  BY <1>1, <1>31 DEF vars, Current
<1>. QED BY <1>2, <1>3, <1>4, <1>5, <1>6, <1>7, <1>8, <1>9, <1>10, <1>11,
          <1>12, <1>13, <1>14, <1>15, <1>16, <1>17, <1>18, <1>19, <1>20,
          <1>21, <1>22, <1>23, <1>24, <1>25, <1>26, <1>27, <1>28, <1>29,
          <1>30, <1>31 DEF Next, AgentStep, UserStep

\* What is known of the path at hand stays true.
LEMMA InHandStep ==
  ASSUME TypeOK, Current, InHand, [Next]_vars
  PROVE  InHand'
<1>1. agent \in Agents /\ disk \in [Paths -> Contents] /\ begun \subseteq Paths
  BY DEF TypeOK
<1>2. agent.pc \in Planting \cup {"forget"} => path \in Paths
  BY LiveSyncAssumption DEF Current, path
<1>3. \A t \in Tripwires : PathOf[t] \in Paths BY LiveSyncAssumption
<1>4. ASSUME Start PROVE InHand'
  BY <1>1, <1>2, <1>3, <1>4 DEF Start, InHand, AtWork, path, Fifo, Agents,
         Planting, Starting, Cycle, Destroying, Bait, At, Goto, Down
<1>5. ASSUME Preflight PROVE InHand'
  BY <1>1, <1>2, <1>3, <1>5 DEF Preflight, InHand, AtWork, path, Fifo, Agents,
         Planting, Starting, Cycle, Destroying, Bait, At, Goto
<1>6. ASSUME Enroll PROVE InHand'
  BY <1>1, <1>2, <1>3, <1>6 DEF Enroll, InHand, AtWork, path, Fifo, Agents,
         Planting, Starting, Cycle, Destroying, Bait, At, Goto
<1>7. ASSUME Pull PROVE InHand'
  BY <1>1, <1>2, <1>3, <1>7 DEF Pull, InHand, AtWork, path, Fifo, Agents,
         Planting, Starting, Cycle, Destroying, Bait, At, Goto, Pulled
<1>8. ASSUME Resync PROVE InHand'
  BY <1>1, <1>2, <1>3, <1>8 DEF Resync, InHand, AtWork, path, Fifo, Agents,
         Planting, Starting, Cycle, Destroying, Bait, At, Goto
<1>9. ASSUME Wake PROVE InHand'
  BY <1>1, <1>2, <1>3, <1>9 DEF Wake, InHand, AtWork, path, Fifo, Agents,
         Planting, Starting, Cycle, Destroying, Bait, At, Goto
<1>10. ASSUME NEW t \in Tripwires, PlantNext(t) PROVE InHand'
  BY <1>1, <1>2, <1>3, <1>10 DEF PlantNext, InHand, AtWork, path, Fifo,
         Agents, Planting, Starting, Cycle, Destroying, Bait, At, Goto
<1>11. ASSUME PlantEnd PROVE InHand'
  BY <1>1, <1>2, <1>3, <1>11 DEF PlantEnd, InHand, AtWork, path, Fifo, Agents,
         Planting, Starting, Cycle, Destroying, Bait, At, Goto, Down
<1>12. ASSUME Check PROVE InHand'
  BY <1>1, <1>2, <1>3, <1>12 DEF Check, InHand, AtWork, path, Fifo, Agents,
         Planting, Starting, Cycle, Destroying, Bait, At, Goto
<1>13. ASSUME Fetch PROVE InHand'
  BY <1>1, <1>2, <1>3, <1>13 DEF Fetch, InHand, AtWork, path, Fifo, Agents,
         Planting, Starting, Cycle, Destroying, Bait, At, Goto, Put, Keep
<1>14. ASSUME Clear PROVE InHand'
  BY <1>1, <1>2, <1>3, <1>14 DEF Clear, InHand, AtWork, path, Fifo, Agents,
         Planting, Starting, Cycle, Destroying, Bait, At, Goto, Put, Keep
<1>15. ASSUME Record PROVE InHand'
  BY <1>1, <1>2, <1>3, <1>15 DEF Record, InHand, AtWork, path, Fifo, Agents,
         Planting, Starting, Cycle, Destroying, Bait, At, Goto
<1>16. ASSUME Mkfifo PROVE InHand'
  BY <1>1, <1>2, <1>3, <1>16 DEF Mkfifo, InHand, AtWork, path, Fifo, Agents,
         Planting, Starting, Cycle, Destroying, Bait, At, Goto, Put, Keep
<1>17. ASSUME PlantReport PROVE InHand'
  BY <1>1, <1>2, <1>3, <1>17 DEF PlantReport, InHand, AtWork, path, Fifo,
         Agents, Planting, Starting, Cycle, Destroying, Bait, At, Goto
<1>18. ASSUME NEW t \in Tripwires, Remove(t) PROVE InHand'
  BY <1>1, <1>2, <1>3, <1>18 DEF Remove, InHand, AtWork, path, Fifo, Agents,
         Planting, Starting, Cycle, Destroying, Bait, At, Goto, Put, Keep
<1>19. ASSUME Forget PROVE InHand'
  BY <1>1, <1>2, <1>3, <1>19 DEF Forget, InHand, AtWork, path, Fifo, Agents,
         Planting, Starting, Cycle, Destroying, Bait, At, Goto
<1>20. ASSUME RemoveEnd PROVE InHand'
  BY <1>1, <1>2, <1>3, <1>20 DEF RemoveEnd, InHand, AtWork, path, Fifo,
         Agents, Planting, Starting, Cycle, Destroying, Bait, At, Goto
<1>21. ASSUME NEW t \in Tripwires, Verify(t) PROVE InHand'
  BY <1>1, <1>2, <1>3, <1>21 DEF Verify, InHand, AtWork, path, Fifo, Agents,
         Planting, Starting, Cycle, Destroying, Bait, At, Goto, Verified
<1>22. ASSUME VerifyEnd PROVE InHand'
  BY <1>1, <1>2, <1>3, <1>22 DEF VerifyEnd, InHand, AtWork, path, Fifo,
         Agents, Planting, Starting, Cycle, Destroying, Bait, At, Goto
<1>23. ASSUME Heartbeat PROVE InHand'
  BY <1>1, <1>2, <1>3, <1>23 DEF Heartbeat, InHand, AtWork, path, Fifo,
         Agents, Planting, Starting, Cycle, Destroying, Bait, At, Goto, Down
<1>24. ASSUME Terminate PROVE InHand'
  BY <1>1, <1>2, <1>3, <1>24 DEF Terminate, InHand, AtWork, path, Fifo,
         Agents, Planting, Starting, Cycle, Destroying, Bait, At, Goto, Down
<1>25. ASSUME Kill PROVE InHand'
  BY <1>1, <1>2, <1>3, <1>25 DEF Kill, InHand, AtWork, path, Fifo, Agents,
         Planting, Starting, Cycle, Destroying, Bait, At, Goto, Down
<1>26. ASSUME Unplanted PROVE InHand'
  BY <1>1, <1>2, <1>3, <1>26 DEF Unplanted, InHand, AtWork, path, Fifo,
         Agents, Planting, Starting, Cycle, Destroying, Bait, At, Goto
<1>27. ASSUME Confirm PROVE InHand'
  BY <1>1, <1>2, <1>3, <1>27 DEF Confirm, InHand, AtWork, path, Fifo, Agents,
         Planting, Starting, Cycle, Destroying, Bait, At, Goto
<1>28. ASSUME Wipe PROVE InHand'
  BY <1>1, <1>2, <1>3, <1>28 DEF Wipe, InHand, AtWork, path, Fifo, Agents,
         Planting, Starting, Cycle, Destroying, Bait, At, Goto
<1>29. ASSUME Cool PROVE InHand'
  BY <1>1, <1>2, <1>3, <1>29 DEF Cool, InHand, AtWork, path, Fifo, Agents,
         Planting, Starting, Cycle, Destroying, Bait, At, Goto
<1>30. ASSUME NEW p \in Paths, Unplant(p) PROVE InHand'
  BY <1>1, <1>2, <1>3, <1>30 DEF Unplant, InHand, AtWork, path, Fifo, Agents,
         Planting, Starting, Cycle, Destroying, Bait, At, Goto, Put
<1>31. ASSUME NEW p \in Paths, UserWrites(p) PROVE InHand'
  BY <1>1, <1>2, <1>3, <1>31 DEF UserWrites, InHand, AtWork, path, Fifo,
         Agents, Planting, Starting, Cycle, Destroying, Bait, At, Goto, Put
<1>32. ASSUME NEW p \in Paths, UserLinks(p) PROVE InHand'
  BY <1>1, <1>2, <1>3, <1>32 DEF UserLinks, InHand, AtWork, path, Fifo,
         Agents, Planting, Starting, Cycle, Destroying, Bait, At, Goto, Put
<1>33. ASSUME NEW p \in Paths, UserRemoves(p) PROVE InHand'
  BY <1>1, <1>2, <1>3, <1>33 DEF UserRemoves, InHand, AtWork, path, Fifo,
         Agents, Planting, Starting, Cycle, Destroying, Bait, At, Goto, Put
<1>34. CASE \/ Decommission \/ DeleteEndpoint
  BY <1>1, <1>34 DEF Decommission, DeleteEndpoint, InHand, AtWork, At, path,
         Fifo
<1>35. ASSUME NEW t \in Tripwires, Assign(t) \/ Unassign(t)
      PROVE  InHand'
  BY <1>1, <1>35 DEF Assign, Unassign, InHand, AtWork, At, path, Fifo
<1>36. CASE UNCHANGED vars
  BY <1>1, <1>36 DEF vars, InHand, AtWork, At, path, Fifo
<1>. QED BY <1>4, <1>5, <1>6, <1>7, <1>8, <1>9, <1>10, <1>11, <1>12, <1>13,
          <1>14, <1>15, <1>16, <1>17, <1>18, <1>19, <1>20, <1>21, <1>22,
          <1>23, <1>24, <1>25, <1>26, <1>27, <1>28, <1>29, <1>30, <1>31,
          <1>32, <1>33, <1>34, <1>35, <1>36 DEF Next, AgentStep, UserStep

\* The user's files stay outside of what the agent is about.
LEMMA UserApartStep ==
  ASSUME TypeOK, Current, InHand, UserApart, [Next]_vars
  PROVE  UserApart'
<1>1. agent \in Agents /\ disk \in [Paths -> Contents] /\ begun \subseteq Paths
  BY DEF TypeOK
<1>2. agent.pc \in Planting \cup {"forget"} => path \in Paths
  BY LiveSyncAssumption DEF Current, path
<1>3. \A t \in Tripwires : PathOf[t] \in Paths BY LiveSyncAssumption
<1>4. ASSUME Start PROVE UserApart'
  BY <1>1, <1>2, <1>3, <1>4 DEF Start, UserApart, InHand, AtWork, At,
         Planting, Swept
<1>5. ASSUME Check PROVE UserApart'
  BY <1>1, <1>2, <1>3, <1>5 DEF Check, UserApart, InHand, AtWork, At, Planting
<1>6. ASSUME Fetch PROVE UserApart'
  BY <1>1, <1>2, <1>3, <1>6 DEF Fetch, UserApart, InHand, AtWork, At,
         Planting, Put, Keep
<1>7. ASSUME Clear PROVE UserApart'
  BY <1>1, <1>2, <1>3, <1>7 DEF Clear, UserApart, InHand, AtWork, At,
         Planting, Put, Keep
<1>8. ASSUME Record PROVE UserApart'
  BY <1>1, <1>2, <1>3, <1>8 DEF Record, UserApart, InHand, AtWork, At,
         Planting
<1>9. ASSUME Mkfifo PROVE UserApart'
  BY <1>1, <1>2, <1>3, <1>9 DEF Mkfifo, UserApart, InHand, AtWork, At,
         Planting, Put, Keep
<1>10. ASSUME PlantReport PROVE UserApart'
  BY <1>1, <1>2, <1>3, <1>10 DEF PlantReport, UserApart, InHand, AtWork, At,
         Planting
<1>11. ASSUME NEW t \in Tripwires, Remove(t) PROVE UserApart'
  BY <1>1, <1>2, <1>3, <1>11 DEF Remove, UserApart, InHand, AtWork, At,
         Planting, Put, Keep
<1>12. ASSUME Forget PROVE UserApart'
  BY <1>1, <1>2, <1>3, <1>12 DEF Forget, UserApart, InHand, AtWork, At,
         Planting
<1>13. ASSUME Wipe PROVE UserApart'
  BY <1>1, <1>2, <1>3, <1>13 DEF Wipe, UserApart, InHand, AtWork, At, Planting
<1>14. ASSUME Terminate PROVE UserApart'
  BY <1>1, <1>2, <1>3, <1>14 DEF Terminate, UserApart, InHand, AtWork, At,
         Planting, Swept
<1>15. ASSUME NEW p \in Paths, Unplant(p) PROVE UserApart'
  BY <1>1, <1>2, <1>3, <1>15 DEF Unplant, UserApart, InHand, AtWork, At,
         Planting, Put
<1>16. ASSUME NEW p \in Paths, UserWrites(p) PROVE UserApart'
  BY <1>1, <1>2, <1>3, <1>16 DEF UserWrites, UserApart, InHand, AtWork, At,
         Planting, Put, Bait
<1>17. ASSUME NEW p \in Paths, UserLinks(p) PROVE UserApart'
  BY <1>1, <1>2, <1>3, <1>17 DEF UserLinks, UserApart, InHand, AtWork, At,
         Planting, Put
<1>18. ASSUME NEW p \in Paths, UserRemoves(p) PROVE UserApart'
  BY <1>1, <1>2, <1>3, <1>18 DEF UserRemoves, UserApart, InHand, AtWork, At,
         Planting, Put
<1>19. CASE \/ Preflight \/ Enroll \/ Pull \/ Resync \/ Wake \/ PlantEnd
           \/ RemoveEnd \/ VerifyEnd \/ Unplanted \/ Confirm \/ Heartbeat \/ Kill
           \/ Cool \/ Decommission \/ DeleteEndpoint
  BY <1>1, <1>19 DEF Preflight, Enroll, Pull, Resync, Wake, PlantEnd,
         RemoveEnd, VerifyEnd, Unplanted, Confirm, Heartbeat, Kill, Cool,
         Decommission, DeleteEndpoint, UserApart
<1>20. ASSUME NEW t \in Tripwires, PlantNext(t) \/ Verify(t) \/ Assign(t) \/ Unassign(t)
      PROVE  UserApart'
  BY <1>1, <1>20 DEF PlantNext, Verify, Assign, Unassign, UserApart
<1>21. CASE UNCHANGED vars
  BY <1>1, <1>21 DEF vars, UserApart
<1>. QED BY <1>4, <1>5, <1>6, <1>7, <1>8, <1>9, <1>10, <1>11, <1>12, <1>13,
          <1>14, <1>15, <1>16, <1>17, <1>18, <1>19, <1>20, <1>21 DEF Next,
          AgentStep, UserStep

\* Once the bait is unplanted nothing on disk depends on the manifest.
LEMMA WipedCleanStep ==
  ASSUME TypeOK, Current, BaitVouched, WipedClean, [Next]_vars
  PROVE  WipedClean'
<1>1. agent \in Agents /\ disk \in [Paths -> Contents] /\ begun \subseteq Paths
  BY DEF TypeOK
<1>2. agent.pc \in Planting \cup {"forget"} => path \in Paths
  BY LiveSyncAssumption DEF Current, path
<1>3. \A t \in Tripwires : PathOf[t] \in Paths BY LiveSyncAssumption
<1>4. ASSUME Start PROVE WipedClean'
  BY <1>1, <1>2, <1>3, <1>4 DEF Start, WipedClean, BaitVouched, Agents,
         Planting, Starting, Cycle, Destroying, Bait, At, Goto, Interruptible,
         Down
<1>5. ASSUME Preflight PROVE WipedClean'
  BY <1>1, <1>2, <1>3, <1>5 DEF Preflight, WipedClean, BaitVouched, Agents,
         Planting, Starting, Cycle, Destroying, Bait, At, Goto, Interruptible
<1>6. ASSUME Enroll PROVE WipedClean'
  BY <1>1, <1>2, <1>3, <1>6 DEF Enroll, WipedClean, BaitVouched, Agents,
         Planting, Starting, Cycle, Destroying, Bait, At, Goto, Interruptible
<1>7. ASSUME Pull PROVE WipedClean'
  BY <1>1, <1>2, <1>3, <1>7 DEF Pull, WipedClean, BaitVouched, Agents,
         Planting, Starting, Cycle, Destroying, Bait, At, Goto, Interruptible,
         Pulled
<1>8. ASSUME Resync PROVE WipedClean'
  BY <1>1, <1>2, <1>3, <1>8 DEF Resync, WipedClean, BaitVouched, Agents,
         Planting, Starting, Cycle, Destroying, Bait, At, Goto, Interruptible
<1>9. ASSUME Wake PROVE WipedClean'
  BY <1>1, <1>2, <1>3, <1>9 DEF Wake, WipedClean, BaitVouched, Agents,
         Planting, Starting, Cycle, Destroying, Bait, At, Goto, Interruptible
<1>10. ASSUME NEW t \in Tripwires, PlantNext(t) PROVE WipedClean'
  BY <1>1, <1>2, <1>3, <1>10 DEF PlantNext, WipedClean, BaitVouched, Agents,
         Planting, Starting, Cycle, Destroying, Bait, At, Goto, Interruptible
<1>11. ASSUME PlantEnd PROVE WipedClean'
  BY <1>1, <1>2, <1>3, <1>11 DEF PlantEnd, WipedClean, BaitVouched, Agents,
         Planting, Starting, Cycle, Destroying, Bait, At, Goto, Interruptible,
         Down
<1>12. ASSUME Check PROVE WipedClean'
  BY <1>1, <1>2, <1>3, <1>12 DEF Check, WipedClean, BaitVouched, Agents,
         Planting, Starting, Cycle, Destroying, Bait, At, Goto, Interruptible
<1>13. ASSUME Fetch PROVE WipedClean'
  BY <1>1, <1>2, <1>3, <1>13 DEF Fetch, WipedClean, BaitVouched, Agents,
         Planting, Starting, Cycle, Destroying, Bait, At, Goto, Interruptible,
         Put, Keep
<1>14. ASSUME Clear PROVE WipedClean'
  BY <1>1, <1>2, <1>3, <1>14 DEF Clear, WipedClean, BaitVouched, Agents,
         Planting, Starting, Cycle, Destroying, Bait, At, Goto, Interruptible,
         Put, Keep
<1>15. ASSUME Record PROVE WipedClean'
  BY <1>1, <1>2, <1>3, <1>15 DEF Record, WipedClean, BaitVouched, Agents,
         Planting, Starting, Cycle, Destroying, Bait, At, Goto, Interruptible
<1>16. ASSUME Mkfifo PROVE WipedClean'
  BY <1>1, <1>2, <1>3, <1>16 DEF Mkfifo, WipedClean, BaitVouched, Agents,
         Planting, Starting, Cycle, Destroying, Bait, At, Goto, Interruptible,
         Put, Keep
<1>17. ASSUME PlantReport PROVE WipedClean'
  BY <1>1, <1>2, <1>3, <1>17 DEF PlantReport, WipedClean, BaitVouched, Agents,
         Planting, Starting, Cycle, Destroying, Bait, At, Goto, Interruptible
<1>18. ASSUME NEW t \in Tripwires, Remove(t) PROVE WipedClean'
  BY <1>1, <1>2, <1>3, <1>18 DEF Remove, WipedClean, BaitVouched, Agents,
         Planting, Starting, Cycle, Destroying, Bait, At, Goto, Interruptible,
         Put, Keep
<1>19. ASSUME Forget PROVE WipedClean'
  BY <1>1, <1>2, <1>3, <1>19 DEF Forget, WipedClean, BaitVouched, Agents,
         Planting, Starting, Cycle, Destroying, Bait, At, Goto, Interruptible
<1>20. ASSUME RemoveEnd PROVE WipedClean'
  BY <1>1, <1>2, <1>3, <1>20 DEF RemoveEnd, WipedClean, BaitVouched, Agents,
         Planting, Starting, Cycle, Destroying, Bait, At, Goto, Interruptible
<1>21. ASSUME NEW t \in Tripwires, Verify(t) PROVE WipedClean'
  BY <1>1, <1>2, <1>3, <1>21 DEF Verify, WipedClean, BaitVouched, Agents,
         Planting, Starting, Cycle, Destroying, Bait, At, Goto, Interruptible,
         Verified
<1>22. ASSUME VerifyEnd PROVE WipedClean'
  BY <1>1, <1>2, <1>3, <1>22 DEF VerifyEnd, WipedClean, BaitVouched, Agents,
         Planting, Starting, Cycle, Destroying, Bait, At, Goto, Interruptible
<1>23. ASSUME Heartbeat PROVE WipedClean'
  BY <1>1, <1>2, <1>3, <1>23 DEF Heartbeat, WipedClean, BaitVouched, Agents,
         Planting, Starting, Cycle, Destroying, Bait, At, Goto, Interruptible,
         Down
<1>24. ASSUME Terminate PROVE WipedClean'
  BY <1>1, <1>2, <1>3, <1>24 DEF Terminate, WipedClean, BaitVouched, Agents,
         Planting, Starting, Cycle, Destroying, Bait, At, Goto, Interruptible,
         Down
<1>25. ASSUME Kill PROVE WipedClean'
  BY <1>1, <1>2, <1>3, <1>25 DEF Kill, WipedClean, BaitVouched, Agents,
         Planting, Starting, Cycle, Destroying, Bait, At, Goto, Interruptible,
         Down
<1>26. ASSUME Unplanted PROVE WipedClean'
  BY <1>1, <1>2, <1>3, <1>26 DEF Unplanted, WipedClean, BaitVouched, Agents,
         Planting, Starting, Cycle, Destroying, Bait, At, Goto, Interruptible
<1>27. ASSUME Confirm PROVE WipedClean'
  BY <1>1, <1>2, <1>3, <1>27 DEF Confirm, WipedClean, BaitVouched, Agents,
         Planting, Starting, Cycle, Destroying, Bait, At, Goto, Interruptible
<1>28. ASSUME Wipe PROVE WipedClean'
  BY <1>1, <1>2, <1>3, <1>28 DEF Wipe, WipedClean, BaitVouched, Agents,
         Planting, Starting, Cycle, Destroying, Bait, At, Goto, Interruptible
<1>29. ASSUME Cool PROVE WipedClean'
  BY <1>1, <1>2, <1>3, <1>29 DEF Cool, WipedClean, BaitVouched, Agents,
         Planting, Starting, Cycle, Destroying, Bait, At, Goto, Interruptible
<1>30. ASSUME NEW p \in Paths, Unplant(p) PROVE WipedClean'
  BY <1>1, <1>2, <1>3, <1>30 DEF Unplant, WipedClean, BaitVouched, Agents,
         Planting, Starting, Cycle, Destroying, Bait, At, Goto, Interruptible,
         Put
<1>31. ASSUME NEW p \in Paths, UserWrites(p) PROVE WipedClean'
  BY <1>1, <1>2, <1>3, <1>31 DEF UserWrites, WipedClean, BaitVouched, Agents,
         Planting, Starting, Cycle, Destroying, Bait, At, Goto, Interruptible,
         Put
<1>32. ASSUME NEW p \in Paths, UserLinks(p) PROVE WipedClean'
  BY <1>1, <1>2, <1>3, <1>32 DEF UserLinks, WipedClean, BaitVouched, Agents,
         Planting, Starting, Cycle, Destroying, Bait, At, Goto, Interruptible,
         Put
<1>33. ASSUME NEW p \in Paths, UserRemoves(p) PROVE WipedClean'
  BY <1>1, <1>2, <1>3, <1>33 DEF UserRemoves, WipedClean, BaitVouched, Agents,
         Planting, Starting, Cycle, Destroying, Bait, At, Goto, Interruptible,
         Put
<1>34. CASE \/ Decommission \/ DeleteEndpoint
  BY <1>1, <1>34 DEF Decommission, DeleteEndpoint, WipedClean
<1>35. ASSUME NEW t \in Tripwires, Assign(t) \/ Unassign(t)
      PROVE  WipedClean'
  BY <1>1, <1>35 DEF Assign, Unassign, WipedClean
<1>36. CASE UNCHANGED vars
  BY <1>1, <1>36 DEF vars, WipedClean
<1>. QED BY <1>4, <1>5, <1>6, <1>7, <1>8, <1>9, <1>10, <1>11, <1>12, <1>13,
          <1>14, <1>15, <1>16, <1>17, <1>18, <1>19, <1>20, <1>21, <1>22,
          <1>23, <1>24, <1>25, <1>26, <1>27, <1>28, <1>29, <1>30, <1>31,
          <1>32, <1>33, <1>34, <1>35, <1>36 DEF Next, AgentStep, UserStep

\* All bait stays vouched for.
LEMMA BaitVouchedStep ==
  ASSUME TypeOK, Current, InHand, WipedClean, BaitVouched, [Next]_vars
  PROVE  BaitVouched'
<1>1. agent \in Agents /\ disk \in [Paths -> Contents] /\ begun \subseteq Paths
  BY DEF TypeOK
<1>2. agent.pc \in Planting \cup {"forget"} => path \in Paths
  BY LiveSyncAssumption DEF Current, path
<1>3. \A t \in Tripwires : PathOf[t] \in Paths BY LiveSyncAssumption
<1>4. ASSUME Start PROVE BaitVouched'
  BY <1>1, <1>2, <1>3, <1>4 DEF Start, BaitVouched, InHand, WipedClean, path,
         Fifo, Agents, Planting, Bait, At, Goto, Down, Swept
<1>5. ASSUME Preflight PROVE BaitVouched'
  BY <1>1, <1>2, <1>3, <1>5 DEF Preflight, BaitVouched, InHand, WipedClean,
         path, Fifo, Agents, Planting, Bait, At, Goto
<1>6. ASSUME Enroll PROVE BaitVouched'
  BY <1>1, <1>2, <1>3, <1>6 DEF Enroll, BaitVouched, InHand, WipedClean, path,
         Fifo, Agents, Planting, Bait, At, Goto
<1>7. ASSUME Pull PROVE BaitVouched'
  BY <1>1, <1>2, <1>3, <1>7 DEF Pull, BaitVouched, InHand, WipedClean, path,
         Fifo, Agents, Planting, Bait, At, Goto, Pulled
<1>8. ASSUME Resync PROVE BaitVouched'
  BY <1>1, <1>2, <1>3, <1>8 DEF Resync, BaitVouched, InHand, WipedClean, path,
         Fifo, Agents, Planting, Bait, At, Goto
<1>9. ASSUME Wake PROVE BaitVouched'
  BY <1>1, <1>2, <1>3, <1>9 DEF Wake, BaitVouched, InHand, WipedClean, path,
         Fifo, Agents, Planting, Bait, At, Goto
<1>10. ASSUME NEW t \in Tripwires, PlantNext(t) PROVE BaitVouched'
  BY <1>1, <1>2, <1>3, <1>10 DEF PlantNext, BaitVouched, InHand, WipedClean,
         path, Fifo, Agents, Planting, Bait, At, Goto
<1>11. ASSUME PlantEnd PROVE BaitVouched'
  BY <1>1, <1>2, <1>3, <1>11 DEF PlantEnd, BaitVouched, InHand, WipedClean,
         path, Fifo, Agents, Planting, Bait, At, Goto, Down
<1>12. ASSUME Check PROVE BaitVouched'
  BY <1>1, <1>2, <1>3, <1>12 DEF Check, BaitVouched, InHand, WipedClean, path,
         Fifo, Agents, Planting, Bait, At, Goto
<1>13. ASSUME Fetch PROVE BaitVouched'
  BY <1>1, <1>2, <1>3, <1>13 DEF Fetch, BaitVouched, InHand, WipedClean, path,
         Fifo, Agents, Planting, Bait, At, Goto, Put, Keep
<1>14. ASSUME Clear PROVE BaitVouched'
  BY <1>1, <1>2, <1>3, <1>14 DEF Clear, BaitVouched, InHand, WipedClean, path,
         Fifo, Agents, Planting, Bait, At, Goto, Put, Keep
<1>15. ASSUME Record PROVE BaitVouched'
  BY <1>1, <1>2, <1>3, <1>15 DEF Record, BaitVouched, InHand, WipedClean,
         path, Fifo, Agents, Planting, Bait, At, Goto
<1>16. ASSUME Mkfifo PROVE BaitVouched'
  BY <1>1, <1>2, <1>3, <1>16 DEF Mkfifo, BaitVouched, InHand, WipedClean,
         path, Fifo, Agents, Planting, Bait, At, Goto, Put, Keep
<1>17. ASSUME PlantReport PROVE BaitVouched'
  BY <1>1, <1>2, <1>3, <1>17 DEF PlantReport, BaitVouched, InHand, WipedClean,
         path, Fifo, Agents, Planting, Bait, At, Goto
<1>18. ASSUME NEW t \in Tripwires, Remove(t) PROVE BaitVouched'
  BY <1>1, <1>2, <1>3, <1>18 DEF Remove, BaitVouched, InHand, WipedClean,
         path, Fifo, Agents, Planting, Bait, At, Goto, Put, Keep
<1>19. ASSUME Forget PROVE BaitVouched'
  BY <1>1, <1>2, <1>3, <1>19 DEF Forget, BaitVouched, InHand, WipedClean,
         path, Fifo, Agents, Planting, Bait, At, Goto
<1>20. ASSUME RemoveEnd PROVE BaitVouched'
  BY <1>1, <1>2, <1>3, <1>20 DEF RemoveEnd, BaitVouched, InHand, WipedClean,
         path, Fifo, Agents, Planting, Bait, At, Goto
<1>21. ASSUME NEW t \in Tripwires, Verify(t) PROVE BaitVouched'
  BY <1>1, <1>2, <1>3, <1>21 DEF Verify, BaitVouched, InHand, WipedClean,
         path, Fifo, Agents, Planting, Bait, At, Goto, Verified
<1>22. ASSUME VerifyEnd PROVE BaitVouched'
  BY <1>1, <1>2, <1>3, <1>22 DEF VerifyEnd, BaitVouched, InHand, WipedClean,
         path, Fifo, Agents, Planting, Bait, At, Goto
<1>23. ASSUME Heartbeat PROVE BaitVouched'
  BY <1>1, <1>2, <1>3, <1>23 DEF Heartbeat, BaitVouched, InHand, WipedClean,
         path, Fifo, Agents, Planting, Bait, At, Goto, Down, Slip
<1>24. ASSUME Terminate PROVE BaitVouched'
  BY <1>1, <1>2, <1>3, <1>24 DEF Terminate, BaitVouched, InHand, WipedClean,
         path, Fifo, Agents, Planting, Bait, At, Goto, Down, Swept, Slip
<1>25. ASSUME Kill PROVE BaitVouched'
  BY <1>1, <1>2, <1>3, <1>25 DEF Kill, BaitVouched, InHand, WipedClean, path,
         Fifo, Agents, Planting, Bait, At, Goto, Down, Slip
<1>26. ASSUME Unplanted PROVE BaitVouched'
  BY <1>1, <1>2, <1>3, <1>26 DEF Unplanted, BaitVouched, InHand, WipedClean,
         path, Fifo, Agents, Planting, Bait, At, Goto
<1>27. ASSUME Confirm PROVE BaitVouched'
  BY <1>1, <1>2, <1>3, <1>27 DEF Confirm, BaitVouched, InHand, WipedClean,
         path, Fifo, Agents, Planting, Bait, At, Goto
<1>28. ASSUME Wipe PROVE BaitVouched'
  BY <1>1, <1>2, <1>3, <1>28 DEF Wipe, BaitVouched, InHand, WipedClean, path,
         Fifo, Agents, Planting, Bait, At, Goto
<1>29. ASSUME Cool PROVE BaitVouched'
  BY <1>1, <1>2, <1>3, <1>29 DEF Cool, BaitVouched, InHand, WipedClean, path,
         Fifo, Agents, Planting, Bait, At, Goto
<1>30. ASSUME NEW p \in Paths, Unplant(p) PROVE BaitVouched'
  BY <1>1, <1>2, <1>3, <1>30 DEF Unplant, BaitVouched, InHand, WipedClean,
         path, Fifo, Agents, Planting, Bait, At, Goto, Put
<1>31. ASSUME NEW p \in Paths, UserWrites(p) PROVE BaitVouched'
  BY <1>1, <1>2, <1>3, <1>31 DEF UserWrites, BaitVouched, InHand, WipedClean,
         path, Fifo, Agents, Planting, Bait, At, Goto, Put
<1>32. ASSUME NEW p \in Paths, UserLinks(p) PROVE BaitVouched'
  BY <1>1, <1>2, <1>3, <1>32 DEF UserLinks, BaitVouched, InHand, WipedClean,
         path, Fifo, Agents, Planting, Bait, At, Goto, Put
<1>33. ASSUME NEW p \in Paths, UserRemoves(p) PROVE BaitVouched'
  BY <1>1, <1>2, <1>3, <1>33 DEF UserRemoves, BaitVouched, InHand, WipedClean,
         path, Fifo, Agents, Planting, Bait, At, Goto, Put
<1>34. CASE \/ Decommission \/ DeleteEndpoint
  BY <1>1, <1>34 DEF Decommission, DeleteEndpoint, BaitVouched, At, path, Fifo
<1>35. ASSUME NEW t \in Tripwires, Assign(t) \/ Unassign(t)
      PROVE  BaitVouched'
  BY <1>1, <1>35 DEF Assign, Unassign, BaitVouched, At, path, Fifo
<1>36. CASE UNCHANGED vars
  BY <1>1, <1>36 DEF vars, BaitVouched, At, path, Fifo
<1>. QED BY <1>4, <1>5, <1>6, <1>7, <1>8, <1>9, <1>10, <1>11, <1>12, <1>13,
          <1>14, <1>15, <1>16, <1>17, <1>18, <1>19, <1>20, <1>21, <1>22,
          <1>23, <1>24, <1>25, <1>26, <1>27, <1>28, <1>29, <1>30, <1>31,
          <1>32, <1>33, <1>34, <1>35, <1>36 DEF Next, AgentStep, UserStep

-----------------------------------------------------------------------------
\* The invariant.

LEMMA IndInvInit == Init => IndInv
<1>1. Init => TypeOK /\ Current BY TypeInit
<1>2. Init => InHand /\ UserApart /\ WipedClean
  BY DEF Init, Down, InHand, UserApart, WipedClean, AtWork, At
<1>3. Init => BaitVouched BY DEF Init, BaitVouched, Bait
<1>. QED BY <1>1, <1>2, <1>3 DEF IndInv

LEMMA IndInvStep == IndInv /\ [Next]_vars => IndInv'
<1>. SUFFICES ASSUME IndInv, [Next]_vars PROVE IndInv' OBVIOUS
<1>1. TypeOK /\ Current BY DEF IndInv
<1>2. TypeOK'
  BY <1>1, ServerTypes, DiskTypes, RecordTypes, AgentTypes
  DEF TypeOK, Records
<1>3. Current' BY <1>1, CurrentStep
<1>4. InHand' BY <1>1, InHandStep DEF IndInv
<1>5. UserApart' BY <1>1, UserApartStep DEF IndInv
<1>6. WipedClean' BY <1>1, WipedCleanStep DEF IndInv
<1>7. BaitVouched' BY <1>1, BaitVouchedStep DEF IndInv
<1>. QED BY <1>2, <1>3, <1>4, <1>5, <1>6, <1>7 DEF IndInv

\* The inductive invariant holds in every reachable state, for any sets of
\* tripwires and paths and any number of faults.
THEOREM Inductive == Spec => []IndInv
BY IndInvInit, IndInvStep, PTL DEF Spec

\* The variables of the agent and the rows keep their types.
THEOREM TypeCorrect == Spec => []TypeOK
<1>1. IndInv => TypeOK BY DEF IndInv
<1>. QED BY <1>1, Inductive, PTL

\* All bait on disk is in the manifest, or slipped from it with a kill between
\* the write and the record.
THEOREM BaitIsVouched == Spec => []BaitVouched
<1>1. IndInv => BaitVouched BY DEF IndInv
<1>. QED BY <1>1, Inductive, PTL

\* No step of the agent touches a file the user made where it planted nothing.
LEMMA UserFilesStep ==
  ASSUME IndInv, [Next]_vars
  PROVE  \A p \in Paths : disk[p] = "user" /\ disk'[p] # "user" => UserStep
<1>. SUFFICES ASSUME NEW q \in Paths, disk[q] = "user", disk'[q] # "user"
              PROVE  UserStep
  OBVIOUS
<1>1. disk \in [Paths -> Contents] /\ q \notin begun /\ q \notin manifest
  BY DEF IndInv, TypeOK, UserApart
<1>2. agent.pc \in AtWork => path # q BY <1>1 DEF IndInv, InHand
<1>3. CASE Start \/ Terminate BY <1>1, <1>3 DEF Start, Terminate, Swept
<1>4. CASE Fetch BY <1>1, <1>2, <1>4 DEF Fetch, Put, Keep, At, AtWork
<1>5. CASE Clear BY <1>1, <1>2, <1>5 DEF Clear, Put, Keep, At, AtWork
<1>6. CASE Mkfifo BY <1>1, <1>2, <1>6 DEF Mkfifo, Put, Keep, At, AtWork
<1>7. ASSUME NEW t \in Tripwires, Remove(t) PROVE FALSE
  BY <1>1, <1>7 DEF Remove, Put, Keep
<1>8. ASSUME NEW p \in Paths, Unplant(p) PROVE FALSE
  BY <1>1, <1>8 DEF Unplant, Put
<1>9. CASE \/ Preflight \/ Enroll \/ Pull \/ Resync \/ Wake \/ PlantEnd \/ Check
          \/ Record \/ PlantReport \/ Forget \/ RemoveEnd \/ VerifyEnd
          \/ Unplanted \/ Confirm \/ Wipe \/ Heartbeat \/ Kill \/ Cool
          \/ Decommission \/ DeleteEndpoint
  BY <1>9 DEF Preflight, Enroll, Pull, Resync, Wake, PlantEnd, Check, Record,
         PlantReport, Forget, RemoveEnd, VerifyEnd, Unplanted, Confirm, Wipe,
         Heartbeat, Kill, Cool, Decommission, DeleteEndpoint
<1>10. ASSUME NEW t \in Tripwires, PlantNext(t) \/ Verify(t) \/ Assign(t) \/ Unassign(t)
       PROVE  FALSE
  BY <1>10 DEF PlantNext, Verify, Assign, Unassign
<1>11. CASE UNCHANGED vars BY <1>11 DEF vars
<1>. QED BY <1>3, <1>4, <1>5, <1>6, <1>7, <1>8, <1>9, <1>10, <1>11
         DEF Next, AgentStep

\* For any paths, tripwires and faults: the user's own files are safe.
THEOREM UserFilesAreKept == Spec => KeepsUserFiles
<1>1. IndInv /\ [Next]_vars =>
        [\A p \in Paths :
           disk[p] = "user" /\ disk'[p] # "user" => UserStep]_vars
  BY UserFilesStep
<1>. QED BY <1>1, Inductive, PTL DEF Spec, KeepsUserFiles
=============================================================================
