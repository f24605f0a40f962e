------------------------------ MODULE Registry ------------------------------
(***************************************************************************)
(* The registry the server presents to operators and agents, each change   *)
(* in one step: which tripwires there are, which hosts are enrolled, which *)
(* of them are being decommissioned, and what is to be planted where.      *)
(* A host is known by its machine_id.  It counts once however often it     *)
(* enrolls, keeps its decommission flag until it is removed, and takes     *)
(* all its plants with it; so does a tripwire.                             *)
(***************************************************************************)
CONSTANTS Tripwires, Machines

VARIABLES tripwires,  \* the tripwires that exist
          hosts,      \* the machines that are enrolled
          flagged,    \* those of them that were told to decommission
          plants      \* what is assigned where, and its last known state

States == {"pending", "planted", "failed"}

Init == tripwires = {} /\ hosts = {} /\ flagged = {} /\ plants = {}

Create(t) == /\ t \notin tripwires
             /\ tripwires' = tripwires \cup {t}
             /\ UNCHANGED <<hosts, flagged, plants>>

Drop(t) == /\ t \in tripwires
           /\ tripwires' = tripwires \ {t}
           /\ plants' = {p \in plants : p.tripwire # t}
           /\ UNCHANGED <<hosts, flagged>>

Enroll(m) == /\ m \notin hosts
             /\ hosts' = hosts \cup {m}
             /\ UNCHANGED <<tripwires, flagged, plants>>

Flag(m) == /\ m \in hosts \ flagged
           /\ flagged' = flagged \cup {m}
           /\ UNCHANGED <<tripwires, hosts, plants>>

Remove(m) == /\ m \in hosts
             /\ hosts' = hosts \ {m}
             /\ flagged' = flagged \ {m}
             /\ plants' = {p \in plants : p.host # m}
             /\ UNCHANGED tripwires

Assign(t, m) ==
  /\ t \in tripwires /\ m \in hosts
  /\ \A p \in plants : p.tripwire # t \/ p.host # m
  /\ plants' = plants \cup {[tripwire |-> t, host |-> m, state |-> "pending"]}
  /\ UNCHANGED <<tripwires, hosts, flagged>>

Unassign(p) == /\ p \in plants
               /\ plants' = plants \ {p}
               /\ UNCHANGED <<tripwires, hosts, flagged>>

\* A report of the agent, or the first alert of a plant still pending.
Report(p, s) == /\ p \in plants
                /\ plants' = (plants \ {p}) \cup {[p EXCEPT !.state = s]}
                /\ UNCHANGED <<tripwires, hosts, flagged>>

Next == \/ \E t \in Tripwires : Create(t) \/ Drop(t)
        \/ \E m \in Machines : Enroll(m) \/ Flag(m) \/ Remove(m)
        \/ \E t \in Tripwires, m \in Machines : Assign(t, m)
        \/ \E p \in plants : Unassign(p) \/ \E s \in States : Report(p, s)

Spec == Init /\ [][Next]_<<tripwires, hosts, flagged, plants>>
=============================================================================
