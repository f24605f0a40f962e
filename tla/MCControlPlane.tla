--------------------------- MODULE MCControlPlane ---------------------------
(***************************************************************************)
(* Model values for ControlPlane.  Rows, machines and handlers are         *)
(* interchangeable, so their sets are symmetric.                           *)
(***************************************************************************)
EXTENDS ControlPlane, TLC

\* Who puts rows in the tables and who takes them out.
RegistryOps == {"CreateTripwire", "DeleteTripwire", "Assign", "Enroll",
                "ForceRemove"}

\* The path of an alert, with the writers that compete with it.
AlertOps == {"CreateTripwire", "UpdateTripwire", "DeleteTripwire", "Enroll",
             "Unassign", "Report", "Trigger", "Resolve", "ResolveDeployment", "ResolveAll",
             "Pull", "Heartbeat", "Decommission", "Decommissioned",
             "ListEndpoints"}

\* Assigning a tripwire while it is being deleted.
AssignOps == {"CreateTripwire", "DeleteTripwire", "Assign", "Enroll"}

\* Listing the endpoints while their hosts enroll.
PruneOps == {"Enroll", "ListEndpoints"}

Persistent == {FALSE}
AnyLifetime == BOOLEAN

Symmetry == UNION {Permutations(Tripwires), Permutations(Endpoints),
                   Permutations(Deployments), Permutations(Requests),
                   Permutations(Machines), Permutations(Alerts)}
=============================================================================
