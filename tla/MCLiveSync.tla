----------------------------- MODULE MCLiveSync -----------------------------
(***************************************************************************)
(* Model values for LiveSync: a regular bait of the install command, and a *)
(* FIFO bait that the operator may assign at the same path.                *)
(***************************************************************************)
EXTENDS LiveSync, TLC

CONSTANTS aws, ssh, p1

Sensor == aws :> "atime" @@ ssh :> "fifo"
SamePath == aws :> p1 @@ ssh :> p1

OneSensor == aws :> "atime"
OnePath == aws :> p1
=============================================================================
