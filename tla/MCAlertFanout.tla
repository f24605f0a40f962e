--------------------------- MODULE MCAlertFanout ----------------------------
(***************************************************************************)
(* Model values for AlertFanout: two alert plugins and a deploy plugin.    *)
(***************************************************************************)
EXTENDS AlertFanout, TLC

\* What changes the rows a task has loaded.
FanoutOps == {"Save", "Delete"}

Symmetry == UNION {Permutations(AlertPlugins), Permutations(DeployPlugins),
                   Permutations(Requests)}
=============================================================================
