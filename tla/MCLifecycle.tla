--------------------------- MODULE MCLifecycle ---------------------------
(* Two interfaces; the user applies one section or two, so that a merge    *)
(* keeps, replaces and adds, and texts of equal and other lengths occur.   *)
EXTENDS Lifecycle, TLC

CONSTANTS eth0, eth1

MCConfigs ==
  {<<eth0, "tcp">> :> 1,
   <<eth1, "udp">> :> 1,
   (<<eth0, "udp">> :> 1) @@ (<<eth1, "udp">> :> 2)}

\* One interface, for the runs with three racing commands.
MCOneInterface == {<<eth0, "tcp">> :> 1}

Symmetry == Permutations(Procs)

\* Everything that a guard reads: not the indices, not the histories.
GuardState == <<dirs, pins, links, attached, nics, loaded, enabled, proc>>
=============================================================================
