----------------------------- MODULE Onboarding -----------------------------
(***************************************************************************)
(* A host is onboarded by an assignment of a host config and by a cluster  *)
(* role.  Terraform works on the two resources at the same time, and the   *)
(* removal of the role makes the host's endpoints answer 404 while the     *)
(* assignment is read or removed.                                          *)
(***************************************************************************)
EXTENDS HostConfigs, HostRole

vars == <<hostVars, configVars, roleVars, trouble, assignmentVars, roleRows>>

TypeOK == ResmgrType /\ HostConfigsType /\ HostRoleType

Init == ResmgrInit /\ HostConfigsInit /\ HostRoleInit

Next ==
    \/ HostConfigsNext /\ UNCHANGED roleRows
    \/ HostRoleNext /\ UNCHANGED assignmentVars
    \/ ResmgrWork /\ UNCHANGED <<assignmentVars, roleRows>>

Spec == Init /\ [][Next]_vars
=============================================================================
