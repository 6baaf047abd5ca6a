-------------------------- MODULE OnboardingProofs --------------------------
(***************************************************************************)
(* What Onboarding promises about host configs, for every number of hosts, *)
(* host configs and failures.                                              *)
(***************************************************************************)
EXTENDS Onboarding, TLAPS

\* What NoHostStranded rests on: a config that has passed the check stays unbound
\* but for the hosts the check was not shown.
BindingsTyped == bound \in [Hosts -> HostConfigs \cup {None}]

CheckedUnbound ==
    /\ checked \subseteq HostConfigs
    /\ \A c \in checked, h \in Hosts : bound[h] # c \/ <<h, c>> \in unseen

IInv == BindingsTyped /\ CheckedUnbound /\ NoHostStranded

\* The invariant asks nothing of a host that carries nothing: losing a binding, and
\* gaining or keeping configs, never disturbs it.
LEMMA UnbindingKeeps ==
    ASSUME IInv,
           bound' \in [Hosts -> HostConfigs \cup {None}],
           \A h \in Hosts : bound'[h] \in {bound[h], None},
           configs \subseteq configs', checked' \subseteq checked, unseen \subseteq unseen'
    PROVE  IInv'
<1>1. BindingsTyped' BY DEF BindingsTyped
<1>2. CheckedUnbound'
  <2>1. None \notin HostConfigs BY ResmgrAssumption
  <2> QED BY <2>1 DEF IInv, CheckedUnbound
<1>3. NoHostStranded' BY DEF IInv, NoHostStranded
<1> QED BY <1>1, <1>2, <1>3 DEF IInv

\* A step of the resource manager unbinds hosts at most.
LEMMA ResmgrKeeps ==
    ASSUME IInv, ResmgrWork, UNCHANGED <<checked, unseen>>
    PROVE  IInv'
<1> PICK h \in Hosts : \/ UnbindLater(h) \/ Expand(h) \/ Converge(h) \/ Describe(h)
                       \/ Decommission(h) \/ Return(h)
  BY DEF ResmgrWork
<1>1. bound \in [Hosts -> HostConfigs \cup {None}] BY DEF IInv, BindingsTyped
<1>2. CASE UnbindLater(h)
  <2>1. UNCHANGED configs BY <1>2 DEF UnbindLater
  <2>2. bound' = bound \/ bound' = [bound EXCEPT ![h] = None] BY <1>2 DEF UnbindLater
  <2> QED BY <1>1, <2>1, <2>2, UnbindingKeeps
<1>3. CASE ~UnbindLater(h)
  <2>1. UNCHANGED <<bound, configs>>
    BY <1>3 DEF Expand, Converge, Describe, Decommission, Return, configVars
  <2> QED BY <1>1, <2>1, UnbindingKeeps
<1> QED BY <1>2, <1>3

-----------------------------------------------------------------------------
(* The steps of the provider's handlers.                                   *)

\* The check, of whatever list it was shown.
LEMMA CheckKeeps ==
    ASSUME IInv, NEW c \in HostConfigs, CheckUnassigned(c)
    PROVE  IInv'
<1>1. bound' = bound /\ configs' = configs /\ checked' = checked \cup {c} /\ c \notin checked
  BY DEF CheckUnassigned, configVars
<1>2. PICK hosts \in {listed, {}} :
          hostsAssignedTo(c, hosts) = {} /\ Believe(Hosts, c, hosts)
  BY DEF CheckUnassigned
<1>3. \A h \in Hosts : bound[h] # c \/ <<h, c>> \in unseen'
  BY <1>2 DEF hostsAssignedTo, Believe
<1>4. unseen \subseteq unseen' BY <1>2 DEF Believe
<1>5. BindingsTyped' BY <1>1 DEF IInv, BindingsTyped
<1>6. CheckedUnbound' BY <1>1, <1>3, <1>4 DEF IInv, CheckedUnbound
<1>7. NoHostStranded' BY <1>1, <1>4 DEF IInv, NoHostStranded
<1> QED BY <1>5, <1>6, <1>7 DEF IInv

\* The other operations on host configs.
LEMMA HostConfigKeeps ==
    ASSUME IInv,
           \/ CreateHostConfig
           \/ \E c \in HostConfigs : ReadHostConfig(c) \/ DeleteHostConfig(c)
    PROVE  IInv'
<1>1. bound \in [Hosts -> HostConfigs \cup {None}] BY DEF IInv, BindingsTyped
<1>2. CASE CreateHostConfig
  BY <1>1, <1>2, UnbindingKeeps DEF CreateHostConfig
<1>3. ASSUME NEW c \in HostConfigs, ReadHostConfig(c) PROVE IInv'
  BY <1>1, <1>3, UnbindingKeeps DEF ReadHostConfig, configVars
<1>4. ASSUME NEW c \in HostConfigs, DeleteHostConfig(c) PROVE IInv'
  <2>1. /\ c \in checked /\ bound' = bound /\ checked' = checked \ {c} /\ UNCHANGED unseen
        /\ configs \ {c} \subseteq configs'
    BY <1>4 DEF DeleteHostConfig
  <2>2. BindingsTyped' BY <1>1, <2>1 DEF BindingsTyped
  <2>3. CheckedUnbound' BY <2>1 DEF IInv, CheckedUnbound
  <2>4. NoHostStranded' BY <2>1 DEF IInv, CheckedUnbound, NoHostStranded
  <2> QED BY <2>2, <2>3, <2>4 DEF IInv
<1> QED BY <1>2, <1>3, <1>4

\* The operations on assignments: only Create binds, and only to a config that
\* exists and that no Delete has checked.
LEMMA AssignmentKeeps ==
    ASSUME IInv,
           \/ \E h \in Hosts, c \in HostConfigs : Assign(h, c)
           \/ \E h \in Hosts : \/ ReadAssignment(h) \/ ImportAssignment(h)
                               \/ Unassign(h) \/ waitUnassigned(h)
    PROVE  IInv'
<1>1. bound \in [Hosts -> HostConfigs \cup {None}] BY DEF IInv, BindingsTyped
<1>2. ASSUME NEW h \in Hosts, NEW c \in HostConfigs, Assign(h, c) PROVE IInv'
  <2>1. /\ c \in configs /\ c \notin checked
        /\ bound' = [bound EXCEPT ![h] = c] /\ UNCHANGED <<configs, checked, unseen>>
    BY <1>2 DEF Assign, Bindable
  <2>2. BindingsTyped' BY <1>1, <2>1 DEF BindingsTyped
  <2>3. CheckedUnbound' BY <1>1, <2>1 DEF IInv, CheckedUnbound
  <2>4. NoHostStranded' BY <1>1, <2>1 DEF IInv, NoHostStranded
  <2> QED BY <2>2, <2>3, <2>4 DEF IInv
<1>3. ASSUME NEW h \in Hosts, ReadAssignment(h) \/ ImportAssignment(h) \/ waitUnassigned(h)
      PROVE  IInv'
  BY <1>1, <1>3, UnbindingKeeps
  DEF ReadAssignment, ImportAssignment, waitUnassigned, Believe, configVars
<1>4. ASSUME NEW h \in Hosts, Unassign(h) PROVE IInv'
  <2>1. /\ bound' = bound \/ bound' = [bound EXCEPT ![h] = None]
        /\ UNCHANGED <<configs, checked, unseen>>
    BY <1>4 DEF Unassign
  <2> QED BY <1>1, <2>1, UnbindingKeeps
<1> QED BY <1>2, <1>3, <1>4

-----------------------------------------------------------------------------
(* The results.                                                            *)

\* The work on a role never touches what the invariant is about.
LEMMA RoleKeeps ==
    ASSUME IInv, HostRoleNext, UNCHANGED assignmentVars
    PROVE  IInv'
<1>1. UNCHANGED <<bound, configs, checked, unseen>>
  <2>1. PICK h \in Hosts :
          \/ Configure(h) \/ Apply(h) \/ Untaint(h)
          \/ PutRole(h) \/ WaitConverged(h) \/ ReadSettings(h) \/ WriteSettings(h)
          \/ UpdateRead(h) \/ UpdateWrite(h) \/ Remove(h) \/ ReadRole(h) \/ ImportRole(h)
    BY DEF HostRoleNext
  <2>2. UNCHANGED <<bound, configs>>
    BY <2>1 DEF Configure, Apply, Untaint, PutRole, WaitConverged, ReadSettings,
                WriteSettings, UpdateRead, UpdateWrite, Remove, ReadRole, ImportRole,
                Nothing, Untouched, configVars
  <2> QED BY <2>2 DEF assignmentVars
<1> QED BY <1>1 DEF IInv, BindingsTyped, CheckedUnbound, NoHostStranded

\* The invariant of every step.
LEMMA Invariance == Spec => []IInv
<1>1. Init => IInv
  BY DEF Init, ResmgrInit, HostConfigsInit, IInv, BindingsTyped, CheckedUnbound,
         NoHostStranded
<1>2. IInv /\ [Next]_vars => IInv'
  <2> SUFFICES ASSUME IInv, [Next]_vars PROVE IInv'
    OBVIOUS
  <2>1. CASE HostConfigsNext
    BY <2>1, CheckKeeps, HostConfigKeeps, AssignmentKeeps DEF HostConfigsNext
  <2>2. CASE HostRoleNext /\ UNCHANGED assignmentVars
    BY <2>2, RoleKeeps
  <2>3. CASE ResmgrWork /\ UNCHANGED assignmentVars
    BY <2>3, ResmgrKeeps DEF assignmentVars
  <2>4. CASE UNCHANGED vars
    BY <2>4 DEF vars, configVars, assignmentVars, IInv, BindingsTyped, CheckedUnbound,
                NoHostStranded
  <2> QED BY <2>1, <2>2, <2>3, <2>4 DEF Next
<1> QED BY <1>1, <1>2, PTL DEF Spec

\* The recorded assignments: a host's is None or a host config.
AssignedTyped == assigned \in [Hosts -> HostConfigs \cup {None}]

LEMMA AssignedInvariance == Spec => []AssignedTyped
<1>1. Init => AssignedTyped
  BY DEF Init, HostConfigsInit, AssignedTyped
<1>2. IInv /\ AssignedTyped /\ [Next]_vars => AssignedTyped'
  <2> SUFFICES ASSUME IInv, AssignedTyped, [Next]_vars PROVE AssignedTyped'
    OBVIOUS
  <2>1. CASE UNCHANGED assigned
    BY <2>1 DEF AssignedTyped
  <2>2. ASSUME NEW h \in Hosts, NEW c \in HostConfigs, Assign(h, c) PROVE AssignedTyped'
    BY <2>2 DEF Assign, AssignedTyped
  <2>3. ASSUME NEW h \in Hosts, ReadAssignment(h) \/ ImportAssignment(h) \/ waitUnassigned(h)
        PROVE  AssignedTyped'
    <3>1. bound[h] \in HostConfigs \cup {None} BY DEF IInv, BindingsTyped
    <3> QED BY <2>3, <3>1 DEF ReadAssignment, ImportAssignment, waitUnassigned, AssignedTyped
  <2> QED BY <2>1, <2>2, <2>3
          DEF Next, vars, assignmentVars, HostConfigsNext, CreateHostConfig, ReadHostConfig,
              CheckUnassigned, DeleteHostConfig, Unassign
<1> QED BY <1>1, <1>2, Invariance, PTL DEF Spec

\* No host carries a host config that Terraform deleted, unless the answer the Delete
\* went by did not show the host (host_config_resource.go's Delete).
THEOREM NobodyStranded == Spec => []NoHostStranded
BY Invariance, PTL DEF IInv

\* An assignment leaves the state only when its host no longer carries the config, or
\* no answer showed the host (resmgr.go's hostRecord and waitUnassigned).
THEOREM AssignmentsAreKept == Spec => AssignmentsKept
<1> DEFINE Kept == \A h \in Hosts :
               assigned[h] # None /\ assigned'[h] = None =>
                 bound'[h] # assigned[h] \/ <<h, assigned[h]>> \in unseen'
<1>1. AssignedTyped /\ [Next]_vars => [Kept]_<<assigned, bound>>
  <2> SUFFICES ASSUME AssignedTyped, Next, NEW h \in Hosts,
                      assigned[h] # None, assigned'[h] = None
               PROVE  bound'[h] # assigned[h] \/ <<h, assigned[h]>> \in unseen'
    BY DEF vars, hostVars, configVars, assignmentVars
  <2>1. HostConfigsNext
    BY DEF Next, assignmentVars
  <2>2. PICK g \in Hosts : \/ \E c \in HostConfigs : Assign(g, c)
                           \/ ReadAssignment(g) \/ ImportAssignment(g) \/ waitUnassigned(g)
    BY <2>1 DEF HostConfigsNext, CreateHostConfig, ReadHostConfig, CheckUnassigned,
                DeleteHostConfig, Unassign
  <2>3. ASSUME NEW c \in HostConfigs, Assign(g, c) PROVE FALSE
    <3>1. None \notin HostConfigs BY ResmgrAssumption
    <3> QED BY <2>3, <3>1 DEF Assign, AssignedTyped
  <2>4. CASE ReadAssignment(g)
    <3>1. PICK hosts \in {listed, {}} :
              /\ Believe({g}, assigned[g], hosts)
              /\ g \notin hosts \/ bound[g] # assigned[g]
      BY <2>4 DEF ReadAssignment, hostRecord
    <3> QED BY <2>4, <3>1 DEF ReadAssignment, Believe, configVars, AssignedTyped
  <2>5. CASE ImportAssignment(g)
    BY <2>5 DEF ImportAssignment, AssignedTyped
  <2>6. CASE waitUnassigned(g)
    <3>1. PICK hosts \in {listed, {}} :
              /\ Believe({g}, assigned[g], hosts)
              /\ g \notin hosts \/ bound[g] # assigned[g]
      BY <2>6 DEF waitUnassigned, hostsAssignedTo
    <3> QED BY <2>6, <3>1 DEF waitUnassigned, Believe, configVars, AssignedTyped
  <2> QED BY <2>2, <2>3, <2>4, <2>5, <2>6
<1> QED BY <1>1, AssignedInvariance, PTL DEF Spec, AssignmentsKept
=============================================================================
