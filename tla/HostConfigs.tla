---------------------------- MODULE HostConfigs ----------------------------
(***************************************************************************)
(* pcd_host_config and pcd_host_config_assignment: the rows of a           *)
(* configuration, and what their operations do to the resource manager.    *)
(* resmgr deletes a host config that a host still carries, and that host   *)
(* can never carry another; these handlers keep it from getting there.     *)
(***************************************************************************)
EXTENDS Resmgr

VARIABLES
    hostConfigs,    \* Terraform state: the recorded host configs
    checked,        \* host configs whose Delete has passed its check
    assigned,       \* Terraform state: the assignment recorded for each host
    unassigning,    \* hosts whose assignment's Delete awaits confirmation
    unseen          \* history: which host carried which config when a handler took
                    \* an answer that did not show the host for its not carrying it

assignmentVars == <<hostConfigs, checked, assigned, unassigning, unseen>>

HostConfigsType ==
    /\ hostConfigs \subseteq HostConfigs /\ checked \subseteq hostConfigs
    /\ assigned \in [Hosts -> HostConfigs \cup {None}]
    /\ unassigning \subseteq Hosts /\ unseen \subseteq Hosts \X (HostConfigs \cup {None})

HostConfigsInit ==
    /\ hostConfigs = {} /\ checked = {} /\ unseen = {}
    /\ assigned = [h \in Hosts |-> None] /\ unassigning = {}

\* An answer that shows only the hosts of shown is taken to say that none of the
\* hosts carries c.
Believe(hosts, c, shown) ==
    unseen' = unseen \cup {<<h, c>> : h \in {g \in hosts \ shown : bound[g] = c}}

-----------------------------------------------------------------------------
(* pcd_host_config.                                                        *)

\* Create: once the POST is answered the row is written, read back or not.  A
\* POST whose answer is lost leaves a config nobody recorded.
CreateHostConfig == \E c \in fresh :
    /\ fresh' = fresh \ {c} /\ configs' = configs \cup {c}
    /\ \/ Calm /\ hostConfigs' = hostConfigs \cup {c}
       \/ Trouble /\ UNCHANGED hostConfigs
    /\ UNCHANGED <<bound, leaving, checked, assigned, unassigning, unseen>>

\* Read: only a 404, or a 200 with a null body, drops the row.
ReadHostConfig(c) ==
    /\ c \in hostConfigs \ (checked \cup configs)
    /\ hostConfigs' = hostConfigs \ {c}
    /\ Calm /\ UNCHANGED <<configVars, checked, assigned, unassigning, unseen>>

\* Terraform destroys a host config once no assignment it knows of names it.
Unreferenced(c) == \A h \in Hosts : assigned[h] # c

\* Mutant of CheckUnassigned: a check that cannot be completed is skipped.
CheckUnassignedFailsOpen(c) ==
    /\ c \in hostConfigs \ checked /\ Unreferenced(c)
    /\ \/ hostsAssignedTo(c, listed) = {} /\ Calm /\ Believe(Hosts, c, listed)
       \/ Trouble /\ UNCHANGED unseen
    /\ checked' = checked \cup {c}
    /\ UNCHANGED <<configVars, hostConfigs, assigned, unassigning>>

\* Delete first asks the list which hosts carry the config, and ends with an error
\* when one does or when the list cannot be had; one without a body has no hosts.
CheckUnassigned(c) ==
    /\ c \in hostConfigs \ checked /\ Unreferenced(c)
    /\ \E hosts \in {listed, {}} :
          Shows(hosts) /\ hostsAssignedTo(c, hosts) = {} /\ Believe(Hosts, c, hosts)
    /\ checked' = checked \cup {c}
    /\ UNCHANGED <<configVars, hostConfigs, assigned, unassigning>>

\* Then it deletes the config; a 404 is fine.  A lost answer leaves the row.
DeleteHostConfig(c) ==
    /\ c \in checked
    /\ checked' = checked \ {c}
    /\ \/ Calm /\ configs' = configs \ {c} /\ hostConfigs' = hostConfigs \ {c}
       \/ Trouble /\ configs' \in {configs, configs \ {c}} /\ UNCHANGED hostConfigs
    /\ UNCHANGED <<fresh, bound, leaving, assigned, unassigning, unseen>>

-----------------------------------------------------------------------------
(* pcd_host_config_assignment.                                             *)

\* Create names a host config of the same configuration.
Assign(h, c) ==
    /\ assigned[h] = None /\ c \in hostConfigs \ checked
    /\ Bindable(h, c)
    /\ bound' = [bound EXCEPT ![h] = c]
    /\ \/ Calm /\ assigned' = [assigned EXCEPT ![h] = c]
       \/ Trouble /\ UNCHANGED assigned
    /\ UNCHANGED <<configs, fresh, leaving, hostConfigs, checked, unassigning, unseen>>

\* Read drops the row of a host nobody lists, or that carries another config.
ReadAssignment(h) ==
    /\ assigned[h] # None /\ h \notin unassigning
    /\ \E hosts \in {listed, {}} :
          /\ Shows(hosts)
          /\ ~hostRecord(h, hosts).known \/ hostRecord(h, hosts).config # assigned[h]
          /\ Believe({h}, assigned[h], hosts)
    /\ assigned' = [assigned EXCEPT ![h] = None]
    /\ UNCHANGED <<configVars, hostConfigs, checked, unassigning>>

ImportAssignment(h) ==
    /\ assigned[h] = None /\ hostRecord(h, listed).known /\ bound[h] # None
    /\ assigned' = [assigned EXCEPT ![h] = bound[h]]
    /\ Calm /\ UNCHANGED <<configVars, hostConfigs, checked, unassigning, unseen>>

\* Delete: resmgr answers 204, or 404 for a shy host, whether it unbinds the host
\* now, later or never.  Any other answer, and a lost one, ends Delete with an error.
Unassign(h) ==
    /\ assigned[h] # None /\ h \notin unassigning
    /\ \/ /\ bound[h] = assigned[h] /\ assigned[h] \in configs
          /\ bound' = [bound EXCEPT ![h] = None] /\ UNCHANGED leaving
       \/ leaving' = [leaving EXCEPT ![h] = assigned[h]] /\ UNCHANGED bound
       \/ UNCHANGED <<bound, leaving>>
    /\ \/ Calm /\ unassigning' = unassigning \cup {h}
       \/ Trouble /\ UNCHANGED unassigning
    /\ UNCHANGED <<configs, fresh, hostConfigs, checked, assigned, unseen>>

\* The Delete ends well when the list no longer shows the binding, and with an
\* error after a minute of it, or when the list cannot be had.
waitUnassigned(h) ==
    /\ h \in unassigning /\ unassigning' = unassigning \ {h}
    /\ \/ /\ \E hosts \in {listed, {}} :
                /\ Shows(hosts) /\ h \notin hostsAssignedTo(assigned[h], hosts)
                /\ Believe({h}, assigned[h], hosts)
          /\ assigned' = [assigned EXCEPT ![h] = None]
       \/ leaving[h] # assigned[h] /\ h \in hostsAssignedTo(assigned[h], listed)
          /\ Calm /\ UNCHANGED <<assigned, unseen>>
       \/ Trouble /\ UNCHANGED <<assigned, unseen>>
    /\ UNCHANGED <<configVars, hostConfigs, checked>>

HostConfigsNext ==
    /\ UNCHANGED <<hostVars, roleVars>>
    /\ \/ CreateHostConfig
       \/ \E c \in HostConfigs :
             ReadHostConfig(c) \/ CheckUnassigned(c) \/ DeleteHostConfig(c)
       \/ \E h \in Hosts, c \in HostConfigs : Assign(h, c)
       \/ \E h \in Hosts : \/ ReadAssignment(h) \/ ImportAssignment(h)
                           \/ Unassign(h) \/ waitUnassigned(h)

-----------------------------------------------------------------------------
\* No host carries a host config that Terraform deleted, so that it could never be
\* given another, unless the answer to GET /hosts that a Delete went by did not show
\* the host: resmgr did not know it, or answered without a list (the guard of
\* host_config_resource.go's Delete).
NoHostStranded == \A h \in Hosts :
    bound[h] \in configs \cup {None} \/ <<h, bound[h]>> \in unseen

\* An assignment leaves the state only when its host no longer carries the config, or
\* neither the host's own answer nor the list shows the host: neither a Read in the
\* 404 window after a host's last role went, nor a Delete that resmgr answered and did
\* not apply, loses it.
AssignmentsKept == [][\A h \in Hosts :
    assigned[h] # None /\ assigned'[h] = None =>
        bound'[h] # assigned[h] \/ <<h, assigned[h]>> \in unseen'
    ]_<<assigned, bound>>
=============================================================================
