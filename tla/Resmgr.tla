------------------------------- MODULE Resmgr -------------------------------
(***************************************************************************)
(* The resource manager (resmgr, external to the repository) as the        *)
(* provider's comments and calls describe it: hosts, the host config each  *)
(* is bound to, and one cluster role, which the server expands into a      *)
(* granular role with settings of its own after it has answered.           *)
(***************************************************************************)
EXTENDS Naturals

CONSTANTS
    Hosts,
    HostConfigs,    \* IDs; one is never given out twice
    Settings,       \* configured values of the setting Terraform manages
    Default,        \* the value an expansion gives it
    None,
    MaxTrouble      \* how many things may go wrong in a behaviour

ASSUME ResmgrAssumption ==
    /\ MaxTrouble \in Nat
    /\ Default \notin Settings /\ None \notin HostConfigs \cup Settings

VARIABLES
    listed,     \* the hosts resmgr knows
    shy,        \* hosts whose own endpoints answer 404 though they are listed
    configs,    \* the host configs that exist
    fresh,      \* the IDs not given out yet
    bound,      \* the host config each host carries
    leaving,    \* an unassign resmgr has accepted and not applied
    phase,      \* how far the role of each host is
    held,       \* the granular role's settings, kept after the role is removed
    expansion,  \* what the last expansion computed for the unmanaged settings
    trouble     \* how many more things may go wrong

hostVars == <<listed, shy>>
configVars == <<configs, fresh, bound, leaving>>
roleVars == <<phase, held, expansion>>

Phases == {"absent", "assigned", "converging", "ok", "failed"}
Computed == {"first", "second"}     \* successive expansions alternate
Held == [key : Settings \cup {Default}, rest : Computed]

ResmgrType ==
    /\ shy \subseteq Hosts /\ listed \subseteq Hosts
    /\ configs \subseteq HostConfigs /\ fresh \subseteq HostConfigs \ configs
    /\ bound \in [Hosts -> HostConfigs \cup {None}]
    /\ leaving \in [Hosts -> HostConfigs \cup {None}]
    /\ phase \in [Hosts -> Phases]
    /\ held \in [Hosts -> Held \cup {None}]
    /\ expansion \in [Hosts -> Computed]
    /\ trouble \in 0 .. MaxTrouble

ResmgrInit ==
    /\ listed = Hosts /\ shy = {}
    /\ configs = {} /\ fresh = HostConfigs
    /\ bound = [h \in Hosts |-> None] /\ leaving = [h \in Hosts |-> None]
    /\ phase = [h \in Hosts |-> "absent"]
    /\ held = [h \in Hosts |-> None] /\ expansion = [h \in Hosts |-> "first"]
    /\ trouble = MaxTrouble

Trouble == trouble > 0 /\ trouble' = trouble - 1
Calm == UNCHANGED trouble

\* A host is bound to a config that exists, and only while it carries none.
Bindable(h, c) == h \in listed /\ c \in configs /\ bound[h] = None

\* resmgr answers an unassign before it applies it, and cannot apply one of a
\* config that is gone.
UnbindLater(h) ==
    /\ leaving[h] # None
    /\ bound' = IF bound[h] = leaving[h] /\ leaving[h] \in configs
                THEN [bound EXCEPT ![h] = None] ELSE bound
    /\ leaving' = [leaving EXCEPT ![h] = None]
    /\ Calm /\ UNCHANGED <<configs, fresh, hostVars, roleVars>>

Become(h, from, to) == phase[h] = from /\ phase' = [phase EXCEPT ![h] = to]

\* The expansion resets the granular role: the settings of an earlier assignment
\* are gone, and the rest is computed afresh.
Expand(h) ==
    LET rest == IF expansion[h] = "first" THEN "second" ELSE "first"
    IN  /\ Become(h, "assigned", "converging")
        /\ expansion' = [expansion EXCEPT ![h] = rest]
        /\ held' = [held EXCEPT ![h] = [key |-> Default, rest |-> rest]]
        /\ Calm /\ UNCHANGED <<hostVars, configVars>>

\* Rounds of convergence succeed and fail.
Converge(h) ==
    /\ \/ Become(h, "converging", "ok") /\ Calm
       \/ Become(h, "failed", "converging") /\ Calm
       \/ Become(h, "converging", "failed") /\ Trouble
    /\ UNCHANGED <<hostVars, configVars, held, expansion>>

\* Minutes after its last role went, a host's endpoints describe it again.
Describe(h) ==
    /\ h \in shy /\ shy' = shy \ {h}
    /\ Calm /\ UNCHANGED <<listed, configVars, roleVars>>

\* An operator takes the host out of the resource manager.  Deleting its record
\* does not clear the host config it carries.
Decommission(h) ==
    /\ h \in listed /\ Trouble
    /\ listed' = listed \ {h} /\ shy' = shy \ {h}
    /\ phase' = [phase EXCEPT ![h] = "absent"]
    /\ UNCHANGED <<configVars, held, expansion>>

\* The host registers again, with the host config it carried.
Return(h) ==
    /\ h \notin listed /\ listed' = listed \cup {h}
    /\ Calm /\ UNCHANGED <<shy, configVars, roleVars>>

ResmgrWork == \E h \in Hosts :
    \/ UnbindLater(h) \/ Expand(h) \/ Converge(h) \/ Describe(h)
    \/ Decommission(h) \/ Return(h)

-----------------------------------------------------------------------------
(* What the provider makes of the answers (resmgr.go).                     *)

\* The hosts an answer of GET /hosts shows: those resmgr knows, and none at all in
\* a null or an empty body, which getJSONList takes for an empty list.
Shows(hosts) ==
    \/ hosts = listed /\ Calm
    \/ hosts = {} /\ Trouble

\* Mutant of hostRecord: a 404 from the host's own endpoint is believed.
hostRecordBelieves404(h, hosts) ==
    [known |-> h \in listed \ shy, config |-> bound[h], role |-> phase[h] # "absent"]

\* The host as its own endpoint reports it or, when that answers 404, as the list
\* does: the list decides whether the host is known.
hostRecord(h, hosts) ==
    [known |-> h \in (listed \ shy) \cup hosts,
     config |-> bound[h], role |-> phase[h] # "absent"]

\* The hosts of a list that carry a host config.
hostsAssignedTo(c, hosts) == {h \in hosts : bound[h] = c}
=============================================================================
