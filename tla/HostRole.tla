------------------------------ MODULE HostRole ------------------------------
(***************************************************************************)
(* pcd_host_cluster_role: the dns role of a host and the setting of its    *)
(* granular role that Terraform manages.  Create assigns the role, waits   *)
(* for it to converge and writes the setting over what resmgr reports;     *)
(* Update writes it without waiting, unless resmgr already reports it.     *)
(***************************************************************************)
EXTENDS Resmgr

CONSTANT Patient    \* nobody changes settings before the role has converged

ASSUME PatientAssumption == Patient \in BOOLEAN

VARIABLES
    want,       \* the configuration of each host's role
    row,        \* Terraform state, or None
    pc,         \* the step of the operation in flight
    seen        \* the settings it read, which it writes back

roleRows == <<want, row, pc, seen>>

\* tainted: Terraform marked the row ("yes"), and the user took that back ("lifted").
Rows == [setting : Settings \cup {Default, None}, tainted : {"no", "yes", "lifted"}]
Wants == [there : BOOLEAN, setting : Settings \cup {None}, wait : BOOLEAN]
Labels == {"idle", "put", "wait", "read", "write", "update_read", "update_write", "remove"}

HostRoleType ==
    /\ want \in [Hosts -> Wants] /\ row \in [Hosts -> Rows \cup {None}]
    /\ pc \in [Hosts -> Labels] /\ seen \in [Hosts -> Held \cup {None}]

HostRoleInit ==
    /\ want = [h \in Hosts |-> [there |-> FALSE, setting |-> None, wait |-> FALSE]]
    /\ row = [h \in Hosts |-> None]
    /\ pc = [h \in Hosts |-> "idle"] /\ seen = [h \in Hosts |-> None]

Goto(h, label) == pc' = [pc EXCEPT ![h] = label]
Record(h, r) == row' = [row EXCEPT ![h] = r]
Planned(h) == [setting |-> want[h].setting, tainted |-> "no"]
Unsettled(h) == [setting |-> None, tainted |-> "yes"]

\* An operation ends: its locals are gone.
End(h, r) == Goto(h, "idle") /\ Record(h, r) /\ seen' = [seen EXCEPT ![h] = None]

\* resmgr refuses every change of a role while the host converges (409), and an
\* assignment while it lets the host go (403).
Writable(h) == h \in listed /\ phase[h] # "converging"
Assignable(h) == Writable(h) /\ h \notin shy

Untouched == UNCHANGED <<hostVars, configVars>>
Nothing == Untouched /\ UNCHANGED roleVars

-----------------------------------------------------------------------------
(* Terraform and its user.                                                 *)

Configure(h) ==
    /\ pc[h] = "idle"
    /\ \E w \in Wants : want' = [want EXCEPT ![h] = w]
    /\ Calm /\ Nothing /\ UNCHANGED <<row, pc, seen>>

\* The plan of a role: create it, destroy or replace it, or write its setting.  An
\* update without a setting to write, or of wait_until_converged, sends nothing.
Apply(h) ==
    /\ pc[h] = "idle"
    /\ \/ row[h] = None /\ want[h].there /\ Goto(h, "put") /\ UNCHANGED row
       \/ /\ row[h] # None /\ (~want[h].there \/ row[h].tainted = "yes")
          /\ Goto(h, "remove") /\ UNCHANGED row
       \/ /\ row[h] # None /\ want[h].there /\ row[h].tainted # "yes"
          /\ row[h].setting # want[h].setting
          /\ IF want[h].setting = None
             THEN Record(h, [row[h] EXCEPT !.setting = None]) /\ UNCHANGED pc
             ELSE /\ Patient => phase[h] = "ok"
                  /\ Goto(h, "update_read") /\ UNCHANGED row
    /\ Calm /\ Nothing /\ UNCHANGED <<want, seen>>

\* terraform untaint, as the error of a failed Create suggests.
Untaint(h) ==
    /\ pc[h] = "idle" /\ row[h] # None /\ row[h].tainted = "yes"
    /\ Record(h, [row[h] EXCEPT !.tainted = "lifted"])
    /\ Calm /\ Nothing /\ UNCHANGED <<want, pc, seen>>

-----------------------------------------------------------------------------
(* Create.                                                                 *)

\* putRole, the assignment.  A 409 is retried, for ten minutes.  With a setting to
\* write, Create waits whether or not wait_until_converged is set.
PutRole(h) ==
    LET waits == want[h].wait \/ want[h].setting # None
    IN  /\ pc[h] = "put" /\ UNCHANGED <<want, held, expansion>> /\ Untouched
        /\ \/ /\ Assignable(h) /\ phase' = [phase EXCEPT ![h] = "assigned"] /\ Calm
              /\ IF waits THEN Goto(h, "wait") /\ UNCHANGED <<row, seen>>
                          ELSE End(h, Planned(h))
           \/ /\ Assignable(h) /\ phase' = [phase EXCEPT ![h] = "assigned"] /\ Trouble
              /\ End(h, row[h])
           \/ ~Assignable(h) /\ UNCHANGED phase /\ Calm /\ End(h, row[h])

\* Mutant of WaitConverged: Create goes on as soon as the role is assigned.
WaitConvergedNot(h) ==
    /\ pc[h] = "wait" /\ Calm /\ Nothing /\ UNCHANGED <<want, row, seen>>
    /\ Goto(h, "read")

\* waitConverged: ok, with the role's own marker.  A status that stays failed, a
\* failed poll and a timeout, the only end when the role is gone from a host, record the row without its setting; Terraform taints it.
WaitConverged(h) ==
    /\ pc[h] = "wait" /\ Nothing /\ UNCHANGED want
    /\ \/ /\ phase[h] = "ok" /\ Calm
          /\ IF want[h].setting = None THEN End(h, Planned(h))
                                       ELSE Goto(h, "read") /\ UNCHANGED <<row, seen>>
       \/ (h \notin listed \/ phase[h] \in {"failed", "absent"}) /\ Calm /\ End(h, Unsettled(h))
       \/ Trouble /\ End(h, Unsettled(h))

\* Nobody will describe the granular role.
Undescribed(h) == h \notin listed \/ (held[h] = None /\ phase[h] # "assigned")

\* waitRoleSettings, until the granular role answers at all.  It answers with an
\* earlier assignment's settings until this one is expanded.
ReadSettings(h) ==
    /\ pc[h] = "read" /\ Nothing /\ UNCHANGED want
    /\ \/ /\ h \in listed /\ held[h] # None /\ Calm
          /\ seen' = [seen EXCEPT ![h] = held[h]] /\ Goto(h, "write") /\ UNCHANGED row
       \/ Undescribed(h) /\ Calm /\ End(h, Unsettled(h))
       \/ Trouble /\ End(h, Unsettled(h))

\* Mutant of mergeSettings: only the managed setting is sent.
mergeOnlyManaged(current, setting) == [key |-> setting]

\* The PUT replaces the whole settings object: what was read, with the managed
\* setting written over it.
mergeSettings(current, setting) == [current EXCEPT !.key = setting]

Hold(h) == held' = [held EXCEPT ![h] = mergeSettings(seen[h], want[h].setting)]

\* putRole, the settings.  The same body is sent again after each 409.
WriteSettings(h) ==
    /\ pc[h] = "write" /\ UNCHANGED <<want, phase, expansion>> /\ Untouched
    /\ \/ Writable(h) /\ Hold(h) /\ Calm /\ End(h, Planned(h))
       \/ Writable(h) /\ Hold(h) /\ Trouble /\ End(h, Unsettled(h))
       \/ UNCHANGED held /\ Trouble /\ End(h, Unsettled(h))
       \/ h \notin listed /\ UNCHANGED held /\ Calm /\ End(h, Unsettled(h))

-----------------------------------------------------------------------------
(* Update, Delete, Read and import.                                        *)

\* Nothing is written when resmgr already reports the setting.  A failure leaves the
\* setting of the row.
UpdateRead(h) ==
    /\ pc[h] = "update_read" /\ Nothing /\ UNCHANGED want
    /\ \/ /\ h \in listed /\ held[h] # None /\ Calm
          /\ IF held[h].key = want[h].setting
             THEN End(h, [row[h] EXCEPT !.setting = want[h].setting])
             ELSE seen' = [seen EXCEPT ![h] = held[h]] /\ Goto(h, "update_write") /\ UNCHANGED row
       \/ Undescribed(h) /\ Calm /\ End(h, row[h])
       \/ Trouble /\ End(h, row[h])

UpdateWrite(h) ==
    /\ pc[h] = "update_write" /\ UNCHANGED <<want, phase, expansion>> /\ Untouched
    /\ \/ Writable(h) /\ Hold(h) /\ Calm /\ End(h, [row[h] EXCEPT !.setting = want[h].setting])
       \/ Writable(h) /\ Hold(h) /\ Trouble /\ End(h, row[h])
       \/ UNCHANGED held /\ Trouble /\ End(h, row[h])
       \/ h \notin listed /\ UNCHANGED held /\ Calm /\ End(h, row[h])

\* Delete: 409 is retried and 404 is fine.  Terraform goes on to Create when the row
\* is being replaced.
Remove(h) ==
    LET removed == /\ phase' = [phase EXCEPT ![h] = "absent"]
                   /\ shy' = IF h \in listed /\ phase[h] # "absent" THEN shy \cup {h} ELSE shy
    IN  /\ pc[h] = "remove" /\ UNCHANGED <<want, held, expansion, listed, configVars>>
        /\ \/ /\ (Writable(h) \/ h \notin listed) /\ removed /\ Calm
              /\ IF want[h].there THEN Goto(h, "put") /\ Record(h, None) /\ UNCHANGED seen
                                  ELSE End(h, None)
           \/ Writable(h) /\ removed /\ Trouble /\ End(h, row[h])
           \/ UNCHANGED <<phase, shy>> /\ Trouble /\ End(h, row[h])

\* Read drops the row of a host without the role, and otherwise reads a managed
\* setting again, unless the granular role is not described.
ReadRole(h) ==
    /\ pc[h] = "idle" /\ row[h] # None
    /\ \E hosts \in {listed, {}} :
          /\ Shows(hosts)
          /\ LET host == hostRecord(h, hosts)
             IN  \/ (~host.known \/ ~host.role) /\ Record(h, None)
                 \/ /\ host.known /\ host.role
                    /\ row[h].setting # None /\ held[h] # None
                    /\ Record(h, [row[h] EXCEPT !.setting = held[h].key])
    /\ Nothing /\ UNCHANGED <<want, pc, seen>>

ImportRole(h) ==
    /\ pc[h] = "idle" /\ row[h] = None
    /\ hostRecord(h, listed).known /\ hostRecord(h, listed).role
    /\ Record(h, [setting |-> None, tainted |-> "no"])
    /\ Calm /\ Nothing /\ UNCHANGED <<want, pc, seen>>

HostRoleNext == \E h \in Hosts :
    \/ Configure(h) \/ Apply(h) \/ Untaint(h)
    \/ PutRole(h) \/ WaitConverged(h) \/ ReadSettings(h) \/ WriteSettings(h)
    \/ UpdateRead(h) \/ UpdateWrite(h) \/ Remove(h) \/ ReadRole(h) \/ ImportRole(h)

-----------------------------------------------------------------------------
\* Where the state records a managed setting, the role has one that was configured,
\* this or (after an update whose answer was lost) a later one, and keeps it: no
\* expansion still to come puts the default back over what an apply wrote.
SettingsStick == \A h \in Hosts :
    row[h] # None /\ row[h].setting \in Settings =>
        /\ phase[h] # "assigned"
        /\ phase[h] # "absent" => held[h].key \in Settings

\* The settings Terraform does not manage keep the values the control plane
\* computed, whatever the provider wrote back (mergeSettings).
RestKeepsComputed == \A h \in Hosts :
    phase[h] \in {"converging", "ok", "failed"} => held[h].rest = expansion[h]

\* After untaint "the next apply then writes any configured settings" (Create's
\* message): it does not leave them out because resmgr still reports those of an
\* earlier assignment, which the expansion under way is about to reset.
UntaintedSettingsWritten == [][\A h \in Hosts :
    /\ row[h] # None /\ row[h].tainted = "lifted"
    /\ pc[h] = "update_read" /\ pc'[h] = "idle"
    /\ row'[h].setting \in Settings /\ row'[h].setting # row[h].setting
    => phase[h] # "assigned"]_<<row, pc, phase>>
=============================================================================
