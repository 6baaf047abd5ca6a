--------------------------- MODULE HostRoleProofs ---------------------------
(***************************************************************************)
(* The types of Onboarding, and what it promises about the settings of     *)
(* cluster roles, for every number of hosts, settings and failures.        *)
(***************************************************************************)
EXTENDS Onboarding, TLAPS

\* The role of a host, and the resource that manages it, leave the other hosts'
\* alone: what an operation knows is a statement about one host.
Creating(h) == pc[h] \in {"put", "wait", "read", "write"}
Updating(h) == pc[h] \in {"update_read", "update_write"}
Writing(h) == pc[h] \in {"write", "update_write"}

\* What the operation in flight may rely on: a Create has no row yet and an Update
\* has one; whoever reads or writes settings has one to write, and has waited for
\* the role, so that no expansion is to come, even if the host has gone since.
Knows(h) ==
    /\ Creating(h) => row[h] = None
    /\ Updating(h) => row[h] # None
    /\ Writing(h) \/ pc[h] \in {"read", "update_read"} =>
          /\ want[h].setting \in Settings
          /\ phase[h] \in {"ok", "absent"}
    /\ Writing(h) => seen[h] \in Held /\ seen[h].rest = expansion[h]

\* A host that is not listed has no role; a role that was expanded has settings, of
\* that expansion.
Placed(h) ==
    /\ h \notin listed => phase[h] = "absent"
    /\ phase[h] \in {"converging", "ok", "failed"} =>
          held[h] \in Held /\ held[h].rest = expansion[h]
    /\ held[h] # None => held[h].rest = expansion[h]

\* A row that manages a setting is not one whose role is still to be expanded, and
\* what it records was written after the expansion.
Written(h) == row[h] # None /\ row[h].setting # None =>
    /\ phase[h] # "assigned"
    /\ row[h].setting \in Settings /\ phase[h] # "absent" => held[h].key \in Settings

RoleInv == \A h \in Hosts : Knows(h) /\ Placed(h) /\ Written(h)

-----------------------------------------------------------------------------
(* Types.                                                                  *)

LEMMA ConstantsTyped ==
  /\ Default \notin Settings /\ None \notin Settings /\ None \notin HostConfigs
  /\ MaxTrouble \in Nat
  BY ResmgrAssumption

\* Failures are counted down, or not at all.
LEMMA TroubleTyped ==
  ASSUME ResmgrType, Trouble \/ Calm
  PROVE  trouble' \in 0 .. MaxTrouble
  BY ConstantsTyped DEF ResmgrType, Trouble, Calm

\* The settings an expansion computes, and those the provider writes back.
LEMMA HeldTyped ==
  /\ \A rest \in Computed : [key |-> Default, rest |-> rest] \in Held
  /\ \A s \in Held, v \in Settings :
        /\ mergeSettings(s, v) \in Held
        /\ mergeSettings(s, v).key = v /\ mergeSettings(s, v).rest = s.rest
<1>1. \A s \in Held : s.key \in Settings \cup {Default} /\ s.rest \in Computed
  BY DEF Held
<1> QED
  BY DEF Held, mergeSettings

\* Where an operation may stand, and what it may record.
RowsTyped == row \in [Hosts -> Rows \cup {None}]
PcTyped == pc \in [Hosts -> Labels]
SeenTyped == seen \in [Hosts -> Held \cup {None}]

LEMMA GotoTyped ==
  ASSUME HostRoleType, NEW h \in Hosts, NEW label \in Labels, Goto(h, label)
  PROVE  PcTyped'
  BY DEF HostRoleType, Goto, PcTyped

LEMMA RecordTyped ==
  ASSUME HostRoleType, NEW h \in Hosts, NEW r \in Rows \cup {None}, Record(h, r)
  PROVE  RowsTyped'
  BY DEF HostRoleType, Record, RowsTyped

LEMMA EndTyped ==
  ASSUME HostRoleType, NEW h \in Hosts, NEW r \in Rows \cup {None}, End(h, r)
  PROVE  PcTyped' /\ RowsTyped' /\ SeenTyped'
<1>1. "idle" \in Labels
  BY DEF Labels
<1>2. Goto(h, "idle") /\ Record(h, r) /\ seen' = [seen EXCEPT ![h] = None]
  BY DEF End
<1> QED
  BY <1>1, <1>2, GotoTyped, RecordTyped DEF HostRoleType, SeenTyped

\* The rows the handlers record.
LEMMA RecordsTyped ==
  ASSUME HostRoleType, NEW h \in Hosts
  PROVE  /\ Planned(h) \in Rows /\ Unsettled(h) \in Rows
         /\ row[h] \in Rows \cup {None} /\ None \in Rows \cup {None}
         /\ [setting |-> None, tainted |-> "no"] \in Rows
         /\ \A v \in Settings \cup {Default, None} :
               row[h] # None => [row[h] EXCEPT !.setting = v] \in Rows
         /\ row[h] # None => [row[h] EXCEPT !.tainted = "lifted"] \in Rows
<1>1. want[h].setting \in Settings \cup {None}
  BY DEF HostRoleType, Wants
<1>2. row[h] \in Rows \cup {None}
  BY DEF HostRoleType
<1> QED
  BY <1>1, <1>2 DEF Rows, Planned, Unsettled

LEMMA RoleRowsTyped ==
  ASSUME TypeOK, RoleInv, HostRoleNext
  PROVE  HostRoleType' /\ trouble' \in 0 .. MaxTrouble
<1> USE DEF TypeOK
<1>0. /\ Labels = {"idle", "put", "wait", "read", "write", "update_read",
                    "update_write", "remove"}
      /\ HostRoleType /\ ResmgrType
  BY DEF Labels
<1>1. PICK h \in Hosts :
        \/ Configure(h) \/ Apply(h) \/ Untaint(h)
        \/ PutRole(h) \/ WaitConverged(h) \/ ReadSettings(h) \/ WriteSettings(h)
        \/ UpdateRead(h) \/ UpdateWrite(h) \/ Remove(h) \/ ReadRole(h) \/ ImportRole(h)
  BY DEF HostRoleNext
<1>2. Trouble \/ Calm
  BY <1>1 DEF Configure, Apply, Untaint, PutRole, WaitConverged, ReadSettings,
              WriteSettings, UpdateRead, UpdateWrite, Remove, ReadRole, ImportRole, Shows
<1>3. want' \in [Hosts -> Wants]
  <2>1. CASE Configure(h)
    BY <2>1 DEF Configure, HostRoleType
  <2>2. CASE UNCHANGED want
    BY <2>2 DEF HostRoleType
  <2> QED
    BY <1>1, <2>1, <2>2 DEF Apply, Untaint, PutRole, WaitConverged, ReadSettings,
              WriteSettings, UpdateRead, UpdateWrite, Remove, ReadRole, ImportRole
<1>4. PcTyped' /\ RowsTyped' /\ SeenTyped'
  <2>0. /\ UNCHANGED pc => PcTyped'
        /\ UNCHANGED row => RowsTyped'
        /\ UNCHANGED seen => SeenTyped'
        /\ \A label \in Labels : Goto(h, label) => PcTyped'
    BY GotoTyped DEF HostRoleType, PcTyped, RowsTyped, SeenTyped
  <2>a. \A r \in Rows \cup {None} :
          /\ Record(h, r) => RowsTyped'
          /\ End(h, r) => PcTyped' /\ RowsTyped' /\ SeenTyped'
    BY RecordTyped, EndTyped
  <2>b. held[h] \in Held \cup {None}
    BY DEF ResmgrType
  <2>c. /\ want[h].setting \in Settings \cup {None}
        /\ Updating(h) => row[h] # None
    BY DEF HostRoleType, Wants, RoleInv, Knows
  <2>d. /\ Planned(h) \in Rows \cup {None} /\ Unsettled(h) \in Rows \cup {None}
        /\ row[h] \in Rows \cup {None} /\ None \in Rows \cup {None}
        /\ [setting |-> None, tainted |-> "no"] \in Rows \cup {None}
        /\ \A v \in Settings \cup {Default, None} :
              row[h] # None => [row[h] EXCEPT !.setting = v] \in Rows \cup {None}
        /\ row[h] # None => [row[h] EXCEPT !.tainted = "lifted"] \in Rows \cup {None}
    BY RecordsTyped
  <2>1. CASE Configure(h)
    BY <2>0, <2>1 DEF Configure
  <2>2. CASE Apply(h)
    BY <1>0, <2>0, <2>a, <2>d, <2>2 DEF Apply
  <2>3. CASE Untaint(h)
    BY <2>0, <2>a, <2>d, <2>3 DEF Untaint
  <2>4. CASE PutRole(h)
    BY <1>0, <2>0, <2>a, <2>d, <2>4 DEF PutRole
  <2>5. CASE WaitConverged(h)
    BY <1>0, <2>0, <2>a, <2>d, <2>5 DEF WaitConverged
  <2>6. CASE ReadSettings(h)
    <3>1. seen' = [seen EXCEPT ![h] = held[h]] => SeenTyped'
      BY <2>b DEF HostRoleType, SeenTyped
    <3> QED
      BY <1>0, <2>0, <2>a, <2>d, <2>6, <3>1 DEF ReadSettings
  <2>7. CASE WriteSettings(h)
    BY <2>a, <2>d, <2>7 DEF WriteSettings
  <2>8. CASE UpdateRead(h)
    <3>1. seen' = [seen EXCEPT ![h] = held[h]] => SeenTyped'
      BY <2>b DEF HostRoleType, SeenTyped
    <3>2. row[h] # None
      BY <2>8, <2>c DEF UpdateRead, Updating
    <3> QED
      BY <1>0, <2>0, <2>a, <2>c, <2>d, <2>8, <3>1, <3>2 DEF UpdateRead
  <2>9. CASE UpdateWrite(h)
    <3>1. row[h] # None
      BY <2>9, <2>c DEF UpdateWrite, Updating
    <3> QED
      BY <2>a, <2>c, <2>d, <2>9, <3>1 DEF UpdateWrite
  <2>10. CASE Remove(h)
    BY <1>0, <2>0, <2>a, <2>d, <2>10 DEF Remove
  <2>11. CASE ReadRole(h)
    <3>1. held[h] # None => held[h].key \in Settings \cup {Default, None}
      BY <2>b DEF Held
    <3> QED
      BY <2>0, <2>a, <2>d, <2>11, <3>1 DEF ReadRole
  <2>12. CASE ImportRole(h)
    BY <2>0, <2>a, <2>d, <2>12 DEF ImportRole
  <2> QED
    BY <1>1, <2>1, <2>2, <2>3, <2>4, <2>5, <2>6, <2>7, <2>8, <2>9, <2>10, <2>11, <2>12
<1> QED
  BY <1>0, <1>2, <1>3, <1>4, TroubleTyped DEF HostRoleType, PcTyped, RowsTyped, SeenTyped

\* What the resource manager keeps, in the parts the handlers change together.
HostsTyped == shy \subseteq Hosts /\ listed \subseteq Hosts
ConfigsTyped ==
    /\ configs \subseteq HostConfigs /\ fresh \subseteq HostConfigs \ configs
    /\ bound \in [Hosts -> HostConfigs \cup {None}]
    /\ leaving \in [Hosts -> HostConfigs \cup {None}]
RolesTyped ==
    /\ phase \in [Hosts -> Phases]
    /\ held \in [Hosts -> Held \cup {None}]
    /\ expansion \in [Hosts -> Computed]

LEMMA ResmgrParts ==
  /\ ResmgrType <=> HostsTyped /\ ConfigsTyped /\ RolesTyped /\ trouble \in 0 .. MaxTrouble
  /\ ResmgrType' <=> HostsTyped' /\ ConfigsTyped' /\ RolesTyped' /\ trouble' \in 0 .. MaxTrouble
  BY DEF ResmgrType, HostsTyped, ConfigsTyped, RolesTyped

LEMMA HoldTyped ==
  ASSUME TypeOK, RoleInv, NEW h \in Hosts, Writing(h), Hold(h)
  PROVE  /\ held' \in [Hosts -> Held \cup {None}]
         /\ \A g \in Hosts : held'[g] = IF g = h
               THEN mergeSettings(seen[h], want[h].setting) ELSE held[g]
  BY HeldTyped DEF TypeOK, ResmgrType, RoleInv, Knows, Hold

LEMMA RoleTypesResmgr ==
  ASSUME TypeOK, RoleInv, HostRoleNext
  PROVE  ResmgrType'
<1>1. PICK h \in Hosts :
        \/ Configure(h) \/ Apply(h) \/ Untaint(h)
        \/ PutRole(h) \/ WaitConverged(h) \/ ReadSettings(h) \/ WriteSettings(h)
        \/ UpdateRead(h) \/ UpdateWrite(h) \/ Remove(h) \/ ReadRole(h) \/ ImportRole(h)
  BY DEF HostRoleNext
<1>2. HostsTyped /\ ConfigsTyped /\ RolesTyped
  BY ResmgrParts DEF TypeOK
<1>3. UNCHANGED configVars /\ UNCHANGED expansion
  BY <1>1 DEF Configure, Apply, Untaint, PutRole, WaitConverged, ReadSettings,
              WriteSettings, UpdateRead, UpdateWrite, Remove, ReadRole, ImportRole,
              Nothing, Untouched, roleVars
<1>4. HostsTyped'
  <2>1. listed' = listed /\ shy' \in {shy, shy \cup {h}}
    BY <1>1 DEF Configure, Apply, Untaint, PutRole, WaitConverged, ReadSettings,
              WriteSettings, UpdateRead, UpdateWrite, Remove, ReadRole, ImportRole,
              Nothing, Untouched, hostVars
  <2> QED
    BY <1>2, <2>1 DEF HostsTyped
<1>5. held' \in [Hosts -> Held \cup {None}]
  <2>1. CASE UNCHANGED held
    BY <1>2, <2>1 DEF RolesTyped
  <2>2. CASE Writing(h) /\ Hold(h)
    BY <2>2, HoldTyped
  <2> QED
    BY <1>1, <2>1, <2>2
       DEF Configure, Apply, Untaint, PutRole, WaitConverged, ReadSettings,
           WriteSettings, UpdateRead, UpdateWrite, Remove, ReadRole, ImportRole,
           Nothing, roleVars, Writing
<1>6. phase' \in [Hosts -> Phases]
  <2>1. \/ UNCHANGED phase \/ phase' = [phase EXCEPT ![h] = "assigned"]
        \/ phase' = [phase EXCEPT ![h] = "absent"]
    BY <1>1 DEF Configure, Apply, Untaint, PutRole, WaitConverged, ReadSettings,
           WriteSettings, UpdateRead, UpdateWrite, Remove, ReadRole, ImportRole,
           Nothing, roleVars
  <2> QED
    BY <1>2, <2>1 DEF RolesTyped, Phases
<1> QED
  BY <1>2, <1>3, <1>4, <1>5, <1>6, RoleRowsTyped, ResmgrParts
     DEF ConfigsTyped, RolesTyped, configVars

LEMMA WorkTyped ==
  ASSUME TypeOK, ResmgrWork
  PROVE  ResmgrType'
<1>1. PICK h \in Hosts :
        \/ UnbindLater(h) \/ Expand(h) \/ Converge(h) \/ Describe(h)
        \/ Decommission(h) \/ Return(h)
  BY DEF ResmgrWork
<1>2. HostsTyped /\ ConfigsTyped /\ RolesTyped /\ ResmgrType
  BY ResmgrParts DEF TypeOK
<1>3. Trouble \/ Calm
  BY <1>1 DEF UnbindLater, Expand, Converge, Describe, Decommission, Return
<1>4. HostsTyped'
  BY <1>1, <1>2 DEF UnbindLater, Expand, Converge, Describe, Decommission, Return, HostsTyped, hostVars
<1>5. ConfigsTyped'
  BY <1>1, <1>2 DEF UnbindLater, Expand, Converge, Describe, Decommission, Return, ConfigsTyped, configVars
<1>6. RolesTyped'
  <2>1. CASE Expand(h)
    <3>1. PICK rest \in Computed :
            /\ phase' = [phase EXCEPT ![h] = "converging"]
            /\ expansion' = [expansion EXCEPT ![h] = rest]
            /\ held' = [held EXCEPT ![h] = [key |-> Default, rest |-> rest]]
      BY <2>1 DEF Expand, Become, Computed
    <3> QED
      BY <1>2, <3>1, HeldTyped DEF RolesTyped, Phases
  <2>2. CASE Converge(h)
    BY <1>2, <2>2 DEF Converge, Become, RolesTyped, Phases
  <2>3. CASE Decommission(h)
    BY <1>2, <2>3 DEF Decommission, RolesTyped, Phases
  <2>4. CASE UNCHANGED roleVars
    BY <1>2, <2>4 DEF roleVars, RolesTyped
  <2> QED
    BY <1>1, <2>1, <2>2, <2>3, <2>4 DEF UnbindLater, Describe, Return
<1> QED
  BY <1>2, <1>3, <1>4, <1>5, <1>6, TroubleTyped, ResmgrParts

LEMMA HostConfigsTyped ==
  ASSUME TypeOK, HostConfigsNext
  PROVE  ResmgrType' /\ HostConfigsType'
<1>1. HostsTyped /\ ConfigsTyped /\ RolesTyped /\ ResmgrType /\ HostConfigsType
  BY ResmgrParts DEF TypeOK
<1>2. HostsTyped' /\ RolesTyped'
  BY <1>1 DEF HostConfigsNext, HostsTyped, RolesTyped, hostVars, roleVars
<1> DEFINE TablesTyped ==
      /\ hostConfigs \subseteq HostConfigs /\ checked \subseteq hostConfigs
      /\ assigned \in [Hosts -> HostConfigs \cup {None}] /\ unassigning \subseteq Hosts
<1> DEFINE UnseenTyped == unseen \subseteq Hosts \X (HostConfigs \cup {None})
<1>3. TablesTyped /\ UnseenTyped
  BY <1>1 DEF HostConfigsType
<1>4. ASSUME NEW hosts \in SUBSET Hosts, NEW c \in HostConfigs \cup {None}, NEW shown,
             Believe(hosts, c, shown)
      PROVE  UnseenTyped'
  BY <1>3, <1>4 DEF Believe
<1>5. ASSUME CreateHostConfig
      PROVE  ConfigsTyped' /\ TablesTyped' /\ UnseenTyped' /\ (Trouble \/ Calm)
  BY <1>1, <1>3, <1>5 DEF CreateHostConfig, ConfigsTyped
<1>6. ASSUME NEW c \in HostConfigs,
             ReadHostConfig(c) \/ CheckUnassigned(c) \/ DeleteHostConfig(c)
      PROVE  ConfigsTyped' /\ TablesTyped' /\ UnseenTyped' /\ (Trouble \/ Calm)
  BY <1>1, <1>3, <1>4, <1>6 DEF ReadHostConfig, CheckUnassigned, DeleteHostConfig, Shows,
                          ConfigsTyped, configVars
<1>7. ASSUME NEW h \in Hosts, NEW c \in HostConfigs, Assign(h, c)
      PROVE  ConfigsTyped' /\ TablesTyped' /\ UnseenTyped' /\ (Trouble \/ Calm)
  BY <1>1, <1>3, <1>7 DEF Assign, ConfigsTyped
<1>8. ASSUME NEW h \in Hosts, \/ ReadAssignment(h) \/ ImportAssignment(h)
                               \/ Unassign(h) \/ waitUnassigned(h)
      PROVE  ConfigsTyped' /\ TablesTyped' /\ UnseenTyped' /\ (Trouble \/ Calm)
  <2>1. CASE ReadAssignment(h)
    BY <1>1, <1>3, <1>4, <2>1 DEF ReadAssignment, Shows, ConfigsTyped, configVars
  <2>2. CASE ImportAssignment(h)
    BY <1>1, <1>3, <2>2 DEF ImportAssignment, ConfigsTyped, configVars
  <2>3. CASE Unassign(h)
    BY <1>1, <1>3, <2>3 DEF Unassign, ConfigsTyped
  <2>4. CASE waitUnassigned(h)
    BY <1>1, <1>3, <1>4, <2>4 DEF waitUnassigned, Shows, ConfigsTyped, configVars
  <2> QED
    BY <1>8, <2>1, <2>2, <2>3, <2>4
<1>9. ConfigsTyped' /\ TablesTyped' /\ UnseenTyped' /\ (Trouble \/ Calm)
  BY <1>5, <1>6, <1>7, <1>8 DEF HostConfigsNext
<1> QED
  BY <1>1, <1>2, <1>9, TroubleTyped, ResmgrParts DEF HostConfigsType

-----------------------------------------------------------------------------
(* What an operation knows.                                                *)

SameAt(g) ==
    /\ pc'[g] = pc[g] /\ row'[g] = row[g] /\ want'[g] = want[g] /\ seen'[g] = seen[g]
    /\ phase'[g] = phase[g] /\ held'[g] = held[g] /\ expansion'[g] = expansion[g]
    /\ (g \in listed') <=> (g \in listed)

\* A step on one host leaves what is known of the others.
LEMMA Local ==
  ASSUME RoleInv, NEW h \in Hosts, \A g \in Hosts : g # h => SameAt(g),
         Knows(h)', Placed(h)', Written(h)'
  PROVE  RoleInv'
<1>1. ASSUME NEW g \in Hosts, g # h PROVE Knows(g)' /\ Placed(g)' /\ Written(g)'
  BY <1>1 DEF RoleInv, Knows, Placed, Written, SameAt, Creating, Updating, Writing
<1> QED
  BY <1>1 DEF RoleInv

LEMMA RoleStepsLocal ==
  ASSUME TypeOK, NEW h \in Hosts,
         \/ Configure(h) \/ Apply(h) \/ Untaint(h)
         \/ PutRole(h) \/ WaitConverged(h) \/ ReadSettings(h) \/ WriteSettings(h)
         \/ UpdateRead(h) \/ UpdateWrite(h) \/ Remove(h) \/ ReadRole(h) \/ ImportRole(h),
         NEW g \in Hosts, g # h
  PROVE  SameAt(g)
<1> USE DEF TypeOK, ResmgrType, HostRoleType
<1>1. pc'[g] = pc[g] /\ row'[g] = row[g] /\ want'[g] = want[g] /\ seen'[g] = seen[g]
  BY DEF Configure, Apply, Untaint, PutRole, WaitConverged, ReadSettings, WriteSettings,
         UpdateRead, UpdateWrite, Remove, ReadRole, ImportRole, End, Goto, Record
<1>2. /\ phase'[g] = phase[g] /\ held'[g] = held[g]
      /\ expansion' = expansion /\ listed' = listed
  BY DEF Configure, Apply, Untaint, PutRole, WaitConverged, ReadSettings, WriteSettings,
         UpdateRead, UpdateWrite, Remove, ReadRole, ImportRole, Hold, Nothing, Untouched,
         hostVars, roleVars
<1> QED
  BY <1>1, <1>2 DEF SameAt

\* The labels are different strings.
LEMMA EndAt ==
  ASSUME TypeOK, NEW h \in Hosts, NEW r, End(h, r)
  PROVE  pc'[h] = "idle" /\ row'[h] = r
  BY DEF TypeOK, HostRoleType, End, Goto, Record

LEMMA GotoAt ==
  ASSUME TypeOK, NEW h \in Hosts, NEW label, Goto(h, label)
  PROVE  pc'[h] = label
  BY DEF TypeOK, HostRoleType, Goto

LEMMA RecordAt ==
  ASSUME TypeOK, NEW h \in Hosts, NEW r, Record(h, r)
  PROVE  row'[h] = r
  BY DEF TypeOK, HostRoleType, Record

\* An operation that ends, or that has not come to the settings, knows little.
LEMMA IdleKnows ==
  ASSUME NEW h \in Hosts, pc'[h] \in {"idle", "remove"}
  PROVE  Knows(h)'
  BY DEF Knows, Creating, Updating, Writing

\* A row that manages no setting claims nothing.
Untold(r) == r = None \/ r.setting = None

LEMMA UntoldRows ==
  ASSUME TypeOK, NEW h \in Hosts
  PROVE  /\ Untold(None) /\ Untold(Unsettled(h))
         /\ want[h].setting = None => Untold(Planned(h))
         /\ Untold([setting |-> None, tainted |-> "no"])
         /\ row[h] # None => Untold([row[h] EXCEPT !.setting = None])
<1>1. row[h] # None => [row[h] EXCEPT !.setting = None].setting = None
  BY DEF TypeOK, HostRoleType, Rows
<1> QED
  BY <1>1, ConstantsTyped DEF Untold, Unsettled, Planned

LEMMA UntoldWritten ==
  ASSUME NEW h \in Hosts, Untold(row'[h])
  PROVE  Written(h)'
  BY DEF Untold, Written

\* While the role and the host stay as they are.
Unmoved(h) ==
    /\ phase'[h] = phase[h] /\ held'[h] = held[h] /\ expansion'[h] = expansion[h]
    /\ (h \in listed') <=> (h \in listed)

LEMMA UnmovedKeeps ==
  ASSUME RoleInv, NEW h \in Hosts, Unmoved(h)
  PROVE  /\ Placed(h)'
         /\ row'[h] = row[h] => Written(h)'
         /\ want'[h] = want[h] /\ row'[h] = row[h] /\ pc'[h] = pc[h] /\ seen'[h] = seen[h]
               => Knows(h)'
  BY DEF RoleInv, Unmoved, Placed, Written, Knows, Creating, Updating, Writing

LEMMA NothingUnmoved ==
  ASSUME NEW h \in Hosts, Nothing
  PROVE  Unmoved(h)
  BY DEF Nothing, Untouched, hostVars, roleVars, Unmoved

KnownAt(h) == Knows(h) /\ Placed(h) /\ Written(h)

\* A handler that ends with the role as it was.
LEMMA EndUnmoved ==
  ASSUME TypeOK, RoleInv, NEW h \in Hosts, Unmoved(h),
         NEW r, End(h, r), Untold(r) \/ r = row[h]
  PROVE  KnownAt(h)'
<1>1. pc'[h] = "idle" /\ row'[h] = r
  BY EndAt
<1> QED
  BY <1>1, IdleKnows, UntoldWritten, UnmovedKeeps DEF KnownAt

LEMMA ConfigureKnows ==
  ASSUME TypeOK, RoleInv, NEW h \in Hosts, Configure(h)
  PROVE  KnownAt(h)'
<1>1. Unmoved(h) /\ row'[h] = row[h] /\ pc'[h] = "idle"
  BY NothingUnmoved DEF Configure
<1> QED
  BY <1>1, IdleKnows, UnmovedKeeps DEF KnownAt

\* Apply: with Patient, an update goes ahead on a converged role only.
LEMMA ApplyKnows ==
  ASSUME Patient, TypeOK, RoleInv, NEW h \in Hosts, Apply(h)
  PROVE  KnownAt(h)'
<1>1. Unmoved(h)
  BY NothingUnmoved DEF Apply
<1>2. CASE row[h] = None /\ Goto(h, "put") /\ UNCHANGED row
  <2>1. pc'[h] = "put" /\ row'[h] = None
    BY <1>2, GotoAt
  <2> QED
    BY <1>1, <1>2, <2>1, UnmovedKeeps DEF KnownAt, Knows, Creating, Updating, Writing
<1>3. CASE Goto(h, "remove") /\ UNCHANGED row
  <2>1. pc'[h] = "remove" /\ row'[h] = row[h]
    BY <1>3, GotoAt
  <2> QED
    BY <1>1, <2>1, IdleKnows, UnmovedKeeps DEF KnownAt
<1>4. CASE row[h] # None /\ Record(h, [row[h] EXCEPT !.setting = None]) /\ UNCHANGED pc
  <2>1. Untold(row'[h]) /\ pc'[h] = "idle"
    BY <1>4, RecordAt, UntoldRows DEF Apply
  <2> QED
    BY <1>1, <2>1, IdleKnows, UntoldWritten, UnmovedKeeps DEF KnownAt
<1>5. CASE /\ row[h] # None /\ want[h].setting # None /\ phase[h] = "ok"
           /\ Goto(h, "update_read") /\ UNCHANGED row
  <2>1. pc'[h] = "update_read" /\ row'[h] = row[h] /\ want'[h] = want[h]
    BY <1>5, GotoAt DEF Apply
  <2>2. want[h].setting \in Settings
    BY <1>5 DEF TypeOK, HostRoleType, Wants
  <2> QED
    BY <1>1, <1>5, <2>1, <2>2, UnmovedKeeps
       DEF KnownAt, Knows, Creating, Updating, Writing, Unmoved
<1> QED
  BY <1>2, <1>3, <1>4, <1>5 DEF Apply

LEMMA UntaintKnows ==
  ASSUME TypeOK, RoleInv, NEW h \in Hosts, Untaint(h)
  PROVE  KnownAt(h)'
<1>1. Unmoved(h) /\ pc'[h] = "idle"
  BY NothingUnmoved DEF Untaint
<1>2. row[h] # None /\ row'[h] = [row[h] EXCEPT !.tainted = "lifted"]
  BY RecordAt DEF Untaint
<1>3. row'[h].setting = row[h].setting
  BY <1>2 DEF TypeOK, HostRoleType, Rows
<1>4. Written(h)'
  BY <1>1, <1>2, <1>3 DEF RoleInv, Written, Unmoved
<1> QED
  BY <1>1, <1>4, IdleKnows, UnmovedKeeps DEF KnownAt

\* putRole: a row that is written at once has no setting, and no other is there.
LEMMA PutRoleKnows ==
  ASSUME TypeOK, RoleInv, NEW h \in Hosts, PutRole(h)
  PROVE  KnownAt(h)'
<1>1. row[h] = None /\ pc[h] = "put"
  BY DEF PutRole, RoleInv, Knows, Creating
<1>2. CASE UNCHANGED phase /\ End(h, row[h])
  <2>1. Unmoved(h)
    BY <1>2 DEF PutRole, Unmoved, Untouched, hostVars
  <2> QED
    BY <1>2, <2>1, EndUnmoved
<1>3. CASE /\ Assignable(h) /\ phase' = [phase EXCEPT ![h] = "assigned"]
           /\ \/ Goto(h, "wait") /\ UNCHANGED <<row, seen>>
              \/ want[h].setting = None /\ End(h, Planned(h))
              \/ End(h, row[h])
  <2>1. /\ phase'[h] = "assigned" /\ listed' = listed /\ h \in listed
        /\ UNCHANGED <<held, expansion>>
    BY <1>3 DEF TypeOK, ResmgrType, PutRole, Untouched, hostVars, Assignable, Writable
  <2>2. Placed(h)'
    BY <2>1 DEF RoleInv, Placed
  <2>3. CASE Goto(h, "wait") /\ UNCHANGED <<row, seen>>
    <3>1. pc'[h] = "wait" /\ row'[h] = None
      BY <1>1, <2>3, GotoAt
    <3> QED
      BY <2>2, <3>1 DEF KnownAt, Written, Knows, Creating, Updating, Writing
  <2>4. CASE (want[h].setting = None /\ End(h, Planned(h))) \/ End(h, row[h])
    <3>1. pc'[h] = "idle" /\ Untold(row'[h])
      BY <1>1, <2>4, EndAt, UntoldRows
    <3> QED
      BY <2>2, <3>1, IdleKnows, UntoldWritten DEF KnownAt
  <2> QED
    BY <1>3, <2>3, <2>4
<1> QED
  BY <1>2, <1>3 DEF PutRole

\* waitConverged: whoever goes on to the settings has seen the role converge.
LEMMA WaitKnows ==
  ASSUME TypeOK, RoleInv, NEW h \in Hosts, WaitConverged(h)
  PROVE  KnownAt(h)'
<1>1. Unmoved(h) /\ row[h] = None
  BY NothingUnmoved DEF WaitConverged, RoleInv, Knows, Creating
<1>2. CASE \E r : Untold(r) /\ End(h, r)
  BY <1>1, <1>2, EndUnmoved
<1>3. CASE /\ phase[h] = "ok" /\ want[h].setting # None
           /\ Goto(h, "read") /\ UNCHANGED <<row, seen>>
  <2>1. pc'[h] = "read" /\ row'[h] = None /\ want'[h] = want[h]
    BY <1>1, <1>3, GotoAt DEF WaitConverged
  <2>2. want[h].setting \in Settings
    BY <1>3 DEF TypeOK, HostRoleType, Wants
  <2> QED
    BY <1>1, <1>3, <2>1, <2>2, UnmovedKeeps
       DEF KnownAt, Knows, Creating, Updating, Writing, Unmoved, Written
<1> QED
  BY <1>2, <1>3, UntoldRows DEF WaitConverged

\* What a host that answers has is what its last expansion computed.
LEMMA ReadKnows ==
  ASSUME TypeOK, RoleInv, NEW h \in Hosts, ReadSettings(h)
  PROVE  KnownAt(h)'
<1>1. Unmoved(h) /\ row[h] = None
  BY NothingUnmoved DEF ReadSettings, RoleInv, Knows, Creating
<1>2. CASE End(h, Unsettled(h))
  BY <1>1, <1>2, EndUnmoved, UntoldRows
<1>3. CASE /\ h \in listed /\ held[h] # None
           /\ seen' = [seen EXCEPT ![h] = held[h]] /\ Goto(h, "write") /\ UNCHANGED row
  <2>1. pc'[h] = "write" /\ row'[h] = None /\ want'[h] = want[h] /\ seen'[h] = held[h]
    BY <1>1, <1>3, GotoAt DEF ReadSettings, TypeOK, HostRoleType
  <2>2. want[h].setting \in Settings /\ phase[h] \in {"ok", "absent"}
    BY <1>3 DEF ReadSettings, RoleInv, Knows
  <2>3. held[h] \in Held /\ held[h].rest = expansion[h]
    BY <1>3 DEF TypeOK, ResmgrType, RoleInv, Placed
  <2> QED
    BY <1>1, <1>3, <2>1, <2>2, <2>3, UnmovedKeeps
       DEF KnownAt, Knows, Creating, Updating, Writing, Unmoved, Written
<1> QED
  BY <1>2, <1>3 DEF ReadSettings

\* The settings a handler writes are those of the expansion it has waited for.
LEMMA HoldKnows ==
  ASSUME TypeOK, RoleInv, NEW h \in Hosts, Writing(h), Writable(h), Hold(h),
         UNCHANGED <<phase, expansion, listed>>, pc'[h] = "idle"
  PROVE  KnownAt(h)'
<1>1. /\ want[h].setting \in Settings /\ phase[h] \in {"ok", "absent"}
      /\ seen[h] \in Held /\ seen[h].rest = expansion[h]
  BY DEF RoleInv, Knows, Writable, Writing
<1>2. held'[h] \in Held /\ held'[h].key \in Settings /\ held'[h].rest = expansion[h]
  BY <1>1, HoldTyped, HeldTyped
<1> QED
  BY <1>1, <1>2, IdleKnows DEF KnownAt, RoleInv, Placed, Written, Writable

LEMMA WriteKnows ==
  ASSUME TypeOK, RoleInv, NEW h \in Hosts, WriteSettings(h) \/ UpdateWrite(h)
  PROVE  KnownAt(h)'
<1>1. /\ Writing(h) /\ UNCHANGED <<phase, expansion, listed>>
      /\ \E r : End(h, r)
  BY DEF WriteSettings, UpdateWrite, Writing, Untouched, hostVars
<1>2. CASE Writable(h) /\ Hold(h)
  BY <1>1, <1>2, EndAt, HoldKnows
<1>3. CASE UNCHANGED held /\ (End(h, Unsettled(h)) \/ End(h, row[h]))
  <2>1. Unmoved(h)
    BY <1>1, <1>3 DEF Unmoved
  <2> QED
    BY <1>3, <2>1, EndUnmoved, UntoldRows
<1> QED
  BY <1>2, <1>3 DEF WriteSettings, UpdateWrite

LEMMA UpdateReadKnows ==
  ASSUME TypeOK, RoleInv, NEW h \in Hosts, UpdateRead(h)
  PROVE  KnownAt(h)'
<1>1. Unmoved(h) /\ row[h] # None /\ want[h].setting \in Settings
  BY NothingUnmoved DEF UpdateRead, RoleInv, Knows, Updating
<1>2. CASE End(h, row[h])
  BY <1>1, <1>2, EndUnmoved
<1>3. CASE h \in listed /\ held[h] # None
  <2>1. /\ phase[h] \in {"ok", "absent"}
        /\ held[h] \in Held /\ held[h].rest = expansion[h]
    BY <1>3 DEF UpdateRead, TypeOK, ResmgrType, RoleInv, Knows, Placed
  <2>2. CASE /\ held[h].key = want[h].setting
             /\ End(h, [row[h] EXCEPT !.setting = want[h].setting])
    <3>1. pc'[h] = "idle"
      BY <2>2, EndAt
    <3>2. Written(h)'
      BY <1>1, <2>1, <2>2 DEF Written, Unmoved
    <3> QED
      BY <1>1, <3>1, <3>2, IdleKnows, UnmovedKeeps DEF KnownAt
  <2>3. CASE seen' = [seen EXCEPT ![h] = held[h]] /\ Goto(h, "update_write") /\ UNCHANGED row
    <3>1. /\ pc'[h] = "update_write" /\ row'[h] = row[h] /\ want'[h] = want[h]
          /\ seen'[h] = held[h]
      BY <2>3, GotoAt DEF UpdateRead, TypeOK, HostRoleType
    <3> QED
      BY <1>1, <1>3, <2>1, <3>1, UnmovedKeeps
         DEF KnownAt, Knows, Creating, Updating, Writing, Unmoved
  <2> QED
    BY <1>2, <2>2, <2>3 DEF UpdateRead
<1> QED
  BY <1>2, <1>3 DEF UpdateRead

LEMMA RemoveKnows ==
  ASSUME TypeOK, RoleInv, NEW h \in Hosts, Remove(h)
  PROVE  KnownAt(h)'
<1>1. UNCHANGED <<held, expansion, listed>>
  BY DEF Remove
<1>2. CASE UNCHANGED phase /\ End(h, row[h])
  BY <1>1, <1>2, EndUnmoved DEF Unmoved
<1>3. CASE /\ phase' = [phase EXCEPT ![h] = "absent"]
           /\ \/ Goto(h, "put") /\ Record(h, None)
              \/ End(h, None) \/ End(h, row[h])
  <2>1. phase'[h] = "absent"
    BY <1>3 DEF TypeOK, ResmgrType
  <2>2. Placed(h)' /\ Written(h)'
    BY <1>1, <2>1 DEF RoleInv, Placed, Written
  <2>3. Knows(h)'
    <3>1. CASE Goto(h, "put") /\ Record(h, None)
      BY <3>1, GotoAt, RecordAt DEF Knows, Creating, Updating, Writing
    <3>2. CASE End(h, None) \/ End(h, row[h])
      BY <3>2, EndAt, IdleKnows
    <3> QED
      BY <1>3, <3>1, <3>2
  <2> QED
    BY <2>2, <2>3 DEF KnownAt
<1> QED
  BY <1>2, <1>3 DEF Remove

\* Read and import: the settings are read again where the row manages one.
LEMMA ReadRoleKnows ==
  ASSUME TypeOK, RoleInv, NEW h \in Hosts, ReadRole(h) \/ ImportRole(h)
  PROVE  KnownAt(h)'
<1>1. Unmoved(h) /\ pc'[h] = "idle"
  BY NothingUnmoved DEF ReadRole, ImportRole
<1>2. CASE Record(h, None) \/ Record(h, [setting |-> None, tainted |-> "no"])
  <2>1. Untold(row'[h])
    BY <1>2, RecordAt, UntoldRows
  <2> QED
    BY <1>1, <2>1, IdleKnows, UntoldWritten, UnmovedKeeps DEF KnownAt
<1>3. CASE /\ row[h] # None /\ row[h].setting # None /\ held[h] # None
           /\ Record(h, [row[h] EXCEPT !.setting = held[h].key])
  <2>1. row'[h] = [row[h] EXCEPT !.setting = held[h].key] /\ row[h] \in Rows
    BY <1>3, RecordAt DEF TypeOK, HostRoleType
  <2>2. row'[h].setting = held[h].key
    BY <2>1 DEF Rows
  <2>3. Written(h)'
    BY <1>1, <1>3, <2>2 DEF RoleInv, Written, Unmoved
  <2> QED
    BY <1>1, <2>3, IdleKnows, UnmovedKeeps DEF KnownAt
<1> QED
  BY <1>2, <1>3 DEF ReadRole, ImportRole

-----------------------------------------------------------------------------
(* The resource manager's own steps, and the results.                      *)

\* An expansion meets no row that manages a setting and no reader of settings.
LEMMA WorkKnows ==
  ASSUME TypeOK, RoleInv, ResmgrWork, UNCHANGED roleRows
  PROVE  RoleInv'
<1>1. PICK h \in Hosts :
        \/ UnbindLater(h) \/ Expand(h) \/ Converge(h) \/ Describe(h)
        \/ Decommission(h) \/ Return(h)
  BY DEF ResmgrWork
<1>2. \A g \in Hosts : /\ pc'[g] = pc[g] /\ row'[g] = row[g]
                        /\ want'[g] = want[g] /\ seen'[g] = seen[g]
  BY DEF roleRows
<1>3. \A g \in Hosts : g # h => SameAt(g)
  BY <1>1, <1>2 DEF UnbindLater, Expand, Converge, Describe, Decommission, Return,
                    Become, hostVars, roleVars, SameAt, TypeOK, ResmgrType
<1>4. CASE UnbindLater(h) \/ Describe(h)
  <2>1. Unmoved(h)
    BY <1>4 DEF UnbindLater, Describe, Unmoved, hostVars, roleVars
  <2> QED
    BY <1>2, <1>3, <2>1, UnmovedKeeps, Local
<1>5. CASE Expand(h)
  <2>1. /\ phase[h] = "assigned" /\ phase'[h] = "converging" /\ listed' = listed
        /\ held'[h] = [key |-> Default, rest |-> expansion'[h]] /\ held'[h] \in Held
    <3>1. PICK rest \in Computed :
            /\ phase[h] = "assigned" /\ phase' = [phase EXCEPT ![h] = "converging"]
            /\ expansion' = [expansion EXCEPT ![h] = rest]
            /\ held' = [held EXCEPT ![h] = [key |-> Default, rest |-> rest]]
      BY <1>5 DEF Expand, Become, Computed
    <3> QED
      BY <1>5, <3>1, HeldTyped DEF Expand, hostVars, TypeOK, ResmgrType
  <2>2. h \in listed
    BY <2>1 DEF RoleInv, Placed
  <2>3. Knows(h)'
    BY <1>2, <2>1, <2>2 DEF RoleInv, Knows, Creating, Updating, Writing
  <2>4. Placed(h)'
    BY <2>1, <2>2 DEF Placed
  <2>5. Written(h)'
    BY <1>2, <2>1 DEF RoleInv, Written
  <2> QED
    BY <1>3, <2>3, <2>4, <2>5, Local
<1>6. CASE Converge(h)
  <2>1. /\ phase[h] \in {"converging", "failed"}
        /\ phase'[h] \in {"converging", "ok", "failed"}
        /\ UNCHANGED <<held, expansion, listed>>
    BY <1>6 DEF Converge, Become, hostVars, TypeOK, ResmgrType
  <2>2. h \in listed
    BY <2>1 DEF RoleInv, Placed
  <2>3. Knows(h)'
    BY <1>2, <2>1, <2>2 DEF RoleInv, Knows, Creating, Updating, Writing
  <2>4. Placed(h)'
    BY <2>1, <2>2 DEF RoleInv, Placed
  <2>5. Written(h)'
    BY <1>2, <2>1 DEF RoleInv, Written
  <2> QED
    BY <1>3, <2>3, <2>4, <2>5, Local
<1>7. CASE Decommission(h)
  <2>1. /\ phase'[h] = "absent" /\ h \notin listed'
        /\ UNCHANGED <<held, expansion>>
    BY <1>7 DEF Decommission, TypeOK, ResmgrType
  <2>2. Knows(h)'
    BY <1>2, <2>1 DEF RoleInv, Knows, Creating, Updating, Writing
  <2>3. Placed(h)' /\ Written(h)'
    BY <2>1 DEF RoleInv, Placed, Written
  <2> QED
    BY <1>3, <2>2, <2>3, Local
<1>8. CASE Return(h)
  <2>1. UNCHANGED <<phase, held, expansion>> /\ h \in listed'
    BY <1>8 DEF Return, roleVars
  <2>2. Knows(h)'
    BY <1>2, <2>1 DEF RoleInv, Knows, Creating, Updating, Writing
  <2>3. Placed(h)' /\ Written(h)'
    BY <1>2, <2>1 DEF RoleInv, Placed, Written
  <2> QED
    BY <1>3, <2>2, <2>3, Local
<1> QED
  BY <1>1, <1>4, <1>5, <1>6, <1>7, <1>8

LEMMA RoleKnows ==
  ASSUME Patient, TypeOK, RoleInv, HostRoleNext
  PROVE  RoleInv'
<1>1. PICK h \in Hosts :
        \/ Configure(h) \/ Apply(h) \/ Untaint(h)
        \/ PutRole(h) \/ WaitConverged(h) \/ ReadSettings(h) \/ WriteSettings(h)
        \/ UpdateRead(h) \/ UpdateWrite(h) \/ Remove(h) \/ ReadRole(h) \/ ImportRole(h)
  BY DEF HostRoleNext
<1>2. \A g \in Hosts : g # h => SameAt(g)
  BY <1>1, RoleStepsLocal
<1>3. KnownAt(h)'
  BY <1>1, ConfigureKnows, ApplyKnows, UntaintKnows, PutRoleKnows, WaitKnows, ReadKnows,
     WriteKnows, UpdateReadKnows, RemoveKnows, ReadRoleKnows
<1> QED
  BY <1>2, <1>3, Local DEF KnownAt

\* The types rest on RoleInv, as what is written back must have been read, and
\* RoleInv on the types: the induction is of both.
LEMMA Invariance == ASSUME Patient
                    PROVE  Spec => [](TypeOK /\ RoleInv)
<1>1. Init => TypeOK /\ RoleInv
  <2> SUFFICES ASSUME Init PROVE TypeOK /\ RoleInv
    OBVIOUS
  <2>1. ResmgrType
    BY ConstantsTyped DEF Init, ResmgrInit, ResmgrType, Phases, Computed
  <2>2. HostConfigsType /\ HostRoleType
    BY DEF Init, HostConfigsInit, HostRoleInit, HostConfigsType, HostRoleType, Wants, Labels
  <2>3. RoleInv
    BY DEF Init, ResmgrInit, HostRoleInit, RoleInv, Knows, Placed, Written, Creating,
           Updating, Writing
  <2> QED
    BY <2>1, <2>2, <2>3 DEF TypeOK
<1>2. TypeOK /\ RoleInv /\ [Next]_vars => TypeOK' /\ RoleInv'
  <2> SUFFICES ASSUME TypeOK, RoleInv, [Next]_vars PROVE TypeOK' /\ RoleInv'
    OBVIOUS
  <2>1. CASE HostConfigsNext /\ UNCHANGED roleRows
    <3>1. TypeOK'
      BY <2>1, HostConfigsTyped DEF TypeOK, HostRoleType, roleRows
    <3>2. RoleInv'
      BY <2>1 DEF HostConfigsNext, hostVars, roleVars, roleRows, RoleInv, Knows, Placed,
                  Written, Creating, Updating, Writing
    <3> QED
      BY <3>1, <3>2
  <2>2. CASE HostRoleNext /\ UNCHANGED assignmentVars
    <3>1. TypeOK'
      BY <2>2, RoleRowsTyped, RoleTypesResmgr DEF TypeOK, HostConfigsType, assignmentVars
    <3> QED
      BY <2>2, <3>1, RoleKnows
  <2>3. CASE ResmgrWork /\ UNCHANGED <<assignmentVars, roleRows>>
    <3>1. TypeOK'
      BY <2>3, WorkTyped DEF TypeOK, HostConfigsType, HostRoleType, assignmentVars, roleRows
    <3> QED
      BY <2>3, <3>1, WorkKnows
  <2>4. CASE UNCHANGED vars
    BY <2>4 DEF vars, hostVars, configVars, roleVars, assignmentVars, roleRows, TypeOK,
                ResmgrType, HostConfigsType, HostRoleType, RoleInv, Knows, Placed, Written,
                Creating, Updating, Writing
  <2> QED
    BY <2>1, <2>2, <2>3, <2>4 DEF Next
<1> QED
  BY <1>1, <1>2, PTL DEF Spec

\* Where nobody adds settings before the role has converged, every variable keeps
\* its type: in particular what is written back to a granular role was read from it.
THEOREM TypeCorrect == ASSUME Patient
                       PROVE  Spec => []TypeOK
BY Invariance, PTL

\* Under the same proviso a setting that the state records is not one that an
\* expansion still to come resets (waitConverged before the settings' PUT).
THEOREM SettingsAreKept == ASSUME Patient
                           PROVE  Spec => []SettingsStick
<1>1. RoleInv => SettingsStick
  BY ConstantsTyped DEF RoleInv, Written, SettingsStick
<1> QED
  BY <1>1, Invariance, PTL

\* And the settings nobody manages keep what the last expansion computed, though
\* the provider writes the whole object back (mergeSettings).
THEOREM RestIsKept == ASSUME Patient
                      PROVE  Spec => []RestKeepsComputed
<1>1. RoleInv => RestKeepsComputed
  BY DEF RoleInv, Placed, RestKeepsComputed
<1> QED
  BY <1>1, Invariance, PTL
=============================================================================
