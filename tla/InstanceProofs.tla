--------------------------- MODULE InstanceProofs ---------------------------
(***************************************************************************)
(* What the handlers of an instance promise whatever fails, for any        *)
(* flavors, images, users, groups, configurations and number of failures.  *)
(***************************************************************************)
EXTENDS Instance, TLAPS

\* The local variables of an apply.
Locals ==
    [op : {"none", "create", "update", "delete"}, changed : SUBSET Attributes,
     was : Statuses \cup {None}, status : Statuses \cup {None},
     resizing : BOOLEAN, target : Steady \cup {None}, restore : Steady \cup {None},
     lifted : Steady \cup {None}, pre : Statuses \cup {None}, first : BOOLEAN,
     before : Statuses \cup {None}, unread : BOOLEAN, unconfirmed : BOOLEAN,
     goal : Steady \cup {None}, job : PowerJobs \cup {None},
     cont : Labels \cup {"none", "restored"},
     have : SUBSET Groups, add : SUBSET Groups, remove : SUBSET Groups,
     left : 0 .. MaxTrouble, busy : BOOLEAN]

\* Where setPowerState goes on.
Continues == {"groups", "final", "restored"}
Powering(label) == label \in {"power", "powerwait", "restore"}

CfgTyped == cloud \in Clouds /\ cfg \in Configs /\ edits \in 0 .. MaxEdits
SrvTyped == srv \in Servers \cup {None} /\ trouble \in 0 .. MaxTrouble
RowTyped == row \in Rows \cup {None} /\ result \in {"none", "ok", "error"}
PcTyped == pc \in Labels /\ u \in Locals /\ (Powering(pc) => u.cont \in Continues)

\* The state has a row with an ID.
Named == row # None /\ ~row.blank

\* The row outlives the server it names: what NoServerForgotten asks between applies
\* holds at every step of one.
Recorded == Exists /\ srv.answered => Named

IInv == CfgTyped /\ SrvTyped /\ RowTyped /\ PcTyped /\ Recorded

-----------------------------------------------------------------------------
(* Values.                                                                 *)

LEMMA PowerEnds == \A j \in PowerJobs : To[j] \in Steady /\ From[j] \in Steady
  BY DEF PowerJobs, To, From, Steady

LEMMA ConfigTyped ==
  ASSUME NEW c \in Configs
  PROVE  /\ c.there \in BOOLEAN /\ c.flavor \in Flavors /\ c.image \in Images
         /\ c.power \in Steady \cup {None} /\ c.owner \in Users \cup {None}
         /\ c.groups \in (SUBSET Groups) \cup {None}
  BY InstanceAssumption

LEMMA PlannedTyped ==
  ASSUME IInv
  PROVE  Planned \in Rows /\ ~Planned.blank
  BY ConfigTyped DEF IInv, CfgTyped, Planned, Rows

LEMMA ServerTyped ==
  ASSUME IInv, Exists
  PROVE  /\ srv \in Servers /\ srv.status \in Statuses /\ srv.job \in Jobs
         /\ srv.flavor \in Flavors /\ srv.other \in Flavors /\ srv.image \in Images
         /\ srv.next \in Images /\ srv.owner \in Users /\ srv.groups \in SUBSET Groups
         /\ srv.back \in Steady /\ srv.answered \in BOOLEAN
  BY DEF IInv, SrvTyped, Exists, Servers

LEMMA FlattenTyped ==
  ASSUME IInv, Exists, NEW m \in Rows
  PROVE  flatten(m) \in Rows /\ flatten(m).blank = m.blank
<1>1. /\ srv.image \in Images /\ srv.owner \in Users /\ srv.groups \in SUBSET Groups
  BY ServerTyped
<1> QED
  BY <1>1 DEF flatten, Rows

LEMMA SteadyStatuses == Steady \subseteq Statuses /\ "ACTIVE" \in Steady /\ "SHUTOFF" \in Steady
  BY DEF Steady, Statuses

\* Each local variable takes the values of its type.
LEMMA LocalsUpdated ==
  ASSUME NEW v \in Locals
  PROVE  /\ \A x \in Statuses \cup {None} :
              /\ [v EXCEPT !.status = x] \in Locals /\ [v EXCEPT !.was = x] \in Locals
              /\ [v EXCEPT !.pre = x] \in Locals /\ [v EXCEPT !.before = x] \in Locals
         /\ \A x \in Steady \cup {None} :
              /\ [v EXCEPT !.target = x] \in Locals /\ [v EXCEPT !.restore = x] \in Locals
              /\ [v EXCEPT !.lifted = x] \in Locals /\ [v EXCEPT !.goal = x] \in Locals
         /\ \A x \in BOOLEAN :
              /\ [v EXCEPT !.resizing = x] \in Locals /\ [v EXCEPT !.first = x] \in Locals
              /\ [v EXCEPT !.unread = x] \in Locals /\ [v EXCEPT !.busy = x] \in Locals
              /\ [v EXCEPT !.unconfirmed = x] \in Locals
         /\ \A x \in SUBSET Groups :
              /\ [v EXCEPT !.have = x] \in Locals /\ [v EXCEPT !.add = x] \in Locals
              /\ [v EXCEPT !.remove = x] \in Locals
         /\ \A x \in PowerJobs : [v EXCEPT !.job = x] \in Locals
         /\ [v EXCEPT !.job = None] \in Locals
         /\ \A x \in {"groups", "final"} :
              [v EXCEPT !.cont = x] \in Locals /\ [v EXCEPT !.cont = x].cont = x
<1>1. ASSUME NEW x \in Statuses \cup {None}
      PROVE  /\ [v EXCEPT !.status = x] \in Locals /\ [v EXCEPT !.was = x] \in Locals
             /\ [v EXCEPT !.pre = x] \in Locals /\ [v EXCEPT !.before = x] \in Locals
  <2>1. [v EXCEPT !.status = x] \in Locals
    BY DEF Locals
  <2>2. [v EXCEPT !.was = x] \in Locals
    BY DEF Locals
  <2>3. [v EXCEPT !.pre = x] \in Locals
    BY DEF Locals
  <2>4. [v EXCEPT !.before = x] \in Locals
    BY DEF Locals
  <2> QED
    BY <2>1, <2>2, <2>3, <2>4
<1>2. ASSUME NEW x \in Steady \cup {None}
      PROVE  /\ [v EXCEPT !.target = x] \in Locals /\ [v EXCEPT !.restore = x] \in Locals
             /\ [v EXCEPT !.lifted = x] \in Locals /\ [v EXCEPT !.goal = x] \in Locals
  <2>1. [v EXCEPT !.target = x] \in Locals
    BY DEF Locals
  <2>2. [v EXCEPT !.restore = x] \in Locals
    BY DEF Locals
  <2>3. [v EXCEPT !.lifted = x] \in Locals
    BY DEF Locals
  <2>4. [v EXCEPT !.goal = x] \in Locals
    BY DEF Locals
  <2> QED
    BY <2>1, <2>2, <2>3, <2>4
<1>3. ASSUME NEW x \in BOOLEAN
      PROVE  /\ [v EXCEPT !.resizing = x] \in Locals /\ [v EXCEPT !.first = x] \in Locals
             /\ [v EXCEPT !.unread = x] \in Locals /\ [v EXCEPT !.busy = x] \in Locals
             /\ [v EXCEPT !.unconfirmed = x] \in Locals
  <2>1. [v EXCEPT !.resizing = x] \in Locals
    BY DEF Locals
  <2>2. [v EXCEPT !.first = x] \in Locals
    BY DEF Locals
  <2>3. [v EXCEPT !.unread = x] \in Locals
    BY DEF Locals
  <2>4. [v EXCEPT !.busy = x] \in Locals
    BY DEF Locals
  <2>5. [v EXCEPT !.unconfirmed = x] \in Locals
    BY DEF Locals
  <2> QED
    BY <2>1, <2>2, <2>3, <2>4, <2>5
<1>4. ASSUME NEW x \in SUBSET Groups
      PROVE  /\ [v EXCEPT !.have = x] \in Locals /\ [v EXCEPT !.add = x] \in Locals
             /\ [v EXCEPT !.remove = x] \in Locals
  <2>1. [v EXCEPT !.have = x] \in Locals
    BY DEF Locals
  <2>2. [v EXCEPT !.add = x] \in Locals
    BY DEF Locals
  <2>3. [v EXCEPT !.remove = x] \in Locals
    BY DEF Locals
  <2> QED
    BY <2>1, <2>2, <2>3
<1>5. \A x \in PowerJobs \cup {None} : [v EXCEPT !.job = x] \in Locals
  BY DEF Locals
<1>6. \A x \in {"groups", "final"} :
        [v EXCEPT !.cont = x] \in Locals /\ [v EXCEPT !.cont = x].cont = x
  <2>1. {"groups", "final"} \subseteq Labels
    BY DEF Labels
  <2> QED
    BY <2>1 DEF Locals
<1> QED
  BY <1>1, <1>2, <1>3, <1>4, <1>5, <1>6

LEMMA NoApplyTyped == NoApply \in Locals /\ [NoApply EXCEPT !.op = "create"] \in Locals
<1>1. 0 \in 0 .. MaxTrouble
  BY NovaAssumption
<1> QED
  BY <1>1 DEF NoApply, Locals

-----------------------------------------------------------------------------
(* How a step of an apply ends.                                            *)

\* The operation goes on in order, and keeps the row if there is one.
Steps == RowTyped' /\ PcTyped' /\ (Named => Named')

LEMMA GoSteps ==
  ASSUME IInv, NEW label \in Labels, NEW v \in Locals, Go(label, v),
         Powering(label) => v.cont \in Continues
  PROVE  Steps
  BY DEF IInv, RowTyped, PcTyped, Go, Steps, Named

LEMMA FinishSteps ==
  ASSUME IInv, NEW res \in {"ok", "error"}, NEW m \in Rows, ~m.blank, Finish(res, m)
  PROVE  Steps
<1>1. "idle" \in Labels /\ ~Powering("idle")
  BY DEF Labels, Powering
<1> QED
  BY <1>1, NoApplyTyped, RowAssumption DEF Finish, RowTyped, PcTyped, Steps, Named

LEMMA FailSteps ==
  ASSUME IInv, Fail
  PROVE  Steps
<1>1. CASE u.restore # None
  <2>1. /\ [u EXCEPT !.restore = None, !.goal = u.restore, !.cont = "restored",
                     !.left = trouble] \in Locals
    <3> DEFINE v == [u EXCEPT !.restore = None, !.goal = u.restore]
    <3>1. u \in Locals /\ u.restore \in Steady \cup {None} /\ trouble \in 0 .. MaxTrouble
      BY DEF IInv, PcTyped, SrvTyped, Locals
    <3>2. v \in Locals
      BY <3>1, LocalsUpdated
    <3> HIDE DEF v
    <3> DEFINE w == [v EXCEPT !.cont = "restored"]
    <3>3. w \in Locals
      BY <3>2 DEF Locals
    <3> HIDE DEF w
    <3>4. [w EXCEPT !.left = trouble] \in Locals
      BY <3>1, <3>3 DEF Locals
    <3> QED
      BY <3>4 DEF v, w
  <2>3. "restore" \in Labels /\ "restored" \in Continues
    BY DEF Labels, Continues
  <2>2. [u EXCEPT !.restore = None, !.goal = u.restore, !.cont = "restored",
                  !.left = trouble].cont = "restored"
    BY DEF IInv, PcTyped, Locals
  <2> QED
    BY <1>1, <2>1, <2>2, <2>3, GoSteps DEF Fail
<1>2. CASE u.restore = None
  <2> DEFINE m == IF u.op = "create" /\ row # None
                  THEN [row EXCEPT !.tainted = TRUE] ELSE row
  <2>1. m \in Rows \cup {None} /\ (Named => m # None /\ ~m.blank)
    BY RowAssumption DEF IInv, RowTyped, Rows, Named
  <2>2. Finish("error", m)
    BY <1>2 DEF Fail
  <2>3. "idle" \in Labels /\ ~Powering("idle")
    BY DEF Labels, Powering
  <2> QED
    BY <2>1, <2>2, <2>3, NoApplyTyped DEF Finish, RowTyped, PcTyped, Steps, Named
<1> QED
  BY <1>1, <1>2

-----------------------------------------------------------------------------
(* What becomes of the server.                                             *)

\* A server made of another, which Nova neither boots nor forgets the groups of.
Same(s) == s \in Servers /\ s.groups = srv.groups /\ s.answered = srv.answered

\* No step makes a server, or has its answer come after all.
Stays == Exists' => Exists /\ srv'.answered = srv.answered

Alike == \E s \in Servers : s.answered = srv.answered /\ srv' \in {s, srv}

LEMMA RequestsTyped ==
  ASSUME IInv, Exists
  PROVE  /\ \A j \in Jobs : Same(Working(j))
         /\ \A f \in Flavors : srv.status \in Steady => Same(Resizing(f))
         /\ Same(Reverting)
         /\ \A i \in Images : Same(Rebuilding(i))
         /\ \A o \in Users : Same([srv EXCEPT !.owner = o])
         /\ \A g \in SUBSET Groups : [srv EXCEPT !.groups = g] \in Servers
                                  /\ [srv EXCEPT !.groups = g].groups = g
                                  /\ [srv EXCEPT !.groups = g].answered = srv.answered
<1>1. srv \in Servers
  BY ServerTyped
<1>2. {"resize", "revert", "rebuild"} \subseteq Jobs
      /\ {"RESIZE", "REVERT_RESIZE", "REBUILD"} \subseteq Statuses
      /\ Steady \subseteq Statuses /\ "ACTIVE" \in Steady /\ "SHUTOFF" \in Steady
  BY DEF Jobs, Statuses, Steady
<1>3. \A j \in Jobs : Same(Working(j))
  BY <1>1 DEF Same, Working, Servers
<1>4. \A f \in Flavors : srv.status \in Steady => Same(Resizing(f))
  BY <1>1, <1>2 DEF Same, Resizing, Servers
<1>5. Same(Reverting)
  BY <1>1, <1>2 DEF Same, Reverting, Servers
<1>6. ASSUME NEW i \in Images PROVE Same(Rebuilding(i))
  <2> DEFINE st == IF srv.status = "ERROR" THEN srv.status ELSE "REBUILD"
             bk == IF srv.status = "SHUTOFF" THEN "SHUTOFF" ELSE "ACTIVE"
             im == IF VolumeBacked THEN srv.image ELSE i
  <2>1. Rebuilding(i) = [srv EXCEPT !.job = "rebuild", !.next = i, !.status = st,
                                    !.back = bk, !.image = im]
    BY <1>1 DEF Rebuilding, Servers
  <2>2. st \in Statuses /\ bk \in Steady /\ im \in Images
    BY <1>1, <1>2 DEF Servers
  <2> HIDE DEF st, bk, im
  <2> QED
    BY <1>1, <1>2, <2>1, <2>2 DEF Same, Servers
<1>7. \A o \in Users : Same([srv EXCEPT !.owner = o])
  BY <1>1 DEF Same, Servers
<1>8. \A g \in SUBSET Groups : [srv EXCEPT !.groups = g] \in Servers
                            /\ [srv EXCEPT !.groups = g].groups = g
                            /\ [srv EXCEPT !.groups = g].answered = srv.answered
  BY <1>1 DEF Servers
<1> QED
  BY <1>3, <1>4, <1>5, <1>6, <1>7, <1>8

LEMMA BootedTyped ==
  ASSUME NEW f \in Flavors, NEW i \in Images, NEW o \in Users, NEW g \in SUBSET Groups,
         NEW a \in BOOLEAN
  PROVE  Booted(f, i, o, g, a) \in Servers /\ Booted(f, i, o, g, a).answered = a
<1>1. "build" \in Jobs /\ "BUILD" \in Statuses /\ "ACTIVE" \in Steady
  BY DEF Jobs, Statuses, Steady
<1> QED
  BY <1>1 DEF Booted, Servers

\* Nova's own work ends in the statuses it may, and touches no groups.
LEMMA EndSame ==
  ASSUME IInv, Exists, NEW status \in Statuses, End(status)
  PROVE  Same(srv')
<1>1. srv \in Servers /\ srv.image \in Images /\ "" \in Jobs
  BY ServerTyped DEF Jobs
<1> QED
  BY <1>1 DEF End, Same, Servers

LEMMA WorkSame ==
  ASSUME IInv, Work \/ Fails
  PROVE  /\ trouble' \in 0 .. MaxTrouble
         /\ Exists /\ (srv' = None \/ Same(srv'))
<1>1. trouble' \in 0 .. MaxTrouble
  BY NovaAssumption DEF Work, Fails, Trouble, IInv, SrvTyped
<1>2. Exists
  BY DEF Work, Fails, FinishBuild, FinishPower, ProgressResize, FinishResize, CloudConfirm,
         FinishConfirm, FinishRevert, FinishRebuild, FinishPoweroff, FinishDelete, Works,
         Accepts, Idle
<1>3. /\ {"", "finish_resize", "confirm", "poweroff"} \subseteq Jobs
      /\ {"ACTIVE", "SHUTOFF", "VERIFY_RESIZE", "ERROR"} \subseteq Statuses
      /\ Steady \subseteq Statuses
  BY DEF Jobs, Statuses, Steady
<1>4. srv \in Servers /\ srv.back \in Statuses
  BY <1>2, <1>3, ServerTyped
<1>5. CASE \E status \in Statuses : End(status)
  BY <1>1, <1>2, <1>5, EndSame
<1>6. CASE FinishDelete
  BY <1>1, <1>2, <1>6 DEF FinishDelete
<1>7. CASE ProgressResize \/ CloudConfirm \/ FinishRevert
  BY <1>1, <1>2, <1>3, <1>4, <1>7 DEF ProgressResize, CloudConfirm, Working, FinishRevert, Same, Servers
<1>8. CASE FinishRebuild
  <2>1. PICK j \in Jobs :
          srv' = [srv EXCEPT !.status = "ACTIVE", !.image = srv.next, !.job = j]
    BY <1>3, <1>8 DEF FinishRebuild
  <2> QED
    BY <1>1, <1>2, <1>3, <1>4, <2>1 DEF Same, Servers
<1>9. CASE srv' = [srv EXCEPT !.status = "ERROR", !.job = "", !.image = srv.next]
  BY <1>1, <1>2, <1>3, <1>4, <1>9 DEF Same, Servers
<1>10. CASE FinishBuild \/ FinishPower \/ FinishResize \/ FinishConfirm \/ FinishPoweroff
  <2>1. \E status \in Statuses : End(status)
    BY <1>3, <1>4, <1>10, PowerEnds
       DEF FinishBuild, FinishPower, FinishResize, FinishConfirm, FinishPoweroff
  <2> QED
    BY <1>5, <2>1
<1>11. CASE Fails
  <2>1. \/ \E status \in Statuses : End(status)
        \/ srv' = [srv EXCEPT !.status = "ERROR", !.job = "", !.image = srv.next]
    BY <1>3, <1>4, <1>11, PowerEnds DEF Fails
  <2> QED
    BY <1>5, <1>9, <2>1
<1> QED
  BY <1>6, <1>7, <1>8, <1>10, <1>11 DEF Work

LEMMA OutsideTyped ==
  ASSUME IInv, Outside
  PROVE  SrvTyped' /\ Exists /\ Stays
<1>1. Exists /\ srv \in Servers
  BY ServerTyped DEF Outside, Accepts, Idle
<1>2. Steady \cup {"RESCUE", "ERROR"} \subseteq Statuses
  BY DEF Statuses, Steady
<1>3. trouble' \in 0 .. MaxTrouble
  BY NovaAssumption DEF Outside, Trouble, IInv, SrvTyped
<1>4. srv' = None \/ (srv' \in Servers /\ srv'.answered = srv.answered)
  <2>1. CASE \E status \in Statuses : End(status)
    BY <1>1, <2>1, EndSame DEF Same
  <2>2. CASE srv' = None
    BY <2>2
  <2>3. CASE \E o \in Users : srv' = [srv EXCEPT !.owner = o]
    BY <1>1, <2>3, RequestsTyped DEF Same
  <2>4. CASE \E g \in SUBSET Groups : srv' = [srv EXCEPT !.groups = g]
    BY <1>1, <2>4, RequestsTyped
  <2> QED
    BY <1>2, <2>1, <2>2, <2>3, <2>4 DEF Outside
<1> QED
  BY <1>1, <1>3, <1>4 DEF SrvTyped, Stays, Exists

-----------------------------------------------------------------------------
(* The steps of an apply.                                                  *)

\* What every step does but the boot of a server and the end of a deletion.
Takes == SrvTyped' /\ Steps /\ Stays

Plain == Labels \ {"power", "powerwait", "restore"}

LEMMA PlainGo ==
  ASSUME IInv, NEW label \in Plain, NEW v \in Locals, Go(label, v)
  PROVE  Steps
  BY GoSteps DEF Plain, Powering

\* A step that only looks, and one whose request is accepted, answered or not.
LEMMA Looks ==
  ASSUME IInv, UNCHANGED srv, UNCHANGED trouble \/ Trouble
  PROVE  SrvTyped' /\ Stays
  BY NovaAssumption DEF IInv, SrvTyped, Trouble, Exists, Stays

LEMMA Asks ==
  ASSUME IInv, Exists, NEW s \in Servers, s.answered = srv.answered,
         srv' \in {s, srv}, UNCHANGED trouble \/ Trouble
  PROVE  SrvTyped' /\ Stays
  BY NovaAssumption, ServerTyped DEF IInv, SrvTyped, Trouble, Stays

\* Every wait ends in one of its two ways, and only looks.
LEMMA BootWaitTakes ==
  ASSUME IInv, BootWait
  PROVE  Takes
<1>1. UNCHANGED srv /\ (UNCHANGED trouble \/ Trouble)
  BY DEF BootWait
<1>2. CASE Fail
  BY <1>1, <1>2, Looks, FailSteps DEF Takes
<1>3. CASE /\ Exists /\ pc' = "owner" /\ u' = [u EXCEPT !.status = "ACTIVE"]
           /\ row' \in {row, flatten(Planned)} /\ UNCHANGED result
  <2>1. row' = row \/ (row' \in Rows /\ ~row'.blank)
    BY <1>3, FlattenTyped, PlannedTyped
  <2>2. RowTyped' /\ (Named => Named')
    BY <1>3, <2>1, RowAssumption DEF IInv, RowTyped, Named
  <2>3. [u EXCEPT !.status = "ACTIVE"] \in Locals
    BY SteadyStatuses DEF IInv, PcTyped, Locals
  <2>4. PcTyped'
    BY <1>3, <2>3 DEF PcTyped, Powering, Labels
  <2> QED
    BY <1>1, <2>2, <2>4, Looks DEF Takes, Steps
<1> QED
  BY <1>2, <1>3 DEF BootWait

LEMMA OwnerTakes ==
  ASSUME IInv, ChangeOwner
  PROVE  Takes
<1> DEFINE next == IF u.op = "create" THEN "strip" ELSE "live"
<1>1. Steps
  <2>1. next \in Plain /\ u \in Locals
    BY DEF Plain, Labels, IInv, PcTyped
  <2>2. Go(next, u) \/ Fail
    BY DEF ChangeOwner, Get, Call
  <2> QED
    BY <2>1, <2>2, PlainGo, FailSteps
<1>2. SrvTyped' /\ Stays
  <2>1. UNCHANGED trouble \/ Trouble
    BY DEF ChangeOwner, Get, Call
  <2>2. CASE UNCHANGED srv
    BY <2>1, <2>2, Looks
  <2>3. CASE cfg.owner # None /\ Exists /\ srv' \in {[srv EXCEPT !.owner = cfg.owner], srv}
    <3>1. cfg.owner \in Users
      BY <2>3, ConfigTyped DEF IInv, CfgTyped
    <3> QED
      BY <2>1, <2>3, <3>1, RequestsTyped, Asks DEF Same
  <2> QED
    BY <2>2, <2>3 DEF ChangeOwner, Get, Call
<1> QED
  BY <1>1, <1>2 DEF Takes

LEMMA StripTakes ==
  ASSUME IInv, Strip
  PROVE  Takes
<1>1. UNCHANGED trouble \/ Trouble
  BY DEF Strip, Get, Call
<1>2. CASE Fail /\ UNCHANGED srv
  BY <1>1, <1>2, Looks, FailSteps DEF Takes
<1>3. CASE /\ Exists
           /\ Fail \/ Go("strip", u)
           /\ \E g \in srv.groups : srv' \in {[srv EXCEPT !.groups = @ \ {g}], srv}
  <2>1. PICK g \in srv.groups : srv' \in {[srv EXCEPT !.groups = srv.groups \ {g}], srv}
    BY <1>3, ServerTyped DEF Servers
  <2>2. srv.groups \ {g} \in SUBSET Groups
    BY <1>3, ServerTyped
  <2>3. "strip" \in Plain /\ u \in Locals
    BY DEF Plain, Labels, IInv, PcTyped
  <2> QED
    BY <1>1, <1>3, <2>1, <2>2, <2>3, RequestsTyped, Asks, PlainGo, FailSteps DEF Takes
<1>4. CASE UNCHANGED srv /\ Go("final", u)
  <2>1. "final" \in Plain /\ u \in Locals
    BY DEF Plain, Labels, IInv, PcTyped
  <2> QED
    BY <1>1, <1>4, <2>1, Looks, PlainGo DEF Takes
<1>5. CASE /\ UNCHANGED srv /\ Exists
           /\ Go("power", [u EXCEPT !.status = srv.status, !.goal = cfg.power,
                                    !.cont = "final"])
  <2>1. srv.status \in Statuses /\ cfg.power \in Steady \cup {None}
    BY <1>5, ServerTyped, ConfigTyped DEF IInv, CfgTyped
  <2> DEFINE v == [u EXCEPT !.status = srv.status, !.goal = cfg.power, !.cont = "final"]
  <2>2. v \in Locals /\ v.cont = "final"
    BY <2>1, LocalsUpdated DEF IInv, PcTyped
  <2>3. "power" \in Labels /\ "final" \in Continues
    BY DEF Labels, Continues
  <2>4. Go("power", v)
    BY <1>5
  <2> HIDE DEF v
  <2> QED
    BY <1>1, <1>5, <2>2, <2>3, <2>4, Looks, GoSteps DEF Takes
<1> QED
  BY <1>2, <1>3, <1>4, <1>5 DEF Strip, Get, Call

LEMMA LiveTakes ==
  ASSUME IInv, Live
  PROVE  Takes
<1>1. UNCHANGED srv /\ (UNCHANGED trouble \/ Trouble)
  BY DEF Live, Get
<1>2. CASE Fail
  BY <1>1, <1>2, Looks, FailSteps DEF Takes
<1>3. CASE Exists
  <2> DEFINE was == IF Idle THEN srv.status ELSE None
             resizing == cfg.flavor \notin {row.flavor, srv.flavor}
             v == [u EXCEPT !.status = srv.status, !.was = was, !.have = srv.groups,
                            !.resizing = resizing]
  <2>1. srv.status \in Statuses /\ was \in Statuses \cup {None}
        /\ srv.groups \in SUBSET Groups /\ resizing \in BOOLEAN
    BY <1>3, ServerTyped
  <2>2. v \in Locals /\ [v EXCEPT !.first = TRUE] \in Locals
    <3> HIDE DEF was, resizing
    <3>1. v \in Locals
      BY <2>1, LocalsUpdated DEF IInv, PcTyped
    <3> HIDE DEF v
    <3> QED
      BY <3>1, LocalsUpdated
  <2>3. {"pending", "rebuild", "target"} \subseteq Plain
    BY DEF Plain, Labels
  <2>4. \/ Go("pending", v) \/ Go("rebuild", [v EXCEPT !.first = TRUE])
        \/ Go("target", v) \/ Fail
    BY DEF Live, Get, LiveGroups
  <2> HIDE DEF v
  <2> QED
    BY <1>1, <1>2, <2>2, <2>3, <2>4, Looks, PlainGo DEF Takes
<1> QED
  BY <1>2, <1>3 DEF Live, Get

\* A request of a server that goes on at a plain label whatever the answer, or
\* fails: the shape most requests have.
LEMMA RequestTakes ==
  ASSUME IInv, UNCHANGED trouble \/ Trouble,
         NEW label \in Plain, NEW v \in Locals, Go(label, v) \/ Fail \/ Go("revert", u),
         srv' = srv \/ (Exists /\ Alike)
  PROVE  Takes
<1>1. "revert" \in Plain /\ u \in Locals
  BY DEF Plain, Labels, IInv, PcTyped
<1> QED
  BY <1>1, Looks, Asks, PlainGo, FailSteps DEF Takes, Alike

LEMMA ConfirmTakes ==
  ASSUME IInv, ConfirmPending \/ Confirm \/ Revert
  PROVE  Takes
<1>1. {"pendingwait", "confirmwait", "revertwait"} \subseteq Plain /\ u \in Locals
  BY DEF Plain, Labels, IInv, PcTyped
<1>2. UNCHANGED trouble \/ Trouble
  BY DEF ConfirmPending, Confirm, Revert, Call
<1>3. "confirm" \in Jobs
  BY DEF Jobs
<1>4. srv' = srv \/ (Exists /\ Alike)
  BY <1>3, RequestsTyped DEF ConfirmPending, Confirm, Revert, Call, Accepts, Idle, Same, Alike
<1>5. \E label \in {"pendingwait", "confirmwait", "revertwait"} :
        Go(label, u) \/ Fail \/ Go("revert", u)
  BY DEF ConfirmPending, Confirm, Revert, Call
<1> QED
  BY <1>1, <1>2, <1>4, <1>5, RequestTakes

LEMMA PendingWaitTakes ==
  ASSUME IInv, PendingWait
  PROVE  Takes
<1>1. UNCHANGED srv /\ (UNCHANGED trouble \/ Trouble)
  BY DEF PendingWait, Wait
<1>2. CASE Fail
  BY <1>1, <1>2, Looks, FailSteps DEF Takes
<1>3. CASE /\ Exists
           /\ Go("target", [u EXCEPT !.status = srv.status, !.have = srv.groups])
  <2>1. [u EXCEPT !.status = srv.status, !.have = srv.groups] \in Locals
    BY <1>3, ServerTyped, LocalsUpdated DEF IInv, PcTyped
  <2>2. "target" \in Plain
    BY DEF Plain, Labels
  <2> QED
    BY <1>1, <1>3, <2>1, <2>2, Looks, PlainGo DEF Takes
<1> QED
  BY <1>2, <1>3 DEF PendingWait, Wait, Settled, LiveGroups

LEMMA TargetTakes ==
  ASSUME IInv, Target
  PROVE  Takes
<1> DEFINE restore == IF LiftForResize /\ Wanted = None THEN u.status ELSE None
           target == IF restore = None THEN Wanted ELSE restore
           add == IF cfg.groups = None THEN {} ELSE cfg.groups \ u.have
           remove == IF cfg.groups = None THEN {} ELSE u.have \ cfg.groups
           v == [u EXCEPT !.target = target, !.restore = restore, !.lifted = restore,
                          !.goal = "ACTIVE", !.cont = "groups", !.add = add,
                          !.remove = remove]
<1>1. cfg.power \in Steady \cup {None} /\ cfg.groups \in (SUBSET Groups) \cup {None}
      /\ u \in Locals /\ u.have \in SUBSET Groups
  BY ConfigTyped DEF IInv, CfgTyped, PcTyped, Locals
<1>2. /\ restore \in Steady \cup {None} /\ target \in Steady \cup {None}
      /\ add \in SUBSET Groups /\ remove \in SUBSET Groups /\ "ACTIVE" \in Steady
  BY <1>1 DEF LiftForResize, Wanted, Steady
<1>3. v \in Locals /\ v.cont = "groups"
  <2> DEFINE w == [u EXCEPT !.target = target, !.restore = restore, !.lifted = restore,
                            !.goal = "ACTIVE"]
  <2> HIDE DEF restore, target, add, remove
  <2>1. w \in Locals
    BY <1>1, <1>2, LocalsUpdated
  <2>2. v = [w EXCEPT !.cont = "groups", !.add = add, !.remove = remove]
    OBVIOUS
  <2> HIDE DEF w
  <2>3. [w EXCEPT !.cont = "groups", !.add = add, !.remove = remove] \in Locals
    BY <1>2, <2>1, LocalsUpdated
  <2>4. [w EXCEPT !.cont = "groups", !.add = add, !.remove = remove].cont = "groups"
    BY <2>1 DEF Locals
  <2> HIDE DEF v
  <2> QED
    BY <2>2, <2>3, <2>4
<1>4. Go("power", v) \/ Go("groups", v)
  BY DEF Target
<1>5. UNCHANGED <<srv, trouble>>
  BY DEF Target
<1>6. "power" \in Labels /\ "groups" \in Labels /\ "groups" \in Continues
  BY DEF Labels, Continues
<1> HIDE DEF v
<1> QED
  BY <1>3, <1>4, <1>5, <1>6, GoSteps, Looks DEF Takes

LEMMA PowerTakes ==
  ASSUME IInv, Power, pc = "power"
  PROVE  Takes
<1>1. u \in Locals /\ u.cont \in Continues
  BY DEF IInv, PcTyped, Powering
<1>2. CASE Fail /\ UNCHANGED <<srv, trouble>>
  BY <1>2, Looks, FailSteps DEF Takes
<1>3. CASE u.cont # "restored" /\ Go(u.cont, u) /\ UNCHANGED <<srv, trouble>>
  <2>1. u.cont \in Plain
    BY <1>1, <1>3 DEF Continues, Plain, Labels, IInv, PcTyped, Powering
  <2> QED
    BY <1>1, <1>3, <2>1, PlainGo, Looks DEF Takes, IInv, PcTyped
<1>4. CASE \E j \in PowerJobs : Call(Accepts({From[j]}), Working(j),
                                   Go("powerwait", [u EXCEPT !.job = j]), Fail)
  <2>1. PICK j \in PowerJobs : Call(Accepts({From[j]}), Working(j),
                                   Go("powerwait", [u EXCEPT !.job = j]), Fail)
    BY <1>4
  <2>2. j \in Jobs
    BY DEF Jobs
  <2>3. UNCHANGED trouble \/ Trouble
    BY <2>1 DEF Call
  <2>4. SrvTyped' /\ Stays
    <3>1. CASE UNCHANGED srv
      BY <2>3, <3>1, Looks
    <3>2. CASE Exists /\ srv' \in {Working(j), srv}
      BY <2>2, <2>3, <3>2, RequestsTyped, Asks DEF Same
    <3> QED
      BY <2>1, <3>1, <3>2 DEF Call, Accepts, Idle
  <2>5. Steps
    <3>1. [u EXCEPT !.job = j] \in Locals /\ [u EXCEPT !.job = j].cont = u.cont
      <4>1. [u EXCEPT !.job = j] \in Locals
        BY <1>1, LocalsUpdated
      <4> QED
        BY <1>1, <4>1 DEF Locals
    <3>2. "powerwait" \in Labels /\ u.cont \in Continues
      BY DEF Labels, IInv, PcTyped, Powering
    <3> QED
      BY <2>1, <3>1, <3>2, GoSteps, FailSteps DEF Call
  <2> QED
    BY <2>4, <2>5 DEF Takes
<1> QED
  BY <1>2, <1>3, <1>4 DEF Power

\* A server whose power step ended, or that is read for the restore.
LEMMA PowerOnTakes ==
  ASSUME IInv, \/ pc = "powerwait" /\ PowerWait
               \/ pc = "restore" /\ Restore
  PROVE  Takes
<1>1. UNCHANGED srv /\ (UNCHANGED trouble \/ Trouble)
  BY DEF PowerWait, Restore, Wait, Get
<1>2. u \in Locals /\ u.cont \in Continues
  BY DEF IInv, PcTyped, Powering
<1>3. CASE Fail
  BY <1>1, <1>3, Looks, FailSteps DEF Takes
<1>4. CASE Exists /\ Go("power", [u EXCEPT !.status = srv.status, !.job = None])
  <2> DEFINE v == [u EXCEPT !.status = srv.status, !.job = None]
  <2>1. srv.status \in Statuses
    BY <1>4, ServerTyped
  <2>2. v \in Locals /\ v.cont = u.cont
    <3>1. v \in Locals
      BY <1>2, <2>1, LocalsUpdated
    <3> QED
      BY <1>2, <3>1 DEF Locals
  <2>3. "power" \in Labels
    BY DEF Labels
  <2>4. Go("power", v)
    BY <1>4
  <2> HIDE DEF v
  <2> QED
    BY <1>1, <1>2, <2>2, <2>3, <2>4, GoSteps, Looks DEF Takes
<1>5. CASE \E b \in BOOLEAN :
             Exists /\ Go("power", [u EXCEPT !.status = srv.status, !.busy = b])
  <2>0. PICK b \in BOOLEAN : Go("power", [u EXCEPT !.status = srv.status, !.busy = b])
    BY <1>5
  <2> DEFINE v == [u EXCEPT !.status = srv.status, !.busy = b]
  <2>1. srv.status \in Statuses
    BY <1>5, ServerTyped
  <2>2. v \in Locals /\ v.cont = u.cont
    <3>1. v \in Locals
      BY <1>2, <2>1, LocalsUpdated
    <3> QED
      BY <1>2, <3>1 DEF Locals
  <2>3. "power" \in Labels
    BY DEF Labels
  <2>4. Go("power", v)
    BY <2>0
  <2> HIDE DEF v
  <2> QED
    BY <1>1, <1>2, <2>2, <2>3, <2>4, GoSteps, Looks DEF Takes
<1>6. CASE PowerWait
  BY <1>3, <1>4, <1>6 DEF PowerWait, Wait, Settled
<1>7. CASE Restore
  <2>1. (~Accepts(Steady)) \in BOOLEAN
    BY DEF Accepts, Idle
  <2> QED
    BY <1>3, <1>5, <1>7, <2>1 DEF Restore, Get
<1> QED
  BY <1>6, <1>7

\* Groups are added and removed one at a time.
LEMMA GroupsTake ==
  ASSUME IInv, SwapGroups
  PROVE  Takes
<1>1. u \in Locals /\ u.add \in SUBSET Groups /\ u.remove \in SUBSET Groups
  BY DEF IInv, PcTyped, Locals
<1>2. {"groups", "resize"} \subseteq Plain
  BY DEF Plain, Labels
<1>3. ASSUME NEW g \in u.add, AddGroup(g) PROVE Takes
  <2>1. [u EXCEPT !.add = @ \ {g}] \in Locals
    <3>1. [u EXCEPT !.add = @ \ {g}] = [u EXCEPT !.add = u.add \ {g}]
      BY <1>1 DEF Locals
    <3> QED
      BY <1>1, <3>1, LocalsUpdated
  <2>2. Exists => srv.groups \cup {g} \in SUBSET Groups /\ srv \in Servers
    BY <1>1, ServerTyped
  <2>3. srv' = srv \/ (Exists /\ Alike)
    <3>1. CASE Exists /\ srv' \in {[srv EXCEPT !.groups = @ \cup {g}], srv}
      <4>1. [srv EXCEPT !.groups = @ \cup {g}] = [srv EXCEPT !.groups = srv.groups \cup {g}]
        BY <2>2, <3>1 DEF Servers
      <4> QED
        BY <2>2, <3>1, <4>1, RequestsTyped DEF Alike
    <3> QED
      BY <1>3, <3>1 DEF AddGroup, Call
  <2>4. UNCHANGED trouble \/ Trouble
    BY <1>3 DEF AddGroup, Call
  <2>5. Go("groups", [u EXCEPT !.add = @ \ {g}]) \/ Fail
    BY <1>3 DEF AddGroup, Call
  <2> QED
    BY <1>2, <2>1, <2>3, <2>4, <2>5, RequestTakes
<1>4. ASSUME NEW g \in u.remove, RemoveGroup(g) PROVE Takes
  <2>1. [u EXCEPT !.remove = @ \ {g}] \in Locals
    <3>1. [u EXCEPT !.remove = @ \ {g}] = [u EXCEPT !.remove = u.remove \ {g}]
      BY <1>1 DEF Locals
    <3> QED
      BY <1>1, <3>1, LocalsUpdated
  <2>2. Exists => srv.groups \ {g} \in SUBSET Groups /\ srv \in Servers
    BY ServerTyped
  <2>3. srv' = srv \/ (Exists /\ Alike)
    <3>1. CASE Exists /\ srv' \in {[srv EXCEPT !.groups = @ \ {g}], srv}
      <4>1. [srv EXCEPT !.groups = @ \ {g}] = [srv EXCEPT !.groups = srv.groups \ {g}]
        BY <2>2, <3>1 DEF Servers
      <4> QED
        BY <2>2, <3>1, <4>1, RequestsTyped DEF Alike
    <3> QED
      BY <1>4, <3>1 DEF RemoveGroup, Call
  <2>4. UNCHANGED trouble \/ Trouble
    BY <1>4 DEF RemoveGroup, Call
  <2>5. Go("groups", [u EXCEPT !.remove = @ \ {g}]) \/ Fail
    BY <1>4 DEF RemoveGroup, Call
  <2> QED
    BY <1>2, <2>1, <2>3, <2>4, <2>5, RequestTakes
<1>5. CASE Go("resize", u) /\ UNCHANGED <<srv, trouble>>
  BY <1>1, <1>2, <1>5, RequestTakes
<1> QED
  BY <1>3, <1>4, <1>5 DEF SwapGroups

LEMMA ResizeTakes ==
  ASSUME IInv, Resize
  PROVE  Takes
<1>1. u \in Locals /\ [u EXCEPT !.pre = u.status] \in Locals
  <2>1. u \in Locals /\ u.status \in Statuses \cup {None}
    BY DEF IInv, PcTyped, Locals
  <2> QED
    BY <2>1, LocalsUpdated
<1>2. AfterResize \in Plain /\ "resizewait" \in Plain
  BY DEF AfterResize, Plain, Labels
<1>3. srv' = srv \/ (Exists /\ Alike)
  <2>1. CASE Exists /\ srv.status \in {"ACTIVE", "SHUTOFF"}
             /\ srv' \in {Resizing(cfg.flavor), srv}
    <3>1. cfg.flavor \in Flavors /\ srv.status \in Steady
      BY <2>1, ConfigTyped DEF IInv, CfgTyped, Steady
    <3> QED
      BY <2>1, <3>1, RequestsTyped DEF Same, Alike
  <2> QED
    BY <2>1 DEF Resize, Call, Accepts, Idle
<1>4. UNCHANGED trouble \/ Trouble
  BY DEF Resize, Call
<1>5. Go(AfterResize, u) \/ Go("resizewait", [u EXCEPT !.pre = u.status]) \/ Fail
  BY DEF Resize, Call
<1> QED
  BY <1>1, <1>2, <1>3, <1>4, <1>5, RequestTakes

\* The waits of a resize and of its undoing.
LEMMA ResizeWaitsTake ==
  ASSUME IInv, ResizeWait \/ ConfirmWait \/ RevertWait
  PROVE  Takes
<1>1. u \in Locals /\ AfterResize \in Plain /\ {"confirm", "revert"} \subseteq Plain
  BY DEF AfterResize, Plain, Labels, IInv, PcTyped
<1>2. UNCHANGED srv /\ (UNCHANGED trouble \/ Trouble)
  BY DEF ResizeWait, ConfirmWait, RevertWait, Wait
<1>3. Go("confirm", u) \/ Go("revert", u) \/ Go(AfterResize, u) \/ Fail
  BY DEF ResizeWait, ConfirmWait, RevertWait, Wait
<1> QED
  BY <1>1, <1>2, <1>3, RequestTakes

LEMMA RebuildTakes ==
  ASSUME IInv, Rebuild
  PROVE  Takes
<1>1. u \in Locals /\ AfterRebuild \in Plain /\ "reimage" \in Plain
  BY DEF AfterRebuild, Plain, Labels, IInv, PcTyped
<1>2. UNCHANGED srv /\ (UNCHANGED trouble \/ Trouble)
  BY DEF Rebuild, Get
<1>3. CASE Go(AfterRebuild, u) \/ Fail
  BY <1>1, <1>2, <1>3, RequestTakes
<1>4. CASE /\ Exists
           /\ \/ Go("reimage", [u EXCEPT !.before = srv.status])
              \/ Go("reimage", [u EXCEPT !.before = srv.status, !.unread = TRUE])
  <2>1. /\ [u EXCEPT !.before = srv.status] \in Locals
        /\ [u EXCEPT !.before = srv.status, !.unread = TRUE] \in Locals
    BY <1>1, <1>4, ServerTyped, LocalsUpdated
  <2> QED
    BY <1>1, <1>2, <1>4, <2>1, RequestTakes
<1> QED
  BY <1>3, <1>4 DEF Rebuild, Get, Rebuildable

LEMMA ReimageTakes ==
  ASSUME IInv, Reimage
  PROVE  Takes
<1>1. u \in Locals /\ "rebuildwait" \in Plain
  BY DEF Plain, Labels, IInv, PcTyped
<1>2. cfg.image \in Images
  BY ConfigTyped DEF IInv, CfgTyped
<1>3. srv' = srv \/ (Exists /\ Alike)
  BY <1>2, RequestsTyped DEF Reimage, Call, Accepts, Idle, Same, Alike
<1>4. (UNCHANGED trouble \/ Trouble) /\ (Go("rebuildwait", u) \/ Fail)
  BY DEF Reimage, Call
<1> QED
  BY <1>1, <1>3, <1>4, RequestTakes

LEMMA RebuildWaitTakes ==
  ASSUME IInv, RebuildWait
  PROVE  Takes
<1>1. u \in Locals /\ AfterRebuild \in Plain
  BY DEF AfterRebuild, Plain, Labels, IInv, PcTyped
<1>2. UNCHANGED srv /\ (UNCHANGED trouble \/ Trouble)
  BY DEF RebuildWait, Wait
<1>3. CASE Fail
  BY <1>1, <1>2, <1>3, RequestTakes
<1>4. CASE /\ Exists
           /\ \/ Go(AfterRebuild, [u EXCEPT !.status = srv.status])
              \/ Go(AfterRebuild, [u EXCEPT !.status = srv.status, !.unconfirmed = TRUE])
  <2>1. /\ [u EXCEPT !.status = srv.status] \in Locals
        /\ [u EXCEPT !.status = srv.status, !.unconfirmed = TRUE] \in Locals
    BY <1>1, <1>4, ServerTyped, LocalsUpdated
  <2> QED
    BY <1>1, <1>2, <1>4, <2>1, RequestTakes
<1> QED
  BY <1>3, <1>4 DEF RebuildWait, Wait, Settled

LEMMA OffTakes ==
  ASSUME IInv, Off
  PROVE  Takes
<1>1. u \in Locals /\ u.target \in Steady \cup {None} /\ "final" \in Plain
  BY DEF Plain, Labels, IInv, PcTyped, Locals
<1>2. UNCHANGED <<srv, trouble>>
  BY DEF Off
<1>3. CASE Go("final", u)
  BY <1>1, <1>2, <1>3, RequestTakes
<1>4. CASE Go("power", [u EXCEPT !.goal = u.target, !.cont = "final", !.restore = None])
  <2> DEFINE w == [u EXCEPT !.goal = u.target, !.cont = "final"]
             v == [w EXCEPT !.restore = None]
  <2>1. w \in Locals /\ w.cont = "final"
    BY <1>1, LocalsUpdated
  <2> HIDE DEF w
  <2>2. v \in Locals /\ v.cont = "final"
    <3>1. v \in Locals
      BY <2>1, LocalsUpdated
    <3> QED
      BY <2>1, <3>1 DEF Locals
  <2>3. "power" \in Labels /\ "final" \in Continues
    BY DEF Labels, Continues
  <2>4. Go("power", v)
    BY <1>4 DEF w
  <2> HIDE DEF v
  <2> QED
    BY <1>2, <2>2, <2>3, <2>4, GoSteps, Looks DEF Takes
<1> QED
  BY <1>3, <1>4 DEF Off

LEMMA FinalTakes ==
  ASSUME IInv, Final
  PROVE  Takes
<1>1. UNCHANGED srv /\ (UNCHANGED trouble \/ Trouble)
  BY DEF Final, Get
<1>2. CASE Fail
  BY <1>1, <1>2, Looks, FailSteps DEF Takes
<1>3. CASE Exists /\ Finish("ok", flatten(Planned))
  BY <1>1, <1>3, Looks, PlannedTyped, FlattenTyped, FinishSteps DEF Takes
<1> QED
  BY <1>2, <1>3 DEF Final, Get

-----------------------------------------------------------------------------
(* The boot, the deletion, and what runs outside an apply.                 *)

Keeps == SrvTyped' /\ RowTyped' /\ PcTyped' /\ Recorded'

LEMMA TakesKeeps ==
  ASSUME IInv, Takes
  PROVE  Keeps
  BY DEF IInv, Recorded, Takes, Stays, Steps, Keeps

LEMMA MadeTyped ==
  ASSUME IInv, NEW a \in BOOLEAN
  PROVE  Made(a) \in Servers /\ Made(a).answered = a /\ Made(a) # None
<1> DEFINE g == IF cfg.groups \in {None, {}} THEN {DefaultGroup} ELSE cfg.groups
<1>1. /\ cfg.flavor \in Flavors /\ cfg.image \in Images
      /\ cfg.groups \in (SUBSET Groups) \cup {None}
  BY ConfigTyped DEF IInv, CfgTyped
<1>2. g \in SUBSET Groups /\ Me \in Users
  BY <1>1, InstanceAssumption
<1>3. Made(a) = Booted(cfg.flavor, cfg.image, Me, g, a)
  BY DEF Made
<1> HIDE DEF g
<1> QED
  BY <1>1, <1>2, <1>3, BootedTyped, NoneAssumption

\* The row of a server that boots is written in the step that had its answer.
LEMMA BootKeeps ==
  ASSUME IInv, Boot
  PROVE  Keeps
<1>1. trouble' \in 0..MaxTrouble
  <2>1. UNCHANGED trouble \/ Trouble
    BY DEF Boot
  <2> QED
    BY <2>1, NovaAssumption DEF IInv, SrvTyped, Trouble
<1>2. Made(TRUE) \in Servers /\ Made(FALSE) \in Servers
  BY MadeTyped
<1>3. ~Made(FALSE).answered
  BY MadeTyped, Zenon
<1>4. ASSUME srv' \in {srv, Made(FALSE)} PROVE SrvTyped'
  <2>1. srv \in Servers \cup {None}
    BY DEF IInv, SrvTyped
  <2>2. srv' \in Servers \cup {None}
    BY <1>2, <1>4, <2>1, Zenon
  <2> QED
    BY <1>1, <2>2 DEF SrvTyped
<1>5. CASE Trouble /\ srv' \in {srv, Made(FALSE)} /\ Fail
  <2>1. SrvTyped'
    BY <1>5, <1>4
  <2>2. srv' = srv \/ ~srv'.answered
    <3>1. CASE srv' = srv
      BY <3>1
    <3>2. CASE srv' = Made(FALSE)
      BY <3>2, <1>3, Zenon
    <3> QED
      BY <1>5, <3>1, <3>2
  <2>3. Steps
    BY <1>5, FailSteps
  <2> QED
    BY <2>1, <2>2, <2>3 DEF Keeps, Steps, IInv, Recorded, Exists, Named
<1>6. CASE /\ UNCHANGED trouble /\ srv' = Made(TRUE)
           /\ Record /\ pc' = "bootwait" /\ UNCHANGED <<u, result>>
  <2>1. SrvTyped'
    BY <1>6, <1>2 DEF IInv, SrvTyped
  <2>2. RowTyped' /\ Named'
    BY <1>6, PlannedTyped, RowAssumption DEF IInv, RowTyped, Named, Record
  <2>3. PcTyped'
    BY <1>6 DEF IInv, PcTyped, Powering, Labels
  <2> QED
    BY <2>1, <2>2, <2>3 DEF Keeps, Recorded
<1>7. CASE /\ Trouble /\ srv' = Made(FALSE)
           /\ Finish("error", [Planned EXCEPT !.tainted = TRUE, !.blank = TRUE])
  <2>1. SrvTyped'
    BY <1>7, <1>4, Zenon
  <2>2. ~srv'.answered
    BY <1>7, <1>3, Zenon
  <2>3. [Planned EXCEPT !.tainted = TRUE, !.blank = TRUE] \in Rows
    BY PlannedTyped DEF Rows
  <2>4. RowTyped' /\ PcTyped'
    BY <1>7, <2>3, NoApplyTyped DEF Finish, RowTyped, PcTyped, Labels, Powering
  <2> QED
    BY <2>1, <2>2, <2>4 DEF Keeps, Recorded
<1> QED
  BY <1>5, <1>6, <1>7 DEF Boot

\* The row goes with the server.
LEMMA GoneKeeps ==
  ASSUME IInv, ~Exists, Gone
  PROVE  Keeps
<1>1. SrvTyped' /\ ~Exists'
  BY DEF IInv, SrvTyped, Exists, Gone
<1>2. RowTyped'
  BY DEF IInv, RowTyped, Gone, Finish
<1>3. PcTyped'
  <2>1. \/ pc' = "boot" /\ u' = [NoApply EXCEPT !.op = "create"]
        \/ pc' = "idle" /\ u' = NoApply
    BY DEF Gone, Finish
  <2> QED
    BY <2>1, NoApplyTyped DEF PcTyped, Powering, Labels
<1> QED
  BY <1>1, <1>2, <1>3 DEF Keeps, Recorded

LEMMA DeleteKeeps ==
  ASSUME IInv, Delete \/ DeleteWait
  PROVE  Keeps
<1>1. CASE ~Exists /\ Gone
  BY <1>1, GoneKeeps
<1>2. CASE UNCHANGED srv /\ (UNCHANGED trouble \/ Trouble) /\ Fail
  <2>1. Takes
    BY <1>2, Looks, FailSteps DEF Takes
  <2> QED
    BY <2>1, TakesKeeps
<1>3. CASE Exists /\ Call(TRUE, Working("delete"), Go("gonewait", u), Fail)
  <2>1. u \in Locals /\ "gonewait" \in Plain /\ "delete" \in Jobs
    BY DEF Plain, Labels, Jobs, IInv, PcTyped
  <2>2. srv' = srv \/ (Exists /\ Alike)
    BY <1>3, <2>1, RequestsTyped DEF Call, Same, Alike
  <2>3. (UNCHANGED trouble \/ Trouble) /\ (Go("gonewait", u) \/ Fail)
    BY <1>3 DEF Call
  <2>4. Takes
    BY <2>1, <2>2, <2>3, RequestTakes
  <2> QED
    BY <2>4, TakesKeeps
<1> QED
  BY <1>1, <1>2, <1>3 DEF Delete, DeleteWait

LEMMA StepKeeps ==
  ASSUME IInv, Step
  PROVE  Keeps
<1>1. CASE pc = "boot" /\ Boot
  BY <1>1, BootKeeps
<1>2. CASE Delete \/ DeleteWait
  BY <1>2, DeleteKeeps
<1>3. CASE Takes
  BY <1>3, TakesKeeps
<1> QED
  BY <1>1, <1>2, <1>3, BootWaitTakes, OwnerTakes, StripTakes, LiveTakes, ConfirmTakes,
     PendingWaitTakes, TargetTakes, PowerTakes, PowerOnTakes, GroupsTake, ResizeTakes,
     ResizeWaitsTake, RebuildTakes, ReimageTakes, RebuildWaitTakes, OffTakes, FinalTakes
     DEF Step

LEMMA ApplyKeeps ==
  ASSUME IInv, Apply
  PROVE  Keeps
<1>1. UNCHANGED <<srv, trouble>>
  BY DEF Apply
<1>2. {"boot", "delete", "owner"} \subseteq Plain
  BY DEF Plain, Labels
<1>3. u \in Locals /\ Changed \in SUBSET Attributes
  BY DEF IInv, PcTyped, Changed
<1>4. /\ [u EXCEPT !.op = "create"] \in Locals /\ [u EXCEPT !.op = "delete"] \in Locals
      /\ [u EXCEPT !.op = "update", !.changed = Changed] \in Locals
  <2> DEFINE ch == Changed
  <2>1. ch \in SUBSET Attributes
    BY <1>3
  <2> HIDE DEF ch
  <2>2. \A op \in {"create", "delete", "update"} : [u EXCEPT !.op = op] \in Locals
    BY <1>3 DEF Locals
  <2> DEFINE v == [u EXCEPT !.op = "update"]
  <2>3. v \in Locals
    BY <2>2
  <2> HIDE DEF v
  <2>4. [v EXCEPT !.changed = ch] \in Locals
    BY <2>1, <2>3 DEF Locals
  <2> QED
    BY <2>2, <2>4 DEF v, ch
<1>5. \/ Go("boot", [u EXCEPT !.op = "create"])
      \/ Go("delete", [u EXCEPT !.op = "delete"])
      \/ Go("owner", [u EXCEPT !.op = "update", !.changed = Changed])
  BY DEF Apply
<1>6. Takes
  BY <1>1, <1>2, <1>4, <1>5, PlainGo, Looks DEF Takes
<1> QED
  BY <1>6, TakesKeeps

LEMMA ReadKeeps ==
  ASSUME IInv, Read
  PROVE  Keeps
<1>1. UNCHANGED <<srv, trouble, pc, u, result>> /\ row # None
      /\ row' = IF Exists THEN flatten(row) ELSE None
  BY DEF Read
<1>2. row \in Rows
  BY <1>1 DEF IInv, RowTyped
<1>3. RowTyped' /\ Recorded'
  BY <1>1, <1>2, FlattenTyped, RowAssumption DEF IInv, RowTyped, Recorded, Named, Exists, Read
<1>4. SrvTyped' /\ PcTyped'
  BY <1>1 DEF IInv, SrvTyped, PcTyped
<1> QED
  BY <1>3, <1>4 DEF Keeps

\* Nova's work and other people make no server out of none.
LEMMA CloudKeeps ==
  ASSUME IInv, NovaWork \/ Others
  PROVE  Keeps
<1>1. SrvTyped' /\ Exists /\ Stays
  <2>1. CASE NovaWork
    BY <2>1, WorkSame DEF NovaWork, SrvTyped, Same, Stays, Exists
  <2>2. CASE Others
    BY <2>2, OutsideTyped DEF Others
  <2> QED
    BY <2>1, <2>2
<1>2. UNCHANGED <<row, pc, u, result>>
  BY DEF NovaWork, Others
<1> QED
  BY <1>1, <1>2 DEF IInv, RowTyped, PcTyped, Recorded, Named, Stays, Keeps

-----------------------------------------------------------------------------

LEMMA InitIInv == Init => IInv
<1> SUFFICES ASSUME Init PROVE IInv
  OBVIOUS
<1>1. CfgTyped /\ SrvTyped
  BY InstanceAssumption, NovaAssumption DEF Init, CfgTyped, SrvTyped
<1>2. PcTyped
  BY NoApplyTyped DEF Init, PcTyped, Powering, Labels
<1> QED
  BY <1>1, <1>2 DEF Init, IInv, RowTyped, Recorded, Exists

LEMMA NextIInv == IInv /\ [Next]_vars => IInv'
<1> SUFFICES ASSUME IInv, [Next]_vars PROVE IInv'
  OBVIOUS
<1>1. CfgTyped'
  <2>1. CASE \E c \in Configs : Edit(c)
    BY <2>1, InstanceAssumption DEF IInv, CfgTyped, Edit
  <2>2. CASE UNCHANGED <<cloud, cfg, edits>>
    BY <2>2 DEF IInv, CfgTyped
  <2> QED
    BY <2>1, <2>2 DEF Next, vars, Apply, Read, Step, NovaWork, Others
<1>2. Keeps
  <2>1. CASE UNCHANGED <<srv, trouble, row, pc, u, result>>
    BY <2>1 DEF IInv, SrvTyped, RowTyped, PcTyped, Recorded, Named, Exists, Keeps
  <2> QED
    BY <2>1, StepKeeps, ApplyKeeps, ReadKeeps, CloudKeeps DEF Next, Edit, vars
<1> QED
  BY <1>1, <1>2 DEF IInv, Keeps

LEMMA Invariance == Spec => []IInv
  BY InitIInv, NextIInv, PTL DEF Spec

\* The server, the row and the step of the apply keep their types, for every
\* configuration and whatever fails (TypeOK of Instance).
THEOREM TypeCorrect == Spec => []TypeOK
<1>1. IInv => TypeOK
  <2> SUFFICES ASSUME IInv PROVE TypeOK
    OBVIOUS
  <2>1. /\ u \in Locals /\ pc \in Labels
    BY DEF IInv, PcTyped
  <2>2. DOMAIN u = DOMAIN NoApply
    BY <2>1 DEF Locals, NoApply
  <2>3. /\ u.op \in {"none", "create", "update", "delete"} /\ u.changed \subseteq Attributes
        /\ {u.was, u.status, u.pre, u.before} \subseteq Statuses \cup {None}
        /\ {u.target, u.restore, u.lifted, u.goal} \subseteq Steady \cup {None}
        /\ u.job \in PowerJobs \cup {None} /\ u.cont \in Labels \cup {"none", "restored"}
        /\ u.have \cup u.add \cup u.remove \subseteq Groups
    BY <2>1 DEF Locals
  <2> QED
    BY <2>1, <2>2, <2>3 DEF IInv, CfgTyped, SrvTyped, RowTyped, TypeOK
<1> QED
  BY <1>1, Invariance, PTL

\* Once Nova's POST was answered with the server, no failure, lost answer or timeout
\* of its boot, of an update, of its replacement or of its deletion leaves it out of
\* Terraform's state: the row is written with the answer and goes only with the
\* server.
THEOREM NothingForgotten == Spec => []NoServerForgotten
<1>1. IInv => NoServerForgotten
  BY DEF IInv, Recorded, Named, NoServerForgotten
<1> QED
  BY <1>1, Invariance, PTL

-----------------------------------------------------------------------------
(* The swap of the security groups.                                        *)

\* Update has read the groups of the server and has not started to change them.
HasRead ==
    \/ pc \in {"pending", "pendingwait", "target"}
    \/ u.first /\ pc \in {"rebuild", "reimage", "rebuildwait"}

\* From the end of Target to the end of SwapGroups.
Swapping ==
    pc \in {"groups", "resize"} \/ (pc \in {"power", "powerwait"} /\ u.cont = "groups")

\* Nothing that was read is missing while groups are still to be added, and then
\* nothing that is configured.
Covered ==
    IF cfg.groups = None
    THEN u.have \subseteq srv.groups /\ u.add = {} /\ u.remove = {}
    ELSE /\ cfg.groups \subseteq srv.groups \cup u.add
         /\ u.remove \cap cfg.groups = {}
         /\ u.add # {} => u.have \subseteq srv.groups

GroupsInv ==
    /\ pc = "restore" => u.cont = "restored"
    /\ Exists /\ HasRead => u.have \subseteq srv.groups
    /\ Exists /\ Swapping => Covered

GroupsSame == Exists' => Exists /\ srv'.groups = srv.groups

\* Where an operation has nothing to do with the groups.
Away == Labels \ {"pending", "pendingwait", "target", "rebuild", "reimage",
                  "rebuildwait", "groups", "resize", "power", "powerwait", "restore"}

LEMMA AwayGroups ==
  ASSUME pc' \in Away
  PROVE  GroupsInv'
  BY DEF Away, GroupsInv, HasRead, Swapping

LEMMA FailGroups ==
  ASSUME IInv, Fail
  PROVE  GroupsInv'
<1>1. CASE u.restore # None
  <2>1. pc' = "restore" /\ u'.cont = "restored"
    BY <1>1 DEF Fail, Go, IInv, PcTyped, Locals
  <2> QED
    BY <2>1 DEF GroupsInv, HasRead, Swapping
<1>2. CASE u.restore = None
  <2>1. pc' \in Away
    BY <1>2 DEF Fail, Finish, Away, Labels
  <2> QED
    BY <2>1, AwayGroups
<1> QED
  BY <1>1, <1>2

\* The last power step and the restore do not come back to the groups.
LEMMA FinalPowerGroups ==
  ASSUME pc' \in {"power", "powerwait"}, u'.cont \in {"final", "restored"}
  PROVE  GroupsInv'
  BY DEF GroupsInv, HasRead, Swapping

\* A step that stays with what Update read, or with its swap, and touches no group.
LEMMA SameGroups ==
  ASSUME IInv, GroupsInv, GroupsSame, UNCHANGED cfg,
         u'.have = u.have, u'.add = u.add, u'.remove = u.remove, pc' # "restore",
         HasRead' => HasRead, Swapping' => Swapping
  PROVE  GroupsInv'
<1>1. ASSUME Exists', HasRead' PROVE (u.have \subseteq srv.groups)'
  BY <1>1 DEF GroupsInv, GroupsSame
<1>2. ASSUME Exists', Swapping' PROVE Covered'
  BY <1>2 DEF GroupsInv, GroupsSame, Covered
<1> QED
  BY <1>1, <1>2 DEF GroupsInv

LEMMA ReadGroups ==
  ASSUME IInv, Live \/ PendingWait
  PROVE  GroupsInv'
<1>1. UNCHANGED srv
  BY DEF Live, PendingWait, Get, Wait
<1>2. \/ Fail
      \/ pc' \in {"pending", "rebuild", "target"} /\ u'.have = srv.groups
  <2>1. u \in Locals
    BY DEF IInv, PcTyped
  <2> QED
    BY <2>1 DEF Live, PendingWait, Get, Wait, LiveGroups, Go, Locals
<1>3. CASE pc' \in {"pending", "rebuild", "target"} /\ u'.have = srv.groups
  BY <1>1, <1>3 DEF GroupsInv, HasRead, Swapping
<1> QED
  BY <1>2, <1>3, FailGroups

LEMMA TargetGroups ==
  ASSUME IInv, GroupsInv, pc = "target", Target, UNCHANGED cfg
  PROVE  GroupsInv'
<1>1. /\ UNCHANGED srv /\ pc' \in {"power", "groups"} /\ u'.have = u.have
      /\ u'.add = IF cfg.groups = None THEN {} ELSE cfg.groups \ u.have
      /\ u'.remove = IF cfg.groups = None THEN {} ELSE u.have \ cfg.groups
  <2>1. u \in Locals
    BY DEF IInv, PcTyped
  <2> QED
    BY <2>1 DEF Target, Go, Locals
<1>2. Exists => u.have \subseteq srv.groups
  BY DEF GroupsInv, HasRead
<1>3. Exists' => Covered'
  BY <1>1, <1>2 DEF Covered, Exists
<1> QED
  BY <1>1, <1>3 DEF GroupsInv, HasRead

LEMMA PowerGroups ==
  ASSUME IInv, GroupsInv, UNCHANGED cfg,
         \/ pc = "power" /\ Power
         \/ pc = "powerwait" /\ PowerWait
         \/ pc = "restore" /\ Restore
  PROVE  GroupsInv'
<1>1. u \in Locals /\ u.cont \in Continues
  BY DEF IInv, PcTyped, Powering
<1>2. CASE Fail
  BY <1>2, FailGroups
<1>3. GroupsSame
  <2>1. CASE UNCHANGED srv
    BY <2>1 DEF GroupsSame, Exists
  <2>2. CASE \E j \in PowerJobs : Exists /\ srv' \in {Working(j), srv}
    BY <2>2, RequestsTyped DEF GroupsSame, Exists, Same, Jobs
  <2> QED
    BY <2>1, <2>2 DEF Power, PowerWait, Restore, Call, Wait, Get, Accepts, Idle
<1>4. CASE pc = "power" /\ u.cont # "restored" /\ Go(u.cont, u)
  <2>1. CASE u.cont = "final"
    BY <1>4, <2>1, AwayGroups DEF Go, Away, Labels
  <2>2. CASE u.cont = "groups"
    BY <1>3, <1>4, <2>2, SameGroups DEF Go, HasRead, Swapping
  <2> QED
    BY <1>1, <1>4, <2>1, <2>2 DEF Continues
<1>5. CASE /\ pc \in {"power", "powerwait", "restore"} /\ pc' \in {"power", "powerwait"}
           /\ u'.have = u.have /\ u'.add = u.add /\ u'.remove = u.remove
           /\ u'.cont = u.cont
  <2>1. CASE u.cont = "groups"
    BY <1>3, <1>5, <2>1, SameGroups DEF HasRead, Swapping, GroupsInv
  <2>2. CASE u.cont # "groups"
    BY <1>1, <1>5, <2>2, FinalPowerGroups DEF Continues
  <2> QED
    BY <2>1, <2>2
<1>6. CASE pc = "power" /\ Power
  BY <1>1, <1>2, <1>4, <1>5, <1>6 DEF Power, Call, Go, Locals
<1>7. CASE \/ pc = "powerwait" /\ PowerWait
           \/ pc = "restore" /\ Restore
  BY <1>1, <1>2, <1>5, <1>7 DEF PowerWait, Restore, Wait, Get, Go, Locals
<1> QED
  BY <1>6, <1>7

\* Adds come first; a group that is removed is not configured.
LEMMA SwapGroupsCovered ==
  ASSUME IInv, GroupsInv, pc = "groups", SwapGroups, UNCHANGED cfg
  PROVE  GroupsInv'
<1>1. u \in Locals /\ (Exists => Covered) /\ (Exists => srv \in Servers)
  BY ServerTyped DEF IInv, PcTyped, GroupsInv, Swapping
<1>2. CASE Fail
  BY <1>2, FailGroups
<1>3. ASSUME NEW g \in u.add, Exists, srv' = [srv EXCEPT !.groups = @ \cup {g}],
             Go("groups", [u EXCEPT !.add = @ \ {g}])
      PROVE  GroupsInv'
  <2>1. /\ srv'.groups = srv.groups \cup {g} /\ pc' = "groups"
        /\ u'.add = u.add \ {g} /\ u'.have = u.have /\ u'.remove = u.remove
    BY <1>1, <1>3 DEF Go, Servers, Locals
  <2>2. Covered'
    BY <1>1, <1>3, <2>1 DEF Covered
  <2> QED
    BY <2>1, <2>2 DEF GroupsInv, HasRead
<1>4. ASSUME NEW g \in u.remove, u.add = {}, Exists,
             srv' = [srv EXCEPT !.groups = @ \ {g}],
             Go("groups", [u EXCEPT !.remove = @ \ {g}])
      PROVE  GroupsInv'
  <2>1. /\ srv'.groups = srv.groups \ {g} /\ pc' = "groups"
        /\ u'.add = u.add /\ u'.have = u.have /\ u'.remove = u.remove \ {g}
    BY <1>1, <1>4 DEF Go, Servers, Locals
  <2>2. Covered'
    BY <1>1, <1>4, <2>1 DEF Covered
  <2> QED
    BY <2>1, <2>2 DEF GroupsInv, HasRead
<1>5. CASE ~Exists /\ UNCHANGED srv /\ pc' = "groups"
  BY <1>5 DEF GroupsInv, HasRead, Exists
<1>6. CASE Go("resize", u) /\ UNCHANGED srv
  BY <1>6, SameGroups DEF Go, HasRead, Swapping, GroupsSame, Exists
<1>7. ASSUME NEW g \in u.add, AddGroup(g) PROVE GroupsInv'
  BY <1>2, <1>3, <1>7 DEF AddGroup, Call
<1>8. ASSUME NEW g \in u.remove, u.add = {}, RemoveGroup(g) PROVE GroupsInv'
  BY <1>2, <1>4, <1>5, <1>8 DEF RemoveGroup, Call, Go
<1> QED
  BY <1>6, <1>7, <1>8 DEF SwapGroups

\* A server in ERROR is rebuilt first, on its way to the groups.
LEMMA RebuildGroups ==
  ASSUME IInv, GroupsInv, UNCHANGED cfg,
         \/ pc = "pending" /\ ConfirmPending
         \/ pc = "rebuild" /\ Rebuild
         \/ pc = "reimage" /\ Reimage
         \/ pc = "rebuildwait" /\ RebuildWait
  PROVE  GroupsInv'
<1>1. u \in Locals
  BY DEF IInv, PcTyped
<1>2. GroupsSame
  <2>1. CASE UNCHANGED srv
    BY <2>1 DEF GroupsSame, Exists
  <2>2. CASE Exists /\ srv' \in {Working("confirm"), Rebuilding(cfg.image), srv}
    <3>1. "confirm" \in Jobs /\ cfg.image \in Images
      BY ConfigTyped DEF Jobs, IInv, CfgTyped
    <3> QED
      BY <2>2, <3>1, RequestsTyped DEF GroupsSame, Exists, Same
  <2> QED
    BY <2>1, <2>2 DEF ConfirmPending, Rebuild, Reimage, RebuildWait, Call, Wait, Get,
                      Accepts, Idle
<1>3. CASE Fail
  BY <1>3, FailGroups
<1>4. CASE /\ u'.have = u.have /\ u'.add = u.add /\ u'.remove = u.remove
           /\ u'.first = u.first /\ UNCHANGED cfg
           /\ \/ pc = "pending" /\ pc' = "pendingwait"
              \/ pc \in {"rebuild", "reimage", "rebuildwait"}
                 /\ pc' \in {"reimage", "rebuildwait", AfterRebuild}
  BY <1>2, <1>4, SameGroups DEF HasRead, Swapping, AfterRebuild
<1>5. CASE pc = "pending" /\ ConfirmPending
  BY <1>1, <1>3, <1>4, <1>5 DEF ConfirmPending, Call, Go
<1>6. CASE pc = "rebuild" /\ Rebuild
  BY <1>1, <1>3, <1>4, <1>6 DEF Rebuild, Get, Go, Locals
<1>7. CASE pc = "reimage" /\ Reimage
  BY <1>1, <1>3, <1>4, <1>7 DEF Reimage, Call, Go
<1>8. CASE pc = "rebuildwait" /\ RebuildWait
  BY <1>1, <1>3, <1>4, <1>8 DEF RebuildWait, Wait, Go, Locals
<1> QED
  BY <1>5, <1>6, <1>7, <1>8

\* Every other step is before the groups were read or after they were swapped.
LEMMA OtherGroups ==
  ASSUME IInv, \/ Boot \/ BootWait \/ ChangeOwner \/ Strip \/ Resize \/ ResizeWait
               \/ Confirm \/ ConfirmWait \/ Revert \/ RevertWait \/ Off \/ Final
               \/ Delete \/ DeleteWait
  PROVE  GroupsInv'
<1>1. u \in Locals
  BY DEF IInv, PcTyped
<1>2. CASE Fail
  BY <1>2, FailGroups
<1>3. CASE pc' \in Away
  BY <1>3, AwayGroups
<1>4. CASE pc' = "power" /\ u'.cont = "final"
  BY <1>4, FinalPowerGroups
<1>5. CASE Boot \/ BootWait \/ ChangeOwner \/ Final \/ Delete \/ DeleteWait
  BY <1>2, <1>3, <1>5 DEF Boot, BootWait, ChangeOwner, Final, Delete, DeleteWait, Get,
                          Call, Gone, Go, Finish, Away, Labels
<1>6. CASE Strip \/ Off
  <2>1. \/ Fail \/ pc' \in Away
        \/ /\ Strip
           /\ Go("power", [u EXCEPT !.status = srv.status, !.goal = cfg.power,
                                    !.cont = "final"])
        \/ /\ Off
           /\ Go("power", [u EXCEPT !.goal = u.target, !.cont = "final",
                                    !.restore = None])
    BY <1>6 DEF Strip, Off, Get, Call, Go, Away, Labels
  <2>2. [u EXCEPT !.status = srv.status, !.goal = cfg.power, !.cont = "final"].cont = "final"
        /\ [u EXCEPT !.goal = u.target, !.cont = "final", !.restore = None].cont = "final"
    BY <1>1 DEF Locals
  <2> QED
    BY <1>2, <1>3, <1>4, <2>1, <2>2 DEF Go
<1>7. CASE Go(AfterResize, u)
  BY <1>3, <1>7 DEF AfterResize, Go, Away, Labels, GroupsInv, HasRead, Swapping
<1>8. CASE Resize \/ ResizeWait \/ Confirm \/ ConfirmWait \/ Revert \/ RevertWait
  BY <1>2, <1>3, <1>7, <1>8 DEF Resize, ResizeWait, Confirm, ConfirmWait, Revert,
                                RevertWait, Wait, Call, Go, Away, Labels
<1> QED
  BY <1>5, <1>6, <1>8

LEMMA NextGroups == IInv /\ GroupsInv /\ [Next]_vars => GroupsInv'
<1> SUFFICES ASSUME IInv, GroupsInv, [Next]_vars PROVE GroupsInv'
  OBVIOUS
<1>1. CASE Step
  BY <1>1, OtherGroups, ReadGroups, TargetGroups, PowerGroups, SwapGroupsCovered,
     RebuildGroups DEF Step
<1>2. CASE Apply
  BY <1>2, AwayGroups DEF Apply, Go, Away, Labels
<1>3. CASE (\E c \in Configs : Edit(c)) \/ Others
  BY <1>3, AwayGroups DEF Edit, Others, Away, Labels
<1>4. CASE NovaWork
  <2>1. GroupsSame
    BY <1>4, WorkSame DEF NovaWork, GroupsSame, Same, Exists
  <2>2. UNCHANGED <<cfg, pc, u>>
    BY <1>4 DEF NovaWork
  <2> QED
    BY <2>1, <2>2 DEF GroupsInv, GroupsSame, HasRead, Swapping, Covered
<1>5. CASE UNCHANGED <<srv, cfg, pc, u>>
  BY <1>5 DEF GroupsInv, HasRead, Swapping, Covered, Exists
<1> QED
  BY <1>1, <1>2, <1>3, <1>4, <1>5 DEF Next, vars, Read

\* No server loses a group it has and shall keep while Update swaps its groups,
\* whichever groups it has, reads and is configured with, and whatever fails.
THEOREM SwapKeepsGroups == Spec => []GroupsNeverDip
<1>1. Init => GroupsInv
  BY DEF Init, GroupsInv, HasRead, Swapping
<1>2. GroupsInv => GroupsNeverDip
  BY DEF GroupsInv, GroupsNeverDip, Swapping, Covered
<1> QED
  BY <1>1, <1>2, NextGroups, Invariance, PTL DEF Spec
=============================================================================
