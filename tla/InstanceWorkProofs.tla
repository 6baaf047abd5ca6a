------------------------- MODULE InstanceWorkProofs -------------------------
(***************************************************************************)
(* What an apply of an instance reports is so: the action properties of    *)
(* Instance, for any flavors, images, users, groups, configurations and    *)
(* number of failures.                                                     *)
(***************************************************************************)
EXTENDS InstanceProofs

-----------------------------------------------------------------------------
(* The parts of an operation.                                              *)

\* The power step before the groups, the one at the end, and the deferred restore.
PowersFirst == pc \in {"power", "powerwait"} /\ u.cont = "groups"
PowersLast == pc \in {"power", "powerwait"} /\ u.cont = "final"
PutsBack == pc = "restore" \/ (pc \in {"power", "powerwait"} /\ u.cont = "restored")

Resizes == pc \in {"resizewait", "confirm", "confirmwait"}
Rebuilds == pc \in {"rebuild", "reimage", "rebuildwait"}

\* The resize is over, and so is the rebuild.
Resized == pc \in {"off", "final"} \/ PowersLast \/ (Rebuilds /\ ~u.first)
Rebuilt ==
    \/ pc \in {"off", "final"} \/ PowersLast
    \/ u.first /\ (pc = "target" \/ Swapping \/ Resizes)

\* Nothing has been done yet but the boot and the change of owner.
Starts == {"boot", "bootwait", "owner", "strip", "live", "delete", "gonewait"}
Creates == {"boot", "bootwait", "owner", "strip", "power", "powerwait", "final"}
Deletes == {"delete", "gonewait"}

\* The operation an apply is in, by its step, and what it was started for.
OpInv ==
    /\ u.op = "none" <=> pc = "idle"
    /\ pc \in Starts => (u.was = None /\ u.lifted = None /\ u.restore = None)
    /\ pc \in Starts \cup {"pending", "pendingwait"} => ~u.first
    /\ u.op = "create" =>
          /\ pc \in Creates /\ u.changed = {}
          /\ u.was = None /\ u.lifted = None /\ u.restore = None
          /\ pc \in {"power", "powerwait"} => u.cont = "final"
    /\ u.op = "delete" => pc \in Deletes
    /\ u.op = "update" =>
          /\ pc \notin {"boot", "bootwait", "strip"} \cup Deletes
          /\ row # None /\ u.changed = Changed
    /\ pc = "restore" => u.cont = "restored"
    /\ pc = "idle" => u = NoApply

-----------------------------------------------------------------------------
(* One invariant for each thing an apply answers for.                      *)

OwnerInv ==
    Exists /\ pc \notin {"idle", "boot", "bootwait", "owner"} \cup Deletes =>
        cfg.owner \in {None, srv.owner}

\* Work that shows no task keeps the status it began in.
JobFits == Exists =>
    /\ srv.job = "confirm" => srv.status = "VERIFY_RESIZE"
    /\ srv.job = "poweroff" => srv.status = "ACTIVE"

ImageInv == Exists /\ u.op = "update" /\ "image" \in u.changed /\ Rebuilt =>
    srv.job # "rebuild" /\ (srv.image = cfg.image \/ u.unconfirmed)

\* The image a rebuild would write is not on the root volume.
EraseInv == pc = "reimage" =>
    /\ Exists /\ NoTask
    /\ VolumeBacked => u.unread \/ srv.image # cfg.image \/ srv.status = "ERROR"

ExactInv == Exists /\ cfg.groups # None =>
    /\ u.op = "create" /\ pc \in {"bootwait", "owner", "strip"} =>
          cfg.groups = {} \/ srv.groups = cfg.groups
    /\ HasRead => u.have = srv.groups
    /\ Swapping =>
          /\ cfg.groups \subseteq srv.groups \cup u.add
          /\ srv.groups \subseteq cfg.groups \cup u.remove
          /\ u.add \subseteq cfg.groups /\ u.remove \cap cfg.groups = {}
    /\ pc = "resize" \/ Resizes \/ Resized => srv.groups = cfg.groups

NoMove == srv.job \notin {"resize", "revert"}

FlavorInv == Exists =>
    /\ u.op = "update" /\ "flavor" \in u.changed /\ u.was # None =>
          /\ HasRead \/ Swapping => NoMove /\ (u.resizing \/ srv.flavor = cfg.flavor)
          /\ Resized => NoMove /\ srv.flavor = cfg.flavor
    /\ pc = "resizewait" =>
          /\ srv.job # "revert"
          /\ srv.job = "resize" => srv.other = cfg.flavor /\ srv.status # "VERIFY_RESIZE"
          /\ srv.job = "finish_resize" \/ srv.status = "VERIFY_RESIZE" =>
                srv.flavor = cfg.flavor
    /\ pc \in {"confirm", "confirmwait"} => NoMove /\ srv.flavor = cfg.flavor

\* The power state an apply is to end in, if it may.
Answers == u.op = "create" \/ u.was \in Steady
Due == IF cfg.power # None THEN cfg.power
       ELSE IF u.op = "create" THEN "ACTIVE" ELSE u.was

\* The server is at rest in the status the operation knows; the way to the one due.
AtRest == srv.job = "" /\ srv.status = u.status /\ u.status \in Steady
Aimed == IF u.target = None THEN u.status = Due
         ELSE u.target = Due /\ (u.target = "ACTIVE" => u.status = "ACTIVE")
Moving == u.job \in PowerJobs /\
    \/ srv.job = u.job /\ srv.status = From[u.job]
    \/ srv.job = "" /\ srv.status \in {From[u.job], To[u.job]}

Powered ==
    /\ pc = "bootwait" =>
          \/ srv.job = "build" /\ srv.status = "BUILD"
          \/ srv.job = "" /\ srv.status \in {"ACTIVE", "ERROR"}
    /\ pc \in {"owner", "strip"} => AtRest /\ u.status = "ACTIVE"
    /\ pc = "target" => AtRest /\ u.status = u.was
    /\ PowersFirst => u.goal = "ACTIVE" /\ u.target = Due
    /\ PowersLast => u.goal = Due
    /\ pc = "power" /\ u.cont # "restored" => AtRest
    /\ pc = "powerwait" /\ u.cont # "restored" => Moving
    /\ pc \in {"groups", "resize", "rebuild", "reimage", "off"} => AtRest /\ Aimed
    /\ pc = "reimage" => u.before = u.status
    /\ Resizes =>
          /\ Aimed /\ u.status \in Steady /\ u.pre = u.status /\ srv.back = u.status
          /\ srv.job \in {"resize", "finish_resize", "confirm", ""}
          /\ srv.job # "" => srv.status \notin Steady
    /\ pc = "rebuildwait" =>
          /\ Aimed /\ u.status \in {"ACTIVE", "SHUTOFF"} /\ u.before = u.status
          /\ srv.back = u.status /\ srv.job \in {"rebuild", "poweroff", ""}
          /\ srv.status # "VERIFY_RESIZE"
          /\ srv.job = "poweroff" => srv.status = "ACTIVE" /\ srv.back = "SHUTOFF"
    /\ pc = "final" => srv.job = "" /\ srv.status = Due /\ Due \in Steady

PowerInv ==
    /\ u.first \/ pc \in {"pending", "pendingwait"} => u.was \notin Steady
    /\ Exists /\ Answers => Powered

\* A server brought up for a resize is put back by the last power step or the
\* deferred one.
LiftInv ==
    /\ u.restore \in {None, u.lifted}
    /\ u.lifted # None =>
          /\ u.lifted \in {"PAUSED", "SUSPENDED"} /\ u.target = u.lifted
          /\ u.restore = None => u.cont = "final" \/ PutsBack

\* Unless it found the server at work, or something went wrong again, the
\* deferred restore knows where the server is.
RestoreInv == PutsBack =>
    /\ u.goal \in {"PAUSED", "SUSPENDED"} /\ trouble <= u.left
    /\ pc = "power" => u.busy \/ trouble < u.left \/ (Exists /\ AtRest)
    /\ pc = "powerwait" =>
          \/ u.busy \/ trouble < u.left
          \/ /\ Exists /\ u.job \in PowerJobs
             /\ \/ srv.job = u.job /\ srv.status = From[u.job]
                \/ srv.job = "" /\ srv.status = To[u.job]

-----------------------------------------------------------------------------
(* What each step does to the local variables.                             *)

\* What the apply is for and what it found; where the power is to end; what is
\* known of the image; the groups; and the rest.
KeepsPlan ==
    u'.op = u.op /\ u'.changed = u.changed /\ u'.was = u.was /\ u'.first = u.first
KeepsAim == u'.target = u.target /\ u'.lifted = u.lifted
KeepsGoal == u'.goal = u.goal /\ u'.cont = u.cont /\ u'.restore = u.restore
KeepsImage == u'.unread = u.unread /\ u'.unconfirmed = u.unconfirmed
KeepsGroups == u'.have = u.have /\ u'.add = u.add /\ u'.remove = u.remove
KeepsMove == u'.resizing = u.resizing /\ u'.pre = u.pre
KeepsRestore == u'.left = u.left /\ u'.busy = u.busy
KeepsPower == u'.status = u.status /\ u'.job = u.job /\ u'.before = u.before

GoesOn(label) == pc' = label /\ UNCHANGED <<row, result>>

\* A failing step ends the apply or goes to the deferred restore.
FailsOver ==
    /\ u.restore # None /\ GoesOn("restore")
    /\ KeepsPlan /\ KeepsAim /\ KeepsImage /\ KeepsGroups /\ KeepsMove
    /\ u'.status = u.status /\ u'.before = u.before /\ u'.job = u.job /\ u'.busy = u.busy
    /\ u'.restore = None /\ u'.goal = u.restore /\ u'.cont = "restored" /\ u'.left = trouble
FailsFinally ==
    u.restore = None /\ pc' = "idle" /\ u' = NoApply /\ result' = "error"

LEMMA FailDoes ==
  ASSUME IInv, Fail
  PROVE  FailsOver \/ FailsFinally
<1>1. u \in Locals
  BY DEF IInv, PcTyped
<1>2. CASE u.restore # None
  <2>1. /\ u' = [u EXCEPT !.restore = None, !.goal = u.restore, !.cont = "restored",
                          !.left = trouble]
        /\ GoesOn("restore")
    BY <1>2 DEF Fail, Go, GoesOn
  <2>2. KeepsPlan /\ KeepsAim
    BY <1>1, <2>1 DEF Locals, KeepsPlan, KeepsAim
  <2>3. KeepsImage /\ KeepsGroups
    BY <1>1, <2>1 DEF Locals, KeepsImage, KeepsGroups
  <2>4. KeepsMove /\ u'.status = u.status /\ u'.before = u.before
    BY <1>1, <2>1 DEF Locals, KeepsMove
  <2>5. u'.job = u.job /\ u'.busy = u.busy
    BY <1>1, <2>1 DEF Locals
  <2>6. /\ u'.restore = None /\ u'.goal = u.restore /\ u'.cont = "restored"
        /\ u'.left = trouble
    BY <1>1, <2>1 DEF Locals
  <2> QED
    BY <1>2, <2>1, <2>2, <2>3, <2>4, <2>5, <2>6 DEF FailsOver
<1>3. CASE u.restore = None
  BY <1>3 DEF Fail, Finish, FailsFinally
<1> QED
  BY <1>2, <1>3

LEMMA BootWaitDoes ==
  ASSUME IInv, BootWait
  PROVE  /\ UNCHANGED srv
         /\ \/ Fail
            \/ /\ Exists /\ srv.status = "ACTIVE" /\ pc' = "owner" /\ KeepsPlan
               /\ KeepsAim /\ KeepsGoal /\ KeepsImage /\ KeepsGroups /\ KeepsMove
               /\ KeepsRestore /\ u'.job = u.job /\ u'.before = u.before
               /\ u'.status = "ACTIVE"
<1>0. u \in Locals
  BY DEF IInv, PcTyped
<1>1. CASE /\ Exists /\ srv.status = "ACTIVE" /\ pc' = "owner"
          /\ u' = [u EXCEPT !.status = "ACTIVE"]
  <2>1. /\ KeepsPlan /\ KeepsAim /\ KeepsGoal /\ KeepsImage /\ KeepsGroups /\ KeepsMove
        /\ KeepsRestore /\ u'.job = u.job /\ u'.before = u.before
        /\ u'.status = "ACTIVE"
    BY <1>0, <1>1 DEF Locals, KeepsPlan, KeepsAim, KeepsGoal, KeepsImage, KeepsGroups,
       KeepsMove, KeepsRestore
  <2> QED
    BY <1>1, <2>1 DEF BootWait
<1> QED
  BY <1>1 DEF BootWait

LEMMA StripDoes ==
  ASSUME IInv, Strip
  PROVE  \/ Fail
         \/ /\ Exists /\ GoesOn("strip") /\ UNCHANGED u /\ cfg.groups = {}
            /\ \E g \in srv.groups : srv' = [srv EXCEPT !.groups = @ \ {g}]
         \/ /\ Exists /\ UNCHANGED <<srv, u>> /\ (cfg.groups = {} => srv.groups = {})
            /\ cfg.power \in {None, "ACTIVE"} /\ GoesOn("final")
         \/ /\ Exists /\ UNCHANGED srv /\ (cfg.groups = {} => srv.groups = {})
            /\ cfg.power \notin {None, "ACTIVE"} /\ GoesOn("power") /\ KeepsPlan
            /\ KeepsAim /\ KeepsImage /\ KeepsGroups /\ KeepsMove /\ KeepsRestore
            /\ u'.restore = u.restore /\ u'.job = u.job /\ u'.before = u.before
            /\ u'.status = srv.status /\ u'.goal = cfg.power /\ u'.cont = "final"
<1>0. u \in Locals
  BY DEF IInv, PcTyped
<1>1. CASE /\ Exists /\ UNCHANGED srv /\ (cfg.groups = {} => srv.groups = {})
          /\ cfg.power \notin {None, "ACTIVE"} /\ GoesOn("power")
          /\ u' = [u EXCEPT !.status = srv.status, !.goal = cfg.power, !.cont = "final"]
  <2>1. /\ KeepsPlan /\ KeepsAim /\ KeepsImage /\ KeepsGroups /\ KeepsMove
        /\ KeepsRestore /\ u'.restore = u.restore /\ u'.job = u.job
        /\ u'.before = u.before /\ u'.status = srv.status /\ u'.goal = cfg.power
        /\ u'.cont = "final"
    BY <1>0, <1>1 DEF Locals, KeepsPlan, KeepsAim, KeepsImage, KeepsGroups, KeepsMove,
       KeepsRestore
  <2> QED
    BY <1>1, <2>1
<1> QED
  BY <1>1 DEF Strip, Get, Call, Go, GoesOn

\* What the live read makes of the server.
Was == IF Idle THEN srv.status ELSE None
Differs == cfg.flavor \notin {row.flavor, srv.flavor}
Found == [u EXCEPT !.status = srv.status, !.was = Was, !.have = srv.groups,
                   !.resizing = Differs]
Reads ==
    /\ Exists /\ KeepsAim /\ KeepsGoal /\ KeepsImage /\ KeepsRestore
    /\ u'.op = u.op /\ u'.changed = u.changed /\ u'.status = srv.status /\ u'.was = Was
    /\ u'.have = srv.groups /\ u'.resizing = Differs

LEMMA LiveDoes ==
  ASSUME IInv, Live
  PROVE  /\ UNCHANGED srv
         /\ \/ Fail
            \/ /\ srv.status = "VERIFY_RESIZE" /\ GoesOn("pending")
               /\ Reads /\ u'.first = u.first
            \/ srv.status = "ERROR" /\ GoesOn("rebuild") /\ Reads /\ u'.first = TRUE
            \/ srv.status # "ERROR" /\ GoesOn("target") /\ Reads /\ u'.first = u.first
<1>0. u \in Locals
  BY DEF IInv, PcTyped
<1>1. Exists => Found \in Locals
  <2> SUFFICES ASSUME Exists PROVE Found \in Locals
    OBVIOUS
  <2>1. /\ srv.status \in Statuses /\ Was \in Statuses \cup {None}
        /\ srv.groups \in SUBSET Groups /\ Differs \in BOOLEAN
    BY ServerTyped DEF Was, Differs
  <2> QED
    BY <1>0, <2>1, LocalsUpdated DEF Found
<1>2. ASSUME Exists, u' = Found PROVE Reads /\ u'.first = u.first
  BY <1>0, <1>2 DEF Locals, Found, Reads, KeepsAim, KeepsGoal, KeepsImage, KeepsRestore
<1>3. ASSUME Exists, u' = [Found EXCEPT !.first = TRUE] PROVE Reads /\ u'.first = TRUE
  <2>1. /\ u'.status = Found.status /\ u'.was = Found.was /\ u'.have = Found.have
        /\ u'.resizing = Found.resizing /\ u'.op = Found.op /\ u'.changed = Found.changed
        /\ u'.first = TRUE
    BY <1>1, <1>3 DEF Locals
  <2>2. /\ u'.target = Found.target /\ u'.lifted = Found.lifted /\ u'.goal = Found.goal
        /\ u'.cont = Found.cont /\ u'.restore = Found.restore
        /\ u'.unread = Found.unread /\ u'.unconfirmed = Found.unconfirmed
        /\ u'.left = Found.left /\ u'.busy = Found.busy
    BY <1>1, <1>3 DEF Locals
  <2> QED
    BY <1>0, <1>3, <2>1, <2>2
       DEF Locals, Found, Reads, KeepsAim, KeepsGoal, KeepsImage, KeepsRestore
<1> QED
  BY <1>2, <1>3
     DEF Live, Get, Go, GoesOn, ResizePending, LiveGroups, Found, Was, Differs

LEMMA PendingWaitDoes ==
  ASSUME IInv, PendingWait
  PROVE  /\ UNCHANGED srv
         /\ \/ Fail
            \/ /\ Settled(Steady) /\ GoesOn("target") /\ KeepsPlan /\ KeepsAim
               /\ KeepsGoal /\ KeepsImage /\ KeepsMove /\ KeepsRestore /\ u'.add = u.add
               /\ u'.remove = u.remove /\ u'.job = u.job /\ u'.before = u.before
               /\ u'.status = srv.status /\ u'.have = srv.groups
<1>0. u \in Locals
  BY DEF IInv, PcTyped
<1>1. CASE /\ Settled(Steady) /\ GoesOn("target")
          /\ u' = [u EXCEPT !.status = srv.status, !.have = srv.groups]
  <2>1. /\ KeepsPlan /\ KeepsAim /\ KeepsGoal /\ KeepsImage /\ KeepsMove /\ KeepsRestore
        /\ u'.add = u.add /\ u'.remove = u.remove /\ u'.job = u.job
        /\ u'.before = u.before /\ u'.status = srv.status /\ u'.have = srv.groups
    BY <1>0, <1>1 DEF Locals, KeepsPlan, KeepsAim, KeepsGoal, KeepsImage, KeepsMove,
       KeepsRestore
  <2> QED
    BY <1>1, <2>1 DEF PendingWait, Wait
<1> QED
  BY <1>1 DEF PendingWait, Wait, LiveGroups, Go, GoesOn

\* The status a lifted server is put back to, and what the groups lack and have too much.
PutBack == IF LiftForResize /\ Wanted = None THEN u.status ELSE None
Add == IF cfg.groups = None THEN {} ELSE cfg.groups \ u.have
Remove == IF cfg.groups = None THEN {} ELSE u.have \ cfg.groups

LEMMA TargetDoes ==
  ASSUME IInv, Target
  PROVE  /\ UNCHANGED srv
         /\ \/ Fail
            \/ /\ GoesOn(IF LiftForResize \/ Wanted = "ACTIVE" THEN "power" ELSE "groups")
               /\ KeepsPlan /\ KeepsImage /\ KeepsMove /\ KeepsRestore /\ KeepsPower
               /\ u'.have = u.have
               /\ u'.target = (IF PutBack = None THEN Wanted ELSE PutBack)
               /\ u'.restore = PutBack /\ u'.lifted = PutBack /\ u'.goal = "ACTIVE"
               /\ u'.cont = "groups" /\ u'.add = Add /\ u'.remove = Remove
<1>0. u \in Locals
  BY DEF IInv, PcTyped
<1>1. CASE /\ GoesOn(IF LiftForResize \/ Wanted = "ACTIVE" THEN "power" ELSE "groups")
          /\ u' = [u EXCEPT !.target = IF PutBack = None THEN Wanted ELSE PutBack,
                            !.restore = PutBack, !.lifted = PutBack,
                            !.goal = "ACTIVE", !.cont = "groups",
                            !.add = Add, !.remove = Remove]
  <2>1. /\ KeepsPlan /\ KeepsImage /\ KeepsMove /\ KeepsRestore /\ KeepsPower
        /\ u'.have = u.have /\ u'.target = (IF PutBack = None THEN Wanted ELSE PutBack)
        /\ u'.restore = PutBack /\ u'.lifted = PutBack /\ u'.goal = "ACTIVE"
        /\ u'.cont = "groups" /\ u'.add = Add /\ u'.remove = Remove
    BY <1>0, <1>1 DEF Locals, KeepsPlan, KeepsImage, KeepsMove, KeepsRestore, KeepsPower
  <2> QED
    BY <1>1, <2>1 DEF Target
<1> QED
  BY <1>1 DEF Target, Go, GoesOn, PutBack, Add, Remove

\* A power step is sent for a server in the status it starts from.
Powers(j) ==
    /\ u.status = From[j] /\ To[j] = (IF u.status = "ACTIVE" THEN u.goal ELSE "ACTIVE")
    /\ Accepts({From[j]}) /\ srv' = Working(j) /\ GoesOn("powerwait")
    /\ KeepsPlan /\ KeepsAim /\ KeepsGoal /\ KeepsImage /\ KeepsGroups /\ KeepsMove
    /\ KeepsRestore /\ u'.status = u.status /\ u'.before = u.before /\ u'.job = j

LEMMA PowerDoes ==
  ASSUME IInv, Power
  PROVE  \/ Fail
         \/ /\ u.status \in Steady /\ u.status = u.goal /\ u.cont # "restored"
            /\ UNCHANGED <<srv, u>> /\ GoesOn(u.cont)
         \/ \E j \in PowerJobs : Powers(j)
<1>0. u \in Locals
  BY DEF IInv, PcTyped
<1>1. ASSUME NEW j \in PowerJobs, u' = [u EXCEPT !.job = j], GoesOn("powerwait"),
             u.status = From[j], Accepts({From[j]}), srv' = Working(j),
             To[j] = IF u.status = "ACTIVE" THEN u.goal ELSE "ACTIVE"
      PROVE  Powers(j)
  <2>1. /\ KeepsPlan /\ KeepsAim /\ KeepsGoal /\ KeepsImage /\ KeepsGroups /\ KeepsMove
        /\ KeepsRestore /\ u'.status = u.status /\ u'.before = u.before /\ u'.job = j
    BY <1>0, <1>1 DEF Locals, KeepsPlan, KeepsAim, KeepsGoal, KeepsImage, KeepsGroups,
       KeepsMove, KeepsRestore
  <2> QED
    BY <1>1, <2>1 DEF Powers
<1> QED
  BY <1>1 DEF Power, Call, Go, GoesOn

LEMMA PowerWaitDoes ==
  ASSUME IInv, PowerWait
  PROVE  /\ UNCHANGED srv
         /\ \/ Fail
            \/ /\ Exists /\ NoTask /\ srv.status = To[u.job] /\ GoesOn("power")
               /\ KeepsPlan /\ KeepsAim /\ KeepsGoal /\ KeepsImage /\ KeepsGroups
               /\ KeepsMove /\ KeepsRestore /\ u'.before = u.before
               /\ u'.status = srv.status /\ u'.job = None
<1>0. u \in Locals
  BY DEF IInv, PcTyped
<1>1. CASE /\ Exists /\ NoTask /\ srv.status = To[u.job] /\ GoesOn("power")
          /\ u' = [u EXCEPT !.status = srv.status, !.job = None]
  <2>1. /\ KeepsPlan /\ KeepsAim /\ KeepsGoal /\ KeepsImage /\ KeepsGroups /\ KeepsMove
        /\ KeepsRestore /\ u'.before = u.before /\ u'.status = srv.status
        /\ u'.job = None
    BY <1>0, <1>1 DEF Locals, KeepsPlan, KeepsAim, KeepsGoal, KeepsImage, KeepsGroups,
       KeepsMove, KeepsRestore
  <2> QED
    BY <1>1, <2>1 DEF PowerWait, Wait
<1> QED
  BY <1>1 DEF PowerWait, Wait, Settled, Go, GoesOn

LEMMA RestoreDoes ==
  ASSUME IInv, Restore
  PROVE  /\ UNCHANGED srv
         /\ \/ Fail
            \/ /\ Exists /\ GoesOn("power") /\ KeepsPlan /\ KeepsAim /\ KeepsGoal
               /\ KeepsImage /\ KeepsGroups /\ KeepsMove /\ u'.left = u.left
               /\ u'.job = u.job /\ u'.before = u.before /\ u'.status = srv.status
               /\ u'.busy = (~Accepts(Steady))
<1>0. u \in Locals
  BY DEF IInv, PcTyped
<1>1. CASE /\ Exists /\ GoesOn("power")
          /\ u' = [u EXCEPT !.status = srv.status, !.busy = ~Accepts(Steady)]
  <2>1. /\ KeepsPlan /\ KeepsAim /\ KeepsGoal /\ KeepsImage /\ KeepsGroups /\ KeepsMove
        /\ u'.left = u.left /\ u'.job = u.job /\ u'.before = u.before
        /\ u'.status = srv.status /\ u'.busy = (~Accepts(Steady))
    BY <1>0, <1>1 DEF Locals, KeepsPlan, KeepsAim, KeepsGoal, KeepsImage, KeepsGroups,
       KeepsMove
  <2> QED
    BY <1>1, <2>1 DEF Restore, Get
<1> QED
  BY <1>1 DEF Restore, Get, Go, GoesOn

LEMMA ResizeDoes ==
  ASSUME IInv, Resize
  PROVE  \/ Fail
         \/ ~u.resizing /\ UNCHANGED <<srv, u>> /\ GoesOn(AfterResize)
         \/ /\ u.resizing /\ Accepts({"ACTIVE", "SHUTOFF"})
            /\ srv' = Resizing(cfg.flavor) /\ GoesOn("resizewait") /\ KeepsPlan
            /\ KeepsAim /\ KeepsGoal /\ KeepsImage /\ KeepsGroups /\ KeepsRestore
            /\ KeepsPower /\ u'.resizing = u.resizing /\ u'.pre = u.status
<1>0. u \in Locals
  BY DEF IInv, PcTyped
<1>1. CASE /\ u.resizing /\ Accepts({"ACTIVE", "SHUTOFF"}) /\ srv' = Resizing(cfg.flavor)
          /\ GoesOn("resizewait") /\ u' = [u EXCEPT !.pre = u.status]
  <2>1. /\ KeepsPlan /\ KeepsAim /\ KeepsGoal /\ KeepsImage /\ KeepsGroups
        /\ KeepsRestore /\ KeepsPower /\ u'.resizing = u.resizing /\ u'.pre = u.status
    BY <1>0, <1>1 DEF Locals, KeepsPlan, KeepsAim, KeepsGoal, KeepsImage, KeepsGroups,
       KeepsRestore, KeepsPower
  <2> QED
    BY <1>1, <2>1
<1> QED
  BY <1>1 DEF Resize, Call, Go, GoesOn

LEMMA RebuildDoes ==
  ASSUME IInv, Rebuild
  PROVE  /\ UNCHANGED srv
         /\ \/ Fail
            \/ /\ row.image = cfg.image \/ (Rebuildable /\ HoldsImage)
               /\ UNCHANGED u /\ GoesOn(AfterRebuild)
            \/ /\ row.image # cfg.image /\ Rebuildable /\ ~HoldsImage
               /\ GoesOn("reimage") /\ KeepsPlan /\ KeepsAim /\ KeepsGoal /\ KeepsImage
               /\ KeepsGroups /\ KeepsMove /\ KeepsRestore /\ u'.status = u.status
               /\ u'.job = u.job /\ u'.before = srv.status
            \/ /\ row.image # cfg.image /\ Rebuildable /\ GoesOn("reimage") /\ KeepsPlan
               /\ KeepsAim /\ KeepsGoal /\ KeepsGroups /\ KeepsMove /\ KeepsRestore
               /\ u'.unconfirmed = u.unconfirmed /\ u'.status = u.status
               /\ u'.job = u.job /\ u'.before = srv.status /\ u'.unread = TRUE
<1>0. u \in Locals
  BY DEF IInv, PcTyped
<1>1. CASE /\ row.image # cfg.image /\ Rebuildable /\ ~HoldsImage /\ GoesOn("reimage")
          /\ u' = [u EXCEPT !.before = srv.status]
  <2>1. /\ KeepsPlan /\ KeepsAim /\ KeepsGoal /\ KeepsImage /\ KeepsGroups /\ KeepsMove
        /\ KeepsRestore /\ u'.status = u.status /\ u'.job = u.job
        /\ u'.before = srv.status
    BY <1>0, <1>1 DEF Locals, KeepsPlan, KeepsAim, KeepsGoal, KeepsImage, KeepsGroups,
       KeepsMove, KeepsRestore
  <2> QED
    BY <1>1, <2>1 DEF Rebuild, Get
<1>2. CASE /\ row.image # cfg.image /\ Rebuildable /\ GoesOn("reimage")
          /\ u' = [u EXCEPT !.before = srv.status, !.unread = TRUE]
  <2>1. /\ KeepsPlan /\ KeepsAim /\ KeepsGoal /\ KeepsGroups /\ KeepsMove
        /\ KeepsRestore /\ u'.unconfirmed = u.unconfirmed /\ u'.status = u.status
        /\ u'.job = u.job /\ u'.before = srv.status /\ u'.unread = TRUE
    BY <1>0, <1>2 DEF Locals, KeepsPlan, KeepsAim, KeepsGoal, KeepsGroups, KeepsMove,
       KeepsRestore
  <2> QED
    BY <1>2, <2>1 DEF Rebuild, Get
<1> QED
  BY <1>1, <1>2 DEF Rebuild, Get, Go, GoesOn

LEMMA RebuildWaitDoes ==
  ASSUME IInv, RebuildWait
  PROVE  /\ UNCHANGED srv
         /\ \/ Fail
            \/ /\ Settled(rebuildSettleTarget(u.before)) /\ RebuiltRight
               /\ GoesOn(AfterRebuild) /\ KeepsPlan /\ KeepsAim /\ KeepsGoal
               /\ KeepsImage /\ KeepsGroups /\ KeepsMove /\ KeepsRestore
               /\ u'.job = u.job /\ u'.before = u.before /\ u'.status = srv.status
            \/ /\ Settled(rebuildSettleTarget(u.before)) /\ GoesOn(AfterRebuild)
               /\ KeepsPlan /\ KeepsAim /\ KeepsGoal /\ KeepsGroups /\ KeepsMove
               /\ KeepsRestore /\ u'.unread = u.unread /\ u'.job = u.job
               /\ u'.before = u.before /\ u'.status = srv.status
               /\ u'.unconfirmed = TRUE
<1>0. u \in Locals
  BY DEF IInv, PcTyped
<1>1. CASE /\ Settled(rebuildSettleTarget(u.before)) /\ RebuiltRight
          /\ GoesOn(AfterRebuild) /\ u' = [u EXCEPT !.status = srv.status]
  <2>1. /\ KeepsPlan /\ KeepsAim /\ KeepsGoal /\ KeepsImage /\ KeepsGroups /\ KeepsMove
        /\ KeepsRestore /\ u'.job = u.job /\ u'.before = u.before
        /\ u'.status = srv.status
    BY <1>0, <1>1 DEF Locals, KeepsPlan, KeepsAim, KeepsGoal, KeepsImage, KeepsGroups,
       KeepsMove, KeepsRestore
  <2> QED
    BY <1>1, <2>1 DEF RebuildWait, Wait
<1>2. CASE /\ Settled(rebuildSettleTarget(u.before)) /\ GoesOn(AfterRebuild)
          /\ u' = [u EXCEPT !.status = srv.status, !.unconfirmed = TRUE]
  <2>1. /\ KeepsPlan /\ KeepsAim /\ KeepsGoal /\ KeepsGroups /\ KeepsMove
        /\ KeepsRestore /\ u'.unread = u.unread /\ u'.job = u.job
        /\ u'.before = u.before /\ u'.status = srv.status /\ u'.unconfirmed = TRUE
    BY <1>0, <1>2 DEF Locals, KeepsPlan, KeepsAim, KeepsGoal, KeepsGroups, KeepsMove,
       KeepsRestore
  <2> QED
    BY <1>2, <2>1 DEF RebuildWait, Wait
<1> QED
  BY <1>1, <1>2 DEF RebuildWait, Wait, Go, GoesOn

LEMMA OffDoes ==
  ASSUME IInv, Off
  PROVE  /\ UNCHANGED srv
         /\ \/ Fail
            \/ u.target \in {None, "ACTIVE"} /\ GoesOn("final") /\ UNCHANGED u
            \/ /\ u.target \notin {None, "ACTIVE"} /\ GoesOn("power") /\ KeepsPlan
               /\ KeepsAim /\ KeepsImage /\ KeepsGroups /\ KeepsMove /\ KeepsRestore
               /\ KeepsPower /\ u'.goal = u.target /\ u'.cont = "final"
               /\ u'.restore = None
<1>0. u \in Locals
  BY DEF IInv, PcTyped
<1>1. CASE /\ u.target \notin {None, "ACTIVE"} /\ GoesOn("power")
          /\ u' = [u EXCEPT !.goal = u.target, !.cont = "final", !.restore = None]
  <2>1. /\ KeepsPlan /\ KeepsAim /\ KeepsImage /\ KeepsGroups /\ KeepsMove
        /\ KeepsRestore /\ KeepsPower /\ u'.goal = u.target /\ u'.cont = "final"
        /\ u'.restore = None
    BY <1>0, <1>1 DEF Locals, KeepsPlan, KeepsAim, KeepsImage, KeepsGroups, KeepsMove,
       KeepsRestore, KeepsPower
  <2> QED
    BY <1>1, <2>1 DEF Off
<1> QED
  BY <1>1 DEF Off, Go, GoesOn

\* A group is added or removed, and struck off the list.
Adds(g) ==
    /\ Exists /\ srv' = [srv EXCEPT !.groups = @ \cup {g}] /\ GoesOn("groups")
    /\ KeepsPlan /\ KeepsAim /\ KeepsGoal /\ KeepsImage /\ KeepsMove /\ KeepsRestore
    /\ KeepsPower /\ u'.have = u.have /\ u'.add = u.add \ {g} /\ u'.remove = u.remove
Removes(g) ==
    /\ srv' = (IF Exists THEN [srv EXCEPT !.groups = @ \ {g}] ELSE srv) /\ GoesOn("groups")
    /\ KeepsPlan /\ KeepsAim /\ KeepsGoal /\ KeepsImage /\ KeepsMove /\ KeepsRestore
    /\ KeepsPower /\ u'.have = u.have /\ u'.add = u.add /\ u'.remove = u.remove \ {g}

LEMMA SwapDoes ==
  ASSUME IInv, SwapGroups
  PROVE  \/ Fail
         \/ \E g \in u.add : Adds(g)
         \/ \E g \in u.remove : u.add = {} /\ Removes(g)
         \/ u.add = {} /\ u.remove = {} /\ UNCHANGED <<srv, u>> /\ GoesOn("resize")
<1>0. u \in Locals
  BY DEF IInv, PcTyped
<1>1. ASSUME NEW g, u' = [u EXCEPT !.add = @ \ {g}], Exists, GoesOn("groups"),
             srv' = [srv EXCEPT !.groups = @ \cup {g}]
      PROVE  Adds(g)
  <2>1. /\ KeepsPlan /\ KeepsAim /\ KeepsGoal /\ KeepsImage /\ KeepsMove /\ KeepsRestore
        /\ KeepsPower /\ u'.have = u.have /\ u'.add = u.add \ {g} /\ u'.remove = u.remove
    BY <1>0, <1>1 DEF Locals, KeepsPlan, KeepsAim, KeepsGoal, KeepsImage, KeepsMove,
       KeepsRestore, KeepsPower
  <2> QED
    BY <1>1, <2>1 DEF Adds
<1>2. ASSUME NEW g, u' = [u EXCEPT !.remove = @ \ {g}], GoesOn("groups"),
             srv' = IF Exists THEN [srv EXCEPT !.groups = @ \ {g}] ELSE srv
      PROVE  Removes(g)
  <2>1. /\ KeepsPlan /\ KeepsAim /\ KeepsGoal /\ KeepsImage /\ KeepsMove /\ KeepsRestore
        /\ KeepsPower /\ u'.have = u.have /\ u'.add = u.add /\ u'.remove = u.remove \ {g}
    BY <1>0, <1>2 DEF Locals, KeepsPlan, KeepsAim, KeepsGoal, KeepsImage, KeepsMove,
       KeepsRestore, KeepsPower
  <2> QED
    BY <1>2, <2>1 DEF Removes
<1>3. ASSUME NEW g \in u.add, AddGroup(g) PROVE Fail \/ Adds(g)
  BY <1>1, <1>3 DEF AddGroup, Call, Go, GoesOn
<1>4. ASSUME NEW g \in u.remove, RemoveGroup(g) PROVE Fail \/ Removes(g)
  BY <1>2, <1>4 DEF RemoveGroup, Call, Go, GoesOn
<1> QED
  BY <1>3, <1>4 DEF SwapGroups, Go, GoesOn

\* An apply starts in one of three ways.
Begins(op, changed) ==
    /\ UNCHANGED <<srv, trouble, row, cfg>> /\ u'.was = u.was /\ u'.first = u.first
    /\ KeepsAim /\ KeepsGoal /\ KeepsImage /\ KeepsGroups /\ KeepsMove /\ KeepsRestore
    /\ KeepsPower /\ u'.op = op /\ u'.changed = changed

LEMMA ApplyDoes ==
  ASSUME IInv, Apply
  PROVE  /\ pc = "idle" /\ result' = result
         /\ \/ pc' = "boot" /\ row = None /\ Begins("create", u.changed)
            \/ pc' = "delete" /\ row # None /\ Begins("delete", u.changed)
            \/ pc' = "owner" /\ row # None /\ Begins("update", Changed)
<1>0. u \in Locals
  BY DEF IInv, PcTyped
<1>1. ASSUME NEW op, u' = [u EXCEPT !.op = op], UNCHANGED <<srv, trouble, row, cfg>>
      PROVE  Begins(op, u.changed)
  <2>1. /\ KeepsAim /\ KeepsGoal /\ KeepsImage /\ KeepsGroups /\ KeepsMove /\ KeepsRestore
        /\ KeepsPower /\ u'.was = u.was /\ u'.first = u.first /\ u'.op = op
        /\ u'.changed = u.changed
    BY <1>0, <1>1 DEF Locals, KeepsAim, KeepsGoal, KeepsImage, KeepsGroups, KeepsMove,
       KeepsRestore, KeepsPower
  <2> QED
    BY <1>1, <2>1 DEF Begins
<1>2. ASSUME NEW ch, u' = [u EXCEPT !.op = "update", !.changed = ch],
             UNCHANGED <<srv, trouble, row, cfg>>
      PROVE  Begins("update", ch)
  <2>1. /\ KeepsAim /\ KeepsGoal /\ KeepsImage /\ KeepsGroups /\ KeepsMove /\ KeepsRestore
        /\ KeepsPower /\ u'.was = u.was /\ u'.first = u.first /\ u'.op = "update"
        /\ u'.changed = ch
    BY <1>0, <1>2 DEF Locals, KeepsAim, KeepsGoal, KeepsImage, KeepsGroups, KeepsMove,
       KeepsRestore, KeepsPower
  <2> QED
    BY <1>2, <2>1 DEF Begins
<1> QED
  BY <1>1, <1>2 DEF Apply, Go

-----------------------------------------------------------------------------
(* What becomes of the server, field by field.                             *)

KeepsPlace == srv'.owner = srv.owner /\ srv'.groups = srv.groups
KeepsFlavor == srv'.flavor = srv.flavor /\ srv'.other = srv.other
KeepsRest == KeepsPlace /\ KeepsFlavor /\ srv'.image = srv.image /\ srv'.back = srv.back

\* The requests of an apply.
LEMMA WorkingDoes ==
  ASSUME IInv, Exists, NEW j \in Jobs, srv' = Working(j)
  PROVE  Exists' /\ srv'.job = j /\ srv'.status = srv.status /\ KeepsRest
<1>1. srv \in Servers
  BY ServerTyped
<1>2. srv'.job = j /\ srv'.status = srv.status /\ KeepsRest
  BY <1>1 DEF Working, Servers, KeepsRest, KeepsPlace, KeepsFlavor
<1>3. Exists'
  BY RequestsTyped, NoneAssumption DEF Same, Exists
<1> QED
  BY <1>2, <1>3

LEMMA ResizingDoes ==
  ASSUME IInv, Exists, srv.status \in Steady, srv' = Resizing(cfg.flavor)
  PROVE  /\ Exists' /\ srv'.job = "resize" /\ srv'.status = "RESIZE" /\ KeepsPlace
         /\ srv'.flavor = srv.flavor /\ srv'.other = cfg.flavor
         /\ srv'.image = srv.image /\ srv'.back = srv.status
<1>1. srv \in Servers /\ cfg.flavor \in Flavors
  BY ServerTyped, ConfigTyped DEF IInv, CfgTyped
<1>2. /\ srv'.job = "resize" /\ srv'.status = "RESIZE" /\ KeepsPlace
      /\ srv'.flavor = srv.flavor /\ srv'.other = cfg.flavor
      /\ srv'.image = srv.image /\ srv'.back = srv.status
  BY <1>1 DEF Resizing, Servers, KeepsPlace
<1>3. Exists'
  BY <1>1, RequestsTyped, NoneAssumption DEF Same, Exists
<1> QED
  BY <1>2, <1>3

LEMMA RebuildingDoes ==
  ASSUME IInv, Exists, srv' = Rebuilding(cfg.image)
  PROVE  /\ Exists' /\ srv'.job = "rebuild" /\ KeepsPlace /\ KeepsFlavor
         /\ srv'.status \in {"REBUILD", "ERROR"}
         /\ srv'.back = IF srv.status = "SHUTOFF" THEN "SHUTOFF" ELSE "ACTIVE"
<1>1. srv \in Servers /\ cfg.image \in Images
  BY ServerTyped, ConfigTyped DEF IInv, CfgTyped
<1>2. /\ srv'.job = "rebuild" /\ KeepsPlace /\ KeepsFlavor
      /\ srv'.status \in {"REBUILD", "ERROR"}
      /\ srv'.back = IF srv.status = "SHUTOFF" THEN "SHUTOFF" ELSE "ACTIVE"
  BY <1>1 DEF Rebuilding, Servers, KeepsPlace, KeepsFlavor
<1>3. Exists'
  BY <1>1, RequestsTyped, NoneAssumption DEF Same, Exists
<1> QED
  BY <1>2, <1>3

\* The end of a work that moves neither the image nor the flavor.
EndsIn(status) == srv'.status = status /\ srv'.job = "" /\ KeepsRest

LEMMA EndDoes ==
  ASSUME IInv, Exists, NEW status \in Statuses, End(status)
  PROVE  Exists' /\ EndsIn(status)
<1>1. srv \in Servers
  BY ServerTyped
<1>2. EndsIn(status)
  BY <1>1 DEF End, EndsIn, Servers, KeepsRest, KeepsPlace, KeepsFlavor
<1>3. Exists'
  BY EndSame, NoneAssumption DEF Same, Exists
<1> QED
  BY <1>2, <1>3

\* Nova's work, by the work that was in flight.
Builds == srv.job = "build" /\ (EndsIn("ACTIVE") \/ EndsIn("ERROR"))
PowerDone(j) == srv.job = j /\ (EndsIn(To[j]) \/ (Trouble /\ EndsIn(From[j])))
Moves ==
    /\ srv.job = "resize" /\ srv'.job = "finish_resize" /\ srv'.status = srv.status
    /\ KeepsPlace /\ srv'.flavor = srv.other /\ srv'.image = srv.image
    /\ srv'.back = srv.back
MoveFails == srv.job = "resize" /\ (EndsIn(srv.back) \/ EndsIn("ERROR"))
Moved == srv.job = "finish_resize" /\ (EndsIn("VERIFY_RESIZE") \/ EndsIn("ERROR"))
Confirms ==
    /\ srv.job = "" /\ srv.status = "VERIFY_RESIZE" /\ srv'.status = srv.status
    /\ srv'.job = "confirm" /\ KeepsRest
Confirmed == srv.job = "confirm" /\ EndsIn(srv.back)
Reverted ==
    /\ srv.job = "revert" /\ srv'.job = "" /\ KeepsPlace
    /\ srv'.image = srv.image /\ srv'.back = srv.back
Writes ==
    /\ srv.job = "rebuild" /\ KeepsPlace /\ KeepsFlavor /\ srv'.back = srv.back
    /\ \/ srv'.job = "" /\ srv'.status \in {"ACTIVE", "ERROR"}
       \/ srv'.job = "poweroff" /\ srv'.status = "ACTIVE" /\ srv.back = "SHUTOFF"
PoweredOff == srv.job = "poweroff" /\ EndsIn("SHUTOFF")

LEMMA WorkDoes ==
  ASSUME IInv, NovaWork
  PROVE  /\ UNCHANGED <<cfg, row, pc, u, result>>
         /\ Exists /\ (UNCHANGED trouble \/ Trouble)
         /\ \/ srv.job = "delete" /\ ~Exists'
            \/ /\ Exists'
               /\ \/ Builds \/ (\E j \in PowerJobs : PowerDone(j)) \/ Moves \/ MoveFails
                  \/ Moved \/ Confirms \/ Confirmed \/ Reverted \/ Writes \/ PoweredOff
<1>1. /\ UNCHANGED <<cfg, row, pc, u, result>> /\ (UNCHANGED trouble \/ Trouble)
      /\ Work \/ Fails
  BY DEF NovaWork, Work, Fails
<1>2. Exists /\ (srv' = None \/ Same(srv'))
  BY <1>1, WorkSame
<1>3. srv \in Servers /\ srv.back \in Steady
  BY <1>2, ServerTyped
<1>4. /\ {"ACTIVE", "SHUTOFF", "VERIFY_RESIZE", "ERROR"} \subseteq Statuses
      /\ Steady \subseteq Statuses
  BY DEF Statuses, Steady
<1>5. {"", "finish_resize", "confirm", "poweroff"} \subseteq Jobs
  BY DEF Jobs
<1> DEFINE Outcome ==
             \/ Builds \/ (\E j \in PowerJobs : PowerDone(j)) \/ Moves \/ MoveFails
             \/ Moved \/ Confirms \/ Confirmed \/ Reverted \/ Writes \/ PoweredOff
<1>6. FinishBuild \/ (srv.job = "build" /\ End("ERROR")) => Exists' /\ Outcome
  BY <1>2, <1>4, EndDoes DEF FinishBuild, Works, Builds
<1>7. FinishPower \/ (Trouble /\ srv.job \in PowerJobs /\ End(From[srv.job]))
        => Exists' /\ Outcome
  BY <1>2, <1>4, EndDoes, PowerEnds DEF FinishPower, PowerDone
<1>8. ASSUME ProgressResize PROVE Exists' /\ Outcome
  <2>1. srv' \in Servers
    BY <1>3, <1>5, <1>8 DEF ProgressResize, Servers
  <2>2. Moves
    BY <1>3, <1>8 DEF ProgressResize, Works, Moves, KeepsPlace, Servers
  <2> QED
    BY <2>1, <2>2, NoneAssumption DEF Exists
<1>9. srv.job = "resize" /\ (End(srv.back) \/ End("ERROR")) => Exists' /\ Outcome
  BY <1>2, <1>3, <1>4, EndDoes DEF MoveFails
<1>10. FinishResize \/ (srv.job = "finish_resize" /\ End("ERROR")) => Exists' /\ Outcome
  BY <1>2, <1>4, EndDoes DEF FinishResize, Works, Moved
<1>11. CloudConfirm => Exists' /\ Outcome
  BY <1>2, <1>5, WorkingDoes DEF CloudConfirm, Accepts, Idle, Confirms
<1>12. FinishConfirm => Exists' /\ Outcome
  BY <1>2, <1>3, <1>4, EndDoes DEF FinishConfirm, Works, Confirmed
<1>13. ASSUME FinishRevert PROVE Exists' /\ Outcome
  <2>1. srv' \in Servers
    BY <1>3, <1>4, <1>5, <1>13 DEF FinishRevert, Servers
  <2>2. Reverted
    BY <1>3, <1>13 DEF FinishRevert, Works, Reverted, KeepsPlace, Servers
  <2> QED
    BY <2>1, <2>2, NoneAssumption DEF Exists
<1>14. ASSUME FinishRebuild PROVE Exists' /\ Outcome
  <2>1. PICK j \in Jobs :
          /\ srv' = [srv EXCEPT !.status = "ACTIVE", !.image = srv.next, !.job = j]
          /\ j = IF srv.back = "SHUTOFF" THEN "poweroff" ELSE ""
    BY <1>5, <1>14 DEF FinishRebuild
  <2>2. srv' \in Servers
    BY <1>3, <1>4, <2>1 DEF Servers
  <2>3. Writes
    BY <1>3, <1>14, <2>1
       DEF FinishRebuild, Works, Writes, KeepsPlace, KeepsFlavor, Servers
  <2> QED
    BY <2>2, <2>3, NoneAssumption DEF Exists
<1>15. srv.job = "rebuild" /\ (End("ERROR") \/ End("ACTIVE")) => Exists' /\ Outcome
  BY <1>2, <1>4, EndDoes DEF EndsIn, KeepsRest, Writes
<1>16. ASSUME srv.job = "rebuild",
              srv' = [srv EXCEPT !.status = "ERROR", !.job = "", !.image = srv.next]
       PROVE  Exists' /\ Outcome
  <2>1. srv' \in Servers
    BY <1>3, <1>4, <1>5, <1>16 DEF Servers
  <2>2. Writes
    BY <1>3, <1>16 DEF Writes, KeepsPlace, KeepsFlavor, Servers
  <2> QED
    BY <2>1, <2>2, NoneAssumption DEF Exists
<1>17. FinishPoweroff => Exists' /\ Outcome
  BY <1>2, <1>4, EndDoes DEF FinishPoweroff, Works, PoweredOff
<1>18. CASE FinishDelete
  BY <1>1, <1>2, <1>18 DEF FinishDelete, Works, Exists
<1>19. CASE Fails
  <2>1. \/ Trouble /\ srv.job \in PowerJobs /\ End(From[srv.job])
        \/ srv.job = "resize" /\ End(srv.back)
        \/ /\ srv.job \in {"build", "resize", "finish_resize", "rebuild"}
           /\ End("ERROR")
        \/ srv.job = "rebuild" /\ End("ACTIVE")
        \/ /\ srv.job = "rebuild"
           /\ srv' = [srv EXCEPT !.status = "ERROR", !.job = "", !.image = srv.next]
    BY <1>19 DEF Fails
  <2>2. Exists' /\ Outcome
    <3> HIDE DEF Outcome
    <3> QED
      BY <1>6, <1>7, <1>9, <1>10, <1>15, <1>16, <2>1
  <2> QED
    BY <1>1, <1>2, <2>2
<1>20. CASE Work
  <2>1. FinishDelete \/ (Exists' /\ Outcome)
    <3> HIDE DEF Outcome
    <3> QED
      BY <1>6, <1>7, <1>8, <1>10, <1>11, <1>12, <1>13, <1>14, <1>17, <1>20 DEF Work
  <2> QED
    BY <1>1, <1>2, <1>18, <2>1
<1> QED
  BY <1>1, <1>19, <1>20

\* Every request Nova accepts, answered or not.
Asked ==
    \/ /\ pc = "owner" /\ Exists /\ cfg.owner # None
       /\ srv' = [srv EXCEPT !.owner = cfg.owner]
    \/ /\ pc = "strip" /\ Exists
       /\ \E g \in srv.groups : srv' = [srv EXCEPT !.groups = @ \ {g}]
    \/ pc = "delete" /\ Exists /\ srv' = Working("delete")
    \/ pc = "power" /\ \E j \in PowerJobs : Accepts({From[j]}) /\ srv' = Working(j)
    \/ /\ pc = "groups" /\ Exists
       /\ \E g \in u.add \cup u.remove :
             srv' \in {[srv EXCEPT !.groups = @ \cup {g}], [srv EXCEPT !.groups = @ \ {g}]}
    \/ /\ pc \in {"pending", "confirm"} /\ Accepts({"VERIFY_RESIZE"})
       /\ srv' = Working("confirm")
    \/ pc = "revert" /\ Accepts({"VERIFY_RESIZE"}) /\ srv' = Reverting
    \/ /\ pc = "resize" /\ Accepts({"ACTIVE", "SHUTOFF"}) /\ srv' = Resizing(cfg.flavor)
    \/ /\ pc = "reimage" /\ Accepts({"ACTIVE", "SHUTOFF", "ERROR"})
       /\ srv' = Rebuilding(cfg.image)

\* What POST /servers makes.
IsMade ==
    /\ srv'.job = "build" /\ srv'.status = "BUILD"
    /\ cfg.groups \notin {None, {}} => srv'.groups = cfg.groups

LEMMA MadeBuilds ==
  ASSUME NEW a, srv' = Made(a)
  PROVE  IsMade
  BY DEF Made, Booted, IsMade

LEMMA BootDoes ==
  ASSUME IInv, Boot
  PROVE  \/ UNCHANGED srv /\ Trouble /\ Fail
         \/ IsMade /\ pc' = "bootwait" /\ UNCHANGED <<trouble, u>>
         \/ /\ IsMade /\ Trouble
            /\ Fail \/ (pc' = "idle" /\ u' = NoApply /\ result' = "error")
<1>1. ASSUME srv' = Made(TRUE) \/ srv' = Made(FALSE) PROVE IsMade
  BY <1>1, MadeBuilds, Zenon
<1>2. CASE Trouble /\ srv' \in {srv, Made(FALSE)} /\ Fail
  BY <1>1, <1>2, Zenon
<1>3. CASE /\ UNCHANGED trouble /\ srv' = Made(TRUE)
           /\ Record /\ pc' = "bootwait" /\ UNCHANGED <<u, result>>
  BY <1>1, <1>3, Zenon
<1>4. CASE /\ Trouble /\ srv' = Made(FALSE)
           /\ Finish("error", [Planned EXCEPT !.tainted = TRUE, !.blank = TRUE])
  BY <1>1, <1>4, Zenon DEF Finish
<1> QED
  BY <1>2, <1>3, <1>4 DEF Boot

LEMMA StepAsks ==
  ASSUME IInv, Step
  PROVE  \/ UNCHANGED srv
         \/ pc = "boot" /\ IsMade
         \/ Asked
<1>1. CASE pc = "boot" /\ Boot
  BY <1>1, BootDoes
<1>2. CASE pc = "owner" /\ ChangeOwner
  BY <1>2 DEF ChangeOwner, Get, Call, Asked
<1>3. CASE pc = "strip" /\ Strip
  BY <1>3 DEF Strip, Get, Call, Asked
<1>4. CASE pc = "power" /\ Power
  BY <1>4 DEF Power, Call, Asked
<1>5. CASE pc = "groups" /\ SwapGroups
  BY <1>5 DEF SwapGroups, AddGroup, RemoveGroup, Call, Asked
<1>6. CASE \/ pc = "pending" /\ ConfirmPending
           \/ pc = "confirm" /\ Confirm
           \/ pc = "revert" /\ Revert
  BY <1>6 DEF ConfirmPending, Confirm, Revert, Call, Asked
<1>7. CASE \/ pc = "resize" /\ Resize
           \/ pc = "reimage" /\ Reimage
           \/ pc = "delete" /\ Delete
  BY <1>7 DEF Resize, Reimage, Delete, Gone, Call, Asked
<1>8. CASE \/ BootWait \/ Live \/ PendingWait \/ Target \/ PowerWait \/ ResizeWait
           \/ ConfirmWait \/ RevertWait \/ Rebuild \/ RebuildWait \/ Off \/ Final
           \/ Restore \/ DeleteWait
  BY <1>8 DEF BootWait, Live, PendingWait, Target, PowerWait, ResizeWait, ConfirmWait,
              RevertWait, Rebuild, RebuildWait, Off, Final, Restore, DeleteWait, Gone,
              Wait, Get
<1> QED
  BY <1>1, <1>2, <1>3, <1>4, <1>5, <1>6, <1>7, <1>8 DEF Step

\* What a request does to the server, by the step it is sent in.
KeepsWork ==
    /\ srv'.job = srv.job /\ srv'.status = srv.status /\ KeepsFlavor
    /\ srv'.image = srv.image /\ srv'.back = srv.back

LEMMA AskedDoes ==
  ASSUME IInv, Asked
  PROVE  /\ Exists /\ Exists'
         /\ \/ /\ pc = "owner" /\ KeepsWork
               /\ srv'.owner = cfg.owner /\ srv'.groups = srv.groups
            \/ pc \in {"strip", "groups"} /\ KeepsWork /\ srv'.owner = srv.owner
            \/ pc = "delete" /\ srv'.job = "delete" /\ KeepsRest
            \/ /\ pc = "power" /\ srv.job = "" /\ KeepsRest /\ srv'.status = srv.status
               /\ \E j \in PowerJobs : srv.status = From[j] /\ srv'.job = j
            \/ /\ pc \in {"pending", "confirm"} /\ srv.job = "" /\ KeepsRest
               /\ srv.status = "VERIFY_RESIZE" /\ srv'.status = srv.status
               /\ srv'.job = "confirm"
            \/ pc = "revert" /\ srv'.job = "revert" /\ KeepsPlace
            \/ /\ pc = "resize" /\ srv.job = "" /\ srv'.job = "resize" /\ KeepsPlace
               /\ srv'.status = "RESIZE" /\ srv'.flavor = srv.flavor
               /\ srv'.other = cfg.flavor /\ srv'.back = srv.status
               /\ srv'.image = srv.image
            \/ /\ pc = "reimage" /\ srv.job = "" /\ srv'.job = "rebuild" /\ KeepsPlace
               /\ KeepsFlavor /\ srv'.status \in {"REBUILD", "ERROR"}
               /\ srv'.back = IF srv.status = "SHUTOFF" THEN "SHUTOFF" ELSE "ACTIVE"
<1>1. Exists
  BY DEF Asked, Accepts, Idle
<1>2. srv \in Servers /\ srv.groups \in SUBSET Groups
  BY <1>1, ServerTyped
<1>3. CASE pc = "owner" /\ cfg.owner # None /\ srv' = [srv EXCEPT !.owner = cfg.owner]
  <2>1. KeepsWork /\ srv'.owner = cfg.owner /\ srv'.groups = srv.groups
    BY <1>2, <1>3 DEF Servers, KeepsWork, KeepsFlavor
  <2>2. Exists'
    BY <1>1, <1>3, RequestsTyped, ConfigTyped, NoneAssumption
       DEF IInv, CfgTyped, Same, Exists
  <2> QED
    BY <1>1, <1>3, <2>1, <2>2
<1>4. ASSUME pc \in {"strip", "groups"}, NEW gs \in SUBSET Groups,
             srv' = [srv EXCEPT !.groups = gs]
      PROVE  Exists' /\ KeepsWork /\ srv'.owner = srv.owner
  <2>1. KeepsWork /\ srv'.owner = srv.owner
    BY <1>2, <1>4 DEF Servers, KeepsWork, KeepsFlavor
  <2>2. Exists'
    BY <1>1, <1>4, RequestsTyped, NoneAssumption DEF Exists
  <2> QED
    BY <2>1, <2>2
<1>5. CASE \/ /\ pc = "strip"
              /\ \E g \in srv.groups : srv' = [srv EXCEPT !.groups = @ \ {g}]
           \/ /\ pc = "groups"
              /\ \E g \in u.add \cup u.remove :
                    srv' \in {[srv EXCEPT !.groups = @ \cup {g}],
                              [srv EXCEPT !.groups = @ \ {g}]}
  <2>1. u.add \subseteq Groups /\ u.remove \subseteq Groups
    BY DEF IInv, PcTyped, Locals
  <2>2. PICK g \in Groups : srv' \in {[srv EXCEPT !.groups = @ \cup {g}],
                                      [srv EXCEPT !.groups = @ \ {g}]}
    BY <1>2, <1>5, <2>1
  <2>3. srv' \in {[srv EXCEPT !.groups = srv.groups \cup {g}],
                  [srv EXCEPT !.groups = srv.groups \ {g}]}
    BY <1>2, <2>2 DEF Servers
  <2>4. pc \in {"strip", "groups"} /\ srv.groups \cup {g} \in SUBSET Groups
        /\ srv.groups \ {g} \in SUBSET Groups
    BY <1>2, <1>5
  <2> QED
    BY <1>1, <1>4, <2>3, <2>4
<1>6. CASE pc = "delete" /\ srv' = Working("delete")
  BY <1>1, <1>6, WorkingDoes DEF Jobs
<1>7. CASE pc = "power" /\ \E j \in PowerJobs : Accepts({From[j]}) /\ srv' = Working(j)
  <2>1. PowerJobs \subseteq Jobs
    BY DEF Jobs
  <2> QED
    BY <1>1, <1>7, <2>1, WorkingDoes DEF Accepts, Idle
<1>8. CASE /\ pc \in {"pending", "confirm"} /\ Accepts({"VERIFY_RESIZE"})
           /\ srv' = Working("confirm")
  BY <1>1, <1>8, WorkingDoes DEF Accepts, Idle, Jobs
<1>9. CASE pc = "revert" /\ srv' = Reverting
  <2>1. srv'.job = "revert" /\ KeepsPlace
    BY <1>2, <1>9 DEF Reverting, Servers, KeepsPlace
  <2>2. Exists'
    BY <1>1, <1>9, RequestsTyped, NoneAssumption DEF Same, Exists
  <2> QED
    BY <1>1, <1>9, <2>1, <2>2
<1>10. CASE /\ pc = "resize" /\ Accepts({"ACTIVE", "SHUTOFF"})
            /\ srv' = Resizing(cfg.flavor)
  BY <1>1, <1>10, ResizingDoes DEF Accepts, Idle, Steady
<1>11. CASE /\ pc = "reimage" /\ Accepts({"ACTIVE", "SHUTOFF", "ERROR"})
            /\ srv' = Rebuilding(cfg.image)
  BY <1>1, <1>11, RebuildingDoes DEF Accepts, Idle
<1> QED
  BY <1>3, <1>5, <1>6, <1>7, <1>8, <1>9, <1>10, <1>11 DEF Asked

\* People act on a server at rest.
LEMMA OutsideDoes ==
  ASSUME IInv, Others
  PROVE  /\ pc = "idle" /\ UNCHANGED <<cfg, row, pc, u, result>>
         /\ Exists' => srv'.job = ""
<1>1. Exists /\ srv \in Servers /\ srv.job = ""
  BY OutsideTyped, ServerTyped DEF Others, Outside, Accepts, Idle
<1>2. Exists' => srv'.job = ""
  BY <1>1 DEF Others, Outside, End, Servers, Exists
<1> QED
  BY <1>2 DEF Others

\* The way of an update after the live read, and of the power step of a create.
Follows ==
    \/ pc = "pending" /\ pc' = "pendingwait" /\ UNCHANGED u
    \/ pc = "pendingwait" /\ pc' = "target" /\ KeepsAim /\ KeepsGoal /\ KeepsMove
    \/ pc = "target" /\ pc' \in {"power", "groups"} /\ u'.cont = "groups" /\ KeepsMove
    \/ /\ pc = "power" /\ KeepsAim /\ KeepsGoal /\ KeepsMove
       /\ pc' = "powerwait" \/ (pc' = u.cont /\ u.cont \in {"groups", "final"})
    \/ pc = "powerwait" /\ pc' = "power" /\ KeepsAim /\ KeepsGoal /\ KeepsMove
    \/ pc = "groups" /\ pc' \in {"groups", "resize"} /\ KeepsAim /\ KeepsGoal /\ KeepsMove
    \/ /\ pc = "resize" /\ KeepsAim /\ KeepsGoal
       /\ (~u.resizing /\ pc' = AfterResize) \/ pc' = "resizewait"
    \/ pc = "resizewait" /\ pc' \in {"confirm", AfterResize, "revert"} /\ UNCHANGED u
    \/ pc = "confirm" /\ pc' \in {"confirmwait", "revert"} /\ UNCHANGED u
    \/ pc = "confirmwait" /\ pc' = AfterResize /\ UNCHANGED u
    \/ pc = "revert" /\ pc' = "revertwait" /\ UNCHANGED u
    \/ /\ pc = "rebuild" /\ KeepsAim /\ KeepsGoal /\ KeepsMove
       /\ pc' \in {"reimage", AfterRebuild}
    \/ pc = "reimage" /\ pc' = "rebuildwait" /\ UNCHANGED u
    \/ pc = "rebuildwait" /\ pc' = AfterRebuild /\ KeepsAim /\ KeepsGoal /\ KeepsMove
    \/ /\ pc = "off" /\ KeepsAim /\ KeepsMove
       /\ (pc' = "final" /\ UNCHANGED u) \/ (pc' = "power" /\ u'.cont = "final")
    \/ pc = "restore" /\ pc' = "power" /\ KeepsAim /\ KeepsGoal /\ KeepsMove

LEMMA SameLocals ==
  ASSUME UNCHANGED u
  PROVE  /\ KeepsPlan /\ KeepsAim /\ KeepsGoal /\ KeepsMove /\ KeepsImage /\ KeepsGroups
         /\ KeepsRestore
  BY DEF KeepsPlan, KeepsAim, KeepsGoal, KeepsMove, KeepsImage, KeepsGroups,
         KeepsRestore

LEMMA StepFollows ==
  ASSUME IInv, Step, ~Fail, pc \notin Starts \cup {"final"}
  PROVE  /\ UNCHANGED <<cfg, row, result>> /\ KeepsPlan /\ Follows
         /\ pc \notin {"rebuild", "rebuildwait"} => KeepsImage
         /\ pc \notin {"pendingwait", "target", "groups"} => KeepsGroups
         /\ pc # "restore" => KeepsRestore
<1>0. UNCHANGED cfg
  BY DEF Step
<1>1. CASE \/ pc = "pending" /\ ConfirmPending
           \/ pc = "resizewait" /\ ResizeWait
           \/ pc = "confirm" /\ Confirm
           \/ pc = "confirmwait" /\ ConfirmWait
           \/ pc = "revert" /\ Revert
           \/ pc = "revertwait" /\ RevertWait
           \/ pc = "reimage" /\ Reimage
  BY <1>0, <1>1, SameLocals
     DEF ConfirmPending, ResizeWait, Confirm, ConfirmWait, Revert, RevertWait, Reimage,
         Wait, Call, Go, Follows
<1>2. CASE pc = "pendingwait" /\ PendingWait
  BY <1>0, <1>2, PendingWaitDoes DEF GoesOn, Follows
<1>3. CASE pc = "target" /\ Target
  BY <1>0, <1>3, TargetDoes DEF GoesOn, Follows
<1>4. CASE pc = "power" /\ Power
  <2>1. u.cont \in Continues
    BY <1>4 DEF IInv, PcTyped, Powering
  <2> QED
    BY <1>0, <1>4, <2>1, PowerDoes, SameLocals DEF GoesOn, Follows, Powers, Continues
<1>5. CASE pc = "powerwait" /\ PowerWait
  BY <1>0, <1>5, PowerWaitDoes DEF GoesOn, Follows
<1>6. CASE pc = "groups" /\ SwapGroups
  BY <1>0, <1>6, SwapDoes, SameLocals DEF GoesOn, Follows, Adds, Removes
<1>7. CASE pc = "resize" /\ Resize
  BY <1>0, <1>7, ResizeDoes, SameLocals DEF GoesOn, Follows
<1>8. CASE pc = "rebuild" /\ Rebuild
  BY <1>0, <1>8, RebuildDoes, SameLocals DEF GoesOn, Follows
<1>9. CASE pc = "rebuildwait" /\ RebuildWait
  BY <1>0, <1>9, RebuildWaitDoes DEF GoesOn, Follows
<1>10. CASE pc = "off" /\ Off
  BY <1>0, <1>10, OffDoes, SameLocals DEF GoesOn, Follows
<1>11. CASE pc = "restore" /\ Restore
  BY <1>0, <1>11, RestoreDoes DEF GoesOn, Follows
<1> QED
  BY <1>1, <1>2, <1>3, <1>4, <1>5, <1>6, <1>7, <1>8, <1>9, <1>10, <1>11
     DEF Step, Starts

\* The way to the live read, and the end of an apply.
Begun ==
    \/ pc' \in Starts \cup {"idle"}
    \/ pc = "strip" /\ pc' = "final" /\ UNCHANGED u
    \/ pc = "strip" /\ pc' = "power" /\ u'.cont = "final" /\ KeepsPlan /\ KeepsAim
    \/ pc = "live" /\ pc' \in {"pending", "target"} /\ u'.first = u.first /\ Reads
    \/ pc = "live" /\ pc' = "rebuild" /\ u'.first = TRUE /\ Reads

LEMMA StepBegins ==
  ASSUME IInv, Step, ~Fail, pc \in Starts \cup {"final"}
  PROVE  UNCHANGED cfg /\ Begun
<1>0. UNCHANGED cfg
  BY DEF Step
<1>1. CASE \/ pc = "boot" /\ Boot
           \/ pc = "bootwait" /\ BootWait
           \/ pc = "owner" /\ ChangeOwner
           \/ pc = "delete" /\ Delete
           \/ pc = "gonewait" /\ DeleteWait
           \/ pc = "final" /\ Final
  BY <1>0, <1>1, BootDoes
     DEF BootWait, ChangeOwner, Delete, DeleteWait, Final, Gone, Finish, Get,
         Call, Go, Begun, Starts
<1>2. CASE pc = "strip" /\ Strip
  BY <1>0, <1>2, StripDoes DEF Begun, GoesOn, Starts
<1>3. CASE pc = "live" /\ Live
  BY <1>0, <1>3, LiveDoes DEF Begun, GoesOn
<1> QED
  BY <1>1, <1>2, <1>3 DEF Step, Starts

-----------------------------------------------------------------------------
(* The operation.                                                          *)

\* Read, Create and Delete leave these steps to Update.
LEMMA Updates ==
  ASSUME IInv, OpInv, pc \notin Creates \cup Deletes \cup {"idle"}
  PROVE  u.op = "update" /\ row # None /\ u.changed = Changed
<1>1. u.op \in {"none", "create", "update", "delete"}
  BY DEF IInv, PcTyped, Locals
<1> QED
  BY <1>1 DEF OpInv

LEMMA UpdateOp ==
  ASSUME IInv, OpInv, u.op = "update", UNCHANGED <<cfg, row>>,
         u'.op = u.op, u'.changed = u.changed, pc' \notin Starts \cup {"idle"},
         pc' \in {"pending", "pendingwait"} => ~u'.first,
         pc' = "restore" => u'.cont = "restored"
  PROVE  OpInv'
  BY DEF OpInv, Starts, Deletes, Changed

LEMMA FailOp ==
  ASSUME IInv, OpInv, pc # "idle", Fail, UNCHANGED cfg
  PROVE  OpInv'
<1>1. CASE FailsOver
  <2>1. u.op = "update"
    <3>1. pc \notin Starts /\ u.op # "create" /\ u.op # "none"
      BY <1>1 DEF OpInv, FailsOver
    <3>2. u.op \in {"none", "create", "update", "delete"}
      BY DEF IInv, PcTyped, Locals
    <3> QED
      BY <3>1, <3>2 DEF OpInv, Starts, Deletes
  <2> QED
    BY <1>1, <2>1, UpdateOp DEF FailsOver, GoesOn, KeepsPlan, Starts
<1>2. CASE FailsFinally
  BY <1>2 DEF FailsFinally, OpInv, NoApply, Starts
<1> QED
  BY <1>1, <1>2, FailDoes

\* The steps of Create and Delete, and what they share with Update.
LEMMA StartOp ==
  ASSUME IInv, OpInv, UNCHANGED cfg,
         \/ pc = "boot" /\ Boot
         \/ pc = "bootwait" /\ BootWait
         \/ pc = "owner" /\ ChangeOwner
         \/ pc = "strip" /\ Strip
         \/ pc = "live" /\ Live
         \/ pc = "delete" /\ Delete
         \/ pc = "gonewait" /\ DeleteWait
  PROVE  OpInv'
<1>1. u.op \in {"none", "create", "update", "delete"}
  BY DEF IInv, PcTyped, Locals
<1>2. CASE Fail
  BY <1>2, FailOp
<1>3. CASE pc = "boot" /\ Boot /\ ~Fail
  BY <1>1, <1>3, BootDoes DEF OpInv, Starts, Creates, Deletes, NoApply
<1>4. CASE pc = "bootwait" /\ BootWait /\ ~Fail
  BY <1>1, <1>4, BootWaitDoes
     DEF OpInv, Starts, Creates, Deletes, KeepsPlan, KeepsAim, KeepsGoal
<1>5. CASE pc = "owner" /\ ChangeOwner /\ ~Fail
  BY <1>1, <1>5 DEF ChangeOwner, Get, Call, Go, OpInv, Starts, Creates, Deletes, Changed
<1>6. CASE pc = "strip" /\ Strip /\ ~Fail
  BY <1>1, <1>6, StripDoes
     DEF OpInv, Starts, Creates, Deletes, GoesOn, KeepsPlan, KeepsAim
<1>7. CASE pc = "live" /\ Live /\ ~Fail
  <2>1. u.op = "update" /\ ~u.first
    BY <1>7, Updates DEF Creates, Deletes, OpInv, Starts
  <2> QED
    BY <1>7, <2>1, LiveDoes, UpdateOp DEF Reads, GoesOn, Starts
<1>8. CASE Gone /\ pc \in Deletes
  BY <1>1, <1>8 DEF Gone, Finish, OpInv, Starts, Creates, Deletes, NoApply
<1>9. CASE pc = "delete" /\ Go("gonewait", u)
  BY <1>1, <1>9 DEF Go, OpInv, Starts, Creates, Deletes
<1> QED
  BY <1>2, <1>3, <1>4, <1>5, <1>6, <1>7, <1>8, <1>9
     DEF Delete, DeleteWait, Call, Deletes

\* The power step is Create's or Update's.
LEMMA PowerOp ==
  ASSUME IInv, OpInv, UNCHANGED cfg,
         \/ pc = "power" /\ Power
         \/ pc = "powerwait" /\ PowerWait
         \/ pc = "final" /\ Final
  PROVE  OpInv'
<1>1. u.op \in {"create", "update"} /\ u.cont \in Continues \cup Labels \cup {"none"}
  BY DEF IInv, PcTyped, Locals, OpInv, Deletes, Continues
<1>2. CASE Fail
  BY <1>2, FailOp
<1>3. CASE pc = "final" /\ Final /\ ~Fail
  BY <1>3 DEF Final, Get, Finish, OpInv, NoApply, Starts
<1>4. CASE /\ pc \in {"power", "powerwait"} /\ UNCHANGED row
           /\ pc' \in {"power", "powerwait"} \/ (pc' = u.cont /\ pc' \in Continues)
           /\ KeepsPlan /\ KeepsAim /\ KeepsGoal
  <2>1. CASE u.op = "create"
    BY <1>4, <2>1
       DEF OpInv, Starts, Creates, Deletes, Continues, KeepsPlan, KeepsAim, KeepsGoal
  <2>2. CASE u.op = "update"
    BY <1>4, <2>2, UpdateOp DEF Starts, Continues, KeepsPlan
  <2> QED
    BY <1>1, <2>1, <2>2
<1>5. CASE pc = "power" /\ Power /\ ~Fail
  <2>1. u.cont \in Continues
    BY <1>5 DEF IInv, PcTyped, Powering
  <2> QED
    BY <1>4, <1>5, <2>1, PowerDoes DEF GoesOn, Powers, KeepsPlan, KeepsAim, KeepsGoal
<1>6. CASE pc = "powerwait" /\ PowerWait /\ ~Fail
  BY <1>4, <1>6, PowerWaitDoes DEF GoesOn
<1> QED
  BY <1>2, <1>3, <1>5, <1>6

LEMMA WorkOp ==
  ASSUME IInv, OpInv, Step, pc \notin Creates \cup Deletes \cup {"live"}
  PROVE  OpInv'
<1>1. UNCHANGED cfg /\ pc # "idle"
  BY DEF Step, Creates, Deletes
<1>2. u.op = "update"
  BY <1>1, Updates
<1>3. CASE Fail
  BY <1>1, <1>3, FailOp
<1>4. CASE ~Fail
  <2>1. UNCHANGED row /\ KeepsPlan /\ Follows
    BY <1>1, <1>4, StepFollows DEF Starts, Creates, Deletes
  <2>2. /\ pc' \notin Starts \cup {"idle", "restore"}
        /\ pc' \in {"pending", "pendingwait"} => ~u'.first
    BY <2>1 DEF Follows, Starts, AfterResize, AfterRebuild, Creates, Deletes, OpInv
  <2> QED
    BY <1>1, <1>2, <2>1, <2>2, UpdateOp DEF KeepsPlan
<1> QED
  BY <1>3, <1>4

LEMMA NextOp == IInv /\ OpInv /\ [Next]_vars => OpInv'
<1> SUFFICES ASSUME IInv, OpInv, [Next]_vars PROVE OpInv'
  OBVIOUS
<1>1. CASE Step
  <2>1. UNCHANGED cfg
    BY <1>1 DEF Step
  <2> QED
    BY <1>1, <2>1, StartOp, PowerOp, WorkOp DEF Step, Creates, Deletes
<1>2. CASE Apply
  BY <1>2, ApplyDoes
     DEF Begins, KeepsAim, KeepsGoal, OpInv, NoApply, Starts, Creates, Deletes, Changed
<1>3. CASE Read \/ (\E c \in Configs : Edit(c)) \/ Others
  BY <1>3 DEF Read, Edit, Others, OpInv, Starts, NoApply
<1>4. CASE UNCHANGED <<cfg, row, pc, u>>
  BY <1>4 DEF OpInv, Changed
<1> QED
  BY <1>1, <1>2, <1>3, <1>4 DEF Next, NovaWork, vars

-----------------------------------------------------------------------------
(* The work, the owner and the image.                                      *)

LEMMA NextJob == IInv /\ JobFits /\ [Next]_vars => JobFits'
<1> SUFFICES ASSUME IInv, JobFits, [Next]_vars PROVE JobFits'
  OBVIOUS
<1>1. CASE UNCHANGED srv
  BY <1>1 DEF JobFits, Exists
<1>2. CASE Step
  <2>1. CASE IsMade
    BY <2>1 DEF IsMade, JobFits
  <2>2. CASE Asked
    BY <2>2, AskedDoes DEF JobFits, KeepsWork, PowerJobs
  <2> QED
    BY <1>1, <1>2, <2>1, <2>2, StepAsks
<1>3. CASE NovaWork
  BY <1>3, WorkDoes
     DEF JobFits, Builds, PowerDone, Moves, MoveFails, Moved, Confirms, Confirmed,
         Reverted, Writes, PoweredOff, EndsIn
<1>4. CASE Others
  BY <1>4, OutsideDoes DEF JobFits
<1> QED
  BY <1>1, <1>2, <1>3, <1>4 DEF Next, Apply, Read, Edit, vars

\* Nova's own work leaves the owner and the groups alone.
LEMMA WorkPlace ==
  ASSUME IInv, NovaWork, Exists'
  PROVE  KeepsPlace
  BY WorkDoes
     DEF Builds, PowerDone, Moves, MoveFails, Moved, Confirms, Confirmed, Reverted,
         Writes, PoweredOff, EndsIn, KeepsRest, Exists

\* Where the owner is settled: an apply that is past changeInstanceOwner.
Settling == {"idle", "boot", "bootwait", "owner"} \cup Deletes

LEMMA StepOwner ==
  ASSUME IInv, OpInv, OwnerInv, Step
  PROVE  OwnerInv'
<1>1. UNCHANGED cfg
  BY DEF Step
<1>2. CASE pc = "owner"
  <2>1. ChangeOwner
    BY <1>2 DEF Step
  <2>2. u.restore = None
    BY <1>2 DEF OpInv, Starts
  <2>3. Fail => pc' = "idle"
    BY <2>2 DEF Fail, Finish
  <2>4. cfg.owner # None /\ srv' = [srv EXCEPT !.owner = cfg.owner] /\ Exists
          => srv'.owner = cfg.owner
    BY ServerTyped DEF Servers
  <2> QED
    BY <1>1, <2>1, <2>3, <2>4 DEF ChangeOwner, Get, Call, OwnerInv, Exists
<1>3. CASE pc \in Deletes \cup {"boot", "bootwait"}
  <2>1. u.restore = None
    BY <1>3 DEF OpInv, Starts, Deletes
  <2>2. Fail => pc' = "idle"
    BY <2>1 DEF Fail, Finish
  <2>3. pc' \in Settling
    BY <1>3, <2>2, BootDoes
       DEF Step, BootWait, Delete, DeleteWait, Gone, Go, Finish, Call, Settling, Deletes
  <2> QED
    BY <2>3 DEF Settling, OwnerInv
<1>4. CASE pc \notin Settling
  <2>1. Exists' => Exists /\ srv'.owner = srv.owner
    BY <1>4, StepAsks, AskedDoes DEF Settling, Deletes, KeepsRest, KeepsPlace, Exists
  <2> QED
    BY <1>1, <1>4, <2>1 DEF Settling, OwnerInv
<1> QED
  BY <1>2, <1>3, <1>4 DEF Settling, Step

LEMMA NextOwner == IInv /\ OpInv /\ OwnerInv /\ [Next]_vars => OwnerInv'
<1> SUFFICES ASSUME IInv, OpInv, OwnerInv, [Next]_vars PROVE OwnerInv'
  OBVIOUS
<1>1. CASE NovaWork
  BY <1>1, WorkDoes, WorkPlace DEF OwnerInv, KeepsPlace
<1>2. CASE Apply \/ (\E c \in Configs : Edit(c)) \/ Others
  <2>1. pc' \in {"idle", "boot", "owner"} \cup Deletes
    BY <1>2, ApplyDoes, OutsideDoes DEF Edit, Deletes
  <2> QED
    BY <2>1 DEF OwnerInv
<1>3. CASE UNCHANGED <<srv, cfg, pc>>
  BY <1>3 DEF OwnerInv, Exists
<1> QED
  BY <1>1, <1>2, <1>3, StepOwner DEF Next, Read, vars

-----------------------------------------------------------------------------
(* The image.                                                              *)

\* What a plan shows of a flavor or an image is a difference.
LEMMA PlannedChange ==
  ASSUME IInv, OpInv, u.op = "update"
  PROVE  /\ "image" \in u.changed => row.image # cfg.image
         /\ "flavor" \in u.changed => row.flavor # cfg.flavor
  BY DEF OpInv, Changed

\* Nova's work writes an image only in a rebuild.
LEMMA WorkImage ==
  ASSUME IInv, NovaWork, Exists', srv.job # "rebuild"
  PROVE  srv'.image = srv.image /\ srv'.job # "rebuild"
  BY WorkDoes
     DEF Builds, PowerDone, PowerJobs, Moves, MoveFails, Moved, Confirms, Confirmed,
         Reverted, Writes, PoweredOff, EndsIn, KeepsRest, Exists

\* A request keeps the image unless it is the rebuild.
LEMMA AskedImage ==
  ASSUME IInv, Asked, pc # "reimage"
  PROVE  /\ Exists /\ (pc # "revert" => srv'.image = srv.image)
         /\ srv.job # "rebuild" => srv'.job # "rebuild"
  BY AskedDoes DEF KeepsWork, KeepsRest, PowerJobs

LEMMA StepImage ==
  ASSUME IInv, OpInv, ImageInv, Step
  PROVE  ImageInv'
<1>1. UNCHANGED cfg
  BY DEF Step
<1> SUFFICES ASSUME Exists', u'.op = "update", "image" \in u'.changed, Rebuilt'
             PROVE  srv'.job # "rebuild" /\ (srv'.image = cfg.image \/ u'.unconfirmed)
  BY <1>1 DEF ImageInv
<1>2. ~Fail
  BY FailDoes
     DEF FailsOver, FailsFinally, GoesOn, NoApply, Rebuilt, PowersLast, Swapping,
         Resizes
<1>3. CASE pc = "rebuild"
  <2>1. Rebuild /\ u.op = "update"
    BY <1>3, Updates DEF Step, Creates, Deletes
  <2>2. u'.op = u.op /\ u'.changed = u.changed
    BY <1>2, <2>1, RebuildDoes DEF KeepsPlan
  <2>3. row.image # cfg.image
    BY <2>1, <2>2, PlannedChange
  <2>4. pc' # "reimage"
    BY DEF Rebuilt, PowersLast, Swapping, Resizes
  <2> QED
    BY <1>2, <2>1, <2>3, <2>4, RebuildDoes
       DEF Rebuildable, NoTask, HoldsImage, GoesOn, Exists
<1>4. CASE pc = "rebuildwait"
  <2>1. RebuildWait
    BY <1>4 DEF Step
  <2> QED
    BY <1>2, <2>1, RebuildWaitDoes DEF Settled, NoTask, RebuiltRight, Exists
<1>5. CASE pc \in Starts \cup {"final"}
  <2>1. pc = "strip" => u.op = "create"
    BY DEF OpInv, IInv, PcTyped, Locals, Deletes
  <2>2. Begun
    BY <1>2, <1>5, StepBegins
  <2>3. pc' \in Starts \cup {"idle", "pending", "target", "rebuild"}
    BY <2>1, <2>2 DEF Begun, KeepsPlan
  <2>4. pc' = "target" => ~u'.first
    BY <1>5, <2>2, <2>3 DEF Begun, Starts, OpInv
  <2> QED
    BY <2>3, <2>4 DEF Rebuilt, PowersLast, Swapping, Resizes, Starts
<1>6. CASE pc \notin Starts \cup {"final", "rebuild", "rebuildwait"}
  <2>1. KeepsPlan /\ KeepsImage /\ Follows
    BY <1>2, <1>6, StepFollows
  <2>2. Rebuilt /\ pc \notin {"reimage", "revert"}
    BY <1>6, <2>1
       DEF Rebuilt, Follows, KeepsPlan, KeepsGoal, PowersLast, Swapping, Resizes,
           AfterResize, OpInv
  <2>3. Exists /\ srv'.image = srv.image /\ (srv.job # "rebuild" => srv'.job # "rebuild")
    BY <1>6, <2>2, StepAsks, AskedImage DEF Exists, Starts
  <2> QED
    BY <2>1, <2>2, <2>3 DEF ImageInv, KeepsPlan, KeepsImage
<1> QED
  BY <1>3, <1>4, <1>5, <1>6

LEMMA NextImage == IInv /\ OpInv /\ ImageInv /\ [Next]_vars => ImageInv'
<1> SUFFICES ASSUME IInv, OpInv, ImageInv, [Next]_vars PROVE ImageInv'
  OBVIOUS
<1>1. CASE NovaWork
  <2> SUFFICES ASSUME Exists', u.op = "update", "image" \in u.changed, Rebuilt
               PROVE  srv'.job # "rebuild" /\ (srv'.image = cfg.image \/ u.unconfirmed)
    BY <1>1, WorkDoes DEF ImageInv, Rebuilt, PowersLast, Swapping, Resizes
  <2> QED
    BY <1>1, WorkDoes, WorkImage DEF ImageInv
<1>2. CASE Apply \/ (\E c \in Configs : Edit(c)) \/ Others
  <2>1. pc' \in Starts \cup {"idle"}
    BY <1>2, ApplyDoes, OutsideDoes DEF Edit, Starts
  <2>2. pc' # "idle" => u'.first = u.first /\ pc = "idle"
    BY <1>2, ApplyDoes, OutsideDoes DEF Edit, Begins
  <2> QED
    BY <2>1, <2>2 DEF ImageInv, Rebuilt, Starts, PowersLast, Swapping, Resizes
<1>3. CASE UNCHANGED <<srv, cfg, pc, u>>
  BY <1>3 DEF ImageInv, Rebuilt, PowersLast, Swapping, Resizes, Exists
<1> QED
  BY <1>1, <1>2, <1>3, StepImage DEF Next, Read, vars

LEMMA NextErase == IInv /\ OpInv /\ JobFits /\ EraseInv /\ [Next]_vars => EraseInv'
<1> SUFFICES ASSUME IInv, OpInv, JobFits, EraseInv, [Next]_vars, pc' = "reimage"
             PROVE  /\ Exists' /\ NoTask'
                    /\ VolumeBacked' =>
                          u'.unread \/ srv'.image # cfg'.image \/ srv'.status = "ERROR"
  BY DEF EraseInv
<1>1. CASE Step
  <2>1. pc \notin Starts \cup {"final"} /\ ~Fail
    BY <1>1, StepBegins, FailDoes
       DEF Begun, Starts, FailsOver, FailsFinally, GoesOn
  <2>2. pc = "rebuild"
    BY <1>1, <2>1, StepFollows DEF Follows, AfterResize, AfterRebuild, Continues
  <2>3. Rebuild /\ UNCHANGED <<cfg, cloud>>
    BY <1>1, <2>2 DEF Step
  <2> QED
    BY <2>1, <2>3, RebuildDoes
       DEF GoesOn, AfterRebuild, Rebuildable, HoldsImage, NoTask, Exists, VolumeBacked
<1>2. CASE NovaWork
  <2>1. pc = "reimage" /\ UNCHANGED <<cfg, cloud, u>>
    BY <1>2 DEF NovaWork
  <2>2. Exists /\ NoTask
    BY <2>1 DEF EraseInv
  <2>3. Exists' /\ NoTask' /\ srv'.image = srv.image
    BY <1>2, <2>2, WorkDoes
       DEF NoTask, Builds, PowerDone, PowerJobs, Moves, MoveFails, Moved, Confirms,
           Confirmed, Reverted, Writes, PoweredOff, EndsIn, KeepsRest
  <2>4. srv.status = "ERROR" => srv'.status = "ERROR"
    BY <1>2, <2>2, WorkDoes
       DEF JobFits, NoTask, Builds, PowerDone, PowerJobs, Moves, MoveFails, Moved,
           Confirms, Confirmed, Reverted, Writes, PoweredOff
  <2> QED
    BY <2>1, <2>3, <2>4 DEF EraseInv, VolumeBacked
<1>3. CASE Apply \/ (\E c \in Configs : Edit(c)) \/ Others
  BY <1>3, ApplyDoes, OutsideDoes DEF Edit
<1>4. CASE UNCHANGED <<srv, cfg, cloud, pc, u>>
  BY <1>4 DEF EraseInv, VolumeBacked, NoTask, Exists
<1> QED
  BY <1>1, <1>2, <1>3, <1>4 DEF Next, Read, vars

-----------------------------------------------------------------------------
(* The groups.                                                             *)

\* A request keeps the groups unless it is one of theirs.
LEMMA AskedPlace ==
  ASSUME IInv, Asked, pc \notin {"owner", "strip", "groups"}
  PROVE  Exists /\ KeepsPlace
  BY AskedDoes DEF KeepsRest

\* The labels ExactInv says nothing of.
LEMMA AwayExact ==
  ASSUME pc' \in {"idle", "restore", "boot", "owner", "live", "delete", "gonewait"},
         pc' = "owner" => u'.op # "create"
  PROVE  ExactInv'
  BY DEF ExactInv, HasRead, Swapping, Resizes, Resized, PowersLast, Rebuilds

LEMMA FailExact ==
  ASSUME IInv, Fail
  PROVE  ExactInv'
  BY FailDoes, AwayExact DEF FailsOver, FailsFinally, GoesOn

\* From the boot to the live read.
LEMMA StartExact ==
  ASSUME IInv, OpInv, ExactInv, Step, ~Fail, pc \in Starts \cup {"final"}
  PROVE  ExactInv'
<1>1. UNCHANGED cfg /\ Begun
  BY StepBegins
<1>2. u.op \in {"none", "create", "update", "delete"}
  BY DEF IInv, PcTyped, Locals
<1>3. CASE pc = "boot" /\ Boot
  <2>1. CASE pc' = "idle" /\ u' = NoApply
    BY <2>1 DEF ExactInv, HasRead, Swapping, Resizes, Resized, PowersLast, Rebuilds, NoApply
  <2>2. CASE pc' = "bootwait" /\ UNCHANGED u /\ IsMade
    BY <1>1, <2>2
       DEF IsMade, ExactInv, HasRead, Swapping, Resizes, Resized, PowersLast, Rebuilds
  <2> QED
    BY <1>3, <2>1, <2>2, BootDoes
<1>4. CASE pc = "bootwait" /\ BootWait
  BY <1>1, <1>4, BootWaitDoes
     DEF ExactInv, KeepsPlan, HasRead, Swapping, Resizes, Resized, PowersLast, Rebuilds,
         Exists
<1>5. CASE pc = "owner" /\ ChangeOwner
  <2>1. Exists' => Exists /\ srv'.groups = srv.groups
    BY <1>5, StepAsks, AskedDoes DEF Exists
  <2>2. /\ UNCHANGED u
        /\ pc' = IF u.op = "create" THEN "strip" ELSE "live"
    BY <1>5 DEF ChangeOwner, Get, Call, Go
  <2> QED
    BY <1>1, <1>5, <2>1, <2>2
       DEF ExactInv, HasRead, Swapping, Resizes, Resized, PowersLast, Rebuilds
<1>6. CASE pc = "strip" /\ Strip
  <2>1. u.op = "create"
    BY <1>2, <1>6 DEF OpInv, Deletes
  <2>2. CASE pc' = "strip"
    BY <1>1, <1>6, <2>2, StripDoes
       DEF ExactInv, GoesOn, HasRead, Swapping, Resizes, Resized, PowersLast, Rebuilds
  <2>3. CASE pc' # "strip"
    BY <1>1, <1>6, <2>1, <2>3, StripDoes
       DEF ExactInv, GoesOn, HasRead, Swapping, Resizes, Resized, PowersLast, Rebuilds
  <2> QED
    BY <2>2, <2>3
<1>7. CASE pc = "live" /\ Live
  BY <1>1, <1>7, LiveDoes
     DEF ExactInv, GoesOn, Reads, HasRead, Swapping, Resizes, Resized, PowersLast,
         Rebuilds, Exists
<1>8. CASE pc \in {"delete", "gonewait", "final"}
  <2>1. pc' \in {"boot", "gonewait", "idle"}
    BY <1>8 DEF Step, Delete, DeleteWait, Gone, Final, Finish, Get, Call, Go
  <2> QED
    BY <2>1, AwayExact
<1> QED
  BY <1>3, <1>4, <1>5, <1>6, <1>7, <1>8 DEF Step, Starts

\* Update reads the groups and makes them the configured ones.
LEMMA SwapExact ==
  ASSUME IInv, ExactInv, UNCHANGED cfg, ~Fail,
         \/ pc = "pendingwait" /\ PendingWait
         \/ pc = "target" /\ Target
         \/ pc = "groups" /\ SwapGroups
  PROVE  ExactInv'
<1> SUFFICES ASSUME Exists', cfg.groups # None PROVE ExactInv'
  BY DEF ExactInv
<1>1. CASE pc = "pendingwait" /\ PendingWait
  BY <1>1, PendingWaitDoes
     DEF ExactInv, GoesOn, HasRead, Swapping, Resizes, Resized, PowersLast, Rebuilds
<1>2. CASE pc = "target" /\ Target
  <2>1. u.have = srv.groups
    BY <1>2, TargetDoes DEF ExactInv, HasRead, Exists
  <2> QED
    BY <1>2, <2>1, TargetDoes
       DEF ExactInv, GoesOn, Add, Remove, HasRead, Swapping, Resizes, Resized,
           PowersLast, Rebuilds
<1>3. CASE pc = "groups" /\ SwapGroups
  <2>1. ASSUME Exists
        PROVE  /\ cfg.groups \subseteq srv.groups \cup u.add
               /\ srv.groups \subseteq cfg.groups \cup u.remove
               /\ u.add \subseteq cfg.groups /\ u.remove \cap cfg.groups = {}
    BY <1>3, <2>1 DEF ExactInv, Swapping
  <2>2. CASE \E g \in u.add : Adds(g)
    <3>1. PICK g \in u.add : Adds(g)
      BY <2>2
    <3>2. srv'.groups = srv.groups \cup {g}
      BY <3>1, ServerTyped DEF Adds, Servers
    <3> QED
      BY <2>1, <3>1, <3>2
         DEF ExactInv, Adds, GoesOn, HasRead, Swapping, Resizes, Resized, PowersLast,
             Rebuilds
  <2>3. CASE \E g \in u.remove : u.add = {} /\ Removes(g)
    <3>1. PICK g \in u.remove : u.add = {} /\ Removes(g)
      BY <2>3
    <3>2. Exists /\ srv'.groups = srv.groups \ {g}
      BY <3>1, ServerTyped DEF Removes, Servers, Exists
    <3> QED
      BY <2>1, <3>1, <3>2
         DEF ExactInv, Removes, GoesOn, HasRead, Swapping, Resizes, Resized, PowersLast,
             Rebuilds
  <2>4. CASE u.add = {} /\ u.remove = {} /\ UNCHANGED <<srv, u>> /\ GoesOn("resize")
    BY <2>1, <2>4
       DEF ExactInv, GoesOn, HasRead, Swapping, Resizes, Resized, PowersLast, Rebuilds,
           Exists
  <2> QED
    BY <1>3, <2>2, <2>3, <2>4, SwapDoes
<1> QED
  BY <1>1, <1>2, <1>3

\* Every other step leaves them alone.
LEMMA StepExact ==
  ASSUME IInv, OpInv, ExactInv, Step
  PROVE  ExactInv'
<1>1. UNCHANGED cfg
  BY DEF Step
<1>2. CASE pc \in {"pendingwait", "target", "groups"} /\ ~Fail
  BY <1>1, <1>2, SwapExact DEF Step
<1>3. CASE pc \notin Starts \cup {"final", "pendingwait", "target", "groups"} /\ ~Fail
  <2>1. KeepsPlan /\ KeepsGroups /\ Follows
    BY <1>3, StepFollows
  <2>2. Exists' => Exists /\ srv'.groups = srv.groups
    BY <1>3, StepAsks, AskedPlace DEF Starts, KeepsPlace, Exists
  <2>3. pc' \notin {"bootwait", "owner", "strip"}
    BY <2>1 DEF Follows, AfterResize, AfterRebuild
  <2>4. HasRead' => HasRead
    BY <1>3, <2>1 DEF Follows, HasRead, KeepsPlan, AfterResize, AfterRebuild
  <2>5. Swapping' => Swapping
    BY <1>3, <2>1 DEF Follows, Swapping, KeepsGoal, AfterResize, AfterRebuild, OpInv
  <2>6. (pc = "resize" \/ Resizes \/ Resized)' => pc = "resize" \/ Resizes \/ Resized
    BY <1>3, <2>1
       DEF Follows, Resizes, Resized, PowersLast, Rebuilds, KeepsPlan, KeepsGoal,
           AfterResize, AfterRebuild, OpInv
  <2> QED
    BY <1>1, <2>1, <2>2, <2>3, <2>4, <2>5, <2>6 DEF ExactInv, KeepsGroups
<1> QED
  BY <1>2, <1>3, FailExact, StartExact

LEMMA NextExact == IInv /\ OpInv /\ ExactInv /\ [Next]_vars => ExactInv'
<1> SUFFICES ASSUME IInv, OpInv, ExactInv, [Next]_vars PROVE ExactInv'
  OBVIOUS
<1>1. CASE NovaWork
  BY <1>1, WorkDoes, WorkPlace
     DEF ExactInv, HasRead, Swapping, Resizes, Resized, PowersLast, Rebuilds, KeepsPlace
<1>2. CASE Apply \/ (\E c \in Configs : Edit(c)) \/ Others
  BY <1>2, ApplyDoes, OutsideDoes, AwayExact DEF Edit, Begins
<1>3. CASE UNCHANGED <<srv, cfg, pc, u>>
  BY <1>3
     DEF ExactInv, HasRead, Swapping, Resizes, Resized, PowersLast, Rebuilds, Exists
<1> QED
  BY <1>1, <1>2, <1>3, StepExact DEF Next, Read, vars

-----------------------------------------------------------------------------
(* The flavor.                                                             *)

\* FlavorInv, in its parts.
NewFlavor == u.op = "update" /\ "flavor" \in u.changed /\ u.was # None
BeforeMove == HasRead \/ Swapping
OnWay == NoMove /\ (u.resizing \/ srv.flavor = cfg.flavor)
MoveDone == NoMove /\ srv.flavor = cfg.flavor
OnTheMove ==
    /\ srv.job # "revert"
    /\ srv.job = "resize" => srv.other = cfg.flavor /\ srv.status # "VERIFY_RESIZE"
    /\ srv.job = "finish_resize" \/ srv.status = "VERIFY_RESIZE" => srv.flavor = cfg.flavor

\* The labels FlavorInv says nothing of.
LEMMA AwayFlavor ==
  ASSUME pc' \in Starts \cup {"idle", "restore", "revert", "revertwait"}
  PROVE  FlavorInv'
  BY DEF FlavorInv, HasRead, Swapping, Resized, PowersLast, Rebuilds, Starts

LEMMA FailFlavor ==
  ASSUME IInv, Fail
  PROVE  FlavorInv'
  BY FailDoes, AwayFlavor DEF FailsOver, FailsFinally, GoesOn

\* A request keeps the flavor, and starts no resize, unless it is one's.
LEMMA AskedFlavor ==
  ASSUME IInv, Asked, pc \notin {"resize", "revert"}
  PROVE  Exists /\ srv'.flavor = srv.flavor /\ (NoMove => NoMove')
  BY AskedDoes DEF KeepsWork, KeepsRest, KeepsFlavor, NoMove, PowerJobs

\* A flavor changes at the end of a resize or of a revert only.
LEMMA WorkFlavor ==
  ASSUME IInv, NovaWork, Exists', NoMove
  PROVE  NoMove' /\ srv'.flavor = srv.flavor
  BY WorkDoes
     DEF NoMove, Builds, PowerDone, Moves, MoveFails, Moved, Confirms, Confirmed,
         Reverted, Writes, PoweredOff, EndsIn, KeepsRest, KeepsFlavor, Exists

\* The work of a resize, while Update waits for it.
LEMMA WorkMoves ==
  ASSUME IInv, NovaWork, JobFits, Exists', OnTheMove
  PROVE  OnTheMove'
<1>1. UNCHANGED cfg /\ Exists
  BY WorkDoes
<1>2. srv.job # "revert" /\ (srv.job # "resize" => srv'.job # "resize")
  BY WorkDoes
     DEF OnTheMove, Builds, PowerDone, PowerJobs, Moves, MoveFails, Moved, Confirms,
         Confirmed, Reverted, Writes, PoweredOff, EndsIn
<1>3. CASE srv.job = "resize"
  <2>1. srv.back # "VERIFY_RESIZE"
    BY <1>1, ServerTyped DEF Steady
  <2> QED
    BY <1>1, <1>3, <2>1, WorkDoes
       DEF OnTheMove, Builds, PowerDone, PowerJobs, Moves, MoveFails, Moved, Confirms,
           Confirmed, Reverted, Writes, PoweredOff, EndsIn
<1>4. CASE srv.job # "resize"
  <2>1. srv'.flavor = srv.flavor
    BY <1>2, <1>4, WorkFlavor DEF NoMove
  <2>2. srv'.job \notin {"revert", "finish_resize"} /\ srv'.job # "resize"
    BY <1>2, <1>4, WorkDoes
       DEF Builds, PowerDone, PowerJobs, Moves, MoveFails, Moved, Confirms, Confirmed,
           Reverted, Writes, PoweredOff, EndsIn
  <2>3. srv'.status = "VERIFY_RESIZE" =>
          srv.job = "finish_resize" \/ srv.status = "VERIFY_RESIZE"
    BY <1>2, <1>4, WorkDoes, ServerTyped, PowerEnds, <1>1
       DEF Builds, PowerDone, Moves, MoveFails, Moved, Confirms, Confirmed, Reverted,
           Writes, PoweredOff, EndsIn, Steady
  <2> QED
    BY <1>1, <2>1, <2>2, <2>3 DEF OnTheMove
<1> QED
  BY <1>3, <1>4

\* The resize and its confirmation.
LEMMA MoveFlavor ==
  ASSUME IInv, FlavorInv, Step, ~Fail, u.op = "update", u.first => ~Rebuilds,
         pc \in {"resize", "resizewait", "confirm", "confirmwait"}
  PROVE  FlavorInv'
<1>1. UNCHANGED cfg /\ KeepsPlan
  BY StepFollows DEF Starts
<1>2. CASE pc = "resize" /\ Resize
  <2>1. CASE ~u.resizing /\ UNCHANGED <<srv, u>> /\ GoesOn(AfterResize)
    BY <1>1, <1>2, <2>1
       DEF FlavorInv, GoesOn, AfterResize, HasRead, Swapping, Resized, PowersLast,
           Rebuilds, NoMove, Exists
  <2>2. CASE /\ Accepts({"ACTIVE", "SHUTOFF"}) /\ srv' = Resizing(cfg.flavor)
             /\ GoesOn("resizewait")
    <3>1. srv'.job = "resize" /\ srv'.other = cfg.flavor /\ srv'.status = "RESIZE"
      BY <2>2, ResizingDoes DEF Accepts, Idle, Steady
    <3> QED
      BY <1>1, <2>2, <3>1
         DEF FlavorInv, GoesOn, HasRead, Swapping, Resized, PowersLast, Rebuilds
  <2> QED
    BY <1>2, <2>1, <2>2, ResizeDoes
<1>3. CASE pc = "resizewait" /\ ResizeWait
  <2>1. UNCHANGED <<srv, u>>
    BY <1>3 DEF ResizeWait, Wait, Go
  <2>2. CASE pc' \in {"confirm", AfterResize}
    <3>2. /\ Exists /\ NoTask
          /\ pc' = "confirm" => srv.status = "VERIFY_RESIZE"
          /\ pc' # "confirm" => srv.flavor = cfg.flavor
      BY <1>3, <2>2 DEF ResizeWait, Wait, Settled, Go, AfterResize
    <3>3. NoMove /\ srv.flavor = cfg.flavor
      BY <1>3, <3>2 DEF FlavorInv, NoTask, NoMove
    <3> QED
      BY <1>1, <2>1, <2>2, <3>3
         DEF FlavorInv, AfterResize, HasRead, Swapping, Resized, PowersLast, Rebuilds,
             NoMove
  <2>3. CASE pc' = "revert"
    BY <2>3, AwayFlavor
  <2> QED
    BY <1>3, <2>2, <2>3 DEF ResizeWait, Wait, Go
<1>4. CASE pc = "confirm" /\ Confirm
  <2>1. CASE pc' = "revert"
    BY <2>1, AwayFlavor
  <2>2. CASE pc' = "confirmwait" /\ srv' = Working("confirm") /\ Exists
    <3>1. srv'.job = "confirm" /\ srv'.flavor = srv.flavor
      BY <2>2, WorkingDoes DEF Jobs, KeepsRest, KeepsFlavor
    <3> QED
      BY <1>1, <1>4, <2>2, <3>1
         DEF FlavorInv, HasRead, Swapping, Resized, PowersLast, Rebuilds, NoMove
  <2> QED
    BY <1>4, <2>1, <2>2 DEF Confirm, Call, Go, Accepts, Idle
<1>5. CASE pc = "confirmwait" /\ ConfirmWait
  <2>1. UNCHANGED <<srv, u>> /\ pc' = AfterResize
    BY <1>5 DEF ConfirmWait, Wait, Go
  <2> QED
    BY <1>1, <1>5, <2>1
       DEF FlavorInv, AfterResize, HasRead, Swapping, Resized, PowersLast, Rebuilds,
           NoMove, Exists
<1> QED
  BY <1>2, <1>3, <1>4, <1>5 DEF Step

\* From the boot to the live read.
LEMMA StartFlavor ==
  ASSUME IInv, OpInv, Step, ~Fail, pc \in Starts \cup {"final"}
  PROVE  FlavorInv'
<1>1. UNCHANGED cfg /\ Begun
  BY StepBegins
<1>2. u.op \in {"none", "create", "update", "delete"}
  BY DEF IInv, PcTyped, Locals
<1>3. CASE pc' \in Starts \cup {"idle"}
  BY <1>3, AwayFlavor
<1>4. CASE pc = "strip" /\ pc' \in {"final", "power"}
  <2>1. u'.op = "create"
    BY <1>1, <1>2, <1>4 DEF OpInv, Deletes, Begun, KeepsPlan, Starts
  <2> QED
    BY <1>4, <2>1 DEF FlavorInv
<1>5. CASE pc = "live" /\ Live /\ pc' \in {"pending", "target", "rebuild"}
  <2>1. UNCHANGED srv /\ Reads /\ (pc' = "rebuild" => u'.first)
    BY <1>1, <1>5, LiveDoes DEF GoesOn
  <2>2. "flavor" \in u.changed => row.flavor # cfg.flavor
    BY <1>5, Updates DEF Creates, Deletes, Changed
  <2>3. Was # None => srv.job = ""
    BY DEF Was, Idle
  <2> QED
    BY <1>1, <1>5, <2>1, <2>2, <2>3
       DEF FlavorInv, Reads, Differs, HasRead, Swapping, Resized, PowersLast, Rebuilds,
           NoMove
<1> QED
  BY <1>1, <1>3, <1>4, <1>5 DEF Step, Begun, Starts

\* The other steps leave the flavor alone.
LEMMA StepFlavor ==
  ASSUME IInv, OpInv, FlavorInv, Step
  PROVE  FlavorInv'
<1>1. UNCHANGED cfg
  BY DEF Step
<1>2. CASE pc \in {"resize", "resizewait", "confirm", "confirmwait"} /\ ~Fail
  BY <1>2, MoveFlavor, Updates DEF Creates, Deletes, Rebuilds
<1>3. CASE pc \in {"revert", "revertwait"} /\ ~Fail
  <2>1. pc' = "revertwait"
    BY <1>3, StepFollows DEF Starts, Follows
  <2> QED
    BY <2>1, AwayFlavor
<1>4. CASE /\ pc \notin Starts \cup {"final", "resize", "resizewait", "confirm",
                                     "confirmwait", "revert", "revertwait"}
           /\ ~Fail
  <2>1. KeepsPlan /\ Follows
    BY <1>4, StepFollows
  <2>2. Exists' => Exists /\ srv'.flavor = srv.flavor /\ (NoMove => NoMove')
    BY <1>4, StepAsks, AskedFlavor DEF Starts, Exists, NoMove
  <2>3. BeforeMove' => BeforeMove
    BY <1>4, <2>1
       DEF Follows, BeforeMove, HasRead, Swapping, KeepsPlan, KeepsGoal, AfterRebuild,
           OpInv
  <2>4. Resized' => Resized
    BY <1>4, <2>1
       DEF Follows, Resized, PowersLast, Rebuilds, KeepsPlan, KeepsGoal, AfterRebuild,
           OpInv
  <2>5. u'.resizing = u.resizing /\ pc' \notin {"resizewait", "confirm", "confirmwait"}
    BY <1>4, <2>1 DEF Follows, KeepsMove, AfterRebuild
  <2> QED
    BY <1>1, <2>1, <2>2, <2>3, <2>4, <2>5
       DEF FlavorInv, NewFlavor, BeforeMove, OnWay, MoveDone, KeepsPlan
<1> QED
  BY <1>2, <1>3, <1>4, FailFlavor, StartFlavor

LEMMA NextFlavor == IInv /\ OpInv /\ JobFits /\ FlavorInv /\ [Next]_vars => FlavorInv'
<1> SUFFICES ASSUME IInv, OpInv, JobFits, FlavorInv, [Next]_vars PROVE FlavorInv'
  OBVIOUS
<1>1. CASE NovaWork
  <2> SUFFICES ASSUME Exists' PROVE FlavorInv'
    BY DEF FlavorInv
  <2>1. UNCHANGED <<cfg, pc, u>> /\ Exists
    BY <1>1, WorkDoes
  <2>2. NoMove => NoMove' /\ srv'.flavor = srv.flavor
    BY <1>1, WorkFlavor
  <2>3. OnTheMove => OnTheMove'
    BY <1>1, WorkMoves
  <2>4. NewFlavor' = NewFlavor /\ BeforeMove' = BeforeMove /\ Resized' = Resized
    BY <2>1 DEF NewFlavor, BeforeMove, HasRead, Swapping, Resized, PowersLast, Rebuilds
  <2> QED
    BY <2>1, <2>2, <2>3, <2>4
       DEF FlavorInv, NewFlavor, BeforeMove, OnWay, MoveDone, OnTheMove
<1>2. CASE Apply \/ (\E c \in Configs : Edit(c)) \/ Others
  BY <1>2, ApplyDoes, OutsideDoes, AwayFlavor DEF Edit, Starts
<1>3. CASE UNCHANGED <<srv, cfg, pc, u>>
  BY <1>3
     DEF FlavorInv, HasRead, Swapping, Resized, PowersLast, Rebuilds, NoMove, Exists
<1> QED
  BY <1>1, <1>2, <1>3, StepFlavor DEF Next, Read, vars

-----------------------------------------------------------------------------
(* The power state.                                                        *)

\* An apply that answers for a power state has one to answer for.
LEMMA DueSteady ==
  ASSUME IInv, Answers
  PROVE  Due \in Steady /\ Due # None
  BY ConfigTyped, NoneAssumption, SteadyStatuses
     DEF IInv, CfgTyped, Answers, Due, Steady

LEMMA SameDue ==
  ASSUME UNCHANGED cfg, KeepsPlan
  PROVE  Due' = Due /\ Answers' = Answers
  BY DEF KeepsPlan, Due, Answers

\* The labels Powered says nothing of.
Unpowered == {"idle", "boot", "live", "delete", "gonewait", "pending", "pendingwait",
              "revert", "revertwait", "restore"}

LEMMA AwayPowered ==
  ASSUME pc' \in Unpowered
  PROVE  Powered'
  BY DEF Unpowered, Powered, PowersFirst, PowersLast, Resizes

\* The update and the first rebuild of a server that was not at rest answer for none.
LEMMA Answering ==
  ASSUME IInv, OpInv, PowerInv, Answers
  PROVE  /\ pc \in Starts => u.op = "create"
         /\ pc \notin Creates \cup Deletes \cup {"idle"} => ~u.first
         /\ pc \notin {"pending", "pendingwait"}
<1>1. None \notin Steady
  BY NoneAssumption, SteadyStatuses
<1> QED
  BY <1>1, Updates DEF Answers, PowerInv, OpInv, Creates, Deletes

\* From the boot to the live read, or to the power step of a create.
LEMMA StartPowered ==
  ASSUME IInv, OpInv, OpInv', Step, ~Fail, pc \in Starts \cup {"final"}, Exists', Answers',
         Exists /\ Answers => Powered
  PROVE  Powered'
<1>1. UNCHANGED cfg /\ Begun
  BY StepBegins
<1>2. u.op \in {"none", "create", "update", "delete"} /\ None \notin Steady
  BY NoneAssumption, SteadyStatuses DEF IInv, PcTyped, Locals
<1>3. CASE pc = "boot" /\ Boot
  <2>1. pc' = "idle" \/ (pc' = "bootwait" /\ srv'.job = "build" /\ srv'.status = "BUILD")
    BY <1>3, BootDoes DEF IsMade
  <2> QED
    BY <2>1 DEF Powered, PowersFirst, PowersLast, Resizes
<1>4. CASE pc = "bootwait" /\ BootWait
  <2>1. /\ UNCHANGED srv /\ pc' = "owner" /\ Exists /\ srv.status = "ACTIVE"
        /\ KeepsPlan /\ u'.status = "ACTIVE"
    BY <1>4, BootWaitDoes
  <2>2. srv.job = ""
    BY <1>1, <1>4, <2>1, SameDue DEF Powered
  <2> QED
    BY <2>1, <2>2 DEF Powered, AtRest, Steady, PowersFirst, PowersLast, Resizes
<1>5. CASE pc = "owner" /\ ChangeOwner
  <2>1. /\ UNCHANGED u /\ pc' \in {"strip", "live"}
        /\ Exists /\ srv'.job = srv.job /\ srv'.status = srv.status
    BY <1>5, StepAsks, AskedDoes DEF ChangeOwner, Get, Call, Go, KeepsWork, Exists
  <2>2. AtRest /\ u.status = "ACTIVE"
    BY <1>1, <1>5, <2>1, SameDue DEF Powered, KeepsPlan
  <2> QED
    BY <2>1, <2>2 DEF Powered, AtRest, PowersFirst, PowersLast, Resizes
<1>6. CASE pc = "strip" /\ Strip
  <2>1. u.op = "create"
    BY <1>2, <1>6 DEF OpInv, Deletes
  <2>2. Exists /\ AtRest /\ u.status = "ACTIVE"
    BY <1>6, <2>1, StripDoes DEF Powered, Answers
  <2>3. CASE pc' = "strip"
    <3>1. UNCHANGED u /\ srv'.job = srv.job /\ srv'.status = srv.status
      BY <1>6, <2>3, StripDoes, ServerTyped, <2>2 DEF GoesOn, Servers
    <3> QED
      BY <2>2, <2>3, <3>1 DEF Powered, AtRest, PowersFirst, PowersLast, Resizes
  <2>4. CASE pc' = "final"
    <3>1. UNCHANGED <<u, srv>> /\ cfg.power \in {None, "ACTIVE"}
      BY <1>6, <2>4, StripDoes DEF GoesOn
    <3>2. Due = "ACTIVE" /\ Due' = "ACTIVE"
      BY <1>1, <2>1, <3>1 DEF Due
    <3> QED
      BY <2>2, <2>4, <3>1, <3>2 DEF Powered, AtRest, PowersFirst, PowersLast, Resizes
  <2>5. CASE pc' = "power"
    <3>1. /\ UNCHANGED srv /\ cfg.power \notin {None, "ACTIVE"} /\ KeepsPlan
          /\ u'.status = srv.status /\ u'.goal = cfg.power /\ u'.cont = "final"
      BY <1>6, <2>5, StripDoes DEF GoesOn
    <3>2. Due' = u'.goal
      BY <1>1, <3>1 DEF Due
    <3> QED
      BY <2>2, <2>5, <3>1, <3>2 DEF Powered, AtRest, PowersFirst, PowersLast, Resizes
  <2> QED
    BY <1>6, <2>3, <2>4, <2>5, StripDoes DEF GoesOn
<1>7. CASE pc = "live" /\ Live
  <2>1. u.op = "update"
    BY <1>7, Updates DEF Creates, Deletes
  <2>2. UNCHANGED srv /\ Reads /\ (pc' # "target" => ~Answers')
    BY <1>2, <1>7, <2>1, LiveDoes DEF GoesOn, Reads, Answers, Was, Steady
  <2>3. pc' = "target" /\ Was \in Steady
    BY <1>7, <2>1, <2>2, LiveDoes DEF GoesOn, Reads, Answers
  <2>4. srv.job = "" /\ srv.status \in Steady /\ Was = srv.status
    BY <1>2, <2>3 DEF Was, Idle
  <2> QED
    BY <2>2, <2>3, <2>4 DEF Reads, Powered, AtRest, PowersFirst, PowersLast, Resizes
<1>8. CASE pc \in {"delete", "gonewait", "final"}
  <2>1. pc' \in {"boot", "gonewait", "idle"}
    BY <1>8 DEF Step, Delete, DeleteWait, Gone, Final, Finish, Get, Call, Go
  <2> QED
    BY <2>1, AwayPowered DEF Unpowered
<1> QED
  BY <1>3, <1>4, <1>5, <1>6, <1>7, <1>8 DEF Step, Starts

\* After the live read, an apply answers for what it answered for before the step.
LEMMA StillAnswers ==
  ASSUME IInv, PowerInv, Step, ~Fail, pc \notin Starts \cup {"final"}, Exists', Answers'
  PROVE  /\ Exists /\ Answers /\ Powered /\ Due' = Due
         /\ Due \in Steady /\ None \notin Steady /\ KeepsPlan /\ UNCHANGED cfg
<1>1. UNCHANGED cfg /\ KeepsPlan
  BY StepFollows
<1>2. Exists
  BY StepAsks, AskedDoes DEF Starts, Exists
<1>3. Answers /\ Due' = Due
  BY <1>1, SameDue
<1> QED
  BY <1>1, <1>2, <1>3, DueSteady, NoneAssumption, SteadyStatuses DEF PowerInv

\* Where the power state is to end is settled in Target.
LEMMA TargetPowered ==
  ASSUME IInv, OpInv, PowerInv, Step, ~Fail, pc = "target", Exists', Answers'
  PROVE  Powered'
<1>1. /\ Exists /\ Powered /\ Due' = Due /\ Due \in Steady /\ None \notin Steady
      /\ KeepsPlan /\ UNCHANGED cfg
  BY StillAnswers DEF Starts
<1>2. u.op = "update" /\ Target
  BY Updates DEF Step, Creates, Deletes
<1>3. AtRest /\ u.status = u.was
  BY <1>1 DEF Powered
<1>4. /\ UNCHANGED srv /\ KeepsPower
      /\ pc' = IF LiftForResize \/ Wanted = "ACTIVE" THEN "power" ELSE "groups"
      /\ u'.target = (IF PutBack = None THEN Wanted ELSE PutBack)
      /\ u'.goal = "ACTIVE" /\ u'.cont = "groups"
  BY <1>2, TargetDoes DEF GoesOn
<1>5. Due = IF cfg.power # None THEN cfg.power ELSE u.status
  BY <1>2, <1>3 DEF Due
<1>6. Wanted = IF cfg.power = u.status THEN None ELSE cfg.power
  BY <1>3 DEF Wanted, AtRest
<1>7. u.status \in Steady /\ "ACTIVE" \in Steady
  BY <1>3, SteadyStatuses DEF AtRest
<1>8. AtRest'
  BY <1>3, <1>4 DEF AtRest, KeepsPower
<1>9. CASE LiftForResize \/ Wanted = "ACTIVE"
  <2>1. u'.target = Due
    BY <1>1, <1>4, <1>5, <1>6, <1>7, <1>9 DEF PutBack
  <2> QED
    BY <1>1, <1>4, <1>8, <1>9, <2>1 DEF Powered, PowersFirst, PowersLast, Resizes
<1>10. CASE ~(LiftForResize \/ Wanted = "ACTIVE")
  <2>1. u'.target = Wanted /\ u'.status = u.status
    BY <1>4, <1>10 DEF PutBack, KeepsPower
  <2>2. Aimed'
    BY <1>1, <1>5, <1>6, <1>7, <1>10, <2>1 DEF Aimed
  <2> QED
    BY <1>4, <1>8, <1>10, <2>2 DEF Powered, PowersFirst, PowersLast, Resizes
<1> QED
  BY <1>9, <1>10

\* A power step is taken from one status at rest to the next.
LEMMA PowerPowered ==
  ASSUME IInv, OpInv, PowerInv, Step, ~Fail, Exists', Answers',
         pc \in {"power", "powerwait"}
  PROVE  Powered'
<1>1. /\ Exists /\ Powered /\ Due' = Due /\ Due \in Steady /\ None \notin Steady
      /\ KeepsPlan /\ UNCHANGED cfg
  BY StillAnswers DEF Starts
<1>2. u.cont \in Continues
  BY DEF IInv, PcTyped, Powering
<1>3. CASE pc = "power" /\ Power
  <2>1. CASE \E j \in PowerJobs : Powers(j)
    <3>1. PICK j \in PowerJobs : Powers(j)
      BY <2>1
    <3>2. /\ srv'.job = j /\ srv'.status = From[j] /\ u'.job = j
          /\ pc' = "powerwait" /\ KeepsAim /\ KeepsGoal
      BY <3>1, WorkingDoes DEF Powers, GoesOn, Accepts, Idle, Jobs
    <3>3. Moving'
      BY <3>1, <3>2 DEF Moving
    <3> QED
      BY <1>1, <1>3, <3>2, <3>3
         DEF Powered, PowersFirst, PowersLast, Resizes, KeepsAim, KeepsGoal
  <2>2. CASE /\ u.status = u.goal /\ u.cont # "restored"
             /\ UNCHANGED <<srv, u>> /\ GoesOn(u.cont)
    <3>1. AtRest /\ AtRest'
      BY <1>1, <1>3, <2>2 DEF Powered, AtRest
    <3>2. CASE u.cont = "groups"
      <4>1. u.status = "ACTIVE" /\ u.target = Due
        BY <1>1, <1>3, <2>2, <3>2 DEF Powered, PowersFirst
      <4>2. Aimed'
        BY <1>1, <2>2, <4>1 DEF Aimed
      <4> QED
        BY <2>2, <3>1, <3>2, <4>2 DEF GoesOn, Powered, PowersFirst, PowersLast, Resizes
    <3>3. CASE u.cont = "final"
      <4>1. u.status = Due
        BY <1>1, <1>3, <2>2, <3>3 DEF Powered, PowersLast
      <4> QED
        BY <1>1, <2>2, <3>1, <3>3, <4>1
           DEF GoesOn, Powered, PowersFirst, PowersLast, Resizes, AtRest
    <3> QED
      BY <1>2, <2>2, <3>2, <3>3 DEF Continues
  <2> QED
    BY <1>3, <2>1, <2>2, PowerDoes
<1>4. CASE pc = "powerwait" /\ PowerWait
  <2>1. /\ UNCHANGED srv /\ NoTask /\ srv.status = To[u.job] /\ pc' = "power"
        /\ KeepsAim /\ KeepsGoal /\ u'.status = srv.status
    BY <1>4, PowerWaitDoes DEF GoesOn
  <2>2. u.cont # "restored" => AtRest'
    <3> SUFFICES ASSUME u.cont # "restored" PROVE AtRest'
      OBVIOUS
    <3>1. Moving
      BY <1>1, <1>4 DEF Powered
    <3>2. srv.job = "" /\ u.job \in PowerJobs
      BY <2>1, <3>1 DEF Moving, NoTask, PowerJobs
    <3> QED
      BY <2>1, <3>2, PowerEnds DEF AtRest
  <2> QED
    BY <1>1, <1>4, <2>1, <2>2
       DEF Powered, PowersFirst, PowersLast, Resizes, KeepsAim, KeepsGoal
<1> QED
  BY <1>3, <1>4 DEF Step

LEMMA GroupsPowered ==
  ASSUME IInv, OpInv, PowerInv, Step, ~Fail, pc = "groups", Exists', Answers'
  PROVE  Powered'
<1>1. /\ Exists /\ Powered /\ Due' = Due /\ KeepsPlan /\ UNCHANGED cfg
  BY StillAnswers DEF Starts
<1>2. SwapGroups
  BY DEF Step
<1>3. /\ srv'.job = srv.job /\ srv'.status = srv.status
  BY <1>1, StepAsks, AskedDoes DEF KeepsWork
<1>4. pc' \in {"groups", "resize"} /\ u'.status = u.status /\ u'.target = u.target
  BY <1>2, SwapDoes DEF GoesOn, Adds, Removes, KeepsAim, KeepsPower
<1>5. AtRest' /\ Aimed'
  BY <1>1, <1>3, <1>4 DEF Powered, AtRest, Aimed
<1> QED
  BY <1>4, <1>5 DEF Powered, PowersFirst, PowersLast, Resizes

\* Nova puts a resized server back in the status it was in.
LEMMA ResizePowered ==
  ASSUME IInv, OpInv, PowerInv, Step, ~Fail, Exists', Answers',
         pc \in {"resize", "resizewait", "confirm", "confirmwait"}
  PROVE  Powered'
<1>1. /\ Exists /\ Powered /\ Due' = Due /\ KeepsPlan /\ UNCHANGED cfg
  BY StillAnswers DEF Starts
<1>2. pc' = "revert" => Powered'
  BY AwayPowered DEF Unpowered
<1>3. CASE pc = "resize" /\ Resize
  <2>1. AtRest /\ Aimed
    BY <1>1, <1>3 DEF Powered
  <2>2. CASE UNCHANGED <<srv, u>> /\ GoesOn(AfterResize)
    <3>1. AtRest' /\ Aimed'
      BY <1>1, <2>1, <2>2 DEF AtRest, Aimed
    <3> QED
      BY <2>2, <3>1 DEF GoesOn, AfterResize, Powered, PowersFirst, PowersLast, Resizes
  <2>3. CASE /\ Accepts({"ACTIVE", "SHUTOFF"}) /\ srv' = Resizing(cfg.flavor)
             /\ GoesOn("resizewait") /\ KeepsAim /\ KeepsPower /\ u'.pre = u.status
    <3>1. srv'.job = "resize" /\ srv'.status = "RESIZE" /\ srv'.back = u.status
      BY <2>1, <2>3, ResizingDoes DEF Accepts, Idle, Steady, AtRest
    <3>2. Aimed' /\ u'.status \in Steady /\ u'.pre = u'.status
      BY <1>1, <2>1, <2>3 DEF AtRest, Aimed, KeepsAim, KeepsPower
    <3> QED
      BY <2>3, <3>1, <3>2
         DEF GoesOn, Powered, PowersFirst, PowersLast, Resizes, Steady, KeepsPower
  <2> QED
    BY <1>3, <2>2, <2>3, ResizeDoes
<1>4. CASE pc \in {"resizewait", "confirm", "confirmwait"}
  <2>1. /\ Aimed /\ u.status \in Steady /\ u.pre = u.status /\ srv.back = u.status
        /\ srv.job \in {"resize", "finish_resize", "confirm", ""}
        /\ srv.job # "" => srv.status \notin Steady
    BY <1>1, <1>4 DEF Powered, Resizes
  <2>2. UNCHANGED u
    BY <1>4 DEF Step, ResizeWait, Confirm, ConfirmWait, Wait, Call, Go
  <2>3. Aimed'
    BY <1>1, <2>1, <2>2 DEF Aimed
  <2>4. CASE pc' \in {"confirm", "confirmwait"}
    <3>1. \/ UNCHANGED srv
          \/ srv'.job = "confirm" /\ srv'.status = "VERIFY_RESIZE" /\ srv'.back = srv.back
      BY <1>4, StepAsks, AskedDoes DEF KeepsRest
    <3> QED
      BY <2>1, <2>2, <2>3, <2>4, <3>1
         DEF Powered, PowersFirst, PowersLast, Resizes, Steady
  <2>5. CASE pc' = AfterResize
    <3>1. UNCHANGED srv /\ NoTask /\ srv.status = u.pre
      BY <1>4, <2>5
         DEF Step, ResizeWait, Confirm, ConfirmWait, Wait, Call, Go, Settled,
             AfterResize
    <3>2. AtRest'
      BY <2>1, <2>2, <3>1 DEF AtRest
    <3> QED
      BY <2>3, <2>5, <3>2 DEF AfterResize, Powered, PowersFirst, PowersLast, Resizes
  <2> QED
    BY <1>2, <1>4, <2>4, <2>5, StepFollows DEF Follows, Starts
<1> QED
  BY <1>3, <1>4 DEF Step

\* A rebuilt server ends running, or stopped if it was.
LEMMA RebuildPowered ==
  ASSUME IInv, OpInv, PowerInv, Step, ~Fail, Exists', Answers',
         pc \in {"rebuild", "reimage", "rebuildwait"}
  PROVE  Powered'
<1>1. /\ Exists /\ Powered /\ Answers /\ Due' = Due /\ KeepsPlan /\ UNCHANGED cfg
  BY StillAnswers DEF Starts
<1>2. ~u.first
  BY <1>1, Answering DEF Creates, Deletes
<1>3. CASE pc = "rebuild" /\ Rebuild
  <2>1. AtRest /\ Aimed /\ UNCHANGED srv
    BY <1>1, <1>3, RebuildDoes DEF Powered
  <2>2. /\ u'.status = u.status /\ u'.target = u.target /\ pc' \in {"reimage", AfterRebuild}
        /\ pc' = "reimage" => u'.before = srv.status
    BY <1>3, RebuildDoes DEF GoesOn, KeepsAim, AfterRebuild
  <2>3. AtRest' /\ Aimed'
    BY <1>1, <2>1, <2>2 DEF AtRest, Aimed
  <2> QED
    BY <1>2, <2>1, <2>2, <2>3
       DEF AtRest, AfterRebuild, Powered, PowersFirst, PowersLast, Resizes
<1>4. CASE pc = "reimage" /\ Reimage
  <2>1. /\ UNCHANGED u /\ pc' = "rebuildwait" /\ srv' = Rebuilding(cfg.image)
        /\ Accepts({"ACTIVE", "SHUTOFF", "ERROR"})
    BY <1>4 DEF Reimage, Call, Go
  <2>2. /\ srv'.job = "rebuild" /\ srv'.status \in {"REBUILD", "ERROR"}
        /\ srv'.back = IF srv.status = "SHUTOFF" THEN "SHUTOFF" ELSE "ACTIVE"
    BY <1>1, <2>1, RebuildingDoes
  <2>3. AtRest /\ Aimed /\ u.before = u.status
    BY <1>1, <1>4 DEF Powered
  <2>4. u.status \in {"ACTIVE", "SHUTOFF"} /\ srv'.back = u.status
    BY <2>1, <2>2, <2>3 DEF Accepts, AtRest, Steady
  <2>5. Aimed'
    BY <1>1, <2>1, <2>3 DEF Aimed
  <2> QED
    BY <2>1, <2>2, <2>3, <2>4, <2>5 DEF Powered, PowersFirst, PowersLast, Resizes
<1>5. CASE pc = "rebuildwait" /\ RebuildWait
  <2>1. /\ UNCHANGED srv /\ Settled(rebuildSettleTarget(u.before)) /\ pc' = AfterRebuild
        /\ KeepsAim /\ u'.status = srv.status
    BY <1>5, RebuildWaitDoes DEF GoesOn
  <2>2. /\ Aimed /\ u.status \in {"ACTIVE", "SHUTOFF"} /\ u.before = u.status
        /\ srv.back = u.status /\ srv.job \in {"rebuild", "poweroff", ""}
        /\ srv.job = "poweroff" => srv.status = "ACTIVE" /\ srv.back = "SHUTOFF"
    BY <1>1, <1>5 DEF Powered
  <2>3. srv.status = u.status /\ srv.job = ""
    BY <2>1, <2>2 DEF Settled, NoTask, rebuildSettleTarget
  <2>4. AtRest' /\ Aimed'
    BY <1>1, <2>1, <2>2, <2>3 DEF AtRest, Aimed, Steady, KeepsAim
  <2> QED
    BY <1>2, <2>1, <2>4 DEF AfterRebuild, Powered, PowersFirst, PowersLast, Resizes
<1> QED
  BY <1>3, <1>4, <1>5 DEF Step

LEMMA OffPowered ==
  ASSUME IInv, OpInv, PowerInv, Step, ~Fail, pc = "off", Exists', Answers'
  PROVE  Powered'
<1>1. /\ Exists /\ Powered /\ Due' = Due /\ Due \in Steady /\ KeepsPlan /\ UNCHANGED cfg
  BY StillAnswers DEF Starts
<1>2. AtRest /\ Aimed /\ Off /\ UNCHANGED srv
  BY <1>1, OffDoes DEF Powered, Step
<1>3. CASE u.target \in {None, "ACTIVE"} /\ GoesOn("final")
  BY <1>1, <1>2, <1>3
     DEF GoesOn, Aimed, AtRest, Powered, PowersFirst, PowersLast, Resizes
<1>4. CASE /\ u.target \notin {None, "ACTIVE"} /\ GoesOn("power") /\ KeepsPower
           /\ u'.goal = u.target /\ u'.cont = "final"
  BY <1>1, <1>2, <1>4
     DEF GoesOn, Aimed, AtRest, KeepsPower, Powered, PowersFirst, PowersLast, Resizes
<1> QED
  BY <1>2, <1>3, <1>4, OffDoes

LEMMA StepPowered ==
  ASSUME IInv, OpInv, OpInv', PowerInv, Step, Exists', Answers'
  PROVE  Powered'
<1>1. CASE Fail
  BY <1>1, FailDoes, AwayPowered DEF FailsOver, FailsFinally, GoesOn, Unpowered
<1>2. CASE pc \in {"pending", "pendingwait", "revert", "revertwait", "restore"} /\ ~Fail
  <2>1. pc # "pending" /\ pc # "pendingwait"
    <3>1. Answers
      BY <1>2, StillAnswers DEF Starts
    <3> QED
      BY <3>1, Answering
  <2>2. pc' = "revertwait" \/ (pc = "restore" /\ pc' = "power" /\ KeepsGoal)
    BY <1>2, <2>1, StepFollows DEF Follows, Starts
  <2>3. pc = "restore" => u.cont = "restored"
    BY DEF OpInv
  <2> QED
    BY <2>2, <2>3 DEF KeepsGoal, Powered, PowersFirst, PowersLast, Resizes
<1> QED
  BY <1>1, <1>2, StartPowered, TargetPowered, PowerPowered, GroupsPowered,
     ResizePowered, RebuildPowered, OffPowered
     DEF Step, Starts, PowerInv

LEMMA StepPower ==
  ASSUME IInv, OpInv, OpInv', PowerInv, Step
  PROVE  PowerInv'
<1>1. None \notin Steady /\ "VERIFY_RESIZE" \notin Steady /\ "ERROR" \notin Steady
  BY NoneAssumption, SteadyStatuses DEF Steady
<1>2. u'.first \/ pc' \in {"pending", "pendingwait"} => u'.was \notin Steady
  <2>1. CASE Fail
    BY <2>1, FailDoes DEF FailsOver, FailsFinally, GoesOn, KeepsPlan, PowerInv, NoApply
  <2>2. CASE pc \in Starts \cup {"final"} /\ ~Fail
    <3>1. pc \in Starts => ~u.first
      BY DEF OpInv
    <3>2. CASE pc' \in Starts \cup {"idle"}
      BY <3>2 DEF OpInv, NoApply, Starts
    <3>3. CASE pc = "strip" /\ pc' \in {"final", "power"}
      BY <2>2, <3>1, <3>3, StepBegins DEF Begun, KeepsPlan, Starts
    <3>4. CASE pc = "live" /\ Live
      BY <1>1, <2>2, <3>1, <3>4, LiveDoes DEF GoesOn, Reads, Was, Starts
    <3> QED
      BY <2>2, <3>2, <3>3, <3>4, StepBegins DEF Begun, Step, Starts
  <2>3. CASE pc \notin Starts \cup {"final"} /\ ~Fail
    <3>1. KeepsPlan /\ Follows
      BY <2>3, StepFollows
    <3>2. pc' \in {"pending", "pendingwait"} => pc \in {"pending", "pendingwait"}
      BY <3>1 DEF Follows, AfterResize, AfterRebuild
    <3> QED
      BY <3>1, <3>2 DEF KeepsPlan, PowerInv
  <2> QED
    BY <2>1, <2>2, <2>3
<1> QED
  BY <1>2, StepPowered DEF PowerInv

\* Nova does nothing on its own with a server at rest.
LEMMA Resting ==
  ASSUME IInv, NovaWork, srv.job = "", srv.status \in Steady
  PROVE  FALSE
<1>1. srv.status # "VERIFY_RESIZE"
  BY DEF Steady
<1> QED
  BY <1>1, WorkDoes
     DEF Builds, PowerDone, PowerJobs, Moves, MoveFails, Moved, Confirms, Confirmed,
         Reverted, Writes, PoweredOff

LEMMA WorkPowered ==
  ASSUME IInv, NovaWork, Exists', Powered, Answers
  PROVE  Powered'
<1>1. UNCHANGED <<cfg, pc, u>> /\ Exists
  BY WorkDoes
<1>2. ~AtRest /\ (pc = "final" => ~(srv.job = "" /\ srv.status = Due /\ Due \in Steady))
  BY Resting DEF AtRest
<1>3. Aimed' = Aimed /\ Due' = Due
  BY <1>1 DEF Aimed, Due
<1>4. CASE pc = "bootwait"
  <2>1. \/ srv.job = "build" /\ srv.status = "BUILD"
        \/ srv.job = "" /\ srv.status \in {"ACTIVE", "ERROR"}
    BY <1>4 DEF Powered
  <2>2. \/ srv'.job = "build" /\ srv'.status = "BUILD"
        \/ srv'.job = "" /\ srv'.status \in {"ACTIVE", "ERROR"}
    BY <2>1, WorkDoes
       DEF Builds, PowerDone, PowerJobs, Moves, MoveFails, Moved, Confirms, Confirmed,
           Reverted, Writes, PoweredOff, EndsIn
  <2> QED
    BY <1>1, <1>4, <2>2 DEF Powered, PowersFirst, PowersLast, Resizes
<1>5. CASE pc = "powerwait" /\ u.cont # "restored"
  <2>1. Moving
    BY <1>5 DEF Powered
  <2>2. srv.job = u.job /\ u.job \in PowerJobs
    BY <2>1, PowerEnds, Resting DEF Moving
  <2>3. srv'.job = "" /\ srv'.status \in {From[u.job], To[u.job]}
    BY <2>2, WorkDoes
       DEF Builds, PowerDone, PowerJobs, Moves, MoveFails, Moved, Confirms, Confirmed,
           Reverted, Writes, PoweredOff, EndsIn
  <2>4. Moving'
    BY <1>1, <2>2, <2>3 DEF Moving
  <2> QED
    BY <1>1, <1>3, <1>5, <2>4 DEF Powered, PowersFirst, PowersLast, Resizes
<1>6. CASE Resizes
  <2>1. /\ Aimed /\ u.status \in Steady /\ u.pre = u.status /\ srv.back = u.status
        /\ srv.job \in {"resize", "finish_resize", "confirm", ""}
        /\ srv.job # "" => srv.status \notin Steady
    BY <1>6 DEF Powered
  <2>2. /\ srv'.job \in {"resize", "finish_resize", "confirm", ""}
        /\ srv'.job # "" => srv'.status \notin Steady
    BY <2>1, WorkDoes
       DEF Builds, PowerDone, PowerJobs, Moves, MoveFails, Moved, Confirms, Confirmed,
           Reverted, Writes, PoweredOff, EndsIn, Steady
  <2>3. srv'.back = srv.back
    BY <2>1, WorkDoes
       DEF Builds, PowerDone, PowerJobs, Moves, MoveFails, Moved, Confirms, Confirmed,
           Reverted, Writes, PoweredOff, EndsIn, KeepsRest
  <2> QED
    BY <1>1, <1>3, <1>6, <2>1, <2>2, <2>3 DEF Powered, PowersFirst, PowersLast, Resizes
<1>7. CASE pc = "rebuildwait"
  <2>1. /\ Aimed /\ u.status \in {"ACTIVE", "SHUTOFF"} /\ u.before = u.status
        /\ srv.back = u.status /\ srv.job \in {"rebuild", "poweroff", ""}
        /\ srv.status # "VERIFY_RESIZE"
        /\ srv.job = "poweroff" => srv.status = "ACTIVE" /\ srv.back = "SHUTOFF"
    BY <1>7 DEF Powered
  <2>2. /\ srv'.back = srv.back /\ srv'.job \in {"rebuild", "poweroff", ""}
        /\ srv'.status # "VERIFY_RESIZE"
        /\ srv'.job = "poweroff" => srv'.status = "ACTIVE" /\ srv'.back = "SHUTOFF"
    BY <2>1, WorkDoes
       DEF Builds, PowerDone, PowerJobs, Moves, MoveFails, Moved, Confirms, Confirmed,
           Reverted, Writes, PoweredOff, EndsIn, KeepsRest
  <2> QED
    BY <1>1, <1>3, <1>7, <2>1, <2>2 DEF Powered, PowersFirst, PowersLast, Resizes
<1>8. CASE /\ pc \notin {"bootwait", "rebuildwait"} /\ ~Resizes
           /\ pc = "powerwait" => u.cont = "restored"
  BY <1>1, <1>2, <1>8 DEF Powered, PowersFirst, PowersLast, Resizes
<1> QED
  BY <1>4, <1>5, <1>6, <1>7, <1>8

LEMMA NextPower == IInv /\ OpInv /\ OpInv' /\ PowerInv /\ [Next]_vars => PowerInv'
<1> SUFFICES ASSUME IInv, OpInv, OpInv', PowerInv, [Next]_vars PROVE PowerInv'
  OBVIOUS
<1>1. CASE NovaWork
  BY <1>1, WorkDoes, WorkPowered DEF PowerInv, Answers
<1>2. CASE Apply \/ (\E c \in Configs : Edit(c)) \/ Others
  <2>1. CASE pc' \in {"idle", "boot", "delete"}
    BY <1>2, <2>1, ApplyDoes, OutsideDoes, AwayPowered
       DEF Edit, Begins, OpInv, NoApply, PowerInv, Unpowered
  <2>2. CASE pc' = "owner"
    <3>1. /\ u'.op = "update" /\ u'.was = None /\ ~u'.first
      BY <1>2, <2>2, ApplyDoes, OutsideDoes DEF Edit, Begins, OpInv, Starts
    <3>2. ~Answers'
      BY <3>1, NoneAssumption, SteadyStatuses DEF Answers
    <3> QED
      BY <2>2, <3>1, <3>2 DEF PowerInv
  <2> QED
    BY <1>2, <2>1, <2>2, ApplyDoes, OutsideDoes DEF Edit
<1>3. CASE UNCHANGED <<srv, cfg, pc, u>>
  <2>1. /\ Exists' = Exists /\ Answers' = Answers /\ Due' = Due /\ AtRest' = AtRest
        /\ Aimed' = Aimed /\ Moving' = Moving
    BY <1>3 DEF Exists, Answers, Due, AtRest, Aimed, Moving
  <2>2. Powered' = Powered
    BY <1>3, <2>1 DEF Powered, PowersFirst, PowersLast, Resizes
  <2> QED
    BY <1>3, <2>1, <2>2 DEF PowerInv
<1>4. CASE Step
  BY <1>4, StepPower
<1> QED
  BY <1>1, <1>2, <1>3, <1>4 DEF Next, Read, vars

-----------------------------------------------------------------------------
(* The deferred restore.                                                   *)

LEMMA StepLift ==
  ASSUME IInv, OpInv, OpInv', LiftInv, Step
  PROVE  LiftInv'
<1>1. CASE Fail
  BY <1>1, FailDoes
     DEF FailsOver, FailsFinally, GoesOn, KeepsAim, NoApply, LiftInv, PutsBack
<1>2. CASE pc \in Starts \cup {"final"} /\ ~Fail
  <2>1. pc' \in Starts \cup {"idle"} \/ u'.op = "create" =>
          u'.lifted = None /\ u'.restore = None
    BY DEF OpInv, NoApply
  <2>2. pc = "live" => u.lifted = None /\ u.restore = None
    BY DEF OpInv, Starts
  <2>3. pc = "strip" => u.op = "create"
    BY DEF OpInv, IInv, PcTyped, Locals, Deletes
  <2>4. u'.lifted = None /\ u'.restore = None
    BY <1>2, <2>1, <2>2, <2>3, StepBegins
       DEF Begun, Reads, KeepsPlan, KeepsAim, KeepsGoal
  <2> QED
    BY <2>4 DEF LiftInv
<1>3. CASE pc = "target" /\ Target /\ ~Fail
  <2>1. /\ u'.lifted = PutBack /\ u'.restore = PutBack
        /\ PutBack # None => u'.target = PutBack
    BY <1>3, TargetDoes
  <2>2. PutBack \in {None, "PAUSED", "SUSPENDED"}
    BY DEF PutBack, LiftForResize
  <2> QED
    BY <2>1, <2>2 DEF LiftInv
<1>4. CASE pc = "off" /\ Off /\ ~Fail
  BY <1>4, OffDoes DEF KeepsAim, GoesOn, LiftInv, PutsBack
<1>5. CASE pc \notin Starts \cup {"final", "target", "off"} /\ ~Fail
  <2>1. Follows
    BY <1>5, StepFollows
  <2>2. KeepsAim /\ KeepsGoal
    BY <1>5, <2>1, SameLocals DEF Follows
  <2>3. PutsBack => PutsBack'
    BY <1>5, <2>1, <2>2 DEF Follows, PutsBack, KeepsGoal, OpInv
  <2> QED
    BY <2>2, <2>3 DEF LiftInv, KeepsAim, KeepsGoal
<1> QED
  BY <1>1, <1>2, <1>3, <1>4, <1>5 DEF Step

LEMMA NextLift == IInv /\ OpInv /\ OpInv' /\ LiftInv /\ [Next]_vars => LiftInv'
<1> SUFFICES ASSUME IInv, OpInv, OpInv', LiftInv, [Next]_vars PROVE LiftInv'
  OBVIOUS
<1>1. CASE Apply
  <2>1. u'.lifted = None /\ u'.restore = None
    BY <1>1, ApplyDoes DEF OpInv, Starts
  <2> QED
    BY <2>1 DEF LiftInv
<1>2. CASE UNCHANGED <<pc, u>>
  BY <1>2 DEF LiftInv, PutsBack
<1> QED
  BY <1>1, <1>2, StepLift DEF Next, Read, Edit, NovaWork, Others, vars

\* No step brings back what went wrong.
LEMMA StepTrouble ==
  ASSUME Step
  PROVE  UNCHANGED trouble \/ Trouble
<1>1. CASE Boot \/ BootWait \/ ChangeOwner \/ Strip \/ Live
  BY <1>1 DEF Boot, BootWait, ChangeOwner, Strip, Live, Get, Call
<1>2. CASE ConfirmPending \/ PendingWait \/ Target \/ Power \/ PowerWait
  BY <1>2 DEF ConfirmPending, PendingWait, Target, Power, PowerWait, Call, Wait
<1>3. CASE SwapGroups \/ Resize \/ ResizeWait \/ Confirm \/ ConfirmWait
  BY <1>3
     DEF SwapGroups, AddGroup, RemoveGroup, Resize, ResizeWait, Confirm, ConfirmWait,
         Call, Wait
<1>4. CASE Revert \/ RevertWait \/ Rebuild \/ Reimage \/ RebuildWait
  BY <1>4 DEF Revert, RevertWait, Rebuild, Reimage, RebuildWait, Get, Call, Wait
<1>5. CASE Off \/ Final \/ Restore \/ Delete \/ DeleteWait
  BY <1>5 DEF Off, Final, Restore, Delete, DeleteWait, Gone, Get, Call
<1> QED
  BY <1>1, <1>2, <1>3, <1>4, <1>5 DEF Step

LEMMA TroubleFalls ==
  ASSUME IInv, [Next]_vars
  PROVE  trouble' <= trouble /\ trouble \in Nat /\ trouble' \in Nat
<1>1. trouble \in Nat
  BY NovaAssumption DEF IInv, SrvTyped
<1>2. UNCHANGED trouble \/ Trouble
  BY StepTrouble, WorkDoes
     DEF Next, Apply, Read, Edit, Others, Outside, vars
<1> QED
  BY <1>1, <1>2 DEF Trouble

LEMMA StepRestore ==
  ASSUME IInv, OpInv, LiftInv, RestoreInv, Step, PutsBack',
         trouble' <= trouble, trouble \in Nat, trouble' \in Nat
  PROVE  RestoreInv'
<1>0. u.left \in Nat /\ u'.left \in Nat
  <2>1. u \in Locals
    BY DEF IInv, PcTyped
  <2>2. u' \in Locals
    BY NextIInv DEF Next, IInv, PcTyped
  <2> QED
    BY <2>1, <2>2, NovaAssumption DEF Locals
<1>1. CASE Fail
  <2>1. FailsOver
    BY <1>1, FailDoes DEF FailsFinally, PutsBack
  <2>2. u.restore \in {"PAUSED", "SUSPENDED"}
    BY <2>1 DEF FailsOver, LiftInv
  <2> QED
    BY <2>1, <2>2 DEF FailsOver, GoesOn, RestoreInv
<1>2. CASE pc \in Starts \cup {"final"} /\ ~Fail
  BY <1>2, StepBegins DEF Begun, PutsBack, Starts
<1>3. CASE pc \notin Starts \cup {"final"} /\ ~Fail
  <2>1. /\ PutsBack /\ u'.goal = u.goal /\ u'.left = u.left
        /\ pc \in {"restore", "power", "powerwait"}
    BY <1>3, StepFollows, RestoreDoes
       DEF Follows, PutsBack, KeepsGoal, KeepsRestore, OpInv, Step, AfterResize,
           AfterRebuild
  <2>2. u.goal \in {"PAUSED", "SUSPENDED"} /\ trouble <= u.left
    BY <2>1 DEF RestoreInv
  <2>3. u'.goal \in {"PAUSED", "SUSPENDED"} /\ trouble' <= u'.left
    BY <1>0, <2>1, <2>2
  <2>4. CASE pc = "restore" /\ Restore
    <3>1. /\ UNCHANGED srv /\ Exists /\ pc' = "power" /\ u'.status = srv.status
          /\ u'.busy = (~Accepts(Steady))
      BY <1>3, <2>4, RestoreDoes DEF GoesOn
    <3>2. u'.busy \/ (Exists' /\ AtRest')
      BY <3>1 DEF Accepts, Idle, Exists, AtRest
    <3> QED
      BY <2>3, <3>1, <3>2 DEF RestoreInv
  <2>5. CASE pc = "power" /\ Power
    <3>1. u.cont = "restored"
      BY <2>1, <2>5 DEF PutsBack
    <3>2. PICK j \in PowerJobs : Powers(j)
      BY <1>3, <2>5, <3>1, PowerDoes
    <3>3. /\ Exists' /\ srv'.job = j /\ srv'.status = From[j]
          /\ u'.job = j /\ pc' = "powerwait"
      BY <3>2, WorkingDoes DEF Powers, GoesOn, Accepts, Idle, Jobs
    <3> QED
      BY <2>3, <3>3 DEF RestoreInv
  <2>6. CASE pc = "powerwait" /\ PowerWait
    <3>1. /\ UNCHANGED srv /\ Exists /\ NoTask /\ srv.status = To[u.job] /\ pc' = "power"
          /\ KeepsRestore /\ u'.status = srv.status
      BY <1>3, <2>6, PowerWaitDoes DEF GoesOn
    <3>2. CASE u.busy \/ trouble < u.left
      <4>1. u'.busy \/ trouble' < u'.left
        BY <1>0, <2>1, <3>1, <3>2 DEF KeepsRestore
      <4> QED
        BY <2>3, <3>1, <4>1 DEF RestoreInv
    <3>3. CASE ~(u.busy \/ trouble < u.left)
      <4>1. srv.job = "" /\ u.job \in PowerJobs
        BY <2>1, <2>6, <3>1, <3>3 DEF RestoreInv, NoTask, PowerJobs
      <4>2. Exists' /\ AtRest'
        BY <3>1, <4>1, PowerEnds DEF AtRest, Exists
      <4> QED
        BY <2>3, <3>1, <4>2 DEF RestoreInv
    <3> QED
      BY <3>2, <3>3
  <2> QED
    BY <2>1, <2>4, <2>5, <2>6 DEF Step
<1> QED
  BY <1>1, <1>2, <1>3

LEMMA NextRestore == IInv /\ OpInv /\ LiftInv /\ RestoreInv /\ [Next]_vars => RestoreInv'
<1> SUFFICES ASSUME IInv, OpInv, LiftInv, RestoreInv, [Next]_vars, PutsBack'
             PROVE  RestoreInv'
  BY DEF RestoreInv
<1>1. trouble' <= trouble /\ trouble \in Nat /\ trouble' \in Nat
  BY TroubleFalls
<1>2. u.left \in Nat
  BY NovaAssumption DEF IInv, PcTyped, Locals
<1>3. CASE NovaWork
  <2>1. UNCHANGED <<pc, u>> /\ Exists
    BY <1>3, WorkDoes
  <2>2. PutsBack /\ u.goal \in {"PAUSED", "SUSPENDED"} /\ trouble <= u.left
    BY <2>1 DEF PutsBack, RestoreInv
  <2>3. u'.goal \in {"PAUSED", "SUSPENDED"} /\ trouble' <= u'.left
    BY <1>1, <1>2, <2>1, <2>2
  <2>4. CASE u.busy \/ trouble < u.left \/ pc = "restore"
    <3>1. trouble < u.left => trouble' < u'.left
      BY <1>1, <1>2, <2>1
    <3> QED
      BY <2>1, <2>4, <2>3, <3>1 DEF RestoreInv
  <2>5. CASE pc = "power" /\ ~(u.busy \/ trouble < u.left)
    BY <1>3, <2>2, <2>5, Resting DEF RestoreInv, AtRest
  <2>6. CASE pc = "powerwait" /\ ~(u.busy \/ trouble < u.left)
    <3>1. srv.job = u.job /\ u.job \in PowerJobs
      BY <1>3, <2>2, <2>6, Resting, PowerEnds DEF RestoreInv
    <3>2. /\ Exists' /\ srv'.job = ""
          /\ srv'.status = To[u.job] \/ Trouble
      BY <1>3, <3>1, WorkDoes
         DEF Builds, PowerDone, PowerJobs, Moves, MoveFails, Moved, Confirms, Confirmed,
             Reverted, Writes, PoweredOff, EndsIn
    <3>3. Trouble => trouble' < u'.left
      BY <1>1, <1>2, <2>1, <2>2 DEF Trouble
    <3> QED
      BY <2>1, <2>6, <2>3, <3>1, <3>2, <3>3 DEF RestoreInv
  <2> QED
    BY <2>2, <2>4, <2>5, <2>6 DEF PutsBack
<1>4. CASE Apply \/ (\E c \in Configs : Edit(c)) \/ Others
  BY <1>4, ApplyDoes, OutsideDoes DEF Edit, PutsBack
<1>5. CASE UNCHANGED <<srv, trouble, pc, u>>
  BY <1>5 DEF RestoreInv, PutsBack, AtRest, Exists
<1>6. CASE Step
  BY <1>1, <1>6, StepRestore
<1> QED
  BY <1>3, <1>4, <1>5, <1>6 DEF Next, Read, vars

-----------------------------------------------------------------------------
(* The invariant, and the theorems.                                        *)

\* What is known of an apply at each of its steps.
WorkInv ==
    /\ OpInv /\ JobFits /\ OwnerInv /\ ImageInv /\ EraseInv /\ ExactInv /\ FlavorInv
    /\ PowerInv /\ LiftInv /\ RestoreInv

LEMMA WorkInvariance == Spec => [](IInv /\ WorkInv)
<1>1. Init => WorkInv
  <2> SUFFICES ASSUME Init PROVE WorkInv
    OBVIOUS
  <2>1. pc = "idle" /\ u = NoApply /\ srv = None
    BY DEF Init
  <2>2. OpInv /\ LiftInv /\ PutsBack = FALSE
    BY <2>1 DEF OpInv, LiftInv, PutsBack, NoApply, Starts
  <2>3. JobFits /\ OwnerInv /\ ImageInv /\ EraseInv /\ ExactInv /\ FlavorInv
    BY <2>1 DEF JobFits, OwnerInv, ImageInv, EraseInv, ExactInv, FlavorInv, Exists
  <2>4. PowerInv /\ RestoreInv
    BY <2>1, <2>2 DEF PowerInv, RestoreInv, NoApply, Exists
  <2> QED
    BY <2>2, <2>3, <2>4 DEF WorkInv
<1>2. IInv /\ WorkInv /\ [Next]_vars => WorkInv'
  <2> SUFFICES ASSUME IInv, WorkInv, [Next]_vars PROVE WorkInv'
    OBVIOUS
  <2>1. OpInv'
    BY NextOp DEF WorkInv
  <2>2. JobFits' /\ OwnerInv' /\ ImageInv' /\ EraseInv' /\ ExactInv' /\ FlavorInv'
    BY NextJob, NextOwner, NextImage, NextErase, NextExact, NextFlavor DEF WorkInv
  <2>3. PowerInv' /\ LiftInv' /\ RestoreInv'
    BY <2>1, NextPower, NextLift, NextRestore DEF WorkInv
  <2> QED
    BY <2>1, <2>2, <2>3 DEF WorkInv
<1> QED
  BY <1>1, <1>2, Invariance, PTL DEF Spec

\* An apply that does not fail ends in Final, in a Delete, or with the row of an
\* answer that did not hold the server.
LEMMA StepEnds ==
  ASSUME IInv, OpInv, Step, ~Fail, pc' = "idle"
  PROVE  \/ /\ result' = "ok"
            /\ (pc = "final" /\ Exists /\ UNCHANGED srv) \/ u.op = "delete"
         \/ result' = "error" /\ pc = "boot"
<1>1. pc \in Starts \cup {"final"}
  <2>1. CASE pc \notin Starts \cup {"final"}
    BY <2>1, StepFollows DEF Follows, AfterResize, AfterRebuild
  <2> QED
    BY <2>1
<1>2. u.op \in {"none", "create", "update", "delete"}
  BY DEF IInv, PcTyped, Locals
<1>3. CASE pc = "final" /\ Final
  BY <1>3 DEF Final, Get, Finish
<1>4. CASE pc \in Deletes
  <2>1. u.op = "delete"
    BY <1>2, <1>4 DEF OpInv, Creates, Deletes
  <2> QED
    BY <1>4, <2>1 DEF Step, Delete, DeleteWait, Gone, Finish, Call, Go, Deletes
<1>5. CASE pc \in Starts \ Deletes
  BY <1>5, BootDoes, BootWaitDoes, StripDoes, LiveDoes
     DEF Step, ChangeOwner, Get, Call, Go, GoesOn, Starts, Deletes
<1> QED
  BY <1>1, <1>3, <1>4, <1>5 DEF Step

LEMMA Ended ==
  ASSUME IInv, OpInv, [Next]_vars, NEW res, Ends(res)
  PROVE  Step
  BY WorkDoes DEF Ends, Next, Apply, Read, Edit, Others, vars

LEMMA EndsWell ==
  ASSUME IInv, OpInv, [Next]_vars, Ends("ok")
  PROVE  \/ pc = "final" /\ Exists /\ UNCHANGED srv
         \/ u.op = "delete" /\ u.was = None
<1>1. Step
  BY Ended
<1>2. ~Fail
  BY FailDoes DEF FailsOver, FailsFinally, GoesOn, Ends
<1>3. u.op = "delete" => u.was = None
  BY DEF OpInv, Starts, Deletes
<1> QED
  BY <1>1, <1>2, <1>3, StepEnds DEF Ends

LEMMA EndsBadly ==
  ASSUME IInv, OpInv, [Next]_vars, Ends("error"), u.lifted # None
  PROVE  Step /\ Fail /\ u.restore = None
<1>1. Step
  BY Ended
<1>2. Fail
  <2>1. CASE ~Fail
    <3>1. pc # "boot"
      BY DEF OpInv, Starts
    <3> QED
      BY <1>1, <2>1, <3>1, StepEnds DEF Ends
  <2> QED
    BY <2>1
<1> QED
  BY <1>1, <1>2, FailDoes DEF FailsOver, FailsFinally, GoesOn, Ends

\* What a Create or an Update that ends well changed is so on the server
\* (ChangesAreReal), whatever was in flight, refused, lost or half done.
THEOREM ChangesHold == Spec => ChangesAreReal
<1> DEFINE Real ==
      Ends("ok") /\ u.op \in {"create", "update"} =>
        /\ srv' # None
        /\ "flavor" \in u.changed /\ u.was # None => srv'.flavor = cfg.flavor
        /\ "image" \in u.changed => srv'.image = cfg.image \/ u.unconfirmed
        /\ cfg.owner # None => srv'.owner = cfg.owner
        /\ cfg.groups # None => srv'.groups = cfg.groups
<1>1. IInv /\ WorkInv /\ [Next]_vars => Real
  <2> SUFFICES ASSUME IInv, WorkInv, [Next]_vars, Ends("ok"), u.op \in {"create", "update"}
               PROVE  /\ srv' # None
                      /\ "flavor" \in u.changed /\ u.was # None => srv'.flavor = cfg.flavor
                      /\ "image" \in u.changed => srv'.image = cfg.image \/ u.unconfirmed
                      /\ cfg.owner # None => srv'.owner = cfg.owner
                      /\ cfg.groups # None => srv'.groups = cfg.groups
    OBVIOUS
  <2>1. pc = "final" /\ Exists /\ UNCHANGED srv
    BY EndsWell DEF WorkInv
  <2>2. Resized /\ Rebuilt
    BY <2>1 DEF Resized, Rebuilt
  <2>3. u.changed # {} => u.op = "update"
    BY DEF WorkInv, OpInv
  <2>4. "flavor" \in u.changed /\ u.was # None => srv.flavor = cfg.flavor
    BY <2>1, <2>2, <2>3 DEF WorkInv, FlavorInv
  <2>5. "image" \in u.changed => srv.image = cfg.image \/ u.unconfirmed
    BY <2>1, <2>2, <2>3 DEF WorkInv, ImageInv
  <2>6. cfg.owner # None => srv.owner = cfg.owner
    BY <2>1 DEF WorkInv, OwnerInv, Deletes
  <2>7. cfg.groups # None => srv.groups = cfg.groups
    BY <2>1, <2>2 DEF WorkInv, ExactInv
  <2> QED
    BY <2>1, <2>4, <2>5, <2>6, <2>7 DEF Exists
<1>2. IInv /\ WorkInv /\ [Next]_vars => [Real]_vars
  BY <1>1
<1> QED
  BY <1>2, WorkInvariance, PTL DEF Spec, ChangesAreReal

\* A configured power_state is reached by an apply that ends well, unless work was
\* in flight when Update read the server (PowerReached).
THEOREM PowerIsReached == Spec => PowerReached
<1> DEFINE Reached ==
      Ends("ok") /\ cfg.power # None /\ (u.op = "create" \/ u.was \in Steady) =>
        srv' # None /\ srv'.status = cfg.power
<1>1. IInv /\ WorkInv /\ [Next]_vars => Reached
  <2> SUFFICES ASSUME IInv, WorkInv, [Next]_vars, Ends("ok"), cfg.power # None, Answers
               PROVE  srv' # None /\ srv'.status = cfg.power
    BY DEF Answers
  <2>1. pc = "final" /\ Exists /\ UNCHANGED srv
    BY EndsWell, NoneAssumption, SteadyStatuses DEF WorkInv, Answers
  <2>2. srv.status = Due /\ Due = cfg.power
    BY <2>1 DEF WorkInv, PowerInv, Powered, Due
  <2> QED
    BY <2>1, <2>2 DEF Exists
<1>2. IInv /\ WorkInv /\ [Next]_vars => [Reached]_vars
  BY <1>1
<1> QED
  BY <1>2, WorkInvariance, PTL DEF Spec, PowerReached

\* Without power_state, an apply that ends well leaves the server running, stopped,
\* paused or suspended as Update found it, through a resize and a rebuild (PowerKept).
THEOREM PowerIsKept == Spec => PowerKept
<1> DEFINE Kept ==
      Ends("ok") /\ u.op = "update" /\ cfg.power = None /\ u.was \in Steady =>
        srv'.status = u.was
<1>1. IInv /\ WorkInv /\ [Next]_vars => Kept
  <2> SUFFICES ASSUME IInv, WorkInv, [Next]_vars, Ends("ok"), u.op = "update",
                      cfg.power = None, u.was \in Steady
               PROVE  srv'.status = u.was
    OBVIOUS
  <2>1. pc = "final" /\ Exists /\ UNCHANGED srv
    BY EndsWell DEF WorkInv
  <2>2. srv.status = Due /\ Due = u.was
    BY <2>1 DEF WorkInv, PowerInv, Powered, Answers, Due
  <2> QED
    BY <2>1, <2>2
<1>2. IInv /\ WorkInv /\ [Next]_vars => [Kept]_vars
  BY <1>1
<1> QED
  BY <1>2, WorkInvariance, PTL DEF Spec, PowerKept

\* Trouble in the deferred restore takes it below what it started with.
LEMMA LeftTrouble ==
  ASSUME IInv, RestoreInv, PutsBack, Step
  PROVE  /\ UNCHANGED trouble \/ (Trouble /\ trouble' < u.left)
         /\ Trouble => trouble' # trouble
<1>1. trouble \in Nat
  BY NovaAssumption DEF IInv, SrvTyped
<1>2. u.left \in Nat
  BY NovaAssumption DEF IInv, PcTyped, Locals
<1>3. trouble <= u.left
  BY DEF RestoreInv
<1>4. UNCHANGED trouble \/ Trouble
  BY StepTrouble
<1> QED
  BY <1>1, <1>2, <1>3, <1>4 DEF Trouble

\* A deferred restore that leaves the server running has met trouble of its own.
LEMMA RestoreFails ==
  ASSUME IInv, WorkInv, Step, Fail, u.restore = None, PutsBack,
         srv' # None, srv'.job = "", srv'.status = "ACTIVE"
  PROVE  u.busy \/ trouble' < u.left
<1>1. u.goal \in {"PAUSED", "SUSPENDED"}
  BY DEF WorkInv, RestoreInv
<1>2. /\ UNCHANGED trouble \/ (Trouble /\ trouble' < u.left)
      /\ Trouble => trouble' # trouble
  BY LeftTrouble DEF WorkInv
<1>3. pc' = "idle"
  BY FailDoes DEF FailsOver, FailsFinally
<1> SUFFICES ASSUME ~u.busy, UNCHANGED trouble, ~(trouble < u.left)
             PROVE  FALSE
  BY <1>2
<1>4. ~Trouble
  BY <1>2
<1>5. CASE pc = "restore" /\ Restore
  BY <1>3, <1>4, <1>5 DEF Restore, Get, Go, Exists
<1>6. CASE pc = "power" /\ Power
  <2>1. Exists /\ AtRest
    BY <1>6 DEF WorkInv, RestoreInv
  <2>2. CASE u.status = u.goal /\ UNCHANGED srv
    BY <1>1, <2>1, <2>2 DEF AtRest
  <2>3. CASE \E j \in PowerJobs :
               /\ From[j] = u.status
               /\ Call(Accepts({From[j]}), Working(j),
                       Go("powerwait", [u EXCEPT !.job = j]), Fail)
    BY <1>3, <1>4, <2>1, <2>3 DEF Call, Accepts, Idle, AtRest, Go
  <2> QED
    BY <1>6, <2>1, <2>2, <2>3 DEF Power, AtRest
<1>7. CASE pc = "powerwait" /\ PowerWait
  <2>1. /\ Exists /\ u.job \in PowerJobs
        /\ \/ srv.job = u.job
           \/ srv.job = "" /\ srv.status = To[u.job]
    BY <1>7 DEF WorkInv, RestoreInv
  <2>2. CASE Settled({To[u.job], From[u.job]})
    <3>1. srv.job = "" /\ srv.status = To[u.job]
      BY <2>1, <2>2 DEF Settled, NoTask, PowerJobs
    <3> QED
      BY <1>3, <1>4, <1>7, <2>2, <3>1 DEF PowerWait, Wait, Go
  <2>3. CASE ~Settled({To[u.job], From[u.job]})
    <3>1. srv.job = u.job
      BY <2>1, <2>3 DEF Settled, NoTask
    <3> QED
      BY <1>4, <1>7, <2>1, <2>3, <3>1 DEF PowerWait, Wait, Idle, PowerJobs
  <2> QED
    BY <2>2, <2>3
<1> QED
  BY <1>5, <1>6, <1>7 DEF Step, PutsBack

\* A paused or suspended server that Update brought up for a resize is put back
\* when the update fails, unless the deferred restore met trouble of its own or
\* found the server at work (PutBackOnFailure).
THEOREM LiftedIsPutBack == Spec => PutBackOnFailure
<1> DEFINE Tried ==
      /\ Ends("error") /\ u.lifted # None /\ u.cont # "final"
      /\ srv' # None /\ srv'.job = "" /\ srv'.status = "ACTIVE"
      => u.cont = "restored" /\ (u.busy \/ trouble' < u.left)
<1>1. IInv /\ WorkInv /\ [Next]_vars => Tried
  <2> SUFFICES ASSUME IInv, WorkInv, [Next]_vars, Ends("error"), u.lifted # None,
                      u.cont # "final", srv' # None, srv'.job = "", srv'.status = "ACTIVE"
               PROVE  u.cont = "restored" /\ (u.busy \/ trouble' < u.left)
    OBVIOUS
  <2>1. Step /\ Fail /\ u.restore = None
    BY EndsBadly DEF WorkInv
  <2>2. PutsBack
    BY <2>1 DEF WorkInv, LiftInv
  <2>3. u.cont = "restored"
    BY <2>2 DEF WorkInv, OpInv, PutsBack
  <2> QED
    BY <2>1, <2>2, <2>3, RestoreFails
<1>2. IInv /\ WorkInv /\ [Next]_vars => [Tried]_vars
  BY <1>1
<1> QED
  BY <1>2, WorkInvariance, PTL DEF Spec, PutBackOnFailure

\* A root volume that already holds the new image is not erased again, unless the
\* server is in ERROR or Cinder could not be read (RootErasedOnce).
THEOREM ErasedOnce == Spec => RootErasedOnce
<1> DEFINE Once ==
      VolumeBacked /\ pc = "reimage" /\ srv'.job = "rebuild" =>
        srv.image # cfg.image \/ srv.status = "ERROR" \/ u.unread
<1>1. IInv /\ WorkInv => Once
  BY DEF WorkInv, EraseInv
<1>2. IInv /\ WorkInv /\ [Next]_vars => [Once]_vars
  BY <1>1
<1> QED
  BY <1>2, WorkInvariance, PTL DEF Spec, RootErasedOnce
=============================================================================
