------------------------------ MODULE Instance ------------------------------
(***************************************************************************)
(* pcd_compute_instance (instance_resource.go): Terraform's row of one     *)
(* instance, and the steps of Create, Read, Update and Delete against the  *)
(* server of module Nova.  Every request can be refused, or accepted with  *)
(* its answer lost; every wait can time out or be cancelled.  An apply     *)
(* runs alone, but what an earlier one left in flight goes on under it.    *)
(***************************************************************************)
EXTENDS Nova, FiniteSets

CONSTANTS
    Me,             \* the user the provider authenticates as
    DefaultGroup,   \* the project's default security group
    Configs,        \* the configurations the user writes, in any order
    MaxEdits        \* how often the user changes the configuration

ASSUME InstanceAssumption ==
    /\ Me \in Users /\ DefaultGroup \in Groups /\ MaxEdits \in Nat
    /\ Configs \subseteq
         [there : BOOLEAN, flavor : Flavors, image : Images,
          power : Steady \cup {None}, owner : Users \cup {None},
          groups : (SUBSET Groups) \cup {None}]

VARIABLES
    cfg,        \* the configuration; cfg.there is FALSE to destroy
    edits,      \* how many more changes the user makes
    row,        \* the instance in Terraform's state
    pc, u,      \* the step of the apply in flight, and its local variables
    result      \* how the last apply ended

vars == <<cloud, srv, trouble, cfg, edits, row, pc, u, result>>

Attributes == {"flavor", "image", "power", "owner", "groups"}
\* blank: the row was written from an answer without the server, so its ID is "".
Rows == [flavor : Flavors, image : Images, power : Steady \cup {None},
         owner : Users \cup {None}, groups : (SUBSET Groups) \cup {None},
         tainted : BOOLEAN, blank : BOOLEAN]

\* No state row is not a row.
ASSUME RowAssumption == None \notin Rows

NoApply ==
    [op |-> "none", changed |-> {}, was |-> None, status |-> None,
     resizing |-> FALSE, target |-> None, restore |-> None, lifted |-> None,
     pre |-> None, first |-> FALSE, before |-> None, unread |-> FALSE,
     unconfirmed |-> FALSE, goal |-> None, job |-> None, cont |-> "none",
     have |-> {}, add |-> {}, remove |-> {}, left |-> 0, busy |-> FALSE]
Labels == {"idle", "boot", "bootwait", "owner", "strip", "live", "pending",
           "pendingwait", "rebuild", "reimage", "rebuildwait", "target",
           "power", "powerwait", "groups", "resize", "resizewait", "confirm",
           "confirmwait", "revert", "revertwait", "off", "final", "restore",
           "delete", "gonewait"}

\* The row a Create or an Update plans.
Planned == [flavor |-> cfg.flavor, image |-> cfg.image, power |-> cfg.power,
            owner |-> cfg.owner, groups |-> cfg.groups, tainted |-> FALSE,
            blank |-> FALSE]

\* Mutant of flatten: power_state takes any status.
flattenRaw(m) ==
    [m EXCEPT !.image = IF VolumeBacked THEN @ ELSE srv.image, !.power = srv.status,
              !.owner = srv.owner, !.groups = srv.groups]

\* What flatten makes of a row once it has read the server: it reads neither the
\* flavor nor the image of a volume, and a status that is no power state keeps the
\* last one.
flatten(m) ==
    [m EXCEPT !.image = IF VolumeBacked THEN @ ELSE srv.image,
              !.power = IF srv.status \in Steady THEN srv.status ELSE @,
              !.owner = srv.owner, !.groups = srv.groups]

\* The configured attributes the row differs in: what a plan shows.
Changed == {a \in Attributes : cfg[a] \notin {None, row[a]}}

-----------------------------------------------------------------------------
(* What one step does: go on, or end the apply.                            *)

Go(label, v) == pc' = label /\ u' = v /\ UNCHANGED <<row, result>>

Finish(res, m) == pc' = "idle" /\ u' = NoApply /\ result' = res /\ row' = m

\* Mutant of Fail: the deferred restore is missing.
FailWithoutRestore ==
    Finish("error", IF u.op = "create" /\ row # None
                    THEN [row EXCEPT !.tainted = TRUE] ELSE row)

\* An error ends the apply, by way of the deferred restore if Update brought the
\* server up for a resize.  Terraform taints what a failed Create recorded.
Fail ==
    IF u.restore # None
    THEN Go("restore", [u EXCEPT !.restore = None, !.goal = u.restore,
                                 !.cont = "restored", !.left = trouble])
    ELSE Finish("error", IF u.op = "create" /\ row # None
                         THEN [row EXCEPT !.tainted = TRUE] ELSE row)

\* A GET: a server that is gone is a 404, and any GET can fail.
Get(Then) ==
    /\ UNCHANGED srv
    /\ \/ UNCHANGED trouble /\ IF Exists THEN Then ELSE Fail
       \/ Trouble /\ Fail

\* A request: accepted and answered, accepted and the answer lost, or refused.
Call(can, becomes, Then, Otherwise) ==
    \/ can /\ UNCHANGED trouble /\ srv' = becomes /\ Then
    \/ can /\ Trouble /\ srv' \in {becomes, srv} /\ Otherwise
    \/ ~can /\ UNCHANGED <<srv, trouble>> /\ Otherwise

Settled(want) == Exists /\ NoTask /\ srv.status \in want

\* waitForServerSettled: no task in flight and a wanted status; ERROR without a
\* task, a timeout (at any time, or for good when nothing is in flight), a
\* cancellation and a failed GET are errors.
Wait(want, Then, Otherwise) ==
    /\ UNCHANGED srv
    /\ \/ Settled(want) /\ UNCHANGED trouble /\ Then
       \/ (Exists => Idle) /\ ~Settled(want) /\ UNCHANGED trouble /\ Otherwise
       \/ Trouble /\ Otherwise

-----------------------------------------------------------------------------
(* Terraform: refresh, plan, apply.                                        *)

\* Read: a server that is gone leaves the state.  The GET of no ID is one of the
\* list, in whose answer there is no server: a blank row stays as it is.
Read ==
    /\ pc = "idle" /\ row # None /\ ~row.blank
    /\ row' = IF Exists THEN flatten(row) ELSE None
    /\ UNCHANGED <<cloud, srv, trouble, cfg, edits, pc, u, result>>

Edit(c) ==
    /\ pc = "idle" /\ edits > 0 /\ c # cfg
    /\ cfg' = c /\ edits' = edits - 1
    /\ UNCHANGED <<cloud, srv, trouble, row, pc, u, result>>

\* The plan has changes; an apply of them starts.  Terraform replaces a tainted
\* instance: Delete, then Create.
Apply ==
    /\ pc = "idle"
    /\ \/ /\ row = None /\ cfg.there
          /\ Go("boot", [u EXCEPT !.op = "create"])
       \/ /\ row # None /\ (row.tainted \/ ~cfg.there)
          /\ Go("delete", [u EXCEPT !.op = "delete"])
       \/ /\ row # None /\ ~row.tainted /\ cfg.there /\ Changed # {}
          /\ Go("owner", [u EXCEPT !.op = "update", !.changed = Changed])
    /\ UNCHANGED <<cloud, srv, trouble, cfg, edits>>

-----------------------------------------------------------------------------
(* Create.                                                                 *)

\* Mutant of Record: the row is written only once the server is up.
RecordLater == UNCHANGED row

\* The row is recorded before the wait, so that a failed boot is tainted and not
\* forgotten.
Record == row' = Planned

\* The server a POST makes.  An empty list of groups is not sent.
Made(answered) ==
    Booted(cfg.flavor, cfg.image, Me,
           IF cfg.groups \in {None, {}} THEN {DefaultGroup} ELSE cfg.groups, answered)

\* POST /servers is answered; it is refused, or its answer is lost with the server
\* made; or a success without the server is recorded with an empty ID, whose wait,
\* on the list of servers, sees nothing become ACTIVE.  A server an earlier POST
\* made without an answer goes on existing; the model follows the latest one.
Boot ==
    \/ /\ UNCHANGED trouble /\ srv' = Made(TRUE)
       /\ Record /\ pc' = "bootwait" /\ UNCHANGED <<u, result>>
    \/ Trouble /\ srv' \in {srv, Made(FALSE)} /\ Fail
    \/ /\ Trouble /\ srv' = Made(FALSE)
       /\ Finish("error", [Planned EXCEPT !.tainted = TRUE, !.blank = TRUE])

\* waitForServerActive, which takes ERROR for a failure whatever the task.  The
\* row names the real owner while the configured one is being set.
BootWait ==
    /\ UNCHANGED srv
    /\ \/ /\ Exists /\ srv.status = "ACTIVE" /\ UNCHANGED trouble
          /\ pc' = "owner" /\ u' = [u EXCEPT !.status = "ACTIVE"]
          /\ row' = IF cfg.owner \in {None, srv.owner} THEN row ELSE flatten(Planned)
          /\ UNCHANGED result
       \/ (~Exists \/ srv.status = "ERROR") /\ UNCHANGED trouble /\ Fail
       \/ Trouble /\ Fail

\* changeInstanceOwner, for Create and Update: nothing is sent when the live
\* owner is the configured one.
ChangeOwner ==
    LET next == IF u.op = "create" THEN "strip" ELSE "live"
    IN  IF cfg.owner = None
        THEN Go(next, u) /\ UNCHANGED <<srv, trouble>>
        ELSE IF Exists /\ srv.owner = cfg.owner
        THEN Get(Go(next, u))
        ELSE Call(Exists, [srv EXCEPT !.owner = cfg.owner], Go(next, u), Fail)

\* Remove the groups Nova added to a server that shall have none, one request
\* each; then the power step.  (The code reads the server again only if it
\* changed something.)
Strip ==
    IF cfg.groups = {} /\ Exists /\ srv.groups # {}
    THEN \E g \in srv.groups :
            Call(TRUE, [srv EXCEPT !.groups = @ \ {g}], Go("strip", u), Fail)
    ELSE Get(IF cfg.power \in {None, "ACTIVE"}
             THEN Go("final", u)
             ELSE Go("power", [u EXCEPT !.status = srv.status, !.goal = cfg.power,
                                        !.cont = "final"]))

-----------------------------------------------------------------------------
(* Power.                                                                  *)

\* setPowerState moves the server from u.status to u.goal, through ACTIVE.  It
\* ends at u.cont, or reports the status it will not start from.
Power ==
    LET fit == {j \in PowerJobs :
                   /\ From[j] = u.status
                   /\ To[j] = IF u.status = "ACTIVE" THEN u.goal ELSE "ACTIVE"}
    IN  \/ u.status \notin Steady /\ Fail /\ UNCHANGED <<srv, trouble>>
        \/ /\ u.status \in Steady /\ u.status = u.goal
           /\ IF u.cont = "restored" THEN Fail ELSE Go(u.cont, u)
           /\ UNCHANGED <<srv, trouble>>
        \/ /\ u.status \in Steady /\ u.status # u.goal
           /\ \E j \in fit :
                Call(Accepts({From[j]}), Working(j), Go("powerwait", [u EXCEPT !.job = j]), Fail)

\* Mutant of PowerWait: a step that Nova undid counts as done.
PowerWaitAny ==
    Wait({To[u.job], From[u.job]},
         Go("power", [u EXCEPT !.status = To[u.job], !.job = None]), Fail)

\* A step Nova accepts and then fails ends where it started.
PowerWait ==
    Wait({To[u.job], From[u.job]},
         IF srv.status = To[u.job]
         THEN Go("power", [u EXCEPT !.status = srv.status, !.job = None])
         ELSE Fail,
         Fail)

\* The deferred restore reads the server again; its failure is not reported.
Restore ==
    Get(Go("power", [u EXCEPT !.status = srv.status, !.busy = ~Accepts(Steady)]))

-----------------------------------------------------------------------------
(* Update, before the resize.                                              *)

\* Mutant of ResizePending: a resize left unconfirmed counts as done.
ResizeNeverPending == FALSE

\* An earlier apply was interrupted after Nova put the server on the new flavor.
ResizePending ==
    /\ row.flavor # cfg.flavor /\ srv.flavor = cfg.flavor
    /\ srv.status = "VERIFY_RESIZE"

\* Mutant of LiveGroups: the groups the row holds.
RowGroups == row.groups

\* The groups the configured ones are compared with: those of the live read.
LiveGroups == srv.groups

\* The live read.  A server already on the new flavor is not resized again; one
\* still in VERIFY_RESIZE is confirmed first, and one in ERROR rebuilt first.
Live ==
    LET v == [u EXCEPT !.status = srv.status, !.was = IF Idle THEN srv.status ELSE None,
                       !.have = LiveGroups,
                       !.resizing = cfg.flavor \notin {row.flavor, srv.flavor}]
    IN  Get(IF ResizePending THEN Go("pending", v)
            ELSE IF srv.status = "ERROR" THEN Go("rebuild", [v EXCEPT !.first = TRUE])
            ELSE Go("target", v))

ConfirmPending ==
    Call(Accepts({"VERIFY_RESIZE"}), Working("confirm"), Go("pendingwait", u), Fail)

PendingWait ==
    Wait(Steady, Go("target", [u EXCEPT !.status = srv.status, !.have = LiveGroups]), Fail)

\* The power_state to reach, if any.  A status that is no power state blocks only
\* a power_state the plan changes.
Wanted ==
    IF cfg.power = u.status \/ (u.status \notin Steady /\ cfg.power = row.power)
    THEN None ELSE cfg.power

\* Nova resizes no paused or suspended server.
LiftForResize ==
    u.resizing /\ u.status \in {"PAUSED", "SUSPENDED"} /\ Wanted # "ACTIVE"

\* Power on first.  A server brought up only for the resize is put back: by the
\* last step, or by the deferred one when a step between them fails.
Target ==
    LET restore == IF LiftForResize /\ Wanted = None THEN u.status ELSE None
        v == [u EXCEPT
                !.target = IF restore = None THEN Wanted ELSE restore,
                !.restore = restore, !.lifted = restore,
                !.goal = "ACTIVE", !.cont = "groups",
                !.add = IF cfg.groups = None THEN {} ELSE cfg.groups \ u.have,
                !.remove = IF cfg.groups = None THEN {} ELSE u.have \ cfg.groups]
    IN  /\ Go(IF LiftForResize \/ Wanted = "ACTIVE" THEN "power" ELSE "groups", v)
        /\ UNCHANGED <<srv, trouble>>

AddGroup(g) ==
    Call(Exists, [srv EXCEPT !.groups = @ \cup {g}],
         Go("groups", [u EXCEPT !.add = @ \ {g}]), Fail)

\* A 404, for a group no port has any more or for a server that is gone, is fine.
RemoveGroup(g) ==
    LET removed == Go("groups", [u EXCEPT !.remove = @ \ {g}])
    IN  IF Exists
        THEN Call(TRUE, [srv EXCEPT !.groups = @ \ {g}], removed, Fail)
        ELSE UNCHANGED <<srv, trouble>> /\ removed

\* Mutant of SwapGroups: removes run first.
SwapGroupsRemoveFirst ==
    \/ \E g \in u.remove : RemoveGroup(g)
    \/ u.remove = {} /\ \E g \in u.add : AddGroup(g)
    \/ u.add = {} /\ u.remove = {} /\ Go("resize", u) /\ UNCHANGED <<srv, trouble>>

\* The groups the live read lacked, then those the configuration does not have.
SwapGroups ==
    \/ \E g \in u.add : AddGroup(g)
    \/ u.add = {} /\ \E g \in u.remove : RemoveGroup(g)
    \/ u.add = {} /\ u.remove = {} /\ Go("resize", u) /\ UNCHANGED <<srv, trouble>>

-----------------------------------------------------------------------------
(* The resize, the rebuild and the end of Update.                          *)

AfterResize == IF u.first THEN "off" ELSE "rebuild"

Resize ==
    IF ~u.resizing
    THEN Go(AfterResize, u) /\ UNCHANGED <<srv, trouble>>
    ELSE Call(Accepts({"ACTIVE", "SHUTOFF"}) /\ srv.flavor # cfg.flavor,
              Resizing(cfg.flavor), Go("resizewait", [u EXCEPT !.pre = u.status]), Fail)

\* Mutant of ResizeWait: a server back in its old status counts as resized.
ResizeWaitBlind ==
    Wait({"VERIFY_RESIZE", u.pre},
         IF srv.status = "VERIFY_RESIZE" THEN Go("confirm", u) ELSE Go(AfterResize, u),
         Go("revert", u))

\* The server settles in VERIFY_RESIZE, or back in its old status: on the new
\* flavor if the cloud confirmed the resize itself, on the old one if it failed.
ResizeWait ==
    Wait({"VERIFY_RESIZE", u.pre},
         IF srv.status = "VERIFY_RESIZE" THEN Go("confirm", u)
         ELSE IF srv.flavor = cfg.flavor THEN Go(AfterResize, u) ELSE Fail,
         Go("revert", u))

Confirm ==
    Call(Accepts({"VERIFY_RESIZE"}), Working("confirm"),
         Go("confirmwait", u), Go("revert", u))

ConfirmWait == Wait({u.pre}, Go(AfterResize, u), Fail)

\* Best effort: neither the revert nor its wait can change the outcome.
Revert ==
    Call(Accepts({"VERIFY_RESIZE"}), Reverting,
         Go("revertwait", u), Go("revertwait", u))

RevertWait == Wait({u.pre}, Fail, Fail)

AfterRebuild == IF u.first THEN "target" ELSE "off"

Rebuildable == Exists /\ NoTask /\ srv.status \in {"ACTIVE", "SHUTOFF", "ERROR"}

\* Mutant of HoldsImage: Cinder is not asked what the root volume holds.
HoldsNothing == FALSE

\* A root volume that holds the new image is not written again, except to get the
\* server out of ERROR.
HoldsImage == VolumeBacked /\ srv.image = cfg.image /\ srv.status # "ERROR"

\* rebuildIfImageChanged, to its request.  A Cinder that cannot tell what the
\* root volume holds does not stop the rebuild.
Rebuild ==
    IF row.image = cfg.image
    THEN Go(AfterRebuild, u) /\ UNCHANGED <<srv, trouble>>
    ELSE \/ Get(IF ~Rebuildable THEN Fail
                ELSE IF HoldsImage THEN Go(AfterRebuild, u)
                ELSE Go("reimage", [u EXCEPT !.before = srv.status]))
         \/ /\ VolumeBacked /\ Rebuildable /\ Trouble /\ UNCHANGED srv
            /\ Go("reimage", [u EXCEPT !.before = srv.status, !.unread = TRUE])

Reimage ==
    Call(Accepts({"ACTIVE", "SHUTOFF", "ERROR"}), Rebuilding(cfg.image),
         Go("rebuildwait", u), Fail)

\* Mutant of rebuildSettleTarget: a stopped server may settle as a running one.
rebuildSettlesEither(status) == {"ACTIVE", "SHUTOFF"}

rebuildSettleTarget(status) == IF status = "SHUTOFF" THEN {"SHUTOFF"} ELSE {"ACTIVE"}

\* The server, or its root volume, holds the new image.
RebuiltRight == srv.image = cfg.image

\* A Cinder that cannot be read is only warned about.
RebuildWait ==
    \/ Wait(rebuildSettleTarget(u.before),
            IF RebuiltRight THEN Go(AfterRebuild, [u EXCEPT !.status = srv.status]) ELSE Fail,
            Fail)
    \/ /\ VolumeBacked /\ Settled(rebuildSettleTarget(u.before))
       /\ Trouble /\ UNCHANGED srv
       /\ Go(AfterRebuild, [u EXCEPT !.status = srv.status, !.unconfirmed = TRUE])

\* The last power step is the restore: its failure is not retried.
Off ==
    /\ IF u.target \in {None, "ACTIVE"}
       THEN Go("final", u)
       ELSE Go("power", [u EXCEPT !.goal = u.target, !.cont = "final", !.restore = None])
    /\ UNCHANGED <<srv, trouble>>

Final == Get(Finish("ok", flatten(Planned)))

-----------------------------------------------------------------------------
(* Delete.                                                                 *)

\* Terraform goes on to Create when the instance is being replaced.
Gone ==
    /\ UNCHANGED <<srv, trouble>>
    /\ IF cfg.there
       THEN row' = None /\ pc' = "boot" /\ u' = [NoApply EXCEPT !.op = "create"]
            /\ UNCHANGED result
       ELSE Finish("ok", None)

\* The DELETE of no ID is one of the list, which Nova refuses.
Delete ==
    IF row.blank THEN UNCHANGED <<srv, trouble>> /\ Fail
    ELSE IF ~Exists THEN Gone
    ELSE Call(TRUE, Working("delete"), Go("gonewait", u), Fail)

\* Mutant of DeleteWait: a server in ERROR counts as gone.
DeleteWaitOnError ==
    \/ (Exists => srv.status = "ERROR") /\ Gone
    \/ Trouble /\ UNCHANGED srv /\ Fail

\* waitForServerDeleted: only a 404 ends it well, whatever the status.
DeleteWait ==
    \/ ~Exists /\ Gone
    \/ Trouble /\ UNCHANGED srv /\ Fail

-----------------------------------------------------------------------------
(* The specification.                                                      *)

Init ==
    /\ cloud \in Clouds /\ srv = None /\ row = None
    /\ trouble = MaxTrouble /\ edits = MaxEdits
    /\ cfg \in {c \in Configs : c.there}
    /\ pc = "idle" /\ u = NoApply /\ result = "none"

\* One step of the apply in flight.
Step ==
    /\ UNCHANGED <<cloud, cfg, edits>>
    /\ \/ pc = "boot" /\ Boot
       \/ pc = "bootwait" /\ BootWait
       \/ pc = "owner" /\ ChangeOwner
       \/ pc = "strip" /\ Strip
       \/ pc = "live" /\ Live
       \/ pc = "pending" /\ ConfirmPending
       \/ pc = "pendingwait" /\ PendingWait
       \/ pc = "target" /\ Target
       \/ pc = "power" /\ Power
       \/ pc = "powerwait" /\ PowerWait
       \/ pc = "groups" /\ SwapGroups
       \/ pc = "resize" /\ Resize
       \/ pc = "resizewait" /\ ResizeWait
       \/ pc = "confirm" /\ Confirm
       \/ pc = "confirmwait" /\ ConfirmWait
       \/ pc = "revert" /\ Revert
       \/ pc = "revertwait" /\ RevertWait
       \/ pc = "rebuild" /\ Rebuild
       \/ pc = "reimage" /\ Reimage
       \/ pc = "rebuildwait" /\ RebuildWait
       \/ pc = "off" /\ Off
       \/ pc = "final" /\ Final
       \/ pc = "restore" /\ Restore
       \/ pc = "delete" /\ Delete
       \/ pc = "gonewait" /\ DeleteWait

NovaWork == (Work \/ Fails) /\ UNCHANGED <<cloud, cfg, edits, row, pc, u, result>>

\* Other people act on the server between applies.
Others == pc = "idle" /\ Outside /\ UNCHANGED <<cloud, cfg, edits, row, pc, u, result>>

Next == Apply \/ Read \/ (\E c \in Configs : Edit(c)) \/ Step \/ NovaWork \/ Others

Spec == Init /\ [][Next]_vars

\* Every step of an apply returns, every job of Nova ends, and the user applies
\* again, now and then with a refresh, while the plan shows changes.
FairSpec ==
    /\ Spec /\ WF_vars(Step) /\ WF_vars(Apply) /\ SF_vars(Read)
    /\ WF_vars(Work /\ UNCHANGED <<cloud, cfg, edits, row, pc, u, result>>)

-----------------------------------------------------------------------------
(* Properties.                                                             *)

\* The variables keep their types: the row, the server and the step are ones the
\* code can be in.
TypeOK ==
    /\ cloud \in Clouds /\ srv \in Servers \cup {None} /\ trouble \in 0 .. MaxTrouble
    /\ cfg \in Configs /\ edits \in 0 .. MaxEdits /\ row \in Rows \cup {None}
    /\ pc \in Labels /\ result \in {"none", "ok", "error"}
    /\ DOMAIN u = DOMAIN NoApply
    /\ u.op \in {"none", "create", "update", "delete"} /\ u.changed \subseteq Attributes
    /\ {u.was, u.status, u.pre, u.before} \subseteq Statuses \cup {None}
    /\ {u.target, u.restore, u.lifted, u.goal} \subseteq Steady \cup {None}
    /\ u.job \in PowerJobs \cup {None} /\ u.cont \in Labels \cup {"none", "restored"}
    /\ u.have \cup u.add \cup u.remove \subseteq Groups

\* Between applies, a server is in the state by its ID, unless Nova's answer to its
\* POST was lost or lacked it: no later failure, of its boot, of an update, of its
\* replacement or of its deletion, leaves it behind.
NoServerForgotten ==
    pc = "idle" /\ Exists /\ srv.answered => row # None /\ ~row.blank

\* While Update swaps security groups, the server has every group it had before,
\* or every group it shall have.
GroupsNeverDip ==
    u.op = "update" /\ pc \in {"groups", "resize"} /\ Exists =>
        \/ u.have \subseteq srv.groups
        \/ cfg.groups # None /\ cfg.groups \subseteq srv.groups

Ends(res) == pc # "idle" /\ pc' = "idle" /\ result' = res

\* What an apply that ends well changed is so on the server, whatever an earlier
\* one left half done: the owner and the groups always, the image unless Cinder
\* could not confirm it (only warned about), the flavor if no work was in flight
\* when Update read the server.
ChangesAreReal == [][
    Ends("ok") /\ u.op \in {"create", "update"} =>
        /\ srv' # None
        /\ "flavor" \in u.changed /\ u.was # None => srv'.flavor = cfg.flavor
        /\ "image" \in u.changed => srv'.image = cfg.image \/ u.unconfirmed
        /\ cfg.owner # None => srv'.owner = cfg.owner
        /\ cfg.groups # None => srv'.groups = cfg.groups
    ]_vars

\* A configured power_state is reached by an apply that ends well, if no work was
\* in flight when it read the server.
PowerReached == [][
    Ends("ok") /\ cfg.power # None /\ (u.op = "create" \/ u.was \in Steady) =>
        srv' # None /\ srv'.status = cfg.power
    ]_vars

\* Without power_state, an apply that ends well leaves the server running, stopped,
\* paused or suspended as it found it, through a resize and a rebuild.
PowerKept == [][
    Ends("ok") /\ u.op = "update" /\ cfg.power = None /\ u.was \in Steady =>
        srv'.status = u.was
    ]_vars

\* An update that fails after it brought up a paused or suspended server for a
\* resize has tried to put it back, and did unless that went wrong as well: a call
\* of the restore failed, or it read a server that was still at work or resized.
PutBackOnFailure == [][
    /\ Ends("error") /\ u.lifted # None /\ u.cont # "final"
    /\ srv' # None /\ srv'.job = "" /\ srv'.status = "ACTIVE"
    => u.cont = "restored" /\ (u.busy \/ trouble' < u.left)
    ]_vars

\* A root volume that already holds the new image is not erased again, unless the
\* server is in ERROR or Cinder could not be read.
RootErasedOnce == [][
    VolumeBacked /\ pc = "reimage" /\ srv'.job = "rebuild" =>
        srv.image # cfg.image \/ srv.status = "ERROR" \/ u.unread
    ]_vars

\* The next apply confirms a resize an interrupted apply left in flight: an apply
\* of a flavor that ends well leaves no resize to confirm.
InterruptedResizeConfirmed == [][
    Ends("ok") /\ "flavor" \in u.changed =>
        srv'.status \notin {"RESIZE", "VERIFY_RESIZE"}
    ]_vars

\* Changing the flavor resizes the server: an apply of a new flavor that ends well
\* leaves the server on it.
FlavorReached == [][
    Ends("ok") /\ "flavor" \in u.changed => srv'.flavor = cfg.flavor
    ]_vars

\* A resize the cloud confirms on its own before the provider confirms it counts as
\* done: if nothing else went wrong, an apply whose resize Nova carried out does not
\* end in an error.
CloudConfirmCounts == [][
    Ends("error") /\ u.pre # None /\ trouble' = MaxTrouble => srv'.flavor # cfg.flavor
    ]_vars

\* A resize left in VERIFY_RESIZE whose flavor the row already has (see
\* InterruptedResizeConfirmed), or is not the configured one: no apply confirms it,
\* and until then Nova takes no other resize, rebuild or power request.
ResizeForgotten ==
    /\ Idle /\ srv.status = "VERIFY_RESIZE"
    /\ row.flavor = cfg.flavor \/ srv.flavor # cfg.flavor

\* What needs a person: a row without an ID, which no destroy takes out of the
\* state; a server in ERROR or in rescue mode; a forgotten resize; or a new image
\* for a paused or suspended server, which Nova does not rebuild.
NeedsPerson == row # None /\
    \/ row.blank
    \/ /\ Exists
       /\ \/ srv.status \in {"ERROR", "RESCUE"}
          \/ ResizeForgotten
          \/ /\ srv.status \in {"PAUSED", "SUSPENDED"} /\ cfg.power # "ACTIVE"
             /\ row.image # cfg.image

\* Applied again and again, a configuration is reached once things stop going wrong,
\* unless the server needs a person: no apply leaves a state the next one fails on
\* for ever, or plans the same change for ever.
Converges == <>[](
    \/ pc = "idle" /\ (row = None <=> ~cfg.there) /\ (row # None => Changed = {} /\ ~row.tainted)
    \/ NeedsPerson)
=============================================================================
