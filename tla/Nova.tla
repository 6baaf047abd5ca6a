-------------------------------- MODULE Nova --------------------------------
(***************************************************************************)
(* One server as Nova (external to the repository) shows it to the         *)
(* provider: the requests it accepts and when, and the work it does after  *)
(* it has answered 202.  A request Nova accepts can still fail later.      *)
(***************************************************************************)
EXTENDS Naturals

CONSTANTS
    Flavors, Images, Users, Groups,
    MaxTrouble,     \* how many things may go wrong in a behaviour
    None,           \* no server, no state row, or an attribute left out
    Clouds          \* the clouds the server may live in

ASSUME NovaAssumption ==
    /\ Clouds \subseteq [volume : BOOLEAN, confirms : BOOLEAN]
    /\ MaxTrouble \in Nat

VARIABLES
    cloud,      \* never changes
    srv,
    trouble     \* how many more things may go wrong

\* The server boots from a volume, not from an image.
VolumeBacked == cloud.volume
\* The cloud sets resize_confirm_window.
CloudConfirms == cloud.confirms

Steady == {"ACTIVE", "SHUTOFF", "PAUSED", "SUSPENDED"}
Statuses == Steady \cup {"BUILD", "RESIZE", "VERIFY_RESIZE", "REVERT_RESIZE",
                         "REBUILD", "RESCUE", "ERROR"}

\* The power jobs: the status each starts from and the one it ends in.
PowerJobs == {"start", "unpause", "resume", "stop", "pause", "suspend"}
From == [start |-> "SHUTOFF", unpause |-> "PAUSED", resume |-> "SUSPENDED",
         stop |-> "ACTIVE", pause |-> "ACTIVE", suspend |-> "ACTIVE"]
To == [start |-> "ACTIVE", unpause |-> "ACTIVE", resume |-> "ACTIVE",
       stop |-> "SHUTOFF", pause |-> "PAUSED", suspend |-> "SUSPENDED"]
Jobs == PowerJobs \cup {"", "build", "resize", "finish_resize", "confirm",
                        "revert", "rebuild", "poweroff", "delete"}

\* job is the work in flight; other the flavor a resize would move to, or the
\* one it could be reverted to; back the status the server had before it; next
\* the image a rebuild writes.  answered is history: the answer to the POST that
\* made the server reached the provider, with the server in it.
Servers == [status : Statuses, job : Jobs, flavor : Flavors, other : Flavors,
            image : Images, next : Images, owner : Users,
            groups : SUBSET Groups, back : Steady, answered : BOOLEAN]

\* No server is not a server, and an attribute left out not a status.
ASSUME NoneAssumption == None \notin Servers /\ None \notin Statuses

Exists == srv # None

\* OS-EXT-STS:task_state is empty.  A server whose resize is being confirmed,
\* or that a rebuild is about to power off again, shows no task either.
NoTask == srv.job \in {"", "confirm", "poweroff"}
Idle == Exists /\ srv.job = ""

-----------------------------------------------------------------------------
(* Requests: when Nova accepts one, and what the server becomes at once.   *)

Accepts(statuses) == Idle /\ srv.status \in statuses

Booted(flavor, image, user, groups, answered) ==
    [status |-> "BUILD", job |-> "build", flavor |-> flavor, other |-> flavor,
     image |-> image, next |-> image, owner |-> user, groups |-> groups,
     back |-> "ACTIVE", answered |-> answered]

Working(job) == [srv EXCEPT !.job = job]

Resizing(flavor) == [srv EXCEPT !.status = "RESIZE", !.job = "resize",
                                !.other = flavor, !.back = srv.status]

Reverting == [srv EXCEPT !.status = "REVERT_RESIZE", !.job = "revert"]

\* Nova records the image at once; a volume is rewritten later.
Rebuilding(image) ==
    [srv EXCEPT !.job = "rebuild", !.next = image,
                !.status = IF @ = "ERROR" THEN @ ELSE "REBUILD",
                !.back = IF srv.status = "SHUTOFF" THEN "SHUTOFF" ELSE "ACTIVE",
                !.image = IF VolumeBacked THEN @ ELSE image]

-----------------------------------------------------------------------------
(* Work Nova does on its own, after it has answered.                       *)

End(status) == srv' = [srv EXCEPT !.status = status, !.job = "", !.next = srv.image]

Works(job) == Exists /\ srv.job = job

FinishBuild == Works("build") /\ End("ACTIVE")

FinishPower == Exists /\ srv.job \in PowerJobs /\ End(To[srv.job])

\* Nova puts the server on the new flavor before VERIFY_RESIZE.
ProgressResize ==
    /\ Works("resize")
    /\ srv' = [srv EXCEPT !.job = "finish_resize", !.flavor = srv.other,
                          !.other = srv.flavor]

FinishResize == Works("finish_resize") /\ End("VERIFY_RESIZE")

CloudConfirm ==
    /\ CloudConfirms /\ Accepts({"VERIFY_RESIZE"})
    /\ srv' = Working("confirm")

FinishConfirm == Works("confirm") /\ End(srv.back)

FinishRevert ==
    /\ Works("revert")
    /\ srv' = [srv EXCEPT !.status = srv.back, !.job = "", !.flavor = srv.other]

\* A stopped server comes out of a rebuild running, and is then powered off.
FinishRebuild ==
    /\ Works("rebuild")
    /\ srv' = [srv EXCEPT !.status = "ACTIVE", !.image = srv.next,
                          !.job = IF srv.back = "SHUTOFF" THEN "poweroff" ELSE ""]

FinishPoweroff == Works("poweroff") /\ End("SHUTOFF")

FinishDelete == Works("delete") /\ srv' = None

Work ==
    /\ UNCHANGED trouble
    /\ \/ FinishBuild \/ FinishPower \/ ProgressResize \/ FinishResize
       \/ CloudConfirm \/ FinishConfirm \/ FinishRevert \/ FinishRebuild
       \/ FinishPoweroff \/ FinishDelete

Trouble == trouble > 0 /\ trouble' = trouble - 1

\* Nova accepted the request and fails it.  A power step and a resize no host
\* has room for leave the server where it was; the others leave it in ERROR.  A
\* rebuild can also end well with the volume not written.
Fails ==
    /\ Exists /\ Trouble
    /\ \/ srv.job \in PowerJobs /\ End(From[srv.job])
       \/ srv.job = "resize" /\ End(srv.back)
       \/ srv.job \in {"build", "resize", "finish_resize", "rebuild"} /\ End("ERROR")
       \/ VolumeBacked /\ srv.job = "rebuild" /\ End("ACTIVE")
       \/ /\ VolumeBacked /\ srv.job = "rebuild"
          /\ srv' = [srv EXCEPT !.status = "ERROR", !.job = "", !.image = srv.next]

\* Someone changes the server outside Terraform, or its host fails.
Outside ==
    /\ Accepts(Steady \cup {"RESCUE", "ERROR"}) /\ Trouble
    /\ \/ \E s \in (Steady \cup {"RESCUE", "ERROR"}) \ {srv.status} : End(s)
       \/ srv' = None
       \/ \E u \in Users \ {srv.owner} : srv' = [srv EXCEPT !.owner = u]
       \/ \E g \in (SUBSET Groups) \ {srv.groups} : srv' = [srv EXCEPT !.groups = g]
=============================================================================
