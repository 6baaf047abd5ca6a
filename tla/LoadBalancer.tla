---------------------------- MODULE LoadBalancer ----------------------------
(***************************************************************************)
(* pcd_lb_loadbalancer, pcd_lb_listener, pcd_lb_pool, pcd_lb_member and    *)
(* pcd_lb_monitor: Terraform creates, updates and deletes a load balancer  *)
(* and its children, siblings at the same time.  The four kinds of child   *)
(* have the same handlers: they wait for the load balancer, send their     *)
(* request, and wait again.                                                *)
(***************************************************************************)
EXTENDS Octavia

CONSTANTS
    First,      \* what every object is configured to be at first
    MaxEdits    \* how often the configuration may change

Rows == [value : Values, tainted : BOOLEAN]

ASSUME RowAssumption == First \in Values /\ MaxEdits \in Nat /\ None \notin Rows

VARIABLES
    want,       \* the configuration: the value of each object, None if not in it
    edits,      \* how many more changes it may see
    row,        \* Terraform state of each object
    todo,       \* what the running apply has not begun yet
    doing,      \* the operation that runs on each object
    at,         \* and its next step
    told,       \* how the object's operation of this apply ended
    unanswered  \* the last load balancer was made without Terraform being told of it

lbVars == <<want, edits, row, todo, doing, at, told, unanswered>>
vars == <<octaviaVars, lbVars>>

\* "leaving" is waitForLoadBalancerDeleted once seenNonError is true.
Steps == {"idle", "resolve", "before", "call", "after", "leaving", "read"}

LoadBalancerType ==
    /\ want \in [Objects -> Values \cup {None}] /\ edits \in 0 .. MaxEdits
    /\ row \in [Objects -> Rows \cup {None}] /\ todo \subseteq Objects
    /\ doing \in [Objects -> {"nothing", "create", "update", "delete"}]
    /\ at \in [Objects -> Steps]
    /\ told \in [Objects -> {"nothing", "ok", "error"}] /\ unanswered \in BOOLEAN

TypeOK == OctaviaType /\ LoadBalancerType

\* A configuration names the parent of what it names.
Configurations == {w \in [Objects -> Values \cup {None}] :
    \A c \in Children : w[c] # None => w[Parent[c]] # None}

Init ==
    /\ OctaviaInit
    /\ want = [o \in Objects |-> First]
    /\ edits = MaxEdits
    /\ row = [o \in Objects |-> None] /\ todo = {}
    /\ doing = [o \in Objects |-> "nothing"] /\ at = [o \in Objects |-> "idle"]
    /\ told = [o \in Objects |-> "nothing"] /\ unanswered = FALSE

-----------------------------------------------------------------------------
(* Terraform.                                                              *)

Idle(o) == at[o] = "idle"
Recorded(o) == row[o] # None

\* What an apply has to do about o: a tainted object is deleted, and created again
\* by a later apply.
Operation(r, w, o) ==
    IF r[o] = None THEN IF w[o] = None THEN "nothing" ELSE "create"
    ELSE IF w[o] = None \/ r[o].tainted THEN "delete"
    ELSE IF r[o].value = w[o] THEN "nothing" ELSE "update"

\* Mutant of readInto: the answer for an object that is gone is taken for one.
readIntoBlank(o) == IF ~Recorded(o) THEN None ELSE [row[o] EXCEPT !.value = value[o]]

\* Mutant of readInto: an object that is gone keeps its row.
readIntoKeeping(o) == IF ~Recorded(o) \/ ~Exists(o) THEN row[o]
                      ELSE [row[o] EXCEPT !.value = value[o]]

\* Read: the row takes the object's value; only a 404 drops it.
readInto(o) == IF ~Recorded(o) \/ ~Exists(o) THEN None
               ELSE [row[o] EXCEPT !.value = value[o]]

\* Dependents come after what they depend on, and before it when it is deleted; a
\* failure skips them.
Startable(o) ==
    /\ o \in todo /\ Idle(o)
    /\ \A c \in Below(o) : Idle(c)
    /\ o # Root => Idle(Root) /\ Idle(Parent[o])
    /\ IF Operation(row, want, o) = "delete" THEN \A c \in Below(o) : ~Recorded(c)
       ELSE o # Root => /\ Parent[o] \notin todo /\ told[Parent[o]] # "error"
                        /\ Recorded(Parent[o]) /\ ~row[Parent[o]].tainted

\* An apply is over once nothing runs and nothing can be begun.
Done == \A o \in Objects : Idle(o) /\ ~Startable(o)

\* The next apply: the configuration may have changed, every row is refreshed and the
\* differences are what there is to do.
Apply ==
    /\ Done
    /\ \/ UNCHANGED <<want, edits>>
       \/ edits > 0 /\ edits' = edits - 1 /\ want' \in Configurations \ {want}
    /\ row' = [o \in Objects |-> readInto(o)]
    /\ todo' = {o \in Objects : Operation(row', want', o) # "nothing"}
    /\ told' = [o \in Objects |-> "nothing"]
    /\ <<row, want>>' # <<row, want>> \/ todo' # {}
    /\ UNCHANGED <<octaviaVars, doing, at, unanswered>>

\* ImportState: between two applies the operator imports an object that has no row.
ImportState(o) ==
    /\ Done /\ Exists(o) /\ ~Recorded(o) /\ want[o] # None
    /\ o # Root => Recorded(Parent[o])
    /\ row' = [row EXCEPT ![o] = [value |-> value[o], tainted |-> FALSE]]
    /\ todo' = {}
    /\ UNCHANGED <<octaviaVars, want, edits, doing, at, told, unanswered>>

\* Create and Delete of the load balancer send their request at once; members and
\* monitors resolve the load balancer from their pool first.
Begin(o) ==
    /\ Startable(o)
    /\ doing' = [doing EXCEPT ![o] = Operation(row, want, o)]
    /\ at' = [at EXCEPT ![o] =
         IF o # Root THEN IF Parent[o] = Root THEN "before" ELSE "resolve"
         ELSE IF doing'[Root] = "update" THEN "before" ELSE "call"]
    /\ todo' = todo \ {o}
    /\ UNCHANGED <<octaviaVars, want, edits, row, told, unanswered>>

-----------------------------------------------------------------------------
(* The handlers.                                                           *)

Go(o, step) ==
    /\ at' = [at EXCEPT ![o] = step]
    /\ UNCHANGED <<want, edits, todo, doing, told, unanswered>>

End(o, outcome, r) ==
    /\ doing' = [doing EXCEPT ![o] = "nothing"] /\ at' = [at EXCEPT ![o] = "idle"]
    /\ told' = [told EXCEPT ![o] = outcome] /\ row' = [row EXCEPT ![o] = r]
    /\ UNCHANGED <<want, edits, todo, unanswered>>

\* An operation that fails leaves the row as it is.
Failed(o) == End(o, "error", row[o])
Dropped(o) == End(o, "ok", None)

\* Any request or poll may fail, and a wait may run into its ten minutes.
AnyFailure(o) == ~Idle(o) /\ Trouble /\ Failed(o) /\ UNCHANGED <<status, value, stale>>

\* rootLBIDFromPool.  A Delete takes a pool that is gone for the end of its child.
ResolveRoot(o) ==
    /\ o # Root /\ at[o] = "resolve"
    /\ \/ Exists(Parent[o]) /\ Go(o, "before") /\ UNCHANGED row
       \/ ~Exists(Parent[o]) /\ doing[o] = "delete" /\ Dropped(o)
       \/ ~Exists(Parent[o]) /\ doing[o] # "delete" /\ Failed(o)
    /\ UNCHANGED octaviaVars

\* waitForLoadBalancerActive fails as soon as the load balancer is in ERROR or gone.
waitForLoadBalancerActive(o, next) ==
    \/ provisioningStatus = "ACTIVE" /\ next
    \/ provisioningStatus \in {"ERROR", "none"} /\ Failed(o)

\* waitForLoadBalancerSettled takes those for settled too.
waitForLoadBalancerSettled(next) == provisioningStatus \notin Transient /\ next

WaitBefore(o) ==
    /\ at[o] = "before"
    /\ LET call == Go(o, "call") /\ UNCHANGED row
       IN  IF doing[o] = "delete" THEN waitForLoadBalancerSettled(call)
           ELSE waitForLoadBalancerActive(o, call)
    /\ UNCHANGED octaviaVars

\* Create of a child: refused with 409 or 404 when somebody else got there first.
CreateChild(o) ==
    /\ o # Root /\ at[o] = "call" /\ doing[o] = "create"
    /\ \/ PostChild(o, want[o]) /\ Go(o, "after") /\ UNCHANGED row
       \/ ~Postable(o) /\ Failed(o) /\ UNCHANGED octaviaVars

\* Mutant of CreateRoot: the row waits for the load balancer, as the children's do.
CreateRootUnrecorded ==
    /\ at[Root] = "call" /\ doing[Root] = "create"
    /\ PostRoot(want[Root]) /\ Calm /\ Go(Root, "after") /\ UNCHANGED row

\* Create of the load balancer: recorded before the wait, which can fail on ERROR,
\* unless the answer to its POST is lost or without the load balancer.
CreateRoot ==
    /\ at[Root] = "call" /\ doing[Root] = "create"
    /\ PostRoot(want[Root])
    /\ \/ /\ Calm /\ unanswered' = FALSE
          /\ row' = [row EXCEPT ![Root] = [value |-> want[Root], tainted |-> TRUE]]
          /\ at' = [at EXCEPT ![Root] = "after"] /\ UNCHANGED <<doing, told>>
       \/ /\ Trouble /\ unanswered' = TRUE
          /\ at' = [at EXCEPT ![Root] = "idle"] /\ UNCHANGED row
          /\ doing' = [doing EXCEPT ![Root] = "nothing"]
          /\ told' = [told EXCEPT ![Root] = "error"]
    /\ UNCHANGED <<want, edits, todo>>

Update(o) ==
    /\ at[o] = "call" /\ doing[o] = "update"
    /\ \/ Put(o, want[o]) /\ Go(o, "after") /\ UNCHANGED row
       \/ ~(status[Root] = "ACTIVE" /\ Exists(o)) /\ Failed(o) /\ UNCHANGED octaviaVars

\* Mutant of Delete: an accepted DELETE is taken for done.
DeleteWithoutWait(o) ==
    /\ o # Root /\ at[o] = "call" /\ doing[o] = "delete"
    /\ \/ DeleteChild(o) /\ Dropped(o)
       \/ ~Exists(o) /\ Dropped(o) /\ UNCHANGED octaviaVars
       \/ Exists(o) /\ status[Root] # "ACTIVE" /\ Failed(o) /\ UNCHANGED octaviaVars

\* Delete: 404 is success, 409 is not.
Delete(o) ==
    /\ o # Root /\ at[o] = "call" /\ doing[o] = "delete"
    /\ \/ DeleteChild(o) /\ Go(o, "after") /\ UNCHANGED row
       \/ ~Exists(o) /\ Dropped(o) /\ UNCHANGED octaviaVars
       \/ Exists(o) /\ status[Root] # "ACTIVE" /\ Failed(o) /\ UNCHANGED octaviaVars

DeleteLoadBalancer ==
    /\ at[Root] = "call" /\ doing[Root] = "delete"
    /\ \/ DeleteRoot /\ Go(Root, "after") /\ UNCHANGED row
       \/ ~Exists(Root) /\ Dropped(Root) /\ UNCHANGED octaviaVars
       \/ status[Root] \in Transient /\ Failed(Root) /\ UNCHANGED octaviaVars

\* A child is recorded when the load balancer is ACTIVE again, tainted until read back.
RecordCreated(o) == row' = [row EXCEPT ![o] = [value |-> want[o], tainted |-> TRUE]]

\* A Delete ends well however the load balancer has settled.
WaitAfter(o) ==
    /\ at[o] = "after" /\ ~(o = Root /\ doing[o] = "delete")
    /\ IF doing[o] = "delete" THEN waitForLoadBalancerSettled(Dropped(o))
       ELSE waitForLoadBalancerActive(o,
              /\ Go(o, "read")
              /\ IF doing[o] = "create" THEN RecordCreated(o) ELSE UNCHANGED row)
    /\ UNCHANGED octaviaVars

\* The row takes what is there; nothing there is an error, and after a Create it
\* leaves no row.
ReadBack(o) ==
    /\ at[o] = "read"
    /\ \/ Exists(o) /\ End(o, "ok", [value |-> value[o], tainted |-> FALSE])
       \/ ~Exists(o) /\ doing[o] = "create" /\ End(o, "error", None)
       \/ ~Exists(o) /\ doing[o] = "update" /\ Failed(o)
    /\ UNCHANGED octaviaVars

\* Mutant of waitForLoadBalancerDeleted: ERROR fails the deletion at once.
waitForLoadBalancerDeletedHasty ==
    /\ at[Root] \in {"after", "leaving"} /\ doing[Root] = "delete"
    /\ \/ provisioningStatus = "none" /\ Dropped(Root)
       \/ provisioningStatus = "ERROR" /\ Failed(Root)
    /\ UNCHANGED octaviaVars

\* ERROR fails a deletion once the load balancer was seen to leave it.  One that
\* Octavia has given up, whatever was seen, runs into the deadline.
waitForLoadBalancerDeleted ==
    /\ at[Root] \in {"after", "leaving"} /\ doing[Root] = "delete"
    /\ \/ provisioningStatus = "none" /\ Dropped(Root)
       \/ /\ provisioningStatus \in Transient \cup {"ACTIVE"}
          /\ at[Root] = "after" /\ Go(Root, "leaving") /\ UNCHANGED row
       \/ provisioningStatus = "ERROR" /\ at[Root] = "leaving" /\ Failed(Root)
       \/ status[Root] \in {"ACTIVE", "ERROR"} /\ Failed(Root)
    /\ UNCHANGED octaviaVars

Handle(o) ==
    \/ ResolveRoot(o) \/ WaitBefore(o) \/ CreateChild(o) \/ Update(o) \/ Delete(o)
    \/ WaitAfter(o) \/ ReadBack(o)

HandleRoot == CreateRoot \/ DeleteLoadBalancer \/ waitForLoadBalancerDeleted

Next ==
    \/ \E o \in Objects : Begin(o) \/ Handle(o) \/ AnyFailure(o)
    \/ HandleRoot \/ Apply \/ (\E o \in Objects : ImportState(o))
    \/ OctaviaNext /\ UNCHANGED lbVars

\* Terraform is run until there is nothing to do, its handlers and Octavia run on,
\* and a load balancer in ERROR is repaired.
Fairness ==
    /\ \A o \in Objects : WF_vars(Begin(o)) /\ WF_vars(Handle(o))
    /\ WF_vars(HandleRoot) /\ WF_vars(Apply)
    /\ WF_vars(OctaviaWork /\ UNCHANGED lbVars) /\ WF_vars(Repair /\ UNCHANGED lbVars)

Spec == Init /\ [][Next]_vars
FairSpec == Spec /\ Fairness

-----------------------------------------------------------------------------
(* Properties.                                                             *)

\* A load balancer whose Create was answered with it has a row for as long as it
\* exists: also when its build failed, a wait timed out or its deletion failed (the
\* comment in loadbalancer_resource.go's Create).  One whose POST was answered
\* without it, or not at all, is left for somebody to import.
NothingLeftBehind == Exists(Root) => Recorded(Root) \/ unanswered

\* An operation that ends well leaves no work of its own behind, whatever its
\* siblings, earlier applies that gave up waiting, and failures in between did: what
\* was created or updated is there as its row says, a deleted load balancer is gone,
\* and a deleted child is gone or in the ERROR its failed deletion left.
Honest(o) ==
    IF row'[o] # None
    THEN Exists(o) /\ status[o] \notin Transient /\ row'[o].value = value[o]
    ELSE status[o] \in {"none", IF o = Root THEN "none" ELSE "ERROR"}
SettledWhenDone == [][\A o \in Objects :
    told'[o] = "ok" /\ told[o] # "ok" => Honest(o)]_vars

\* The Delete of a load balancer gives up only on one that Octavia is not deleting,
\* never because the ERROR it was deleted in still shows (waitForLoadBalancerDeleted).
GivesUp ==
    /\ doing[Root] = "delete" /\ at[Root] \in {"after", "leaving"}
    /\ at'[Root] = "idle" /\ told'[Root] = "error" /\ Calm
DeletionSeenThrough == [][GivesUp => status[Root] # "PENDING_DELETE"]_vars

\* A child Octavia has and Terraform does not, which Octavia refuses a second of: the
\* price of recording a child only after its wait (the known gap of
\* failed_create_internal_test.go).
Orphan(c) == c \in Unique /\ Exists(c) /\ ~Recorded(c)

AsConfigured(o) ==
    IF want[o] = None THEN ~Recorded(o) /\ (o = Root => ~Exists(o) \/ unanswered)
    ELSE /\ Recorded(o) /\ ~row[o].tainted /\ row[o].value = want[o]
         /\ Exists(o) /\ value[o] = want[o]

\* However applies interleave, fail, time out or collide, running Terraform again
\* brings every object to its configuration, but for orphans and for a load balancer
\* no answer told of.
Converges == <>[](\A o \in Objects : AsConfigured(o) \/ (o # Root /\ Orphan(o)))
=============================================================================
