------------------------------ MODULE Octavia ------------------------------
(***************************************************************************)
(* Octavia (external to the repository) as the provider's comments and     *)
(* calls describe it: one load balancer and what hangs below it.  A request *)
(* is answered before its work is done, and the work locks the whole load  *)
(* balancer: a request on a child needs it ACTIVE and makes it             *)
(* PENDING_UPDATE until the work ends.                                     *)
(***************************************************************************)
EXTENDS Naturals

CONSTANTS
    Root,       \* the load balancer
    Children,   \* its listeners and pools, and their members and monitors
    Parent,     \* what each child hangs below
    Unique,     \* children Octavia refuses a second of (a member of a given
                \* address and port, the monitor of a pool, a listener's port)
    Values,     \* what an object is configured to be
    None,
    MaxTrouble  \* how many things may go wrong in a behaviour

Objects == Children \cup {Root}

ASSUME OctaviaAssumption ==
    /\ Root \notin Children /\ Unique \subseteq Children
    /\ Parent \in [Children -> Objects]
    /\ \A c \in Children : Parent[c] # Root => Parent[Parent[c]] = Root
    /\ None \notin Values /\ MaxTrouble \in Nat

VARIABLES
    status,     \* provisioning status of each object, "none" when it is not there
    value,      \* what each object was last asked to be
    stale,      \* a GET still reports the ERROR of before an accepted DELETE
    trouble     \* how many more things may go wrong

octaviaVars == <<status, value, stale, trouble>>

Transient == {"PENDING_CREATE", "PENDING_UPDATE", "PENDING_DELETE"}

OctaviaType ==
    /\ status \in [Objects -> Transient \cup {"none", "ACTIVE", "ERROR"}]
    /\ value \in [Objects -> Values \cup {None}]
    /\ stale \in BOOLEAN /\ trouble \in 0 .. MaxTrouble

OctaviaInit ==
    /\ status = [o \in Objects |-> "none"] /\ value = [o \in Objects |-> None]
    /\ stale = FALSE /\ trouble = MaxTrouble

Trouble == trouble > 0 /\ trouble' = trouble - 1
Calm == UNCHANGED trouble

Exists(o) == status[o] # "none"
Below(o) == IF o = Root THEN Children ELSE {c \in Children : Parent[c] = o}

\* What a GET of the load balancer reports.
provisioningStatus == IF stale THEN "ERROR" ELSE status[Root]

\* The objects of a set are gone from s, and what they were asked to be with them.
Without(s, gone) == [o \in Objects |-> IF o \in gone THEN "none" ELSE s[o]]
Forgotten == value' = [o \in Objects |-> IF status'[o] = "none" THEN None ELSE value[o]]

-----------------------------------------------------------------------------
(* Requests.                                                               *)

\* Work on o begins; below the load balancer it locks the load balancer.
Begun(s, o, work) == [s EXCEPT ![Root] = "PENDING_UPDATE", ![o] = work]

Asked(o, v) ==
    /\ value' = [p \in Objects |-> IF p = o THEN v
                               ELSE IF status'[p] = "none" THEN None ELSE value[p]]
    /\ Calm /\ UNCHANGED stale

\* POST.  An unrecorded object this one does not clash with stays behind, out of
\* the model's sight, and what hangs below it with it.
Postable(c) ==
    status[Root] = "ACTIVE" /\ Exists(Parent[c]) /\ ~(c \in Unique /\ Exists(c))
PostChild(c, v) ==
    /\ Postable(c) /\ status' = Begun(Without(status, Below(c)), c, "PENDING_CREATE")
    /\ Asked(c, v)

\* POST of a load balancer.  One Terraform does not know of stays behind in the same
\* way.
PostRoot(v) ==
    /\ status' = [o \in Objects |-> IF o = Root THEN "PENDING_CREATE" ELSE "none"]
    /\ value' = [o \in Objects |-> IF o = Root THEN v ELSE None]
    /\ stale' = FALSE

\* PUT.
Put(o, v) ==
    /\ status[Root] = "ACTIVE" /\ Exists(o)
    /\ status' = Begun(status, o, "PENDING_UPDATE") /\ Asked(o, v)

\* DELETE of a child, and the cascading DELETE of the load balancer, which is
\* accepted in ERROR too.
DeleteChild(c) ==
    /\ status[Root] = "ACTIVE" /\ Exists(c)
    /\ status' = Begun(status, c, "PENDING_DELETE")
    /\ Calm /\ UNCHANGED <<value, stale>>
DeleteRoot ==
    /\ status[Root] \in {"ACTIVE", "ERROR"}
    /\ \/ stale' = FALSE
       \/ status[Root] = "ERROR" /\ stale' = TRUE
    /\ status' = [status EXCEPT ![Root] = "PENDING_DELETE"]
    /\ Calm /\ UNCHANGED value

-----------------------------------------------------------------------------
(* What Octavia does meanwhile.                                            *)

\* Work on a child ends.  It may fail, which leaves the child in ERROR and the load
\* balancer unlocked, and something else may put the load balancer in ERROR.
FinishChild(c) ==
    /\ status[Root] = "PENDING_UPDATE" /\ status[c] \in Transient
    /\ LET done == IF status[c] = "PENDING_DELETE"
                   THEN Without(status, Below(c) \cup {c})
                   ELSE [status EXCEPT ![c] = "ACTIVE"]
       IN  \/ status' = [done EXCEPT ![Root] = "ACTIVE"] /\ Calm
           \/ status' = [status EXCEPT ![c] = "ERROR", ![Root] = "ACTIVE"] /\ Trouble
           \/ status' = [done EXCEPT ![Root] = "ERROR"] /\ Trouble
    /\ Forgotten /\ UNCHANGED stale

\* Work on the load balancer itself ends.
FinishRoot ==
    /\ status[Root] \in Transient
    /\ status[Root] = "PENDING_UPDATE" => \A c \in Children : status[c] \notin Transient
    /\ \/ /\ status' = IF status[Root] = "PENDING_DELETE" THEN Without(status, Objects)
                       ELSE [status EXCEPT ![Root] = "ACTIVE"]
          /\ Calm
       \/ status' = [status EXCEPT ![Root] = "ERROR"] /\ Trouble
    /\ stale' = FALSE /\ Forgotten

\* The accepted DELETE shows.
ShowDelete == stale /\ stale' = FALSE /\ Calm /\ UNCHANGED <<status, value>>

\* Somebody else deletes a child or the load balancer, or it breaks by itself.
Outside ==
    /\ \/ status[Root] \in {"ACTIVE", "ERROR"} /\ status' = Without(status, Objects)
       \/ status[Root] = "ACTIVE" /\ status' = [status EXCEPT ![Root] = "ERROR"]
       \/ /\ status[Root] = "ACTIVE"
          /\ \E c \in Children : Exists(c) /\ status' = Without(status, Below(c) \cup {c})
    /\ Forgotten /\ Trouble /\ UNCHANGED stale

\* The operator repairs a load balancer in ERROR, as the provider's warning asks.
Repair ==
    /\ status[Root] = "ERROR" /\ status' = [status EXCEPT ![Root] = "ACTIVE"]
    /\ Calm /\ UNCHANGED <<value, stale>>

OctaviaWork == (\E c \in Children : FinishChild(c)) \/ FinishRoot \/ ShowDelete

OctaviaNext == OctaviaWork \/ Outside \/ Repair
=============================================================================
