---------------------------- MODULE AtomicRoutes ----------------------------
(***************************************************************************)
(* What the route sub-resources promise: every one of them adds or removes *)
(* its own entry on its parent (a router or a subnet) in one atomic step,  *)
(* whatever the others do meanwhile.  ParentRoutes implements this with a  *)
(* read, a splice and a write under a mutex.                               *)
(***************************************************************************)
CONSTANTS
    Resources,  \* the route resources of the configuration
    Parents,    \* router and subnet IDs
    Entries,    \* (destination_cidr, next_hop) pairs
    ParentOf,   \* [Resources -> Parents]
    EntryOf     \* [Resources -> Entries]

VARIABLES
    routes,     \* the list each parent holds, as a set
    exists,     \* the parents Neutron still has
    rows        \* the resources recorded in the Terraform state

vars == <<routes, exists, rows>>

Init ==
    /\ routes \in [Parents -> SUBSET Entries]
    /\ exists = Parents
    /\ rows = {}

With(r) == [routes EXCEPT ![ParentOf[r]] = @ \cup {EntryOf[r]}]
Without(r) == [routes EXCEPT ![ParentOf[r]] = @ \ {EntryOf[r]}]

\* The entry is new on the parent; the row may fail to be written when the
\* answer to the write is lost.
Add(r) ==
    /\ r \notin rows /\ ParentOf[r] \in exists
    /\ EntryOf[r] \notin routes[ParentOf[r]]
    /\ routes' = With(r)
    /\ rows' \in {rows, rows \cup {r}}
    /\ UNCHANGED exists

Remove(r) ==
    /\ r \in rows /\ ParentOf[r] \in exists
    /\ routes' = Without(r)
    /\ rows' \in {rows, rows \ {r}}
    /\ UNCHANGED exists

\* A row is forgotten only when its entry is not on the parent.
Forget(r) ==
    /\ r \in rows
    /\ ParentOf[r] \notin exists \/ EntryOf[r] \notin routes[ParentOf[r]]
    /\ rows' = rows \ {r}
    /\ UNCHANGED <<routes, exists>>

Adopt(r) ==
    /\ r \notin rows
    /\ ParentOf[r] \in exists /\ EntryOf[r] \in routes[ParentOf[r]]
    /\ rows' = rows \cup {r}
    /\ UNCHANGED <<routes, exists>>

DropParent(p) ==
    /\ p \in exists
    /\ exists' = exists \ {p}
    /\ routes' = [routes EXCEPT ![p] = {}]
    /\ UNCHANGED rows

Next ==
    \/ \E r \in Resources : Add(r) \/ Remove(r) \/ Forget(r) \/ Adopt(r)
    \/ \E p \in Parents : DropParent(p)

Spec == Init /\ [][Next]_vars
=============================================================================
