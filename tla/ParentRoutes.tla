---------------------------- MODULE ParentRoutes ----------------------------
(***************************************************************************)
(* pcd_networking_router_route and pcd_networking_subnet_route.            *)
(*                                                                         *)
(* Each resource owns one entry of a list that Neutron stores on a parent  *)
(* and that can only be read and written whole.  Create and Delete lock    *)
(* the parent's mutex (networking.go, keyedMutex), GET the parent, splice  *)
(* the entry in or out, and PUT the list back.  The two resources share    *)
(* this code line for line, so one module models both.                     *)
(*                                                                         *)
(* Terraform runs the operations of different resources concurrently, one  *)
(* goroutine each, and starts one plugin process per provider block, so a  *)
(* mutex belongs to a process.                                             *)
(***************************************************************************)
EXTENDS KeyedMutex
CONSTANTS
    Entries,    \* (destination_cidr, next_hop) pairs
    EntryOf     \* [Resources -> Entries]

ASSUME EntryAssumption == EntryOf \in [Resources -> Entries]

VARIABLES
    routes,     \* Neutron: the list each parent holds
    exists,     \* Neutron: the parents that exist
    rows,       \* Terraform state: the recorded resources
    pc,         \* where each resource's operation stands
    seen,       \* the list the operation's GET returned
    contested   \* history: the entries that two rows may rightly name

vars == <<routes, exists, rows, owner, pc, seen, contested>>

Idle == "idle"
PCs == {Idle, "create_lock", "create_get", "create_put",
        "delete_lock", "delete_get", "delete_put"}

TypeOK ==
    /\ routes \in [Parents -> SUBSET Entries]
    /\ exists \subseteq Parents
    /\ rows \subseteq Resources
    /\ owner \in MutexType
    /\ pc \in [Resources -> PCs]
    /\ seen \in [Resources -> SUBSET Entries]
    /\ contested \in [Parents -> SUBSET Entries]

\* The parents may already hold entries nobody in this configuration manages.
Init ==
    /\ routes \in [Parents -> SUBSET Entries]
    /\ exists = Parents
    /\ rows = {}
    /\ owner = Unlocked
    /\ pc = [r \in Resources |-> Idle]
    /\ seen = [r \in Resources |-> {}]
    /\ contested = [p \in Parents |-> {}]

-----------------------------------------------------------------------------
Goto(r, label) == pc' = [pc EXCEPT ![r] = label]

Return(r) == Goto(r, Idle) /\ Unlock(r)

\* Terraform core runs Create for a planned resource without a row and Delete
\* for one with a row; one operation at a time per resource.
CreateBegin(r) ==
    /\ pc[r] = Idle /\ r \notin rows
    /\ Goto(r, "create_lock")
    /\ UNCHANGED <<routes, exists, rows, owner, seen, contested>>

CreateLock(r) ==
    /\ pc[r] = "create_lock"
    /\ Lock(r)
    /\ Goto(r, "create_get")
    /\ UNCHANGED <<routes, exists, rows, seen, contested>>

DeleteBegin(r) ==
    /\ pc[r] = Idle /\ r \in rows
    /\ Goto(r, "delete_lock")
    /\ UNCHANGED <<routes, exists, rows, owner, seen, contested>>

DeleteLock(r) ==
    /\ pc[r] = "delete_lock"
    /\ Lock(r)
    /\ Goto(r, "delete_get")
    /\ UNCHANGED <<routes, exists, rows, seen, contested>>

SameEntry(r, s) == ParentOf[r] = ParentOf[s] /\ EntryOf[r] = EntryOf[s]
Contest(r) == contested' = [contested EXCEPT ![ParentOf[r]] = @ \cup {EntryOf[r]}]

Present(r) == ParentOf[r] \in exists /\ EntryOf[r] \in routes[ParentOf[r]]

\* Mutant of CreateGet: the list is not searched for the entry.
CreateGetUnchecked(r) ==
    /\ pc[r] = "create_get"
    /\ \/ Return(r) /\ UNCHANGED seen
       \/ /\ ParentOf[r] \in exists
          /\ seen' = [seen EXCEPT ![r] = routes[ParentOf[r]]]
          /\ Goto(r, "create_put")
          /\ UNCHANGED owner
    /\ UNCHANGED <<routes, exists, rows, contested>>

\* A GET that fails, a 404, a 200 without the parent object and a list that
\* already holds the entry all end Create with an error and no row.
CreateGet(r) ==
    /\ pc[r] = "create_get"
    /\ \/ Return(r) /\ UNCHANGED seen
       \/ /\ ParentOf[r] \in exists /\ ~Present(r)
          /\ seen' = [seen EXCEPT ![r] = routes[ParentOf[r]]]
          /\ Goto(r, "create_put")
          /\ UNCHANGED owner
    /\ UNCHANGED <<routes, exists, rows, contested>>

\* The PUT replaces the parent's whole list.
Write(r, list) ==
    /\ ParentOf[r] \in exists
    /\ routes' = [routes EXCEPT ![ParentOf[r]] = list]

\* A PUT is refused, or applied with its answer lost (it is never retried, see
\* clients/retry.go), or applied and answered; only the last writes the row.
CreatePut(r) ==
    /\ pc[r] = "create_put"
    /\ \/ UNCHANGED <<routes, rows>>
       \/ Write(r, seen[r] \cup {EntryOf[r]}) /\ rows' \in {rows, rows \cup {r}}
    /\ Return(r)
    /\ UNCHANGED <<exists, seen, contested>>

\* Mutant of DeleteGet: a 200 without the parent is a parent without entries.
DeleteGetNilIsEmpty(r) ==
    /\ pc[r] = "delete_get"
    /\ seen' \in {[seen EXCEPT ![r] = {}],
                  [seen EXCEPT ![r] = routes[ParentOf[r]]]}
    /\ Goto(r, "delete_put")
    /\ UNCHANGED <<routes, exists, rows, owner, contested>>

\* Delete takes a 404 for done, and any other failed or empty answer for an
\* error that leaves the row.
DeleteGet(r) ==
    /\ pc[r] = "delete_get"
    /\ \/ Return(r) /\ UNCHANGED <<rows, seen>>
       \/ /\ ParentOf[r] \notin exists
          /\ rows' = rows \ {r}
          /\ Return(r)
          /\ UNCHANGED seen
       \/ /\ ParentOf[r] \in exists
          /\ seen' = [seen EXCEPT ![r] = routes[ParentOf[r]]]
          /\ Goto(r, "delete_put")
          /\ UNCHANGED <<rows, owner>>
    /\ UNCHANGED <<routes, exists, contested>>

\* The row of a removal that was applied and not answered names an entry the
\* parent no longer holds, which anyone may now add.
DeletePut(r) ==
    /\ pc[r] = "delete_put"
    /\ \/ UNCHANGED <<routes, rows, contested>>
       \/ /\ Write(r, seen[r] \ {EntryOf[r]})
          /\ \/ rows' = rows \ {r} /\ UNCHANGED contested
             \/ UNCHANGED rows /\ Contest(r)
    /\ Return(r)
    /\ UNCHANGED <<exists, seen>>

\* Read takes no lock.  Only a 404 or a list without the entry drops the row;
\* a failed or empty answer changes nothing.
Read(r) ==
    /\ pc[r] = Idle /\ r \in rows
    /\ ~Present(r)
    /\ rows' = rows \ {r}
    /\ UNCHANGED <<routes, exists, owner, pc, seen, contested>>

\* terraform import names the entry; the Read that follows keeps the row only
\* when the parent holds it.  It does not ask whether another row names it too.
Import(r) ==
    /\ pc[r] = Idle /\ r \notin rows
    /\ Present(r)
    /\ rows' = rows \cup {r}
    /\ IF \E s \in rows : SameEntry(r, s) THEN Contest(r) ELSE UNCHANGED contested
    /\ UNCHANGED <<routes, exists, owner, pc, seen>>

-----------------------------------------------------------------------------
(* The environment.                                                        *)

\* A router or subnet is deleted while operations are under way.
DropParent(p) ==
    /\ p \in exists
    /\ exists' = exists \ {p}
    /\ routes' = [routes EXCEPT ![p] = {}]
    /\ UNCHANGED <<rows, owner, pc, seen, contested>>

\* The provider process dies: its operations end and its mutexes with it.
Crash(q) ==
    /\ \E r \in Resources : ProcOf[r] = q /\ pc[r] # Idle
    /\ pc' = [r \in Resources |-> IF ProcOf[r] = q THEN Idle ELSE pc[r]]
    /\ MutexesDie(q)
    /\ UNCHANGED <<routes, exists, rows, seen, contested>>

Steps(r) == CreateLock(r) \/ CreateGet(r) \/ CreatePut(r)
            \/ DeleteLock(r) \/ DeleteGet(r) \/ DeletePut(r)

Next ==
    \/ \E r \in Resources :
          CreateBegin(r) \/ DeleteBegin(r) \/ Read(r) \/ Import(r) \/ Steps(r)
    \/ \E p \in Parents : DropParent(p)
    \/ \E q \in Procs : Crash(q)

Spec == Init /\ [][Next]_vars

\* A goroutine that can run does, and sync.Mutex hands the lock to a waiter
\* that has waited long enough, so a lock freed over and over is granted.
Fairness == \A r \in Resources :
    /\ SF_vars(CreateLock(r) \/ DeleteLock(r))
    /\ WF_vars(Steps(r))

FairSpec == Spec /\ Fairness

-----------------------------------------------------------------------------
(* Properties.                                                             *)

Holding(r) == pc[r] \in {"create_get", "create_put", "delete_get", "delete_put"}
Writing(r) == pc[r] \in {"create_put", "delete_put"}

\* An operation between Lock and the deferred Unlock owns its parent's mutex,
\* and nobody else's; a mutex owned has an operation that will release it
\* (keyedMutex.Lock and Unlock, networking.go).
MutexHeld ==
    /\ \A r \in Resources : Holding(r) => Holder(r) = r
    /\ \A r \in Resources, q \in Procs, p \in Parents :
          owner[q][p] = r => Holding(r) /\ ProcOf[r] = q /\ ParentOf[r] = p

\* The list an operation is about to write back was read from the parent and
\* nothing has changed it since: the read-modify-write loses no update.
SnapshotFresh == \A r \in Resources :
    Writing(r) /\ ParentOf[r] \in exists => seen[r] = routes[ParentOf[r]]

\* No two rows own one entry, or the destroy of one would take the other's
\* route away, but by an import of an entry that already had an owner, or after
\* a removal that was applied and not answered (the "Route already exists"
\* check of Create, whose list must be the one the mutex protects).
OwnedOnce == \A r, s \in rows :
    r # s /\ SameEntry(r, s) => EntryOf[r] \in contested[ParentOf[r]]

\* The row an uncontested entry belongs to tells the truth about its parent.
RowsHold == \A r \in rows :
    ParentOf[r] \in exists /\ EntryOf[r] \notin contested[ParentOf[r]] => Present(r)

\* Create runs without a row and adds what it saw absent; Delete has a row.
RowsMatchOperation == \A r \in Resources :
    /\ pc[r] \in {"create_lock", "create_get", "create_put"} => r \notin rows
    /\ pc[r] \in {"delete_lock", "delete_get", "delete_put"} => r \in rows
    /\ pc[r] = "create_put" => EntryOf[r] \notin seen[r]

\* The promise: to the rest of the world each operation is one atomic
\* addition or removal of the resource's own entry (AtomicRoutes).
Abstract == INSTANCE AtomicRoutes WITH routes <- routes, exists <- exists, rows <- rows
AtomicEdits == Abstract!Spec

\* Every operation that asks for a parent's mutex ends, whatever way the
\* operations before it ended.
OperationsEnd == \A r \in Resources : pc[r] # Idle ~> pc[r] = Idle
=============================================================================
