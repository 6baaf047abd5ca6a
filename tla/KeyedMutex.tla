----------------------------- MODULE KeyedMutex -----------------------------
(***************************************************************************)
(* neutronParentMu (networking.go): one mutex per parent ID, in each       *)
(* provider process.  The sub-resources that splice an entry into a list   *)
(* attribute of a shared parent hold it across their read and their write. *)
(***************************************************************************)
CONSTANTS
    Resources,  \* the sub-resources of the configuration
    Parents,    \* the IDs of the routers, subnets or ports they edit
    Procs,      \* provider processes, one per provider block
    ParentOf, ProcOf,
    NoOne       \* the owner of an unlocked mutex

ASSUME MutexAssumption ==
    /\ ParentOf \in [Resources -> Parents]
    /\ ProcOf \in [Resources -> Procs]
    /\ NoOne \notin Resources

VARIABLE owner  \* who holds each process's mutex of each parent

MutexType == [Procs -> [Parents -> Resources \cup {NoOne}]]
Unlocked == [q \in Procs |-> [p \in Parents |-> NoOne]]

\* The mutex of r's parent in r's process.
Holder(r) == owner[ProcOf[r]][ParentOf[r]]

\* Mutant of Lock: the operation does not wait for the mutex.
LockBarging(r) == owner' = [owner EXCEPT ![ProcOf[r]][ParentOf[r]] = r]

\* keyedMutex.Lock returns once the parent's mutex is free.
Lock(r) ==
    /\ Holder(r) = NoOne
    /\ owner' = [owner EXCEPT ![ProcOf[r]][ParentOf[r]] = r]

\* Mutants of Unlock: it never happens; it takes the mutex out of the map (as
\* a LoadAndDelete would, to keep the map from growing) while others wait on it.
UnlockForgotten(r) == UNCHANGED owner
UnlockDeletes(r) == owner' = [owner EXCEPT ![ProcOf[r]] =
    [p \in Parents \ {ParentOf[r]} |-> owner[ProcOf[r]][p]]]

\* The deferred keyedMutex.Unlock, on every way out of the handler.
Unlock(r) == owner' = [owner EXCEPT ![ProcOf[r]][ParentOf[r]] = NoOne]

\* A process that dies takes its mutexes with it.
MutexesDie(q) == owner' = [owner EXCEPT ![q] = [p \in Parents |-> NoOne]]

\* All the resources of a parent are managed through one provider block.
OneProcessPerParent == \A r, s \in Resources :
    ParentOf[r] = ParentOf[s] => ProcOf[r] = ProcOf[s]
=============================================================================
