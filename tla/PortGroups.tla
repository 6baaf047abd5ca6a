----------------------------- MODULE PortGroups -----------------------------
(***************************************************************************)
(* pcd_networking_port_secgroup_associate: the security groups of a port,  *)
(* a list Neutron stores on the port and replaces whole.  Several          *)
(* associates may share a port; each locks the port's mutex, reads the     *)
(* port, computes the new list and writes it.                              *)
(*                                                                         *)
(* Unlike the route resources, these handlers do not ask whether a 200     *)
(* answer holds the port: the answer without it decodes to a port with no  *)
(* groups (port_resource.go says so of the same call).                     *)
(***************************************************************************)
EXTENDS KeyedMutex
CONSTANTS
    Groups,         \* security group IDs
    Plans,          \* [Resources -> sets of planned [managed, enforce]]
    EmptyAnswers    \* whether Neutron may answer 200 without the port

ASSUME PlanAssumption ==
    /\ \A r \in Resources :
          Plans[r] \subseteq [managed : SUBSET Groups, enforce : BOOLEAN]
    /\ EmptyAnswers \in BOOLEAN

VARIABLES
    groups,     \* Neutron: the groups on each port
    exists,     \* Neutron: the ports that exist
    rows,       \* Terraform state: the recorded row, or NoRow
    plan,       \* the plan the current operation applies
    pc,
    seen        \* the groups the operation's GET returned

vars == <<groups, exists, rows, owner, plan, pc, seen>>

Idle == "idle"
PCs == {Idle, "create_lock", "create_get", "create_put", "update_lock",
        "update_get", "update_put", "delete_lock", "delete_get", "delete_put"}

Plan == [managed : SUBSET Groups, enforce : BOOLEAN]
NoPlan == [managed |-> {}, enforce |-> FALSE]
NoRow == [managed |-> {}, enforce |-> FALSE, all |-> {}, there |-> FALSE]
Row(m, e, a) == [managed |-> m, enforce |-> e, all |-> a, there |-> TRUE]

TypeOK ==
    /\ groups \in [Parents -> SUBSET Groups]
    /\ exists \subseteq Parents
    /\ rows \in [Resources -> [managed : SUBSET Groups, enforce : BOOLEAN,
                               all : SUBSET Groups, there : BOOLEAN]]
    /\ owner \in MutexType
    /\ plan \in [Resources -> Plan]
    /\ pc \in [Resources -> PCs]
    /\ seen \in [Resources -> SUBSET Groups]

Init ==
    /\ groups \in [Parents -> SUBSET Groups]
    /\ exists = Parents
    /\ rows = [r \in Resources |-> NoRow]
    /\ owner = Unlocked
    /\ plan = [r \in Resources |-> NoPlan]
    /\ pc = [r \in Resources |-> Idle]
    /\ seen = [r \in Resources |-> {}]

-----------------------------------------------------------------------------
Goto(r, label) == pc' = [pc EXCEPT ![r] = label]
\* The handler returns: its locals are gone and the mutex is released.
Return(r) ==
    /\ Goto(r, Idle) /\ Unlock(r)
    /\ plan' = [plan EXCEPT ![r] = NoPlan]
    /\ seen' = [seen EXCEPT ![r] = {}]
Live(r) == ParentOf[r] \in exists

Begin(r, label) ==
    /\ pc[r] = Idle
    /\ Goto(r, label)
    /\ UNCHANGED <<groups, exists, rows, owner, seen>>

CreateBegin(r) ==
    /\ ~rows[r].there
    /\ \E p \in Plans[r] : plan' = [plan EXCEPT ![r] = p]
    /\ Begin(r, "create_lock")

UpdateBegin(r) ==
    /\ rows[r].there
    /\ \E p \in Plans[r] : plan' = [plan EXCEPT ![r] = p]
    /\ Begin(r, "update_lock")

DeleteBegin(r) ==
    /\ rows[r].there
    /\ UNCHANGED plan
    /\ Begin(r, "delete_lock")

Acquire(r) ==
    /\ \/ pc[r] = "create_lock" /\ Goto(r, "create_get")
       \/ pc[r] = "update_lock" /\ Goto(r, "update_get")
       \/ pc[r] = "delete_lock" /\ Goto(r, "delete_get")
    /\ Lock(r)
    /\ UNCHANGED <<groups, exists, rows, plan, seen>>

\* What the handler takes the port's groups to be.
Answers(r) == {groups[ParentOf[r]]} \cup (IF EmptyAnswers THEN {{}} ELSE {})

\* The GET of each operation: it fails, or the handler goes on with what it
\* read.  Only Delete takes a 404 for success.
Get(r) ==
    /\ pc[r] \in {"create_get", "update_get", "delete_get"}
    /\ \/ Return(r) /\ UNCHANGED rows
       \/ /\ pc[r] = "delete_get" /\ ~Live(r)
          /\ rows' = [rows EXCEPT ![r] = NoRow]
          /\ Return(r)
       \/ /\ Live(r)
          /\ \E a \in Answers(r) : seen' = [seen EXCEPT ![r] = a]
          /\ \/ pc[r] = "create_get" /\ Goto(r, "create_put")
             \/ pc[r] = "update_get" /\ Goto(r, "update_put")
             \/ pc[r] = "delete_get" /\ Goto(r, "delete_put")
          /\ UNCHANGED <<rows, plan, owner>>
    /\ UNCHANGED <<groups, exists>>

CreateList(r) ==
    IF plan[r].enforce THEN plan[r].managed
    ELSE seen[r] \cup plan[r].managed

\* Mutant of UpdateList: it takes off every group the row saw on the port.
UpdateListDropsAll(r) ==
    IF plan[r].enforce THEN plan[r].managed
    ELSE (seen[r] \ rows[r].all) \cup plan[r].managed

\* Update takes off the groups the new plan no longer lists.
UpdateList(r) ==
    IF plan[r].enforce THEN plan[r].managed
    ELSE (seen[r] \ (rows[r].managed \ plan[r].managed)) \cup plan[r].managed

DeleteList(r) ==
    IF rows[r].enforce THEN {} ELSE seen[r] \ rows[r].managed

\* updatePortSecurityGroups replaces the whole list; the PUT may be refused,
\* or applied with its answer lost.
Put(r, list, row) ==
    /\ \/ UNCHANGED <<groups, rows>>
       \/ /\ Live(r)
          /\ groups' = [groups EXCEPT ![ParentOf[r]] = list]
          /\ rows' \in {rows, [rows EXCEPT ![r] = row]}
    /\ Return(r)
    /\ UNCHANGED exists

CreatePut(r) ==
    /\ pc[r] = "create_put"
    /\ Put(r, CreateList(r), Row(plan[r].managed, plan[r].enforce, CreateList(r)))

UpdatePut(r) ==
    /\ pc[r] = "update_put"
    /\ Put(r, UpdateList(r), Row(plan[r].managed, plan[r].enforce, UpdateList(r)))

DeletePut(r) ==
    /\ pc[r] = "delete_put"
    /\ Put(r, DeleteList(r), NoRow)

\* Read reports every group of an exclusive associate, and of a shared one
\* only the groups it lists that the port still has.
Read(r) ==
    /\ pc[r] = Idle /\ rows[r].there
    /\ \/ ~Live(r) /\ rows' = [rows EXCEPT ![r] = NoRow]
       \/ /\ Live(r)
          /\ \E a \in Answers(r) :
                LET managed == IF rows[r].enforce THEN a ELSE rows[r].managed \cap a
                IN  rows' = [rows EXCEPT ![r] = Row(managed, rows[r].enforce, a)]
    /\ UNCHANGED <<groups, exists, owner, plan, pc, seen>>

\* An import adopts every group the port has.
Import(r) ==
    /\ pc[r] = Idle /\ ~rows[r].there /\ Live(r)
    /\ \E a \in Answers(r) : rows' = [rows EXCEPT ![r] = Row(a, FALSE, a)]
    /\ UNCHANGED <<groups, exists, owner, plan, pc, seen>>

DropPort(p) ==
    /\ p \in exists
    /\ exists' = exists \ {p}
    /\ groups' = [groups EXCEPT ![p] = {}]
    /\ UNCHANGED <<rows, owner, plan, pc, seen>>

Steps(r) == Acquire(r) \/ Get(r) \/ CreatePut(r) \/ UpdatePut(r) \/ DeletePut(r)

Next ==
    \/ \E r \in Resources : \/ CreateBegin(r) \/ UpdateBegin(r) \/ DeleteBegin(r)
                            \/ Read(r) \/ Import(r) \/ Steps(r)
    \/ \E p \in Parents : DropPort(p)

Spec == Init /\ [][Next]_vars

-----------------------------------------------------------------------------
(* Properties.                                                             *)

\* The groups an operation may touch: those its row or its plan lists.
Listed(r) == rows[r].managed \cup plan[r].managed
Exclusive(r) == rows[r].enforce \/ plan[r].enforce

SymDiff(S, T) == (S \ T) \cup (T \ S)

\* Updates and creates of shared associates change no group that the writer
\* neither lists nor listed, however the other writers of the port interleave.
OthersGroupsKept == [][\A p \in exists' : groups'[p] # groups[p] =>
    \E r \in Resources :
        /\ ParentOf[r] = p
        /\ pc[r] \in {"create_put", "update_put", "delete_put"}
        /\ Exclusive(r) \/ SymDiff(groups[p], groups'[p]) \subseteq Listed(r)]_vars

\* "With enforce = false (default) the listed groups are added to whatever the
\* port already has and only those are removed on destroy" (the resource's
\* description, port_secgroup_associate_resource.go).
DestroyRemovesOnlyListed == [][\A r \in Resources :
    pc[r] = "delete_put" /\ ~rows[r].enforce =>
        groups[ParentOf[r]] \ groups'[ParentOf[r]] \subseteq rows[r].managed
        \/ ParentOf[r] \notin exists']_vars
=============================================================================
