-------------------------- MODULE PortGroupsProofs --------------------------
(***************************************************************************)
(* The associates of a port leave each other's groups alone, for any       *)
(* number of associates, ports and groups.                                 *)
(***************************************************************************)
EXTENDS PortGroups, TLAPS

\* Between Lock and the deferred Unlock, and with a list to write.
Waiting(r) == pc[r] \in {"create_lock", "update_lock", "delete_lock"}
Holding(r) == pc[r] # Idle /\ ~Waiting(r)
Writing(r) == pc[r] \in {"create_put", "update_put", "delete_put"}

\* What OthersGroupsKept rests on: an operation at work holds its port's mutex,
\* so what it has read is what the port still has when it writes.
Locked == \A r \in Resources : Holding(r) => Holder(r) = r
Fresh == \A r \in Resources :
    Writing(r) /\ Live(r) => seen[r] = groups[ParentOf[r]]

-----------------------------------------------------------------------------
(* What each kind of step does to the types.                               *)

LEMMA PlansTyped ==
  ASSUME NEW r \in Resources, NEW p \in Plans[r]
  PROVE  p \in Plan
  BY PlanAssumption DEF Plan

LEMMA OwnerTyped ==
  ASSUME TypeOK, NEW r \in Resources, NEW h \in Resources \cup {NoOne},
         owner' = [owner EXCEPT ![ProcOf[r]][ParentOf[r]] = h]
  PROVE  owner' \in MutexType
<1>1. ProcOf[r] \in Procs /\ ParentOf[r] \in Parents
  BY MutexAssumption
<1>2. [owner[ProcOf[r]] EXCEPT ![ParentOf[r]] = h]
        \in [Parents -> Resources \cup {NoOne}]
  BY <1>1 DEF TypeOK, MutexType
<1> QED
  BY <1>1, <1>2 DEF TypeOK, MutexType

LEMMA OwnerAt ==
  ASSUME TypeOK, NEW r \in Resources, NEW h,
         owner' = [owner EXCEPT ![ProcOf[r]][ParentOf[r]] = h]
  PROVE  \A s \in Resources :
            Holder(s)' = IF ProcOf[s] = ProcOf[r] /\ ParentOf[s] = ParentOf[r]
                         THEN h ELSE Holder(s)
<1>1. \A s \in Resources : ProcOf[s] \in Procs /\ ParentOf[s] \in Parents
  BY MutexAssumption
<1> QED
  BY <1>1 DEF TypeOK, MutexType, Holder

LEMMA GotoTyped ==
  ASSUME TypeOK, NEW r \in Resources, NEW label \in PCs, Goto(r, label)
  PROVE  pc' \in [Resources -> PCs]
  BY DEF TypeOK, Goto

LEMMA ReturnTyped ==
  ASSUME TypeOK, NEW r \in Resources, Return(r)
  PROVE  /\ pc' \in [Resources -> PCs]
         /\ owner' \in MutexType
         /\ plan' \in [Resources -> Plan]
         /\ seen' \in [Resources -> SUBSET Groups]
<1>1. Goto(r, Idle) /\ Idle \in PCs
  BY DEF Return, PCs
<1>2. owner' \in MutexType
  BY OwnerTyped DEF Return, Unlock
<1>3. NoPlan \in Plan
  BY DEF NoPlan, Plan
<1> QED
  BY <1>1, <1>2, <1>3, GotoTyped DEF Return, TypeOK

\* A row of the type TypeOK asks for.
IsRow(x) == x \in [managed : SUBSET Groups, enforce : BOOLEAN,
                   all : SUBSET Groups, there : BOOLEAN]

LEMMA RowTyped ==
  ASSUME NEW m \in SUBSET Groups, NEW e \in BOOLEAN, NEW a \in SUBSET Groups
  PROVE  IsRow(Row(m, e, a)) /\ IsRow(NoRow)
  BY DEF IsRow, Row, NoRow

LEMMA RowsTyped ==
  ASSUME TypeOK, NEW r \in Resources, NEW x, IsRow(x),
         rows' = [rows EXCEPT ![r] = x]
  PROVE  rows' \in [Resources -> [managed : SUBSET Groups, enforce : BOOLEAN,
                                  all : SUBSET Groups, there : BOOLEAN]]
  BY DEF TypeOK, IsRow

LEMMA AnswersTyped ==
  ASSUME TypeOK, NEW r \in Resources, NEW a \in Answers(r)
  PROVE  a \in SUBSET Groups
<1>1. groups[ParentOf[r]] \in SUBSET Groups
  BY MutexAssumption DEF TypeOK
<1> QED
  BY <1>1 DEF Answers

LEMMA PutTyped ==
  ASSUME TypeOK, NEW r \in Resources, NEW list \in SUBSET Groups,
         NEW row, IsRow(row), Put(r, list, row)
  PROVE  TypeOK'
<1>1. groups' \in [Parents -> SUBSET Groups]
  BY DEF Put, TypeOK
<1>2. rows' = rows \/ rows' = [rows EXCEPT ![r] = row]
  BY DEF Put
<1>3. rows' \in [Resources -> [managed : SUBSET Groups, enforce : BOOLEAN,
                               all : SUBSET Groups, there : BOOLEAN]]
  BY <1>2, RowsTyped DEF TypeOK
<1>4. Return(r) /\ UNCHANGED exists
  BY DEF Put
<1> QED
  BY <1>1, <1>3, <1>4, ReturnTyped DEF TypeOK

LEMMA ListsTyped ==
  ASSUME TypeOK, NEW r \in Resources
  PROVE  /\ CreateList(r) \in SUBSET Groups
         /\ UpdateList(r) \in SUBSET Groups
         /\ DeleteList(r) \in SUBSET Groups
         /\ plan[r].managed \in SUBSET Groups /\ plan[r].enforce \in BOOLEAN
<1>1. /\ seen[r] \in SUBSET Groups
      /\ plan[r].managed \in SUBSET Groups /\ plan[r].enforce \in BOOLEAN
  BY DEF TypeOK, Plan
<1> QED
  BY <1>1 DEF CreateList, UpdateList, DeleteList

\* Every variable keeps its type: in particular what an associate writes to the
\* port, and what it records, are groups of the plan, the row and the port.
THEOREM TypeCorrect == Spec => []TypeOK
<1>1. Init => TypeOK
  <2>1. NoPlan \in Plan /\ IsRow(NoRow)
    BY DEF NoPlan, Plan, NoRow, IsRow
  <2> QED
    BY <2>1 DEF Init, TypeOK, MutexType, Unlocked, PCs, Idle, IsRow
<1>2. TypeOK /\ [Next]_vars => TypeOK'
  <2> SUFFICES ASSUME TypeOK, [Next]_vars PROVE TypeOK'
    OBVIOUS
  <2>0. {"create_lock", "create_get", "create_put", "update_lock", "update_get",
         "update_put", "delete_lock", "delete_get", "delete_put"} \subseteq PCs
    BY DEF PCs
  <2>1. ASSUME NEW r \in Resources, CreateBegin(r) \/ UpdateBegin(r)
        PROVE TypeOK'
    <3>1. pc' \in [Resources -> PCs]
      BY <2>0, <2>1, GotoTyped DEF CreateBegin, UpdateBegin, Begin
    <3>2. PICK p \in Plans[r] : plan' = [plan EXCEPT ![r] = p]
      BY <2>1 DEF CreateBegin, UpdateBegin
    <3>3. plan' \in [Resources -> Plan]
      BY <3>2, PlansTyped DEF TypeOK
    <3> QED
      BY <2>1, <3>1, <3>3 DEF CreateBegin, UpdateBegin, Begin, TypeOK
  <2>2. ASSUME NEW r \in Resources, DeleteBegin(r) PROVE TypeOK'
    <3>1. pc' \in [Resources -> PCs]
      BY <2>0, <2>2, GotoTyped DEF DeleteBegin, Begin
    <3> QED
      BY <2>2, <3>1 DEF DeleteBegin, Begin, TypeOK
  <2>3. ASSUME NEW r \in Resources, Acquire(r) PROVE TypeOK'
    <3>1. pc' \in [Resources -> PCs]
      BY <2>0, <2>3, GotoTyped DEF Acquire
    <3>2. owner' \in MutexType
      BY <2>3, OwnerTyped DEF Acquire, Lock
    <3> QED
      BY <2>3, <3>1, <3>2 DEF Acquire, TypeOK
  <2>4. ASSUME NEW r \in Resources, Get(r) PROVE TypeOK'
    <3>1. CASE Return(r) /\ UNCHANGED rows
      BY <2>4, <3>1, ReturnTyped DEF Get, TypeOK
    <3>2. CASE Return(r) /\ rows' = [rows EXCEPT ![r] = NoRow]
      <4>1. IsRow(NoRow)
        BY DEF IsRow, NoRow
      <4> QED
        BY <2>4, <3>2, <4>1, ReturnTyped, RowsTyped DEF Get, TypeOK
    <3>3. CASE /\ \E a \in Answers(r) : seen' = [seen EXCEPT ![r] = a]
               /\ \E label \in {"create_put", "update_put", "delete_put"} : Goto(r, label)
               /\ UNCHANGED <<rows, plan, owner>>
      <4>1. pc' \in [Resources -> PCs]
        BY <2>0, <3>3, GotoTyped
      <4>2. seen' \in [Resources -> SUBSET Groups]
        BY <3>3, AnswersTyped DEF TypeOK
      <4> QED
        BY <2>4, <3>3, <4>1, <4>2 DEF Get, TypeOK
    <3> QED
      BY <2>4, <3>1, <3>2, <3>3 DEF Get
  <2>5. ASSUME NEW r \in Resources, CreatePut(r) \/ UpdatePut(r) \/ DeletePut(r)
        PROVE TypeOK'
    <3>1. /\ IsRow(NoRow)
          /\ IsRow(Row(plan[r].managed, plan[r].enforce, CreateList(r)))
          /\ IsRow(Row(plan[r].managed, plan[r].enforce, UpdateList(r)))
      BY ListsTyped, RowTyped
    <3> QED
      BY <2>5, <3>1, ListsTyped, PutTyped DEF CreatePut, UpdatePut, DeletePut
  <2>6. ASSUME NEW r \in Resources, Read(r) \/ Import(r) PROVE TypeOK'
    <3>1. rows[r].managed \in SUBSET Groups /\ rows[r].enforce \in BOOLEAN
      BY DEF TypeOK
    <3>2. \A a \in Answers(r) :
            /\ IsRow(Row(a, FALSE, a)) /\ IsRow(NoRow)
            /\ IsRow(Row(IF rows[r].enforce THEN a ELSE rows[r].managed \cap a,
                         rows[r].enforce, a))
      BY <3>1, AnswersTyped, RowTyped
    <3>3. PICK x : IsRow(x) /\ rows' = [rows EXCEPT ![r] = x]
      <4>1. CASE rows' = [rows EXCEPT ![r] = NoRow]
        <5>1. IsRow(NoRow)
          BY DEF IsRow, NoRow
        <5> QED
          BY <4>1, <5>1
      <4>2. CASE \E a \in Answers(r) : rows' = [rows EXCEPT ![r] = Row(a, FALSE, a)]
        BY <3>2, <4>2
      <4>3. CASE \E a \in Answers(r) :
              rows' = [rows EXCEPT ![r] =
                  Row(IF rows[r].enforce THEN a ELSE rows[r].managed \cap a,
                      rows[r].enforce, a)]
        BY <3>2, <4>3
      <4> QED
        BY <2>6, <4>1, <4>2, <4>3 DEF Read, Import
    <3>4. UNCHANGED <<groups, exists, owner, plan, pc, seen>>
      BY <2>6 DEF Read, Import
    <3> QED
      BY <3>3, <3>4, RowsTyped DEF TypeOK
  <2>7. ASSUME NEW p \in Parents, DropPort(p) PROVE TypeOK'
    BY <2>7 DEF DropPort, TypeOK
  <2>8. CASE UNCHANGED vars
    BY <2>8 DEF vars, TypeOK
  <2> QED
    BY <2>1, <2>2, <2>3, <2>4, <2>5, <2>6, <2>7, <2>8 DEF Next, Steps
<1> QED
  BY <1>1, <1>2, PTL DEF Spec

-----------------------------------------------------------------------------
(* Mutual exclusion, and what it is for.                                   *)

LEMMA ReturnUnlocks ==
  ASSUME TypeOK, Locked, NEW r \in Resources, Holding(r), Return(r)
  PROVE  /\ Locked'
         /\ \A s \in Resources : Holding(s)' <=> s # r /\ Holding(s)
<1>1. \A s \in Resources : pc'[s] = IF s = r THEN Idle ELSE pc[s]
  BY DEF Return, Goto, TypeOK
<1>2. \A s \in Resources : Holding(s)' <=> s # r /\ Holding(s)
  BY <1>1 DEF Holding, Waiting
<1>3. \A s \in Resources :
        Holder(s)' = IF ProcOf[s] = ProcOf[r] /\ ParentOf[s] = ParentOf[r]
                     THEN NoOne ELSE Holder(s)
  BY OwnerAt DEF Return, Unlock
<1>4. ASSUME NEW s \in Resources, Holding(s)' PROVE Holder(s)' = s
  <2>1. s # r /\ Holder(s) = s /\ Holder(r) = r
    BY <1>2, <1>4 DEF Locked
  <2>2. ~(ProcOf[s] = ProcOf[r] /\ ParentOf[s] = ParentOf[r])
    BY <2>1 DEF Holder
  <2> QED
    BY <1>3, <2>1, <2>2
<1> QED
  BY <1>2, <1>4 DEF Locked

LEMMA LockedStep ==
  ASSUME TypeOK, Locked, [Next]_vars
  PROVE  Locked'
<1>1. ASSUME NEW r \in Resources, CreateBegin(r) \/ UpdateBegin(r) \/ DeleteBegin(r)
      PROVE  Locked'
  <2>1. UNCHANGED owner /\ \E label \in {"create_lock", "update_lock", "delete_lock"} :
                              Goto(r, label)
    BY <1>1 DEF CreateBegin, UpdateBegin, DeleteBegin, Begin
  <2>2. \A s \in Resources : Holding(s)' => Holding(s)
    BY <2>1 DEF Goto, Holding, Waiting, TypeOK
  <2> QED
    BY <2>1, <2>2 DEF Locked, Holder
<1>2. ASSUME NEW r \in Resources, Acquire(r) PROVE Locked'
  <2>1. Holder(r) = NoOne /\ owner' = [owner EXCEPT ![ProcOf[r]][ParentOf[r]] = r]
    BY <1>2 DEF Acquire, Lock
  <2>2. \A s \in Resources : Holding(s)' => s = r \/ Holding(s)
    BY <1>2 DEF Acquire, Goto, Holding, Waiting, TypeOK
  <2>3. \A s \in Resources :
          Holder(s)' = IF ProcOf[s] = ProcOf[r] /\ ParentOf[s] = ParentOf[r]
                       THEN r ELSE Holder(s)
    BY <2>1, OwnerAt
  <2>4. ASSUME NEW s \in Resources, Holding(s)', s # r PROVE Holder(s)' = s
    <3>1. Holder(s) = s
      BY <2>2, <2>4 DEF Locked
    <3>2. s # NoOne
      BY MutexAssumption
    <3>3. ~(ProcOf[s] = ProcOf[r] /\ ParentOf[s] = ParentOf[r])
      BY <2>1, <3>1, <3>2 DEF Holder
    <3> QED
      BY <2>3, <3>1, <3>3
  <2> QED
    BY <2>3, <2>4 DEF Locked
<1>3. ASSUME NEW r \in Resources, Get(r) PROVE Locked'
  <2>1. Holding(r)
    BY <1>3 DEF Get, Holding, Waiting, Idle
  <2>2. CASE Return(r)
    BY <2>1, <2>2, ReturnUnlocks
  <2>3. CASE ~Return(r)
    <3>1. UNCHANGED owner /\ \A s \in Resources : s # r => pc'[s] = pc[s]
      BY <1>3, <2>3 DEF Get, Goto, TypeOK
    <3> QED
      BY <2>1, <3>1 DEF Locked, Holder, Holding, Waiting
  <2> QED
    BY <2>2, <2>3
<1>4. ASSUME NEW r \in Resources, CreatePut(r) \/ UpdatePut(r) \/ DeletePut(r)
      PROVE  Locked'
  <2>1. Holding(r) /\ Return(r)
    BY <1>4 DEF CreatePut, UpdatePut, DeletePut, Put, Holding, Waiting, Idle
  <2> QED
    BY <2>1, ReturnUnlocks
<1>5. CASE UNCHANGED <<owner, pc>>
  BY <1>5 DEF Locked, Holder, Holding, Waiting
<1> QED
  BY <1>1, <1>2, <1>3, <1>4, <1>5 DEF Next, Steps, Read, Import, DropPort, vars

\* No two operations on one port are at work at once.
LEMMA Alone ==
  ASSUME Locked, OneProcessPerParent,
         NEW r \in Resources, NEW s \in Resources,
         Holding(r), Holding(s), ParentOf[r] = ParentOf[s]
  PROVE  r = s
  BY DEF Locked, OneProcessPerParent, Holder

\* A port changes under nobody that has read it.
LEMMA FreshStep ==
  ASSUME OneProcessPerParent, ~EmptyAnswers, TypeOK, Locked, Fresh, [Next]_vars
  PROVE  Fresh'
<1> USE MutexAssumption
<1>1. ASSUME NEW r \in Resources,
             \/ CreateBegin(r) \/ UpdateBegin(r) \/ DeleteBegin(r) \/ Acquire(r)
      PROVE  Fresh'
  <2>1. UNCHANGED <<groups, exists, seen>>
    BY <1>1 DEF CreateBegin, UpdateBegin, DeleteBegin, Begin, Acquire
  <2>2. \A s \in Resources : Writing(s)' => Writing(s)
    BY <1>1 DEF CreateBegin, UpdateBegin, DeleteBegin, Begin, Acquire, Goto,
                Writing, TypeOK
  <2> QED
    BY <2>1, <2>2 DEF Fresh, Live
<1>2. ASSUME NEW r \in Resources, Get(r) PROVE Fresh'
  <2>1. UNCHANGED <<groups, exists>>
    BY <1>2 DEF Get
  <2>2. \A s \in Resources : s # r => pc'[s] = pc[s] /\ seen'[s] = seen[s]
    BY <1>2 DEF Get, Return, Goto, TypeOK
  <2>3. Writing(r)' => seen'[r] = groups[ParentOf[r]]
    <3>1. CASE Return(r)
      BY <3>1 DEF Return, Goto, Writing, Idle, TypeOK
    <3>2. CASE ~Return(r)
      <4>1. PICK a \in Answers(r) : seen' = [seen EXCEPT ![r] = a]
        BY <1>2, <3>2 DEF Get
      <4>2. a = groups[ParentOf[r]]
        BY <4>1 DEF Answers
      <4> QED
        BY <4>1, <4>2 DEF TypeOK
    <3> QED
      BY <3>1, <3>2
  <2> QED
    BY <2>1, <2>2, <2>3 DEF Fresh, Writing, Live
<1>3. ASSUME NEW r \in Resources, CreatePut(r) \/ UpdatePut(r) \/ DeletePut(r)
      PROVE  Fresh'
  <2>1. Holding(r) /\ Return(r) /\ UNCHANGED exists
    BY <1>3 DEF CreatePut, UpdatePut, DeletePut, Put, Holding, Waiting, Idle
  <2>2. \A p \in Parents : p # ParentOf[r] => groups'[p] = groups[p]
    BY <1>3 DEF CreatePut, UpdatePut, DeletePut, Put, TypeOK
  <2>3. \A s \in Resources :
          /\ pc'[s] = IF s = r THEN Idle ELSE pc[s]
          /\ s # r => seen'[s] = seen[s]
    BY <2>1 DEF Return, Goto, TypeOK
  <2>4. ASSUME NEW s \in Resources, Writing(s)'
        PROVE  Writing(s) /\ s # r /\ ParentOf[s] # ParentOf[r]
    <3>1. Writing(s) /\ s # r
      BY <2>3, <2>4 DEF Writing, Idle
    <3>2. Holding(s)
      BY <3>1 DEF Writing, Holding, Waiting, Idle
    <3> QED
      BY <2>1, <3>1, <3>2, Alone
  <2> QED
    BY <2>1, <2>2, <2>3, <2>4 DEF Fresh, Live
<1>4. ASSUME NEW p \in Parents, DropPort(p) PROVE Fresh'
  BY <1>4 DEF DropPort, Fresh, Writing, Live, TypeOK
<1>5. CASE UNCHANGED <<groups, exists, pc, seen>>
  BY <1>5 DEF Fresh, Writing, Live
<1> QED
  BY <1>1, <1>2, <1>3, <1>4, <1>5 DEF Next, Steps, Read, Import, vars

\* What a write puts in place of what it has read: an exclusive associate what it
\* likes, a shared one the same but for the groups its row or its plan lists.
LEMMA ListsDiffer ==
  ASSUME NEW r \in Resources, ~Exclusive(r)
  PROVE  /\ SymDiff(seen[r], CreateList(r)) \subseteq Listed(r)
         /\ SymDiff(seen[r], UpdateList(r)) \subseteq Listed(r)
         /\ SymDiff(seen[r], DeleteList(r)) \subseteq Listed(r)
  BY DEF Exclusive, SymDiff, CreateList, UpdateList, DeleteList, Listed

\* With one provider block for a port's associates, and a Neutron that answers
\* with the port it was asked for, a shared associate never changes a group of the
\* port that it neither lists nor listed, whatever its siblings do meanwhile.
THEOREM OthersAreKept == ASSUME OneProcessPerParent, ~EmptyAnswers
                         PROVE  Spec => OthersGroupsKept
<1>1. Init => Locked /\ Fresh
  BY DEF Init, Locked, Fresh, Holding, Writing, Idle
<1>2. TypeOK /\ Locked /\ Fresh /\ [Next]_vars => Locked' /\ Fresh'
  BY LockedStep, FreshStep
<1> DEFINE Kept == \A p \in exists' : groups'[p] # groups[p] =>
             \E r \in Resources :
                /\ ParentOf[r] = p
                /\ pc[r] \in {"create_put", "update_put", "delete_put"}
                /\ Exclusive(r) \/ SymDiff(groups[p], groups'[p]) \subseteq Listed(r)
<1>3. TypeOK /\ Fresh /\ [Next]_vars => [Kept]_vars
  <2> SUFFICES ASSUME TypeOK, Fresh, Next, NEW p \in exists', groups'[p] # groups[p]
               PROVE  \E r \in Resources :
                        /\ ParentOf[r] = p
                        /\ pc[r] \in {"create_put", "update_put", "delete_put"}
                        /\ Exclusive(r) \/ SymDiff(groups[p], groups'[p]) \subseteq Listed(r)
    OBVIOUS
  <2>1. ~UNCHANGED groups
    OBVIOUS
  <2>2. ASSUME NEW r \in Resources, CreatePut(r) \/ UpdatePut(r) \/ DeletePut(r)
        PROVE  /\ ParentOf[r] = p
               /\ pc[r] \in {"create_put", "update_put", "delete_put"}
               /\ Exclusive(r) \/ SymDiff(groups[p], groups'[p]) \subseteq Listed(r)
    <3>1. PICK list \in {CreateList(r), UpdateList(r), DeleteList(r)} :
            Live(r) /\ groups' = [groups EXCEPT ![ParentOf[r]] = list]
      BY <2>1, <2>2 DEF CreatePut, UpdatePut, DeletePut, Put
    <3>2. UNCHANGED exists /\ Writing(r)
      BY <2>2 DEF CreatePut, UpdatePut, DeletePut, Put, Writing
    <3>3. p \in Parents
      BY <3>2 DEF TypeOK
    <3>4. ParentOf[r] = p /\ groups'[p] = list
      BY <3>1, <3>3 DEF TypeOK
    <3>5. seen[r] = groups[p]
      BY <3>1, <3>2, <3>4 DEF Fresh
    <3> QED
      BY <3>1, <3>2, <3>4, <3>5, ListsDiffer DEF Writing
  <2>3. ASSUME NEW q \in Parents, DropPort(q) PROVE FALSE
    BY <2>3 DEF DropPort, TypeOK
  <2>4. \E r \in Resources : CreatePut(r) \/ UpdatePut(r) \/ DeletePut(r)
    BY <2>1, <2>3 DEF Next, Steps, CreateBegin, UpdateBegin, DeleteBegin, Begin,
                      Acquire, Get, Read, Import
  <2> QED
    BY <2>2, <2>4
<1> QED
  BY <1>1, <1>2, <1>3, TypeCorrect, PTL DEF Spec, OthersGroupsKept
=============================================================================
