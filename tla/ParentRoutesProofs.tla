------------------------ MODULE ParentRoutesProofs --------------------------
(***************************************************************************)
(* The mutex discipline of the route resources, for any number of          *)
(* resources, parents and entries.                                         *)
(***************************************************************************)
EXTENDS ParentRoutes, TLAPS

LEMMA OwnerUpdate ==
  ASSUME TypeOK, NEW r \in Resources, NEW h \in Resources \cup {NoOne},
         owner' = [owner EXCEPT ![ProcOf[r]][ParentOf[r]] = h]
  PROVE  owner' \in MutexType
<1>1. ProcOf[r] \in Procs /\ ParentOf[r] \in Parents
  BY MutexAssumption, EntryAssumption
<1>2. [owner[ProcOf[r]] EXCEPT ![ParentOf[r]] = h]
        \in [Parents -> Resources \cup {NoOne}]
  BY <1>1 DEF TypeOK, MutexType
<1> QED
  BY <1>1, <1>2 DEF TypeOK, MutexType

LEMMA OwnerAt ==
  ASSUME TypeOK, NEW r \in Resources, NEW h,
         owner' = [owner EXCEPT ![ProcOf[r]][ParentOf[r]] = h]
  PROVE  \A q \in Procs, p \in Parents :
            owner'[q][p] = IF q = ProcOf[r] /\ p = ParentOf[r]
                           THEN h ELSE owner[q][p]
<1>1. ProcOf[r] \in Procs /\ ParentOf[r] \in Parents
  BY MutexAssumption, EntryAssumption
<1> QED
  BY <1>1 DEF TypeOK, MutexType

LEMMA GotoType ==
  ASSUME TypeOK, NEW r \in Resources, NEW label \in PCs, Goto(r, label)
  PROVE  pc' \in [Resources -> PCs]
  BY DEF TypeOK, MutexType, Goto

LEMMA ReturnType ==
  ASSUME TypeOK, NEW r \in Resources, Return(r)
  PROVE  /\ pc' \in [Resources -> PCs]
         /\ owner' \in MutexType
<1>1. Goto(r, Idle) /\ Idle \in PCs
  BY DEF Return, PCs
<1> QED
  BY <1>1, GotoType, OwnerUpdate DEF Return, Unlock

LEMMA SeenType ==
  ASSUME TypeOK, NEW r \in Resources,
         seen' = [seen EXCEPT ![r] = routes[ParentOf[r]]]
  PROVE  seen' \in [Resources -> SUBSET Entries]
  BY MutexAssumption, EntryAssumption DEF TypeOK, MutexType

LEMMA WriteType ==
  ASSUME TypeOK, NEW r \in Resources, NEW list \in SUBSET Entries,
         Write(r, list)
  PROVE  routes' \in [Parents -> SUBSET Entries]
  BY MutexAssumption, EntryAssumption DEF TypeOK, MutexType, Write

LEMMA ContestType ==
  ASSUME TypeOK, NEW r \in Resources, Contest(r)
  PROVE  /\ contested' \in [Parents -> SUBSET Entries]
         /\ EntryOf[r] \in contested'[ParentOf[r]]
         /\ \A p \in Parents : contested[p] \subseteq contested'[p]
  BY MutexAssumption, EntryAssumption DEF TypeOK, Contest

\* Every variable keeps its type: in particular a mutex is held by one
\* operation or by none (keyedMutex, networking.go).
THEOREM TypeCorrect == Spec => []TypeOK
<1>1. Init => TypeOK
  BY MutexAssumption, EntryAssumption DEF Init, TypeOK, MutexType, Unlocked, PCs, Idle
<1>2. TypeOK /\ [Next]_vars => TypeOK'
  <2> SUFFICES ASSUME TypeOK, [Next]_vars PROVE TypeOK'
    OBVIOUS
  <2> USE MutexAssumption, EntryAssumption DEF TypeOK, MutexType
  <2>0. {"create_lock", "create_get", "create_put",
         "delete_lock", "delete_get", "delete_put"} \subseteq PCs
    BY DEF PCs
  <2>1. ASSUME NEW r \in Resources,
               CreateBegin(r) \/ DeleteBegin(r) \/ Read(r) \/ Import(r)
        PROVE TypeOK'
    BY <2>0, <2>1, GotoType, ContestType DEF CreateBegin, DeleteBegin, Read, Import
  <2>2. ASSUME NEW r \in Resources, CreateLock(r) \/ DeleteLock(r)
        PROVE TypeOK'
    BY <2>0, <2>2, GotoType, OwnerUpdate DEF CreateLock, DeleteLock, Lock
  <2>3. ASSUME NEW r \in Resources, CreateGet(r) PROVE TypeOK'
    <3>1. CASE Return(r) /\ UNCHANGED seen
      BY <2>3, <3>1, ReturnType DEF CreateGet
    <3>2. CASE /\ seen' = [seen EXCEPT ![r] = routes[ParentOf[r]]]
               /\ Goto(r, "create_put")
               /\ UNCHANGED owner
      BY <2>0, <2>3, <3>2, GotoType, SeenType DEF CreateGet
    <3> QED
      BY <2>3, <3>1, <3>2 DEF CreateGet
  <2>4. ASSUME NEW r \in Resources, DeleteGet(r) PROVE TypeOK'
    <3>1. CASE Return(r) /\ UNCHANGED seen
      BY <2>4, <3>1, ReturnType DEF DeleteGet
    <3>2. CASE /\ seen' = [seen EXCEPT ![r] = routes[ParentOf[r]]]
               /\ Goto(r, "delete_put")
               /\ UNCHANGED <<rows, owner>>
      BY <2>0, <2>4, <3>2, GotoType, SeenType DEF DeleteGet
    <3> QED
      BY <2>4, <3>1, <3>2 DEF DeleteGet
  <2>5. ASSUME NEW r \in Resources, CreatePut(r) \/ DeletePut(r)
        PROVE TypeOK'
    <3>1. /\ seen[r] \cup {EntryOf[r]} \in SUBSET Entries
          /\ seen[r] \ {EntryOf[r]} \in SUBSET Entries
      OBVIOUS
    <3>2. routes' \in [Parents -> SUBSET Entries]
      BY <2>5, <3>1, WriteType DEF CreatePut, DeletePut
    <3>3. /\ Return(r) /\ rows' \subseteq Resources /\ UNCHANGED <<exists, seen>>
          /\ contested' \in [Parents -> SUBSET Entries]
      BY <2>5, ContestType DEF CreatePut, DeletePut
    <3> QED
      BY <3>2, <3>3, ReturnType
  <2>6. ASSUME NEW p \in Parents, DropParent(p) PROVE TypeOK'
    BY <2>6 DEF DropParent
  <2>7. ASSUME NEW q \in Procs, Crash(q) PROVE TypeOK'
    BY <2>7 DEF Crash, MutexesDie, PCs, Idle
  <2>8. CASE UNCHANGED vars
    BY <2>8 DEF vars
  <2> QED
    BY <2>1, <2>2, <2>3, <2>4, <2>5, <2>6, <2>7, <2>8 DEF Next, Steps
<1> QED
  BY <1>1, <1>2, PTL DEF Spec

-----------------------------------------------------------------------------
(* Mutual exclusion.                                                       *)

\* A mutex is held exactly by the operation that is between Lock and the
\* deferred Unlock, and a process that dies leaves none behind.
THEOREM MutexCorrect == Spec => []MutexHeld
<1>1. Init => MutexHeld
  BY MutexAssumption, EntryAssumption DEF Init, Unlocked, MutexHeld, Holding, Holder, Idle
<1>2. TypeOK /\ MutexHeld /\ [Next]_vars => MutexHeld'
  <2> SUFFICES ASSUME TypeOK, MutexHeld, [Next]_vars PROVE MutexHeld'
    OBVIOUS
  <2> USE MutexAssumption, EntryAssumption DEF TypeOK, MutexType, PCs, Idle, MutexHeld, Holding
  <2>1. ASSUME NEW r \in Resources,
               CreateBegin(r) \/ DeleteBegin(r) \/ Read(r) \/ Import(r)
        PROVE MutexHeld'
    BY <2>1 DEF CreateBegin, DeleteBegin, Read, Import, Goto, Holder
  <2>2. ASSUME NEW r \in Resources, CreateLock(r) \/ DeleteLock(r)
        PROVE MutexHeld'
    <3>1. /\ Holder(r) = NoOne
          /\ owner' = [owner EXCEPT ![ProcOf[r]][ParentOf[r]] = r]
          /\ pc' \in {[pc EXCEPT ![r] = "create_get"],
                      [pc EXCEPT ![r] = "delete_get"]}
      BY <2>2 DEF CreateLock, DeleteLock, Lock, Goto
    <3>2. \A s \in Resources : Holding(s)' <=> s = r \/ Holding(s)
      BY <3>1
    <3>3. \A q \in Procs, p \in Parents :
            owner'[q][p] = IF q = ProcOf[r] /\ p = ParentOf[r]
                           THEN r ELSE owner[q][p]
      BY <3>1, OwnerAt
    <3>4. \A s \in Resources : Holding(s)' => Holder(s)' = s
      BY <3>1, <3>2, <3>3 DEF Holder
    <3>5. ASSUME NEW s \in Resources, NEW q \in Procs, NEW p \in Parents,
                 owner'[q][p] = s
          PROVE  Holding(s)' /\ ProcOf[s] = q /\ ParentOf[s] = p
      <4>1. CASE q = ProcOf[r] /\ p = ParentOf[r]
        BY <3>2, <3>3, <3>5, <4>1
      <4>2. CASE ~(q = ProcOf[r] /\ p = ParentOf[r])
        BY <3>2, <3>3, <3>5, <4>2
      <4> QED
        BY <4>1, <4>2
    <3> QED
      BY <3>4, <3>5
  <2>3. ASSUME NEW r \in Resources, Holding(r), Return(r)
        PROVE MutexHeld'
    <3>1. /\ Holder(r) = r
          /\ owner' = [owner EXCEPT ![ProcOf[r]][ParentOf[r]] = NoOne]
          /\ pc' = [pc EXCEPT ![r] = Idle]
      BY <2>3 DEF Return, Unlock, Goto
    <3>2. \A s \in Resources : Holding(s)' <=> s # r /\ Holding(s)
      BY <3>1
    <3>3. \A q \in Procs, p \in Parents :
            owner'[q][p] = IF q = ProcOf[r] /\ p = ParentOf[r]
                           THEN NoOne ELSE owner[q][p]
      BY <3>1, OwnerAt
    <3>4. \A s \in Resources : Holding(s)' => Holder(s)' = s
      BY <3>1, <3>2, <3>3 DEF Holder
    <3>5. ASSUME NEW s \in Resources, NEW q \in Procs, NEW p \in Parents,
                 owner'[q][p] = s
          PROVE  Holding(s)' /\ ProcOf[s] = q /\ ParentOf[s] = p
      <4>1. owner[q][p] = s /\ ~(q = ProcOf[r] /\ p = ParentOf[r])
        BY <3>3, <3>5
      <4> QED
        BY <3>1, <3>2, <4>1 DEF Holder
    <3> QED
      BY <3>4, <3>5
  <2>4. ASSUME NEW r \in Resources, CreateGet(r) \/ DeleteGet(r)
        PROVE MutexHeld'
    <3>1. CASE Return(r)
      BY <2>3, <2>4, <3>1 DEF CreateGet, DeleteGet
    <3>2. CASE /\ pc' \in {[pc EXCEPT ![r] = "create_put"],
                           [pc EXCEPT ![r] = "delete_put"]}
               /\ UNCHANGED owner
      <4>1. Holding(r)
        BY <2>4 DEF CreateGet, DeleteGet
      <4>2. \A s \in Resources : Holding(s)' <=> Holding(s)
        BY <3>2, <4>1
      <4> QED
        BY <3>2, <4>2 DEF Holder
    <3> QED
      BY <2>4, <3>1, <3>2 DEF CreateGet, DeleteGet, Goto
  <2>5. ASSUME NEW r \in Resources, CreatePut(r) \/ DeletePut(r)
        PROVE MutexHeld'
    BY <2>3, <2>5 DEF CreatePut, DeletePut
  <2>6. ASSUME NEW p \in Parents, DropParent(p) PROVE MutexHeld'
    BY <2>6 DEF DropParent, Holder
  <2>7. ASSUME NEW q \in Procs, Crash(q) PROVE MutexHeld'
    BY <2>7 DEF Crash, MutexesDie, Holder
  <2>8. CASE UNCHANGED vars
    BY <2>8 DEF vars, Holder
  <2> QED
    BY <2>1, <2>2, <2>4, <2>5, <2>6, <2>7, <2>8 DEF Next, Steps
<1> QED
  BY <1>1, <1>2, TypeCorrect, PTL DEF Spec

-----------------------------------------------------------------------------
(* No lost update, and the refinement.                                     *)

\* What an operation in flight knows of its own row and entry.
LEMMA RowsCorrect == Spec => []RowsMatchOperation
<1>1. Init => RowsMatchOperation
  BY DEF Init, RowsMatchOperation, Idle
<1>2. TypeOK /\ RowsMatchOperation /\ [Next]_vars => RowsMatchOperation'
  <2> SUFFICES ASSUME TypeOK, RowsMatchOperation, [Next]_vars
               PROVE  RowsMatchOperation'
    OBVIOUS
  <2> USE DEF TypeOK, MutexType, PCs, Idle, RowsMatchOperation, Goto
  <2>1. ASSUME NEW r \in Resources,
               CreateBegin(r) \/ DeleteBegin(r) \/ Read(r) \/ Import(r)
        PROVE RowsMatchOperation'
    BY <2>1 DEF CreateBegin, DeleteBegin, Read, Import
  <2>2. ASSUME NEW r \in Resources, CreateLock(r) \/ DeleteLock(r)
        PROVE RowsMatchOperation'
    BY <2>2 DEF CreateLock, DeleteLock
  <2>3. ASSUME NEW r \in Resources, CreateGet(r) \/ DeleteGet(r)
        PROVE RowsMatchOperation'
    BY <2>3 DEF CreateGet, DeleteGet, Return, Present
  <2>4. ASSUME NEW r \in Resources, CreatePut(r) \/ DeletePut(r)
        PROVE RowsMatchOperation'
    BY <2>4 DEF CreatePut, DeletePut, Return
  <2>5. ASSUME NEW p \in Parents, DropParent(p) PROVE RowsMatchOperation'
    BY <2>5 DEF DropParent
  <2>6. ASSUME NEW q \in Procs, Crash(q) PROVE RowsMatchOperation'
    BY <2>6 DEF Crash, MutexesDie
  <2>7. CASE UNCHANGED vars
    BY <2>7 DEF vars
  <2> QED
    BY <2>1, <2>2, <2>3, <2>4, <2>5, <2>6, <2>7 DEF Next, Steps
<1> QED
  BY <1>1, <1>2, TypeCorrect, PTL DEF Spec

\* Two operations on one parent are never both between Lock and Unlock, when
\* the parent's resources share a provider process.
LEMMA Exclusive ==
  ASSUME MutexHeld, OneProcessPerParent,
         NEW r \in Resources, NEW s \in Resources,
         Holding(r), Holding(s), ParentOf[r] = ParentOf[s]
  PROVE  r = s
  BY DEF MutexHeld, OneProcessPerParent, Holder

\* When every parent is managed through one provider block, what an operation
\* writes back is what the parent still holds, give or take its own entry:
\* no concurrent Create or Delete is undone (the comment on keyedMutex).
THEOREM SnapshotCorrect == ASSUME OneProcessPerParent
                           PROVE  Spec => []SnapshotFresh
<1>1. Init => SnapshotFresh
  BY DEF Init, SnapshotFresh, Writing, Idle
<1>2. TypeOK /\ MutexHeld /\ SnapshotFresh /\ [Next]_vars => SnapshotFresh'
  <2> SUFFICES ASSUME TypeOK, MutexHeld, SnapshotFresh, [Next]_vars
               PROVE  SnapshotFresh'
    OBVIOUS
  <2> USE MutexAssumption, EntryAssumption DEF TypeOK, MutexType, PCs, Idle, SnapshotFresh, Writing, Goto
  <2>1. ASSUME NEW r \in Resources,
               CreateBegin(r) \/ DeleteBegin(r) \/ Read(r) \/ Import(r)
        PROVE SnapshotFresh'
    BY <2>1 DEF CreateBegin, DeleteBegin, Read, Import
  <2>2. ASSUME NEW r \in Resources, CreateLock(r) \/ DeleteLock(r)
        PROVE SnapshotFresh'
    BY <2>2 DEF CreateLock, DeleteLock
  <2>3. ASSUME NEW r \in Resources, CreateGet(r) \/ DeleteGet(r)
        PROVE SnapshotFresh'
    BY <2>3 DEF CreateGet, DeleteGet, Return, Present
  <2>4. ASSUME NEW r \in Resources, CreatePut(r) \/ DeletePut(r)
        PROVE SnapshotFresh'
    <3>1. /\ pc' = [pc EXCEPT ![r] = Idle]
          /\ UNCHANGED <<exists, seen>>
      BY <2>4 DEF CreatePut, DeletePut, Return
    <3>2. \A p \in Parents : p # ParentOf[r] => routes'[p] = routes[p]
      BY <2>4 DEF CreatePut, DeletePut, Write
    <3>3. \A s \in Resources :
            Writing(s)' => Writing(s) /\ ParentOf[s] # ParentOf[r]
      <4>1. Holding(r)
        BY <2>4 DEF CreatePut, DeletePut, Holding
      <4>2. \A s \in Resources : Writing(s)' => s # r /\ Holding(s)
        BY <3>1 DEF Holding
      <4>3. \A s \in Resources : s # r /\ Holding(s) => ParentOf[s] # ParentOf[r]
        BY <4>1, Exclusive
      <4> QED
        BY <3>1, <4>2, <4>3
    <3> QED
      BY <3>1, <3>2, <3>3
  <2>5. ASSUME NEW p \in Parents, DropParent(p) PROVE SnapshotFresh'
    BY <2>5 DEF DropParent
  <2>6. ASSUME NEW q \in Procs, Crash(q) PROVE SnapshotFresh'
    BY <2>6 DEF Crash, MutexesDie
  <2>7. CASE UNCHANGED vars
    BY <2>7 DEF vars
  <2> QED
    BY <2>1, <2>2, <2>3, <2>4, <2>5, <2>6, <2>7 DEF Next, Steps
<1> QED
  BY <1>1, <1>2, TypeCorrect, MutexCorrect, PTL DEF Spec

\* The two parts of single ownership, one induction: an uncontested entry that
\* a row names is on its parent, so a Create that saw it absent meets no row.
Owned == OwnedOnce /\ RowsHold

LEMMA OwnedStep ==
  ASSUME TypeOK, SnapshotFresh, RowsMatchOperation, Owned, [Next]_vars
  PROVE  Owned'
<1> USE MutexAssumption, EntryAssumption DEF TypeOK, Owned, OwnedOnce, RowsHold, SameEntry
<1>1. ASSUME NEW r \in Resources,
             \/ CreateBegin(r) \/ DeleteBegin(r) \/ CreateLock(r)
             \/ DeleteLock(r) \/ CreateGet(r)
      PROVE  UNCHANGED <<routes, exists, rows, contested>>
  BY <1>1 DEF CreateBegin, DeleteBegin, CreateLock, DeleteLock, CreateGet
<1>2. ASSUME UNCHANGED <<routes, exists, rows, contested>> PROVE Owned'
  BY <1>2 DEF Present
<1>3. ASSUME NEW r \in Resources, UNCHANGED <<routes, exists, contested>>,
             rows' \subseteq rows
      PROVE  Owned'
  BY <1>3 DEF Present
<1>4. ASSUME NEW r \in Resources, CreatePut(r) PROVE Owned'
  <2>1. CASE UNCHANGED <<routes, rows>>
    BY <1>2, <1>4, <2>1 DEF CreatePut
  <2>2. CASE /\ Write(r, seen[r] \cup {EntryOf[r]})
             /\ rows' \in {rows, rows \cup {r}}
    <3>1. /\ r \notin rows /\ EntryOf[r] \notin seen[r]
          /\ ParentOf[r] \in exists /\ UNCHANGED <<exists, contested>>
      BY <1>4, <2>2 DEF CreatePut, Write, RowsMatchOperation
    <3>2. seen[r] = routes[ParentOf[r]]
      BY <1>4, <3>1 DEF CreatePut, SnapshotFresh, Writing
    <3>3. \A p \in Parents : routes[p] \subseteq routes'[p]
      BY <2>2, <3>2 DEF Write
    <3>4. EntryOf[r] \in routes'[ParentOf[r]]
      BY <2>2 DEF Write
    <3>5. \A s \in rows : SameEntry(r, s) => EntryOf[r] \in contested[ParentOf[r]]
      BY <3>1, <3>2 DEF Present
    <3>6. OwnedOnce'
      BY <2>2, <3>1, <3>5
    <3>7. RowsHold'
      BY <2>2, <3>1, <3>3, <3>4 DEF Present
    <3> QED
      BY <3>6, <3>7
  <2> QED
    BY <1>4, <2>1, <2>2 DEF CreatePut
<1>5. ASSUME NEW r \in Resources, DeletePut(r) PROVE Owned'
  <2>1. CASE UNCHANGED <<routes, rows, contested>>
    BY <1>2, <1>5, <2>1 DEF DeletePut
  <2>2. CASE Write(r, seen[r] \ {EntryOf[r]})
             /\ (\/ rows' = rows \ {r} /\ UNCHANGED contested
                 \/ UNCHANGED rows /\ Contest(r))
    <3>1. r \in rows /\ ParentOf[r] \in exists /\ UNCHANGED exists
      BY <1>5, <2>2 DEF DeletePut, Write, RowsMatchOperation
    <3>2. seen[r] = routes[ParentOf[r]]
      BY <1>5, <3>1 DEF DeletePut, SnapshotFresh, Writing
    <3>3. /\ \A p \in Parents : p # ParentOf[r] => routes'[p] = routes[p]
          /\ routes'[ParentOf[r]] = routes[ParentOf[r]] \ {EntryOf[r]}
      BY <2>2, <3>2 DEF Write
    <3>4. /\ rows' \subseteq rows
          /\ \A p \in Parents : contested[p] \subseteq contested'[p]
      BY <2>2, ContestType
    <3>5. \A s \in rows' : SameEntry(r, s) => EntryOf[r] \in contested'[ParentOf[r]]
      BY <2>2, <3>1, <3>4, ContestType
    <3>6. OwnedOnce'
      BY <3>4
    <3>7. RowsHold'
      BY <3>1, <3>3, <3>4, <3>5 DEF Present
    <3> QED
      BY <3>6, <3>7
  <2> QED
    BY <1>5, <2>1, <2>2 DEF DeletePut
<1>6. ASSUME NEW r \in Resources, DeleteGet(r) \/ Read(r) PROVE Owned'
  BY <1>2, <1>3, <1>6 DEF DeleteGet, Read
<1>7. ASSUME NEW r \in Resources, Import(r) PROVE Owned'
  <2>1. /\ rows' = rows \cup {r} /\ Present(r) /\ UNCHANGED <<routes, exists>>
        /\ \A p \in Parents : contested[p] \subseteq contested'[p]
    BY <1>7, ContestType DEF Import
  <2>2. \A s \in rows : SameEntry(r, s) => EntryOf[r] \in contested'[ParentOf[r]]
    BY <1>7, ContestType DEF Import
  <2> QED
    BY <2>1, <2>2 DEF Present
<1>8. ASSUME NEW p \in Parents, DropParent(p) PROVE Owned'
  BY <1>8 DEF DropParent, Present
<1>9. ASSUME NEW q \in Procs, Crash(q)
      PROVE  UNCHANGED <<routes, exists, rows, contested>>
  BY <1>9 DEF Crash, MutexesDie
<1>10. CASE UNCHANGED vars
  BY <1>2, <1>10 DEF vars
<1> QED
  BY <1>1, <1>2, <1>4, <1>5, <1>6, <1>7, <1>8, <1>9, <1>10 DEF Next, Steps

\* When every parent has one provider block, no two rows own one entry, unless
\* a user imported an entry that had an owner or a removal was applied without
\* an answer: the destroy of one route takes no other resource's route away.
THEOREM EveryEntryOwnedOnce == ASSUME OneProcessPerParent
                               PROVE  Spec => []OwnedOnce
<1>1. Init => Owned
  BY DEF Init, Owned, OwnedOnce, RowsHold
<1>2. TypeOK /\ SnapshotFresh /\ RowsMatchOperation /\ Owned /\ [Next]_vars => Owned'
  BY OwnedStep
<1>3. Owned => OwnedOnce
  BY DEF Owned
<1> QED
  BY <1>1, <1>2, <1>3, TypeCorrect, SnapshotCorrect, RowsCorrect, PTL DEF Spec

\* A step of the code is one atomic step of AtomicRoutes or none: the PUT of a
\* Create is its Add, the PUT of a Delete its Remove.
LEMMA StepRefines ==
  ASSUME TypeOK, SnapshotFresh, RowsMatchOperation, [Next]_vars
  PROVE  [Abstract!Next]_<<routes, exists, rows>>
<1> USE DEF TypeOK, MutexType, RowsMatchOperation
<1>1. ASSUME NEW r \in Resources,
             \/ CreateBegin(r) \/ DeleteBegin(r) \/ CreateLock(r)
             \/ DeleteLock(r) \/ CreateGet(r)
      PROVE  UNCHANGED <<routes, exists, rows>>
  BY <1>1 DEF CreateBegin, DeleteBegin, CreateLock, DeleteLock, CreateGet
<1>2. ASSUME NEW r \in Resources, CreatePut(r)
      PROVE  Abstract!Add(r) \/ UNCHANGED <<routes, exists, rows>>
  <2>1. CASE UNCHANGED <<routes, rows>>
    BY <1>2, <2>1 DEF CreatePut
  <2>2. CASE /\ Write(r, seen[r] \cup {EntryOf[r]})
             /\ rows' \in {rows, rows \cup {r}}
    <3>1. r \notin rows /\ EntryOf[r] \notin seen[r] /\ ParentOf[r] \in exists
      BY <1>2, <2>2 DEF CreatePut, Write
    <3>2. seen[r] = routes[ParentOf[r]]
      BY <1>2, <3>1 DEF CreatePut, SnapshotFresh, Writing
    <3> QED
      BY <1>2, <2>2, <3>1, <3>2
         DEF CreatePut, Write, Abstract!Add, Abstract!With
  <2> QED
    BY <1>2, <2>1, <2>2 DEF CreatePut
<1>3. ASSUME NEW r \in Resources, DeleteGet(r)
      PROVE  Abstract!Forget(r) \/ UNCHANGED <<routes, exists, rows>>
  BY <1>3 DEF DeleteGet, Abstract!Forget
<1>4. ASSUME NEW r \in Resources, DeletePut(r)
      PROVE  Abstract!Remove(r) \/ UNCHANGED <<routes, exists, rows>>
  <2>1. CASE UNCHANGED <<routes, rows>>
    BY <1>4, <2>1 DEF DeletePut
  <2>2. CASE /\ Write(r, seen[r] \ {EntryOf[r]})
             /\ rows' \in {rows, rows \ {r}}
    <3>1. r \in rows /\ ParentOf[r] \in exists
      BY <1>4, <2>2 DEF DeletePut, Write
    <3>2. seen[r] = routes[ParentOf[r]]
      BY <1>4, <3>1 DEF DeletePut, SnapshotFresh, Writing
    <3> QED
      BY <1>4, <2>2, <3>1, <3>2
         DEF DeletePut, Write, Abstract!Remove, Abstract!Without
  <2> QED
    BY <1>4, <2>1, <2>2 DEF DeletePut
<1>5. ASSUME NEW r \in Resources, Read(r) PROVE Abstract!Forget(r)
  BY <1>5 DEF Read, Present, Abstract!Forget
<1>6. ASSUME NEW r \in Resources, Import(r) PROVE Abstract!Adopt(r)
  BY <1>6 DEF Import, Present, Abstract!Adopt
<1>7. ASSUME NEW p \in Parents, DropParent(p) PROVE Abstract!DropParent(p)
  BY <1>7 DEF DropParent, Abstract!DropParent
<1>8. ASSUME NEW q \in Procs, Crash(q)
      PROVE  UNCHANGED <<routes, exists, rows>>
  BY <1>8 DEF Crash, MutexesDie
<1>9. CASE UNCHANGED vars
  BY <1>9 DEF vars
<1> QED
  BY <1>1, <1>2, <1>3, <1>4, <1>5, <1>6, <1>7, <1>8, <1>9
     DEF Next, Steps, Abstract!Next

\* To the rest of the world every Create and Delete of a route is one atomic
\* edit of its own entry, when every parent has one provider block.
THEOREM EditsAreAtomic == ASSUME OneProcessPerParent
                          PROVE  Spec => AtomicEdits
<1>1. Init => Abstract!Init
  BY DEF Init, Abstract!Init
<1>2. TypeOK /\ SnapshotFresh /\ RowsMatchOperation /\ [Next]_vars
        => [Abstract!Next]_(Abstract!vars)
  BY StepRefines DEF Abstract!vars
<1> QED
  BY <1>1, <1>2, TypeCorrect, SnapshotCorrect, RowsCorrect, PTL
     DEF Spec, AtomicEdits, Abstract!Spec
=============================================================================
