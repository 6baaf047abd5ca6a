------------------------- MODULE LoadBalancerProofs -------------------------
(***************************************************************************)
(* Proofs about LoadBalancer, for every tree of children, every set of     *)
(* values and any number of failures and changes.                          *)
(***************************************************************************)
EXTENDS LoadBalancer, TLAPS

\* What there is hangs below something that is there, and was asked to be something.
Rooted == /\ \A c \in Children : Exists(c) => Exists(Parent[c])
          /\ \A o \in Objects : Exists(o) => value[o] \in Values

\* Octavia works on one thing below the load balancer at a time, and locks it.
Locked ==
    /\ \A c \in Children : status[c] \in Transient => status[Root] = "PENDING_UPDATE"
    /\ \A c, d \in Children :
          status[c] \in Transient /\ status[d] \in Transient => c = d

\* An ERROR is only reported of the past while the load balancer is deleted, and
\* waitForLoadBalancerDeleted has not seen anything else then.
StaleUnseen == stale => status[Root] = "PENDING_DELETE" /\ at[Root] # "leaving"

\* An operation runs towards a value of the configuration, none runs on a child
\* beside one on the load balancer, only a load balancer without a row is created, and
\* what an apply has not begun is still to be done.
Planned == \A o \in Objects :
    /\ Idle(o) <=> doing[o] = "nothing"
    /\ doing[o] \in {"create", "update"} => want[o] \in Values
    /\ ~Idle(Root) /\ o # Root => Idle(o)
    /\ doing[Root] = "create" /\ at[Root] \in {"before", "call"} => ~Recorded(Root)
    /\ o \in todo => Idle(o) /\ Operation(row, want, o) # "nothing"

\* Work an operation waited for is not begun again under it.
Waited ==
    /\ \A o \in Objects : at[o] = "read" => status[o] \notin Transient
    /\ \A c \in Children : at[c] = "after" /\ doing[c] = "delete"
           => status[c] \in {"none", "PENDING_DELETE", "ERROR"}
    /\ \A c \in Children : at[c] # "leaving"
    /\ \A o \in Objects : at[o] = "read" => doing[o] \in {"create", "update"}


-----------------------------------------------------------------------------
(* Octavia.                                                                *)

USE DEF Objects, Transient, Exists, Idle, Recorded, Trouble, Calm

\* The tree below the load balancer is two levels deep.
LEMMA Tree ==
    /\ Root \notin Children /\ \A c \in Children : Parent[c] \in Objects
    /\ \A c \in Children : Root \notin Below(c) /\ c \notin Below(c)
    /\ \A c, d \in Children : Parent[d] \in Below(c) => FALSE
BY OctaviaAssumption DEF Below

\* The parts of the invariant about Octavia alone.
OctaviaInv == OctaviaType /\ Rooted /\ Locked

IInv == /\ OctaviaInv /\ LoadBalancerType
        /\ StaleUnseen /\ Planned /\ Waited /\ NothingLeftBehind

\* A request accepted on o, and work that ends on it, leave every other object as it
\* is or gone, and nothing but o at work.
Others(o) == \A p \in Children : p # o => status'[p] \in {status[p], "none"}

LEMMA PostKeeps ==
    ASSUME OctaviaInv, NEW c \in Children, NEW v \in Values, PostChild(c, v)
    PROVE  OctaviaInv' /\ Others(c) /\ status[Root] = "ACTIVE" /\ stale' = stale
<1>1. /\ status'[Root] = "PENDING_UPDATE" /\ status'[c] = "PENDING_CREATE"
      /\ \A p \in Children : p # c =>
            status'[p] = IF p \in Below(c) THEN "none" ELSE status[p]
  BY Tree DEF PostChild, Begun, Without, OctaviaInv, OctaviaType
<1>2. OctaviaType'
  <2>1. status' \in [Objects -> Transient \cup {"none", "ACTIVE", "ERROR"}]
    BY Tree DEF PostChild, Begun, Without, OctaviaInv, OctaviaType
  <2>2. value' \in [Objects -> Values \cup {None}]
    BY DEF PostChild, Asked, OctaviaInv, OctaviaType
  <2> QED BY <2>1, <2>2 DEF PostChild, Asked, OctaviaInv, OctaviaType
<1>3. Rooted'
  <2>1. \A d \in Children : Exists(d)' => Exists(Parent[d])'
    BY <1>1, Tree, OctaviaAssumption DEF OctaviaInv, Rooted, PostChild, Postable, Below
  <2>2. \A o \in Objects : Exists(o)' => value'[o] \in Values
    BY <1>1 DEF OctaviaInv, Rooted, PostChild, Postable, Asked
  <2> QED BY <2>1, <2>2 DEF Rooted
<1>4. Locked'
  BY <1>1 DEF OctaviaInv, Locked, PostChild, Postable
<1> QED BY <1>1, <1>2, <1>3, <1>4 DEF OctaviaInv, Others, PostChild, Postable, Asked

LEMMA PutKeeps ==
    ASSUME OctaviaInv, NEW o \in Objects, NEW v \in Values, Put(o, v)
    PROVE  OctaviaInv' /\ Others(o) /\ status[Root] = "ACTIVE" /\ stale' = stale
           /\ Exists(Root)'
<1>1. /\ status'[Root] = "PENDING_UPDATE" /\ status'[o] = "PENDING_UPDATE"
      /\ \A p \in Children : p # o => status'[p] = status[p]
  BY Tree DEF Put, Begun, OctaviaInv, OctaviaType
<1>2. OctaviaType'
  BY DEF Put, Begun, Asked, OctaviaInv, OctaviaType
<1>3. Rooted'
  BY <1>1, Tree DEF OctaviaInv, Rooted, Put, Asked
<1>4. Locked'
  BY <1>1 DEF OctaviaInv, Locked, Put
<1> QED BY <1>1, <1>2, <1>3, <1>4 DEF OctaviaInv, Others, Put, Asked

LEMMA DeleteKeeps ==
    ASSUME OctaviaInv, NEW c \in Children, DeleteChild(c)
    PROVE  OctaviaInv' /\ Others(c) /\ status[Root] = "ACTIVE" /\ stale' = stale
           /\ status'[c] = "PENDING_DELETE"
<1>1. /\ status'[Root] = "PENDING_UPDATE" /\ status'[c] = "PENDING_DELETE"
      /\ \A p \in Children : p # c => status'[p] = status[p]
  BY Tree DEF DeleteChild, Begun, OctaviaInv, OctaviaType
<1>2. OctaviaType'
  BY DEF DeleteChild, Begun, OctaviaInv, OctaviaType
<1>3. Rooted'
  BY <1>1, Tree DEF OctaviaInv, Rooted, DeleteChild
<1>4. Locked'
  BY <1>1 DEF OctaviaInv, Locked, DeleteChild
<1> QED BY <1>1, <1>2, <1>3, <1>4 DEF OctaviaInv, Others, DeleteChild

LEMMA RootKeeps ==
    ASSUME OctaviaInv, DeleteRoot
    PROVE  OctaviaInv' /\ status' = [status EXCEPT ![Root] = "PENDING_DELETE"]
<1>1. OctaviaType'
  BY DEF DeleteRoot, OctaviaInv, OctaviaType
<1>2. Rooted'
  BY Tree DEF DeleteRoot, OctaviaInv, Rooted, OctaviaType
<1>3. Locked'
  BY Tree DEF DeleteRoot, OctaviaInv, Locked, OctaviaType
<1> QED BY <1>1, <1>2, <1>3 DEF OctaviaInv, DeleteRoot

LEMMA PostRootKeeps ==
    ASSUME OctaviaInv, NEW v \in Values, PostRoot(v), Trouble \/ Calm
    PROVE  OctaviaInv' /\ stale' = FALSE /\ Others(Root) /\ status'[Root] = "PENDING_CREATE"
<1>1. /\ status'[Root] = "PENDING_CREATE" /\ value'[Root] = v
      /\ \A p \in Children : status'[p] = "none"
  BY Tree DEF PostRoot
<1>2. OctaviaType'
  <2>1. trouble' \in 0 .. MaxTrouble
    BY OctaviaAssumption DEF OctaviaInv, OctaviaType
  <2>2. stale' \in BOOLEAN
    BY Zenon DEF PostRoot
  <2>3. /\ status' \in [Objects -> Transient \cup {"none", "ACTIVE", "ERROR"}]
        /\ value' \in [Objects -> Values \cup {None}]
    BY DEF PostRoot
  <2> QED BY <2>1, <2>2, <2>3 DEF OctaviaType
<1>3. Rooted'
  BY <1>1 DEF Rooted
<1>4. Locked'
  BY <1>1 DEF Locked
<1> QED BY <1>1, <1>2, <1>3, <1>4 DEF OctaviaInv, Others, PostRoot

LEMMA FinishChildKeeps ==
    ASSUME OctaviaInv, NEW c \in Children, FinishChild(c)
    PROVE  /\ OctaviaInv' /\ Others(c) /\ Exists(Root) /\ UNCHANGED stale
           /\ status'[Root] \in {"ACTIVE", "ERROR"} /\ status[Root] = "PENDING_UPDATE"
           /\ status'[c] \notin Transient
           /\ status[c] = "PENDING_DELETE" => status'[c] \in {"none", "ERROR"}
<1>1. /\ status[Root] = "PENDING_UPDATE" /\ status'[Root] \in {"ACTIVE", "ERROR"}
      /\ \A p \in Children : p # c => \/ status'[p] = status[p]
                                      \/ p \in Below(c) /\ status'[p] = "none"
      /\ \/ status'[c] = "none" /\ \A p \in Below(c) : status'[p] = "none"
         \/ /\ status'[c] \in {"ACTIVE", "ERROR"} /\ status[c] \in Transient
            /\ \A p \in Children : p # c => status'[p] = status[p]
      /\ status[c] = "PENDING_DELETE" => status'[c] \in {"none", "ERROR"}
  <2>1. status[Root] = "PENDING_UPDATE"
    BY DEF FinishChild
  <2>2. CASE \E s \in {"ACTIVE", "ERROR"} :
               status' = [Without(status, Below(c) \cup {c}) EXCEPT ![Root] = s]
    BY <2>1, <2>2, Tree DEF Without, Below
  <2>3. CASE /\ status[c] \in Transient
             /\ \E s, t \in {"ACTIVE", "ERROR"} :
                  /\ status' = [status EXCEPT ![c] = s, ![Root] = t]
                  /\ status[c] = "PENDING_DELETE" => s = "ERROR"
    BY <2>1, <2>3, Tree DEF OctaviaInv, OctaviaType
  <2> QED
    BY <2>2, <2>3 DEF FinishChild
<1>2. OctaviaType'
  <2>1. status' \in [Objects -> Transient \cup {"none", "ACTIVE", "ERROR"}]
    BY DEF FinishChild, Without, OctaviaInv, OctaviaType
  <2>2. value' \in [Objects -> Values \cup {None}]
    BY DEF FinishChild, Forgotten, OctaviaInv, OctaviaType
  <2> QED BY <2>1, <2>2, OctaviaAssumption DEF FinishChild, OctaviaInv, OctaviaType
<1>3. Rooted'
  <2>1. \A d \in Children : Exists(d)' => Exists(Parent[d])'
    BY <1>1, Tree DEF OctaviaInv, Rooted, Below
  <2>2. \A o \in Objects : Exists(o)' => value'[o] \in Values
    BY <1>1 DEF OctaviaInv, Rooted, FinishChild, Forgotten
  <2> QED BY <2>1, <2>2 DEF Rooted
<1>4. Locked'
  BY <1>1 DEF OctaviaInv, Locked, FinishChild
<1> QED BY <1>1, <1>2, <1>3, <1>4 DEF OctaviaInv, Others, FinishChild

LEMMA FinishRootKeeps ==
    ASSUME OctaviaInv, FinishRoot
    PROVE  OctaviaInv' /\ Others(Root) /\ ~stale' /\ status[Root] \in Transient
           /\ status'[Root] \notin Transient
<1>1. /\ status[Root] \in Transient /\ status'[Root] \notin Transient
      /\ \/ \A p \in Objects : status'[p] = "none"
         \/ /\ status'[Root] \in {"ACTIVE", "ERROR"}
            /\ \A p \in Children : status'[p] = status[p]
  BY Tree DEF FinishRoot, Without, OctaviaInv, OctaviaType
<1>2. OctaviaType'
  <2>1. status' \in [Objects -> Transient \cup {"none", "ACTIVE", "ERROR"}]
    BY DEF FinishRoot, Without, OctaviaInv, OctaviaType
  <2>2. value' \in [Objects -> Values \cup {None}]
    BY DEF FinishRoot, Forgotten, OctaviaInv, OctaviaType
  <2>3. trouble' \in 0 .. MaxTrouble
    BY OctaviaAssumption DEF FinishRoot, OctaviaInv, OctaviaType
  <2>4. stale' \in BOOLEAN
    BY Zenon DEF FinishRoot
  <2> QED BY <2>1, <2>2, <2>3, <2>4 DEF OctaviaType
<1>3. Rooted'
  <2>1. \A d \in Children : Exists(d)' => Exists(Parent[d])'
    BY <1>1, Tree DEF OctaviaInv, Rooted
  <2>2. \A o \in Objects : Exists(o)' => value'[o] \in Values
    BY <1>1 DEF OctaviaInv, Rooted, FinishRoot, Forgotten
  <2> QED BY <2>1, <2>2 DEF Rooted
<1>4. Locked'
  BY <1>1 DEF OctaviaInv, Locked, FinishRoot
<1> QED BY <1>1, <1>2, <1>3, <1>4 DEF OctaviaInv, Others, FinishRoot

LEMMA OutsideKeeps ==
    ASSUME OctaviaInv, Outside
    PROVE  OctaviaInv' /\ Others(Root) /\ UNCHANGED stale
           /\ status[Root] \in {"ACTIVE", "ERROR"}
           /\ status'[Root] \in {"none", "ACTIVE", "ERROR"}
<1>1. /\ status[Root] \in {"ACTIVE", "ERROR"}
      /\ \/ \A p \in Objects : status'[p] = "none"
         \/ status'[Root] = "ERROR" /\ \A p \in Children : status'[p] = status[p]
         \/ /\ status'[Root] = "ACTIVE"
            /\ \E c \in Children : \A p \in Children :
                 status'[p] = IF p \in Below(c) \cup {c} THEN "none" ELSE status[p]
  BY Tree DEF Outside, Without, OctaviaInv, OctaviaType
<1>2. OctaviaType'
  <2>1. status' \in [Objects -> Transient \cup {"none", "ACTIVE", "ERROR"}]
    BY DEF Outside, Without, OctaviaInv, OctaviaType
  <2>2. value' \in [Objects -> Values \cup {None}]
    BY DEF Outside, Forgotten, OctaviaInv, OctaviaType
  <2> QED BY <2>1, <2>2, OctaviaAssumption DEF Outside, OctaviaInv, OctaviaType
<1>3. Rooted'
  <2>1. \A d \in Children : Exists(d)' => Exists(Parent[d])'
    BY <1>1, Tree DEF OctaviaInv, Rooted, Below
  <2>2. \A o \in Objects : Exists(o)' => value'[o] \in Values
    BY <1>1 DEF OctaviaInv, Rooted, Outside, Forgotten
  <2> QED BY <2>1, <2>2 DEF Rooted
<1>4. Locked'
  BY <1>1 DEF OctaviaInv, Locked
<1> QED BY <1>1, <1>2, <1>3, <1>4 DEF OctaviaInv, Others, Outside

LEMMA RepairKeeps ==
    ASSUME OctaviaInv, Repair
    PROVE  OctaviaInv' /\ Others(Root) /\ UNCHANGED stale
           /\ status[Root] = "ERROR" /\ status'[Root] = "ACTIVE"
<1>1. /\ status[Root] = "ERROR" /\ status'[Root] = "ACTIVE"
      /\ \A p \in Children : status'[p] = status[p]
  BY Tree DEF Repair, OctaviaInv, OctaviaType
<1>2. OctaviaType'
  BY DEF Repair, OctaviaInv, OctaviaType
<1>3. Rooted'
  BY <1>1, Tree DEF OctaviaInv, Rooted, Repair
<1>4. Locked'
  BY <1>1 DEF OctaviaInv, Locked
<1> QED BY <1>1, <1>2, <1>3, <1>4 DEF OctaviaInv, Others, Repair

-----------------------------------------------------------------------------
(* The handlers.                                                           *)

LEMMA QuietOctavia ==
    ASSUME OctaviaInv, UNCHANGED <<status, value, stale>>, Trouble \/ Calm
    PROVE  OctaviaInv'
<1>1. trouble' \in 0 .. MaxTrouble
  BY OctaviaAssumption DEF OctaviaInv, OctaviaType
<1> QED BY <1>1 DEF OctaviaInv, OctaviaType, Rooted, Locked

\* An operation may end wherever it is, except that the row of a load balancer which
\* exists stays.
LEMMA EndKeeps ==
    ASSUME IInv, NEW o \in Objects, ~Idle(o), NEW outcome \in {"ok", "error"},
           NEW r \in Rows \cup {None}, End(o, outcome, r),
           o = Root /\ Exists(Root) => r # None \/ unanswered,
           UNCHANGED <<status, value, stale>>, Trouble \/ Calm
    PROVE  IInv'
<1>1. OctaviaInv' BY QuietOctavia DEF IInv
<1>2. LoadBalancerType' BY DEF IInv, LoadBalancerType, End, Steps
<1>3. StaleUnseen' BY DEF IInv, StaleUnseen, End, LoadBalancerType
<1>4. Planned'
  <2>1. /\ doing'[o] = "nothing" /\ at'[o] = "idle"
        /\ \A p \in Objects : p # o => /\ doing'[p] = doing[p] /\ at'[p] = at[p]
                                       /\ row'[p] = row[p]
        /\ UNCHANGED <<want, todo>>
    BY DEF IInv, End, LoadBalancerType
  <2>2. \A p \in Objects : p \in todo' => Idle(p)' /\ Operation(row', want', p) # "nothing"
    BY <2>1 DEF IInv, Planned, Operation
  <2> QED BY <2>1, <2>2 DEF IInv, Planned
<1>5. Waited' BY DEF IInv, Waited, End, LoadBalancerType
<1>6. NothingLeftBehind' BY DEF IInv, NothingLeftBehind, End, LoadBalancerType
<1> QED BY <1>1, <1>2, <1>3, <1>4, <1>5, <1>6 DEF IInv

LEMMA FailedKeeps ==
    ASSUME IInv, NEW o \in Objects, ~Idle(o), Failed(o), UNCHANGED <<status, value, stale>>,
           Trouble \/ Calm
    PROVE  IInv'
BY EndKeeps DEF Failed, IInv, NothingLeftBehind, LoadBalancerType

LEMMA DroppedKeeps ==
    ASSUME IInv, NEW o \in Objects, ~Idle(o), Dropped(o), UNCHANGED octaviaVars,
           o = Root => ~Exists(Root)
    PROVE  IInv'
BY EndKeeps DEF Dropped, octaviaVars

\* A wait, or the answer of a GET, lets an operation go on.
LEMMA GoKeeps ==
    ASSUME IInv, NEW o \in Objects, ~Idle(o), NEW step \in {"before", "call", "leaving", "read"},
           Go(o, step), UNCHANGED octaviaVars,
           row' # row => step = "read" /\ doing[o] = "create" /\ RecordCreated(o),
           step = "before" => o # Root,
           step = "call" => at[o] = "before",
           step = "leaving" => o = Root /\ ~stale,
           step = "read" => doing[o] \in {"create", "update"} /\ status[o] \notin Transient
    PROVE  IInv'
<1>1. OctaviaInv' BY QuietOctavia DEF IInv, octaviaVars
<1>2. row' \in [Objects -> Rows \cup {None}]
  <2>1. CASE UNCHANGED row BY <2>1 DEF IInv, LoadBalancerType
  <2>2. CASE RecordCreated(o) /\ doing[o] = "create"
    BY <2>2 DEF IInv, LoadBalancerType, RecordCreated, Rows, Planned
  <2> QED BY <2>1, <2>2
<1>3. LoadBalancerType' BY <1>2 DEF IInv, LoadBalancerType, Go, Steps
<1>4. StaleUnseen' BY DEF IInv, StaleUnseen, Go, LoadBalancerType, octaviaVars
<1>5. Planned'
  BY DEF IInv, Planned, Go, LoadBalancerType, RecordCreated, Operation
<1>6. Waited' BY Tree DEF IInv, Waited, Go, LoadBalancerType, octaviaVars
<1>7. NothingLeftBehind'
  <2>1. CASE UNCHANGED row BY <2>1 DEF Go, IInv, NothingLeftBehind, octaviaVars
  <2>2. CASE RecordCreated(o) /\ doing[o] = "create"
    <3>1. [value |-> want[o], tainted |-> TRUE] \in Rows
      BY <2>2 DEF IInv, Planned, Rows
    <3> QED
      BY <2>2, <3>1, RowAssumption
      DEF Go, IInv, NothingLeftBehind, LoadBalancerType, octaviaVars, RecordCreated
  <2> QED BY <2>1, <2>2
<1> QED BY <1>1, <1>3, <1>4, <1>5, <1>6, <1>7 DEF IInv

\* A request on o is accepted.
LEMMA CallKeeps ==
    ASSUME IInv, NEW o \in Objects, at[o] = "call", Go(o, "after"), UNCHANGED row,
           OctaviaInv', Others(o), status[Root] = "ACTIVE", UNCHANGED stale,
           o # Root /\ doing[o] = "delete" => status'[o] = "PENDING_DELETE"
    PROVE  IInv'
<1>1. LoadBalancerType' BY DEF IInv, LoadBalancerType, Go, Steps
<1>2. StaleUnseen' BY DEF IInv, StaleUnseen
<1>3. Planned' BY DEF IInv, Planned, Go, LoadBalancerType
<1>4. Waited'
  <2>1. \A c \in Objects : at'[c] = "read" => status'[c] \notin Transient
    BY DEF IInv, Waited, Go, LoadBalancerType, Others, Planned
  <2>2. \A c \in Children : at'[c] = "after" /\ doing'[c] = "delete"
           => status'[c] \in {"none", "PENDING_DELETE", "ERROR"}
    BY Tree DEF IInv, Waited, Go, LoadBalancerType, Others
  <2> QED BY <2>1, <2>2 DEF IInv, Waited, Go, LoadBalancerType
<1>5. NothingLeftBehind' BY DEF Go, IInv, NothingLeftBehind
<1> QED BY <1>1, <1>2, <1>3, <1>4, <1>5 DEF IInv

LEMMA BeginKeeps == ASSUME IInv, NEW o \in Objects, Begin(o) PROVE IInv'
<1>1. /\ at' = [at EXCEPT ![o] = at'[o]] /\ at'[o] \in {"resolve", "before", "call"}
      /\ doing' = [doing EXCEPT ![o] = Operation(row, want, o)]
      /\ Operation(row, want, o) \in {"create", "update", "delete"}
      /\ UNCHANGED <<row, want, edits, told, unanswered>> /\ todo' = todo \ {o} /\ Idle(o)
      /\ UNCHANGED octaviaVars
  BY DEF IInv, LoadBalancerType, Begin, Startable, Planned, Operation
<1>2. OctaviaInv' BY <1>1, QuietOctavia DEF IInv, octaviaVars
<1>3. LoadBalancerType' BY <1>1 DEF IInv, LoadBalancerType, Steps
<1>4. StaleUnseen' BY <1>1 DEF IInv, StaleUnseen, LoadBalancerType, octaviaVars
<1>5. Planned'
  <2>1. \A p \in Objects : p # Root /\ ~Idle(Root)' => Idle(p)'
    BY <1>1, Tree DEF IInv, LoadBalancerType, Planned, Begin, Startable, Below
  <2>2. \A p \in Objects : p \in todo' => Idle(p)' /\ Operation(row', want', p) # "nothing"
    BY <1>1 DEF IInv, LoadBalancerType, Planned, Operation
  <2>3. doing'[o] \in {"create", "update"} => want'[o] \in Values
    BY <1>1 DEF IInv, LoadBalancerType, Operation
  <2>4. o = Root /\ doing'[o] = "create" => row'[Root] = None
    BY <1>1 DEF IInv, LoadBalancerType, Operation
  <2> QED BY <1>1, <2>1, <2>2, <2>3, <2>4 DEF IInv, LoadBalancerType, Planned
<1>6. Waited' BY <1>1 DEF IInv, Waited, LoadBalancerType, octaviaVars
<1>7. NothingLeftBehind' BY <1>1 DEF IInv, NothingLeftBehind, octaviaVars
<1> QED BY <1>2, <1>3, <1>4, <1>5, <1>6, <1>7 DEF IInv

LEMMA ApplyKeeps == ASSUME IInv, Apply PROVE IInv'
<1>1. \A o \in Objects : Idle(o) /\ Idle(o)' /\ doing'[o] = "nothing"
  BY DEF Apply, Done, IInv, Planned
<1>2. \A o \in Objects : row'[o] \in Rows \cup {None}
  BY DEF Apply, readInto, IInv, LoadBalancerType, OctaviaInv, Rooted, Rows
<1>3. want' \in [Objects -> Values \cup {None}] /\ edits' \in 0 .. MaxEdits
  BY RowAssumption DEF Apply, Configurations, IInv, LoadBalancerType
<1>4. LoadBalancerType' BY <1>2, <1>3 DEF Apply, IInv, LoadBalancerType
<1>5. OctaviaInv' BY QuietOctavia DEF Apply, IInv, octaviaVars
<1>6. StaleUnseen' BY DEF Apply, IInv, StaleUnseen, octaviaVars
<1>7. Planned' BY <1>1 DEF Apply, Planned
<1>8. Waited' BY <1>1 DEF Apply, IInv, Waited, octaviaVars
<1>9. NothingLeftBehind'
  <2> SUFFICES ASSUME Exists(Root), ~unanswered PROVE row'[Root] # None
    BY DEF NothingLeftBehind, Apply, octaviaVars
  <2>1. row[Root] \in Rows /\ value[Root] \in Values
    BY DEF IInv, NothingLeftBehind, LoadBalancerType, OctaviaInv, Rooted
  <2>2. row'[Root] = [row[Root] EXCEPT !.value = value[Root]]
    BY DEF Apply, readInto, IInv, NothingLeftBehind
  <2> QED BY <2>1, <2>2, RowAssumption DEF Rows
<1> QED BY <1>4, <1>5, <1>6, <1>7, <1>8, <1>9 DEF IInv

LEMMA ImportStateKeeps == ASSUME IInv, NEW c \in Objects, ImportState(c) PROVE IInv'
<1>1. [value |-> value[c], tainted |-> FALSE] \in Rows
  BY DEF ImportState, IInv, OctaviaInv, Rooted, Rows
<1>2. \A o \in Objects : o # c => row'[o] = row[o]
  BY DEF ImportState, IInv, LoadBalancerType
<1>3. LoadBalancerType' BY <1>1 DEF ImportState, IInv, LoadBalancerType
<1>4. OctaviaInv' BY QuietOctavia DEF ImportState, IInv, octaviaVars
<1>5. StaleUnseen' BY DEF ImportState, IInv, StaleUnseen, octaviaVars
<1>6. Planned'
  <2>1. Idle(Root)
    BY DEF ImportState, Done
  <2> QED BY <1>2, <2>1 DEF ImportState, IInv, Planned
<1>7. Waited' BY DEF ImportState, IInv, Waited, octaviaVars
<1>8. NothingLeftBehind'
  <2>1. CASE c = Root
    BY <1>1, <2>1, RowAssumption DEF ImportState, IInv, LoadBalancerType, NothingLeftBehind
  <2>2. CASE c # Root
    BY <1>2, <2>2 DEF ImportState, IInv, NothingLeftBehind, octaviaVars
  <2> QED BY <2>1, <2>2
<1> QED BY <1>3, <1>4, <1>5, <1>6, <1>7, <1>8 DEF IInv

LEMMA ResolveRootKeeps == ASSUME IInv, NEW o \in Objects, ResolveRoot(o) PROVE IInv'
<1>1. ~Idle(o) /\ o # Root /\ UNCHANGED octaviaVars
  BY DEF ResolveRoot
<1>2. CASE Go(o, "before") /\ UNCHANGED row
  BY <1>1, <1>2, GoKeeps
<1>3. CASE Dropped(o)
  BY <1>1, <1>3, DroppedKeeps
<1>4. CASE Failed(o)
  BY <1>1, <1>4, FailedKeeps DEF octaviaVars
<1> QED BY <1>2, <1>3, <1>4 DEF ResolveRoot

LEMMA WaitBeforeKeeps == ASSUME IInv, NEW o \in Objects, WaitBefore(o) PROVE IInv'
<1>1. ~Idle(o) /\ UNCHANGED octaviaVars
  BY DEF WaitBefore
<1>2. CASE Go(o, "call") /\ UNCHANGED row
  BY <1>1, <1>2, GoKeeps DEF WaitBefore
<1>3. CASE Failed(o)
  BY <1>1, <1>3, FailedKeeps DEF octaviaVars
<1> QED BY <1>2, <1>3 DEF WaitBefore, waitForLoadBalancerActive, waitForLoadBalancerSettled

LEMMA CreateChildKeeps == ASSUME IInv, NEW o \in Objects, CreateChild(o) PROVE IInv'
<1>1. o \in Children /\ ~Idle(o) /\ want[o] \in Values
  BY DEF CreateChild, IInv, Planned
<1>2. CASE PostChild(o, want[o]) /\ Go(o, "after") /\ UNCHANGED row
  BY <1>1, <1>2, PostKeeps, CallKeeps DEF CreateChild, IInv
<1>3. CASE Failed(o) /\ UNCHANGED octaviaVars
  BY <1>1, <1>3, FailedKeeps DEF octaviaVars
<1> QED BY <1>2, <1>3 DEF CreateChild

LEMMA UpdateKeeps == ASSUME IInv, NEW o \in Objects, Update(o) PROVE IInv'
<1>1. ~Idle(o) /\ want[o] \in Values
  BY DEF Update, IInv, Planned
<1>2. CASE Put(o, want[o]) /\ Go(o, "after") /\ UNCHANGED row
  BY <1>1, <1>2, PutKeeps, CallKeeps DEF Update, IInv
<1>3. CASE Failed(o) /\ UNCHANGED octaviaVars
  BY <1>1, <1>3, FailedKeeps DEF octaviaVars
<1> QED BY <1>2, <1>3 DEF Update

LEMMA DeleteStepKeeps == ASSUME IInv, NEW o \in Objects, Delete(o) PROVE IInv'
<1>1. o \in Children /\ o # Root /\ ~Idle(o)
  BY DEF Delete
<1>2. CASE DeleteChild(o) /\ Go(o, "after") /\ UNCHANGED row
  BY <1>1, <1>2, DeleteKeeps, CallKeeps DEF Delete, IInv
<1>3. CASE Dropped(o) /\ UNCHANGED octaviaVars
  BY <1>1, <1>3, DroppedKeeps
<1>4. CASE Failed(o) /\ UNCHANGED octaviaVars
  BY <1>1, <1>4, FailedKeeps DEF octaviaVars
<1> QED BY <1>2, <1>3, <1>4 DEF Delete

LEMMA CreateRootKeeps == ASSUME IInv, CreateRoot PROVE IInv'
<1>1. want[Root] \in Values
  BY DEF CreateRoot, IInv, Planned
<1>2. OctaviaInv' /\ ~stale' /\ Others(Root) /\ status'[Root] = "PENDING_CREATE"
  BY <1>1, PostRootKeeps DEF CreateRoot, IInv
<1>3. [value |-> want[Root], tainted |-> TRUE] \in Rows
  BY <1>1 DEF Rows
<1>4. LoadBalancerType'
  <2>1. unanswered' \in BOOLEAN
    BY Zenon DEF CreateRoot
  <2>2. /\ at' \in [Objects -> Steps]
        /\ doing' \in [Objects -> {"nothing", "create", "update", "delete"}]
        /\ told' \in [Objects -> {"nothing", "ok", "error"}]
    BY DEF CreateRoot, IInv, LoadBalancerType, Steps
  <2>3. row' \in [Objects -> Rows \cup {None}] /\ UNCHANGED <<want, edits, todo>>
    BY <1>3 DEF CreateRoot, IInv, LoadBalancerType
  <2> QED BY <2>1, <2>2, <2>3 DEF IInv, LoadBalancerType
<1>5. StaleUnseen'
  BY <1>2 DEF StaleUnseen
<1>6. Planned'
  BY Tree DEF CreateRoot, IInv, LoadBalancerType, Planned, Operation
<1>7. Waited'
  BY <1>2, Tree DEF CreateRoot, IInv, LoadBalancerType, Waited, Others, Planned
<1>8. NothingLeftBehind'
  BY <1>3, RowAssumption DEF CreateRoot, IInv, LoadBalancerType, NothingLeftBehind
<1> QED BY <1>2, <1>4, <1>5, <1>6, <1>7, <1>8 DEF IInv

LEMMA DeleteLoadBalancerKeeps == ASSUME IInv, DeleteLoadBalancer PROVE IInv'
<1>1. ~Idle(Root)
  BY DEF DeleteLoadBalancer
<1>2. CASE DeleteRoot /\ Go(Root, "after") /\ UNCHANGED row
  <2>1. OctaviaInv' /\ status' = [status EXCEPT ![Root] = "PENDING_DELETE"]
    BY <1>2, RootKeeps DEF IInv
  <2>2. status'[Root] = "PENDING_DELETE" /\ \A c \in Children : status'[c] = status[c]
    BY <2>1, Tree DEF IInv, OctaviaInv, OctaviaType
  <2>3. LoadBalancerType' BY <1>2 DEF Go, IInv, LoadBalancerType, Steps
  <2>4. StaleUnseen' BY <1>2, <2>2 DEF Go, IInv, LoadBalancerType, StaleUnseen
  <2>5. Planned'
    BY <1>1, <1>2 DEF DeleteLoadBalancer, Go, IInv, LoadBalancerType, Planned
  <2>6. Waited'
    BY <1>2, <2>2, Tree DEF Go, IInv, LoadBalancerType, Waited
  <2>7. NothingLeftBehind'
    BY <1>2 DEF DeleteRoot, Go, IInv, NothingLeftBehind
  <2> QED BY <2>1, <2>3, <2>4, <2>5, <2>6, <2>7 DEF IInv
<1>3. CASE Dropped(Root) /\ ~Exists(Root) /\ UNCHANGED octaviaVars
  BY <1>1, <1>3, DroppedKeeps
<1>4. CASE Failed(Root) /\ UNCHANGED octaviaVars
  BY <1>1, <1>4, FailedKeeps DEF octaviaVars
<1> QED BY <1>2, <1>3, <1>4 DEF DeleteLoadBalancer

LEMMA WaitAfterKeeps == ASSUME IInv, NEW o \in Objects, WaitAfter(o) PROVE IInv'
<1>1. ~Idle(o) /\ UNCHANGED octaviaVars
  BY DEF WaitAfter
<1>2. CASE doing[o] = "delete"
  <2>1. o # Root /\ Dropped(o)
    BY <1>2 DEF WaitAfter, waitForLoadBalancerSettled
  <2> QED BY <1>1, <2>1, DroppedKeeps
<1>3. CASE doing[o] # "delete" /\ provisioningStatus = "ACTIVE" /\ ~Failed(o)
  <2>1. Go(o, "read") /\ (row' # row => doing[o] = "create" /\ RecordCreated(o))
    BY <1>3 DEF WaitAfter, waitForLoadBalancerActive
  <2>2. status[o] \notin Transient
    BY <1>3 DEF provisioningStatus, IInv, OctaviaInv, Locked
  <2>3. doing[o] \in {"create", "update"}
    BY <1>1, <1>3 DEF IInv, LoadBalancerType, Planned
  <2> QED BY <1>1, <2>1, <2>2, <2>3, GoKeeps
<1>4. CASE Failed(o)
  BY <1>1, <1>4, FailedKeeps DEF octaviaVars
<1> QED BY <1>2, <1>3, <1>4 DEF WaitAfter, waitForLoadBalancerActive

LEMMA ReadBackKeeps == ASSUME IInv, NEW o \in Objects, ReadBack(o) PROVE IInv'
<1>1. ~Idle(o) /\ UNCHANGED octaviaVars
  BY DEF ReadBack
<1>2. CASE Exists(o) /\ End(o, "ok", [value |-> value[o], tainted |-> FALSE])
  <2>1. [value |-> value[o], tainted |-> FALSE] \in Rows
    BY <1>2 DEF IInv, OctaviaInv, Rooted, Rows
  <2> QED BY <1>1, <1>2, <2>1, RowAssumption, EndKeeps DEF octaviaVars
<1>3. CASE ~Exists(o) /\ End(o, "error", None)
  BY <1>1, <1>3, EndKeeps DEF octaviaVars
<1>4. CASE Failed(o)
  BY <1>1, <1>4, FailedKeeps DEF octaviaVars
<1> QED BY <1>2, <1>3, <1>4 DEF ReadBack

LEMMA WaitDeletedKeeps == ASSUME IInv, waitForLoadBalancerDeleted PROVE IInv'
<1>1. ~Idle(Root) /\ UNCHANGED octaviaVars
  BY DEF waitForLoadBalancerDeleted
<1>2. CASE provisioningStatus = "none" /\ Dropped(Root)
  BY <1>1, <1>2, DroppedKeeps DEF provisioningStatus
<1>3. CASE /\ provisioningStatus \in Transient \cup {"ACTIVE"}
           /\ Go(Root, "leaving") /\ UNCHANGED row
  <2>1. ~stale BY <1>3 DEF provisioningStatus
  <2> QED BY <1>1, <1>3, <2>1, GoKeeps
<1>4. CASE Failed(Root)
  BY <1>1, <1>4, FailedKeeps DEF octaviaVars
<1> QED BY <1>2, <1>3, <1>4 DEF waitForLoadBalancerDeleted

\* Work of Octavia's, or of somebody else, on o.
LEMMA WorkKeeps ==
    ASSUME IInv, NEW o \in Objects, UNCHANGED lbVars, OctaviaInv', Others(o),
           status[o] \in Transient \/ status'[o] \notin Transient,
           o # Root /\ status[o] \in {"none", "PENDING_DELETE", "ERROR"}
               => status'[o] \in {"none", "PENDING_DELETE", "ERROR"},
           Exists(Root)' => Exists(Root),
           at[Root] = "read" => status'[Root] \notin Transient,
           stale' => stale /\ status'[Root] = "PENDING_DELETE"
    PROVE  IInv'
<1>1. LoadBalancerType' BY DEF IInv, LoadBalancerType, lbVars
<1>2. StaleUnseen' BY DEF IInv, StaleUnseen, lbVars
<1>3. Planned' BY DEF IInv, Planned, lbVars
<1>4. Waited' BY Tree DEF IInv, Waited, Others, lbVars
<1>5. NothingLeftBehind' BY DEF IInv, NothingLeftBehind, lbVars
<1> QED BY <1>1, <1>2, <1>3, <1>4, <1>5 DEF IInv

LEMMA OctaviaKeeps == ASSUME IInv, OctaviaNext, UNCHANGED lbVars PROVE IInv'
<1>0. /\ stale => status[Root] = "PENDING_DELETE"
      /\ \A o \in Objects : at[o] = "read" => status[o] \notin Transient
  BY DEF IInv, StaleUnseen, Waited
<1>1. ASSUME NEW c \in Children, FinishChild(c) PROVE IInv'
  <2>1. /\ OctaviaInv' /\ Others(c) /\ Exists(Root) /\ UNCHANGED stale
        /\ status'[Root] \in {"ACTIVE", "ERROR"} /\ status[Root] = "PENDING_UPDATE"
        /\ status'[c] \notin Transient
        /\ status[c] = "PENDING_DELETE" => status'[c] \in {"none", "ERROR"}
    BY <1>1, FinishChildKeeps DEF IInv
  <2>2. status[c] \in Transient
    BY <1>1 DEF FinishChild
  <2> QED BY <1>0, <2>1, <2>2, WorkKeeps
<1>2. CASE FinishRoot
  BY <1>0, <1>2, FinishRootKeeps, WorkKeeps DEF IInv
<1>3. CASE ShowDelete
  <2>1. OctaviaInv'
    BY <1>3 DEF ShowDelete, IInv, OctaviaInv, OctaviaType, Rooted, Locked
  <2> QED BY <1>0, <1>3, <2>1, WorkKeeps DEF ShowDelete, Others
<1>4. CASE Outside
  BY <1>0, <1>4, OutsideKeeps, WorkKeeps DEF IInv
<1>5. CASE Repair
  BY <1>0, <1>5, RepairKeeps, WorkKeeps DEF IInv
<1> QED BY <1>1, <1>2, <1>3, <1>4, <1>5 DEF OctaviaNext, OctaviaWork

-----------------------------------------------------------------------------
(* The invariant, and what follows from it.                                *)

LEMMA Initially == Init => IInv
<1> SUFFICES ASSUME Init PROVE IInv
  OBVIOUS
<1>1. OctaviaInv
  <2>1. trouble \in 0 .. MaxTrouble
    BY OctaviaAssumption DEF Init, OctaviaInit
  <2>2. stale \in BOOLEAN
    BY Zenon DEF Init, OctaviaInit
  <2> QED
    BY <2>1, <2>2 DEF Init, OctaviaInit, OctaviaInv, OctaviaType, Rooted, Locked
<1>2. LoadBalancerType
  <2>1. unanswered \in BOOLEAN
    BY Zenon DEF Init
  <2> QED BY <2>1, RowAssumption DEF Init, LoadBalancerType, Steps
<1>3. StaleUnseen /\ NothingLeftBehind
  BY DEF Init, OctaviaInit, StaleUnseen, NothingLeftBehind
<1>4. Planned /\ Waited
  BY DEF Init, Planned, Waited
<1> QED BY <1>1, <1>2, <1>3, <1>4 DEF IInv

LEMMA Inductive == IInv /\ [Next]_vars => IInv'
<1> SUFFICES ASSUME IInv, [Next]_vars PROVE IInv'
  OBVIOUS
<1>1. ASSUME NEW o \in Objects, Begin(o) PROVE IInv'
  BY <1>1, BeginKeeps
<1>2. ASSUME NEW o \in Objects, Handle(o) PROVE IInv'
  BY <1>2, ResolveRootKeeps, WaitBeforeKeeps, CreateChildKeeps, UpdateKeeps,
     DeleteStepKeeps, WaitAfterKeeps, ReadBackKeeps DEF Handle
<1>3. ASSUME NEW o \in Objects, AnyFailure(o) PROVE IInv'
  BY <1>3, FailedKeeps DEF AnyFailure
<1>4. CASE HandleRoot
  BY <1>4, CreateRootKeeps, DeleteLoadBalancerKeeps, WaitDeletedKeeps DEF HandleRoot
<1>5. CASE Apply
  BY <1>5, ApplyKeeps
<1>6. CASE OctaviaNext /\ UNCHANGED lbVars
  BY <1>6, OctaviaKeeps
<1>7. ASSUME NEW c \in Objects, ImportState(c) PROVE IInv'
  BY <1>7, ImportStateKeeps
<1>8. CASE UNCHANGED vars
  BY <1>8 DEF vars, octaviaVars, lbVars, IInv, OctaviaInv, OctaviaType, Rooted, Locked,
     LoadBalancerType, StaleUnseen, Planned, Waited, NothingLeftBehind, Operation
<1> QED BY <1>1, <1>2, <1>3, <1>4, <1>5, <1>6, <1>7, <1>8 DEF Next

\* Every state of a load balancer, its children, their rows and the operations on them
\* is of its type: a row always holds a value, as what is read back exists.
THEOREM TypeCorrect == Spec => []TypeOK
<1>1. IInv => TypeOK
  BY DEF IInv, OctaviaInv, TypeOK
<1> QED BY <1>1, Initially, Inductive, PTL DEF Spec

\* A load balancer the answer to its POST told of has a row for as long as it exists,
\* whatever else failed.
THEOREM NothingIsLeftBehind == Spec => []NothingLeftBehind
<1>1. IInv => NothingLeftBehind
  BY DEF IInv
<1> QED BY <1>1, Initially, Inductive, PTL DEF Spec

\* Only an object's own handlers end its operation.
LEMMA OwnStep ==
    ASSUME IInv, Next, NEW p \in Objects, at'[p] # at[p] \/ told'[p] # told[p]
    PROVE  Begin(p) \/ Handle(p) \/ AnyFailure(p) \/ (p = Root /\ HandleRoot) \/ Apply
<1>1. ASSUME NEW o \in Objects, o # p, Begin(o) \/ Handle(o) \/ AnyFailure(o) PROVE FALSE
  <2>1. at'[p] = at[p] /\ told'[p] = told[p]
    BY <1>1 DEF Begin, Handle, AnyFailure, ResolveRoot, WaitBefore, CreateChild, Update,
       Delete, WaitAfter, ReadBack, waitForLoadBalancerActive,
       waitForLoadBalancerSettled, Go, Dropped, Failed, End, IInv, LoadBalancerType
  <2> QED BY <2>1
<1>2. ASSUME HandleRoot, p # Root PROVE FALSE
  BY <1>2 DEF HandleRoot, CreateRoot, DeleteLoadBalancer, waitForLoadBalancerDeleted,
     Go, Dropped, Failed, End, IInv, LoadBalancerType
<1>3. ASSUME UNCHANGED lbVars \/ \E o \in Objects : ImportState(o) PROVE FALSE
  BY <1>3 DEF lbVars, ImportState
<1> QED BY <1>1, <1>2, <1>3 DEF Next

\* A load balancer's Delete gives up only on one Octavia has given up.
THEOREM DeletionsAreSeenThrough == Spec => DeletionSeenThrough
<1>1. IInv /\ [Next]_vars => [GivesUp => status[Root] # "PENDING_DELETE"]_vars
  <2> SUFFICES ASSUME IInv, Next, GivesUp PROVE status[Root] # "PENDING_DELETE"
    OBVIOUS
  <2>1. Begin(Root) \/ Handle(Root) \/ AnyFailure(Root) \/ HandleRoot \/ Apply
    BY OwnStep DEF GivesUp
  <2>2. ~Begin(Root) /\ ~Apply
    BY DEF GivesUp, Begin, Startable, Apply
  <2>3. ~Handle(Root)
    BY DEF GivesUp, Handle, ResolveRoot, WaitBefore, CreateChild, Update, Delete,
       WaitAfter, ReadBack
  <2>4. ~AnyFailure(Root)
    BY OctaviaAssumption DEF GivesUp, AnyFailure, IInv, OctaviaInv, OctaviaType
  <2>5. waitForLoadBalancerDeleted
    BY <2>1, <2>2, <2>3, <2>4 DEF HandleRoot, GivesUp, CreateRoot, DeleteLoadBalancer
  <2>6. CASE provisioningStatus = "ERROR" /\ at[Root] = "leaving"
    BY <2>6 DEF provisioningStatus, IInv, StaleUnseen
  <2>7. CASE status[Root] \in {"ACTIVE", "ERROR"}
    BY <2>7
  <2>8. ~Dropped(Root) /\ ~Go(Root, "leaving")
    BY DEF GivesUp, Dropped, Go, End, IInv, LoadBalancerType
  <2> QED BY <2>5, <2>6, <2>7, <2>8 DEF waitForLoadBalancerDeleted
<1> QED BY <1>1, Initially, Inductive, PTL DEF Spec, DeletionSeenThrough

\* What an operation that ended well created or updated is there, idle and as its row
\* says, and a load balancer it deleted is gone, among siblings, failures and what
\* earlier applies left running.  A child it deleted is gone too, or in ERROR without
\* a row: waitForLoadBalancerSettled looks at the load balancer alone, and does not
\* see that Octavia failed to delete the child.
THEOREM DoneMeansSettled == Spec => SettledWhenDone
<1>1. ASSUME IInv, Next, NEW o \in Objects, told'[o] = "ok", told[o] # "ok"
      PROVE  Honest(o)
  <2>1. Begin(o) \/ Handle(o) \/ AnyFailure(o) \/ (o = Root /\ HandleRoot) \/ Apply
    BY <1>1, OwnStep
  <2>2. ~Begin(o) /\ ~Apply /\ ~AnyFailure(o) /\ ~Failed(o) /\ \A s \in Steps : ~Go(o, s)
    BY <1>1 DEF Begin, Apply, AnyFailure, Failed, End, Go, IInv, LoadBalancerType
  <2>3. Dropped(o) => row'[o] = None
    BY <1>1 DEF Dropped, End, IInv, LoadBalancerType
  <2>4. CASE ~Exists(o) /\ Dropped(o)
    BY <2>3, <2>4 DEF Honest
  <2>5. CASE ResolveRoot(o)
    <3>1. o \in Children /\ Dropped(o) /\ ~Exists(Parent[o])
      BY <2>2, <2>5 DEF ResolveRoot, Steps
    <3> QED BY <1>1, <3>1, <2>4 DEF IInv, OctaviaInv, Rooted
  <2>6. CASE WaitAfter(o)
    <3>1. o # Root /\ doing[o] = "delete" /\ provisioningStatus \notin Transient /\ Dropped(o)
      BY <2>2, <2>6 DEF WaitAfter, waitForLoadBalancerActive, waitForLoadBalancerSettled,
         Steps
    <3>2. status[o] \in {"none", "PENDING_DELETE", "ERROR"}
      BY <1>1, <3>1, <2>6 DEF WaitAfter, IInv, Waited
    <3>3. status[o] # "PENDING_DELETE"
      BY <1>1, <3>1 DEF IInv, OctaviaInv, Locked, StaleUnseen, provisioningStatus
    <3> QED BY <2>3, <3>1, <3>2, <3>3 DEF Honest
  <2>7. CASE ReadBack(o)
    <3>1. Exists(o) /\ row'[o] = [value |-> value[o], tainted |-> FALSE]
      BY <1>1, <2>2, <2>7 DEF ReadBack, End, IInv, LoadBalancerType
    <3>2. row'[o] # None
      <4>1. value[o] \in Values
        BY <1>1, <3>1 DEF IInv, OctaviaInv, Rooted
      <4>2. [value |-> value[o], tainted |-> FALSE] \in Rows
        BY <4>1 DEF Rows
      <4> QED BY <3>1, <4>2, RowAssumption
    <3> QED BY <1>1, <2>7, <3>1, <3>2 DEF Honest, ReadBack, IInv, Waited
  <2>8. CASE WaitBefore(o) \/ CreateChild(o) \/ Update(o)
    BY <2>2, <2>8 DEF WaitBefore, CreateChild, Update, waitForLoadBalancerActive,
       waitForLoadBalancerSettled, Steps
  <2>9. CASE Delete(o)
    BY <2>2, <2>4, <2>9 DEF Delete, Steps
  <2>10. CASE o = Root /\ HandleRoot
    <3>1. ~CreateRoot
      BY <1>1, <2>10 DEF CreateRoot, IInv, LoadBalancerType
    <3> QED
      BY <2>2, <2>4, <2>10, <3>1 DEF HandleRoot, DeleteLoadBalancer,
         waitForLoadBalancerDeleted, provisioningStatus, Steps
  <2> QED BY <2>1, <2>2, <2>5, <2>6, <2>7, <2>8, <2>9, <2>10 DEF Handle
<1>2. IInv /\ [Next]_vars =>
        [\A o \in Objects : told'[o] = "ok" /\ told[o] # "ok" => Honest(o)]_vars
  BY <1>1
<1> QED BY <1>2, Initially, Inductive, PTL DEF Spec, SettledWhenDone
=============================================================================
