---------------------------- MODULE LifecycleProofs ----------------------------
(***************************************************************************)
(* Theorems about Lifecycle, for any kinds of resource whose handlers keep *)
(* to LifecycleRules, any ids, and any number of failures and edits.       *)
(***************************************************************************)
EXTENDS LifecycleRules, TLAPS

P == PostAt(kind)

\* An operation knows what it is at: the object, the row and the configuration it needs.
RunInv ==
    run # None =>
        /\ run.op \in {"create", "update"} => config # None
        /\ run.op = "create" /\ run.pc <= P => run.id = None /\ row = None
        /\ run.op = "create" /\ run.pc > P => run.id # None
        /\ run.op \in {"read", "update", "delete"} => row # None /\ run.id = row.id

\* What is answered for is not unclaimed.
ClaimInv ==
    /\ row # None => row.id \notin unclaimed
    /\ run # None => run.id \notin unclaimed

TypePart == TypeOK /\ RunInv
TypeInv == TypePart /\ ClaimInv

\* Whether an operation has passed a step that ends well only without the object.
RidPassed == \E n \in DOMAIN K[run.op] : n < run.pc /\ K[run.op][n].do \in Rids(kind)

\* Of an object that is held.
HeldInv ==
    /\ Live \subseteq unclaimed \cup {held}
    /\ held \notin unclaimed
    /\ row # None => row.id \in Ids
    /\ run # None =>
        /\ run.op = "create" /\ run.pc = P + 1 => row = None
        /\ run.op = "create" /\ run.pc > P + 1 => row # None /\ row.id = run.id
        /\ run.op = "create" /\ run.id = NoId =>
              run.pc = P + 1 /\ run.pc \in DOMAIN K.create /\ K.create[run.pc].do = "record"
        /\ run.op = "undo" => row # None /\ row.id = run.id /\ K.undo # <<>>
        /\ run.op \in {"delete", "undo"} /\ RidPassed => run.id \notin Live

IInv == TypeInv /\ (kind \in Held => HeldInv)

-----------------------------------------------------------------------------
(* What the types say of an operation, and of the world.                   *)

\* An operation is at one of its handler's steps, or past the last.
LEMMA RunTyped ==
    ASSUME TypeOK, run # None
    PROVE  /\ run.op \in Ops /\ run.pc \in Nat \ {0} /\ run.id \in Ids \cup {None, NoId}
           /\ run.v \subseteq Fields
           /\ DOMAIN K[run.op] = 1..Len(K[run.op]) /\ Len(K[run.op]) \in Nat
           /\ run.pc <= Len(K[run.op]) + 1
<1>1. run \in Runs[kind] /\ kind \in Kinds /\ run.pc <= Len(K[run.op]) + 1 BY DEF TypeOK
<1>2. run.op \in Ops /\ run.pc \in Nat \ {0} /\ run.id \in Ids \cup {None, NoId}
      /\ run.v \subseteq Fields
  BY <1>1 DEF Runs, Ops, Fields, K
<1>3. K[run.op] \in Seq(StepsOf(kind, run.op)) BY <1>1, <1>2, HandlersAssumption DEF K
<1> QED BY <1>1, <1>2, <1>3

\* A step carries fields of the resource, and its handler may have it; Create makes the
\* object in one place.
LEMMA StepTyped ==
    ASSUME TypeOK, run # None, run.pc \in DOMAIN K[run.op]
    PROVE  /\ Of \subseteq Fields /\ Also \subseteq Fields
           /\ K[run.op][run.pc].do \in Allowed[run.op]
           /\ K[run.op][run.pc].do \in Orders => run.pc + 1 \in DOMAIN K[run.op]
           /\ run.op = "create" =>
                /\ run.pc < P => K[run.op][run.pc].do = "ask"
                /\ run.pc = P <=> K[run.op][run.pc].do \in Posts
                /\ K[run.op][run.pc].do \in Records => run.pc > P
<1>1. kind \in Kinds /\ run.op \in Ops BY RunTyped DEF TypeOK
<1>2. K[run.op] \in Seq(StepsOf(kind, run.op)) BY <1>1, HandlersAssumption DEF K
<1>3. K[run.op][run.pc] \in StepsOf(kind, run.op) BY <1>2, RunTyped
<1>4. /\ Of \subseteq Fields /\ Also \subseteq Fields
      /\ K[run.op][run.pc].do \in Allowed[run.op]
  BY <1>3 DEF StepsOf, Of, Also, Fields, K
<1>5. K[run.op][run.pc].do \in Orders => run.pc + 1 \in DOMAIN K[run.op]
  BY <1>1, HandlersAssumption DEF K
<1>6. run.op = "create" =>
        /\ run.pc < P => K[run.op][run.pc].do = "ask"
        /\ run.pc = P <=> K[run.op][run.pc].do \in Posts
        /\ K[run.op][run.pc].do \in Records => run.pc > P
  BY <1>1, PostAssumption DEF P, K
<1> QED BY <1>4, <1>5, <1>6

\* The place where Create makes the object is one of its steps.
LEMMA PostPlace == ASSUME TypeOK PROVE P \in Nat /\ P >= 1 /\ P <= Len(K.create)
<1>1. kind \in Kinds BY DEF TypeOK
<1>2. K["create"] \in Seq(StepsOf(kind, "create")) BY <1>1, HandlersAssumption DEF Ops, K
<1>3. P \in DOMAIN K["create"] BY <1>1, PostAssumption DEF P, K
<1> QED BY <1>2, <1>3

\* Objects that live are objects.
LEMMA LiveTyped ==
    ASSUME TypeOK, NEW i \in Live
    PROVE  /\ i \in Ids /\ world[i] \in Objects[kind] /\ world[i] # None
           /\ world[i].v \subseteq Fields /\ world[i].next \subseteq Fields
           /\ world[i].st \in {"building", "up", "failed", "deleting"}
<1>1. world[i] \in Objects[kind] /\ kind \in Kinds BY DEF TypeOK, Live
<1> QED BY <1>1 DEF Live, Objects, Fields, K

LEMMA ObjectTyped ==
    ASSUME TypeOK, NEW st \in {"building", "up", "failed", "deleting"},
           NEW v \in SUBSET Fields, NEW next \in SUBSET Fields
    PROVE  LET o == [st |-> st, v |-> v, next |-> next]
           IN  o \in Objects[kind] /\ o # None
<1>1. kind \in Kinds BY DEF TypeOK
<1>2. [st |-> st, v |-> v, next |-> next] \in Objects[kind] BY <1>1 DEF Objects, Fields, K
<1> QED BY <1>1, <1>2, NoneAssumption

\* A change of an object, and its end.
Alters(i, o) == world' = [world EXCEPT ![i] = o]

LEMMA Altered ==
    ASSUME TypeOK, kind' = kind, NEW i \in Ids, NEW o \in Objects[kind], Alters(i, o)
    PROVE  Live' = Live \cup {i} /\ world' \in [Ids -> {None} \cup Objects[kind']]
<1>1. o # None BY NoneAssumption DEF TypeOK
<1>2. world' \in [Ids -> {None} \cup Objects[kind']] BY DEF TypeOK, Alters
<1>3. \A j \in Ids : world'[j] = IF j = i THEN o ELSE world[j] BY DEF TypeOK, Alters
<1>4. \A j : j \in Live' <=> j \in Live \cup {i} BY <1>1, <1>3 DEF Live
<1> QED BY <1>2, <1>4

LEMMA Removed ==
    ASSUME TypeOK, NEW i \in Ids, kind' = kind, world' = [world EXCEPT ![i] = None]
    PROVE  Live' = Live \ {i} /\ world' \in [Ids -> {None} \cup Objects[kind']]
BY DEF TypeOK, Live

LEMMA TroubleTyped ==
    ASSUME TypeOK, Quiet \/ Trouble PROVE trouble' \in 0..MaxTrouble
BY BoundsAssumption DEF TypeOK, Quiet, Trouble

-----------------------------------------------------------------------------
(* What a step makes of the operation.                                     *)

\* An operation goes on, n steps further.
Advances(n) ==
    /\ run # None /\ run' # None /\ run' \in Runs[kind]
    /\ run'.op = run.op /\ run'.id = run.id /\ run'.pc = run.pc + n

RunPart == RunInv /\ (run # None => run \in Runs[kind] /\ run.pc <= Len(K[run.op]) + 1)

\* The records of operations, and that EXCEPT stays among them.
RunsOf(A, B, C) == [op : A, pc : Nat \ {0}, id : B, v : SUBSET C, calm : BOOLEAN]

LEMMA GoAdvances ==
    ASSUME TypeOK, run # None, NEW n \in Nat, NEW v \in SUBSET Fields,
           run' = [run EXCEPT !.pc = @ + n] \/ run' = [run EXCEPT !.pc = @ + n, !.v = v]
    PROVE  Advances(n)
<1>1. run \in Runs[kind] /\ kind \in Kinds BY DEF TypeOK
<1>2. PICK A, B : Runs[kind] = RunsOf(A, B, Fields) BY <1>1 DEF Runs, RunsOf, Fields, K
<1>3. run \in RunsOf(A, B, Fields) BY <1>1, <1>2
<1>4. run.pc + n \in Nat \ {0} BY <1>3 DEF RunsOf
<1>5. /\ [run EXCEPT !.pc = @ + n] \in RunsOf(A, B, Fields)
           /\ [run EXCEPT !.pc = @ + n].op = run.op /\ [run EXCEPT !.pc = @ + n].id = run.id
           /\ [run EXCEPT !.pc = @ + n].pc = run.pc + n
  BY <1>3, <1>4 DEF RunsOf
<1>6. /\ [run EXCEPT !.pc = @ + n, !.v = v] \in RunsOf(A, B, Fields)
           /\ [run EXCEPT !.pc = @ + n, !.v = v].op = run.op
           /\ [run EXCEPT !.pc = @ + n, !.v = v].id = run.id
           /\ [run EXCEPT !.pc = @ + n, !.v = v].pc = run.pc + n
  BY <1>3, <1>4 DEF RunsOf
<1>7. run' \in Runs[kind] /\ run'.op = run.op /\ run'.id = run.id /\ run'.pc = run.pc + n
  BY <1>2, <1>5, <1>6
<1> QED BY <1>1, <1>7, NoneAssumption DEF Advances

\* Advancing from anywhere but the POST keeps what is known of the operation.
LEMMA AdvanceTyped ==
    ASSUME TypeInv, NEW n \in Nat, Advances(n), n >= 1,
           run.pc + n <= Len(K[run.op]) + 1,
           run.op = "create" => run.pc > P \/ (run.pc < P /\ n = 1),
           kind' = kind, config' = config, row' = row
    PROVE  RunPart'
<1>1. P \in Nat BY PostPlace DEF TypeInv, TypePart
<1>2. run.pc \in Nat BY RunTyped DEF TypeInv, TypePart, Advances
<1>3. RunInv' BY <1>1, <1>2 DEF TypeInv, TypePart, RunInv, Advances, P
<1>4. run' # None => run' \in Runs[kind'] /\ run'.pc <= Len(K'[run'.op]) + 1
  BY <1>2 DEF Advances, K
<1> QED BY <1>3, <1>4 DEF RunPart

\* Which handler a step can be in.
LEMMA StepPlaces ==
    ASSUME TypeOK, run # None, run.pc \in DOMAIN K[run.op]
    PROVE  LET do == K[run.op][run.pc].do
           IN  /\ do \in Posts \cup Records => run.op = "create"
               /\ do \in Sends \cup {"await", "awaitOrDrop"} => run.op \in {"create", "update"}
               /\ do = "awaitOrSave" => run.op = "update"
               /\ do \in {"awaitBriefly", "readBackOrWarn"} => run.op \in {"create", "update"}
               /\ do \in ReadBacks => run.op \in {"create", "read", "update"}
               /\ do = "refresh" => run.op = "read"
               /\ do \in Clears \cup Destroys \cup {"awaitGone", "awaitGoneAgain", "awaitGoneBriefly"}
                    => run.op \in {"delete", "undo"}
<1>1. run.op \in {"create", "read", "update", "delete", "undo"} BY RunTyped DEF Ops
<1>2. K[run.op][run.pc].do \in Allowed[run.op] BY StepTyped
<1>3. CASE run.op = "create"
  BY <1>2, <1>3 DEF Allowed, Works, Posts, Records, Sends, Orders, ReadBacks, Clears, Destroys
<1>4. CASE run.op = "read"
  BY <1>2, <1>4 DEF Allowed, Posts, Records, Sends, Orders, ReadBacks, Clears, Destroys
<1>5. CASE run.op = "update"
  BY <1>2, <1>5 DEF Allowed, Works, Posts, Records, Sends, Orders, ReadBacks, Clears, Destroys
<1>6. CASE run.op \in {"delete", "undo"}
  BY <1>2, <1>6 DEF Allowed, Ends, Posts, Records, Sends, Orders, ReadBacks, Clears, Destroys
<1> QED BY <1>1, <1>3, <1>4, <1>5, <1>6

\* Create goes on from where no object is made, or from past that.
LEMMA AdvancePlace ==
    ASSUME TypeOK, run # None, run.pc \in DOMAIN K[run.op], NEW n \in {1, 2},
           K[run.op][run.pc].do \notin Posts,
           n = 2 => K[run.op][run.pc].do \in Orders
    PROVE  /\ run.pc + n <= Len(K[run.op]) + 1
           /\ run.op = "create" => run.pc > P \/ (run.pc < P /\ n = 1)
<1>1. P \in Nat /\ run.pc \in Nat /\ Len(K[run.op]) \in Nat /\ run.pc <= Len(K[run.op])
  BY PostPlace, RunTyped
<1>2. n = 2 => run.pc + 1 <= Len(K[run.op]) BY StepTyped, RunTyped
<1>3. "ask" \notin Orders BY DEF Orders
<1>4. run.op = "create" => run.pc > P \/ (run.pc < P /\ n = 1) BY <1>1, <1>3, StepTyped
<1> QED BY <1>1, <1>2, <1>4

\* What Go, and a read that goes on, make of the operation.
LEMMA GoTyped ==
    ASSUME TypeInv, NEW steps, At(steps), steps \cap Posts = {},
           UNCHANGED plans, row' = row,
           \/ Go \/ (Saw /\ run.id \in Live)
    PROVE  RunPart' /\ Advances(1)
<1>1. TypeOK /\ run # None /\ run.pc \in DOMAIN K[run.op] BY DEF TypeInv, TypePart, At
<1>2. Advances(1)
  <2>1. CASE Go BY <1>1, <2>1, GoAdvances DEF Go
  <2>2. CASE Saw /\ run.id \in Live
    <3>1. Merge(run.v, Of, world[run.id].v) \in SUBSET Fields
      BY <1>1, <2>2, LiveTyped, RunTyped, StepTyped DEF Merge
    <3> QED BY <1>1, <2>2, <3>1, GoAdvances DEF Saw
  <2> QED BY <2>1, <2>2
<1>3. K[run.op][run.pc].do \notin Posts BY DEF At
<1>4. 1 \in {1, 2} OBVIOUS
<1> QED BY <1>1, <1>2, <1>3, <1>4, AdvancePlace, AdvanceTyped DEF plans

\* An operation that stops, and a Create that tidies up instead.
LEMMA FailTyped == ASSUME Fail PROVE RunPart' /\ refreshed' = "no"
BY DEF Fail, RunPart, RunInv

LEMMA UndoTyped ==
    ASSUME TypeInv, run # None, FailAfterUndo, UNCHANGED plans
    PROVE  /\ RunPart' /\ refreshed' \in {"no", refreshed}
           /\ \/ Fail
              \/ /\ run.op = "create" /\ K.undo # <<>>
                 /\ run' # None /\ run'.op = "undo" /\ run'.pc = 1 /\ run'.id = run.id
<1>1. CASE Fail BY <1>1, FailTyped
<1>2. CASE ~Fail
  <2>1. run' = [run EXCEPT !.op = "undo", !.pc = 1] /\ UNCHANGED refreshed
    BY <1>2 DEF FailAfterUndo
  <2>2. run.op = "create" /\ K.undo # <<>> BY <1>2 DEF FailAfterUndo
  <2>3. run \in Runs[kind] /\ kind \in Kinds BY DEF TypeInv, TypePart, TypeOK
  <2>4. PICK A, B : Runs[kind] = RunsOf(A, B, Fields) /\ "undo" \in A
    BY <2>3 DEF Runs, RunsOf, Fields, K
  <2>5. run \in RunsOf(A, B, Fields) /\ 1 \in Nat \ {0} BY <2>3, <2>4
  <2>6. /\ [run EXCEPT !.op = "undo", !.pc = 1] \in RunsOf(A, B, Fields)
        /\ [run EXCEPT !.op = "undo", !.pc = 1].op = "undo"
        /\ [run EXCEPT !.op = "undo", !.pc = 1].pc = 1
        /\ [run EXCEPT !.op = "undo", !.pc = 1].id = run.id
    BY <2>4, <2>5 DEF RunsOf
  <2>7. run' \in Runs[kind] /\ run'.op = "undo" /\ run'.pc = 1 /\ run'.id = run.id
    BY <2>1, <2>4, <2>6
  <2>8. run' # None BY <2>3, <2>7, NoneAssumption
  <2>9. Len(K["undo"]) \in Nat BY <2>3, HandlersAssumption DEF Ops, K
  <2>10. kind' = kind BY DEF plans
  <2>11. RunInv' BY <2>7 DEF RunInv
  <2>12. run'.pc <= Len(K'[run'.op]) + 1 BY <2>7, <2>9, <2>10 DEF K
  <2> QED BY <2>1, <2>2, <2>7, <2>8, <2>10, <2>11, <2>12 DEF RunPart
<1> QED BY <1>1, <1>2

\* The parts of TypeInv that a step of a handler can disturb.
LEMMA Typed ==
    ASSUME TypeInv, UNCHANGED plans, Quiet \/ Trouble,
           row' = None \/ row' \in Rows[kind], refreshed' \in {"no", "yes", "stale"},
           world' \in [Ids -> {None} \cup Objects[kind]], unclaimed' \subseteq Live',
           RunPart'
    PROVE  TypePart'
<1>1. kind' = kind /\ config' = config /\ edits' = edits BY DEF plans
<1>2. trouble' \in 0..MaxTrouble BY TroubleTyped DEF TypeInv, TypePart
<1>3. world' \in [Ids -> {None} \cup Objects[kind']] /\ (row' = None \/ row' \in Rows[kind'])
  BY <1>1
<1>4. Fields' = Fields BY <1>1 DEF Fields, K
<1>5. run' # None => run' \in Runs[kind'] /\ run'.pc <= Len(K'[run'.op]) + 1 BY DEF RunPart
<1>6. TypeOK' BY <1>1, <1>2, <1>3, <1>4, <1>5 DEF TypeInv, TypePart, TypeOK
<1> QED BY <1>6 DEF RunPart, TypeInv, TypePart

-----------------------------------------------------------------------------
(* Every step keeps TypeInv: the steps of the handlers.                    *)

\* No step but the POST disturbs the objects and the row in a way of its own.
LEMMA RefusedTyped == ASSUME TypeInv, Refused PROVE TypePart'
<1>1. run # None BY DEF Refused, At
<1>2. RunPart' /\ refreshed' \in {"no", "yes", "stale"}
  <2>1. CASE Fail BY <2>1, FailTyped
  <2>2. CASE FailAfterUndo BY <1>1, <2>2, UndoTyped DEF Refused, TypeInv, TypePart, TypeOK
  <2> QED BY <2>1, <2>2 DEF Refused
<1>3. Live' = Live BY DEF Refused, cloud, Live
<1> QED BY <1>2, <1>3, Typed DEF Refused, TypeInv, TypePart, TypeOK, cloud

LEMMA AskedTyped == ASSUME TypeInv, Asked PROVE TypePart'
<1>1. RunPart' BY GoTyped DEF Asked, Posts
<1>2. Live' = Live BY DEF Asked, cloud, Live
<1> QED BY <1>1, <1>2, Typed DEF Asked, Go, TypeInv, TypePart, TypeOK, cloud

\* What is made has the configured fields.
LEMMA MadeTyped ==
    ASSUME TypeInv, At(Posts), UNCHANGED plans, NEW i \in Ids, Make(i)
    PROVE  Live' = Live \cup {i} /\ world' \in [Ids -> {None} \cup Objects[kind]]
<1>1. run # None /\ run.op = "create" BY StepPlaces DEF At, TypeInv, TypePart
<1>2. config \cap Of \in SUBSET Fields BY <1>1 DEF TypeInv, TypePart, TypeOK, RunInv
<1>3. PICK o \in Objects[kind] : Alters(i, o)
  BY <1>2, ObjectTyped DEF Make, Object, TypeInv, TypePart, Alters
<1>4. kind' = kind BY DEF plans
<1> QED BY <1>3, <1>4, Altered DEF TypeInv, TypePart

\* A Create at its POST, which goes on with an id.
LEMMA PostTyped ==
    ASSUME TypeInv, At(Posts), UNCHANGED plans, row' = row,
           NEW i \in Ids \cup {NoId}, run' = [run EXCEPT !.pc = @ + 1, !.id = i]
    PROVE  /\ RunPart' /\ run' # None
           /\ run'.op = "create" /\ run'.pc = P + 1 /\ run'.id = i
<1>1. run # None /\ run.pc \in DOMAIN K[run.op] /\ K[run.op][run.pc].do \in Posts BY DEF At
<1>2. run.op = "create" /\ run.pc = P BY <1>1, StepPlaces, StepTyped DEF TypeInv, TypePart
<1>3. run \in Runs[kind] /\ kind \in Kinds BY <1>1 DEF TypeInv, TypePart, TypeOK
<1>4. PICK A : /\ Runs[kind] = RunsOf(A, Ids \cup {None, NoId}, Fields)
  BY <1>3 DEF Runs, RunsOf, Fields, K
<1>5. run \in RunsOf(A, Ids \cup {None, NoId}, Fields) BY <1>3, <1>4
<1>6. run.pc + 1 \in Nat \ {0} BY <1>5 DEF RunsOf
<1>7. i \in Ids \cup {None, NoId} OBVIOUS
<1>8. /\ [run EXCEPT !.pc = @ + 1, !.id = i] \in RunsOf(A, Ids \cup {None, NoId}, Fields)
      /\ [run EXCEPT !.pc = @ + 1, !.id = i].op = run.op
      /\ [run EXCEPT !.pc = @ + 1, !.id = i].pc = run.pc + 1
      /\ [run EXCEPT !.pc = @ + 1, !.id = i].id = i
  BY <1>5, <1>6, <1>7 DEF RunsOf
<1>9. run' \in Runs[kind] /\ run'.op = "create" /\ run'.pc = P + 1 /\ run'.id = i
  BY <1>2, <1>4, <1>8
<1>10. run' # None BY <1>3, <1>9, NoneAssumption
<1>11. i # None BY IdsAssumption
<1>12. P \in Nat /\ P + 1 <= Len(K["create"]) + 1 BY <1>1, <1>2, RunTyped, PostPlace DEF TypeInv, TypePart
<1>13. kind' = kind /\ config' = config /\ P' = P BY DEF plans, P
<1>14. RunInv' BY <1>1, <1>2, <1>9, <1>11, <1>12, <1>13 DEF RunInv, TypeInv, TypePart
<1>15. run' \in Runs[kind'] /\ run'.pc <= Len(K'[run'.op]) + 1 BY <1>9, <1>12, <1>13 DEF K
<1> QED BY <1>9, <1>10, <1>14, <1>15 DEF RunPart

LEMMA PostDoneTyped == ASSUME TypeInv, PostDone PROVE TypePart'
<1> PICK i \in Free :
      /\ Make(i)
      /\ \/ /\ run' = [run EXCEPT !.pc = @ + 1, !.id = i]
            /\ Quiet /\ UNCHANGED <<unclaimed, refreshed>>
         \/ /\ Trouble /\ unclaimed' = unclaimed \cup {i}
            /\ \/ Fail
               \/ UNCHANGED <<run, refreshed>>
               \/ /\ run' = [run EXCEPT !.pc = @ + 1, !.id = NoId]
                  /\ UNCHANGED refreshed
  BY DEF PostDone
<1>1. At(Posts) /\ UNCHANGED <<plans, row>> BY DEF PostDone
<1>2. i \in Ids BY DEF Free
<1>3. Live' = Live \cup {i} /\ world' \in [Ids -> {None} \cup Objects[kind]]
  BY <1>1, <1>2, MadeTyped
<1>4. unclaimed' \subseteq Live' BY <1>3 DEF TypeInv, TypePart, TypeOK
<1>5. refreshed' \in {"no", "yes", "stale"} /\ (Quiet \/ Trouble)
  BY DEF Fail, TypeInv, TypePart, TypeOK
<1>6. RunPart'
  <2>1. CASE run' = [run EXCEPT !.pc = @ + 1, !.id = i] BY <1>1, <1>2, <2>1, PostTyped
  <2>2. CASE run' = [run EXCEPT !.pc = @ + 1, !.id = NoId] BY <1>1, <2>2, PostTyped
  <2>3. CASE Fail BY <2>3, FailTyped
  <2>4. CASE run' = run BY <1>1, <2>4 DEF RunPart, RunInv, TypeInv, TypePart, TypeOK, plans, P, K
  <2> QED BY <2>1, <2>2, <2>3, <2>4
<1> QED BY <1>1, <1>3, <1>4, <1>5, <1>6, Typed DEF TypeInv, TypePart, TypeOK

\* An object that is there is found, or set.
LEMMA PostTakenTyped == ASSUME TypeInv, PostTaken PROVE TypePart' /\ Live' = Live
<1>1. At(Posts) /\ UNCHANGED <<plans, row>> /\ Of \subseteq Fields /\ TypeOK /\ kind' = kind
  BY StepTyped DEF PostTaken, At, TypeInv, TypePart, plans
<1> PICK i \in Live :
      \/ /\ world' = [world EXCEPT
              ![i] = IF Is("put") THEN Object("up", Merge(@.v, Of, config)) ELSE @]
         /\ \/ /\ run' = [run EXCEPT !.pc = @ + 1, !.id = i]
               /\ unclaimed' = unclaimed \ {i}
               /\ Quiet /\ UNCHANGED refreshed
            \/ Trouble /\ Fail /\ UNCHANGED unclaimed
      \/ Fail /\ Quiet /\ UNCHANGED cloud
  BY DEF PostTaken
<1>2. i \in Ids /\ world[i] \in Objects[kind] /\ world[i].v \subseteq Fields
  BY <1>1, LiveTyped
<1>3. config \subseteq Fields
  BY <1>1, StepPlaces DEF At, TypeInv, TypePart, TypeOK, RunInv
<1>4. Live' = Live /\ world' \in [Ids -> {None} \cup Objects[kind]]
  <2>1. CASE UNCHANGED world BY <1>1, <2>1 DEF Live, TypeOK
  <2>2. CASE ~UNCHANGED world
    <3>1. Merge(world[i].v, Of, config) \in SUBSET Fields BY <1>1, <1>2, <1>3 DEF Merge
    <3> DEFINE o == IF Is("put") THEN Object("up", Merge(world[i].v, Of, config)) ELSE world[i]
    <3>2. o \in Objects[kind] BY <1>1, <1>2, <3>1, ObjectTyped DEF Object
    <3>3. Alters(i, o) BY <2>2 DEF cloud, Alters
    <3> HIDE DEF o
    <3> QED BY <1>1, <1>2, <3>2, <3>3, Altered
  <2> QED BY <2>1, <2>2
<1>5. RunPart'
  <2>1. CASE run' = [run EXCEPT !.pc = @ + 1, !.id = i] BY <1>1, <1>2, <2>1, PostTyped
  <2>2. CASE Fail BY <2>2, FailTyped
  <2> QED BY <2>1, <2>2
<1>6. unclaimed' \subseteq Live' BY <1>1, <1>4 DEF TypeOK, cloud
<1>7. refreshed' \in {"no", "yes", "stale"} /\ (Quiet \/ Trouble)
  BY <1>1 DEF Fail, TypeOK
<1>8. row' = None \/ row' \in Rows[kind] BY <1>1 DEF TypeOK
<1> QED BY <1>1, <1>4, <1>5, <1>6, <1>7, <1>8, Typed

\* The new row of a Create.
LEMMA RecordCreatedTyped ==
    ASSUME TypeInv, RecordCreated PROVE TypePart' /\ (Go => row' # None)
<1>1. /\ run # None /\ run.pc \in DOMAIN K[run.op] /\ K[run.op][run.pc].do \in Records
      /\ UNCHANGED plans /\ Quiet /\ UNCHANGED cloud /\ TypeOK /\ kind' = kind
  BY DEF RecordCreated, At, TypeInv, TypePart, plans
<1>2. run.op = "create" /\ run.pc > P /\ P \in Nat /\ run.pc \in Nat
  BY <1>1, StepPlaces, StepTyped, PostPlace, RunTyped
<1>3. Live' = Live BY <1>1 DEF cloud, Live
<1>4. CASE Fail /\ UNCHANGED row
  <2>1. ~Go BY <1>1, <1>4, GoAdvances DEF Go, Fail, Advances
  <2> QED BY <1>1, <1>3, <1>4, <2>1, FailTyped, Typed DEF TypeOK, cloud
<1>5. CASE Go /\ row' = [id |-> run.id, v |-> config, tainted |-> TRUE]
  <2>1. Advances(1) BY <1>1, <1>5, GoAdvances DEF Go
  <2>2. run.id # None /\ config # None BY <1>1, <1>2 DEF TypeInv, TypePart, RunInv
  <2>3. row' \in Rows[kind]
    BY <1>1, <1>5, <2>2, RunTyped DEF TypeOK, Rows, Fields, K
  <2>4. row' # None BY <1>1, <2>3, NoneAssumption DEF TypeOK
  <2>5. run.pc + 1 <= Len(K[run.op]) + 1 BY <1>1, RunTyped
  <2>6. P' = P /\ config' = config BY <1>1 DEF P, plans
  <2>7. RunInv' BY <1>2, <2>1, <2>2, <2>4, <2>6 DEF RunInv, Advances
  <2>8. run' \in Runs[kind'] /\ run'.pc <= Len(K'[run'.op]) + 1
    BY <1>1, <2>1, <2>5 DEF Advances, K
  <2> QED BY <1>1, <1>3, <1>5, <2>3, <2>4, <2>7, <2>8, Typed DEF RunPart, Go, TypeOK, cloud
<1> QED BY <1>4, <1>5 DEF RecordCreated

LEMMA SendSkippedTyped == ASSUME TypeInv, SendSkipped PROVE TypePart' /\ (Advances(1) \/ Advances(2))
<1>1. /\ run # None /\ run.pc \in DOMAIN K[run.op] /\ K[run.op][run.pc].do \in Sends
      /\ UNCHANGED plans /\ Quiet /\ UNCHANGED <<row, cloud, refreshed>> /\ TypeOK
  BY DEF SendSkipped, At, TypeInv, TypePart
<1>2. K[run.op][run.pc].do \notin Posts BY <1>1 DEF Sends, Orders, Posts
<1>3. Live' = Live BY <1>1 DEF cloud, Live
<1> DEFINE n == IF At(Orders) THEN 2 ELSE 1
<1>4. n \in {1, 2} /\ (n = 2 => K[run.op][run.pc].do \in Orders) BY DEF At
<1>5. run' = [run EXCEPT !.pc = @ + n] BY DEF SendSkipped
<1> HIDE DEF n
<1>6. Advances(n)
  <2>1. {} \in SUBSET Fields /\ n \in Nat BY <1>4
  <2> QED BY <1>1, <1>5, <2>1, GoAdvances
<1>7. RunPart'
  BY <1>1, <1>2, <1>4, <1>6, AdvancePlace, AdvanceTyped DEF plans
<1> QED BY <1>1, <1>3, <1>4, <1>6, <1>7, Typed DEF TypeOK, cloud

\* What is sent leaves the object one of the kind.
LEMMA SendDoneTyped == ASSUME TypeInv, SendDone PROVE TypePart' /\ Live' = Live
<1>1. /\ run # None /\ run.pc \in DOMAIN K[run.op] /\ K[run.op][run.pc].do \in Sends
      /\ UNCHANGED <<plans, row, unclaimed>> /\ TypeOK /\ run.id \in Live /\ kind' = kind
  BY DEF SendDone, Sendable, IsUp, At, TypeInv, TypePart, plans
<1>2. config \subseteq Fields /\ Of \subseteq Fields /\ Also \subseteq Fields
  BY <1>1, StepPlaces, StepTyped DEF TypeInv, TypePart, TypeOK, RunInv
<1>3. /\ run.id \in Ids /\ world[run.id] \in Objects[kind] /\ world[run.id].v \in SUBSET Fields
  BY <1>1, LiveTyped
<1>4. Sent(world[run.id].v) \in SUBSET Fields
  <2> DEFINE now == world[run.id].v
             all == Of \cup Changed(Also)
             some == Changed(Of)
  <2>1. all \subseteq Fields /\ some \subseteq Fields BY <1>2 DEF Changed
  <2>2. \A of \in SUBSET Fields : Merge(now, of, config) \subseteq Fields
    BY <1>2, <1>3 DEF Merge
  <2>3. now \ ((row.v \ config) \cap Of) \subseteq Fields BY <1>3
  <2>4. now \cup (config \cap Of) \subseteq Fields BY <1>2, <1>3
  <2>5. Merge(now, all, config) \subseteq Fields /\ Merge(now, some, config) \subseteq Fields
    BY <2>1, <2>2
  <2>6. \/ Sent(now) = now \ ((row.v \ config) \cap Of)
        \/ Sent(now) = now \cup (config \cap Of)
        \/ Sent(now) = Merge(now, some, config)
        \/ Sent(now) = Merge(now, all, config)
    BY DEF Sent
  <2> QED BY <2>3, <2>4, <2>5, <2>6
<1> DEFINE now == world[run.id].v
           o == IF At(Orders) THEN [st |-> "building", v |-> now, next |-> Sent(now)]
                ELSE Object("up", Sent(now))
<1>5. o \in Objects[kind] BY <1>1, <1>3, <1>4, ObjectTyped DEF Object
<1>6. Alters(run.id, o) BY DEF SendDone, Alters
<1> HIDE DEF o
<1>7. Live' = Live /\ world' \in [Ids -> {None} \cup Objects[kind]]
  BY <1>1, <1>3, <1>5, <1>6, Altered
<1>8. RunPart' /\ refreshed' \in {"no", "yes", "stale"} /\ (Quiet \/ Trouble)
  <2>1. CASE Go /\ Quiet
    <3>1. At(Sends) /\ Sends \cap Posts = {} BY DEF SendDone, Sends, Orders, Posts
    <3> QED BY <1>1, <2>1, <3>1, GoTyped DEF Go, TypeOK
  <2>2. CASE Trouble /\ Fail BY <2>2, FailTyped
  <2>3. CASE Trouble /\ FailAfterUndo BY <1>1, <2>3, UndoTyped DEF TypeOK
  <2> QED BY <2>1, <2>2, <2>3 DEF SendDone
<1> QED BY <1>1, <1>7, <1>8, Typed DEF TypeOK

LEMMA SendRejectedTyped == ASSUME TypeInv, SendRejected PROVE TypePart'
<1>1. run # None /\ UNCHANGED <<plans, row, cloud>> /\ Quiet /\ TypeOK
  BY DEF SendRejected, At, TypeInv, TypePart
<1>2. RunPart' /\ refreshed' \in {"no", "yes", "stale"}
  <2>1. CASE Fail BY <2>1, FailTyped
  <2>2. CASE FailAfterUndo BY <1>1, <2>2, UndoTyped DEF TypeOK
  <2> QED BY <2>1, <2>2 DEF SendRejected
<1>3. Live' = Live BY <1>1 DEF cloud, Live
<1> QED BY <1>1, <1>2, <1>3, Typed DEF TypeOK, cloud

LEMMA ClearedTyped == ASSUME TypeInv, Cleared PROVE TypePart' /\ Live' = Live
<1>1. At(Clears) /\ UNCHANGED <<plans, row, unclaimed>> /\ TypeOK /\ kind' = kind
  BY DEF Cleared, TypeInv, TypePart, plans
<1>2. Live' = Live /\ world' \in [Ids -> {None} \cup Objects[kind]]
  <2>1. CASE UNCHANGED world BY <2>1, <1>1 DEF Live, TypeOK
  <2>2. CASE /\ run.id \in Live
             /\ world' = [world EXCEPT ![run.id].v = @ \ Of, ![run.id].next = @ \ Of]
    <3> DEFINE w == world[run.id]
               o == [w EXCEPT !.v = @ \ Of, !.next = @ \ Of]
    <3>1. w \in Objects[kind] /\ run.id \in Ids BY <1>1, <2>2, LiveTyped
    <3>2. PICK S : Objects[kind] = [st : S, v : SUBSET Fields, next : SUBSET Fields]
      BY <1>1 DEF TypeOK, Objects, Fields, K
    <3>3. o \in Objects[kind]
      <4>1. w \in [st : S, v : SUBSET Fields, next : SUBSET Fields] BY <3>1, <3>2
      <4>2. w.v \ Of \in SUBSET Fields /\ w.next \ Of \in SUBSET Fields BY <4>1
      <4> HIDE DEF w
      <4> QED BY <3>2, <4>1, <4>2
    <3>4. Alters(run.id, o) BY <1>1, <2>2, <3>1 DEF TypeOK, Alters
    <3> HIDE DEF o
    <3>5. Live' = Live \cup {run.id} /\ world' \in [Ids -> {None} \cup Objects[kind']]
      BY <1>1, <3>1, <3>3, <3>4, Altered
    <3> QED BY <1>1, <2>2, <3>5
  <2> QED BY <2>1, <2>2 DEF Cleared
<1>3. RunPart' /\ refreshed' \in {"no", "yes", "stale"} /\ (Quiet \/ Trouble)
  <2>1. CASE Go /\ Quiet
    <3>1. Clears \cap Posts = {} BY DEF Clears, Posts
    <3> QED BY <1>1, <2>1, <3>1, GoTyped DEF Go, TypeOK
  <2>2. CASE Fail /\ Trouble BY <2>2, FailTyped
  <2> QED BY <2>1, <2>2 DEF Cleared
<1> QED BY <1>1, <1>2, <1>3, Typed DEF TypeOK

\* What has come instead is saved to the row.
SavesRow ==
    /\ Is("awaitOrSave") /\ Fail
    /\ row' = [row EXCEPT !.v = Merge(config, Seen, world[run.id].v)]

LEMMA RowSaved ==
    ASSUME TypeInv, At(Awaits), IsUp(run.id), SavesRow
    PROVE  row # None /\ row' \in Rows[kind] /\ row' # None /\ row'.id = row.id
<1>1. /\ run # None /\ run.pc \in DOMAIN K[run.op] /\ TypeOK /\ kind \in Kinds
  BY DEF At, TypeInv, TypePart, TypeOK
<1>2. run.op = "update" BY <1>1, StepPlaces DEF SavesRow, Is
<1>3. config \subseteq Fields /\ row # None
  BY <1>1, <1>2 DEF TypeInv, TypePart, RunInv, TypeOK
<1>4. world[run.id].v \subseteq Fields BY <1>1, LiveTyped DEF IsUp
<1> DEFINE v == Merge(config, Seen, world[run.id].v)
<1>5. v \in SUBSET Fields BY <1>3, <1>4 DEF Merge
<1>6. row' = [row EXCEPT !.v = v] BY DEF SavesRow
<1>7. PICK A : Rows[kind] = [id : A, v : SUBSET Fields, tainted : BOOLEAN]
  BY <1>1 DEF Rows, Fields, K
<1>8. row \in [id : A, v : SUBSET Fields, tainted : BOOLEAN]
  BY <1>1, <1>3, <1>7 DEF TypeOK
<1> HIDE DEF v
<1>9. row' \in Rows[kind] /\ row'.id = row.id BY <1>5, <1>6, <1>7, <1>8
<1> QED BY <1>1, <1>3, <1>9, NoneAssumption

LEMMA AwaitedTyped == ASSUME TypeInv, Awaited PROVE TypePart'
<1>1. /\ run # None /\ run.pc \in DOMAIN K[run.op] /\ K[run.op][run.pc].do \in Awaits
      /\ UNCHANGED plans /\ Quiet /\ UNCHANGED cloud /\ TypeOK /\ kind \in Kinds
      /\ At(Awaits)
  BY DEF Awaited, At, TypeInv, TypePart, TypeOK
<1>2. Live' = Live BY <1>1 DEF cloud, Live
<1>3. CASE Go /\ UNCHANGED row
  <2>1. Awaits \cap Posts = {} BY DEF Awaits, Posts
  <2> QED BY <1>1, <1>2, <1>3, <2>1, GoTyped, Typed DEF Go, TypeOK, cloud
<1>4. CASE IsUp(run.id) /\ SavesRow
  <2>1. Fail BY <1>4 DEF SavesRow
  <2> QED BY <1>1, <1>2, <1>4, <2>1, RowSaved, FailTyped, Typed DEF TypeOK, cloud
<1>5. CASE Fail /\ row' \in {None, row}
  BY <1>1, <1>2, <1>5, FailTyped, Typed DEF TypeOK, cloud
<1>6. CASE FailAfterUndo /\ UNCHANGED row
  BY <1>1, <1>2, <1>6, UndoTyped, Typed DEF TypeOK, cloud
<1> QED BY <1>3, <1>4, <1>5, <1>6 DEF Awaited, SavesRow

LEMMA AwaitedBrieflyTyped == ASSUME TypeInv, AwaitedBriefly PROVE TypePart'
<1>1. RunPart' BY GoTyped DEF AwaitedBriefly, Posts
<1>2. Live' = Live BY DEF AwaitedBriefly, cloud, Live
<1> QED BY <1>1, <1>2, Typed DEF AwaitedBriefly, Go, TypeInv, TypePart, TypeOK, cloud

LEMMA BackReadTyped == ASSUME TypeInv, BackRead PROVE TypePart'
<1>1. UNCHANGED <<plans, cloud>> /\ TypeOK BY DEF BackRead, TypeInv, TypePart
<1>2. Live' = Live BY <1>1 DEF cloud, Live
<1>3. (ReadBacks \cup {"readBackOrWarn"}) \cap Posts = {} BY DEF ReadBacks, Posts
<1>4. At(ReadBacks \cup {"readBackOrWarn"}) BY DEF BackRead
<1>5. CASE run.id \in Live /\ Saw /\ Quiet /\ UNCHANGED <<refreshed, row>>
  BY <1>1, <1>2, <1>3, <1>4, <1>5, GoTyped, Typed DEF TypeOK, cloud
<1>6. CASE Fail /\ Quiet /\ row' \in {None, row}
  BY <1>1, <1>2, <1>6, FailTyped, Typed DEF TypeOK, cloud
<1>7. CASE Go /\ UNCHANGED row /\ (Quiet \/ Trouble)
  BY <1>1, <1>2, <1>3, <1>4, <1>7, GoTyped, Typed DEF Go, TypeOK, cloud
<1> QED BY <1>5, <1>6, <1>7 DEF BackRead

LEMMA RefreshedTyped == ASSUME TypeInv, Refreshed PROVE TypePart'
<1>1. UNCHANGED <<plans, refreshed, cloud>> /\ TypeOK /\ Quiet BY DEF Refreshed, TypeInv, TypePart
<1>2. Live' = Live BY <1>1 DEF cloud, Live
<1>3. {"refresh"} \cap Posts = {} /\ At({"refresh"}) BY DEF Refreshed, Posts
<1>4. CASE run.id \in Live /\ Saw /\ UNCHANGED row
  BY <1>1, <1>2, <1>3, <1>4, GoTyped, Typed DEF TypeOK, cloud
<1>5. CASE run' = None /\ row' = None
  BY <1>1, <1>2, <1>5, Typed DEF RunPart, RunInv, TypeOK, cloud
<1> QED BY <1>4, <1>5 DEF Refreshed

\* A wait or a DELETE that goes on, stops, or stays where it is.
LEMMA EndingTyped ==
    ASSUME TypeInv, NEW steps, At(steps), steps \cap Posts = {},
           UNCHANGED <<plans, row>>, Go \/ Fail \/ UNCHANGED <<run, refreshed>>
    PROVE  RunPart' /\ refreshed' \in {"no", "yes", "stale"}
<1>1. CASE Go BY <1>1, GoTyped DEF Go, TypeInv, TypePart, TypeOK
<1>2. CASE Fail BY <1>2, FailTyped
<1>3. CASE UNCHANGED <<run, refreshed>>
  BY <1>3 DEF RunPart, RunInv, TypeInv, TypePart, TypeOK, plans, P, K
<1> QED BY <1>1, <1>2, <1>3

\* An object on its way out.
LEMMA LeavingTyped ==
    ASSUME TypeOK, NEW i \in Live, kind' = kind, world' = [world EXCEPT ![i].st = "deleting"]
    PROVE  Live' = Live /\ world' \in [Ids -> {None} \cup Objects[kind]]
<1> DEFINE o == [world[i] EXCEPT !.st = "deleting"]
<1>1. world[i] \in Objects[kind] /\ i \in Ids BY LiveTyped
<1>2. PICK S : /\ Objects[kind] = [st : S, v : SUBSET Fields, next : SUBSET Fields]
               /\ "deleting" \in S
  BY DEF TypeOK, Objects, Fields, K
<1>3. o \in Objects[kind] BY <1>1, <1>2
<1>4. Alters(i, o) BY <1>1 DEF TypeOK, Alters
<1> HIDE DEF o
<1>5. Live' = Live \cup {i} /\ world' \in [Ids -> {None} \cup Objects[kind']]
  BY <1>1, <1>3, <1>4, Altered
<1> QED BY <1>5

LEMMA DestroyedTyped ==
    ASSUME TypeInv, Destroyed
    PROVE  TypePart' /\ (Live' = Live \/ (run.id \in Live /\ Live' = Live \ {run.id}))
<1>1. At(Destroys) /\ UNCHANGED <<plans, row, unclaimed>> /\ TypeOK /\ kind' = kind
  BY DEF Destroyed, TypeInv, TypePart, plans
<1>2. /\ Live' = Live \/ (run.id \in Live /\ Live' = Live \ {run.id})
      /\ world' \in [Ids -> {None} \cup Objects[kind]]
  <2>1. CASE UNCHANGED world BY <1>1, <2>1 DEF Live, TypeOK
  <2>2. CASE run.id \in Live /\ world' = [world EXCEPT ![run.id] = None]
    <3>1. run.id \in Ids BY <2>2 DEF Live
    <3> QED BY <1>1, <2>2, <3>1, Removed
  <2>3. CASE run.id \in Live /\ world' = [world EXCEPT ![run.id].st = "deleting"]
    BY <1>1, <2>3, LeavingTyped
  <2> QED BY <2>1, <2>2, <2>3 DEF Destroyed
<1>3. Quiet \/ Trouble BY DEF Destroyed
<1>4. Go \/ Fail \/ UNCHANGED <<run, refreshed>> BY DEF Destroyed
<1>5. Destroys \cap Posts = {} BY DEF Destroys, Posts
<1>6. RunPart' /\ refreshed' \in {"no", "yes", "stale"} BY <1>1, <1>4, <1>5, EndingTyped
<1>7. run.id \notin unclaimed BY DEF Destroyed, At, TypeInv, ClaimInv
<1>8. unclaimed' \subseteq Live' BY <1>1, <1>2, <1>7 DEF TypeOK
<1> QED BY <1>1, <1>2, <1>3, <1>6, <1>8, Typed DEF TypeOK

LEMMA GoneAwaitedTyped == ASSUME TypeInv, GoneAwaited PROVE TypePart' /\ Live' = Live
<1> DEFINE steps == {"awaitGone", "awaitGoneAgain", "awaitGoneBriefly"}
<1>1. At(steps) /\ UNCHANGED <<plans, row, unclaimed>> /\ TypeOK /\ kind' = kind
  BY DEF GoneAwaited, TypeInv, TypePart, plans
<1>2. Live' = Live /\ world' \in [Ids -> {None} \cup Objects[kind]]
  <2>1. CASE UNCHANGED world BY <1>1, <2>1 DEF Live, TypeOK
  <2>2. CASE run.id \in Live /\ world' = [world EXCEPT ![run.id].st = "deleting"]
    BY <1>1, <2>2, LeavingTyped
  <2> QED BY <2>1, <2>2 DEF GoneAwaited
<1>3. Quiet \/ Trouble BY DEF GoneAwaited
<1>4. Go \/ Fail \/ UNCHANGED <<run, refreshed>> BY DEF GoneAwaited
<1>5. steps \cap Posts = {} BY DEF Posts
<1>6. RunPart' /\ refreshed' \in {"no", "yes", "stale"} BY <1>1, <1>4, <1>5, EndingTyped
<1> QED BY <1>1, <1>2, <1>3, <1>6, Typed DEF TypeOK

-----------------------------------------------------------------------------
(* The steps of Terraform core, of the service and of everybody else.      *)

\* What begins has the object, the row and the configuration it needs.
LEMMA StartTyped ==
    ASSUME TypeInv, Start
    PROVE  TypePart' /\ run' # None /\ run'.pc = 1 /\ run'.op = Todo
           /\ run'.id = IF row = None THEN None ELSE row.id
<1>1. /\ run = None /\ Quiet /\ UNCHANGED <<plans, row, cloud>> /\ TypeOK
      /\ kind \in Kinds /\ kind' = kind /\ config' = config
  BY DEF Start, TypeInv, TypePart, TypeOK, plans
<1>2. /\ Todo \in {"create", "read", "update", "delete"}
      /\ Todo \in {"create", "update"} => config # None
      /\ Todo = "create" <=> row = None
  BY DEF Start, Todo
<1> DEFINE id == IF row = None THEN None ELSE row.id
           v == IF Todo \in {"create", "update"} THEN config ELSE row.v
           calm == refreshed # "stale"
<1>3. row # None => row.id \in Ids \cup {NoId} /\ row.v \in SUBSET Fields
  BY <1>1 DEF TypeOK, Rows, Fields, K
<1>4. id \in Ids \cup {None, NoId} /\ v \in SUBSET Fields /\ calm \in BOOLEAN
  BY <1>1, <1>2, <1>3 DEF TypeOK
<1>5. run' = [op |-> Todo, pc |-> 1, calm |-> calm, id |-> id, v |-> v] BY DEF Start
<1> HIDE DEF id, v, calm
<1>6. run' \in Runs[kind] BY <1>1, <1>2, <1>4, <1>5 DEF Runs, Fields, K
<1>7. run' # None BY <1>1, <1>6, NoneAssumption
<1>8. run'.op = Todo /\ run'.pc = 1 /\ run'.id = id BY <1>5
<1>9. Len(K[Todo]) \in Nat BY <1>1, <1>2, HandlersAssumption DEF Ops, K
<1>10. RunPart'
  <2>1. P' = P /\ P >= 1 /\ P \in Nat BY <1>1, PostPlace DEF P
  <2>2. row # None => run'.id = row.id BY <1>8 DEF id
  <2>3. row = None => run'.id = None BY <1>8 DEF id
  <2>4. RunInv' BY <1>1, <1>2, <1>8, <2>1, <2>2, <2>3 DEF RunInv
  <2>5. run'.pc <= Len(K'[run'.op]) + 1 BY <1>1, <1>8, <1>9 DEF K
  <2> QED BY <1>1, <1>6, <2>4, <2>5 DEF RunPart
<1>11. Live' = Live BY <1>1 DEF cloud, Live
<1>12. refreshed' \in {"no", "yes", "stale"} BY <1>1 DEF Start, TypeOK
<1>13. TypePart' BY <1>1, <1>10, <1>11, <1>12, Typed DEF TypeOK, cloud
<1> QED BY <1>7, <1>8, <1>13 DEF id

\* The row at the end of an operation.
LEMMA FinishTyped ==
    ASSUME TypeInv, Finish
    PROVE  /\ TypePart' /\ (row' = None \/ (row' # None /\ row'.id = run.id))
           /\ row' = None => run.op \in {"delete", "undo"}
<1>1. /\ run # None /\ run.pc = Len(K[run.op]) + 1 /\ run' = None
      /\ Quiet /\ UNCHANGED <<plans, cloud>> /\ TypeOK /\ kind \in Kinds
      /\ run.op \in Ops /\ run.v \in SUBSET Fields /\ run.id \in Ids \cup {None, NoId}
      /\ refreshed' \in {"no", refreshed}
  BY RunTyped DEF Finish, TypeInv, TypePart, TypeOK
<1>2. IF run.op \in {"delete", "undo"} THEN row' = None
      ELSE row' \in Rows[kind] /\ row'.id = run.id
  <2> PICK A : A = Ids \cup {NoId} /\ Rows[kind] = [id : A, v : SUBSET Fields, tainted : BOOLEAN]
    BY <1>1 DEF Rows, Fields, K
  <2>1. CASE run.op = "create"
    <3>1. run.pc > P BY <1>1, <2>1, PostPlace
    <3>2. run.id \in A BY <1>1, <2>1, <3>1 DEF TypeInv, TypePart, RunInv
    <3>3. row' = [id |-> run.id, v |-> run.v, tainted |-> run.v # config]
      BY <2>1 DEF Finish
    <3> QED BY <1>1, <2>1, <3>2, <3>3
  <2>2. CASE run.op \in {"read", "update"}
    <3>1. row # None /\ run.id = row.id BY <1>1, <2>2 DEF TypeInv, TypePart, RunInv
    <3>2. row \in [id : A, v : SUBSET Fields, tainted : BOOLEAN] BY <1>1, <3>1 DEF TypeOK
    <3>3. row' = [row EXCEPT !.id = run.id, !.v = run.v] BY <2>2 DEF Finish
    <3>4. run.id \in A BY <3>1, <3>2
    <3> QED BY <1>1, <2>2, <3>2, <3>3, <3>4
  <2>3. CASE run.op \in {"delete", "undo"} BY <2>3 DEF Finish
  <2> QED BY <1>1, <2>1, <2>2, <2>3 DEF Ops
<1>3. Live' = Live BY <1>1 DEF cloud, Live
<1>4. RunPart' BY <1>1 DEF RunPart, RunInv
<1>5. row' = None \/ (row' # None /\ row'.id = run.id) BY <1>2
<1>6. row' = None => run.op \in {"delete", "undo"} BY <1>1, <1>2, NoneAssumption
<1> QED BY <1>1, <1>2, <1>3, <1>4, <1>5, <1>6, Typed DEF TypeOK, cloud

LEMMA EditTyped == ASSUME TypeInv, Edit PROVE TypePart'
<1>1. /\ run = None /\ run' = None /\ UNCHANGED <<kind, row, cloud>> /\ refreshed' = "no"
      /\ TypeOK /\ edits < MaxEdits /\ edits' = edits + 1 /\ Quiet /\ kind \in Kinds
  BY DEF Edit, TypeInv, TypePart, TypeOK
<1>2. config' = None \/ config' \subseteq Fields'
  BY <1>1, ConfigsAssumption DEF Edit, Fields, K
<1>3. Live' = Live BY <1>1 DEF cloud, Live
<1>4. trouble' \in 0..MaxTrouble /\ edits' \in 0..MaxEdits
  BY <1>1, TroubleTyped, BoundsAssumption DEF TypeOK
<1> QED BY <1>1, <1>2, <1>3, <1>4 DEF TypePart, TypeOK, RunInv, cloud

LEMMA ImportTyped ==
    ASSUME TypeInv, Import
    PROVE  TypePart' /\ row' # None /\ Live' = Live
<1> PICK i \in unclaimed :
      /\ row' = [id |-> i, v |-> {}, tainted |-> FALSE]
      /\ unclaimed' = unclaimed \ {i}
  BY DEF Import
<1>1. /\ run' = None /\ UNCHANGED <<plans, world>> /\ refreshed' = "no" /\ Quiet /\ TypeOK
      /\ kind \in Kinds
  BY DEF Import, TypeInv, TypePart, TypeOK
<1>2. Live' = Live BY <1>1 DEF Live
<1>3. i \in Ids BY <1>1 DEF TypeOK, Live
<1>4. row' \in Rows[kind] BY <1>1, <1>3 DEF Rows
<1>5. row' # None BY <1>1, <1>4, NoneAssumption
<1>6. RunPart' BY <1>1 DEF RunPart, RunInv
<1> QED BY <1>1, <1>2, <1>4, <1>5, <1>6, Typed DEF TypeOK

\* The service carries out, or fails at, what it has begun.
LEMMA ServiceWorksTyped ==
    ASSUME TypeInv, NEW i \in Ids, ServiceWorks(i)
    PROVE  /\ TypePart' /\ (Live' = Live \/ Live' = Live \ {i}) /\ i \in Live
           /\ unclaimed' = unclaimed \cap Live'
<1>1. /\ i \in Live /\ UNCHANGED <<plans, row, run>> /\ Quiet /\ TypeOK /\ kind' = kind
      /\ refreshed' \in {"no", "yes", "stale"}
  BY DEF ServiceWorks, Stale, TypeInv, TypePart, TypeOK, plans
<1>2. /\ Live' = Live \/ Live' = Live \ {i}
      /\ world' \in [Ids -> {None} \cup Objects[kind]]
  <2>1. CASE world' = [world EXCEPT ![i] = Object("up", @.next)]
    <3> DEFINE o == Object("up", world[i].next)
    <3>1. o \in Objects[kind] BY <1>1, LiveTyped, ObjectTyped DEF Object
    <3>2. Alters(i, o) BY <2>1 DEF Alters
    <3> HIDE DEF o
    <3>3. Live' = Live \cup {i} /\ world' \in [Ids -> {None} \cup Objects[kind']]
      BY <1>1, <3>1, <3>2, Altered
    <3> QED BY <1>1, <3>3
  <2>2. CASE world' = [world EXCEPT ![i] = None] BY <1>1, <2>2, Removed
  <2> QED BY <2>1, <2>2 DEF ServiceWorks
<1>3. unclaimed' = unclaimed \cap Live'
  BY <1>1 DEF ServiceWorks, Live, TypeOK
<1>4. RunPart' BY <1>1 DEF RunPart, RunInv, TypeInv, TypePart, TypeOK, plans, P, K
<1>5. TypePart' BY <1>1, <1>2, <1>3, <1>4, Typed DEF TypeOK
<1> QED BY <1>1, <1>2, <1>3, <1>5

LEMMA ServiceFailsTyped ==
    ASSUME TypeInv, NEW i \in Ids, ServiceFails(i)
    PROVE  TypePart' /\ Live' = Live
<1>1. /\ i \in Live /\ UNCHANGED <<plans, row, run, unclaimed>> /\ Trouble /\ TypeOK
      /\ kind' = kind /\ refreshed' \in {"no", "yes", "stale"}
  BY DEF ServiceFails, Stale, TypeInv, TypePart, TypeOK, plans
<1>2. world[i].v \in SUBSET Fields BY <1>1, LiveTyped
<1>3. PICK o \in Objects[kind] : Alters(i, o)
  <2>1. CASE world' = [world EXCEPT ![i] = Object("failed", @.v)]
    <3>1. Alters(i, Object("failed", world[i].v)) BY <2>1 DEF Alters
    <3> QED BY <1>1, <1>2, <3>1, ObjectTyped DEF Object
  <2>2. CASE world' = [world EXCEPT ![i] = Object("up", @.v)]
    <3>1. Alters(i, Object("up", world[i].v)) BY <2>2 DEF Alters
    <3> QED BY <1>1, <1>2, <3>1, ObjectTyped DEF Object
  <2> QED BY <2>1, <2>2 DEF ServiceFails
<1>4. Live' = Live /\ world' \in [Ids -> {None} \cup Objects[kind]]
  BY <1>1, <1>3, Altered
<1>5. RunPart' BY <1>1 DEF RunPart, RunInv, TypeInv, TypePart, TypeOK, plans, P, K
<1>6. TypePart' BY <1>1, <1>4, <1>5, Typed DEF TypeOK
<1> QED BY <1>4, <1>6

\* Interference leaves the operation where it is.
LEMMA DisturbTyped ==
    ASSUME TypeInv, Disturb, UNCHANGED <<plans, row>>
    PROVE  /\ RunPart' /\ refreshed' \in {"no", "yes", "stale"}
           /\ run = None <=> run' = None
           /\ run # None => run'.op = run.op /\ run'.pc = run.pc /\ run'.id = run.id
<1>1. TypeOK /\ kind \in Kinds /\ kind' = kind /\ config' = config /\ row' = row /\ P' = P
  BY DEF TypeInv, TypePart, TypeOK, plans, P
<1>2. CASE run = None
  BY <1>1, <1>2 DEF Disturb, Stale, RunPart, RunInv, TypeOK
<1>3. CASE run # None
  <2>1. PICK A, B : Runs[kind] = RunsOf(A, B, Fields)
    BY <1>1 DEF Runs, RunsOf, Fields, K
  <2>2. run \in RunsOf(A, B, Fields) BY <1>1, <1>3, <2>1 DEF TypeOK
  <2>3. FALSE \in BOOLEAN OBVIOUS
  <2>4. /\ [run EXCEPT !.calm = FALSE] \in RunsOf(A, B, Fields)
        /\ [run EXCEPT !.calm = FALSE].op = run.op
        /\ [run EXCEPT !.calm = FALSE].pc = run.pc
        /\ [run EXCEPT !.calm = FALSE].id = run.id
    BY <2>2, <2>3 DEF RunsOf
  <2>5. run' = [run EXCEPT !.calm = FALSE] BY <1>3 DEF Disturb
  <2>6. run' \in Runs[kind] /\ run'.op = run.op /\ run'.pc = run.pc /\ run'.id = run.id
    BY <2>1, <2>4, <2>5
  <2>7. run' # None BY <1>1, <2>6, NoneAssumption
  <2>8. RunInv' BY <1>1, <1>3, <2>6 DEF RunInv, TypeInv, TypePart
  <2>9. run'.pc <= Len(K'[run'.op]) + 1 BY <1>1, <1>3, <2>6 DEF TypeOK, K
  <2>10. refreshed' \in {"no", "yes", "stale"} BY <1>1 DEF Disturb, Stale, TypeOK
  <2> QED BY <1>1, <1>3, <2>6, <2>7, <2>8, <2>9, <2>10 DEF RunPart
<1> QED BY <1>2, <1>3

LEMMA OutsideDeletesTyped ==
    ASSUME TypeInv, NEW i \in Ids, OutsideDeletes(i)
    PROVE  TypePart' /\ i \in Live /\ Live' = Live \ {i}
<1>1. /\ i \in Live /\ UNCHANGED <<plans, row>> /\ Trouble /\ Disturb /\ TypeOK /\ kind' = kind
      /\ unclaimed' = unclaimed \ {i} /\ world' = [world EXCEPT ![i] = None]
  BY DEF OutsideDeletes, TypeInv, TypePart, plans
<1>2. Live' = Live \ {i} /\ world' \in [Ids -> {None} \cup Objects[kind]]
  BY <1>1, Removed
<1>3. RunPart' /\ refreshed' \in {"no", "yes", "stale"} BY <1>1, DisturbTyped
<1>4. TypePart' BY <1>1, <1>2, <1>3, Typed DEF TypeOK
<1> QED BY <1>1, <1>2, <1>4

LEMMA OutsideChangesTyped ==
    ASSUME TypeInv, NEW i \in Ids, OutsideChanges(i)
    PROVE  TypePart' /\ Live' = Live
<1>1. /\ i \in Live /\ UNCHANGED <<plans, row, unclaimed>> /\ Trouble /\ Disturb /\ TypeOK
      /\ kind' = kind /\ kind \in Kinds
  BY DEF OutsideChanges, IsUp, TypeInv, TypePart, TypeOK, plans
<1> PICK f \in Seen \ K.replace :
      world' = [world EXCEPT
          ![i] = Object("up", IF f \in @.v THEN @.v \ {f} ELSE @.v \cup {f})]
  BY DEF OutsideChanges
<1> DEFINE v == IF f \in world[i].v THEN world[i].v \ {f} ELSE world[i].v \cup {f}
<1>2. f \in Fields
  <2>1. PICK n \in DOMAIN K["read"] : f \in K["read"][n].of BY DEF Seen
  <2>2. K["read"] \in Seq(StepsOf(kind, "read")) BY <1>1, HandlersAssumption DEF Ops, K
  <2>3. K["read"][n] \in StepsOf(kind, "read") BY <2>1, <2>2
  <2> QED BY <2>1, <2>3 DEF StepsOf, Fields, K
<1>3. v \in SUBSET Fields BY <1>1, <1>2, LiveTyped
<1>4. Alters(i, Object("up", v)) BY DEF Alters
<1> HIDE DEF v
<1>5. Object("up", v) \in Objects[kind] BY <1>1, <1>3, ObjectTyped DEF Object
<1>6. Live' = Live /\ world' \in [Ids -> {None} \cup Objects[kind]]
  <2>1. Live' = Live \cup {i} /\ world' \in [Ids -> {None} \cup Objects[kind']]
    BY <1>1, <1>4, <1>5, Altered
  <2> QED BY <1>1, <2>1
<1>7. RunPart' /\ refreshed' \in {"no", "yes", "stale"} BY <1>1, DisturbTyped
<1>8. TypePart' BY <1>1, <1>6, <1>7, Typed DEF TypeOK
<1> QED BY <1>6, <1>8

-----------------------------------------------------------------------------
(* What is answered for stays claimed.                                     *)

\* Whatever happens at a step, the operation is still about the same object.
LEMMA SameObject ==
    ASSUME TypeInv, run # None, UNCHANGED plans,
           Go \/ Fail \/ FailAfterUndo \/ run' = run \/ (Saw /\ run.id \in Live)
    PROVE  run' = None \/ (run' # None /\ run'.id = run.id)
<1>1. run \in Runs[kind] /\ kind \in Kinds BY DEF TypeInv, TypePart, TypeOK
<1>2. CASE Go
  <2>1. 1 \in Nat /\ {} \in SUBSET Fields OBVIOUS
  <2> QED BY <1>2, <2>1, GoAdvances DEF Go, Advances, TypeInv, TypePart
<1>3. CASE Fail \/ run' = run BY <1>3 DEF Fail
<1>4. CASE FailAfterUndo BY <1>3, <1>4, UndoTyped
<1>5. CASE Saw /\ run.id \in Live
  <2>1. PICK A, B : Runs[kind] = RunsOf(A, B, Fields) BY <1>1 DEF Runs, RunsOf, Fields, K
  <2>2. run \in RunsOf(A, B, Fields) BY <1>1, <2>1
  <2> DEFINE v == Merge(run.v, Of, world[run.id].v)
  <2>3. run' = [run EXCEPT !.pc = @ + 1, !.v = v] BY <1>5 DEF Saw
  <2> HIDE DEF v
  <2> QED BY <2>2, <2>3 DEF RunsOf
<1> QED BY <1>2, <1>3, <1>4, <1>5

\* Nothing that is answered for becomes unclaimed.
LEMMA ClaimsStay ==
    ASSUME TypeInv, unclaimed' \subseteq unclaimed,
           \/ row' \in {None, row}
           \/ row # None /\ row'.id = row.id
           \/ run # None /\ row'.id = run.id,
           \/ run' = None
           \/ run # None /\ run'.id = run.id
    PROVE  ClaimInv'
BY DEF TypeInv, ClaimInv

LEMMA HandlerClaims ==
    ASSUME TypeInv, Handle, ~PostDone, ~PostTaken
    PROVE  ClaimInv'
<1> USE DEF cloud
<1>1. CASE Refused BY <1>1, SameObject, ClaimsStay DEF Refused, At
<1>2. CASE Asked BY <1>2, SameObject, ClaimsStay DEF Asked, At
<1>3. CASE RecordCreated BY <1>3, SameObject, ClaimsStay DEF RecordCreated, At
<1>4. CASE SendSkipped
  <2>1. run # None /\ UNCHANGED <<row, unclaimed>> BY <1>4 DEF SendSkipped, At
  <2> QED BY <1>4, <2>1, SendSkippedTyped, ClaimsStay DEF Advances
<1>5. CASE SendDone BY <1>5, SameObject, ClaimsStay DEF SendDone, At
<1>6. CASE SendRejected BY <1>6, SameObject, ClaimsStay DEF SendRejected, At
<1>7. CASE Cleared BY <1>7, SameObject, ClaimsStay DEF Cleared, At
<1>8. CASE Awaited
  <2>1. run # None /\ UNCHANGED <<plans, unclaimed>> BY <1>8 DEF Awaited, At
  <2>2. run' = None \/ (run' # None /\ run'.id = run.id) BY <1>8, <2>1, SameObject DEF Awaited
  <2>3. row' \in {None, row} \/ (row # None /\ row'.id = row.id)
    BY <1>8, RowSaved DEF Awaited, SavesRow
  <2> QED BY <2>1, <2>2, <2>3, ClaimsStay
<1>9. CASE AwaitedBriefly BY <1>9, SameObject, ClaimsStay DEF AwaitedBriefly, At
<1>10. CASE BackRead BY <1>10, SameObject, ClaimsStay DEF BackRead, At
<1>11. CASE Refreshed BY <1>11, SameObject, ClaimsStay DEF Refreshed, At
<1>12. CASE Destroyed BY <1>12, SameObject, ClaimsStay DEF Destroyed, At
<1>13. CASE GoneAwaited BY <1>13, SameObject, ClaimsStay DEF GoneAwaited, At
<1> QED BY <1>1, <1>2, <1>3, <1>4, <1>5, <1>6, <1>7, <1>8, <1>9, <1>10, <1>11, <1>12, <1>13
        DEF Handle

\* A Create at its POST answers for nothing yet.
LEMMA AtPost ==
    ASSUME TypeInv, At(Posts)
    PROVE  /\ run # None /\ run.op = "create" /\ run.pc = P /\ P \in Nat
           /\ run.id = None /\ row = None /\ None \notin unclaimed
<1>1. /\ run # None /\ run.pc \in DOMAIN K[run.op] /\ K[run.op][run.pc].do \in Posts /\ TypeOK
  BY DEF At, TypeInv, TypePart
<1>2. run.op = "create" /\ run.pc = P /\ P \in Nat BY <1>1, StepPlaces, StepTyped, PostPlace
<1>3. None \notin unclaimed BY <1>1, IdsAssumption DEF TypeOK, Live
<1> QED BY <1>1, <1>2, <1>3 DEF TypeInv, TypePart, RunInv

LEMMA PostClaims == ASSUME TypeInv, PostDone \/ PostTaken PROVE ClaimInv'
<1>1. At(Posts) /\ UNCHANGED <<plans, row>> BY DEF PostDone, PostTaken
<1>2. /\ run # None /\ run.id = None /\ row = None /\ None \notin unclaimed
      /\ unclaimed \subseteq Live /\ Live \subseteq Ids
  BY <1>1, AtPost DEF TypeInv, TypePart, TypeOK, Live
<1>3. CASE PostDone
  <2> PICK i \in Free :
        \/ run' = [run EXCEPT !.pc = @ + 1, !.id = i] /\ UNCHANGED unclaimed
        \/ /\ unclaimed' = unclaimed \cup {i}
           /\ \/ run' = None
              \/ run' = run
              \/ run' = [run EXCEPT !.pc = @ + 1, !.id = NoId]
    BY <1>3 DEF PostDone, Fail
  <2>1. i \in Ids /\ i \notin unclaimed BY <1>2 DEF Free
  <2>2. CASE run' = [run EXCEPT !.pc = @ + 1, !.id = i] /\ UNCHANGED unclaimed
    <3>1. run'.id = i BY <1>1, <2>1, <2>2, PostTyped
    <3> QED BY <1>1, <1>2, <2>1, <2>2, <3>1 DEF ClaimInv
  <2>3. CASE run' = [run EXCEPT !.pc = @ + 1, !.id = NoId] /\ unclaimed' = unclaimed \cup {i}
    <3>1. run'.id = NoId BY <1>1, <2>3, PostTyped
    <3> QED BY <1>1, <1>2, <2>1, <2>3, <3>1, IdsAssumption DEF ClaimInv
  <2>4. CASE run' \in {None, run} /\ unclaimed' = unclaimed \cup {i}
    BY <1>1, <1>2, <2>1, <2>4, IdsAssumption DEF ClaimInv
  <2> QED BY <2>2, <2>3, <2>4
<1>4. CASE PostTaken
  <2> PICK i \in Live :
        \/ run' = [run EXCEPT !.pc = @ + 1, !.id = i] /\ unclaimed' = unclaimed \ {i}
        \/ run' = None /\ UNCHANGED unclaimed
    BY <1>4 DEF PostTaken, Fail, cloud
  <2>1. CASE run' = None /\ UNCHANGED unclaimed BY <1>1, <1>2, <2>1 DEF ClaimInv
  <2>2. CASE run' = [run EXCEPT !.pc = @ + 1, !.id = i] /\ unclaimed' = unclaimed \ {i}
    <3>1. run'.id = i BY <1>1, <1>2, <2>2, PostTyped
    <3> QED BY <1>1, <1>2, <2>2, <3>1 DEF ClaimInv
  <2> QED BY <2>1, <2>2
<1> QED BY <1>3, <1>4

-----------------------------------------------------------------------------
(* The theorem about types.                                                *)

LEMMA InitTyped == ASSUME Init PROVE TypeInv
<1>1. {} \in SUBSET Fields OBVIOUS
<1>2. kind \in Kinds /\ run = None /\ row = None /\ unclaimed = {} BY DEF Init
<1>3. Object("up", {}) \in Objects[kind] BY <1>2 DEF Object, Objects, Fields, K
<1>4. world \in [Ids -> {None} \cup Objects[kind]] BY <1>3 DEF Init
<1>5. config = None \/ config \subseteq Fields
  BY <1>2, ConfigsAssumption DEF Init, Fields, K
<1>6. TypeOK BY <1>2, <1>4, <1>5, BoundsAssumption DEF Init, TypeOK
<1> QED BY <1>2, <1>6 DEF TypeInv, TypePart, RunInv, ClaimInv

LEMMA NextTyped == ASSUME TypeInv, Next PROVE TypeInv'
<1>1. CASE Start
  <2>1. ClaimInv'
    <3>1. None \notin unclaimed BY IdsAssumption DEF TypeInv, TypePart, TypeOK, Live
    <3> QED BY <1>1, <3>1, StartTyped DEF Start, cloud, ClaimInv, TypeInv
  <2> QED BY <1>1, <2>1, StartTyped DEF TypeInv
<1>2. CASE Finish
  <2>1. run # None /\ run' = None /\ unclaimed' = unclaimed BY <1>2 DEF Finish, cloud
  <2> QED BY <1>2, <2>1, FinishTyped, ClaimsStay DEF TypeInv
<1>3. CASE Handle
  <2>1. TypePart'
    BY <1>3, RefusedTyped, AskedTyped, PostDoneTyped, PostTakenTyped, RecordCreatedTyped,
       SendSkippedTyped, SendDoneTyped, SendRejectedTyped, ClearedTyped, AwaitedTyped,
       AwaitedBrieflyTyped, BackReadTyped, RefreshedTyped, DestroyedTyped, GoneAwaitedTyped
    DEF Handle
  <2> QED BY <1>3, <2>1, HandlerClaims, PostClaims DEF TypeInv
<1>4. CASE Edit
  <2>1. run' = None /\ UNCHANGED <<row, unclaimed>> BY <1>4 DEF Edit, cloud
  <2> QED BY <1>4, <2>1, EditTyped, ClaimsStay DEF TypeInv
<1>5. CASE Import
  <2>1. ClaimInv' BY <1>5 DEF Import, ClaimInv
  <2> QED BY <1>5, <2>1, ImportTyped DEF TypeInv
<1>6. ASSUME NEW i \in Ids, ServiceWorks(i) PROVE TypeInv'
  <2>1. UNCHANGED <<row, run>> BY <1>6 DEF ServiceWorks
  <2> QED BY <1>6, <2>1, ServiceWorksTyped, ClaimsStay DEF TypeInv
<1>7. ASSUME NEW i \in Ids, ServiceFails(i) PROVE TypeInv'
  <2>1. UNCHANGED <<row, run, unclaimed>> BY <1>7 DEF ServiceFails
  <2> QED BY <1>7, <2>1, ServiceFailsTyped, ClaimsStay DEF TypeInv
<1>8. ASSUME NEW i \in Ids, OutsideDeletes(i) \/ OutsideChanges(i) PROVE TypeInv'
  <2>1. Disturb /\ UNCHANGED <<plans, row>> /\ unclaimed' \subseteq unclaimed
    BY <1>8 DEF OutsideDeletes, OutsideChanges
  <2>2. ClaimInv' BY <2>1, DisturbTyped, ClaimsStay
  <2> QED BY <1>8, <2>2, OutsideDeletesTyped, OutsideChangesTyped DEF TypeInv
<1> QED BY <1>1, <1>2, <1>3, <1>4, <1>5, <1>6, <1>7, <1>8 DEF Next, Terraform

\* The state a handler leaves is always one that every other step understands, of any
\* kind of resource: no id, row or object is of another kind or out of its range.
THEOREM TypeCorrect == Spec => []TypeOK
<1>1. Init => TypeInv BY InitTyped
<1>2. TypeInv /\ [Next]_vars => TypeInv'
  <2> SUFFICES ASSUME TypeInv, [Next]_vars PROVE TypeInv' OBVIOUS
  <2>1. CASE Next BY <2>1, NextTyped
  <2>2. CASE UNCHANGED vars
    BY <2>2 DEF vars, plans, cloud, TypeInv, TypePart, TypeOK, RunInv, ClaimInv, Fields, K, Live, P
  <2> QED BY <2>1, <2>2
<1>3. TypeInv => TypeOK BY DEF TypeInv, TypePart
<1> QED BY <1>1, <1>2, <1>3, PTL DEF Spec

-----------------------------------------------------------------------------
(* Custody: the steps of ObjectCustody as a held kind takes them.          *)

CStep == [Custody!Next]_(Custody!vars)

LEMMA HeldKind ==
    ASSUME kind \in Held, kind' = kind
    PROVE  ~Has("unheld") /\ ~Has("unheld")'
BY DEF Held, Has, K

LEMMA Unchanged ==
    ASSUME kind \in Held, kind' = kind, Live' = Live, held' = held, unclaimed' = unclaimed
    PROVE  CStep
BY HeldKind DEF CStep, Custody!vars

LEMMA Makes ==
    ASSUME kind \in Held, kind' = kind, NEW i \in Ids, held = None, i \notin Live,
           Live' = Live \cup {i}, held' = i, unclaimed' = unclaimed
    PROVE  CStep
<1>1. Custody!Make(i) BY HeldKind DEF Custody!Make
<1> QED BY <1>1 DEF CStep, Custody!Next

LEMMA MakesUnanswered ==
    ASSUME kind \in Held, kind' = kind, NEW i \in Ids, held = None, i \notin Live,
           Live' = Live \cup {i}, held' = None, unclaimed' = unclaimed \cup {i}
    PROVE  CStep
<1>1. Custody!MakeUnanswered(i) BY HeldKind DEF Custody!MakeUnanswered
<1> QED BY <1>1 DEF CStep, Custody!Next

LEMMA Claims ==
    ASSUME kind \in Held, kind' = kind, NEW i \in Ids, held = None, i \in unclaimed,
           Live' = Live, held' = i, unclaimed' = unclaimed \ {i}
    PROVE  CStep
<1>1. Custody!Claim(i) BY HeldKind DEF Custody!Claim
<1> QED BY <1>1 DEF CStep, Custody!Next

LEMMA Vanishes ==
    ASSUME kind \in Held, kind' = kind, NEW i \in Ids, i \in Live,
           Live' = Live \ {i}, held' = held, unclaimed' = unclaimed \ {i}
    PROVE  CStep
<1>1. Custody!Vanish(i) BY HeldKind DEF Custody!Vanish
<1> QED BY <1>1 DEF CStep, Custody!Next

LEMMA Forgets ==
    ASSUME kind \in Held, kind' = kind, held # None, held \notin Live,
           Live' = Live, held' = None, unclaimed' = unclaimed
    PROVE  CStep
<1>1. Custody!Forget BY HeldKind DEF Custody!Forget
<1> QED BY <1>1 DEF CStep, Custody!Next

\* A quota, and what Delete cannot vouch for, is out of custody.
LEMMA UnheldStep == ASSUME kind \notin Held, kind \in Kinds, kind' = kind PROVE CStep
BY DEF CStep, Custody!vars, held, Held, Has, K

-----------------------------------------------------------------------------
(* Every step keeps HeldInv and is a step of ObjectCustody: how operations *)
(* go on and stop.                                                         *)

\* Where a Create of a held object is, away from its POST and its record.
LEMMA HeldPlace ==
    ASSUME TypeOK, kind \in Held, run # None, run.op = "create", run.pc \in DOMAIN K[run.op],
           K[run.op][run.pc].do \notin Posts \cup Records
    PROVE  \/ run.pc < P /\ K[run.op][run.pc].do = "ask"
           \/ run.pc > P + 1
<1>1. run.pc \in Nat /\ P \in Nat BY RunTyped, PostPlace
<1>2. run.pc # P + 1 BY RecordAssumption DEF P, K
<1> QED BY <1>1, <1>2, StepTyped

\* A step that is not a question has the row of its object.
LEMMA StepRow ==
    ASSUME TypeInv, HeldInv, kind \in Held, run # None, run.pc \in DOMAIN K[run.op],
           K[run.op][run.pc].do \notin Posts \cup Records \cup {"ask"}
    PROVE  row # None /\ row.id = run.id /\ run.id \in Ids /\ held = run.id
<1>1. TypeOK /\ run.op \in Ops BY RunTyped DEF TypeInv, TypePart
<1>2. row # None /\ row.id = run.id
  <2>1. CASE run.op = "create" BY <1>1, <2>1, HeldPlace DEF HeldInv
  <2>2. CASE run.op \in {"read", "update", "delete"} BY <2>2 DEF TypeInv, TypePart, RunInv
  <2>3. CASE run.op = "undo" BY <2>3 DEF HeldInv
  <2> QED BY <1>1, <2>1, <2>2, <2>3 DEF Ops
<1> QED BY <1>2 DEF HeldInv, held, Held, Has, K

LEMMA HeldAdvances ==
    ASSUME TypeInv, HeldInv, kind \in Held, UNCHANGED plans, run.pc \in DOMAIN K[run.op],
           K[run.op][run.pc].do \notin Posts \cup Records,
           NEW n \in {1, 2}, Advances(n), n = 2 => K[run.op][run.pc].do \in Orders,
           row' = row, Live' \subseteq Live, unclaimed' = unclaimed,
           run.op \in {"delete", "undo"} /\ K[run.op][run.pc].do \in Rids(kind)
               => run.id \notin Live'
    PROVE  HeldInv' /\ held' = held
<1>1. /\ TypeOK /\ run # None /\ run' # None /\ kind' = kind /\ P' = P /\ K' = K
      /\ run'.op = run.op /\ run'.id = run.id /\ run'.pc = run.pc + n
  BY DEF TypeInv, TypePart, Advances, plans, P, K
<1>2. run.pc \in Nat /\ P \in Nat /\ DOMAIN K[run.op] \subseteq Nat
  BY <1>1, RunTyped, PostPlace
<1>3. ~Has("unheld") /\ ~Has("unheld")' BY <1>1, HeldKind
<1>4. held' = held BY <1>1, <1>3 DEF held
<1>5. run.op = "create" => \/ row = None /\ run.id = None /\ run.pc + n <= P
                           \/ run.pc > P + 1 /\ row # None /\ row.id = run.id /\ run.id # NoId
  <2> SUFFICES ASSUME run.op = "create"
               PROVE  \/ row = None /\ run.id = None /\ run.pc + n <= P
                      \/ run.pc > P + 1 /\ row # None /\ row.id = run.id /\ run.id # NoId
    OBVIOUS
  <2>1. CASE run.pc < P /\ K[run.op][run.pc].do = "ask"
    <3>1. n = 1 BY <2>1 DEF Orders
    <3> QED BY <1>1, <1>2, <2>1, <3>1 DEF TypeInv, TypePart, RunInv
  <2>2. CASE run.pc > P + 1 BY <1>1, <1>2, <2>2 DEF HeldInv
  <2> QED BY <1>1, <2>1, <2>2, HeldPlace
<1>6. run'.op = "create" /\ run'.pc = P + 1 => row' = None BY <1>1, <1>2, <1>5
<1>7. run'.op = "create" /\ run'.pc > P + 1 => row' # None /\ row'.id = run'.id
  BY <1>1, <1>2, <1>5
<1>8. run'.op = "create" => run'.id # NoId BY <1>1, <1>5, IdsAssumption
<1>9. run'.op = "undo" => row' # None /\ row'.id = run'.id /\ K'.undo # <<>>
  BY <1>1 DEF HeldInv
<1>10. run'.op \in {"delete", "undo"} /\ RidPassed' => run'.id \notin Live'
  <2> SUFFICES ASSUME run'.op \in {"delete", "undo"}, RidPassed' PROVE run'.id \notin Live'
    OBVIOUS
  <2>1. n = 1
    <3>1. K[run.op][run.pc].do \notin Orders BY <1>1, StepPlaces DEF Sends
    <3> QED BY <3>1
  <2>2. PICK m \in DOMAIN K[run.op] : m < run.pc + 1 /\ K[run.op][m].do \in Rids(kind)
    BY <1>1, <2>1 DEF RidPassed
  <2>3. m = run.pc \/ m < run.pc BY <1>2, <2>2
  <2>4. CASE m = run.pc BY <1>1, <2>2, <2>4
  <2>5. CASE m < run.pc
    <3>1. RidPassed BY <2>2, <2>5 DEF RidPassed
    <3> QED BY <1>1, <3>1 DEF HeldInv
  <2> QED BY <2>3, <2>4, <2>5
<1>11. row' # None => row'.id \in Ids BY DEF HeldInv
<1>12. Live' \subseteq unclaimed' \cup {held'} /\ held' \notin unclaimed' BY <1>4 DEF HeldInv
<1> QED BY <1>1, <1>4, <1>6, <1>7, <1>8, <1>9, <1>10, <1>11, <1>12 DEF HeldInv

LEMMA HeldStops ==
    ASSUME TypeInv, HeldInv, kind \in Held, kind' = kind, run # None, run' = None,
           run.op = "create" => run.pc # P + 1 \/ run.id = NoId,
           row' = row, Live' \subseteq Live, unclaimed' = unclaimed
    PROVE  HeldInv' /\ held' = held
<1>1. TypeOK /\ run.pc \in Nat /\ P \in Nat BY RunTyped, PostPlace DEF TypeInv, TypePart
<1>2. ~Has("unheld") /\ ~Has("unheld")' BY HeldKind
<1>3. run.op = "create" /\ row = None => run.id \notin Ids
  BY <1>1, IdsAssumption DEF TypeInv, TypePart, RunInv, HeldInv
<1>4. held' = held BY <1>2, <1>3 DEF held
<1> QED BY <1>4 DEF HeldInv

LEMMA HeldUndoes ==
    ASSUME TypeInv, HeldInv, kind \in Held, UNCHANGED plans,
           run # None, row # None, row.id = run.id, K.undo # <<>>,
           run' # None, run'.op = "undo", run'.pc = 1, run'.id = run.id,
           row' = row, Live' \subseteq Live, unclaimed' = unclaimed
    PROVE  HeldInv' /\ held' = held
<1>1. kind' = kind /\ K' = K /\ TypeOK /\ kind \in Kinds
  BY DEF plans, K, TypeInv, TypePart, TypeOK
<1>2. held' = held BY <1>1, HeldKind DEF held
<1>3. ~RidPassed'
  <2>1. K["undo"] \in Seq(StepsOf(kind, "undo")) BY <1>1, HandlersAssumption DEF Ops, K
  <2>2. \A n \in DOMAIN K["undo"] : ~(n < 1) BY <2>1
  <2> QED BY <1>1, <2>2 DEF RidPassed
<1> QED BY <1>1, <1>2, <1>3 DEF HeldInv

\* The row of an object that is no more is given up, and so is the object.
LEMMA HeldForgets ==
    ASSUME TypeInv, HeldInv, kind \in Held, kind' = kind, run # None, run' = None,
           row # None, row.id = run.id, run.id \notin Live, row' = None, UNCHANGED cloud
    PROVE  HeldInv' /\ CStep
<1>1. ~Has("unheld") /\ ~Has("unheld")' BY HeldKind
<1>2. held = run.id /\ held \in Ids /\ held # None BY <1>1, IdsAssumption DEF held, HeldInv
<1>3. held' = None BY <1>1 DEF held
<1>4. Live' = Live /\ unclaimed' = unclaimed BY DEF cloud, Live
<1>5. CStep BY <1>2, <1>3, <1>4, Forgets
<1>6. Live \subseteq unclaimed BY <1>2 DEF HeldInv
<1>7. None \notin unclaimed BY IdsAssumption DEF TypeInv, TypePart, TypeOK, Live
<1> QED BY <1>3, <1>4, <1>5, <1>6, <1>7 DEF HeldInv

\* Nothing happens to the operation or the row, and objects at most come to an end.
LEMMA HeldStays ==
    ASSUME TypeInv, HeldInv, kind \in Held, kind' = kind, row' = row,
           run = None <=> run' = None,
           run # None => run'.op = run.op /\ run'.pc = run.pc /\ run'.id = run.id,
           Live' \subseteq Live, unclaimed' \subseteq unclaimed,
           unclaimed \cap Live' \subseteq unclaimed'
    PROVE  HeldInv' /\ held' = held
<1>1. K' = K /\ P' = P /\ ~Has("unheld") /\ ~Has("unheld")' BY HeldKind DEF K, P
<1>2. held' = held BY <1>1 DEF held
<1>3. run # None /\ RidPassed' => RidPassed BY <1>1 DEF RidPassed
<1>4. Live' \subseteq unclaimed' \cup {held'} /\ held' \notin unclaimed' BY <1>2 DEF HeldInv
<1> QED BY <1>1, <1>2, <1>3, <1>4 DEF HeldInv

-----------------------------------------------------------------------------
(* The steps of the handlers in custody.                                   *)

LEMMA GoHeld ==
    ASSUME TypeInv, HeldInv, kind \in Held, UNCHANGED <<plans, row, unclaimed>>,
           NEW steps, At(steps), steps \cap (Posts \cup Records) = {},
           Go \/ (Saw /\ run.id \in Live), Live' \subseteq Live,
           run.op \in {"delete", "undo"} /\ K[run.op][run.pc].do \in Rids(kind)
               => run.id \notin Live'
    PROVE  HeldInv' /\ held' = held
<1>1. steps \cap Posts = {} /\ 1 \in {1, 2} OBVIOUS
<1>2. Advances(1) BY <1>1, GoTyped
<1>3. run.pc \in DOMAIN K[run.op] /\ K[run.op][run.pc].do \notin Posts \cup Records
  BY DEF At
<1> QED BY <1>1, <1>2, <1>3, HeldAdvances

LEMMA FailHeld ==
    ASSUME TypeInv, HeldInv, kind \in Held, UNCHANGED <<plans, row, unclaimed>>,
           NEW steps, At(steps), steps \cap Records = {},
           Fail, Live' \subseteq Live
    PROVE  HeldInv' /\ held' = held
<1>1. /\ run # None /\ run' = None /\ kind' = kind /\ TypeOK
      /\ run.pc \in DOMAIN K[run.op] /\ K[run.op][run.pc].do \notin Records
  BY DEF Fail, plans, At, TypeInv, TypePart
<1>2. run.op = "create" => run.pc # P + 1 BY <1>1, RecordAssumption DEF P, K
<1> QED BY <1>1, <1>2, HeldStops

LEMMA UndoHeld ==
    ASSUME TypeInv, HeldInv, kind \in Held, UNCHANGED <<plans, row, unclaimed>>,
           NEW steps, At(steps), steps \cap (Posts \cup Records \cup {"ask"}) = {},
           FailAfterUndo, Live' \subseteq Live
    PROVE  HeldInv' /\ held' = held
<1>1. /\ run # None /\ run.pc \in DOMAIN K[run.op]
      /\ K[run.op][run.pc].do \notin Posts \cup Records \cup {"ask"}
      /\ steps \cap Records = {}
  BY DEF At
<1>2. CASE Fail BY <1>1, <1>2, FailHeld
<1>3. CASE ~Fail
  <2>1. row # None /\ row.id = run.id BY <1>1, StepRow
  <2>2. /\ K.undo # <<>> /\ run' # None /\ run'.op = "undo" /\ run'.pc = 1 /\ run'.id = run.id
    BY <1>1, <1>3, UndoTyped
  <2> QED BY <1>1, <2>1, <2>2, HeldUndoes
<1> QED BY <1>2, <1>3

LEMMA RefusedHeld == ASSUME TypeInv, HeldInv, kind \in Held, Refused PROVE HeldInv' /\ CStep
<1>1. /\ UNCHANGED <<plans, row, cloud>> /\ UNCHANGED <<plans, row, unclaimed>> /\ kind' = kind
      /\ At(Refusable)
  BY DEF Refused, cloud, plans
<1>2. Live' = Live /\ Live' \subseteq Live BY <1>1 DEF cloud, Live
<1>3. HeldInv' /\ held' = held
  <2>1. CASE Fail
    <3>1. Refusable \cap Records = {}
      BY DEF Refusable, Records, Posts, Sends, Orders, Clears, Awaits, ReadBacks, Destroys
    <3> QED BY <1>1, <1>2, <2>1, <3>1, FailHeld
  <2>2. CASE At(Orders) /\ FailAfterUndo
    <3>1. Orders \cap (Posts \cup Records \cup {"ask"}) = {} BY DEF Orders, Posts, Records
    <3> QED BY <1>1, <1>2, <2>2, <3>1, UndoHeld
  <2> QED BY <2>1, <2>2 DEF Refused
<1> QED BY <1>1, <1>2, <1>3, Unchanged DEF cloud

LEMMA AskedHeld == ASSUME TypeInv, HeldInv, kind \in Held, Asked PROVE HeldInv' /\ CStep
<1>1. /\ UNCHANGED <<plans, row, unclaimed>> /\ kind' = kind /\ At({"ask"}) /\ Go
      /\ Live' = Live /\ Live' \subseteq Live
  BY DEF Asked, cloud, plans, Live
<1>2. {"ask"} \cap (Posts \cup Records) = {} BY DEF Posts, Records
<1>3. K[run.op][run.pc].do \notin Rids(kind) BY <1>1 DEF At, Rids
<1>4. HeldInv' /\ held' = held BY <1>1, <1>2, <1>3, GoHeld
<1> QED BY <1>1, <1>4, Unchanged

\* At its POST a Create holds nothing, and all there is is unclaimed.
LEMMA PostHeld ==
    ASSUME TypeInv, HeldInv, kind \in Held, At(Posts)
    PROVE  held = None /\ Live = unclaimed
<1>1. run # None /\ run.id = None /\ row = None BY AtPost
<1>2. held = None BY <1>1, IdsAssumption DEF held
<1>3. None \notin Live BY IdsAssumption DEF Live
<1> QED BY <1>2, <1>3 DEF HeldInv, TypeInv, TypePart, TypeOK

\* Past its POST a Create holds the object it made or found, if its answer had one.
LEMMA PostedHeld ==
    ASSUME TypeInv, HeldInv, kind \in Held, At(Posts), UNCHANGED <<plans, row>>,
           NEW i \in Ids, run' = [run EXCEPT !.pc = @ + 1, !.id = i],
           Live' = unclaimed' \cup {i}, i \notin unclaimed'
    PROVE  HeldInv' /\ held' = i
<1>1. /\ run' # None /\ run'.op = "create" /\ run'.pc = P + 1 /\ run'.id = i
      /\ row' = None /\ P \in Nat
  BY PostTyped, AtPost
<1>2. kind' = kind /\ P' = P /\ ~Has("unheld")' BY HeldKind DEF plans, P
<1>3. held' = i BY <1>1, <1>2 DEF held
<1>4. i # NoId BY IdsAssumption
<1> QED BY <1>1, <1>2, <1>3, <1>4 DEF HeldInv

LEMMA PostLost ==
    ASSUME TypeInv, HeldInv, kind \in Held, At(Posts), UNCHANGED <<plans, row>>,
           run' \in {None, run}, Live' = unclaimed'
    PROVE  HeldInv' /\ held' = None
<1>1. run # None /\ run.op = "create" /\ run.id = None /\ row = None /\ row' = None
      /\ run.pc = P /\ P \in Nat
  BY AtPost
<1>2. kind' = kind /\ P' = P /\ K' = K BY DEF plans, P, K
<1>3. held' = None BY <1>1, <1>2, IdsAssumption DEF held
<1>4. None \notin unclaimed' BY IdsAssumption DEF Live
<1> QED BY <1>1, <1>2, <1>3, <1>4, IdsAssumption DEF HeldInv

\* An answer without the object is recorded by nobody but RecordCreated.
LEMMA PostBlank ==
    ASSUME TypeInv, HeldInv, kind \in Held, At(Posts), UNCHANGED <<plans, row>>,
           kind \in Blank, Is("postUnchecked"),
           run' = [run EXCEPT !.pc = @ + 1, !.id = NoId], Live' = unclaimed'
    PROVE  HeldInv' /\ held' = None
<1>1. /\ run' # None /\ run'.op = "create" /\ run'.pc = P + 1 /\ run'.id = NoId
      /\ row' = None /\ P \in Nat /\ run.op = "create" /\ run.pc = P
  BY PostTyped, AtPost
<1>2. kind' = kind /\ P' = P /\ K' = K /\ ~Has("unheld")' BY HeldKind DEF plans, P, K
<1>3. held' = None BY <1>1, IdsAssumption DEF held
<1>4. None \notin unclaimed' BY IdsAssumption DEF Live
<1>5. P + 1 \in DOMAIN K.create /\ K.create[P + 1].do = "record"
  <2>1. P \in DOMAIN K.create /\ K.create[P].do = "postUnchecked"
    BY <1>1 DEF At, Is
  <2>2. P + 1 \in DOMAIN K.create /\ K.create[P + 1].do # "recordUnchecked"
    BY <2>1, BlankAssumption DEF K
  <2>3. K.create[P + 1].do \in Records BY <2>2, RecordAssumption DEF P, K
  <2> QED BY <2>2, <2>3 DEF Records
<1> QED BY <1>1, <1>2, <1>3, <1>4, <1>5 DEF HeldInv

LEMMA PostDoneHeld == ASSUME TypeInv, HeldInv, kind \in Held, PostDone PROVE HeldInv' /\ CStep
<1> PICK i \in Free :
      /\ Make(i)
      /\ \/ /\ run' = [run EXCEPT !.pc = @ + 1, !.id = i]
            /\ Quiet /\ UNCHANGED <<unclaimed, refreshed>>
         \/ /\ Trouble /\ unclaimed' = unclaimed \cup {i}
            /\ \/ Fail
               \/ UNCHANGED <<run, refreshed>>
               \/ /\ Is("postUnchecked") /\ kind \in Blank
                  /\ run' = [run EXCEPT !.pc = @ + 1, !.id = NoId]
                  /\ UNCHANGED refreshed
  BY DEF PostDone
<1>1. At(Posts) /\ UNCHANGED <<plans, row>> /\ kind' = kind BY DEF PostDone, plans
<1>2. i \in Ids /\ i \notin Live BY DEF Free
<1>3. Live' = Live \cup {i} BY <1>1, <1>2, MadeTyped
<1>4. held = None /\ Live = unclaimed BY <1>1, PostHeld
<1>5. CASE run' = [run EXCEPT !.pc = @ + 1, !.id = i] /\ UNCHANGED unclaimed
  <2>1. HeldInv' /\ held' = i BY <1>1, <1>2, <1>3, <1>4, <1>5, PostedHeld
  <2> QED BY <1>1, <1>2, <1>3, <1>4, <1>5, <2>1, Makes
<1>6. CASE run' \in {None, run} /\ unclaimed' = unclaimed \cup {i}
  <2>1. HeldInv' /\ held' = None BY <1>1, <1>3, <1>4, <1>6, PostLost
  <2> QED BY <1>1, <1>2, <1>3, <1>4, <1>6, <2>1, MakesUnanswered
<1>7. CASE /\ Is("postUnchecked") /\ kind \in Blank /\ unclaimed' = unclaimed \cup {i}
           /\ run' = [run EXCEPT !.pc = @ + 1, !.id = NoId]
  <2>1. HeldInv' /\ held' = None BY <1>1, <1>3, <1>4, <1>7, PostBlank
  <2> QED BY <1>1, <1>2, <1>3, <1>4, <1>7, <2>1, MakesUnanswered
<1> QED BY <1>5, <1>6, <1>7 DEF Fail

LEMMA PostTakenHeld == ASSUME TypeInv, HeldInv, kind \in Held, PostTaken PROVE HeldInv' /\ CStep
<1> PICK i \in Live :
      \/ run' = [run EXCEPT !.pc = @ + 1, !.id = i] /\ unclaimed' = unclaimed \ {i}
      \/ run' = None /\ UNCHANGED unclaimed
  BY DEF PostTaken, Fail, cloud
<1>1. At(Posts) /\ UNCHANGED <<plans, row>> /\ kind' = kind BY DEF PostTaken, plans
<1>2. Live' = Live BY PostTakenTyped
<1>3. held = None /\ Live = unclaimed /\ i \in Ids BY <1>1, PostHeld DEF Live
<1>4. CASE run' = [run EXCEPT !.pc = @ + 1, !.id = i] /\ unclaimed' = unclaimed \ {i}
  <2>1. HeldInv' /\ held' = i BY <1>1, <1>2, <1>3, <1>4, PostedHeld
  <2> QED BY <1>1, <1>2, <1>3, <1>4, <2>1, Claims
<1>5. CASE run' = None /\ UNCHANGED unclaimed
  <2>1. HeldInv' /\ held' = None BY <1>1, <1>2, <1>3, <1>5, PostLost
  <2> QED BY <1>1, <1>2, <1>3, <1>5, <2>1, Unchanged
<1> QED BY <1>4, <1>5

LEMMA RecordCreatedHeld ==
    ASSUME TypeInv, HeldInv, kind \in Held, RecordCreated PROVE HeldInv' /\ CStep
<1>1. /\ run # None /\ run.pc \in DOMAIN K[run.op] /\ K[run.op][run.pc].do \in Records
      /\ UNCHANGED plans /\ UNCHANGED cloud /\ TypeOK /\ kind' = kind /\ P' = P /\ K' = K
  BY DEF RecordCreated, At, TypeInv, TypePart, plans, P, K
<1>2. run.op = "create" /\ run.pc = P + 1 /\ P \in Nat
  BY <1>1, StepPlaces, PostPlace, RecordAssumption DEF P, K
<1>3. Live' = Live /\ unclaimed' = unclaimed BY <1>1 DEF cloud, Live
<1>4. row = None /\ ~Has("unheld") /\ ~Has("unheld")' BY <1>1, <1>2, HeldKind DEF HeldInv
<1>5. run.id # None /\ run.id \in Ids \cup {None, NoId}
  BY <1>1, <1>2, RunTyped DEF TypeInv, TypePart, RunInv
<1>6. CASE run.id = NoId
  <2>1. Is("record") BY <1>1, <1>2, <1>6 DEF HeldInv, Is
  <2>2. run' = None /\ UNCHANGED row BY <1>6, <2>1 DEF RecordCreated, Fail
  <2>3. HeldInv' /\ held' = held BY <1>1, <1>2, <1>3, <1>6, <2>2, HeldStops
  <2> QED BY <1>1, <1>3, <2>3, Unchanged
<1>7. CASE run.id # NoId
  <2>1. Go /\ row' = [id |-> run.id, v |-> config, tainted |-> TRUE]
    BY <1>7 DEF RecordCreated
  <2>2. Advances(1)
    <3>1. 1 \in Nat /\ {} \in SUBSET Fields OBVIOUS
    <3> QED BY <1>1, <2>1, <3>1, GoAdvances DEF Go
  <2>3. row' # None BY <2>1, RecordCreatedTyped
  <2>4. row'.id = run.id /\ run.id \in Ids BY <1>5, <1>7, <2>1
  <2>5. held = run.id BY <1>1, <1>2, <1>4, <2>4 DEF held
  <2>6. held' = run.id BY <1>4, <2>3, <2>4 DEF held
  <2>7. HeldInv' BY <1>1, <1>2, <1>3, <2>2, <2>3, <2>4, <2>5, <2>6, <1>7 DEF HeldInv, Advances
  <2> QED BY <1>1, <1>3, <2>5, <2>6, <2>7, Unchanged
<1> QED BY <1>6, <1>7

LEMMA SendSkippedHeld ==
    ASSUME TypeInv, HeldInv, kind \in Held, SendSkipped PROVE HeldInv' /\ CStep
<1>1. /\ run # None /\ run.pc \in DOMAIN K[run.op] /\ K[run.op][run.pc].do \in Sends
      /\ UNCHANGED <<plans, row, unclaimed>> /\ kind' = kind
      /\ Live' = Live /\ Live' \subseteq Live /\ TypeOK
  BY DEF SendSkipped, At, plans, cloud, Live, TypeInv, TypePart
<1>2. K[run.op][run.pc].do \notin Posts \cup Records /\ K[run.op][run.pc].do \notin Rids(kind)
  BY <1>1 DEF Sends, Orders, Posts, Records, Rids
<1> DEFINE n == IF At(Orders) THEN 2 ELSE 1
<1>3. n \in {1, 2} /\ (n = 2 => K[run.op][run.pc].do \in Orders) BY DEF At
<1>4. run' = [run EXCEPT !.pc = @ + n] BY DEF SendSkipped
<1> HIDE DEF n
<1>5. Advances(n)
  <2>1. {} \in SUBSET Fields /\ n \in Nat BY <1>3
  <2> QED BY <1>1, <1>4, <2>1, GoAdvances
<1>6. HeldInv' /\ held' = held BY <1>1, <1>2, <1>3, <1>5, HeldAdvances
<1> QED BY <1>1, <1>6, Unchanged

\* What a request to the object, or its refusal, leads to.
LEMMA SendHeld ==
    ASSUME TypeInv, HeldInv, kind \in Held, UNCHANGED <<plans, row, unclaimed>>, At(Sends),
           Go \/ Fail \/ (At(Orders) /\ FailAfterUndo), Live' = Live
    PROVE  HeldInv' /\ CStep
<1>1. Live' \subseteq Live /\ kind' = kind BY DEF plans
<1>2. CASE Go
  <2>1. Sends \cap (Posts \cup Records) = {} BY DEF Sends, Orders, Posts, Records
  <2>2. K[run.op][run.pc].do \notin Rids(kind) BY DEF At, Rids, Sends, Orders
  <2>3. HeldInv' /\ held' = held BY <1>1, <1>2, <2>1, <2>2, GoHeld
  <2> QED BY <1>1, <2>3, Unchanged
<1>3. CASE Fail
  <2>1. Sends \cap Records = {} BY DEF Sends, Orders, Records
  <2>2. HeldInv' /\ held' = held BY <1>1, <1>3, <2>1, FailHeld
  <2> QED BY <1>1, <2>2, Unchanged
<1>4. CASE At(Orders) /\ FailAfterUndo
  <2>1. Orders \cap (Posts \cup Records \cup {"ask"}) = {} BY DEF Orders, Posts, Records
  <2>2. HeldInv' /\ held' = held BY <1>1, <1>4, <2>1, UndoHeld
  <2> QED BY <1>1, <2>2, Unchanged
<1> QED BY <1>2, <1>3, <1>4

LEMMA SendDoneHeld == ASSUME TypeInv, HeldInv, kind \in Held, SendDone PROVE HeldInv' /\ CStep
<1>1. Live' = Live BY SendDoneTyped
<1>2. /\ UNCHANGED <<plans, row, unclaimed>> /\ At(Sends)
      /\ Go \/ Fail \/ (At(Orders) /\ FailAfterUndo)
  BY DEF SendDone
<1> QED BY <1>1, <1>2, SendHeld

LEMMA SendRejectedHeld ==
    ASSUME TypeInv, HeldInv, kind \in Held, SendRejected PROVE HeldInv' /\ CStep
<1>1. Live' = Live BY DEF SendRejected, cloud, Live
<1>2. /\ UNCHANGED <<plans, row, unclaimed>> /\ At(Sends)
      /\ Fail \/ (At(Orders) /\ FailAfterUndo)
  BY DEF SendRejected, cloud
<1> QED BY <1>1, <1>2, SendHeld

LEMMA ClearedHeld == ASSUME TypeInv, HeldInv, kind \in Held, Cleared PROVE HeldInv' /\ CStep
<1>1. /\ Live' = Live /\ Live' \subseteq Live /\ kind' = kind
      /\ UNCHANGED <<plans, row, unclaimed>> /\ At(Clears)
  BY ClearedTyped DEF Cleared, plans
<1>2. HeldInv' /\ held' = held
  <2>1. CASE Go
    <3>1. Clears \cap (Posts \cup Records) = {} BY DEF Clears, Posts, Records
    <3>2. K[run.op][run.pc].do \notin Rids(kind) BY <1>1 DEF At, Clears, Rids
    <3> QED BY <1>1, <2>1, <3>1, <3>2, GoHeld
  <2>2. CASE Fail
    <3>1. Clears \cap Records = {} BY DEF Clears, Records
    <3> QED BY <1>1, <2>2, <3>1, FailHeld
  <2> QED BY <2>1, <2>2 DEF Cleared
<1> QED BY <1>1, <1>2, Unchanged

LEMMA AwaitedHeld == ASSUME TypeInv, HeldInv, kind \in Held, Awaited PROVE HeldInv' /\ CStep
<1>1. /\ Live' = Live /\ Live' \subseteq Live /\ kind' = kind
      /\ UNCHANGED <<plans, cloud>> /\ UNCHANGED unclaimed /\ At(Awaits)
      /\ run # None /\ run.pc \in DOMAIN K[run.op] /\ K[run.op][run.pc].do \in Awaits
  BY DEF Awaited, At, plans, cloud, Live
<1>2. /\ Awaits \cap (Posts \cup Records) = {} /\ Awaits \cap Records = {}
      /\ Awaits \cap (Posts \cup Records \cup {"ask"}) = {}
  BY DEF Awaits, Posts, Records
<1>3. row # None /\ row.id = run.id /\ run.id \in Ids /\ held = run.id BY <1>1, <1>2, StepRow
<1>4. CASE row' = row /\ (Go \/ Fail \/ FailAfterUndo)
  <2>1. K[run.op][run.pc].do \notin Rids(kind) BY <1>1 DEF Awaits, Rids
  <2>2. HeldInv' /\ held' = held BY <1>1, <1>2, <1>4, <2>1, GoHeld, FailHeld, UndoHeld
  <2> QED BY <1>1, <2>2, Unchanged
<1>5. CASE run.id \notin Live /\ Fail /\ row' = None
  BY <1>1, <1>3, <1>5, HeldForgets DEF Fail
<1>6. CASE IsUp(run.id) /\ SavesRow
  <2>1. row' # None /\ row'.id = row.id BY <1>1, <1>6, RowSaved
  <2>2. run' = None BY <1>6 DEF SavesRow, Fail
  <2>3. ~Has("unheld") /\ ~Has("unheld")' BY <1>1, HeldKind
  <2>4. held' = held BY <1>3, <2>1, <2>2, <2>3 DEF held
  <2>5. HeldInv' BY <1>1, <1>3, <2>1, <2>2, <2>4 DEF HeldInv
  <2> QED BY <1>1, <2>4, <2>5, Unchanged
<1> QED BY <1>4, <1>5, <1>6 DEF Awaited, SavesRow

LEMMA AwaitedBrieflyHeld ==
    ASSUME TypeInv, HeldInv, kind \in Held, AwaitedBriefly PROVE HeldInv' /\ CStep
<1>1. /\ UNCHANGED <<plans, row, unclaimed>> /\ kind' = kind /\ At({"awaitBriefly"}) /\ Go
      /\ Live' = Live /\ Live' \subseteq Live
  BY DEF AwaitedBriefly, cloud, plans, Live
<1>2. {"awaitBriefly"} \cap (Posts \cup Records) = {} BY DEF Posts, Records
<1>3. K[run.op][run.pc].do \notin Rids(kind) BY <1>1 DEF At, Rids
<1>4. HeldInv' /\ held' = held BY <1>1, <1>2, <1>3, GoHeld
<1> QED BY <1>1, <1>4, Unchanged

LEMMA BackReadHeld == ASSUME TypeInv, HeldInv, kind \in Held, BackRead PROVE HeldInv' /\ CStep
<1> DEFINE steps == ReadBacks \cup {"readBackOrWarn"}
<1>1. /\ Live' = Live /\ Live' \subseteq Live /\ kind' = kind
      /\ UNCHANGED <<plans, cloud>> /\ UNCHANGED unclaimed /\ At(steps)
      /\ run # None /\ run.pc \in DOMAIN K[run.op] /\ K[run.op][run.pc].do \in steps
  BY DEF BackRead, At, plans, cloud, Live
<1>2. /\ steps \cap (Posts \cup Records) = {} /\ steps \cap Records = {}
      /\ steps \cap (Posts \cup Records \cup {"ask"}) = {}
  BY DEF ReadBacks, Posts, Records
<1>3. row # None /\ row.id = run.id BY <1>1, <1>2, StepRow
<1>4. K[run.op][run.pc].do \notin Rids(kind) BY <1>1 DEF ReadBacks, Rids
<1> HIDE DEF steps
<1>5. CASE row' = row /\ (Go \/ Fail \/ (Saw /\ run.id \in Live))
  <2>1. HeldInv' /\ held' = held BY <1>1, <1>2, <1>4, <1>5, GoHeld, FailHeld
  <2> QED BY <1>1, <2>1, Unchanged
<1>6. CASE run.id \notin Live /\ Fail /\ row' = None
  BY <1>1, <1>3, <1>6, HeldForgets DEF Fail
<1> QED BY <1>5, <1>6 DEF BackRead

LEMMA RefreshedHeld == ASSUME TypeInv, HeldInv, kind \in Held, Refreshed PROVE HeldInv' /\ CStep
<1>1. /\ Live' = Live /\ Live' \subseteq Live /\ kind' = kind
      /\ UNCHANGED <<plans, cloud>> /\ UNCHANGED unclaimed /\ At({"refresh"})
      /\ run # None /\ run.pc \in DOMAIN K[run.op] /\ K[run.op][run.pc].do = "refresh"
  BY DEF Refreshed, At, plans, cloud, Live
<1>2. /\ {"refresh"} \cap (Posts \cup Records) = {}
      /\ {"refresh"} \cap (Posts \cup Records \cup {"ask"}) = {}
  BY DEF Posts, Records
<1>3. row # None /\ row.id = run.id BY <1>1, <1>2, StepRow
<1>4. K[run.op][run.pc].do \notin Rids(kind) BY <1>1 DEF Rids
<1>5. CASE run.id \in Live /\ Saw /\ UNCHANGED row
  <2>1. HeldInv' /\ held' = held BY <1>1, <1>2, <1>4, <1>5, GoHeld
  <2> QED BY <1>1, <2>1, Unchanged
<1>6. CASE run.id \notin Live /\ run' = None /\ row' = None
  BY <1>1, <1>3, <1>6, HeldForgets
<1> QED BY <1>5, <1>6 DEF Refreshed

\* A Delete, or a Create that tidies up, is about what is held and not unclaimed.
LEMMA EndingHeld ==
    ASSUME TypeInv, HeldInv, kind \in Held, UNCHANGED <<plans, row, unclaimed>>,
           NEW steps, At(steps), steps \cap (Posts \cup Records) = {},
           Go \/ Fail \/ UNCHANGED run, Live' \subseteq Live,
           Go /\ K[run.op][run.pc].do \in Rids(kind) => run.id \notin Live'
    PROVE  HeldInv' /\ held' = held
<1>1. CASE Go BY <1>1, GoHeld
<1>2. CASE Fail
  <2>1. steps \cap Records = {} OBVIOUS
  <2> QED BY <1>2, <2>1, FailHeld
<1>3. CASE UNCHANGED run
  <2>1. kind' = kind BY DEF plans
  <2> QED BY <1>3, <2>1, HeldStays
<1> QED BY <1>1, <1>2, <1>3

LEMMA DestroyedHeld == ASSUME TypeInv, HeldInv, kind \in Held, Destroyed PROVE HeldInv' /\ CStep
<1>1. /\ UNCHANGED <<plans, row, unclaimed>> /\ kind' = kind /\ At(Destroys) /\ TypeOK
      /\ Go \/ Fail \/ UNCHANGED run
      /\ run # None /\ run.pc \in DOMAIN K[run.op] /\ K[run.op][run.pc].do \in Destroys
  BY DEF Destroyed, At, plans, TypeInv, TypePart
<1>2. Live' = Live \/ (run.id \in Live /\ Live' = Live \ {run.id}) BY DestroyedTyped
<1>3. Destroys \cap (Posts \cup Records) = {} BY DEF Destroys, Posts, Records
<1>4. Live' \subseteq Live BY <1>2
<1>5. Go /\ K[run.op][run.pc].do \in Rids(kind) => run.id \notin Live'
  <2> SUFFICES ASSUME Go, K[run.op][run.pc].do \in Rids(kind) PROVE run.id \notin Live'
    OBVIOUS
  <2>1. ~Has("lingers") /\ ~Is("destroyOrWarn") BY <1>1 DEF Rids, Destroys, Has, K, Is
  <2>2. ~Fail /\ run' # run
    <3>1. 1 \in Nat /\ {} \in SUBSET Fields OBVIOUS
    <3>2. Advances(1) BY <1>1, <3>1, GoAdvances DEF Go
    <3> QED BY <1>1, <3>2, RunTyped DEF Advances, Fail
  <2>3. CASE run.id \notin Live BY <1>4, <2>3
  <2>4. CASE run.id \in Live /\ world' = [world EXCEPT ![run.id] = None]
    <3>1. run.id \in Ids BY <2>4 DEF Live
    <3> QED BY <1>1, <2>4, <3>1, Removed
  <2> QED BY <2>1, <2>2, <2>3, <2>4 DEF Destroyed
<1>6. HeldInv' /\ held' = held BY <1>1, <1>3, <1>4, <1>5, EndingHeld
<1>7. CASE Live' = Live BY <1>1, <1>6, <1>7, Unchanged
<1>8. CASE run.id \in Live /\ Live' = Live \ {run.id}
  <2>1. run.id \in Ids BY <1>8 DEF Live
  <2>2. unclaimed' = unclaimed \ {run.id} BY <1>1 DEF TypeInv, ClaimInv
  <2> QED BY <1>1, <1>6, <1>8, <2>1, <2>2, Vanishes
<1> QED BY <1>2, <1>7, <1>8

LEMMA GoneAwaitedHeld ==
    ASSUME TypeInv, HeldInv, kind \in Held, GoneAwaited PROVE HeldInv' /\ CStep
<1> DEFINE steps == {"awaitGone", "awaitGoneAgain", "awaitGoneBriefly"}
<1>1. /\ UNCHANGED <<plans, row, unclaimed>> /\ kind' = kind /\ At(steps) /\ TypeOK
      /\ Go \/ Fail \/ UNCHANGED run
      /\ run # None /\ run.pc \in DOMAIN K[run.op] /\ K[run.op][run.pc].do \in steps
  BY DEF GoneAwaited, At, plans, TypeInv, TypePart
<1>2. Live' = Live /\ Live' \subseteq Live BY GoneAwaitedTyped
<1>3. steps \cap (Posts \cup Records) = {} BY DEF Posts, Records
<1>4. Go /\ K[run.op][run.pc].do \in Rids(kind) => run.id \notin Live'
  <2> SUFFICES ASSUME Go, K[run.op][run.pc].do \in Rids(kind) PROVE run.id \notin Live'
    OBVIOUS
  <2>1. ~Is("awaitGoneBriefly") BY <1>1 DEF Rids, Is
  <2>2. ~Fail /\ run' # run
    <3>1. 1 \in Nat /\ {} \in SUBSET Fields OBVIOUS
    <3>2. Advances(1) BY <1>1, <3>1, GoAdvances DEF Go
    <3> QED BY <1>1, <3>2, RunTyped DEF Advances, Fail
  <2> QED BY <1>2, <2>1, <2>2 DEF GoneAwaited
<1>5. HeldInv' /\ held' = held BY <1>1, <1>2, <1>3, <1>4, EndingHeld
<1> QED BY <1>1, <1>2, <1>5, Unchanged

-----------------------------------------------------------------------------
(* Core, the service and everybody else in custody.                        *)

LEMMA StartHeld == ASSUME TypeInv, HeldInv, kind \in Held, Start PROVE HeldInv' /\ CStep
<1>1. /\ run = None /\ UNCHANGED <<plans, row, cloud>> /\ kind' = kind /\ K' = K /\ P' = P
      /\ TypeOK /\ kind \in Kinds
  BY DEF Start, plans, K, P, TypeInv, TypePart, TypeOK
<1>2. /\ run' # None /\ run'.pc = 1 /\ run'.op \in {"create", "read", "update", "delete"}
      /\ run'.id = IF row = None THEN None ELSE row.id
      /\ row # None => run'.op # "create"
  BY StartTyped DEF Start, Todo
<1>3. Live' = Live /\ unclaimed' = unclaimed BY <1>1 DEF cloud, Live
<1>4. ~Has("unheld") /\ ~Has("unheld")' BY <1>1, HeldKind
<1>5. held' = held BY <1>1, <1>2, <1>4, IdsAssumption DEF held
<1>6. P \in Nat /\ P >= 1 BY <1>1, PostPlace
<1>7. ~(run'.op \in {"delete", "undo"} /\ RidPassed')
  <2>1. K["delete"] \in Seq(StepsOf(kind, "delete")) BY <1>1, HandlersAssumption DEF Ops, K
  <2>2. \A n \in DOMAIN K["delete"] : ~(n < 1) BY <2>1
  <2> QED BY <1>1, <1>2, <2>2 DEF RidPassed
<1>8. run'.op = "create" => run'.id # NoId
  BY <1>2, IdsAssumption
<1>9. HeldInv' BY <1>1, <1>2, <1>3, <1>5, <1>6, <1>7, <1>8 DEF HeldInv
<1> QED BY <1>1, <1>3, <1>5, <1>9, Unchanged

\* An operation that ends well has the row of its object, or has got rid of it.
LEMMA FinishHeld == ASSUME TypeInv, HeldInv, kind \in Held, Finish PROVE HeldInv' /\ CStep
<1>1. /\ run # None /\ run' = None /\ UNCHANGED <<plans, cloud>> /\ kind' = kind
      /\ run.pc = Len(K[run.op]) + 1 /\ TypeOK /\ run.op \in Ops
  BY RunTyped DEF Finish, plans, TypeInv, TypePart
<1>2. Live' = Live /\ unclaimed' = unclaimed BY <1>1 DEF cloud, Live
<1>3. ~Has("unheld") /\ ~Has("unheld")' BY <1>1, HeldKind
<1>4. CASE row' # None
  <2>1. run.op \in {"create", "read", "update"} /\ row'.id = run.id
    BY <1>1, <1>4, FinishTyped DEF Finish, Ops
  <2>2. run.id \in Ids
    <3>1. CASE run.op = "create"
      <4>1. run.pc > P /\ run.id \in Ids \cup {None, NoId} BY <1>1, <3>1, PostPlace, RunTyped
      <4>2. run.id # None BY <1>1, <3>1, <4>1 DEF TypeInv, TypePart, RunInv
      <4>3. run.pc \notin DOMAIN K["create"] BY <1>1, <3>1, RunTyped
      <4>4. run.id # NoId BY <1>1, <3>1, <4>3 DEF HeldInv
      <4> QED BY <4>1, <4>2, <4>4
    <3>2. CASE run.op \in {"read", "update"}
      BY <1>1, <3>2 DEF TypeInv, TypePart, RunInv, HeldInv
    <3> QED BY <2>1, <3>1, <3>2
  <2>3. held = run.id
    <3>1. CASE row = None
      <4>1. run.op = "create" BY <1>1, <2>1, <3>1 DEF TypeInv, TypePart, RunInv
      <4> QED BY <1>1, <1>3, <2>2, <3>1, <4>1 DEF held
    <3>2. CASE row # None
      <4>1. row.id = run.id
        <5>1. CASE run.op = "create"
          <6>1. run.pc \in Nat /\ P \in Nat /\ run.pc > P
            BY <1>1, <5>1, PostPlace, RunTyped
          <6> QED BY <1>1, <3>2, <5>1, <6>1 DEF HeldInv
        <5>2. CASE run.op \in {"read", "update"}
          BY <1>1, <5>2 DEF TypeInv, TypePart, RunInv
        <5> QED BY <2>1, <5>1, <5>2
      <4> QED BY <1>3, <3>2, <4>1 DEF held
    <3> QED BY <3>1, <3>2
  <2>4. held' = run.id BY <1>1, <1>3, <1>4, <2>1 DEF held
  <2>5. HeldInv' BY <1>1, <1>2, <2>1, <2>2, <2>3, <2>4 DEF HeldInv
  <2> QED BY <1>1, <1>2, <2>3, <2>4, <2>5, Unchanged
<1>5. CASE row' = None
  <2>1. run.op \in {"delete", "undo"} BY <1>5, FinishTyped
  <2>2. row # None /\ row.id = run.id
    BY <1>1, <2>1 DEF TypeInv, TypePart, RunInv, HeldInv
  <2>3. run.id \notin Live
    <3>1. \E n \in DOMAIN K[run.op] : K[run.op][n].do \in Rids(kind)
      <4>1. CASE run.op = "delete" BY <4>1, RidAssumption DEF K
      <4>2. CASE run.op = "undo"
        <5>1. K.undo # <<>> BY <1>1, <4>2 DEF HeldInv
        <5> QED BY <4>2, <5>1, RidAssumption DEF K
      <4> QED BY <2>1, <4>1, <4>2
    <3>2. \A n \in DOMAIN K[run.op] : n < run.pc BY <1>1, RunTyped
    <3>3. RidPassed BY <3>1, <3>2 DEF RidPassed
    <3> QED BY <1>1, <2>1, <3>3 DEF HeldInv
  <2> QED BY <1>1, <1>5, <2>2, <2>3, HeldForgets
<1> QED BY <1>4, <1>5

LEMMA EditHeld == ASSUME TypeInv, HeldInv, kind \in Held, Edit PROVE HeldInv' /\ CStep
<1>1. /\ run = None /\ run' = None /\ UNCHANGED <<kind, row, cloud>> /\ Live' = Live
      /\ unclaimed' = unclaimed
  BY DEF Edit, cloud, Live
<1>2. HeldInv' /\ held' = held BY <1>1, HeldStays
<1> QED BY <1>1, <1>2, Unchanged

LEMMA ImportHeld == ASSUME TypeInv, HeldInv, kind \in Held, Import PROVE HeldInv' /\ CStep
<1> PICK i \in unclaimed :
      /\ row' = [id |-> i, v |-> {}, tainted |-> FALSE]
      /\ unclaimed' = unclaimed \ {i}
  BY DEF Import
<1>1. run = None /\ run' = None /\ row = None /\ kind' = kind BY DEF Import, plans
<1>2. row' # None /\ Live' = Live BY ImportTyped
<1>3. ~Has("unheld") /\ ~Has("unheld")' BY <1>1, HeldKind
<1>4. held = None /\ held' = i BY <1>1, <1>2, <1>3 DEF held
<1>5. i \in Ids /\ None \notin Live BY IdsAssumption DEF TypeInv, TypePart, TypeOK, Live
<1>6. HeldInv' BY <1>1, <1>2, <1>4, <1>5 DEF HeldInv
<1> QED BY <1>1, <1>2, <1>4, <1>5, <1>6, Claims

LEMMA ServiceHeld ==
    ASSUME TypeInv, HeldInv, kind \in Held, NEW i \in Ids,
           ServiceWorks(i) \/ ServiceFails(i) \/ OutsideDeletes(i) \/ OutsideChanges(i)
    PROVE  HeldInv' /\ CStep
<1>1. kind' = kind /\ row' = row
  BY DEF ServiceWorks, ServiceFails, OutsideDeletes, OutsideChanges, plans
<1>2. /\ run = None <=> run' = None
      /\ run # None => run'.op = run.op /\ run'.pc = run.pc /\ run'.id = run.id
  BY DisturbTyped DEF ServiceWorks, ServiceFails, OutsideDeletes, OutsideChanges
<1>3. \/ Live' = Live /\ unclaimed' = unclaimed
      \/ i \in Live /\ Live' = Live \ {i} /\ unclaimed' = unclaimed \ {i}
  <2>1. unclaimed \subseteq Live BY DEF TypeInv, TypePart, TypeOK
  <2>2. CASE ServiceWorks(i) BY <2>1, <2>2, ServiceWorksTyped
  <2>3. CASE ServiceFails(i) BY <2>3, ServiceFailsTyped DEF ServiceFails
  <2>4. CASE OutsideDeletes(i) BY <2>4, OutsideDeletesTyped DEF OutsideDeletes
  <2>5. CASE OutsideChanges(i) BY <2>5, OutsideChangesTyped DEF OutsideChanges
  <2> QED BY <2>2, <2>3, <2>4, <2>5
<1>4. /\ Live' \subseteq Live /\ unclaimed' \subseteq unclaimed
      /\ unclaimed \cap Live' \subseteq unclaimed'
  BY <1>3
<1>5. HeldInv' /\ held' = held BY <1>1, <1>2, <1>4, HeldStays
<1> QED BY <1>1, <1>3, <1>5, Unchanged, Vanishes

LEMMA NextHeld == ASSUME TypeInv, HeldInv, kind \in Held, Next PROVE HeldInv' /\ CStep
<1>1. CASE Start BY <1>1, StartHeld
<1>2. CASE Finish BY <1>2, FinishHeld
<1>3. CASE Handle
  BY <1>3, RefusedHeld, AskedHeld, PostDoneHeld, PostTakenHeld, RecordCreatedHeld,
     SendSkippedHeld, SendDoneHeld, SendRejectedHeld, ClearedHeld, AwaitedHeld,
     AwaitedBrieflyHeld, BackReadHeld, RefreshedHeld, DestroyedHeld, GoneAwaitedHeld
  DEF Handle
<1>4. CASE Edit BY <1>4, EditHeld
<1>5. CASE Import BY <1>5, ImportHeld
<1>6. CASE \E i \in Ids :
         ServiceWorks(i) \/ ServiceFails(i) \/ OutsideDeletes(i) \/ OutsideChanges(i)
  BY <1>6, ServiceHeld
<1> QED BY <1>1, <1>2, <1>3, <1>4, <1>5, <1>6 DEF Next, Terraform

-----------------------------------------------------------------------------
(* The theorem about custody.                                              *)

LEMMA InitHeld == ASSUME Init PROVE IInv /\ Custody!Init
<1>1. TypeInv BY InitTyped
<1>2. kind \in Kinds /\ row = None /\ run = None /\ unclaimed = {} BY DEF Init
<1>3. kind \in Held => Live = {}
  BY <1>2, HandlersAssumption DEF Init, Live, Held, Has, K
<1>4. held = None BY <1>2 DEF held
<1>5. kind \in Held => HeldInv BY <1>2, <1>3, <1>4 DEF HeldInv
<1>6. kind \notin Held => Has("unheld") BY <1>2 DEF Held, Has, K
<1>7. Custody!Init BY <1>2, <1>3, <1>4, <1>6 DEF Custody!Init
<1> QED BY <1>1, <1>5, <1>7 DEF IInv

LEMMA NextKeeps == ASSUME IInv, [Next]_vars PROVE IInv' /\ CStep
<1>1. kind \in Kinds /\ kind' = kind
  BY DEF IInv, TypeInv, TypePart, TypeOK, Next, Terraform, Handle, Start, Finish, Edit, Import,
         ServiceWorks, ServiceFails, OutsideDeletes, OutsideChanges, Refused, Asked, PostDone,
         PostTaken, RecordCreated, SendSkipped, SendDone, SendRejected, Cleared, Awaited,
         AwaitedBriefly, BackRead, Refreshed, Destroyed, GoneAwaited, plans, vars
<1>2. CASE Next
  <2>1. TypeInv' BY <1>2, NextTyped DEF IInv
  <2>2. CASE kind \in Held BY <1>1, <1>2, <2>1, <2>2, NextHeld DEF IInv
  <2>3. CASE kind \notin Held BY <1>1, <2>1, <2>3, UnheldStep DEF IInv
  <2> QED BY <2>2, <2>3
<1>3. CASE UNCHANGED vars
  <2>1. IInv'
    BY <1>3 DEF vars, plans, cloud, IInv, TypeInv, TypePart, TypeOK, RunInv, ClaimInv, HeldInv,
                RidPassed, Fields, K, Live, P, held, Has
  <2>2. CASE kind \in Held
    <3>1. Live' = Live /\ held' = held /\ unclaimed' = unclaimed
      BY <1>3 DEF vars, plans, cloud, Live, held, Has, K
    <3> QED BY <1>1, <2>1, <2>2, <3>1, Unchanged
  <2>3. CASE kind \notin Held BY <1>1, <2>1, <2>3, UnheldStep
  <2> QED BY <2>1, <2>2, <2>3
<1> QED BY <1>2, <1>3

\* Whatever handlers a kind has, if they keep to LifecycleRules they implement
\* ObjectCustody: a Create that fails, an answer that is lost or empty, a wait that is
\* given up, an object deleted outside, none makes Terraform let go of an object that
\* exists, or make a second one.
THEOREM CustodyKept == Spec => KeepsCustody
<1>1. Init => IInv /\ Custody!Init BY InitHeld
<1>2. IInv /\ [Next]_vars => IInv' /\ [Custody!Next]_(Custody!vars)
  BY NextKeeps DEF CStep
<1> QED BY <1>1, <1>2, PTL DEF Spec, KeepsCustody, Custody!Spec

-----------------------------------------------------------------------------
(* What an apply has reached.                                              *)

\* Objects at rest are as they are going to be.
WorldInv == \A i \in Live :
    /\ world[i].st \in {"up", "failed"} => world[i].next = world[i].v
    /\ kind \in Still => world[i].st # "building"
    /\ kind \in Instant => world[i].st = "up"

\* What was asked for last is yet to be waited for.
Pending == run.pc - 1 \in DOMAIN K[run.op] /\ K[run.op][run.pc - 1].do \in Orders
Over(n) == n < run.pc /\ ~(Pending /\ n = run.pc - 1)

\* The steps that set a field: a drop one that is gone, and an add one that is new.
Brings(s, f) ==
    \/ s.do \in (Posts \ {"postOrAdopt"}) \cup {"send", "sendAll"} \cup Orders /\ f \in s.of
    \/ s.do = "sendAll" /\ f \in s.also /\ run.op = "update"
    \/ s.do = "drop" /\ f \in s.of /\ f \in row.v
    \/ s.do = "add" /\ f \in s.of /\ f \in config

Agree(a, f) == f \in a <=> f \in config
Settled(f) == run.id \in Live => Agree(world[run.id].v, f) /\ Agree(world[run.id].next, f)

\* Fields that are as configured once they are sent.
Tracked ==
    IF run.op = "create" THEN Fields
    ELSE {f \in Changed(Fields) : kind \in Still \/ f \notin Seen}

SentInv ==
    /\ \A f \in Tracked : \A n \in DOMAIN K[run.op] :
          Over(n) /\ Brings(K[run.op][n], f) => Settled(f)
    /\ Pending /\ kind \notin Reverts => \A f \in Tracked :
          /\ Brings(K[run.op][run.pc - 1], f)
          /\ run.id \in Live /\ world[run.id].st \in {"building", "up"}
          => Agree(world[run.id].next, f)

CreateInv ==
    /\ \/ IsUp(run.id)
       \/ \E n \in DOMAIN K.create : n >= run.pc /\ K.create[n].do \in Awaits
       \/ run.id = NoId /\ run.pc \in DOMAIN K.create /\ K.create[run.pc].do = "record"
    /\ ~Pending /\ run.id \in Live => world[run.id].next = world[run.id].v
    /\ SentInv

\* Nothing has been sent, as nothing sent so far would change.
Untouched ==
    /\ kind \notin Instant
    /\ run.id \in Live => ~Differ(world[run.id].v, row.v, Seen)
    /\ \A n \in DOMAIN K.update : n < run.pc =>
          /\ K.update[n].do # "sendAll"
          /\ K.update[n].do \in Sends => ~Differ(row.v, config, K.update[n].of)

UpdateInv ==
    /\ IsUp(run.id) \/ Pending \/ Untouched
    /\ kind \in Still /\ run.id \in Live =>
          \A f \in Seen : Agree(world[run.id].v, f) \/ (f \in world[run.id].v <=> f \in row.v)
    /\ kind \notin Still /\ run.pc = Len(K.update) + 1 =>
          run.id \in Live /\ ~Differ(world[run.id].v, run.v, Seen)
    /\ SentInv

ReadInv == \A n \in DOMAIN K.read : n < run.pc /\ K.read[n].do # "ask" =>
    run.id \in Live /\ ~Differ(world[run.id].v, run.v, K.read[n].of)

\* What the plan of an Update goes by.
FreshInv ==
    refreshed = "yes" /\ row # None /\ ~row.tainted /\ row.v # config /\ kind \in Updatable =>
        row.id \in Live /\ ~Differ(world[row.id].v, row.v, Seen)

\* An Update changes something, and nothing that replaces the object.
Planned ==
    run # None /\ run.op = "update" => row.v # config /\ ~Differ(row.v, config, K.replace)

RunReach ==
    run # None =>
        /\ Planned
        /\ run.calm /\ run.op = "create" /\ run.pc > P => CreateInv
        /\ run.calm /\ run.op = "update" => UpdateInv
        /\ refreshed = "yes" /\ run.op = "read" => ReadInv

ReachInv == WorldInv /\ (run = None => FreshInv) /\ RunReach

-----------------------------------------------------------------------------
(* What a step of a handler does to an apply.                              *)

Do == K[run.op][run.pc].do

\* The operation goes on, n steps further; it has seen the object; it is sent something.
Onward(n) ==
    /\ run # None /\ run' # None /\ run.pc \in DOMAIN K[run.op]
    /\ run'.op = run.op /\ run'.id = run.id /\ run'.calm = run.calm /\ run'.pc = run.pc + n

Passes ==
    /\ Onward(1) /\ UNCHANGED <<kind, config, world, refreshed>>
    /\ Do \notin Sends \cup Posts
    /\ Do \in Awaits => IsUp(run.id) /\ AsOrdered
    /\ Do \in ReadBacks \cup {"refresh"} =>
          run.id \in Live /\ run'.v = Merge(run.v, Of, world[run.id].v)
    /\ Do = "ask" => run'.v = run.v
    /\ ~(Do = "record" /\ run.id = NoId)
    /\ row' = row \/ run.op = "create"

Skips ==
    /\ Onward(IF Do \in Orders THEN 2 ELSE 1) /\ UNCHANGED <<kind, config, world, refreshed, row>>
    /\ Do \in Sends /\ Needless

\* What a request makes of the object.
Served ==
    IF Do \in Orders
    THEN [st |-> "building", v |-> world[run.id].v, next |-> Sent(world[run.id].v)]
    ELSE Object("up", Sent(world[run.id].v))
Carries ==
    /\ Onward(1) /\ UNCHANGED <<kind, config, refreshed, row>>
    /\ Do \in Sends /\ ~Needless /\ IsUp(run.id)
    /\ Alters(run.id, Served)

\* A Create knows its object, or has an answer without one.
Posted(i) ==
    /\ At(Posts) /\ UNCHANGED <<kind, config>>
    /\ run' # None /\ run'.op = "create" /\ run'.pc = P + 1 /\ run'.id = i
    /\ run'.calm = run.calm
Founds(i) ==
    /\ Posted(i) /\ i \in Ids
    /\ \/ Alters(i, Object(IF Has("built") THEN "building" ELSE "up", config \cap Of))
       \/ i \in Live /\ Do = "put" /\ Alters(i, Object("up", Merge(world[i].v, Of, config)))
       \/ i \in Live /\ Do = "postOrAdopt" /\ UNCHANGED world
Blanks == Posted(NoId) /\ kind \in Blank /\ Do = "postUnchecked"

\* What is no longer about the object.
Leaves ==
    \/ run' = None /\ (refreshed' = "no" \/ row' = None)
    \/ run' # None /\ run'.op \in {"undo", "delete"}
    \/ At(Posts) /\ run' = run

LEMMA RunMoves ==
    ASSUME TypeOK, run # None, run.pc \in DOMAIN K[run.op], NEW n \in Nat,
           run' = [run EXCEPT !.pc = @ + n]
    PROVE  Onward(n) /\ run'.v = run.v
<1>1. run \in Runs[kind] /\ kind \in Kinds BY DEF TypeOK
<1>2. PICK A, B : Runs[kind] = RunsOf(A, B, Fields) BY <1>1 DEF Runs, RunsOf, Fields, K
<1>3. run \in RunsOf(A, B, Fields) BY <1>1, <1>2
<1>4. /\ run'.op = run.op /\ run'.id = run.id /\ run'.pc = run.pc + n
      /\ run'.calm = run.calm /\ run'.v = run.v
  BY <1>3 DEF RunsOf
<1>5. {} \in SUBSET Fields OBVIOUS
<1>6. run' # None BY <1>5, GoAdvances DEF Advances
<1> QED BY <1>4, <1>6 DEF Onward

LEMMA RunSees ==
    ASSUME TypeOK, run # None, run.pc \in DOMAIN K[run.op], Saw, run.id \in Live
    PROVE  Onward(1) /\ run'.v = Merge(run.v, Of, world[run.id].v)
<1>1. run \in Runs[kind] /\ kind \in Kinds BY DEF TypeOK
<1>2. PICK A, B : Runs[kind] = RunsOf(A, B, Fields) BY <1>1 DEF Runs, RunsOf, Fields, K
<1>3. run \in RunsOf(A, B, Fields) BY <1>1, <1>2
<1> DEFINE v == Merge(run.v, Of, world[run.id].v)
<1>4. v \in SUBSET Fields BY LiveTyped, RunTyped, StepTyped DEF Merge
<1>5. run' = [run EXCEPT !.pc = @ + 1, !.v = v] BY DEF Saw
<1> HIDE DEF v
<1>6. /\ run'.op = run.op /\ run'.id = run.id /\ run'.pc = run.pc + 1
      /\ run'.calm = run.calm /\ run'.v = v
  BY <1>3, <1>5 DEF RunsOf
<1>7. run' # None BY <1>4, <1>5, GoAdvances DEF Advances
<1> QED BY <1>6, <1>7 DEF Onward, v

LEMMA PassesOn ==
    ASSUME TypeInv, NEW steps, At(steps), steps \cap (Sends \cup Posts) = {},
           Go, UNCHANGED <<plans, world>>, row' = row \/ run.op = "create",
           steps \cap (ReadBacks \cup {"refresh"}) = {},
           Do \in Awaits => IsUp(run.id) /\ AsOrdered,
           ~(Do = "record" /\ run.id = NoId)
    PROVE  Passes
<1>1. TypeOK /\ run # None /\ run.pc \in DOMAIN K[run.op] /\ Do \in steps
  BY DEF TypeInv, TypePart, At, Do
<1>2. run' = [run EXCEPT !.pc = @ + 1] BY DEF Go
<1>3. Onward(1) /\ run'.v = run.v BY <1>1, <1>2, RunMoves
<1> QED BY <1>1, <1>3 DEF Passes, plans, Go

LEMMA AskedDoes == ASSUME TypeInv, Asked PROVE Passes
<1>1. {"ask"} \cap (Sends \cup Posts) = {} /\ {"ask"} \cap (ReadBacks \cup {"refresh"}) = {}
  BY DEF Sends, Orders, Posts, ReadBacks
<1>2. Do = "ask" BY DEF Asked, At, Do
<1> QED BY <1>1, <1>2, PassesOn DEF Asked, cloud, Awaits

LEMMA RecordDoes == ASSUME TypeInv, RecordCreated PROVE Leaves \/ Passes
<1>1. CASE Fail BY <1>1 DEF Fail, Leaves
<1>2. CASE ~Fail
  <2>1. /\ At(Records) /\ Go /\ UNCHANGED <<plans, cloud>>
        /\ ~(run.id = NoId /\ Is("record"))
    BY <1>2 DEF RecordCreated
  <2>2. /\ Records \cap (Sends \cup Posts) = {} /\ Records \cap (ReadBacks \cup {"refresh"}) = {}
        /\ Records \cap Awaits = {}
    BY DEF Records, Sends, Orders, Posts, ReadBacks, Awaits
  <2>3. Do \in Records BY <2>1 DEF At, Do
  <2>4. run.op = "create" BY <2>1, StepPlaces DEF At, TypeInv, TypePart
  <2>5. ~(Do = "record" /\ run.id = NoId) BY <2>1 DEF Is, Do
  <2>6. Passes BY <2>1, <2>2, <2>3, <2>4, <2>5, PassesOn DEF cloud
  <2> QED BY <2>6
<1> QED BY <1>1, <1>2

LEMMA AwaitedDoes == ASSUME TypeInv, Awaited PROVE Leaves \/ Passes
<1>1. CASE Fail BY <1>1 DEF Fail, Leaves
<1>2. CASE FailAfterUndo /\ ~Fail
  <2>1. run # None /\ UNCHANGED plans BY DEF Awaited, At
  <2> QED BY <1>2, <2>1, UndoTyped DEF Leaves
<1>3. CASE IsUp(run.id) /\ AsOrdered /\ Go /\ UNCHANGED row
  <2>1. /\ Awaits \cap (Sends \cup Posts) = {} /\ Awaits \cap (ReadBacks \cup {"refresh"}) = {}
        /\ "record" \notin Awaits
    BY DEF Sends, Orders, Posts, ReadBacks, Awaits
  <2>2. At(Awaits) /\ UNCHANGED <<plans, cloud>> BY DEF Awaited
  <2>3. Do \in Awaits BY <2>2 DEF At, Do
  <2>4. Passes BY <1>3, <2>1, <2>2, <2>3, PassesOn DEF cloud
  <2> QED BY <2>4
<1> QED BY <1>1, <1>2, <1>3 DEF Awaited

LEMMA AwaitedBrieflyDoes == ASSUME TypeInv, AwaitedBriefly PROVE Passes
<1>1. /\ {"awaitBriefly"} \cap (Sends \cup Posts) = {}
      /\ {"awaitBriefly"} \cap (ReadBacks \cup {"refresh"}) = {}
  BY DEF Sends, Orders, Posts, ReadBacks
<1>2. Do = "awaitBriefly" BY DEF AwaitedBriefly, At, Do
<1> QED BY <1>1, <1>2, PassesOn DEF AwaitedBriefly, cloud, Awaits

\* Any step at which the object is seen.
LEMMA SeesIt ==
    ASSUME TypeInv, NEW steps, At(steps), steps \cap (Sends \cup Posts \cup Awaits) = {},
           "record" \notin steps, "ask" \notin steps,
           Saw, run.id \in Live, UNCHANGED <<plans, world, row, refreshed>>
    PROVE  Passes
<1>1. TypeOK /\ run # None /\ run.pc \in DOMAIN K[run.op] /\ Do \in steps
  BY DEF TypeInv, TypePart, At, Do
<1>2. Onward(1) /\ run'.v = Merge(run.v, Of, world[run.id].v) BY <1>1, RunSees
<1> QED BY <1>1, <1>2 DEF Passes, plans

LEMMA BackReadDoes == ASSUME TypeInv, BackRead PROVE Leaves \/ Passes
<1> DEFINE steps == ReadBacks \cup {"readBackOrWarn"}
<1>1. At(steps) /\ UNCHANGED <<plans, cloud>> BY DEF BackRead
<1>2. steps \cap (Sends \cup Posts \cup Awaits) = {} /\ "record" \notin steps
      /\ "ask" \notin steps
  BY DEF Sends, Orders, Posts, Awaits, ReadBacks
<1>3. CASE run.id \in Live /\ Saw /\ Quiet /\ UNCHANGED <<refreshed, row>>
  <2> HIDE DEF steps
  <2> QED BY <1>1, <1>2, <1>3, SeesIt DEF cloud
<1>4. CASE Fail BY <1>4 DEF Fail, Leaves
<1>5. CASE Is("readBackOrWarn") /\ Go /\ UNCHANGED row
  <2>1. Do = "readBackOrWarn" BY <1>5 DEF Is, Do
  <2>2. /\ {"readBackOrWarn"} \cap (Sends \cup Posts) = {}
        /\ {"readBackOrWarn"} \cap (ReadBacks \cup {"refresh"}) = {}
        /\ "readBackOrWarn" \notin Awaits
    BY DEF Sends, Orders, Posts, ReadBacks, Awaits
  <2>3. At({"readBackOrWarn"}) BY <1>1, <2>1 DEF At, Do
  <2> QED BY <1>1, <1>5, <2>1, <2>2, <2>3, PassesOn DEF cloud
<1> QED BY <1>3, <1>4, <1>5 DEF BackRead

LEMMA RefreshedDoes == ASSUME TypeInv, Refreshed PROVE Leaves \/ Passes
<1>1. CASE run' = None /\ row' = None BY <1>1 DEF Leaves
<1>2. CASE run.id \in Live /\ Saw /\ UNCHANGED row
  <2>1. /\ {"refresh"} \cap (Sends \cup Posts \cup Awaits) = {}
        /\ "record" \notin {"refresh"} /\ "ask" \notin {"refresh"}
    BY DEF Sends, Orders, Posts, Awaits
  <2> QED BY <1>2, <2>1, SeesIt DEF Refreshed, cloud
<1> QED BY <1>1, <1>2 DEF Refreshed

LEMMA SkippedDoes == ASSUME TypeInv, SendSkipped PROVE Skips
<1>1. TypeOK /\ run # None /\ run.pc \in DOMAIN K[run.op] /\ Do \in Sends /\ Needless
  BY DEF TypeInv, TypePart, SendSkipped, At, Do
<1> DEFINE n == IF Do \in Orders THEN 2 ELSE 1
<1>2. n \in Nat OBVIOUS
<1>3. run' = [run EXCEPT !.pc = @ + n] BY <1>1 DEF SendSkipped, At, Do
<1> HIDE DEF n
<1>4. Onward(n) BY <1>1, <1>2, <1>3, RunMoves
<1> QED BY <1>1, <1>4 DEF Skips, SendSkipped, cloud, plans, n

\* A request that fails leaves the handler, but for the tidying up.
LEMMA Stops ==
    ASSUME TypeInv, run # None, UNCHANGED plans, NEW orders \in BOOLEAN,
           IF orders THEN FailAfterUndo ELSE Fail
    PROVE  Leaves
<1>1. CASE Fail BY <1>1 DEF Fail, Leaves
<1>2. CASE FailAfterUndo /\ ~Fail BY <1>2, UndoTyped DEF Leaves
<1> QED BY <1>1, <1>2

LEMMA RefusedDoes == ASSUME TypeInv, Refused PROVE Leaves
<1>1. run # None /\ UNCHANGED plans /\ IF At(Orders) THEN FailAfterUndo ELSE Fail
  BY DEF Refused, At
<1>2. At(Orders) \in BOOLEAN BY DEF At
<1> QED BY <1>1, <1>2, Stops

LEMMA SendDoneDoes == ASSUME TypeInv, SendDone PROVE Leaves \/ Carries
<1>1. /\ TypeOK /\ run # None /\ run.pc \in DOMAIN K[run.op] /\ Do \in Sends /\ ~Needless
      /\ IsUp(run.id) /\ UNCHANGED <<plans, row, unclaimed>>
  BY DEF TypeInv, TypePart, SendDone, Sendable, At, Do
<1>2. At(Orders) <=> Do \in Orders BY <1>1 DEF At, Do
<1>3. Alters(run.id, Served) BY <1>2 DEF SendDone, Served, Alters
<1>4. CASE Go
  <2>1. run' = [run EXCEPT !.pc = @ + 1] /\ UNCHANGED refreshed BY <1>4 DEF Go
  <2>2. Onward(1) BY <1>1, <2>1, RunMoves
  <2> QED BY <1>1, <1>3, <2>1, <2>2 DEF Carries, plans
<1>5. CASE IF At(Orders) THEN FailAfterUndo ELSE Fail
  <2>1. At(Orders) \in BOOLEAN BY DEF At
  <2> QED BY <1>1, <1>5, <2>1, Stops
<1> QED BY <1>4, <1>5 DEF SendDone

LEMMA SendRejectedDoes == ASSUME TypeInv, SendRejected PROVE Leaves
<1>1. run # None /\ UNCHANGED plans /\ IF At(Orders) THEN FailAfterUndo ELSE Fail
  BY DEF SendRejected, At
<1>2. At(Orders) \in BOOLEAN BY DEF At
<1> QED BY <1>1, <1>2, Stops

\* The steps that end an object.
LEMMA EndingDoes ==
    ASSUME TypeInv, Cleared \/ Destroyed \/ GoneAwaited
    PROVE  Leaves
<1> DEFINE steps == Clears \cup Destroys \cup {"awaitGone", "awaitGoneAgain", "awaitGoneBriefly"}
<1>1. At(steps) BY DEF Cleared, Destroyed, GoneAwaited, At, steps
<1>2. TypeOK /\ run # None /\ run.pc \in DOMAIN K[run.op] /\ run.op \in {"delete", "undo"}
  BY <1>1, StepPlaces DEF At, TypeInv, TypePart
<1>3. CASE Fail BY <1>3 DEF Fail, Leaves
<1>4. CASE Go
  <2>1. run' = [run EXCEPT !.pc = @ + 1] BY <1>4 DEF Go
  <2>2. Onward(1) BY <1>2, <2>1, RunMoves
  <2> QED BY <1>2, <2>2 DEF Leaves, Onward
<1>5. CASE run' = run BY <1>2, <1>5 DEF Leaves
<1> QED BY <1>3, <1>4, <1>5 DEF Cleared, Destroyed, GoneAwaited

LEMMA PostedDoes ==
    ASSUME TypeInv, At(Posts), UNCHANGED plans, row' = row, NEW i \in Ids \cup {NoId},
           run' = [run EXCEPT !.pc = @ + 1, !.id = i]
    PROVE  Posted(i)
<1>1. /\ run # None /\ run.pc \in DOMAIN K[run.op] /\ run \in Runs[kind] /\ kind \in Kinds
      /\ run.op = "create" /\ run.pc = P
  BY AtPost DEF At, TypeInv, TypePart, TypeOK
<1>2. PICK A, B : Runs[kind] = RunsOf(A, B, Fields) BY <1>1 DEF Runs, RunsOf, Fields, K
<1>3. run \in RunsOf(A, B, Fields) BY <1>1, <1>2
<1>4. run'.calm = run.calm BY <1>3 DEF RunsOf
<1> QED BY <1>4, PostTyped DEF Posted, plans

LEMMA PostDoneDoes ==
    ASSUME TypeInv, PostDone
    PROVE  Leaves \/ Blanks \/ \E i \in Ids : Founds(i)
<1>1. At(Posts) /\ UNCHANGED <<plans, row>> BY DEF PostDone
<1> PICK i \in Free :
      /\ Make(i)
      /\ \/ run' = [run EXCEPT !.pc = @ + 1, !.id = i]
         \/ Fail
         \/ UNCHANGED <<run, refreshed>>
         \/ /\ Is("postUnchecked") /\ kind \in Blank
            /\ run' = [run EXCEPT !.pc = @ + 1, !.id = NoId]
  BY DEF PostDone
<1>2. i \in Ids BY DEF Free
<1>3. CASE run' = [run EXCEPT !.pc = @ + 1, !.id = i]
  <2>1. Posted(i) BY <1>1, <1>2, <1>3, PostedDoes
  <2>2. Alters(i, Object(IF Has("built") THEN "building" ELSE "up", config \cap Of))
    BY DEF Make, Alters
  <2> QED BY <1>2, <2>1, <2>2 DEF Founds
<1>4. CASE Fail BY <1>4 DEF Fail, Leaves
<1>5. CASE run' = run BY <1>1, <1>5 DEF Leaves
<1>6. CASE /\ Is("postUnchecked") /\ kind \in Blank
           /\ run' = [run EXCEPT !.pc = @ + 1, !.id = NoId]
  BY <1>1, <1>6, PostedDoes DEF Blanks, Is, Do
<1> QED BY <1>3, <1>4, <1>5, <1>6

LEMMA PostTakenDoes == ASSUME TypeInv, PostTaken PROVE Leaves \/ \E i \in Ids : Founds(i)
<1>1. At(Posts) /\ UNCHANGED <<plans, row>> BY DEF PostTaken
<1>2. Is("put") <=> Do = "put" BY DEF Is, Do
<1>3. Is("postOrAdopt") <=> Do = "postOrAdopt" BY DEF Is, Do
<1> PICK i \in Live :
      \/ /\ Is("postOrAdopt") \/ Is("put")
         /\ world' = [world EXCEPT
              ![i] = IF Is("put") THEN Object("up", Merge(@.v, Of, config)) ELSE @]
         /\ run' = [run EXCEPT !.pc = @ + 1, !.id = i]
      \/ Fail
  BY DEF PostTaken
<1>4. CASE Fail BY <1>4 DEF Fail, Leaves
<1>5. CASE /\ Is("postOrAdopt") \/ Is("put")
           /\ world' = [world EXCEPT
                ![i] = IF Is("put") THEN Object("up", Merge(@.v, Of, config)) ELSE @]
           /\ run' = [run EXCEPT !.pc = @ + 1, !.id = i]
  <2>1. i \in Ids BY DEF Live
  <2>2. Posted(i) BY <1>1, <1>5, <2>1, PostedDoes
  <2>3. CASE Is("put")
    <3>1. Alters(i, Object("up", Merge(world[i].v, Of, config))) BY <1>5, <2>3 DEF Alters
    <3> QED BY <1>2, <2>1, <2>2, <2>3, <3>1 DEF Founds
  <2>4. CASE ~Is("put")
    <3>1. world' = world BY <1>5, <2>4 DEF TypeInv, TypePart, TypeOK
    <3> QED BY <1>3, <1>5, <2>1, <2>2, <2>4, <3>1 DEF Founds
  <2> QED BY <2>3, <2>4
<1> QED BY <1>4, <1>5

LEMMA HandleDoes ==
    ASSUME TypeInv, Handle
    PROVE  Leaves \/ Passes \/ Skips \/ Carries \/ Blanks \/ \E i \in Ids : Founds(i)
BY RefusedDoes, AskedDoes, PostDoneDoes, PostTakenDoes, RecordDoes, SkippedDoes, SendDoneDoes,
   SendRejectedDoes, EndingDoes, AwaitedDoes, AwaitedBrieflyDoes, BackReadDoes, RefreshedDoes
DEF Handle

-----------------------------------------------------------------------------
(* The world.                                                              *)

Fine(o) ==
    /\ o.st \in {"up", "failed"} => o.next = o.v
    /\ kind \in Still => o.st # "building"
    /\ kind \in Instant => o.st = "up"

LEMMA AlteredFine ==
    ASSUME TypeOK, WorldInv, kind' = kind, NEW i \in Ids, NEW o \in Objects[kind],
           Fine(o), Alters(i, o)
    PROVE  WorldInv'
<1>1. Live' = Live \cup {i} BY Altered
<1>2. \A j \in Ids : world'[j] = IF j = i THEN o ELSE world[j] BY DEF TypeOK, Alters
<1>3. \A j \in Live' : j \in Ids BY DEF Live
<1> QED BY <1>1, <1>2, <1>3 DEF WorldInv, Fine

LEMMA RemovedFine ==
    ASSUME TypeOK, WorldInv, kind' = kind, NEW i \in Ids, world' = [world EXCEPT ![i] = None]
    PROVE  WorldInv'
<1>1. Live' = Live \ {i} BY Removed
<1>2. \A j \in Live' : world'[j] = world[j] BY <1>1 DEF TypeOK, Live
<1> QED BY <1>1, <1>2 DEF WorldInv

LEMMA SameFine == ASSUME WorldInv, UNCHANGED <<kind, world>> PROVE WorldInv'
BY DEF WorldInv, Live

\* What the kinds of Still and Instant do not do.
LEMMA StillSteps ==
    ASSUME TypeOK, run # None, NEW n \in DOMAIN K[run.op]
    PROVE  /\ kind \in Still => K[run.op][n].do \notin Orders
           /\ kind \in Instant => kind \in Still /\ K[run.op][n].do # "awaitGoneAgain"
<1>1. kind \in Kinds /\ run.op \in Ops BY RunTyped DEF TypeOK
<1>2. K[run.op][n] \in AllSteps(kind) BY <1>1 DEF AllSteps, K
<1> QED BY <1>2 DEF Still, Instant

\* What a request makes of an object is an object.
LEMMA ServedTyped ==
    ASSUME TypeInv, run # None, run.pc \in DOMAIN K[run.op], Do \in Sends, run.id \in Live
    PROVE  Served \in Objects[kind]
<1>1. TypeOK /\ world[run.id].v \in SUBSET Fields BY LiveTyped DEF TypeInv, TypePart
<1>2. config \subseteq Fields
  BY <1>1, StepPlaces DEF TypeInv, TypePart, TypeOK, RunInv, Do
<1>3. Of \subseteq Fields /\ Also \subseteq Fields BY <1>1, StepTyped
<1>4. Sent(world[run.id].v) \in SUBSET Fields BY <1>1, <1>2, <1>3 DEF Sent, Merge, Changed
<1> QED BY <1>1, <1>4, ObjectTyped DEF Served, Object

LEMMA HandleWorld == ASSUME TypeInv, WorldInv, Handle PROVE WorldInv'
<1>1. TypeOK /\ run # None /\ run.pc \in DOMAIN K[run.op] /\ UNCHANGED plans
  BY DEF TypeInv, TypePart, Handle, Refused, Asked, PostDone, PostTaken, RecordCreated,
     SendSkipped, SendDone, SendRejected, Cleared, Awaited, AwaitedBriefly, BackRead,
     Refreshed, Destroyed, GoneAwaited, At
<1>2. kind' = kind /\ kind \in Kinds BY <1>1 DEF plans, TypeOK
<1>3. CASE UNCHANGED world BY <1>2, <1>3, SameFine
<1>4. CASE PostDone
  <2> PICK i \in Free : Make(i) BY <1>4 DEF PostDone
  <2> DEFINE o == Object(IF Has("built") THEN "building" ELSE "up", config \cap Of)
  <2>1. i \in Ids /\ Alters(i, o) BY DEF Free, Make, Alters
  <2>2. run.op = "create" BY <1>4, AtPost DEF PostDone
  <2>3. config \cap Of \in SUBSET Fields BY <1>1, <2>2 DEF TypeInv, TypePart, TypeOK, RunInv
  <2>4. o \in Objects[kind] BY <1>1, <2>3, ObjectTyped DEF Object
  <2>5. kind \in Still => ~Has("built") BY <1>2 DEF Still, Has, K
  <2>6. Instant \subseteq Still BY DEF Instant
  <2>7. Fine(o) BY <2>5, <2>6 DEF Fine, Object
  <2> HIDE DEF o
  <2> QED BY <1>1, <1>2, <2>1, <2>4, <2>7, AlteredFine
<1>5. CASE PostTaken /\ ~UNCHANGED world
  <2> PICK i \in Live :
        world' = [world EXCEPT
            ![i] = IF Is("put") THEN Object("up", Merge(@.v, Of, config)) ELSE @]
    BY <1>5 DEF PostTaken, cloud
  <2>1. world[i] \in Objects[kind] /\ i \in Ids /\ world[i].v \subseteq Fields
    BY <1>1, LiveTyped
  <2>2. Is("put") BY <1>1, <1>5 DEF TypeOK
  <2> DEFINE o == Object("up", Merge(world[i].v, Of, config))
  <2>3. Alters(i, o) BY <2>2 DEF Alters
  <2>4. run.op = "create" BY <1>5, AtPost DEF PostTaken
  <2>5. Merge(world[i].v, Of, config) \in SUBSET Fields
    BY <1>1, <2>1, <2>4 DEF TypeInv, TypePart, TypeOK, RunInv, Merge
  <2>6. o \in Objects[kind] BY <1>1, <2>5, ObjectTyped DEF Object
  <2>7. Fine(o) BY DEF Fine, Object
  <2> HIDE DEF o
  <2> QED BY <1>1, <1>2, <2>1, <2>3, <2>6, <2>7, AlteredFine
<1>6. CASE SendDone
  <2>1. run.id \in Live /\ At(Sends) BY <1>6 DEF SendDone, Sendable, IsUp
  <2>2. run.id \in Ids /\ Alters(run.id, Served)
    BY <1>1, <1>6, <2>1, LiveTyped DEF SendDone, Served, Alters, At, Do
  <2>3. Served \in Objects[kind] BY <1>1, <2>1, ServedTyped DEF At, Do
  <2>4. Fine(Served) BY <1>1, StillSteps DEF Fine, Served, Object, Do
  <2> QED BY <1>1, <1>2, <2>2, <2>3, <2>4, AlteredFine
<1>7. CASE Cleared /\ ~UNCHANGED world
  <2>1. /\ run.id \in Live
        /\ world' = [world EXCEPT ![run.id].v = @ \ Of, ![run.id].next = @ \ Of]
    BY <1>7 DEF Cleared
  <2>2. world[run.id] \in Objects[kind] /\ run.id \in Ids BY <1>1, <2>1, LiveTyped
  <2> DEFINE o == [[world[run.id] EXCEPT !.v = @ \ Of] EXCEPT !.next = @ \ Of]
  <2>3. o \in Objects[kind] BY <1>2, <2>2 DEF Objects
  <2>4. /\ o.st = world[run.id].st /\ o.v = world[run.id].v \ Of
        /\ o.next = world[run.id].next \ Of
    BY <1>2, <2>2 DEF Objects
  <2>5. Alters(run.id, o) BY <1>1, <2>1, <2>2 DEF Alters, TypeOK
  <2>6. Fine(o) BY <2>1, <2>4 DEF Fine, WorldInv
  <2> HIDE DEF o
  <2> QED BY <1>1, <1>2, <2>2, <2>3, <2>5, <2>6, AlteredFine
<1>8. CASE Destroyed /\ ~UNCHANGED world
  <2>1. /\ run.id \in Live
        /\ world' = [world EXCEPT
              ![run.id] = IF Has("lingers") THEN [@ EXCEPT !.st = "deleting"] ELSE None]
    BY <1>8 DEF Destroyed
  <2>2. world[run.id] \in Objects[kind] /\ run.id \in Ids BY <1>1, <2>1, LiveTyped
  <2>3. CASE Has("lingers")
    <3> DEFINE o == [world[run.id] EXCEPT !.st = "deleting"]
    <3>1. o \in Objects[kind] /\ o.st = "deleting" BY <1>2, <2>2 DEF Objects
    <3>2. Alters(run.id, o) BY <2>1, <2>3 DEF Alters
    <3>3. kind \notin Instant BY <2>3 DEF Instant, Has, K
    <3>4. Fine(o) BY <3>1, <3>3 DEF Fine
    <3> HIDE DEF o
    <3> QED BY <1>1, <1>2, <2>2, <3>1, <3>2, <3>4, AlteredFine
  <2>4. CASE ~Has("lingers")
    <3>1. world' = [world EXCEPT ![run.id] = None] BY <2>1, <2>4
    <3> QED BY <1>1, <1>2, <2>2, <3>1, RemovedFine
  <2> QED BY <2>3, <2>4
<1>9. CASE GoneAwaited /\ ~UNCHANGED world
  <2>1. /\ run.id \in Live /\ Is("awaitGoneAgain")
        /\ world' = [world EXCEPT ![run.id].st = "deleting"]
    BY <1>9 DEF GoneAwaited
  <2>2. world[run.id] \in Objects[kind] /\ run.id \in Ids BY <1>1, <2>1, LiveTyped
  <2> DEFINE o == [world[run.id] EXCEPT !.st = "deleting"]
  <2>3. o \in Objects[kind] /\ o.st = "deleting" BY <1>2, <2>2 DEF Objects
  <2>4. Alters(run.id, o) BY <2>1 DEF Alters
  <2>5. kind \notin Instant BY <1>1, <2>1, StillSteps DEF Is
  <2>6. Fine(o) BY <2>3, <2>5 DEF Fine
  <2> HIDE DEF o
  <2> QED BY <1>1, <1>2, <2>2, <2>3, <2>4, <2>6, AlteredFine
<1> QED BY <1>3, <1>4, <1>5, <1>6, <1>7, <1>8, <1>9
        DEF Handle, Refused, Asked, RecordCreated, SendSkipped, SendRejected, Awaited,
            AwaitedBriefly, BackRead, Refreshed, cloud

\* What the service, and others, make of an object.
Worked(i) ==
    \/ world[i].st = "building" /\ Alters(i, Object("up", world[i].next))
    \/ world[i].st = "deleting" /\ world' = [world EXCEPT ![i] = None]
Failed(i) ==
    \/ /\ world[i].st \in {"building", "deleting"}
       /\ Alters(i, Object("failed", world[i].v))
    \/ /\ Has("reverts") /\ world[i].st = "building"
       /\ Alters(i, Object("up", world[i].v))

LEMMA ServiceDoes ==
    ASSUME NEW i \in Ids, ServiceWorks(i) \/ ServiceFails(i)
    PROVE  /\ i \in Live /\ UNCHANGED <<plans, row, run>> /\ refreshed' # "yes"
           /\ Worked(i) \/ Failed(i)
BY DEF ServiceWorks, ServiceFails, Worked, Failed, Alters, Stale

LEMMA ServiceWorld ==
    ASSUME TypeInv, WorldInv, NEW i \in Live, UNCHANGED plans, Worked(i) \/ Failed(i)
    PROVE  WorldInv'
<1>1. /\ TypeOK /\ kind' = kind /\ i \in Ids
      /\ world[i].v \in SUBSET Fields /\ world[i].next \in SUBSET Fields
  BY LiveTyped DEF TypeInv, TypePart, plans
<1>2. CASE world' = [world EXCEPT ![i] = None] BY <1>1, <1>2, RemovedFine
<1>3. ASSUME NEW st \in {"up", "failed"}, NEW v \in SUBSET Fields,
             kind \in Instant => st = "up",
             Alters(i, Object(st, v))
      PROVE  WorldInv'
  <2>1. Object(st, v) \in Objects[kind] BY <1>1, ObjectTyped DEF Object
  <2>2. Fine(Object(st, v)) BY <1>3 DEF Fine, Object
  <2> QED BY <1>1, <1>3, <2>1, <2>2, AlteredFine
<1>4. world[i].st \in {"building", "deleting"} => kind \notin Instant BY DEF WorldInv
<1> QED BY <1>1, <1>2, <1>3, <1>4 DEF Worked, Failed

LEMMA OutsideWorld ==
    ASSUME TypeInv, WorldInv, NEW i \in Ids, OutsideDeletes(i) \/ OutsideChanges(i)
    PROVE  WorldInv'
<1>1. TypeOK /\ kind' = kind /\ kind \in Kinds
  BY DEF TypeInv, TypePart, TypeOK, OutsideDeletes, OutsideChanges, plans
<1>2. CASE OutsideDeletes(i) BY <1>1, <1>2, RemovedFine DEF OutsideDeletes
<1>3. CASE OutsideChanges(i)
  <2> PICK f \in Seen \ K.replace :
        world' = [world EXCEPT
            ![i] = Object("up", IF f \in @.v THEN @.v \ {f} ELSE @.v \cup {f})]
    BY <1>3 DEF OutsideChanges
  <2> DEFINE v == IF f \in world[i].v THEN world[i].v \ {f} ELSE world[i].v \cup {f}
  <2>1. i \in Live BY <1>3 DEF OutsideChanges, IsUp
  <2>2. f \in Fields
    <3>1. PICK n \in DOMAIN K["read"] : f \in K["read"][n].of BY DEF Seen
    <3>2. K["read"] \in Seq(StepsOf(kind, "read")) BY <1>1, HandlersAssumption DEF Ops, K
    <3>3. K["read"][n] \in StepsOf(kind, "read") BY <3>1, <3>2
    <3> QED BY <3>1, <3>3 DEF StepsOf, Fields, K
  <2>3. v \in SUBSET Fields BY <1>1, <2>1, <2>2, LiveTyped
  <2>4. Alters(i, Object("up", v)) BY DEF Alters
  <2> HIDE DEF v
  <2>5. Object("up", v) \in Objects[kind] BY <1>1, <2>3, ObjectTyped DEF Object
  <2>6. Fine(Object("up", v)) BY DEF Fine, Object
  <2> QED BY <1>1, <2>1, <2>4, <2>5, <2>6, AlteredFine
<1> QED BY <1>2, <1>3

LEMMA NextWorld == ASSUME TypeInv, WorldInv, Next PROVE WorldInv'
<1>1. CASE Start BY <1>1, SameFine DEF Start, cloud, plans
<1>2. CASE Finish BY <1>2, SameFine DEF Finish, cloud, plans
<1>3. CASE Handle BY <1>3, HandleWorld
<1>4. CASE Edit BY <1>4, SameFine DEF Edit, cloud
<1>5. CASE Import BY <1>5, SameFine DEF Import, plans
<1>6. ASSUME NEW i \in Ids, ServiceWorks(i) \/ ServiceFails(i) PROVE WorldInv'
  BY <1>6, ServiceDoes, ServiceWorld
<1>7. ASSUME NEW i \in Ids, OutsideDeletes(i) \/ OutsideChanges(i) PROVE WorldInv'
  BY <1>7, OutsideWorld
<1> QED BY <1>1, <1>2, <1>3, <1>4, <1>5, <1>6, <1>7 DEF Next, Terraform

-----------------------------------------------------------------------------
(* What has been sent.                                                     *)

\* A Create that has an answer, or an Update.
Sending == run # None /\ (run.op = "update" \/ (run.op = "create" /\ run.pc > P))

\* A step is one kind of step.
LEMMA DoKinds ==
    /\ Awaits \cap (Sends \cup Posts \cup ReadBacks) = {}
    /\ Orders \subseteq Sends /\ Sends \cap ReadBacks = {} /\ Posts \cap Sends = {}
    /\ Orders \cap {"send", "sendAll", "drop", "add"} = {}
    /\ {"send", "sendAll", "drop", "add"} \subseteq Sends
BY DEF Awaits, Sends, Orders, Posts, ReadBacks

LEMMA BringsSends ==
    ASSUME NEW s, NEW f, Brings(s, f)
    PROVE  s.do \in Sends \cup (Posts \ {"postOrAdopt"})
BY DoKinds DEF Brings

\* What is pending is an order, and its wait is the next step.
LEMMA PendingTyped ==
    ASSUME TypeOK, run # None
    PROVE  Pending => /\ run.pc \in DOMAIN K[run.op] /\ Do \in Awaits
                      /\ run.pc - 1 \in DOMAIN K[run.op] /\ kind \notin Still
<1> SUFFICES ASSUME Pending
             PROVE  /\ run.pc \in DOMAIN K[run.op] /\ Do \in Awaits
                    /\ run.pc - 1 \in DOMAIN K[run.op] /\ kind \notin Still
  OBVIOUS
<1> DEFINE n == run.pc - 1
<1>1. n \in DOMAIN K[run.op] /\ K[run.op][n].do \in Orders BY DEF Pending
<1>2. kind \in Kinds /\ run.op \in Ops /\ run.pc = n + 1 BY RunTyped DEF TypeOK
<1>3. n + 1 \in DOMAIN K[run.op] /\ K[run.op][n + 1].do \in Awaits
  BY <1>1, <1>2, HandlersAssumption, OrderAssumption DEF K
<1>4. kind \notin Still BY <1>1, StillSteps
<1> HIDE DEF n
<1>5. run.pc \in DOMAIN K[run.op] /\ Do \in Awaits BY <1>2, <1>3 DEF Do
<1> QED BY <1>1, <1>4, <1>5 DEF n

\* A wait that ends well finds the work done.
LEMMA PassedOrder ==
    ASSUME TypeOK, run # None, Passes, Pending
    PROVE  IsUp(run.id) /\ ~Differ(world[run.id].v, config, Of)
BY PendingTyped DEF Passes, AsOrdered

LEMMA SendsNow == ASSUME TypeOK, run # None, Do \in Sends \cup Posts PROVE ~Pending
BY PendingTyped, DoKinds

\* A kind that is updated has something to update.
LEMMA UpdatedKind ==
    ASSUME TypeOK, row # None, config # None, row.v # config, ~Differ(row.v, config, K.replace)
    PROVE  /\ kind \in Updatable /\ kind \in Kinds
           /\ row.v \subseteq Fields /\ config \subseteq Fields
           /\ \E f \in Fields \ K.replace : Differ(row.v, config, {f})
<1>1. kind \in Kinds /\ config \subseteq Fields /\ row \in Rows[kind] BY DEF TypeOK
<1>2. row.v \subseteq Fields BY <1>1 DEF Rows, Fields, K
<1>3. row.v # config /\ row.v \cap K.replace = config \cap K.replace BY DEF Differ
<1>4. PICK f \in Fields : ~(f \in row.v <=> f \in config) BY <1>1, <1>2, <1>3
<1>5. f \notin K.replace BY <1>3, <1>4
<1>6. Differ(row.v, config, {f}) BY <1>4 DEF Differ
<1>7. f \in Kind[kind].fields \ Kind[kind].replace BY <1>4, <1>5 DEF Fields, K
<1> QED BY <1>1, <1>2, <1>4, <1>5, <1>6, <1>7 DEF Updatable

LEMMA PlannedKind ==
    ASSUME TypeInv, Planned, run # None, run.op = "update"
    PROVE  /\ kind \in Updatable /\ kind \in Kinds
           /\ row.v \subseteq Fields /\ config \subseteq Fields
           /\ \E f \in Fields \ K.replace : Differ(row.v, config, {f})
BY UpdatedKind DEF TypeInv, TypePart, RunInv, Planned

LEMMA ChangedIs ==
    ASSUME NEW of, NEW f
    PROVE  f \in Changed(of) <=> f \in of /\ ~(f \in row.v <=> f \in config)
BY DEF Changed, Differ

LEMMA SameAgrees ==
    ASSUME NEW a, NEW of, ~Differ(a, config, of), NEW f \in of PROVE Agree(a, f)
BY DEF Differ, Agree

\* What a step must see to, for what has been sent to stay so.
LEMMA SentNext ==
    ASSUME TypeOK, run # None, run' # None, run.op \in {"create", "update"},
           kind' = kind, config' = config, run'.op = run.op,
           run.op = "update" => row' = row,
           \A f \in Tracked : \A n \in DOMAIN K[run.op] :
               /\ n < run'.pc /\ ~(Pending' /\ n = run'.pc - 1)
               /\ Brings(K[run.op][n], f) /\ run'.id \in Live'
               => Agree(world'[run'.id].v, f) /\ Agree(world'[run'.id].next, f),
           Pending' /\ kind \notin Reverts => \A f \in Tracked :
               /\ Brings(K[run.op][run'.pc - 1], f)
               /\ run'.id \in Live' /\ world'[run'.id].st \in {"building", "up"}
               => Agree(world'[run'.id].next, f)
    PROVE  SentInv'
<1>1. K' = K /\ kind \in Kinds BY DEF K, TypeOK
<1>2. Tracked' = Tracked
  BY <1>1 DEF Tracked, Fields, Seen, Changed, Differ
<1>3. ASSUME NEW n \in DOMAIN K[run.op], NEW f, Brings(K[run.op][n], f)'
      PROVE  Brings(K[run.op][n], f)
  <2>1. CASE run.op = "create"
    <3>1. K[run.op][n].do \notin {"drop", "add"} BY <1>1, <2>1, CreateAssumption DEF K
    <3> QED BY <1>1, <1>3, <2>1, <3>1 DEF Brings
  <2>2. CASE run.op = "update" BY <1>1, <1>3, <2>2 DEF Brings
  <2> QED BY <2>1, <2>2
<1>4. \A f \in Tracked' : \A n \in DOMAIN K'[run'.op] :
          Over(n)' /\ Brings(K[run.op][n], f)' => Settled(f)'
  <2> SUFFICES ASSUME NEW f \in Tracked, NEW n \in DOMAIN K[run.op],
                      Over(n)', Brings(K[run.op][n], f)', run'.id \in Live'
               PROVE  /\ (f \in world'[run'.id].v <=> f \in config')
                      /\ (f \in world'[run'.id].next <=> f \in config')
    BY <1>1, <1>2 DEF Settled, Agree
  <2>1. Brings(K[run.op][n], f) BY <1>3
  <2>2. n < run'.pc /\ ~(Pending' /\ n = run'.pc - 1) BY DEF Over
  <2> QED BY <2>1, <2>2 DEF Agree
<1>5. Pending' /\ kind' \notin Reverts => \A f \in Tracked' :
          /\ Brings(K[run.op][run.pc - 1], f)'
          /\ run'.id \in Live' /\ world'[run'.id].st \in {"building", "up"}
          => Agree(world[run.id].next, f)'
  <2> SUFFICES ASSUME Pending', kind \notin Reverts, NEW f \in Tracked,
                      Brings(K[run.op][run.pc - 1], f)',
                      run'.id \in Live', world'[run'.id].st \in {"building", "up"}
               PROVE  f \in world'[run'.id].next <=> f \in config'
    BY <1>2 DEF Agree
  <2> DEFINE n == run'.pc - 1
  <2>1. n \in DOMAIN K[run.op] BY <1>1 DEF Pending
  <2>2. Brings(K[run.op][n], f) BY <1>1, <1>3, <2>1
  <2> QED BY <2>2 DEF Agree
<1> QED BY <1>4, <1>5 DEF SentInv

\* A request leaves a field as it is, or as it is configured.
LEMMA SentEither ==
    ASSUME NEW now, NEW f
    PROVE  (f \in Sent(now) <=> f \in now) \/ Agree(Sent(now), f)
BY DEF Sent, Merge, Agree

\* A request sets what it brings.
LEMMA SentBrings ==
    ASSUME TypeOK, run # None, run.pc \in DOMAIN K[run.op], run.op \in {"create", "update"},
           Do \in Sends, NEW now, NEW f \in Tracked, Brings(K[run.op][run.pc], f)
    PROVE  Agree(Sent(now), f)
<1>1. run.op = "create" => Do \notin {"drop", "add"}
  BY CreateAssumption DEF TypeOK, K, Do
<1>2. run.op = "update" => f \in Changed(Fields) BY DEF Tracked
<1>3. run.op = "update" => ~(f \in row.v <=> f \in config) BY <1>2, ChangedIs
<1>4. \A step : Is(step) <=> Do = step BY DEF Is, Do
<1>5. Do \notin Posts BY DoKinds
<1>6. \/ Do \in {"send", "sendAll"} \cup Orders /\ f \in Of
      \/ Do = "sendAll" /\ f \in Also /\ run.op = "update"
      \/ Do = "drop" /\ f \in Of /\ f \in row.v
      \/ Do = "add" /\ f \in Of /\ f \in config
  BY <1>5 DEF Brings, Do, Of, Also
<1>7. CASE Do = "drop"
  <2>1. f \in Of /\ f \in row.v /\ f \notin config BY <1>1, <1>3, <1>6, <1>7, DoKinds
  <2>2. Sent(now) = now \ ((row.v \ config) \cap Of) BY <1>4, <1>7 DEF Sent
  <2> QED BY <2>1, <2>2 DEF Agree
<1>8. CASE Do = "add"
  <2>1. f \in Of /\ f \in config BY <1>6, <1>8, DoKinds
  <2>2. Sent(now) = now \cup (config \cap Of) BY <1>4, <1>8 DEF Sent
  <2> QED BY <2>1, <2>2 DEF Agree
<1>9. CASE Do = "send" /\ run.op = "update"
  <2>1. f \in Of BY <1>6, <1>9, DoKinds
  <2>2. f \in Changed(Of) BY <1>3, <1>9, <2>1, ChangedIs
  <2>3. Sent(now) = Merge(now, Changed(Of), config) BY <1>4, <1>9 DEF Sent
  <2> QED BY <2>2, <2>3 DEF Agree, Merge
<1>10. CASE Do \notin {"drop", "add"} /\ ~(Do = "send" /\ run.op = "update")
  <2>1. f \in Of \/ (f \in Also /\ run.op = "update") BY <1>6, <1>10
  <2>2. f \in Of \cup Changed(Also) BY <1>3, <2>1, ChangedIs
  <2>3. Sent(now) = Merge(now, Of \cup Changed(Also), config) BY <1>4, <1>10 DEF Sent
  <2> QED BY <2>2, <2>3 DEF Agree, Merge
<1> QED BY <1>7, <1>8, <1>9, <1>10

\* What is tracked and brought by a step that is not needed is as configured.
LEMMA NeedlessBrings ==
    ASSUME TypeOK, run # None, run.pc \in DOMAIN K[run.op], run.op = "update",
           Do \in Sends, Needless, NEW f \in Tracked, Brings(K[run.op][run.pc], f)
    PROVE  run.id \notin Live
<1>1. f \in Changed(Fields) /\ (kind \in Still \/ f \notin Seen) BY DEF Tracked
<1>2. ~(f \in row.v <=> f \in config) BY <1>1, ChangedIs
<1>3. \A step : Is(step) <=> Do = step BY DEF Is, Do
<1>4. Do \notin Posts BY DoKinds
<1>5. \/ Do \in {"send", "sendAll"} \cup Orders /\ f \in Of
      \/ Do = "sendAll" /\ f \in Also
      \/ Do = "drop" /\ f \in Of /\ f \in row.v
      \/ Do = "add" /\ f \in Of /\ f \in config
  BY <1>4 DEF Brings, Do, Of, Also
<1>6. Do # "sendAll" BY <1>3 DEF Needless
<1>7. CASE Do = "drop"
  <2>1. row.v \cap Of \subseteq config \/ run.id \notin Live BY <1>3, <1>7 DEF Needless
  <2> QED BY <1>2, <1>5, <1>7, <2>1, DoKinds
<1>8. CASE Do = "add"
  <2>1. config \cap Of \subseteq row.v BY <1>3, <1>8 DEF Needless
  <2> QED BY <1>2, <1>5, <1>8, <2>1, DoKinds
<1>9. CASE Do \notin {"drop", "add"}
  <2>1. f \in Of BY <1>5, <1>6, <1>9
  <2>2. Differ(row.v, config, Of) BY <1>2, <2>1 DEF Differ
  <2>3. Do = "sendWorkIfUnlike" BY <1>3, <1>6, <1>9, <2>2 DEF Needless
  <2>4. Do \in Orders BY <2>3 DEF Orders
  <2>5. Of \subseteq Seen
    BY <2>3, OrderAssumption DEF TypeOK, K, Do, Of, Seen, SeenBy
  <2> QED BY <1>1, <2>1, <2>4, <2>5, StillSteps DEF Do
<1> QED BY <1>7, <1>8, <1>9

LEMMA PassesSent ==
    ASSUME TypeOK, WorldInv, Sending, SentInv, Passes
    PROVE  SentInv' /\ ~Pending'
<1>1. /\ run # None /\ run' # None /\ run.pc \in DOMAIN K[run.op] /\ kind \in Kinds
      /\ run'.op = run.op /\ run'.id = run.id /\ run'.pc = run.pc + 1
      /\ UNCHANGED <<kind, config, world>> /\ Do \notin Sends \cup Posts
      /\ run.op = "update" => row' = row
  BY DEF Passes, Onward, TypeOK
<1>2. run.op \in {"create", "update"} BY DEF Sending
<1>3. K' = K /\ Live' = Live /\ run.pc \in Nat BY <1>1, RunTyped DEF K, Live
<1>4. run'.pc - 1 = run.pc BY <1>1, <1>3
<1>5. ~Pending' BY <1>1, <1>3, <1>4, DoKinds DEF Pending, Do
<1>6. ASSUME NEW f \in Tracked, NEW n \in DOMAIN K[run.op], n < run'.pc,
             Brings(K[run.op][n], f), run.id \in Live
      PROVE  Agree(world[run.id].v, f) /\ Agree(world[run.id].next, f)
  <2>1. n # run.pc BY <1>1, <1>6, BringsSends DEF Do
  <2>2. n \in Nat BY <1>1, RunTyped
  <2>3. n < run.pc BY <1>1, <1>3, <1>6, <2>1, <2>2
  <2>4. CASE ~(Pending /\ n = run.pc - 1)
    <3>1. Settled(f) BY <1>6, <2>3, <2>4 DEF Over, SentInv
    <3> QED BY <1>6, <3>1 DEF Settled
  <2>5. CASE Pending /\ n = run.pc - 1
    <3>1. IsUp(run.id) /\ ~Differ(world[run.id].v, config, Of) /\ Do \in Awaits
      BY <1>1, <2>5, PassedOrder, PendingTyped
    <3>2. world[run.id].next = world[run.id].v /\ world[run.id].st = "up"
      BY <3>1 DEF WorldInv, IsUp
    <3>3. CASE kind \notin Reverts
      <4>1. Agree(world[run.id].next, f) BY <1>6, <2>5, <3>2, <3>3 DEF SentInv
      <4> QED BY <3>2, <4>1
    <3>4. CASE kind \in Reverts
      <4>1. K[run.op][n].do \in Orders BY <2>5 DEF Pending
      <4>2. f \in K[run.op][n].of
        BY <1>6, <4>1, DoKinds DEF Brings
      <4>3. CASE run.op = "create"
        <5>1. n + 1 = run.pc BY <1>3, <2>2, <2>5
        <5>2. K["create"][n].of \subseteq K["create"][n + 1].of
          BY <1>1, <1>6, <3>4, <4>1, <4>3, OrderAssumption DEF K
        <5>3. f \in Of BY <4>2, <4>3, <5>1, <5>2 DEF Of
        <5>4. Agree(world[run.id].v, f) BY <3>1, <5>3, SameAgrees
        <5> QED BY <3>2, <5>4
      <4>4. CASE run.op = "update"
        <5>1. K["update"][n].of \subseteq Seen
          BY <1>1, <1>6, <3>4, <4>1, <4>4, OrderAssumption DEF K, Seen, SeenBy
        <5>2. kind \in Still BY <4>2, <4>4, <5>1 DEF Tracked
        <5> QED BY <1>1, <2>5, <5>2, PendingTyped
      <4> QED BY <1>2, <4>3, <4>4
    <3> QED BY <3>3, <3>4
  <2> QED BY <2>4, <2>5
<1>7. \A f \in Tracked : \A n \in DOMAIN K[run.op] :
        n < run'.pc /\ Brings(K[run.op][n], f) /\ run'.id \in Live'
        => Agree(world'[run'.id].v, f) /\ Agree(world'[run'.id].next, f)
  BY <1>1, <1>3, <1>6
<1> QED BY <1>1, <1>2, <1>5, <1>7, SentNext

LEMMA SkipsSent ==
    ASSUME TypeOK, Sending, SentInv, Skips,
           run.op = "create" /\ run.id \in Live => world[run.id].next = world[run.id].v
    PROVE  SentInv' /\ ~Pending' /\ ~Pending
<1> DEFINE s == IF Do \in Orders THEN 2 ELSE 1
<1>1. /\ run # None /\ run' # None /\ run.pc \in DOMAIN K[run.op] /\ kind \in Kinds
      /\ run'.op = run.op /\ run'.id = run.id /\ run'.pc = run.pc + s
      /\ UNCHANGED <<kind, config, world, row>> /\ Do \in Sends /\ Needless
  BY DEF Skips, Onward, TypeOK
<1>2. run.op \in {"create", "update"} BY DEF Sending
<1>3. K' = K /\ Live' = Live /\ run.pc \in Nat BY <1>1, RunTyped DEF K, Live
<1>4. ~Pending BY <1>1, SendsNow
<1>5. Do \in Orders => run.pc + 1 \in DOMAIN K[run.op] /\ K[run.op][run.pc + 1].do \in Awaits
  BY <1>1, <1>2, HandlersAssumption, OrderAssumption DEF K, Do, Ops
<1>6. ~Pending'
  <2>1. Do \in Orders => run'.pc - 1 = run.pc + 1 BY <1>1, <1>3
  <2>2. Do \notin Orders => run'.pc - 1 = run.pc BY <1>1, <1>3
  <2> QED BY <1>1, <1>3, <1>5, <2>1, <2>2, DoKinds DEF Pending, Do
<1>7. ASSUME NEW f \in Tracked, NEW n \in DOMAIN K[run.op], n < run'.pc,
             Brings(K[run.op][n], f), run.id \in Live
      PROVE  Agree(world[run.id].v, f) /\ Agree(world[run.id].next, f)
  <2>1. n \in Nat BY <1>1, RunTyped
  <2>2. n < run.pc \/ n = run.pc \/ (Do \in Orders /\ n = run.pc + 1)
    BY <1>1, <1>3, <1>7, <2>1
  <2>3. ~(Do \in Orders /\ n = run.pc + 1) BY <1>5, <1>7, BringsSends, DoKinds
  <2>4. CASE n < run.pc
    <3>1. Settled(f) BY <1>4, <1>7, <2>4 DEF Over, SentInv
    <3> QED BY <1>7, <3>1 DEF Settled
  <2>5. CASE n = run.pc
    <3>1. CASE run.op = "update" BY <1>1, <1>7, <2>5, <3>1, NeedlessBrings
    <3>2. CASE run.op = "create"
      <4>0. Is("send") /\ ~Differ(Made(run.id), config, Of) BY <1>1, <3>2 DEF Needless
      <4>1. Do = "send" /\ ~Differ(Made(run.id), config, Of) BY <4>0 DEF Is, Do
      <4>2. f \in Of BY <1>7, <2>5, <4>1, DoKinds DEF Brings, Do, Of
      <4>3. Made(run.id) = world[run.id].v BY <1>7 DEF Made
      <4>4. Agree(world[run.id].v, f) BY <4>1, <4>2, <4>3, SameAgrees
      <4> QED BY <1>7, <3>2, <4>4
    <3> QED BY <1>2, <3>1, <3>2
  <2> QED BY <2>2, <2>3, <2>4, <2>5
<1> HIDE DEF s
<1>8. \A f \in Tracked : \A n \in DOMAIN K[run.op] :
        n < run'.pc /\ Brings(K[run.op][n], f) /\ run'.id \in Live'
        => Agree(world'[run'.id].v, f) /\ Agree(world'[run'.id].next, f)
  BY <1>1, <1>3, <1>7
<1> QED BY <1>1, <1>2, <1>4, <1>6, <1>8, SentNext

\* What the object is after a request.
LEMMA Carried ==
    ASSUME TypeInv, WorldInv, Carries
    PROVE  /\ run.id \in Live' /\ run.id \in Live
           /\ world[run.id].next = world[run.id].v
           /\ world'[run.id].next = Sent(world[run.id].v)
           /\ Do \in Orders => world'[run.id].v = world[run.id].v
           /\ Do \notin Orders => /\ world'[run.id].v = Sent(world[run.id].v)
                                  /\ world'[run.id].st = "up"
<1>1. /\ run # None /\ run.pc \in DOMAIN K[run.op] /\ run.id \in Live
      /\ world[run.id].st = "up" /\ Alters(run.id, Served) /\ kind' = kind
  BY DEF Carries, Onward, IsUp
<1>2. run.id \in Ids /\ world[run.id].v \in SUBSET Fields
  BY <1>1, LiveTyped DEF TypeInv, TypePart
<1>3. world' = [world EXCEPT ![run.id] = Served] BY <1>1 DEF Alters
<1>4. world'[run.id] = Served BY <1>2, <1>3 DEF TypeInv, TypePart, TypeOK
<1>5. /\ Served.next = Sent(world[run.id].v)
      /\ Do \in Orders => Served.v = world[run.id].v
      /\ Do \notin Orders => Served.v = Sent(world[run.id].v) /\ Served.st = "up"
  BY DEF Served, Object
<1>6. kind \in Kinds /\ Do \in Sends BY DEF TypeInv, TypePart, TypeOK, Carries
<1>7. Served # None BY <1>1, <1>6, ServedTyped, NoneAssumption DEF TypeInv, TypePart
<1>8. run.id \in Live' BY <1>2, <1>4, <1>7 DEF Live
<1> QED BY <1>1, <1>4, <1>5, <1>8 DEF WorldInv

LEMMA CarriesSent ==
    ASSUME TypeInv, WorldInv, Sending, SentInv, Carries
    PROVE  SentInv' /\ (Pending' <=> Do \in Orders) /\ ~Pending
<1>1. /\ run # None /\ run' # None /\ run.pc \in DOMAIN K[run.op] /\ kind \in Kinds /\ TypeOK
      /\ run'.op = run.op /\ run'.id = run.id /\ run'.pc = run.pc + 1
      /\ UNCHANGED <<kind, config, row>> /\ Do \in Sends
  BY DEF Carries, Onward, TypeInv, TypePart, TypeOK
<1>2. run.op \in {"create", "update"} BY DEF Sending
<1>3. K' = K /\ run.pc \in Nat BY <1>1, RunTyped DEF K
<1>4. run'.pc - 1 = run.pc BY <1>1, <1>3
<1>5. ~Pending BY <1>1, SendsNow
<1>6. Pending' <=> Do \in Orders BY <1>1, <1>3, <1>4 DEF Pending, Do
<1> DEFINE now == world[run.id].v
<1>7. /\ run.id \in Live' /\ run.id \in Live
      /\ world[run.id].next = now /\ world'[run.id].next = Sent(now)
      /\ Do \in Orders => world'[run.id].v = now
      /\ Do \notin Orders => world'[run.id].v = Sent(now)
  BY Carried
<1> HIDE DEF now
<1>8. ASSUME NEW f \in Tracked, NEW n \in DOMAIN K[run.op], n < run'.pc,
             ~(Pending' /\ n = run'.pc - 1), Brings(K[run.op][n], f)
      PROVE  Agree(world'[run.id].v, f) /\ Agree(world'[run.id].next, f)
  <2>1. n \in Nat BY <1>1, RunTyped
  <2>2. n < run.pc \/ (n = run.pc /\ Do \notin Orders) BY <1>1, <1>3, <1>4, <1>6, <1>8, <2>1
  <2>3. CASE n < run.pc
    <3>1. Settled(f) BY <1>5, <1>8, <2>3 DEF Over, SentInv
    <3>2. Agree(now, f) BY <1>7, <3>1 DEF Settled, now
    <3>3. Agree(Sent(now), f) BY <3>2, SentEither DEF Agree
    <3> QED BY <1>7, <3>2, <3>3
  <2>4. CASE n = run.pc /\ Do \notin Orders
    <3>1. Agree(Sent(now), f) BY <1>1, <1>2, <1>8, <2>4, SentBrings
    <3> QED BY <1>7, <2>4, <3>1
  <2> QED BY <2>2, <2>3, <2>4
<1>9. \A f \in Tracked : Brings(K[run.op][run.pc], f) => Agree(Sent(now), f)
  BY <1>1, <1>2, SentBrings
<1>10. \A f \in Tracked : \A n \in DOMAIN K[run.op] :
        /\ n < run'.pc /\ ~(Pending' /\ n = run'.pc - 1)
        /\ Brings(K[run.op][n], f) /\ run'.id \in Live'
        => Agree(world'[run'.id].v, f) /\ Agree(world'[run'.id].next, f)
  BY <1>1, <1>8
<1>11. \A f \in Tracked : Brings(K[run.op][run'.pc - 1], f) => Agree(world'[run'.id].next, f)
  BY <1>1, <1>4, <1>7, <1>9
<1>12. SentInv' BY <1>1, <1>2, <1>10, <1>11, SentNext
<1> QED BY <1>5, <1>6, <1>12

\* What the service does to the object that an operation is about.
LEMMA ServiceSent ==
    ASSUME TypeOK, Sending, SentInv, UNCHANGED <<plans, row, run>>,
           NEW i \in Live, Worked(i) \/ Failed(i)
    PROVE  SentInv' /\ Pending' = Pending
<1>1. /\ run # None /\ run' # None /\ kind' = kind /\ config' = config /\ row' = row
      /\ run' = run /\ run.op \in {"create", "update"} /\ kind \in Kinds /\ i \in Ids
  BY DEF plans, Sending, TypeOK, Live
<1>2. K' = K BY <1>1 DEF K
<1>3. Pending' = Pending BY <1>1, <1>2 DEF Pending
<1>4. run.id \in Live' => /\ run.id \in Live
                          /\ \/ world'[run.id] = world[run.id]
                             \/ /\ world'[run.id] = Object("up", world[run.id].next)
                                /\ world[run.id].st = "building"
                             \/ world'[run.id] = Object("failed", world[run.id].v)
                             \/ /\ world'[run.id] = Object("up", world[run.id].v)
                                /\ kind \in Reverts
  BY <1>1 DEF Worked, Failed, Alters, TypeOK, Live, Has, K, Reverts
<1>5. ASSUME NEW f \in Tracked, NEW n \in DOMAIN K[run.op], n < run.pc,
             ~(Pending /\ n = run.pc - 1), Brings(K[run.op][n], f), run.id \in Live'
      PROVE  Agree(world'[run.id].v, f) /\ Agree(world'[run.id].next, f)
  <2>1. Settled(f) BY <1>5 DEF Over, SentInv
  <2>2. Agree(world[run.id].v, f) /\ Agree(world[run.id].next, f)
    BY <1>4, <1>5, <2>1 DEF Settled
  <2> QED BY <1>4, <1>5, <2>2 DEF Object
<1>6. ASSUME Pending, kind \notin Reverts, NEW f \in Tracked,
             Brings(K[run.op][run.pc - 1], f),
             run.id \in Live', world'[run.id].st \in {"building", "up"}
      PROVE  Agree(world'[run.id].next, f)
  <2>1. \/ world'[run.id] = world[run.id]
        \/ /\ world'[run.id] = Object("up", world[run.id].next)
           /\ world[run.id].st = "building"
    BY <1>4, <1>6 DEF Object
  <2>2. world[run.id].st \in {"building", "up"} /\ world'[run.id].next = world[run.id].next
    BY <1>6, <2>1 DEF Object
  <2>3. run.id \in Live BY <1>4, <1>6
  <2> QED BY <1>6, <2>2, <2>3 DEF SentInv
<1>7. SentInv' BY <1>1, <1>3, <1>5, <1>6, SentNext
<1> QED BY <1>3, <1>7

-----------------------------------------------------------------------------
(* A Create on the way.                                                    *)

LEMMA PassesCreate ==
    ASSUME TypeInv, WorldInv, CreateInv, run.op = "create", run.pc > P, Passes
    PROVE  CreateInv'
<1>1. /\ run # None /\ run' # None /\ run.pc \in DOMAIN K.create /\ TypeOK
      /\ run'.op = run.op /\ run'.id = run.id /\ run'.pc = run.pc + 1
      /\ UNCHANGED <<kind, world>>
  BY DEF Passes, Onward, TypeInv, TypePart
<1>2. K' = K /\ Live' = Live /\ run.pc \in Nat /\ DOMAIN K.create = 1..Len(K.create)
  BY <1>1, RunTyped DEF K, Live
<1>3. SentInv' /\ ~Pending' BY <1>1, PassesSent DEF Sending, CreateInv
<1>4. Pending => IsUp(run.id) BY <1>1, PassedOrder
<1>5. run.id \in Live => world[run.id].next = world[run.id].v
  BY <1>4 DEF CreateInv, WorldInv, IsUp
<1> DEFINE more == IsUp(run.id) \/ \E n \in DOMAIN K.create :
                    n >= run.pc + 1 /\ K.create[n].do \in Awaits
<1>6. more
  <2>1. CASE IsUp(run.id) BY <2>1
  <2>2. ASSUME NEW n \in DOMAIN K.create, n >= run.pc, K.create[n].do \in Awaits PROVE more
    <3>1. CASE n = run.pc BY <1>1, <2>2, <3>1 DEF Passes, Do
    <3>2. CASE n # run.pc BY <1>2, <2>2, <3>2
    <3> QED BY <3>1, <3>2
  <2>3. ~(run.id = NoId /\ K.create[run.pc].do = "record") BY DEF Passes, Do
  <2> QED BY <2>1, <2>2, <2>3 DEF CreateInv
<1>7. IsUp(run.id)' \/ \E n \in DOMAIN K'.create : n >= run'.pc /\ K'.create[n].do \in Awaits
  BY <1>1, <1>2, <1>6 DEF IsUp
<1> QED BY <1>1, <1>2, <1>3, <1>5, <1>7 DEF CreateInv

LEMMA SkipsCreate ==
    ASSUME TypeInv, CreateInv, run.op = "create", run.pc > P, Skips
    PROVE  CreateInv'
<1>1. /\ run # None /\ run' # None /\ run.pc \in DOMAIN K.create /\ TypeOK
      /\ run'.op = run.op /\ run'.id = run.id
      /\ run'.pc = run.pc + IF Do \in Orders THEN 2 ELSE 1
      /\ UNCHANGED <<kind, world>> /\ Needless /\ Do \in Sends
  BY DEF Skips, Onward, TypeInv, TypePart
<1>2. Do = "send" BY <1>1 DEF Needless, Is, Do
<1>3. run'.pc = run.pc + 1 BY <1>1, <1>2, DoKinds
<1>4. K' = K /\ Live' = Live /\ run.pc \in Nat /\ DOMAIN K.create = 1..Len(K.create)
  BY <1>1, RunTyped DEF K, Live
<1>5. ~Pending BY <1>1, SendsNow
<1>6. run.id \in Live => world[run.id].next = world[run.id].v BY <1>5 DEF CreateInv
<1>7. SentInv' /\ ~Pending' BY <1>1, <1>6, SkipsSent DEF Sending, CreateInv
<1> DEFINE more == IsUp(run.id) \/ \E n \in DOMAIN K.create :
                    n >= run.pc + 1 /\ K.create[n].do \in Awaits
<1>8. more
  <2>1. ASSUME NEW n \in DOMAIN K.create, n >= run.pc, K.create[n].do \in Awaits PROVE more
    <3>1. n # run.pc BY <1>1, <2>1, DoKinds DEF Do
    <3> QED BY <1>4, <2>1, <3>1
  <2> QED BY <1>2, <2>1 DEF CreateInv, Do
<1>9. IsUp(run.id)' \/ \E n \in DOMAIN K'.create : n >= run'.pc /\ K'.create[n].do \in Awaits
  BY <1>1, <1>3, <1>4, <1>8 DEF IsUp
<1> QED BY <1>1, <1>4, <1>6, <1>7, <1>9 DEF CreateInv

LEMMA CarriesCreate ==
    ASSUME TypeInv, WorldInv, CreateInv, run.op = "create", run.pc > P, Carries
    PROVE  CreateInv'
<1>1. /\ run # None /\ run' # None /\ run.pc \in DOMAIN K.create /\ TypeOK
      /\ run'.op = run.op /\ run'.id = run.id /\ run'.pc = run.pc + 1
      /\ kind' = kind /\ kind \in Kinds
  BY DEF Carries, Onward, TypeInv, TypePart, TypeOK
<1>2. K' = K BY <1>1 DEF K
<1>3. SentInv' /\ (Pending' <=> Do \in Orders) BY <1>1, CarriesSent DEF Sending, CreateInv
<1>4. /\ run.id \in Live' /\ world'[run.id].next = Sent(world[run.id].v)
      /\ Do \notin Orders => /\ world'[run.id].v = Sent(world[run.id].v)
                             /\ world'[run.id].st = "up"
  BY Carried
<1>5. Do \in Orders => run.pc + 1 \in DOMAIN K.create /\ K.create[run.pc + 1].do \in Awaits
  BY <1>1, HandlersAssumption, OrderAssumption DEF K, Do, Ops
<1>6. run.pc + 1 >= run.pc + 1 BY <1>1, RunTyped
<1>7. IsUp(run.id)' \/ \E n \in DOMAIN K'.create : n >= run'.pc /\ K'.create[n].do \in Awaits
  BY <1>1, <1>2, <1>4, <1>5, <1>6 DEF IsUp
<1> QED BY <1>1, <1>2, <1>3, <1>4, <1>7 DEF CreateInv

\* The steps up to the POST bring nothing but what it brings itself.
LEMMA PostBrings ==
    ASSUME TypeOK, NEW n \in DOMAIN K.create, n < P + 1, NEW f, Brings(K.create[n], f)
    PROVE  n = P /\ K.create[P].do # "postOrAdopt" /\ f \in K.create[P].of
<1>1. kind \in Kinds BY DEF TypeOK
<1>2. K["create"] \in Seq(StepsOf(kind, "create")) BY <1>1, HandlersAssumption DEF Ops, K
<1>3. n \in Nat /\ P \in Nat BY <1>2, PostPlace
<1>4. n < P => K.create[n].do = "ask" BY <1>1, PostAssumption DEF P, K
<1>5. K.create[n].do # "ask" BY BringsSends DEF Sends, Orders, Posts
<1>6. n = P BY <1>3, <1>4, <1>5
<1>7. K.create[P].do \in Posts BY <1>1, PostAssumption DEF P, K
<1>8. K.create[P].do \notin Sends BY <1>7, DoKinds
<1> QED BY <1>6, <1>7, <1>8, DoKinds DEF Brings

LEMMA PostSent ==
    ASSUME TypeInv, NEW i, Posted(i), kind \in Kinds,
           i \in Live' =>
              /\ world'[i].next = world'[i].v
              /\ Do # "postOrAdopt" => \A f \in Of : Agree(world'[i].v, f)
    PROVE  SentInv' /\ ~Pending'
<1>1. /\ TypeOK /\ run # None /\ run' # None /\ run.pc \in DOMAIN K[run.op]
      /\ run.op = "create" /\ run.pc = P /\ UNCHANGED <<kind, config>>
      /\ run'.op = "create" /\ run'.pc = P + 1 /\ run'.id = i
  BY AtPost DEF Posted, At, TypeInv, TypePart
<1>2. K' = K /\ P \in Nat BY <1>1, PostPlace DEF K
<1>3. run'.pc - 1 = P BY <1>1, <1>2
<1>4. K.create[P].do \in Posts BY <1>1 DEF Posted, At
<1>5. ~Pending' BY <1>1, <1>2, <1>3, <1>4, DoKinds DEF Pending
<1>6. ASSUME NEW f, NEW n \in DOMAIN K.create, n < P + 1, Brings(K.create[n], f), i \in Live'
      PROVE  Agree(world'[i].v, f) /\ Agree(world'[i].next, f)
  <2>1. K.create[P].do # "postOrAdopt" /\ f \in K.create[P].of BY <1>1, <1>6, PostBrings
  <2>2. Do # "postOrAdopt" /\ f \in Of BY <1>1, <2>1 DEF Do, Of
  <2> QED BY <1>6, <2>2
<1>7. \A f \in Tracked : \A n \in DOMAIN K[run.op] :
        n < run'.pc /\ Brings(K[run.op][n], f) /\ run'.id \in Live'
        => Agree(world'[run'.id].v, f) /\ Agree(world'[run'.id].next, f)
  BY <1>1, <1>6
<1> QED BY <1>1, <1>5, <1>7, SentNext

LEMMA FoundsCreate ==
    ASSUME TypeInv, WorldInv, NEW i \in Ids, Founds(i)
    PROVE  CreateInv'
<1>1. /\ TypeOK /\ run # None /\ run' # None /\ run.pc \in DOMAIN K[run.op]
      /\ run.op = "create" /\ run.pc = P /\ UNCHANGED <<kind, config>> /\ kind \in Kinds
      /\ run'.op = "create" /\ run'.pc = P + 1 /\ run'.id = i
  BY AtPost DEF Founds, Posted, At, TypeInv, TypePart, TypeOK
<1>2. K' = K /\ P \in Nat /\ DOMAIN K.create = 1..Len(K.create)
  BY <1>1, PostPlace, RunTyped DEF K
<1>3. config # None /\ config \subseteq Fields /\ Of \subseteq Fields
  BY <1>1, StepTyped DEF TypeInv, TypePart, TypeOK, RunInv
<1> DEFINE arrives == i \in Live' => /\ world'[i].next = world'[i].v
                                     /\ Do # "postOrAdopt" => \A f \in Of : Agree(world'[i].v, f)
           more == \E n \in DOMAIN K.create : n >= P + 1 /\ K.create[n].do \in Awaits
<1>4. arrives /\ (IsUp(run.id)' \/ more)
  <2>1. CASE Alters(i, Object(IF Has("built") THEN "building" ELSE "up", config \cap Of))
    <3> DEFINE st == IF Has("built") THEN "building" ELSE "up"
    <3>1. world'[i] = Object(st, config \cap Of) BY <1>1, <2>1 DEF Alters, TypeOK
    <3>2. arrives BY <3>1 DEF Object, Agree
    <3>3. CASE Has("built")
      <4>1. PICK n \in DOMAIN K.create : n > P /\ K.create[n].do \in Awaits
        BY <1>1, <3>3, CreateAssumption DEF Has, K, P
      <4> QED BY <1>2, <3>2, <4>1
    <3>4. CASE ~Has("built")
      <4>1. Object(st, config \cap Of) \in Objects[kind] BY <1>1, <1>3, ObjectTyped DEF Object
      <4>2. world'[i] # None BY <1>1, <3>1, <4>1, NoneAssumption
      <4>3. i \in Live' BY <4>2 DEF Live
      <4>4. world'[i].st = "up" BY <3>1, <3>4 DEF Object
      <4> QED BY <1>1, <3>2, <4>3, <4>4 DEF IsUp
    <3> QED BY <3>3, <3>4
  <2>2. CASE i \in Live /\ Do = "put" /\ Alters(i, Object("up", Merge(world[i].v, Of, config)))
    <3> DEFINE v == Merge(world[i].v, Of, config)
    <3>1. world'[i] = Object("up", v) BY <1>1, <2>2 DEF Alters, TypeOK
    <3>2. v \in SUBSET Fields BY <1>1, <1>3, <2>2, LiveTyped DEF Merge
    <3>3. \A f \in Of : Agree(v, f) BY DEF Merge, Agree
    <3> HIDE DEF v
    <3>4. Object("up", v) \in Objects[kind] BY <1>1, <3>2, ObjectTyped DEF Object
    <3>5. world'[i] # None BY <1>1, <3>1, <3>4, NoneAssumption
    <3>6. i \in Live' BY <3>5 DEF Live
    <3>7. /\ world'[i].st = "up" /\ world'[i].next = world'[i].v
          /\ \A f \in Of : Agree(world'[i].v, f)
      BY <3>1, <3>3 DEF Object
    <3> QED BY <1>1, <3>6, <3>7 DEF IsUp
  <2>3. CASE i \in Live /\ Do = "postOrAdopt" /\ UNCHANGED world
    <3>1. kind \in Instant BY <1>1, <2>3, CreateAssumption DEF Do, K, P
    <3>2. world[i].st = "up" /\ world[i].next = world[i].v BY <2>3, <3>1 DEF WorldInv
    <3>3. i \in Live' /\ world'[i] = world[i] BY <2>3 DEF Live
    <3> QED BY <1>1, <2>3, <3>2, <3>3 DEF IsUp
  <2> QED BY <2>1, <2>2, <2>3 DEF Founds
<1>5. SentInv' /\ ~Pending' BY <1>1, <1>4, PostSent DEF Founds
<1>6. IsUp(run.id)' \/ \E n \in DOMAIN K'.create : n >= run'.pc /\ K'.create[n].do \in Awaits
  BY <1>1, <1>2, <1>4
<1> QED BY <1>1, <1>4, <1>5, <1>6 DEF CreateInv

LEMMA BlanksCreate == ASSUME TypeInv, Blanks PROVE CreateInv'
<1>1. /\ TypeOK /\ run # None /\ run' # None /\ run.op = "create" /\ run.pc = P
      /\ UNCHANGED <<kind, config>> /\ kind \in Kinds
      /\ run'.op = "create" /\ run'.pc = P + 1 /\ run'.id = NoId
      /\ P \in DOMAIN K.create /\ K.create[P].do = "postUnchecked"
  BY AtPost DEF Blanks, Posted, At, TypeInv, TypePart, TypeOK, Do
<1>2. K' = K BY <1>1 DEF K
<1>3. NoId \notin Live' BY IdsAssumption DEF Live
<1>4. kind \in Held \cap Blank
  BY <1>1, CreateAssumption DEF Blanks, K, P
<1>5. P + 1 \in DOMAIN K.create /\ K.create[P + 1].do = "record"
  <2>1. P + 1 \in DOMAIN K.create BY <1>1, <1>4, BlankAssumption DEF K
  <2>2. K.create[P + 1].do \in Records
    BY <1>1, <1>4, <2>1, RecordAssumption DEF K, P
  <2>3. K.create[P + 1].do # "recordUnchecked" BY <1>4, <2>1, BlankAssumption DEF K
  <2> QED BY <2>1, <2>2, <2>3 DEF Records
<1>6. SentInv' BY <1>1, <1>3, PostSent DEF Blanks
<1> QED BY <1>1, <1>2, <1>3, <1>5, <1>6 DEF CreateInv

LEMMA ServiceCreate ==
    ASSUME TypeOK, CreateInv, run # None, run.op = "create", run.pc > P,
           UNCHANGED <<plans, row, run>>, NEW i \in Live, Worked(i) \/ Failed(i)
    PROVE  CreateInv'
<1>1. /\ kind' = kind /\ config' = config /\ run' = run /\ kind \in Kinds /\ i \in Ids
      /\ P' = P
  BY DEF plans, TypeOK, Live, P
<1>2. K' = K BY <1>1 DEF K
<1>3. SentInv' /\ Pending' = Pending BY ServiceSent DEF Sending, CreateInv
<1>4. IsUp(run.id) => IsUp(run.id)'
  BY <1>1 DEF Worked, Failed, Alters, TypeOK, IsUp, Live
<1>5. ~Pending /\ run.id \in Live' => world'[run.id].next = world'[run.id].v
  <2>1. run.id \in Live' => run.id \in Live BY <1>1 DEF Worked, Failed, Alters, TypeOK, Live
  <2>2. run.id \in Live' => \/ world'[run.id] = world[run.id]
                            \/ world'[run.id] = Object("up", world[run.id].next)
                            \/ world'[run.id] = Object("failed", world[run.id].v)
                            \/ world'[run.id] = Object("up", world[run.id].v)
    BY <1>1 DEF Worked, Failed, Alters, TypeOK, Live
  <2> QED BY <2>1, <2>2 DEF CreateInv, Object
<1> QED BY <1>1, <1>2, <1>3, <1>4, <1>5 DEF CreateInv

-----------------------------------------------------------------------------
(* An Update on the way.                                                   *)

\* An update that was never sent had nothing to send.
LEMMA SendsSomething ==
    ASSUME TypeInv, Planned, run # None, run.op = "update", Untouched,
           run.pc = Len(K.update) + 1
    PROVE  FALSE
<1>1. kind \in Updatable /\ kind \in Kinds BY PlannedKind
<1> PICK f \in Fields \ K.replace : Differ(row.v, config, {f}) BY PlannedKind
<1>2. ~(f \in row.v <=> f \in config) BY DEF Differ
<1>3. TypeOK BY DEF TypeInv, TypePart
<1>4. \A n \in DOMAIN K.update : n < run.pc BY <1>3, RunTyped
<1>5. \A n \in DOMAIN K.update : K.update[n].do # "sendAll" BY <1>4 DEF Untouched
<1>6. \A n \in DOMAIN K.update : K.update[n].do \notin {"drop", "add"}
  BY <1>1, UpdateAssumption DEF Untouched, K
<1>7. \/ \E n \in DOMAIN K.update :
            K.update[n].do \in {"send", "sendAll"} \cup Orders /\ f \in K.update[n].of
      \/ \E n \in DOMAIN K.update : K.update[n].do = "sendAll"
      \/ \E n \in DOMAIN K.update : K.update[n].do = "drop"
  BY <1>1, UpdateAssumption DEF K, Fields
<1>8. PICK n \in DOMAIN K.update :
        K.update[n].do \in {"send"} \cup Orders /\ f \in K.update[n].of
  BY <1>5, <1>6, <1>7
<1>9. K.update[n].do \in Sends BY <1>8, DoKinds
<1>10. ~Differ(row.v, config, K.update[n].of) BY <1>4, <1>9 DEF Untouched
<1> QED BY <1>2, <1>8, <1>10 DEF Differ

\* At its end an update has its object up.
LEMMA EndsUp ==
    ASSUME TypeInv, Planned, UpdateInv, run # None, run.op = "update",
           run.pc = Len(K.update) + 1
    PROVE  IsUp(run.id)
<1>1. TypeOK BY DEF TypeInv, TypePart
<1>2. DOMAIN K[run.op] = 1..Len(K[run.op]) /\ Len(K[run.op]) \in Nat BY <1>1, RunTyped
<1>3. run.pc \notin DOMAIN K[run.op] BY <1>2
<1>4. ~Pending BY <1>1, <1>3, PendingTyped
<1>5. ~Untouched BY SendsSomething
<1> QED BY <1>4, <1>5 DEF UpdateInv

\* The last step of such an update reads the object.
LEMMA LastReads ==
    ASSUME kind \in Updatable \ Still, TypeOK, run # None, run.op = "update"
    PROVE  /\ Len(K.update) \in DOMAIN K.update
           /\ K.update[Len(K.update)].do \in ReadBacks
           /\ Seen \subseteq K.update[Len(K.update)].of
<1>1. kind \in Kinds BY DEF TypeOK
<1>2. /\ K["update"] # <<>> /\ K["update"][Len(K["update"])].do \in ReadBacks
      /\ Seen \subseteq K["update"][Len(K["update"])].of
  BY UpdateAssumption DEF K, Seen, SeenBy
<1>3. K["update"] \in Seq(StepsOf(kind, "update")) BY <1>1, HandlersAssumption DEF Ops, K
<1>4. Len(K["update"]) \in DOMAIN K["update"] BY <1>2, <1>3
<1> QED BY <1>2, <1>4

LEMMA PassesUpdate ==
    ASSUME TypeInv, WorldInv, Planned, UpdateInv, run.op = "update", Passes
    PROVE  UpdateInv'
<1>1. /\ run # None /\ run' # None /\ run.pc \in DOMAIN K.update /\ TypeOK
      /\ run'.op = run.op /\ run'.id = run.id /\ run'.pc = run.pc + 1
      /\ UNCHANGED <<kind, config, row, world>> /\ Do \notin Sends
  BY DEF Passes, Onward, TypeInv, TypePart
<1>2. /\ K' = K /\ Live' = Live /\ Seen' = Seen /\ run.pc \in Nat
      /\ DOMAIN K.update = 1..Len(K.update)
  BY <1>1, RunTyped DEF K, Live, Seen
<1>3. SentInv' /\ ~Pending' BY <1>1, PassesSent DEF Sending, UpdateInv
<1>4. IsUp(run.id)' \/ Untouched'
  <2>1. CASE IsUp(run.id) BY <1>1, <1>2, <2>1 DEF IsUp
  <2>2. CASE Pending
    <3>1. IsUp(run.id) BY <1>1, <2>2, PassedOrder
    <3> QED BY <1>1, <1>2, <3>1 DEF IsUp
  <2>3. CASE Untouched
    <3>1. \A n \in DOMAIN K.update : n < run.pc + 1 =>
            /\ K.update[n].do # "sendAll"
            /\ K.update[n].do \in Sends => ~Differ(row.v, config, K.update[n].of)
      <4> SUFFICES ASSUME NEW n \in DOMAIN K.update, n < run.pc + 1
                   PROVE  /\ K.update[n].do # "sendAll"
                          /\ K.update[n].do \in Sends => ~Differ(row.v, config, K.update[n].of)
        OBVIOUS
      <4>1. CASE n = run.pc BY <1>1, <4>1, DoKinds DEF Do
      <4>2. CASE n # run.pc
        <5>1. n < run.pc BY <1>2, <4>2
        <5> QED BY <2>3, <5>1 DEF Untouched
      <4> QED BY <4>1, <4>2
    <3>2. \A of : ~Differ(row.v, config, of)' <=> ~Differ(row.v, config, of)
      BY <1>1 DEF Differ
    <3> QED BY <1>1, <1>2, <2>3, <3>1 DEF Untouched, Differ
  <2> QED BY <2>1, <2>2, <2>3 DEF UpdateInv
<1>5. kind \in Still /\ run.id \in Live =>
        \A f \in Seen : Agree(world[run.id].v, f)' \/ (f \in world[run.id].v <=> f \in row.v)
  BY <1>1 DEF UpdateInv, Agree
<1>6. kind \notin Still /\ run.pc + 1 = Len(K.update) + 1 =>
        run.id \in Live /\ ~Differ(world[run.id].v, run'.v, Seen)
  <2> SUFFICES ASSUME kind \notin Still, run.pc + 1 = Len(K.update) + 1
               PROVE  run.id \in Live /\ ~Differ(world[run.id].v, run'.v, Seen)
    OBVIOUS
  <2>1. kind \in Updatable BY <1>1, PlannedKind
  <2>2. run.pc = Len(K.update) BY <1>2
  <2>3. Do \in ReadBacks /\ Seen \subseteq Of BY <1>1, <2>1, <2>2, LastReads DEF Do, Of
  <2>4. run.id \in Live /\ run'.v = Merge(run.v, Of, world[run.id].v) BY <2>3 DEF Passes
  <2> QED BY <2>3, <2>4 DEF Differ, Merge
<1> QED BY <1>1, <1>2, <1>3, <1>4, <1>5, <1>6 DEF UpdateInv

LEMMA SkipsUpdate ==
    ASSUME TypeInv, Planned, UpdateInv, run.op = "update", Skips
    PROVE  UpdateInv'
<1> DEFINE s == IF Do \in Orders THEN 2 ELSE 1
<1>1. /\ run # None /\ run' # None /\ run.pc \in DOMAIN K.update /\ TypeOK /\ kind \in Kinds
      /\ run'.op = run.op /\ run'.id = run.id /\ run'.pc = run.pc + s
      /\ UNCHANGED <<kind, config, row, world>> /\ Do \in Sends /\ Needless
  BY DEF Skips, Onward, TypeInv, TypePart, TypeOK
<1>2. /\ K' = K /\ Live' = Live /\ Seen' = Seen /\ run.pc \in Nat
      /\ DOMAIN K.update = 1..Len(K.update)
  BY <1>1, RunTyped DEF K, Live, Seen
<1>3. SentInv' /\ ~Pending' /\ ~Pending BY <1>1, SkipsSent DEF Sending, UpdateInv
<1>4. kind \in Updatable BY <1>1, PlannedKind
<1>5. Do \in Orders => run.pc + 1 \in DOMAIN K.update /\ K.update[run.pc + 1].do \in Awaits
  BY <1>1, HandlersAssumption, OrderAssumption DEF K, Do, Ops
<1>6. ASSUME Untouched PROVE Do # "sendAll" /\ ~Differ(row.v, config, Of)
  <2>1. \A step : Is(step) <=> Do = step BY DEF Is, Do
  <2>2. Do # "sendAll" BY <1>1, <2>1 DEF Needless
  <2>3. Do \notin {"drop", "add"}
    BY <1>1, <1>4, <1>6, UpdateAssumption DEF Untouched, Do, K
  <2>4. CASE Do = "sendWorkIfUnlike" /\ run.id \in Live
    <3>1. ~Differ(row.v, config, Of) \/ ~Differ(world[run.id].v, config, Of)
      BY <1>1, <2>1, <2>4 DEF Needless
    <3>2. Of \subseteq Seen
      BY <1>1, <2>4, OrderAssumption DEF K, Do, Of, Seen, SeenBy
    <3>3. ~Differ(world[run.id].v, row.v, Of) BY <1>6, <2>4, <3>2 DEF Untouched, Differ
    <3> QED BY <2>2, <3>1, <3>3 DEF Differ
  <2>5. CASE ~(Do = "sendWorkIfUnlike" /\ run.id \in Live)
    BY <1>1, <2>1, <2>2, <2>3, <2>5 DEF Needless
  <2> QED BY <2>2, <2>4, <2>5
<1>7. IsUp(run.id)' \/ Untouched'
  <2>1. CASE IsUp(run.id) BY <1>1, <1>2, <2>1 DEF IsUp
  <2>2. CASE Untouched
    <3>1. \A n \in DOMAIN K.update : n < run.pc + s =>
            /\ K.update[n].do # "sendAll"
            /\ K.update[n].do \in Sends => ~Differ(row.v, config, K.update[n].of)
      <4> SUFFICES ASSUME NEW n \in DOMAIN K.update, n < run.pc + s
                   PROVE  /\ K.update[n].do # "sendAll"
                          /\ K.update[n].do \in Sends => ~Differ(row.v, config, K.update[n].of)
        OBVIOUS
      <4>1. n < run.pc \/ n = run.pc \/ (Do \in Orders /\ n = run.pc + 1) BY <1>2
      <4>2. CASE n < run.pc BY <2>2, <4>2 DEF Untouched
      <4>3. CASE n = run.pc BY <1>6, <2>2, <4>3 DEF Do, Of
      <4>4. CASE Do \in Orders /\ n = run.pc + 1 BY <1>5, <4>4, DoKinds
      <4> QED BY <4>1, <4>2, <4>3, <4>4
    <3> HIDE DEF s
    <3> QED BY <1>1, <1>2, <2>2, <3>1 DEF Untouched, Differ
  <2> QED BY <1>3, <2>1, <2>2 DEF UpdateInv
<1>8. kind \in Still /\ run.id \in Live =>
        \A f \in Seen : Agree(world[run.id].v, f)' \/ (f \in world[run.id].v <=> f \in row.v)
  BY <1>1 DEF UpdateInv, Agree
<1>9. ~(kind \notin Still /\ run.pc + s = Len(K.update) + 1)
  <2> SUFFICES ASSUME kind \notin Still, run.pc + s = Len(K.update) + 1 PROVE FALSE
    OBVIOUS
  <2>1. K.update[Len(K.update)].do \in ReadBacks BY <1>1, <1>4, LastReads
  <2>2. CASE Do \in Orders
    <3>1. Len(K.update) = run.pc + 1 BY <1>2, <1>5, <2>2
    <3> QED BY <1>5, <2>1, <2>2, <3>1, DoKinds
  <2>3. CASE Do \notin Orders
    <3>1. Len(K.update) = run.pc BY <1>2, <2>3
    <3> QED BY <1>1, <2>1, <3>1, DoKinds DEF Do
  <2> QED BY <2>2, <2>3
<1> HIDE DEF s
<1> QED BY <1>1, <1>2, <1>3, <1>7, <1>8, <1>9 DEF UpdateInv

LEMMA CarriesUpdate ==
    ASSUME TypeInv, WorldInv, Planned, UpdateInv, run.op = "update", Carries
    PROVE  UpdateInv'
<1>1. /\ run # None /\ run' # None /\ run.pc \in DOMAIN K.update /\ TypeOK
      /\ run'.op = run.op /\ run'.id = run.id /\ run'.pc = run.pc + 1
      /\ UNCHANGED <<kind, config, row>> /\ kind \in Kinds /\ Do \in Sends
  BY DEF Carries, Onward, TypeInv, TypePart, TypeOK
<1>2. /\ K' = K /\ Seen' = Seen /\ run.pc \in Nat /\ DOMAIN K.update = 1..Len(K.update)
  BY <1>1, RunTyped DEF K, Seen
<1>3. SentInv' /\ (Pending' <=> Do \in Orders)
  BY <1>1, CarriesSent DEF Sending, UpdateInv
<1>4. /\ run.id \in Live' /\ run.id \in Live
      /\ Do \notin Orders => /\ world'[run.id].v = Sent(world[run.id].v)
                             /\ world'[run.id].st = "up"
  BY Carried
<1>5. IsUp(run.id)' \/ Pending' BY <1>1, <1>3, <1>4 DEF IsUp
<1>6. ASSUME kind \in Still, NEW f \in Seen
      PROVE  Agree(world'[run.id].v, f) \/ (f \in world'[run.id].v <=> f \in row.v)
  <2>1. Do \notin Orders BY <1>1, <1>6, StillSteps DEF Do
  <2>2. Agree(world[run.id].v, f) \/ (f \in world[run.id].v <=> f \in row.v)
    BY <1>4, <1>6 DEF UpdateInv
  <2> QED BY <1>4, <2>1, <2>2, SentEither DEF Agree
<1>7. kind \notin Still => run.pc # Len(K.update)
  <2>1. kind \in Updatable BY <1>1, PlannedKind
  <2> QED BY <1>1, <2>1, LastReads, DoKinds DEF Do
<1>8. run.pc + 1 = Len(K.update) + 1 => run.pc = Len(K.update) BY <1>2
<1> QED BY <1>1, <1>2, <1>3, <1>5, <1>6, <1>7, <1>8 DEF UpdateInv, Agree

LEMMA ServiceUpdate ==
    ASSUME TypeInv, WorldInv, Planned, UpdateInv, run # None, run.op = "update",
           UNCHANGED <<plans, row, run>>, NEW i \in Live, Worked(i) \/ Failed(i)
    PROVE  UpdateInv'
<1>1. /\ kind' = kind /\ config' = config /\ row' = row /\ run' = run /\ TypeOK
      /\ kind \in Kinds /\ i \in Ids
  BY DEF plans, TypeInv, TypePart, TypeOK, Live
<1>2. K' = K /\ Seen' = Seen BY <1>1 DEF K, Seen
<1>3. SentInv' /\ Pending' = Pending BY <1>1, ServiceSent DEF Sending, UpdateInv
<1>4. IsUp(run.id) => IsUp(run.id)' /\ world'[run.id] = world[run.id]
  BY <1>1 DEF Worked, Failed, Alters, TypeOK, IsUp, Live
<1>5. run.id \in Live' => /\ run.id \in Live
                          /\ \/ world'[run.id] = world[run.id]
                             \/ /\ world'[run.id] = Object("up", world[run.id].next)
                                /\ world[run.id].st = "building"
                             \/ world'[run.id] = Object("failed", world[run.id].v)
                             \/ world'[run.id] = Object("up", world[run.id].v)
  BY <1>1 DEF Worked, Failed, Alters, TypeOK, Live
<1>6. run.id \in Live' => world'[run.id].st = "up" \/ world'[run.id].v = world[run.id].v
  BY <1>5 DEF Object
<1>7. Untouched => IsUp(run.id)' \/ Untouched'
  BY <1>1, <1>2, <1>5, <1>6 DEF Untouched, IsUp, Differ
<1>8. kind \in Still /\ run.id \in Live' => world'[run.id].v = world[run.id].v
  BY <1>5 DEF Object, WorldInv
<1>9. kind \notin Still /\ run.pc = Len(K.update) + 1 =>
        run.id \in Live' /\ ~Differ(world'[run.id].v, run.v, Seen)
  BY <1>4, EndsUp DEF UpdateInv, IsUp
<1> QED BY <1>1, <1>2, <1>3, <1>4, <1>5, <1>7, <1>8, <1>9 DEF UpdateInv, Agree

-----------------------------------------------------------------------------
(* What a Read has seen.                                                   *)

LEMMA PassesRead ==
    ASSUME TypeOK, ReadInv, run.op = "read", Passes
    PROVE  ReadInv'
<1>1. /\ run # None /\ run' # None /\ run.pc \in DOMAIN K.read /\ kind \in Kinds
      /\ run'.op = run.op /\ run'.id = run.id /\ run'.pc = run.pc + 1
      /\ UNCHANGED <<kind, world>>
  BY DEF Passes, Onward, TypeOK
<1>2. K' = K /\ Live' = Live /\ run.pc \in Nat /\ DOMAIN K.read = 1..Len(K.read)
  BY <1>1, RunTyped DEF K, Live
<1>3. Do \in {"ask", "refresh"} \cup ReadBacks BY <1>1, StepTyped DEF Allowed, Do
<1>4. \/ Do = "ask" /\ run'.v = run.v
      \/ Do # "ask" /\ run.id \in Live /\ run'.v = Merge(run.v, Of, world[run.id].v)
  BY <1>3 DEF Passes, ReadBacks
<1>5. ASSUME NEW n \in DOMAIN K.read, n < run.pc + 1, K.read[n].do # "ask"
      PROVE  run.id \in Live /\ ~Differ(world[run.id].v, run'.v, K.read[n].of)
  <2>1. CASE n = run.pc
    <3>1. K.read[n].of = Of /\ Do # "ask" BY <1>1, <1>5, <2>1 DEF Of, Do
    <3> QED BY <1>4, <3>1 DEF Differ, Merge
  <2>2. CASE n # run.pc
    <3>1. n < run.pc BY <1>2, <1>5, <2>2
    <3>2. run.id \in Live /\ ~Differ(world[run.id].v, run.v, K.read[n].of)
      BY <1>5, <3>1 DEF ReadInv
    <3> QED BY <1>4, <3>2 DEF Differ, Merge
  <2> QED BY <2>1, <2>2
<1> QED BY <1>1, <1>2, <1>5 DEF ReadInv

\* A Read at its end has seen everything that can be seen.
LEMMA ReadAll ==
    ASSUME TypeOK, ReadInv, run # None, run.op = "read", run.pc = Len(K.read) + 1,
           kind \in Updatable
    PROVE  run.id \in Live /\ ~Differ(world[run.id].v, run.v, Seen)
<1>1. \A n \in DOMAIN K.read : n < run.pc BY RunTyped
<1>2. \A n \in DOMAIN K.read : K.read[n].do # "ask" =>
        run.id \in Live /\ ~Differ(world[run.id].v, run.v, K.read[n].of)
  BY <1>1 DEF ReadInv
<1>3. run.id \in Live BY <1>2, ReadAssumption DEF K
<1>4. ASSUME NEW f \in Seen PROVE f \in world[run.id].v <=> f \in run.v
  <2> PICK n \in DOMAIN K.read : f \in K.read[n].of BY DEF Seen
  <2>1. K.read[n].do # "ask" BY ReadAssumption DEF K
  <2> QED BY <1>2, <2>1 DEF Differ
<1> QED BY <1>3, <1>4 DEF Differ

-----------------------------------------------------------------------------
(* Every step.                                                             *)

LEMMA HandleReach ==
    ASSUME TypeInv, ReachInv, Handle
    PROVE  RunReach' /\ (run' = None => FreshInv')
<1>1. TypeOK /\ run # None /\ run.pc \in DOMAIN K[run.op] /\ UNCHANGED plans /\ WorldInv
  BY DEF ReachInv, TypeInv, TypePart, Handle, Refused, Asked, PostDone, PostTaken, RecordCreated,
     SendSkipped, SendDone, SendRejected, Cleared, Awaited, AwaitedBriefly, BackRead,
     Refreshed, Destroyed, GoneAwaited, At
<1>2. kind' = kind /\ config' = config /\ K' = K /\ P' = P BY <1>1 DEF plans, K, P
<1>3. RunReach BY DEF ReachInv
<1>4. P \in Nat /\ run.pc \in Nat BY <1>1, PostPlace, RunTyped
<1>5. CASE Leaves
  <2>1. CASE run' = None /\ (refreshed' = "no" \/ row' = None)
    BY <2>1 DEF RunReach, FreshInv
  <2>2. CASE run' # None /\ run'.op \in {"undo", "delete"}
    BY <2>2 DEF RunReach, Planned
  <2>3. CASE At(Posts) /\ run' = run
    <3>1. run.op = "create" /\ run.pc = P BY <2>3, AtPost
    <3>2. run' # None /\ run'.op = "create" /\ ~(run'.pc > P') BY <1>1, <1>2, <1>4, <2>3, <3>1
    <3> QED BY <3>2 DEF RunReach, Planned
  <2> QED BY <1>5, <2>1, <2>2, <2>3 DEF Leaves
<1>6. ASSUME NEW n \in {1, 2}, Onward(n), Do \notin Posts,
             row' = row \/ run.op = "create", refreshed' = refreshed,
             run.op = "create" /\ run.pc > P /\ CreateInv => CreateInv',
             run.op = "update" /\ Planned /\ UpdateInv => UpdateInv',
             run.op = "read" /\ ReadInv => ReadInv',
             run.pc < P => n = 1 \/ run.op # "create"
      PROVE  RunReach' /\ run' # None
  <2>1. /\ run' # None /\ run'.op = run.op /\ run'.calm = run.calm /\ run'.pc = run.pc + n
    BY <1>6 DEF Onward
  <2>2. Planned' BY <1>1, <1>2, <1>3, <1>6, <2>1 DEF RunReach, Planned, Differ
  <2>3. run.op = "create" => run.pc # P
    <3>1. run.op = "create" /\ run.pc = P => Do \in Posts BY <1>1, StepTyped DEF Do
    <3> QED BY <1>6, <3>1
  <2>4. run.op = "create" /\ run'.pc > P' => run.pc > P BY <1>2, <1>4, <1>6, <2>1, <2>3
  <2> QED BY <1>1, <1>3, <1>6, <2>1, <2>2, <2>4 DEF RunReach
<1>7. CASE Passes
  <2>1. Onward(1) /\ Do \notin Posts /\ (row' = row \/ run.op = "create") /\ refreshed' = refreshed
    BY <1>7 DEF Passes
  <2>2. /\ run.op = "create" /\ run.pc > P /\ CreateInv => CreateInv'
        /\ run.op = "update" /\ Planned /\ UpdateInv => UpdateInv'
        /\ run.op = "read" /\ ReadInv => ReadInv'
    BY <1>1, <1>7, PassesCreate, PassesUpdate, PassesRead
  <2> QED BY <1>6, <2>1, <2>2
<1>8. CASE Skips
  <2> DEFINE n == IF Do \in Orders THEN 2 ELSE 1
  <2>1. Onward(n) /\ Do \in Sends /\ row' = row /\ refreshed' = refreshed BY <1>8 DEF Skips
  <2>2. run.op \in {"create", "update"} /\ Do \notin Posts
    BY <1>1, <2>1, StepPlaces, DoKinds DEF Do
  <2>3. run.op = "create" => run.pc >= P
    <3>1. run.op = "create" /\ run.pc < P => Do = "ask" BY <1>1, StepTyped DEF Do
    <3>2. Do # "ask" BY <2>1 DEF Sends, Orders
    <3> QED BY <1>4, <3>1, <3>2
  <2>4. run.pc < P => n = 1 \/ run.op # "create" BY <1>4, <2>3
  <2>5. /\ run.op = "create" /\ run.pc > P /\ CreateInv => CreateInv'
        /\ run.op = "update" /\ Planned /\ UpdateInv => UpdateInv'
    BY <1>1, <1>8, SkipsCreate, SkipsUpdate
  <2>6. n \in {1, 2} OBVIOUS
  <2> HIDE DEF n
  <2> QED BY <1>6, <2>1, <2>2, <2>4, <2>5, <2>6
<1>9. CASE Carries
  <2>1. Onward(1) /\ Do \in Sends /\ row' = row /\ refreshed' = refreshed BY <1>9 DEF Carries
  <2>2. run.op \in {"create", "update"} /\ Do \notin Posts
    BY <1>1, <2>1, StepPlaces, DoKinds DEF Do
  <2>3. /\ run.op = "create" /\ run.pc > P /\ CreateInv => CreateInv'
        /\ run.op = "update" /\ Planned /\ UpdateInv => UpdateInv'
    BY <1>1, <1>9, CarriesCreate, CarriesUpdate
  <2> QED BY <1>6, <2>1, <2>2, <2>3
<1>10. CASE Blanks \/ \E i \in Ids : Founds(i)
  <2>1. run' # None /\ run'.op = "create" BY <1>10 DEF Blanks, Founds, Posted
  <2>2. CreateInv' BY <1>1, <1>10, BlanksCreate, FoundsCreate
  <2> QED BY <2>1, <2>2 DEF RunReach, Planned
<1> QED BY <1>5, <1>7, <1>8, <1>9, <1>10, HandleDoes

LEMMA StartReach == ASSUME TypeInv, ReachInv, Start PROVE RunReach'
<1>1. /\ run' # None /\ run'.pc = 1 /\ run'.op = Todo /\ TypePart'
      /\ run'.id = IF row = None THEN None ELSE row.id
  BY StartTyped
<1>2. /\ UNCHANGED <<plans, row, cloud>> /\ TypeOK /\ kind \in Kinds /\ kind' = kind
      /\ config' = config /\ run = None /\ WorldInv
      /\ run'.calm = (refreshed # "stale")
  BY DEF ReachInv, Start, TypeInv, TypePart, TypeOK, plans
<1>3. K' = K /\ P' = P /\ Live' = Live /\ world' = world /\ Seen' = Seen
  BY <1>2 DEF K, P, cloud, Live, Seen
<1>4. ~(run'.pc > P') BY <1>1, <1>2, <1>3, PostPlace
<1>5. \A op : \A n \in DOMAIN K[op] : op \in Ops => ~(n < 1)
  <2>1. \A op \in Ops : K[op] \in Seq(StepsOf(kind, op)) BY <1>2, HandlersAssumption DEF K
  <2> QED BY <2>1
<1>6. ASSUME Todo = "update"
      PROVE  /\ Planned' /\ row # None /\ ~row.tainted /\ refreshed # "no"
             /\ row.v # config /\ kind \in Updatable
  <2>1. /\ row # None /\ refreshed # "no" /\ ~row.tainted /\ ~Differ(row.v, config, K.replace)
        /\ row.v # config /\ config # None
    BY <1>6 DEF Todo
  <2>2. kind \in Updatable BY <1>2, <2>1, UpdatedKind
  <2> QED BY <1>2, <1>3, <2>1, <2>2 DEF Planned, Differ
<1>7. ASSUME Todo = "update", run'.calm PROVE UpdateInv'
  <2>1. /\ Planned' /\ row # None /\ ~row.tainted /\ refreshed = "yes" /\ row.v # config
        /\ run'.id = row.id
    <3>1. refreshed # "stale" /\ refreshed \in {"no", "yes", "stale"}
      BY <1>2, <1>7 DEF TypeOK
    <3>2. run'.id = row.id BY <1>1, <1>6, <1>7
    <3> QED BY <1>6, <1>7, <3>1, <3>2
  <2>2. kind \in Updatable BY <1>6, <1>7
  <2>3. row.id \in Live /\ ~Differ(world[row.id].v, row.v, Seen)
    BY <1>2, <2>1, <2>2 DEF ReachInv, FreshInv
  <2>4. \A n \in DOMAIN K.update : ~(n < 1) BY <1>5 DEF Ops
  <2>5. IsUp(run.id)' \/ Untouched'
    <3>1. CASE kind \in Instant
      <4>1. world[row.id].st = "up" BY <1>2, <2>3, <3>1 DEF WorldInv
      <4> QED BY <1>3, <2>1, <2>3, <4>1 DEF IsUp
    <3>2. CASE kind \notin Instant
      <4>1. \A n \in DOMAIN K'.update : ~(n < run'.pc) BY <1>1, <1>3, <2>4
      <4>2. run'.id \in Live' => ~Differ(world[run.id].v, row.v, Seen)'
        BY <1>2, <1>3, <2>1, <2>3 DEF Differ
      <4> QED BY <1>2, <3>2, <4>1, <4>2 DEF Untouched
    <3> QED BY <3>1, <3>2
  <2>6. \A f \in Seen : f \in world[row.id].v <=> f \in row.v BY <2>3 DEF Differ
  <2>7. kind \notin Still => 1 # Len(K.update) + 1
    <3>1. K["update"] \in Seq(StepsOf(kind, "update")) BY <1>2, HandlersAssumption DEF Ops, K
    <3>2. kind \notin Still => K["update"] # <<>> BY <2>2, UpdateAssumption DEF K
    <3> QED BY <3>1, <3>2
  <2>8. ~Pending'
    <3>1. run'.pc - 1 = 0 BY <1>1
    <3>2. 0 \notin DOMAIN K.update BY <2>4
    <3> QED BY <1>1, <1>3, <1>7, <3>1, <3>2 DEF Pending
  <2>9. SentInv' BY <1>1, <1>3, <1>7, <2>4, <2>8 DEF SentInv, Over
  <2> QED BY <1>1, <1>2, <1>3, <2>1, <2>5, <2>6, <2>7, <2>9 DEF UpdateInv
<1>8. Todo = "read" => ReadInv'
  <2>1. Todo = "read" => \A n \in DOMAIN K'.read : ~(n < run'.pc) BY <1>1, <1>3, <1>5 DEF Ops
  <2> QED BY <2>1 DEF ReadInv
<1>9. Planned' BY <1>1, <1>6 DEF Planned
<1> QED BY <1>1, <1>4, <1>7, <1>8, <1>9 DEF RunReach

LEMMA FinishReach == ASSUME TypeInv, ReachInv, Finish PROVE FreshInv'
<1>1. /\ run # None /\ run.pc = Len(K[run.op]) + 1 /\ UNCHANGED <<plans, cloud>> /\ TypeOK
      /\ kind' = kind /\ config' = config /\ kind \in Kinds /\ run.op \in Ops
      /\ refreshed' = IF run.op \in {"create", "update"} /\ run.v # config
                      THEN "no" ELSE refreshed
  BY RunTyped DEF Finish, TypeInv, TypePart, TypeOK, plans
<1>2. K' = K /\ Live' = Live /\ world' = world /\ Seen' = Seen
  BY <1>1 DEF K, cloud, Live, Seen
<1>3. CASE run.op = "create"
  <2>1. row' = [id |-> run.id, v |-> run.v, tainted |-> run.v # config] BY <1>3 DEF Finish
  <2>2. row'.tainted \/ row'.v = config' BY <1>1, <2>1
  <2> QED BY <2>2 DEF FreshInv
<1>4. CASE run.op \in {"read", "update"}
  <2>1. row # None /\ run.id = row.id BY <1>1, <1>4 DEF TypeInv, TypePart, RunInv
  <2> PICK A : Rows[kind] = [id : A, v : SUBSET Fields, tainted : BOOLEAN]
    BY <1>1 DEF Rows, Fields, K
  <2>2. row \in [id : A, v : SUBSET Fields, tainted : BOOLEAN] BY <1>1, <2>1 DEF TypeOK
  <2>3. row' = [row EXCEPT !.id = run.id, !.v = run.v] BY <1>4 DEF Finish
  <2>4. row'.id = run.id /\ row'.v = run.v BY <2>2, <2>3
  <2>5. CASE run.op = "update"
    <3>1. refreshed' = "no" \/ row'.v = config' BY <1>1, <2>4, <2>5
    <3> QED BY <3>1 DEF FreshInv
  <2>6. CASE run.op = "read"
    <3>1. refreshed' = refreshed BY <1>1, <2>6
    <3>2. refreshed = "yes" => ReadInv BY <1>1, <2>6 DEF ReachInv, RunReach
    <3>3. refreshed = "yes" /\ kind \in Updatable =>
            run.id \in Live /\ ~Differ(world[run.id].v, run.v, Seen)
      BY <1>1, <2>6, <3>2, ReadAll
    <3> QED BY <1>1, <1>2, <2>4, <3>1, <3>3 DEF FreshInv, Differ
  <2> QED BY <1>4, <2>5, <2>6
<1>5. CASE run.op \in {"delete", "undo"}
  <2>1. row' = None BY <1>5 DEF Finish
  <2> QED BY <2>1 DEF FreshInv
<1> QED BY <1>1, <1>3, <1>4, <1>5 DEF Ops

LEMMA ServiceReach ==
    ASSUME TypeInv, ReachInv, NEW i \in Ids, ServiceWorks(i) \/ ServiceFails(i)
    PROVE  RunReach' /\ (run' = None => FreshInv')
<1>1. /\ i \in Live /\ UNCHANGED <<plans, row, run>> /\ refreshed' # "yes"
      /\ Worked(i) \/ Failed(i)
  BY ServiceDoes
<1>2. WorldInv /\ RunReach /\ TypeOK BY DEF ReachInv, TypeInv, TypePart
<1>3. /\ row' = row /\ run' = run /\ kind' = kind /\ config' = config /\ K' = K /\ P' = P
  BY <1>1 DEF plans, K, P
<1>4. Planned => Planned' BY <1>3 DEF Planned, Differ
<1>5. run # None /\ run.op = "create" /\ run.pc > P /\ CreateInv => CreateInv'
  BY <1>1, <1>2, ServiceCreate
<1>6. run # None /\ run.op = "update" /\ Planned /\ UpdateInv => UpdateInv'
  BY <1>1, <1>2, ServiceUpdate
<1> QED BY <1>1, <1>2, <1>3, <1>4, <1>5, <1>6 DEF RunReach, FreshInv

LEMMA OutsideReach ==
    ASSUME TypeInv, ReachInv, NEW i \in Ids, OutsideDeletes(i) \/ OutsideChanges(i)
    PROVE  RunReach' /\ (run' = None => FreshInv')
<1>1. Disturb /\ UNCHANGED <<plans, row>> /\ TypeOK /\ RunReach
  BY DEF ReachInv, OutsideDeletes, OutsideChanges, TypeInv, TypePart
<1>2. kind' = kind /\ config' = config /\ K' = K /\ row' = row /\ refreshed' # "yes"
  BY <1>1 DEF plans, K, Disturb, Stale
<1>3. CASE run = None BY <1>1, <1>2, <1>3 DEF Disturb, RunReach, FreshInv
<1>4. CASE run # None
  <2>1. run' = [run EXCEPT !.calm = FALSE] /\ run \in Runs[kind] /\ kind \in Kinds
    BY <1>1, <1>4 DEF Disturb, TypeOK
  <2>2. PICK A, B : Runs[kind] = RunsOf(A, B, Fields) BY <2>1 DEF Runs, RunsOf, Fields, K
  <2>3. run \in RunsOf(A, B, Fields) BY <2>1, <2>2
  <2>4. run'.op = run.op /\ ~run'.calm BY <2>1, <2>3 DEF RunsOf
  <2>5. run' \in Runs[kind] BY <2>1, <2>2, <2>3 DEF RunsOf
  <2>6. run' # None BY <2>1, <2>5, NoneAssumption
  <2>7. Planned' BY <1>1, <1>2, <1>4, <2>4 DEF RunReach, Planned, Differ
  <2> QED BY <1>2, <2>4, <2>6, <2>7 DEF RunReach
<1> QED BY <1>3, <1>4

LEMMA NextReach == ASSUME TypeInv, ReachInv, [Next]_vars PROVE ReachInv'
<1>1. WorldInv BY DEF ReachInv
<1>2. WorldInv' BY <1>1, NextWorld, SameFine DEF vars, plans, cloud
<1>3. RunReach' /\ (run' = None => FreshInv')
  <2>1. CASE Start
    <3>1. run' # None BY <2>1, StartTyped
    <3> QED BY <2>1, <3>1, StartReach
  <2>2. CASE Finish
    <3>1. run' = None BY <2>2 DEF Finish
    <3> QED BY <2>2, <3>1, FinishReach DEF RunReach
  <2>3. CASE Handle BY <2>3, HandleReach
  <2>4. CASE Edit \/ Import
    <3>1. run' = None /\ refreshed' = "no" BY <2>4 DEF Edit, Import
    <3> QED BY <3>1 DEF RunReach, FreshInv
  <2>5. ASSUME NEW i \in Ids, ServiceWorks(i) \/ ServiceFails(i)
        PROVE  RunReach' /\ (run' = None => FreshInv')
    BY <2>5, ServiceReach
  <2>6. ASSUME NEW i \in Ids, OutsideDeletes(i) \/ OutsideChanges(i)
        PROVE  RunReach' /\ (run' = None => FreshInv')
    BY <2>6, OutsideReach
  <2>7. CASE UNCHANGED vars
    <3>1. RunReach /\ (run = None => FreshInv) BY DEF ReachInv
    <3>2. /\ UNCHANGED <<kind, config, row, refreshed, run, world>>
          /\ K' = K /\ P' = P /\ Live' = Live /\ Seen' = Seen
      BY <2>7 DEF vars, plans, cloud, K, P, Live, Seen
    <3>3. FreshInv => FreshInv' BY <3>2 DEF FreshInv, Differ
    <3>4. Planned => Planned' BY <3>2 DEF Planned, Differ
    <3>5. SentInv => SentInv'
      BY <3>2 DEF SentInv, Tracked, Over, Pending, Brings, Settled, Agree, Changed, Differ, Fields
    <3>6. CreateInv => CreateInv' BY <3>2, <3>5 DEF CreateInv, IsUp, Pending
    <3>7. UpdateInv => UpdateInv'
      BY <3>2, <3>5 DEF UpdateInv, IsUp, Pending, Untouched, Agree, Differ
    <3>8. ReadInv => ReadInv' BY <3>2 DEF ReadInv, Differ
    <3> QED BY <3>1, <3>2, <3>3, <3>4, <3>6, <3>7, <3>8 DEF RunReach
  <2> QED BY <2>1, <2>2, <2>3, <2>4, <2>5, <2>6, <2>7 DEF Next, Terraform
<1> QED BY <1>2, <1>3 DEF ReachInv

\* What the steps of an operation that is through have brought is settled.
LEMMA AllSettled ==
    ASSUME TypeOK, SentInv, run # None, run.pc = Len(K[run.op]) + 1,
           NEW f \in Tracked, NEW n \in DOMAIN K[run.op], Brings(K[run.op][n], f),
           run.id \in Live
    PROVE  f \in world[run.id].v <=> f \in config
<1>1. run.pc \notin DOMAIN K[run.op] /\ n < run.pc BY RunTyped
<1>2. ~Pending BY <1>1, PendingTyped
<1>3. Settled(f) BY <1>1, <1>2 DEF Over, SentInv
<1> QED BY <1>3 DEF Settled, Agree

LEMMA CreateReaches ==
    ASSUME TypeInv, ReachInv, Finish, run.op = "create", run.calm
    PROVE  Applied
<1>1. /\ TypeOK /\ run # None /\ run.pc = Len(K.create) + 1 /\ kind \in Kinds
      /\ P \in Nat /\ P <= Len(K.create)
  BY PostPlace DEF Finish, TypeInv, TypePart, TypeOK
<1>2. DOMAIN K[run.op] = 1..Len(K[run.op]) /\ Len(K[run.op]) \in Nat BY <1>1, RunTyped
<1>3. run.pc > P /\ \A n \in DOMAIN K.create : ~(n >= run.pc) BY <1>1, <1>2
<1>4. CreateInv BY <1>1, <1>3 DEF ReachInv, RunReach
<1>5. run.pc \notin DOMAIN K.create BY <1>1, <1>2
<1>6. IsUp(run.id) BY <1>3, <1>4, <1>5 DEF CreateInv
<1>7. ASSUME NEW f \in Fields PROVE f \in world[run.id].v <=> f \in config
  <2> PICK n \in DOMAIN K.create :
        /\ K.create[n].do \in (Posts \ {"postOrAdopt"}) \cup {"send", "sendAll"} \cup Orders
        /\ f \in K.create[n].of
    BY <1>1, CreateAssumption DEF K, Fields
  <2>1. Brings(K.create[n], f) BY DEF Brings
  <2>2. f \in Tracked BY DEF Tracked
  <2> QED BY <1>1, <1>4, <1>6, <2>1, <2>2, AllSettled DEF CreateInv, IsUp
<1>8. ~Differ(world[run.id].v, config, Fields) BY <1>7 DEF Differ
<1> QED BY <1>6, <1>8 DEF Applied, Answered

LEMMA UpdateReaches ==
    ASSUME TypeInv, ReachInv, Finish, run.op = "update", run.v = config, run.calm
    PROVE  Applied
<1>1. TypeOK /\ run # None /\ run.pc = Len(K.update) + 1 /\ kind \in Kinds
  BY DEF Finish, TypeInv, TypePart, TypeOK
<1>2. Planned /\ UpdateInv BY <1>1 DEF ReachInv, RunReach
<1>3. IsUp(run.id) /\ run.id \in Live BY <1>1, <1>2, EndsUp DEF IsUp
<1>4. kind \in Updatable BY <1>1, <1>2, PlannedKind
<1>5. ASSUME NEW f \in Tracked PROVE f \in world[run.id].v <=> f \in config
  <2>1. f \in Changed(Fields) BY DEF Tracked
  <2>2. f \in Fields /\ ~(f \in row.v <=> f \in config) BY <2>1, ChangedIs
  <2>3. ~Differ(row.v, config, K.replace) BY <1>1, <1>2 DEF Planned
  <2>4. f \notin K.replace BY <2>2, <2>3 DEF Differ
  <2>5. \/ \E n \in DOMAIN K.update :
              \/ K.update[n].do \in {"send", "sendAll"} \cup Orders /\ f \in K.update[n].of
              \/ K.update[n].do = "sendAll" /\ f \in K.update[n].also
        \/ \A do \in {"drop", "add"} : \E n \in DOMAIN K.update :
              K.update[n].do = do /\ f \in K.update[n].of
    BY <1>4, <2>2, <2>4, UpdateAssumption DEF Fields, K
  <2>6. \E n \in DOMAIN K.update : Brings(K.update[n], f)
    <3>1. CASE f \in row.v
      <4>1. \A n \in DOMAIN K.update :
              K.update[n].do = "drop" /\ f \in K.update[n].of => Brings(K.update[n], f)
        BY <3>1 DEF Brings
      <4> QED BY <2>5, <4>1 DEF Brings
    <3>2. CASE f \in config
      <4>1. \A n \in DOMAIN K.update :
              K.update[n].do = "add" /\ f \in K.update[n].of => Brings(K.update[n], f)
        BY <3>2 DEF Brings
      <4> QED BY <2>5, <4>1 DEF Brings
    <3> QED BY <2>2, <3>1, <3>2
  <2> QED BY <1>1, <1>2, <1>3, <2>6, AllSettled DEF UpdateInv
<1>6. ASSUME NEW f \in Seen \cup Changed(Fields)
      PROVE  f \in world[run.id].v <=> f \in config
  <2>1. CASE f \in Tracked BY <1>5, <2>1
  <2>2. CASE f \in Seen /\ kind \notin Still BY <1>1, <1>2, <2>2 DEF UpdateInv, Differ
  <2>3. CASE f \in Seen /\ kind \in Still /\ f \notin Changed(Fields)
    <3>1. f \in Fields => (f \in row.v <=> f \in config) BY <2>3, ChangedIs
    <3>2. f \in row.v <=> f \in config BY <1>1, <1>2, <3>1, PlannedKind
    <3>3. Agree(world[run.id].v, f) \/ (f \in world[run.id].v <=> f \in row.v)
      BY <1>2, <1>3, <2>3 DEF UpdateInv
    <3> QED BY <3>2, <3>3 DEF Agree
  <2> QED BY <1>6, <2>1, <2>2, <2>3 DEF Tracked
<1>7. ~Differ(world[run.id].v, config, Seen \cup Changed(Fields)) BY <1>6 DEF Differ
<1> QED BY <1>3, <1>7 DEF Applied, Answered

LEMMA InitReach == ASSUME Init PROVE ReachInv
<1>1. kind \in Kinds /\ refreshed = "no" /\ run = None /\ None \notin Objects[kind]
      /\ \A i \in Ids : world[i] = None \/ world[i] = Object("up", {})
  BY NoneAssumption DEF Init
<1> QED BY <1>1 DEF ReachInv, RunReach, WorldInv, FreshInv, Live, Object

\* A Create or Update of any kind that keeps to LifecycleRules, and ends well with the row
\* it planned and undisturbed, leaves the object up and as configured: every field after a
\* Create; after an Update what it changed and what Read sees, however earlier applies
\* failed, or their answers were lost, on the way.
THEOREM AppliesReach == Spec => AppliedMeansReached
<1>1. Init => TypeInv /\ ReachInv BY InitTyped, InitReach
<1>2. TypeInv /\ ReachInv /\ [Next]_vars => (TypeInv /\ ReachInv)'
  <2> SUFFICES ASSUME TypeInv, ReachInv, [Next]_vars PROVE TypeInv' /\ ReachInv' OBVIOUS
  <2>1. ReachInv' BY NextReach
  <2>2. CASE Next BY <2>1, <2>2, NextTyped
  <2>3. CASE UNCHANGED vars
    BY <2>1, <2>3 DEF vars, plans, cloud, TypeInv, TypePart, TypeOK, RunInv, ClaimInv, Fields,
       K, Live, P
  <2> QED BY <2>2, <2>3
<1>3. TypeInv /\ ReachInv /\ [Next]_vars =>
        [Finish /\ run.op \in {"create", "update"} /\ run.v = config /\ run.calm => Applied]_vars
  BY CreateReaches, UpdateReaches
<1> QED BY <1>1, <1>2, <1>3, PTL DEF Spec, AppliedMeansReached
=================================================================================
