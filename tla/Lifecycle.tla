------------------------------- MODULE Lifecycle -------------------------------
(***************************************************************************)
(* One resource, the object its service keeps for it, and Terraform run    *)
(* again and again until nothing is left to do.                            *)
(*                                                                         *)
(* Kind gives the handlers of every kind of resource as sequences of the   *)
(* steps of module Steps; which kind it is, is chosen once.  Between two   *)
(* steps the service works, fails, or somebody else changes or deletes the *)
(* object; any answer may be an error, be lost, or lack the object.        *)
(***************************************************************************)
EXTENDS Steps, Naturals
CONSTANTS
    Kinds, Kind,        \* the kinds of resource and their handlers
    Configs,            \* the configurations of every kind: sets of fields
    Blank,              \* kinds whose service may answer 2xx without the object
    Ids, None, NoId,    \* object ids, no object, and the id of a blank answer
    MaxTrouble,         \* bound: failures, lost answers and outside acts
    MaxEdits            \* bound: edits of the configuration

ASSUME IdsAssumption == /\ Ids \subseteq Nat /\ None \notin Ids
                        /\ NoId \notin Ids /\ NoId # None
ASSUME ConfigsAssumption == \A k \in Kinds : Configs[k] \subseteq SUBSET Kind[k].fields
ASSUME BoundsAssumption == MaxTrouble \in Nat /\ MaxEdits \in Nat

VARIABLES
    kind,       \* the kind of this resource
    config,     \* the configured fields that are set, or None
    row,        \* Terraform's row, or None
    refreshed,  \* whether this apply has read the row: "no", "yes", "stale"
    run,        \* the operation that runs, or None
    world,      \* the service's objects
    unclaimed,  \* those whose POST was never answered
    trouble, edits

vars == <<kind, config, row, refreshed, run, world, unclaimed, trouble, edits>>
plans == <<kind, config, edits>>
cloud == <<world, unclaimed>>

K == Kind[kind]
Fields == K.fields
Has(trait) == trait \in K.traits

\* Values are the set of fields that are set.
Merge(old, of, new) == (old \ of) \cup (new \cap of)
Differ(a, b, of) == a \cap of # b \cap of

\* Of every kind.
Objects == [k \in Kinds |->
    [st : {"building", "up", "failed", "deleting"},
     v : SUBSET Kind[k].fields, next : SUBSET Kind[k].fields]]
Rows == [k \in Kinds |->
    [id : Ids \cup {NoId}, v : SUBSET Kind[k].fields, tainted : BOOLEAN]]
Runs == [k \in Kinds |->
    [op : {"create", "read", "update", "delete", "undo"}, pc : Nat \ {0},
     id : Ids \cup {None, NoId}, v : SUBSET Kind[k].fields, calm : BOOLEAN]]
Object(st, v) == [st |-> st, v |-> v, next |-> v]

\* The fields that Read sees.
Seen == UNION {K.read[n].of : n \in DOMAIN K.read}

Live == {i \in Ids : world[i] # None}

TypeOK ==
    /\ kind \in Kinds
    /\ config = None \/ config \subseteq Fields
    /\ row = None \/ row \in Rows[kind]
    /\ refreshed \in {"no", "yes", "stale"}
    /\ run # None => run \in Runs[kind] /\ run.pc <= Len(K[run.op]) + 1
    /\ world \in [Ids -> {None} \cup Objects[kind]]
    /\ unclaimed \subseteq Live
    /\ trouble \in 0..MaxTrouble /\ edits \in 0..MaxEdits

Init ==
    /\ kind \in Kinds
    /\ config \in Configs[kind]
    /\ row = None /\ refreshed = "no" /\ run = None
    /\ world = [i \in Ids |-> IF Has("standing") /\ i = 1 THEN Object("up", {}) ELSE None]
    /\ unclaimed = {}
    /\ trouble = 0 /\ edits = 0

-----------------------------------------------------------------------------
(* Terraform core.                                                         *)

Trouble == trouble < MaxTrouble /\ trouble' = trouble + 1
Quiet == UNCHANGED trouble

\* What the plan calls for; a row is refreshed before anything else.
Todo ==
    IF row = None THEN IF config = None THEN "nothing" ELSE "create"
    ELSE IF refreshed = "no" THEN "read"
    ELSE IF config = None \/ row.tainted \/ Differ(row.v, config, K.replace) THEN "delete"
    ELSE IF row.v # config THEN "update"
    ELSE IF refreshed = "stale" THEN "read" ELSE "nothing"

Start ==
    /\ run = None /\ Todo # "nothing"
    /\ run' = [op |-> Todo, pc |-> 1, calm |-> refreshed # "stale",
               id |-> IF row = None THEN None ELSE row.id,
               v |-> IF Todo \in {"create", "update"} THEN config ELSE row.v]
    /\ refreshed' = IF Todo = "read" THEN "yes" ELSE refreshed
    /\ Quiet /\ UNCHANGED <<plans, row, cloud>>

\* An operation that ends well.  A Create or Update whose row differs from its plan is
\* inconsistent to core, which ends the apply; a Create's row it taints.
Finish ==
    /\ run # None /\ run.pc = Len(K[run.op]) + 1
    /\ row' = CASE run.op = "create" -> [id |-> run.id, v |-> run.v, tainted |-> run.v # config]
                [] run.op \in {"read", "update"} -> [row EXCEPT !.id = run.id, !.v = run.v]
                [] OTHER -> None
    /\ refreshed' = IF run.op \in {"create", "update"} /\ run.v # config
                    THEN "no" ELSE refreshed
    /\ run' = None
    /\ Quiet /\ UNCHANGED <<plans, cloud>>

\* The user edits the configuration, or imports an object nobody answers for.  What
\* no Read sees is null in an imported row; the object has the default there.
Edit ==
    /\ run = None /\ edits < MaxEdits
    /\ config' \in ({None} \cup Configs[kind]) \ {config}
    /\ edits' = edits + 1 /\ refreshed' = "no"
    /\ Quiet /\ UNCHANGED <<kind, row, run, cloud>>

Import ==
    /\ run = None /\ row = None /\ config # None
    /\ \E i \in unclaimed :
          /\ world[i].next \subseteq Seen
          /\ row' = [id |-> i, v |-> {}, tainted |-> FALSE]
          /\ unclaimed' = unclaimed \ {i}
    /\ refreshed' = "no"
    /\ Quiet /\ UNCHANGED <<plans, run, world>>

-----------------------------------------------------------------------------
(* The handlers, one step at a time.                                       *)

At(steps) == /\ run # None /\ run.pc \in DOMAIN K[run.op]
             /\ K[run.op][run.pc].do \in steps
Of == K[run.op][run.pc].of
Also == K[run.op][run.pc].also
Is(step) == K[run.op][run.pc].do = step

Go == run' = [run EXCEPT !.pc = @ + 1] /\ UNCHANGED refreshed
Fail == run' = None /\ refreshed' = "no"

\* Create may tidy up after a failure of its own work.
FailAfterUndo ==
    IF K.undo = <<>> \/ run.op # "create" THEN Fail
    ELSE run' = [run EXCEPT !.op = "undo", !.pc = 1] /\ UNCHANGED refreshed

Posts == {"post", "postUnchecked", "postRepeated", "postOrAdopt", "put"}
Records == {"record", "recordUnchecked"}
Orders == {"sendWork", "sendWorkIfUnlike"}
Sends == {"send", "sendAll", "drop", "add"} \cup Orders
Clears == {"clear", "clearRecorded"}
Awaits == {"await", "awaitOrSave", "awaitOrDrop"}
ReadBacks == {"readBack", "readBackOrDrop"}
Destroys == {"destroy", "detach", "destroyOrWarn"}

Refusable ==
    {"ask", "awaitGone", "awaitGoneAgain", "refresh"}
    \cup Posts \cup Sends \cup Clears \cup Awaits \cup ReadBacks \cup Destroys

\* A request is refused, or what it asks for times out or answers without the object.
Refused ==
    /\ At(Refusable)
    /\ Trouble
    /\ IF At(Orders) THEN FailAfterUndo ELSE Fail
    /\ UNCHANGED <<plans, row, cloud>>

Asked ==
    /\ At({"ask"}) /\ Go
    /\ Quiet /\ UNCHANGED <<plans, row, cloud>>

\* Ids are given out in order, and again after an object is gone: no row names it then.
Free == {i \in Ids \ Live : \A j \in Ids \ Live : i <= j}

Make(i) ==
    world' = [world EXCEPT
        ![i] = Object(IF Has("built") THEN "building" ELSE "up", config \cap Of)]

\* The POST is carried out.  Without its answer the handler fails, and knows no id;
\* an answer without the object is no better, unless it goes unchecked.
PostDone ==
    /\ At(Posts) /\ ~(Has("named") /\ Live # {})
    /\ \E i \in Free :
          /\ Make(i)
          /\ \/ /\ run' = [run EXCEPT !.pc = @ + 1, !.id = i]
                /\ Quiet /\ UNCHANGED <<unclaimed, refreshed>>
             \/ /\ Trouble /\ unclaimed' = unclaimed \cup {i}
                /\ \/ Fail
                   \/ Is("postRepeated") /\ UNCHANGED <<run, refreshed>>
                   \/ /\ Is("postUnchecked") /\ kind \in Blank
                      /\ run' = [run EXCEPT !.pc = @ + 1, !.id = NoId]
                      /\ UNCHANGED refreshed
    /\ UNCHANGED <<plans, row>>

\* Mutant of PostTaken: what is there is taken for success, whoever it is.
PostTakenBlindly ==
    /\ At(Posts) /\ Has("named") /\ Live # {} /\ Go
    /\ Quiet /\ UNCHANGED <<plans, row, cloud>>

\* The service has an object of that name already.
PostTaken ==
    /\ At(Posts) /\ Has("named")
    /\ \E i \in Live :
          IF Is("postOrAdopt") \/ Is("put")
          THEN /\ world' = [world EXCEPT
                    ![i] = IF Is("put") THEN Object("up", Merge(@.v, Of, config)) ELSE @]
               /\ \/ /\ run' = [run EXCEPT !.pc = @ + 1, !.id = i]
                     /\ unclaimed' = unclaimed \ {i}
                     /\ Quiet /\ UNCHANGED refreshed
                  \/ Trouble /\ Fail /\ UNCHANGED unclaimed
          ELSE Fail /\ Quiet /\ UNCHANGED cloud
    /\ UNCHANGED <<plans, row>>

\* Mutant of RecordCreated: the row is written whatever the id.
RecordCreatedBlindly ==
    /\ At(Records) /\ Go
    /\ row' = [id |-> run.id, v |-> config, tainted |-> TRUE]
    /\ Quiet /\ UNCHANGED <<plans, cloud>>

RecordCreated ==
    /\ At(Records)
    /\ IF run.id = NoId /\ Is("record") THEN Fail /\ UNCHANGED row
       ELSE Go /\ row' = [id |-> run.id, v |-> config, tainted |-> TRUE]
    /\ Quiet /\ UNCHANGED <<plans, cloud>>

\* A Create knows what it has just made, or found.
Made(i) == IF i \in Live THEN world[i].v ELSE {}

Needless ==
    IF run.op = "create" THEN Is("send") /\ ~Differ(Made(run.id), config, Of)
    ELSE CASE Is("sendAll") -> FALSE
           [] Is("drop") -> row.v \cap Of \subseteq config \/ run.id \notin Live
           [] Is("add") -> config \cap Of \subseteq row.v
           [] Is("sendWorkIfUnlike") /\ run.id \in Live ->
                 ~Differ(row.v, config, Of) \/ ~Differ(world[run.id].v, config, Of)
           [] OTHER -> ~Differ(row.v, config, Of)

Changed(of) == {f \in of : Differ(row.v, config, {f})}

\* What the object is to have after the request.
Sent(now) ==
    CASE Is("drop") -> now \ ((row.v \ config) \cap Of)
      [] Is("add") -> now \cup (config \cap Of)
      [] Is("send") /\ run.op = "update" -> Merge(now, Changed(Of), config)
      [] OTHER -> Merge(now, Of \cup Changed(Also), config)

\* Work that is not asked for is not waited for either.
SendSkipped ==
    /\ At(Sends) /\ Needless
    /\ run' = [run EXCEPT !.pc = @ + IF At(Orders) THEN 2 ELSE 1] /\ UNCHANGED refreshed
    /\ Quiet /\ UNCHANGED <<plans, row, cloud>>

IsUp(i) == i \in Live /\ world[i].st = "up"

\* An object that is gone, still at work, or broken takes no such request, and none
\* takes away what only grows.
Sendable ==
    /\ IsUp(run.id)
    /\ run.op = "update" => (row.v \ config) \cap K.grows \cap Of = {}

SendDone ==
    /\ At(Sends) /\ ~Needless /\ Sendable
    /\ LET now == world[run.id].v
           new == Sent(now)
       IN  world' = [world EXCEPT ![run.id] =
               IF At(Orders) THEN [st |-> "building", v |-> now, next |-> new]
               ELSE Object("up", new)]
    /\ \/ Go /\ Quiet
       \/ Trouble /\ IF At(Orders) THEN FailAfterUndo ELSE Fail
    /\ UNCHANGED <<plans, row, unclaimed>>

SendRejected ==
    /\ At(Sends) /\ ~Needless /\ ~Sendable
    /\ IF At(Orders) THEN FailAfterUndo ELSE Fail
    /\ Quiet /\ UNCHANGED <<plans, row, cloud>>

Cleared ==
    /\ At(Clears)
    /\ IF run.id \in Live /\ (Is("clear") \/ row.v \cap Of # {})
       THEN world' = [world EXCEPT ![run.id].v = @ \ Of, ![run.id].next = @ \ Of]
       ELSE UNCHANGED world
    /\ \/ Go /\ Quiet
       \/ Fail /\ Trouble
    /\ UNCHANGED <<plans, row, unclaimed>>

\* Mutant of AsOrdered: an object that is up is taken for one that has what was asked for.
AsOrderedOnceUp == TRUE

\* Whether the object has what the wait is for; work that came to nothing leaves it without.
AsOrdered == ~Differ(world[run.id].v, config, Of)

\* The wait ends with what was asked for, or fails as soon as that will not come.  Work
\* that failed may be tidied up after.
Awaited ==
    /\ At(Awaits)
    /\ \/ IsUp(run.id) /\ AsOrdered /\ Go /\ UNCHANGED row
       \/ /\ IsUp(run.id) /\ ~AsOrdered /\ Fail
          /\ row' = IF Is("awaitOrSave")
                    THEN [row EXCEPT !.v = Merge(config, Seen, world[run.id].v)] ELSE row
       \/ /\ run.id \notin Live /\ Fail
          /\ row' = IF Is("awaitOrDrop") THEN None ELSE row
       \/ /\ run.id \in Live /\ world[run.id].st \in {"failed", "deleting"}
          /\ Fail \/ FailAfterUndo
          /\ UNCHANGED row
    /\ Quiet /\ UNCHANGED <<plans, cloud>>

AwaitedBriefly ==
    /\ At({"awaitBriefly"}) /\ Go
    /\ \/ Quiet /\ (run.id \in Live => world[run.id].st # "building")
       \/ Trouble
    /\ UNCHANGED <<plans, row, cloud>>

Saw == run' = [run EXCEPT !.pc = @ + 1, !.v = Merge(@, Of, world[run.id].v)]

BackRead ==
    /\ At(ReadBacks \cup {"readBackOrWarn"})
    /\ \/ run.id \in Live /\ Saw /\ Quiet /\ UNCHANGED <<refreshed, row>>
       \/ /\ run.id \notin Live /\ ~Is("readBackOrWarn") /\ Fail /\ Quiet
          /\ row' = IF Is("readBackOrDrop") THEN None ELSE row
       \/ /\ Is("readBackOrWarn") /\ Go /\ UNCHANGED row
          /\ \/ run.id \notin Live /\ Quiet
             \/ Trouble
    /\ UNCHANGED <<plans, cloud>>

Refreshed ==
    /\ At({"refresh"})
    /\ \/ run.id \in Live /\ Saw /\ UNCHANGED row
       \/ run.id \notin Live /\ run' = None /\ row' = None
    /\ Quiet /\ UNCHANGED <<plans, refreshed, cloud>>

\* Only a DELETE whose answer is lost is sent again (clients/retry.go).
Destroyed ==
    /\ At(Destroys)
    /\ \/ run.id \notin Live /\ Go /\ Quiet /\ UNCHANGED world
       \/ run.id \in Live /\ world[run.id].v \cap K.blocks # {} /\ Fail /\ Quiet /\ UNCHANGED world
       \/ /\ run.id \in Live /\ world[run.id].v \cap K.blocks = {}
          /\ world' = [world EXCEPT
                ![run.id] = IF Has("lingers") THEN [@ EXCEPT !.st = "deleting"] ELSE None]
          /\ \/ Go /\ Quiet
             \/ Fail /\ Trouble
             \/ ~Is("detach") /\ UNCHANGED <<run, refreshed>> /\ Trouble
       \/ Is("destroyOrWarn") /\ Go /\ Trouble /\ UNCHANGED world
    /\ UNCHANGED <<plans, row, unclaimed>>

GoneAwaited ==
    /\ At({"awaitGone", "awaitGoneAgain", "awaitGoneBriefly"})
    /\ \/ run.id \notin Live /\ Go /\ Quiet /\ UNCHANGED world
       \/ /\ run.id \in Live /\ world[run.id].st # "deleting"
          /\ \/ Is("awaitGone") /\ Fail /\ UNCHANGED world
             \/ /\ Is("awaitGoneAgain") /\ UNCHANGED <<run, refreshed>>
                /\ world' = [world EXCEPT ![run.id].st = "deleting"]
          /\ Quiet
       \/ Is("awaitGoneBriefly") /\ Go /\ Trouble /\ UNCHANGED world
    /\ UNCHANGED <<plans, row, unclaimed>>

Handle ==
    \/ Refused \/ Asked \/ PostDone \/ PostTaken \/ RecordCreated
    \/ SendSkipped \/ SendDone \/ SendRejected \/ Cleared
    \/ Awaited \/ AwaitedBriefly \/ BackRead \/ Refreshed
    \/ Destroyed \/ GoneAwaited

-----------------------------------------------------------------------------
(* The service, and everybody else.                                        *)

\* The row a finished refresh saw is stale from now on.
Stale == refreshed' = IF refreshed = "yes" THEN "stale" ELSE refreshed

ServiceWorks(i) ==
    /\ i \in Live
    /\ \/ world[i].st = "building" /\ world' = [world EXCEPT ![i] = Object("up", @.next)]
       \/ world[i].st = "deleting" /\ world' = [world EXCEPT ![i] = None]
    /\ unclaimed' = unclaimed \cap {j \in Ids : world'[j] # None}
    /\ Stale /\ Quiet /\ UNCHANGED <<plans, row, run>>

\* Work in vain leaves a broken object, or one as it was before.
ServiceFails(i) ==
    /\ i \in Live /\ Trouble
    /\ \/ /\ world[i].st \in {"building", "deleting"}
          /\ world' = [world EXCEPT ![i] = Object("failed", @.v)]
       \/ /\ Has("reverts") /\ world[i].st = "building" /\ world[i].v # world[i].next
          /\ world' = [world EXCEPT ![i] = Object("up", @.v)]
    /\ Stale /\ UNCHANGED <<plans, row, run, unclaimed>>

Disturb == Stale /\ run' = IF run = None THEN None ELSE [run EXCEPT !.calm = FALSE]

\* What no Read looks for is not deleted behind Terraform's back: nothing could tell.
OutsideDeletes(i) ==
    /\ i \in Live /\ ~Has("standing") /\ K.read # <<>> /\ Trouble
    /\ world' = [world EXCEPT ![i] = None]
    /\ unclaimed' = unclaimed \ {i}
    /\ Disturb /\ UNCHANGED <<plans, row>>

\* Nobody changes what only a POST can set, or what nobody sees.
OutsideChanges(i) ==
    /\ i \notin unclaimed /\ IsUp(i) /\ Trouble
    /\ \E f \in Seen \ K.replace :
          world' = [world EXCEPT ![i] =
              Object("up", IF f \in @.v THEN @.v \ {f} ELSE @.v \cup {f})]
    /\ Disturb /\ UNCHANGED <<plans, row, unclaimed>>

Terraform == Start \/ Finish \/ Handle

Next ==
    \/ Terraform \/ Edit \/ Import
    \/ \E i \in Ids : ServiceWorks(i) \/ ServiceFails(i) \/ OutsideDeletes(i) \/ OutsideChanges(i)

\* Terraform is run until there is nothing to do, and the service carries out what it
\* accepted.  Nobody has to edit, import, fail or interfere.
Fairness == WF_vars(Terraform) /\ \A i \in Ids : WF_vars(ServiceWorks(i))

Spec == Init /\ [][Next]_vars
FairSpec == Spec /\ Fairness

-----------------------------------------------------------------------------
(* Properties.                                                             *)

\* The object the running Create has made, else the one the row names.
held ==
    IF Has("unheld") THEN None
    ELSE IF run # None /\ run.op = "create" /\ row = None /\ run.id \in Ids THEN run.id
    ELSE IF row = None THEN None ELSE row.id

Custody == INSTANCE ObjectCustody WITH
    Ids <- Ids, None <- None, held <- held,
    live <- IF Has("unheld") THEN {} ELSE Live,
    unclaimed <- IF Has("unheld") THEN {} ELSE unclaimed

\* The handlers implement ObjectCustody: whatever fails, is lost, or interferes, an
\* object is held until it is no more, and only the POSTs whose answer was lost or
\* empty leave one behind (tfstate.go, RecordCreated).
KeepsCustody == Custody!Spec

\* A Create answers for every field, those too that no Read would ever see again; an
\* Update for what it changes and what Read sees.  (Of the rest the provider cannot know:
\* a change that no Read sees, carried out without an answer and then taken back by the
\* user, stays.)
Answered == IF run.op = "create" THEN Fields ELSE Seen \cup Changed(Fields)

\* A Create or Update that ends well, its row as planned (core complains of any other)
\* and nobody having interfered, leaves the object up and as configured.
Applied == IsUp(run.id) /\ ~Differ(world[run.id].v, config, Answered)
AppliedMeansReached ==
    [][Finish /\ run.op \in {"create", "update"} /\ run.v = config /\ run.calm => Applied]_vars

\* Whether a Create takes over what is there.
Adopts == \E n \in DOMAIN K.create : K.create[n].do \in {"postOrAdopt", "put"}

\* What more applies cannot mend: an object of the same name that nobody imports, one
\* that broke during an update, and one that would have to shrink.
NeedsPerson ==
    \/ Has("named") /\ ~Adopts /\ row = None /\ Live # {} /\ config # None
    \/ row # None /\ ~row.tainted /\ row.id \in Live /\ world[row.id].st = "failed"
    \/ row # None /\ config # None /\ (row.v \ config) \cap K.grows # {}

AsConfigured ==
    IF config = None THEN row = None
    ELSE /\ row # None /\ row.v = config /\ ~row.tainted
         /\ IsUp(row.id) /\ ~Differ(world[row.id].v, config, Seen)

\* Run again and again, Terraform ends with the object as it is configured.
Converges == <>[](AsConfigured \/ NeedsPerson)
=============================================================================
