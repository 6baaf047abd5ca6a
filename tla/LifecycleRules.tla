---------------------------- MODULE LifecycleRules ----------------------------
(***************************************************************************)
(* What the handlers of every kind of resource have in common, on which    *)
(* the proofs about Lifecycle rest: where an object is made, recorded and  *)
(* got rid of.  TLC evaluates these assumptions on the handlers as they    *)
(* are.                                                                    *)
(***************************************************************************)
EXTENDS Lifecycle

Ops == {"create", "read", "update", "delete", "undo"}

\* The steps that each handler is made of.
Works == {"ask", "awaitBriefly", "readBackOrWarn", "await", "awaitOrDrop"} \cup Sends \cup ReadBacks
Ends == {"ask", "awaitGone", "awaitGoneAgain", "awaitGoneBriefly"} \cup Clears \cup Destroys
Allowed == [
    create |-> Works \cup Posts \cup Records,
    read |-> {"ask", "refresh"} \cup ReadBacks,
    update |-> Works \cup {"awaitOrSave"},
    delete |-> Ends, undo |-> Ends]
StepsOf(k, op) ==
    [do : Allowed[op], of : SUBSET Kind[k].fields, also : SUBSET Kind[k].fields]

\* What is answered before it is carried out is waited for, and a quota is not held.
ASSUME HandlersAssumption == \A k \in Kinds :
    /\ \A op \in Ops :
          /\ Kind[k][op] \in Seq(StepsOf(k, op))
          /\ \A n \in DOMAIN Kind[k][op] :
                Kind[k][op][n].do \in Orders => n + 1 \in DOMAIN Kind[k][op]
    /\ "standing" \in Kind[k].traits => "unheld" \in Kind[k].traits

\* None is no configuration, row, operation or object.
ASSUME NoneAssumption == \A k \in Kinds :
    /\ \A fs \in SUBSET Kind[k].fields : None # fs
    /\ None \notin Rows[k] /\ None \notin Runs[k] /\ None \notin Objects[k]

\* One step of Create makes the object, after nothing but questions.
PostAt(k) == CHOOSE n \in DOMAIN Kind[k].create : Kind[k].create[n].do \in Posts

ASSUME PostAssumption == \A k \in Kinds :
    /\ PostAt(k) \in DOMAIN Kind[k].create
    /\ \A n \in DOMAIN Kind[k].create :
          /\ n < PostAt(k) => Kind[k].create[n].do = "ask"
          /\ n = PostAt(k) <=> Kind[k].create[n].do \in Posts
          /\ Kind[k].create[n].do \in Records => n > PostAt(k)

Held == {k \in Kinds : "unheld" \notin Kind[k].traits}

\* The next step, if there is one, records it, and no other does.
ASSUME RecordAssumption == \A k \in Held : \A n \in DOMAIN Kind[k].create :
    n = PostAt(k) + 1 <=> Kind[k].create[n].do \in Records

\* The steps that end well only when the object is no more.
Rids(k) ==
    {"awaitGone", "awaitGoneAgain"}
    \cup IF "lingers" \in Kind[k].traits THEN {} ELSE {"destroy", "detach"}

\* Delete has such a step, and so has what Create does after a failure.
ASSUME RidAssumption == \A k \in Held :
    /\ \E n \in DOMAIN Kind[k].delete : Kind[k].delete[n].do \in Rids(k)
    /\ Kind[k].undo # <<>> => \E n \in DOMAIN Kind[k].undo : Kind[k].undo[n].do \in Rids(k)

\* An answer without the object is refused, at the latest by RecordCreated.
ASSUME BlankAssumption == \A k \in Held \cap Blank :
    \A n \in DOMAIN Kind[k].create :
        /\ Kind[k].create[n].do # "recordUnchecked"
        /\ Kind[k].create[n].do = "postUnchecked" => n + 1 \in DOMAIN Kind[k].create

-----------------------------------------------------------------------------
(* What it takes for an apply that ends well to have reached the object.    *)

AllSteps(k) == UNION {{Kind[k][op][n] : n \in DOMAIN Kind[k][op]} : op \in Ops}
SeenBy(k) == UNION {Kind[k].read[n].of : n \in DOMAIN Kind[k].read}
Reverts == {k \in Kinds : "reverts" \in Kind[k].traits}

\* The kinds whose objects are never at work, but to be deleted; and those whose objects
\* are there and up, or not there.
Still == {k \in Kinds :
    "built" \notin Kind[k].traits /\ \A s \in AllSteps(k) : s.do \notin Orders}
Instant == {k \in Still :
    "lingers" \notin Kind[k].traits /\ \A s \in AllSteps(k) : s.do # "awaitGoneAgain"}

\* The kinds that have something to update.
Updatable == {k \in Kinds : Kind[k].fields \ Kind[k].replace # {}}

\* What is answered before it is carried out is waited for; what may come to nothing is
\* looked for by the wait, or, in an Update, by the GET at the end.
ASSUME OrderAssumption == \A k \in Kinds :
    /\ \A op \in Ops : \A n \in DOMAIN Kind[k][op] :
          Kind[k][op][n].do \in Orders => Kind[k][op][n + 1].do \in Awaits
    /\ k \in Reverts => \A n \in DOMAIN Kind[k].create :
          Kind[k].create[n].do \in Orders => Kind[k].create[n].of \subseteq Kind[k].create[n + 1].of
    /\ \A n \in DOMAIN Kind[k].update :
          \/ Kind[k].update[n].do \in Orders /\ k \in Reverts
          \/ Kind[k].update[n].do = "sendWorkIfUnlike"
          => Kind[k].update[n].of \subseteq SeenBy(k)

\* A Create waits for an object that the service builds, has every field sent, and takes
\* over only what is up.
ASSUME CreateAssumption == \A k \in Kinds :
    /\ "built" \in Kind[k].traits =>
          \E n \in DOMAIN Kind[k].create : n > PostAt(k) /\ Kind[k].create[n].do \in Awaits
    /\ Kind[k].create[PostAt(k)].do = "postOrAdopt" => k \in Instant
    /\ \A f \in Kind[k].fields : \E n \in DOMAIN Kind[k].create :
          /\ Kind[k].create[n].do \in (Posts \ {"postOrAdopt"}) \cup {"send", "sendAll"} \cup Orders
          /\ f \in Kind[k].create[n].of
    /\ \A n \in DOMAIN Kind[k].create : Kind[k].create[n].do \notin {"drop", "add"}
    /\ k \in Blank \ Held => Kind[k].create[PostAt(k)].do # "postUnchecked"

\* An Update sends every field that can change: as it is, or what it loses and what it
\* gains; and what the service works on it reads at the end.
ASSUME UpdateAssumption == \A k \in Updatable :
    /\ \A f \in Kind[k].fields \ Kind[k].replace :
          \/ \E n \in DOMAIN Kind[k].update :
                \/ /\ Kind[k].update[n].do \in {"send", "sendAll"} \cup Orders
                   /\ f \in Kind[k].update[n].of
                \/ Kind[k].update[n].do = "sendAll" /\ f \in Kind[k].update[n].also
          \/ \A do \in {"drop", "add"} : \E n \in DOMAIN Kind[k].update :
                Kind[k].update[n].do = do /\ f \in Kind[k].update[n].of
    /\ k \notin Instant => \A n \in DOMAIN Kind[k].update :
          Kind[k].update[n].do \notin {"drop", "add"}
    /\ k \notin Still =>
          /\ Kind[k].update # <<>>
          /\ Kind[k].update[Len(Kind[k].update)].do \in ReadBacks
          /\ SeenBy(k) \subseteq Kind[k].update[Len(Kind[k].update)].of

\* A Read of such a kind asks for the object.
ASSUME ReadAssumption == \A k \in Updatable :
    /\ \E n \in DOMAIN Kind[k].read : Kind[k].read[n].do # "ask"
    /\ \A n \in DOMAIN Kind[k].read : Kind[k].read[n].do = "ask" => Kind[k].read[n].of = {}
=============================================================================
