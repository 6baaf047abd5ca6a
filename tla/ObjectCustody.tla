----------------------------- MODULE ObjectCustody -----------------------------
(***************************************************************************)
(* What every resource promises about the object it manages: it makes one  *)
(* only while it holds none, and holds it, in the state or in the Create   *)
(* that is still running, until the object is no more.  The objects it     *)
(* does not hold are those whose POST got no usable answer; nobody else    *)
(* makes any.                                                              *)
(***************************************************************************)
CONSTANTS
    Ids,        \* the ids the service gives its objects
    None        \* no object

VARIABLES
    live,       \* the objects that exist
    held,       \* the one Terraform answers for, or None
    unclaimed   \* those made by a POST whose answer never came

vars == <<live, held, unclaimed>>

Init == live = {} /\ held = None /\ unclaimed = {}

Make(i) ==
    /\ held = None /\ i \notin live
    /\ live' = live \cup {i} /\ held' = i
    /\ UNCHANGED unclaimed

MakeUnanswered(i) ==
    /\ held = None /\ i \notin live
    /\ live' = live \cup {i} /\ unclaimed' = unclaimed \cup {i}
    /\ UNCHANGED held

\* terraform import, or a Create that takes a 409 for success.
Claim(i) ==
    /\ held = None /\ i \in unclaimed
    /\ held' = i /\ unclaimed' = unclaimed \ {i}
    /\ UNCHANGED live

\* Deleted, by the provider or by somebody else.
Vanish(i) ==
    /\ i \in live
    /\ live' = live \ {i} /\ unclaimed' = unclaimed \ {i}
    /\ UNCHANGED held

\* Terraform lets go of an object only when it is no more.
Forget ==
    /\ held # None /\ held \notin live
    /\ held' = None
    /\ UNCHANGED <<live, unclaimed>>

Next ==
    \/ \E i \in Ids : Make(i) \/ MakeUnanswered(i) \/ Claim(i) \/ Vanish(i)
    \/ Forget

Spec == Init /\ [][Next]_vars
=============================================================================
