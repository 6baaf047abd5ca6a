--------------------------------- MODULE Steps ---------------------------------
(***************************************************************************)
(* The vocabulary in which a resource's handlers are written down.         *)
(*                                                                         *)
(* Most resources of the provider are one object of one service, and their *)
(* Create, Read, Update and Delete differ in which requests they send, in  *)
(* which order, where the state row is written, and what a refused, lost   *)
(* or empty answer leads to.  A handler is therefore a sequence of steps,  *)
(* a kind of resource a record of four handlers, and the module Lifecycle  *)
(* says what each step does.  "of" is the set of fields, groups of the     *)
(* resource's arguments, that the step carries, and "also" of those it     *)
(* carries if they have changed.                                           *)
(***************************************************************************)
EXTENDS Sequences

Step(do, of) == [do |-> do, of |-> of, also |-> {}]

\* A request for or about something else that must succeed.
Ask == Step("ask", {})

\* The request that makes the object: its answer checked for the object, or left to
\* RecordCreated to refuse; a 500 after which it is sent again; a 409 taken for success;
\* a PUT that sets what is there.
Post(of) == Step("post", of)
PostUnchecked(of) == Step("postUnchecked", of)
PostRepeated(of) == Step("postRepeated", of)
PostOrAdopt(of) == Step("postOrAdopt", of)
Put(of) == Step("put", of)

\* tfstate.RecordCreated, or State.Set of the new id ahead of further requests; the
\* second makes an id even of an answer that has none.
Record == Step("record", {})
RecordUnchecked == Step("recordUnchecked", {})

\* A request about fields of the object: sent with those that are configured (Create)
\* or changed (Update), if any; or sent always, with all of them, or with what has changed
\* of the others.
Send(of) == Step("send", of)
SendAll(of) == Step("sendAll", of)
SendWith(of, also) == [Step("sendAll", of) EXCEPT !.also = also]

\* One that is answered before it is carried out, and one left out when the object has
\* the fields already.
SendWork(of) == Step("sendWork", of)
SendWorkIfUnlike(of) == Step("sendWorkIfUnlike", of)

\* An Update that takes away what the configuration has lost (a 404 is success), and one
\* that adds what it has gained.
Drop(of) == Step("drop", of)
Add(of) == Step("add", of)

\* One that takes fields away ahead of the DELETE, or only those the row has.
Clear(of) == Step("clear", of)
ClearRecorded(of) == Step("clearRecorded", of)

\* Polls until the object is up with the configured fields, or is not going to be; the
\* second writes what has come instead to the row, the third removes the row when the
\* object is gone; the last may be given up without an error.
Await(of) == Step("await", of)
AwaitOrSave(of) == Step("awaitOrSave", of)
AwaitOrDrop(of) == Step("awaitOrDrop", of)
AwaitBriefly == Step("awaitBriefly", {})

\* The GET at the end of Create and Update.  A 404 is an error; or an error that also
\* takes the row away; or, like any other failure, a warning.
ReadBack(of) == Step("readBack", of)
ReadBackOrDrop(of) == Step("readBackOrDrop", of)
ReadBackOrWarn(of) == Step("readBackOrWarn", of)

\* The GET of Read: a 404 removes the row.
Refresh(of) == Step("refresh", of)

\* The DELETE, a 404 of which is success; a PUT that does as much; and either of them
\* where a refusal may be left at a warning.
Destroy == Step("destroy", {})
Detach == Step("detach", {})
DestroyOrWarn == Step("destroyOrWarn", {})

\* The wait for the object to be gone, which may send the DELETE again, or be given up
\* without an error.
AwaitGone == Step("awaitGone", {})
AwaitGoneAgain == Step("awaitGoneAgain", {})
AwaitGoneBriefly == Step("awaitGoneBriefly", {})

\* A kind of resource.  replace: the fields a change of which replaces the object
\* (RequiresReplace in its Schema).  traits:
\*   named     the service refuses a second object of the same name or place
\*   built     the service answers the POST before the object is up
\*   reverts   work that came to nothing may leave the object up and as it was
\*   lingers   the service answers the DELETE before the object is gone
\*   standing  the object is there before and after (a quota)
\*   unheld    Delete ends well without the object being known to be gone
\* blocks: the fields that make the service refuse a DELETE; grows: those that nothing
\* takes away; undo: what Create does after its upload or import has failed.
Resource(fields, replace, traits, create, read, update, delete) ==
    [fields |-> fields, replace |-> replace, traits |-> traits, blocks |-> {}, grows |-> {},
     create |-> create, read |-> read, update |-> update, delete |-> delete,
     undo |-> <<>>]
=============================================================================
