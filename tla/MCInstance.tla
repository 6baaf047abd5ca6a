----------------------------- MODULE MCInstance -----------------------------
(* Small instances of Instance.tla: the configurations each run lets the    *)
(* user write.                                                              *)
EXTENDS Instance

ImageCloud == {[volume |-> FALSE, confirms |-> FALSE]}
ConfirmingCloud == {[volume |-> FALSE, confirms |-> TRUE]}
\* A cloud that confirms resizes, and one whose servers boot from volumes.
BothClouds == ConfirmingCloud \cup {[volume |-> TRUE, confirms |-> FALSE]}

\* A configuration that leaves power_state, the owner and the groups out.
Plain(flavor, image) ==
    [there |-> TRUE, flavor |-> flavor, image |-> image,
     power |-> None, owner |-> None, groups |-> None]

Destroyed(c) == [c EXCEPT !.there = FALSE]

\* Resizes and rebuilds of a server whose power is left alone or managed.
ShapeConfigs ==
    {Plain("small", "v1"), Plain("large", "v1"), Plain("large", "v2"),
     [Plain("large", "v2") EXCEPT !.power = "PAUSED"]}

\* Boots, deletions, power, owner and groups, and what an apply may have to undo of
\* the one before it.
LifeConfigs ==
    {Plain("small", "v1"), Plain("large", "v1"),
     [Plain("large", "v2") EXCEPT !.power = "PAUSED"],
     [Plain("small", "v1") EXCEPT !.owner = "ann", !.groups = {"web", "db"}],
     [Plain("small", "v1") EXCEPT !.power = "SHUTOFF"],
     Destroyed(Plain("small", "v1"))}
=============================================================================
