---------------------------- MODULE MCPortGroups ----------------------------
(***************************************************************************)
(* Two associates share a port: "web" moves between two lists, "db" is     *)
(* shared or exclusive.                                                    *)
(***************************************************************************)
EXTENDS PortGroups
CONSTANTS web, db, port, g1, g2, process

MCParentOf == [r \in Resources |-> port]
MCProcOf == [r \in Resources |-> process]
Shared(S) == [managed |-> S, enforce |-> FALSE]
MCPlans == [r \in Resources |->
    IF r = web THEN {Shared({g1}), Shared({})}
    ELSE {Shared({g2}), [managed |-> {g2}, enforce |-> TRUE]}]
=============================================================================
