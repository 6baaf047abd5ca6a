--------------------------- MODULE MCParentRoutes ---------------------------
(***************************************************************************)
(* Routes r1, r2 and r3 share a router, and r3 repeats r1's entry, as two  *)
(* blocks of a configuration may.                                          *)
(***************************************************************************)
EXTENDS ParentRoutes
CONSTANTS r1, r2, r3, router, e1, e2, process

MCParentOf == [r \in Resources |-> router]
MCEntryOf == [r \in Resources |-> IF r = r2 THEN e2 ELSE e1]
MCProcOf == [r \in Resources |-> process]
=============================================================================
