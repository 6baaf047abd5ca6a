------------------------------ MODULE MCLifecycle ------------------------------
(* Every kind of resource, each with its own object, for TLC.              *)
EXTENDS TLC, FiniteSets, LifecycleRules, NetworkingKinds, BlockStorageKinds, ImageKinds, ComputeKinds,
        DnsKinds, KeyManagerKinds, IdentityKinds, ResmgrKinds

Merged ==
    NetworkingKinds @@ BlockStorageKinds @@ ImageKinds @@ ComputeKinds @@ DnsKinds
    @@ KeyManagerKinds @@ IdentityKinds @@ ResmgrKinds

\* Of kinds with the same handlers one is enough.
Different ==
    {CHOOSE k \in DOMAIN Merged : Merged[k] = r : r \in {Merged[k] : k \in DOMAIN Merged}}

\* The kinds that make an id of an answer without the object, or take it without one.
Unguarded ==
    {k \in Different : \E n \in DOMAIN Merged[k].create :
        \/ Merged[k].create[n].do = "recordUnchecked"
        \/ Merged[k].create[n].do = "postUnchecked" /\ n = Len(Merged[k].create)}
Guarded == Different \ Unguarded

\* Of three fields, none, any one or all are configured.
Few == [k \in Different |->
    {c \in SUBSET Merged[k].fields : Cardinality(c) \in {0, 1, Cardinality(Merged[k].fields)}}]

\* What the constants are replaced with only names another definition, which TLC
\* evaluates once.
AllKinds == Merged
KindNames == Different
BlankKinds == Guarded
FewConfigs == Few
ThreeIds == 1..3
=============================================================================
