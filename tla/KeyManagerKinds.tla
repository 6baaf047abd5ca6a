---------------------------- MODULE KeyManagerKinds ----------------------------
(***************************************************************************)
(* The resources of services/keymanager.  Barbican names an object by a    *)
(* URL, the id being its last part; the last part of no URL is ".", which  *)
(* RecordCreated does not take for an empty id.                            *)
(***************************************************************************)
EXTENDS Steps

\* pcd_keymanager_secret: the payload is sent by the POST and never read.
SecretReplaces == {"payload"}
waitForSecretActive == Await({})
SecretCreate ==
    <<PostUnchecked({"payload"}), RecordUnchecked, waitForSecretActive, ReadBackOrDrop({})>>
SecretRead == <<Refresh({})>>
SecretDelete == <<Destroy>>
Secret == Resource({"payload"}, SecretReplaces, {"built"},
    SecretCreate, SecretRead, <<>>, SecretDelete)

\* pcd_keymanager_container: the secrets it refers to are kept as they were configured.
ContainerReplaces == {"secret_refs"}
ContainerCreate == <<PostUnchecked({"secret_refs"}), RecordUnchecked, ReadBackOrDrop({})>>
ContainerRead == <<Refresh({})>>
ContainerDelete == <<Destroy>>
Container == Resource({"secret_refs"}, ContainerReplaces, {},
    ContainerCreate, ContainerRead, <<>>, ContainerDelete)

KeyManagerKinds == [secret |-> Secret, container |-> Container]
=============================================================================
