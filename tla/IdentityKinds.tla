----------------------------- MODULE IdentityKinds -----------------------------
(***************************************************************************)
(* The resources of services/identity.  Keystone answers at once and with  *)
(* the object, so the answer of the POST is the row and nothing follows    *)
(* it; a PUT of a membership or an assignment sets what may be there.      *)
(***************************************************************************)
EXTENDS Steps

\* pcd_identity_application_credential belongs to the user the token is for, who is
\* looked up first; the secret is in the POST's answer only.
ApplicationCredentialReads == {"attributes"}
ApplicationCredentialReplaces == {"attributes"}
currentUserID == Ask
ApplicationCredentialCreate == <<currentUserID, Post({"attributes"})>>
ApplicationCredentialRead == <<currentUserID, Refresh(ApplicationCredentialReads)>>
ApplicationCredentialDelete == <<currentUserID, Destroy>>
ApplicationCredential == Resource({"attributes"}, ApplicationCredentialReplaces, {"named"},
    ApplicationCredentialCreate, ApplicationCredentialRead, <<>>,
    ApplicationCredentialDelete)

\* pcd_identity_group.
GroupReads == {"attributes"}
GroupCreate == <<Post({"attributes"})>>
GroupRead == <<Refresh(GroupReads)>>
GroupUpdate == <<SendAll({"attributes"})>>
GroupDelete == <<Destroy>>
Group == Resource({"attributes"}, {}, {"named"},
    GroupCreate, GroupRead, GroupUpdate, GroupDelete)

\* pcd_identity_group_membership: a user's being in a group.
GroupMembershipCreate == <<Put({})>>
GroupMembershipRead == <<Refresh({})>>
GroupMembershipDelete == <<Destroy>>
GroupMembership == Resource({}, {}, {"named"},
    GroupMembershipCreate, GroupMembershipRead, <<>>, GroupMembershipDelete)

\* pcd_identity_project.
ProjectReads == {"attributes"}
ProjectCreate == <<Post({"attributes"})>>
ProjectRead == <<Refresh(ProjectReads)>>
ProjectUpdate == <<SendAll({"attributes"})>>
ProjectDelete == <<Destroy>>
Project == Resource({"attributes"}, {}, {"named"},
    ProjectCreate, ProjectRead, ProjectUpdate, ProjectDelete)

\* pcd_identity_role.
RoleReads == {"attributes"}
RoleCreate == <<Post({"attributes"})>>
RoleRead == <<Refresh(RoleReads)>>
RoleUpdate == <<SendAll({"attributes"})>>
RoleDelete == <<Destroy>>
Role == Resource({"attributes"}, {}, {"named"},
    RoleCreate, RoleRead, RoleUpdate, RoleDelete)

\* pcd_identity_role_assignment: a role of a user or group on a project or domain; the
\* list of assignments says whether it is there.
roleAssignmentExists == Refresh({})
RoleAssignmentCreate == <<Put({})>>
RoleAssignmentRead == <<roleAssignmentExists>>
RoleAssignmentDelete == <<Destroy>>
RoleAssignment == Resource({}, {}, {"named"},
    RoleAssignmentCreate, RoleAssignmentRead, <<>>, RoleAssignmentDelete)

\* pcd_identity_user: the password is never read; the PUT carries it when it has changed.
UserReads == {"attributes"}
UserCreate == <<Post({"attributes", "password"})>>
UserRead == <<Refresh(UserReads)>>
UserUpdate == <<SendWith({"attributes"}, {"password"})>>
UserDelete == <<Destroy>>
User == Resource({"attributes", "password"}, {}, {"named"},
    UserCreate, UserRead, UserUpdate, UserDelete)

IdentityKinds == [
    applicationCredential |-> ApplicationCredential, group |-> Group,
    groupMembership |-> GroupMembership, project |-> Project, role |-> Role,
    roleAssignment |-> RoleAssignment, user |-> User]
=============================================================================
