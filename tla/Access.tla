------------------------------- MODULE Access -------------------------------
(***************************************************************************)
(* The access-control helpers shared by the contracts (packages/contracts/ *)
(* contracts/types/src/helpers.rs).  A role's member list never holds an   *)
(* address twice, so a set of members stands for it; that the caller       *)
(* signed the transaction (require_auth) is what makes it the caller.      *)
(***************************************************************************)

\* require_role: the caller is listed among the members of the role
RequireRole(members, caller) == caller \in members

\* grant_role appends an account that is not yet listed
Granted(roles, role, account) == [roles EXCEPT ![role] = @ \cup {account}]

\* revoke_role rebuilds the list without the account
Revoked(roles, role, account) == [roles EXCEPT ![role] = @ \ {account}]
=============================================================================
