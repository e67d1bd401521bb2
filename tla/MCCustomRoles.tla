--------------------------- MODULE MCCustomRoles ---------------------------
(* Users, invitations, requests, roles and permissions are interchangeable.  *)
EXTENDS CustomRoles, TLC

CONSTANT Member  \* the role of neither the owner nor an admin; VIEWER has its rights

MCRoles == {Owner, Admin, Member}

MCSymmetry == Permutations(Users) \cup Permutations(Invitations) \cup Permutations(Requests)
              \cup Permutations(Custom) \cup Permutations(Permissions)
=============================================================================
