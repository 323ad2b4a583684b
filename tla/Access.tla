------------------------------- MODULE Access -------------------------------
(***************************************************************************)
(* Who may call a route (src/src/security/rbac.py): roles, the tokens that *)
(* carry them and the dependency every protected route has.                *)
(***************************************************************************)
EXTENDS Naturals

Roles == {"ANALYST", "ENGINEER", "ADMIN"}

ROLE_HIERARCHY == [ANALYST |-> 1, ENGINEER |-> 2, ADMIN |-> 3]

\* What a request brings: no token, one that does not decode, one without the
\* claims sub and role, or one with both.
Tokens ==
    [claims : {"missing", "invalid", "incomplete", "complete"},
     role   : Roles \union {"unknown"}]

\* The tokens POST /auth/token signs for its three users.
Issued == [claims : {"complete"}, role : Roles]

require_role(token, minimum_role) ==
    IF token.claims # "complete" \/ token.role \notin Roles THEN "401"
    ELSE IF ROLE_HIERARCHY[token.role] < ROLE_HIERARCHY[minimum_role] THEN "403"
    ELSE "granted"

=============================================================================
