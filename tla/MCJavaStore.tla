---------------------------- MODULE MCJavaStore ----------------------------
(* JavaStore on a small instance: one key of each store beside the identity *)
(* and age keys that the loader looks at.                                   *)
EXTENDS JavaStore

CONSTANTS pcpid, age, ageUp, userId, token

MCPropKeys == {pcpid, age, ageUp}
MCStringKeys == {userId}
MCNimbleKeys == {token}
MCIdKeys == {pcpid, userId}
=============================================================================
