----------------------------- MODULE MCIamPolicy ------------------------------
(* Model checking of IamPolicy: jobs with a member of their own or a shared *)
(* one, one role, one conditional binding that must survive.                *)
EXTENDS IamPolicy, TLC

CONSTANTS j1, j2, m1, m2, wiUser, none, cond

MCSymmetry == Permutations({j1, j2}) \cup Permutations({m1, m2})
===============================================================================
