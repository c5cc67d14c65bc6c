-------------------------------- MODULE MCWaits --------------------------------
(* Two channels; pods of three deployments, traffic is expected at two;    *)
(* three zones, three server replicas.                                     *)
EXTENDS Waits

CONSTANTS c1, c2, a1, a2, b1, x1, p1, p2, z1, z2, z3, r1, r2, r3

MCDeployment ==
  [p \in Pods |-> CASE p \in {a1, a2} -> "server"
                    [] p = b1 -> "alternate"
                    [] OTHER -> "other"]
MCLoad == [firstMin |-> 1, secondMin |-> 0, max |-> 2]
===============================================================================
