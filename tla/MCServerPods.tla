----------------------------- MODULE MCServerPods -----------------------------
(* Model checking of ServerPods: the pods of one deployment, in their order.  *)
EXTENDS ServerPods

TwoPods == 1..2
===============================================================================
