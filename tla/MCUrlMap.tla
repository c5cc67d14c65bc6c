------------------------------- MODULE MCUrlMap -------------------------------
(* Three test classes; the first two have the same name. *)
EXTENDS UrlMap

MCOrder == <<"a", "a", "c">>
===============================================================================
