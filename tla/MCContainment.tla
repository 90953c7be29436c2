---------------------------- MODULE MCContainment ----------------------------
(* The containment rule on a small instance: two children, two identities. *)
EXTENDS Containment

MCChildren == <<"c1", "c2">>
==============================================================================
