------------------------------- MODULE MCHttpd ------------------------------
(***************************************************************************)
(* The files that clients upload in the runs of Httpd: one of the size     *)
(* that the server wants for its type, one that is not, and one of a type  *)
(* of which every size is taken.                                           *)
(***************************************************************************)
EXTENDS Httpd

GoodAndBad == {[type |-> "art", len |-> 2], [type |-> "art", len |-> 3]}

Firmware == {[type |-> "firmware", len |-> 1]}
=============================================================================
