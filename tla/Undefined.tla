------------------------------ MODULE Undefined ------------------------------
(***************************************************************************)
(* The value of a field or variable that has none, and of a document that  *)
(* is not there.                                                           *)
(***************************************************************************)

CONSTANT None  \* "undefined"
=============================================================================
