-------------------------- MODULE MCWriteAdmission --------------------------
(***************************************************************************)
(* Three foreground and two background writers: with one of them writing,  *)
(* either queue can fill up.                                               *)
(***************************************************************************)
EXTENDS WriteAdmission

CONSTANTS f1, f2, f3, b1, b2

MCForeground == {f1, f2, f3}
MCWriters == {f1, f2, f3, b1, b2}
=============================================================================
