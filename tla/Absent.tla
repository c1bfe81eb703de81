------------------------------- MODULE Absent -------------------------------
(* What null, undefined or an empty field is in the models of the two web     *)
(* applications.                                                              *)
CONSTANT None
=============================================================================
