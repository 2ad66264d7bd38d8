---------------------------- MODULE MCPropertyGraph ---------------------------
(* PropertyGraph on a small instance.  Types are interchangeable. *)
EXTENDS PropertyGraph, TLC

Interchangeable == Permutations(Type)
==============================================================================
