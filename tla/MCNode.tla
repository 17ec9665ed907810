------------------------------- MODULE MCNode -------------------------------
(* A small instance of Node: three networks, two of them served. *)
EXTENDS Node

CONSTANTS n1, n2, n3

MCNetworks == {n1, n2, n3}
MCServed == <<n2, n1>>
=============================================================================
