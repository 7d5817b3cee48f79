---------------------------- MODULE MCMaxSelector ----------------------------
(* Values for MaxSelector: negative, zero (Go's initial max) and positive. *)
EXTENDS MaxSelector

MCValues == -1..1
=============================================================================
