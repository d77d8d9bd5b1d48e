----------------------------- MODULE MC_RoundTrip -----------------------------
(* Values for the constants of RoundTrip; the host values are MC_PyJaql's. *)
EXTENDS MC_PyJaql, RoundTrip

\* Two byte strings the caller starts with.
TwoStrs == {Str(1), Str(2)}
====
