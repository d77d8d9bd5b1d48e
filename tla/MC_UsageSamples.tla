---------------------------- MODULE MC_UsageSamples ----------------------------
(* Values for the constants of UsageSamples. *)
EXTENDS UsageSamples

\* One Jaql object per sample call.
Slots == 1..2
====
