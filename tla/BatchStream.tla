------------------------------ MODULE BatchStream ------------------------------
(***************************************************************************)
(* What running a batch promises its client, as testExecuteBatchScript     *)
(* reads it: once a batch is loaded, the client receives the values of its *)
(* statements one at a time, each once and in order, and the run ends      *)
(* after the last.  Which values a batch has is the loader's business; the *)
(* stream only replays them.                                               *)
(***************************************************************************)
EXTENDS Naturals, Sequences

CONSTANT Values

VARIABLES
  running,  \* a batch is being consumed
  want,     \* the values the loaded batch has, in order
  out       \* the values the client has received so far

streamVars == <<running, want, out>>

StreamInit ==
  /\ running = FALSE
  /\ want = <<>>
  /\ out = <<>>

\* A batch is loaded: any sequence of values, nothing received yet.
Load ==
  /\ ~running
  /\ running' = TRUE
  /\ want' \in Seq(Values)
  /\ out' = <<>>

\* The client receives the next value of the batch.
Emit ==
  /\ running
  /\ Len(out) < Len(want)
  /\ out' = Append(out, want[Len(out) + 1])
  /\ UNCHANGED <<running, want>>

\* The run ends, and only after every value was received.
Finish ==
  /\ running
  /\ out = want
  /\ running' = FALSE
  /\ UNCHANGED <<want, out>>

StreamNext == Load \/ Emit \/ Finish

\* A loaded batch is consumed to its end.
StreamSpec == StreamInit /\ [][StreamNext]_streamVars /\ WF_streamVars(Emit) /\ WF_streamVars(Finish)
=============================================================================
