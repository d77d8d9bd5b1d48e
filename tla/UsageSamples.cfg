\* usageSamples.py: every program of at most two sample calls.
CONSTANTS
  MaxCalls = 2
  Instances <- Slots
SPECIFICATION SamplesSpec
INVARIANT SampleFailuresHandled
\* The script stops: after its last call, or with a traceback.
CHECK_DEADLOCK FALSE
