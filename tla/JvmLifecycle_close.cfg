CONSTANTS
  Instances = {a, b}
SPECIFICATION LifeSpec
INVARIANT OpenInstanceUsable
