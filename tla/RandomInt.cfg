SPECIFICATION Spec
CONSTANTS
  Half = 8
  N = 3
INVARIANTS InRange DrawsUniform ShufflePermutes ShuffleUniform
