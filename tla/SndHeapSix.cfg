SPECIFICATION Spec
CONSTANTS
  Socks = {s1, s2, s3, s4, s5, s6}
  Times = {1, 2, 3, 4}
SYMMETRY Symmetry
INVARIANT FirstIsEarliest
