SPECIFICATION Spec
CONSTANTS
  Server = {s1, s2}
  Request = {r1, r2}
  Mail = {m1}
  None = None
SYMMETRY Alike
INVARIANT ErasedStaysErased
