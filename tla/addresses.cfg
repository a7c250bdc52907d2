CONSTANTS
  Keys = {k1, k2, k3, k4}
  MinOctet = 2
  MaxOctet = 6
  Free = Free
SPECIFICATION Spec
INVARIANT Inv
