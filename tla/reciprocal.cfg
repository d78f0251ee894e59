\* A modulus with the reciprocal of another.
SPECIFICATION NumbersSpec
CONSTANTS
  WordBits = 2
  LogWords = 1
  ByteBits = 1
  Moduli = {11, 13}
INVARIANT
  WrongReciprocalIsSafe
CHECK_DEADLOCK FALSE
