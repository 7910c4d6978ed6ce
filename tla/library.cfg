SPECIFICATION MCSpec
CONSTANTS
  MaxStarts = 3
  Waiters = {w1, w2, w3}
  OctetBits = 1
  WordOctets = 2
  FieldWords = 2
  Lost = Lost
INVARIANTS
  WaitSound
  EventWakes
  Released
  NumbersExact
  Carried
