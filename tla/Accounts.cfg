CONSTANTS
  s1 = s1
  s2 = s2
  Users = {1, 2, 3, 4}
  Sessions = {s1, s2}
SPECIFICATION ISpec
INVARIANTS TypeOK TreeIsSet ActiveListed
PROPERTIES DeletedStaysOut NoComeback
SYMMETRY Interchangeable
