CONSTANTS
  s1 = s1
  s2 = s2
  Users = {1, 2}
  Sessions = {s1, s2}
SPECIFICATION ISpec
INVARIANT DeletedVanish
