SPECIFICATION Spec
CONSTANTS
  Users = {ann, bob}
  Groups = {team}
  NoUser = NoUser
  MaxActs = 4
INVARIANTS TypeOK ChangesAreTold
CHECK_DEADLOCK FALSE
