SPECIFICATION Spec
CONSTANTS
  Users = {ann, bob}
  Groups = {team}
  NoUser = NoUser
  MaxActs = 3
INVARIANT SidebarCurrent
CHECK_DEADLOCK FALSE
