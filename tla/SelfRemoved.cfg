\* An uninstall and another command, one after the other or at once, while a user
\* changes things and one step fails or one command is killed.
SPECIFICATION Spec
CONSTANTS
  p1 = p1  p2 = p2  link = link  zshrc = zshrc
  o1 = o1  o2 = o2  o3 = o3  o4 = o4  o5 = o5  o6 = o6  a1 = a1  a2 = a2
  None = None
  Procs = {p1, p2}
  Links = {link}
  Layouts <- MCLayouts
  Profiles = {zshrc}
  Own = {o1, o2, o3, o4, o5, o6}
  Alien = {a1, a2}
  Starts <- MCStarts
  Unreadable <- MCUnreadable
  MaxRuns = 2
  MaxChanges = 1
  MaxFaults = 1
SYMMETRY Symmetric
PROPERTIES LosesOnlyConfirmed SuccessMeansGone
CHECK_DEADLOCK FALSE
