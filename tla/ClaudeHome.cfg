\* Two terminals launch two accounts, repair, and edit the accounts, with sessions
\* that write, an updater that comes back, and one command that is killed or that
\* cannot read a file.
SPECIFICATION FairSpec
CONSTANTS
  p1 = p1  p2 = p2  a = a  b = b  dir = dir
  None = None  Main = Main
  Procs = {p1, p2}
  Accounts = {a, b}
  Providers = {b}
  Dirs = {dir}
  Chains <- MCChains
  Starts <- MCStarts
  MaxServer = 2
  MaxEdits = 1
  MaxCommands = 1
  MaxMishaps = 1
INVARIANT StaysRemoved
PROPERTIES WordsKept ServersReach
