\* A clone in a worktree that is asked for together with the main checkout.
SPECIFICATION Spec
CONSTANTS
  a = a
  b = b
  t = t
  main = main
  wt = wt
  clone = clone
  outside = outside
  repo = repo
  other = other
  NoRepo = NoRepo
  Clients = {a, b, t}
  Processes = {t}
  Paths = {main, wt, clone, outside}
  RepoOf <- McRepoOf
  Under <- McUnder
  Requests <- Lists
  Entries = {"shared", "exclusive", "quiesce", "try"}
INVARIANTS PathIsolation
