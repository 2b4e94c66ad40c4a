\* One thread that waits for two variables, neither of which is excluded: one
\* that is set early counts once for each pass.
CONSTANTS
  Thread = {t1}
  NoThread = NoThread
  Multiple = FALSE
  N = 2
  Width = 2
  Values = {0, 1}
  Cmps = {"eq"}
  Statuses = {{}}
SPECIFICATION Spec
INVARIANTS
  AllWaitedFor
