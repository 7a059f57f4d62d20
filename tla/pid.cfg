CONSTANTS
  Pids = {p1, p2}
  NoPid = NoPid
  Short = {p2}
  Tasks = {t1, t2}
  Escalations = {"pkexec", "sudo"}
  PsOutcomes = {"prints", "silent", "fails"}
  Refusals = TRUE
SPECIFICATION FairSpec
CHECK_DEADLOCK FALSE
INVARIANTS RecordInv
PROPERTIES StrangersSpared KillTakesEffect
