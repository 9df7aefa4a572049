SPECIFICATION Spec
CHECK_DEADLOCK FALSE
CONSTANTS
  Titles = {t1, t2}
  Queries = {q}
  Lookups = {}
  Refresher = refresher
  Searcher = searcher
  Scheduler = scheduler
  Callers = {c1}
  Asked = {"refresh"}
  Forces = {FALSE}
  Outcomes = {"ok", "transient", "timeout"}
  QueueCap = 1
  MaxAsks = 2
  MaxEvents = 1
INVARIANTS ActiveHasRunner
