SPECIFICATION Spec
CHECK_DEADLOCK FALSE
CONSTANTS
  Titles = {t1, t2}
  Queries = {}
  Lookups = {w1}
  Refresher = refresher
  Searcher = searcher
  Scheduler = scheduler
  Callers = {c1}
  Asked = {"metadata"}
  Forces = {FALSE}
  Outcomes = {"ok", "timeout"}
  QueueCap = 1
  MaxAsks = 2
  MaxEvents = 1
PROPERTIES DroppedIsOwned
