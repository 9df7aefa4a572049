-------------------------------- MODULE MCJobs ---------------------------------
(* Two titles, queues of one place.  MCJobsLookups: metadata only, with a  *)
(* worker.  MCJobsRefreshes: refreshes and searches, with no lookup worker *)
(* so that the metadata that refreshes ask for stays in its queue.         *)
EXTENDS Jobs
================================================================================
