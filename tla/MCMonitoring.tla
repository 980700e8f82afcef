---------------------------- MODULE MCMonitoring ----------------------------
(***************************************************************************)
(* A request and a worker, and one query, for Monitoring.                  *)
(***************************************************************************)
EXTENDS Monitoring

CONSTANTS t1, t2

MCThreads == {t1, t2}
MCWorkers == {t2}
MCPaths == {"logs", "items"}
MCLoggers == {"ept", "httpx"}
MCStatuses == {200, 500}
MCKinds == {[level |-> 1, logger |-> "ept"], [level |-> 3, logger |-> "httpx"]}
MCQueries == {[level |-> 1, logger |-> "ept", since |-> 0, limit |-> 2]}

=============================================================================
