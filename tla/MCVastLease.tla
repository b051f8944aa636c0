----------------------------- MODULE MCVastLease ------------------------------
(***************************************************************************)
(* One queued and one direct job, a worker and a client, two instance ids, *)
(* one of which somebody else may take.                                    *)
(***************************************************************************)
EXTENDS VastLeaseProps, VastServerless, OrphanEvidenceChecks

\* The queued job may be retried once.
OneRetry == [j \in Jobs |-> IF j \in DirectJobs THEN 0 ELSE 1]
===============================================================================
