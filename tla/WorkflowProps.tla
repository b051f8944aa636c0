---------------------------- MODULE WorkflowProps ----------------------------
(***************************************************************************)
(* What workflows promise.                                                 *)
(***************************************************************************)
EXTENDS Workflow

\* No chunk is worked on twice: a chunk has at most one map job for each time a
\* caller executed the workflow, and the segments of a media workflow are mapped
\* once whatever is executed, retried or drained and whenever the service dies
\* and advances the workflow again (_advance_workflow_manifest).
JobsPerChunk ==
  \A w \in Flows, i \in 1..Chunks :
    Cardinality({x \in Maps(w) : x[2] = i}) <= (IF Kind[w] = "media" THEN 1 ELSE executions[w])

-------------------------------------------------------------------------------
(* Liveness *)

\* The service goes on with its pass and is started again when it died; as long
\* as jobs are queued or active some job is dispatched or ends.  Of callers nothing
\* is assumed.
QueueProgress == \E w \in Flows, x \in JobIds : JobStarts(w, x) \/ JobEnds(w, x)

WorkflowFairness == WF_vars(ServiceStep) /\ WF_vars(Restart) /\ WF_vars(QueueProgress)

FairWorkflowSpec == WorkflowSpec /\ WorkflowFairness

WorkflowServiceStays == <>[](pc[Service] # "down")

\* Callers and remediation do not retry for ever.
RetriesStop == <>[][~\E w \in Flows, x \in JobIds : JobRetried(w, x)]_vars

\* Every job has ended, and when none failed all stages have been worked on.
Finished(w) ==
  LET ended == {jobs[w][x] : x \in Present(w)}
  IN \/ ended \subseteq Terminal /\ ended \cap {"failed", "cancelled"} # {}
     \/ ended = {"succeeded"} /\ Maps(w) # {} /\ (w \in Merged \/ Reduce \in Present(w))

\* A workflow whose children were queued is worked off stage by stage, also when
\* the service dies between two children or before it saves the manifest; else it
\* is drained, or an approval stored the status it had in between as its end.
FlowsFinish ==
  WorkflowServiceStays /\ RetriesStop =>
    \A w \in Flows : manifest[w] = "queued" ~> Finished(w) \/ manifest[w] \in Kept

===============================================================================
