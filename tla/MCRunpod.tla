------------------------------- MODULE MCRunpod -------------------------------
(***************************************************************************)
(* Jobs in pods and at the endpoint beside an operator's command, and the  *)
(* artifacts and probes over which the evidence of a probe is checked.     *)
(***************************************************************************)
EXTENDS Runpod, ProbeEvidenceChecks

Files == [f \in {"result.json", "metrics.json", "verify.json", "stdout.log"} |-> "sum"]

\* A worker that did all it was asked for.
Sound ==
  [probe |-> [image |-> {"worker"}, digest |-> "d1", cleanup |-> TRUE],
   metrics |-> [gpu_utilization |-> TRUE, cache_hit |-> TRUE], result |-> [text |-> TRUE, model |-> "big"],
   verify |-> [ok |-> TRUE], files |-> Files, broken |-> {}, manifest |-> Unset, mentions |-> <<>>, text |-> {},
   pre |-> [ok |-> TRUE, billable |-> 0], post |-> [ok |-> TRUE, billable |-> 0],
   submitted |-> TRUE, native |-> "unknown", ids |-> {"endpoint_id", "provider_job_id"}]

Results == {Sound.result, [text |-> TRUE], [text |-> FALSE, model |-> "tiny"], [completed |-> TRUE]}
Probes == {Sound.probe, [cleanup |-> Silent, image |-> {"worker"}], [cleanup |-> FALSE, image |-> {"worker"}, digest |-> "d1"],
           [image |-> {"other"}, endpoint_workers |-> TRUE, workspace_contract_ok |-> FALSE]}

MCArtifacts ==
  {[Sound EXCEPT !.result = r, !.probe = p, !.mentions = m, !.text = t, !.native = n] :
     r \in Results, p \in Probes, m \in {<<>>, <<"tiny", "big">>, <<"big", "tiny">>, <<"tiny">>},
     t \in {{}, {"timed out", "download"}, {"gptqmodel"}, {"timed out", "marker"}}, n \in {"unknown", "provider_timeout"}}
  \cup {[Sound EXCEPT !.metrics = m, !.verify = v, !.post = g, !.ids = i, !.submitted = s] :
     m \in {Sound.metrics, <<>>, [gpu_name |-> TRUE, cache_hit |-> FALSE]}, v \in {Sound.verify, [ok |-> FALSE], <<>>},
     g \in {Unset, [ok |-> TRUE, billable |-> 0], [ok |-> FALSE, billable |-> 1]},
     i \in {{}, {"provider_job_id"}, {"endpoint_id"}}, s \in {TRUE, FALSE}}
  \cup {[Sound EXCEPT !.manifest = f, !.broken = b, !.metrics = IF "metrics.json" \in b THEN <<>> ELSE @] :
     f \in {Unset, Files, [g \in {"result.json", "transcript"} |-> "sum"]}, b \in SUBSET {"metrics.json"}}

Asking ==
  [required |-> {"result.json", "metrics.json", "verify.json"}, manifest |-> FALSE, gpu |-> TRUE, job |-> "llm_heavy",
   model |-> "big", forbidden |-> {"tiny"}, images |-> {}, digest |-> Unset, cache |-> FALSE, workspace |-> FALSE,
   official |-> FALSE, module |-> "runpod_serverless"]

MCSpecs ==
  {Asking, [Asking EXCEPT !.manifest = TRUE, !.cache = TRUE, !.module = "modal_function"],
   Enriched([Asking EXCEPT !.images = {"worker-v1"}, !.workspace = TRUE], [name |-> "worker", digest |-> "d1"]),
   [Asking EXCEPT !.job = "smoke", !.model = Unset, !.gpu = FALSE, !.module = "runpod_pod"],
   [Asking EXCEPT !.module = "vast_pyworker_serverless"], [Asking EXCEPT !.module = "vast_instance"],
   [Asking EXCEPT !.official = TRUE, !.gpu = FALSE, !.required = {"result.json"}]}

===============================================================================
