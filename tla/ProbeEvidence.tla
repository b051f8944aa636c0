---------------------------- MODULE ProbeEvidence ----------------------------
(***************************************************************************)
(* What a contract probe proves: parse_contract_probe_artifact reads the   *)
(* files a worker left and what submit_job answered, and writes the record *)
(* that lets a workspace plan call a runtime proven.  A payload is what    *)
(* one of the JSON files says: a partial function of facts.                *)
(***************************************************************************)
EXTENDS Integers, Sequences, FiniteSets, SequencesExt

CONSTANTS
  Unset,        \* what is not said
  Silent,       \* a report that carries no verdict
  Tiny          \* the models of half a billion parameters

Given(a, b) == IF a = Unset THEN b ELSE a

Says(payload, fact) == IF fact \in DOMAIN payload THEN payload[fact] ELSE Unset

\* The first payload that says something of a fact.
FirstSaid(payloads, fact) ==
  LET saying == {i \in DOMAIN payloads : Says(payloads[i], fact) # Unset}
  IN IF saying = {} THEN Unset
     ELSE Says(payloads[CHOOSE i \in saying : \A k \in saying : i <= k], fact)

\* Reports are looked for from the probe inwards, flags from the result outwards.
Reports(a) == <<a.probe, a.metrics, a.result>>
Flags(a) == <<a.result, a.metrics, a.probe>>

\* _enrich_probe_spec: the image the provider distributes (name, digest) is accepted
\* beside the logical one, and its digest expected unless the probe names one.
Enriched(spec, distribution) ==
  IF distribution = Unset THEN spec
  ELSE [spec EXCEPT !.images = @ \cup {distribution.name}, !.digest = Given(@, distribution.digest)]

-------------------------------------------------------------------------------
(* The artifact: verify_artifacts *)

\* verify_manifest: every file of the manifest is there, unchanged.
ManifestHolds(a) ==
  a.manifest # Unset => \A f \in DOMAIN a.manifest : f \in DOMAIN a.files /\ a.files[f] = a.manifest[f]

\* assert_hardware_utilization: a positive number under one of the known keys.
GpuUsed(a) == "metrics.json" \in DOMAIN a.files \ a.broken /\ Says(a.metrics, "gpu_utilization") = TRUE

\* A verify.json without a verdict is a bad one.
Verified(a, spec) ==
  /\ spec.required \subseteq DOMAIN a.files
  /\ a.broken \cap spec.required = {}
  /\ "verify.json" \in spec.required => Says(a.verify, "ok") = TRUE
  /\ ManifestHolds(a) /\ (spec.manifest => a.manifest # Unset)
  /\ spec.gpu => GpuUsed(a)

-------------------------------------------------------------------------------
(* What was observed *)

\* _observed_model: where no payload names it, what the logs mention, rather not a
\* tiny one.
LoadedModel(a) ==
  LET mentioned(S) == {i \in DOMAIN a.mentions : a.mentions[i] \in S}
      big == mentioned(ToSet(a.mentions) \ Tiny)
      First(I) == a.mentions[CHOOSE i \in I : \A k \in I : i <= k]
  IN Given(FirstSaid(<<a.result, a.metrics, a.verify, a.probe>>, "model"),
           IF a.mentions = <<>> THEN Unset
           ELSE IF big # {} THEN First(big) ELSE First(DOMAIN a.mentions))

\* _image_matches: one of the accepted names occurs in the name of the image.
ImageMatches(a, spec) ==
  spec.images # {} => Given(FirstSaid(Reports(a), "image"), {}) \cap spec.images # {}

\* _cache_summary.
CacheHit(a) == FirstSaid(<<a.probe, a.metrics>>, "cache_hit")
ColdStart(a) == a.text \cap {"fetching", "download", "timed out reading"} # {}

\* _submit_guard_provider: what the guards of submit_job said of the provider.
GuardCleanup(a) == IF a.post = Unset THEN Unset ELSE a.post.ok /\ a.post.billable = 0
GuardCost(a) == IF a.post # Unset THEN a.post.ok ELSE IF a.pre # Unset THEN a.pre.ok ELSE Unset

CleanupReport(a) == Given(FirstSaid(Reports(a), "cleanup"), GuardCleanup(a))
CostReport(a) == Given(FirstSaid(Reports(a), "cost_guard"), GuardCost(a))

\* A report without a verdict leaves it to a flag.
VerdictOf(report, flag) == IF report \in {Unset, Silent} THEN flag ELSE report
CleanupOk(a) == VerdictOf(CleanupReport(a), FirstSaid(Flags(a), "cleanup_ok"))
CostOk(a) == VerdictOf(CostReport(a), FirstSaid(Flags(a), "cost_guard_ok"))

WorkspaceOk(a) == FirstSaid(Reports(a), "workspace_contract_ok")

OfficialSmoke(a) ==
  Given(FirstSaid(Flags(a), "official_template_smoke_ok"), Says(a.result, "completed") = TRUE)

\* _smoke_workload_ok: the marker, or any text at all.
SmokeOk(a, spec) ==
  IF OfficialSmoke(a) \/ (spec.job = "smoke" /\ ("marker" \in a.text \/ \E p \in ToSet(Flags(a)) : Says(p, "text") = TRUE))
  THEN TRUE ELSE Unset

\* A submission that failed says nothing of the startup.
StartupOk(a, spec) ==
  IF OfficialSmoke(a) THEN TRUE
  ELSE Given(FirstSaid(Flags(a), "worker_startup_ok"),
             IF a.submitted = TRUE \/ SmokeOk(a, spec) = TRUE THEN TRUE ELSE Unset)

\* A probe of the GPU; else any worker of the endpoint that has a status, whatever it
\* is, or a completed template, or what the runtime saw; else the utilization.
GpuOk(a) ==
  LET probed == FirstSaid(Reports(a), "gpu_probe")
  IN IF probed # Unset THEN probed
     ELSE \/ FirstSaid(Reports(a), "endpoint_workers") = TRUE \/ OfficialSmoke(a)
          \/ FirstSaid(Flags(a), "require_gpu") = TRUE /\ FirstSaid(Reports(a), "nvidia_smi") = TRUE
          \/ FirstSaid(<<a.probe, a.metrics>>, "gpu_name") = TRUE
          \/ GpuUsed(a)

-------------------------------------------------------------------------------
(* The verdict *)

NonEmpty(a) == Says(a.result, "text") = TRUE

CheckNames ==
  {"artifact", "verify", "text", "model", "forbidden", "image", "digest", "gpu", "cache", "workspace", "official"}

\* _checks.
Checks(a, spec) ==
  [c \in CheckNames |->
    CASE c = "artifact"  -> Verified(a, spec)
      [] c = "verify"    -> IF spec.official THEN Verified(a, spec) ELSE Given(Says(a.verify, "ok"), Verified(a, spec))
      [] c = "text"      -> spec.official \/ spec.job \notin {"llm_heavy", "vlm_ocr", "asr"} \/ NonEmpty(a)
      [] c = "model"     -> spec.model = Unset \/ LoadedModel(a) = spec.model
      [] c = "forbidden" -> LoadedModel(a) \notin spec.forbidden
      [] c = "image"     -> ImageMatches(a, spec)
      [] c = "digest"    -> spec.digest = Unset \/ FirstSaid(Reports(a), "digest") = spec.digest
      [] c = "gpu"       -> spec.gpu => GpuUsed(a)
      [] c = "cache"     -> spec.cache => CacheHit(a) = TRUE
      [] c = "workspace" -> spec.workspace => WorkspaceOk(a) = TRUE
      [] c = "official"  -> spec.official => OfficialSmoke(a)]

\* The record's verdict, and what a workspace plan reads of it.
ProbePasses(a, spec) == \A c \in CheckNames : Checks(a, spec)[c]

\* _failure: a later class replaces an earlier one, and what classify_error knows
\* of the message is only replaced by two.
FailureClass(a, spec) ==
  LET checks == Checks(a, spec)
      Layer(bad, class) == <<a.native = "unknown" /\ bad, class>>
      layers == << <<TRUE, a.native>>,
                   Layer(~checks["artifact"], "artifact_contract_failure"),
                   Layer(~checks["verify"], "verification_failed"),
                   Layer(~checks["text"], "empty_output_success"),
                   Layer(~(checks["model"] /\ checks["forbidden"]), "model_contract_mismatch"),
                   Layer(~(checks["image"] /\ checks["digest"]), "image_contract_mismatch"),
                   <<"gptqmodel" \in a.text, "image_missing_dependency">>,
                   Layer(~checks["workspace"], "workspace_contract_missing"),
                   Layer(~checks["official"], "official_template_smoke_failure"),
                   Layer(~checks["cache"], "cache_contract_missing"),
                   <<"timed out" \in a.text /\ ColdStart(a), "cold_start_timeout">> >>
      holds == {i \in DOMAIN layers : layers[i][1]}
      class == layers[CHOOSE i \in holds : \A k \in holds : k <= i][2]
  IN IF class = "unknown" /\ ~checks["gpu"] THEN "gpu_contract_mismatch" ELSE class

-------------------------------------------------------------------------------
(* The canary evidence of a provider module *)

Entry(observed, ok) == [observed |-> observed, ok |-> IF observed THEN ok ELSE Unset]

Judged(ok) == Entry(ok # Unset, ok)

Reported(report, ok) == Entry(report # Unset \/ ok # Unset, ok)

\* workspace_observation_coverage.  That nothing is left at the provider is read from
\* the cleanup's own verdict.
Coverage(a, spec) ==
  LET named == FirstSaid(Reports(a), "image") # Unset \/ FirstSaid(Reports(a), "digest") # Unset
      marker == FirstSaid(Flags(a), "image_contract_marker_present")
      imports == FirstSaid(Reports(a), "runtime_imports_ok")
  IN [category \in {"provider_resource_identity", "image_contract", "secret_availability", "workspace_cache",
                    "startup_phases", "queue_or_reservation", "model_load", "gpu_execution",
                    "artifact_contract", "cost_guard", "cleanup_result", "provider_residue"} |->
       CASE category \in {"provider_resource_identity", "queue_or_reservation"} -> Entry(a.ids # {}, TRUE)
         [] category = "image_contract" -> Entry(named \/ marker # Unset, Given(marker, named))
         [] category = "secret_availability" -> Judged(FirstSaid(Flags(a), "hf_token_present"))
         [] category = "workspace_cache" -> Judged(Given(FirstSaid(Flags(a), "cache_hit"), CacheHit(a)))
         [] category = "startup_phases" -> Judged(Given(StartupOk(a, spec), WorkspaceOk(a)))
         [] category = "model_load" ->
              Judged(Given(imports, Given(SmokeOk(a, spec), IF LoadedModel(a) = Unset THEN Unset ELSE TRUE)))
         [] category = "gpu_execution" -> Judged(GpuOk(a))
         [] category = "artifact_contract" -> Entry(TRUE, Verified(a, spec))
         [] category = "cost_guard" -> Reported(CostReport(a), CostOk(a))
         [] category \in {"cleanup_result", "provider_residue"} -> Reported(CleanupReport(a), CleanupOk(a))]

\* PROVIDER_MODULE_CANARY_REQUIREMENT_CATEGORY_MAP: what each requirement of a module
\* is shown by.
Mapping ==
  LET identity == {"provider_resource_identity"}
      queue == {"queue_or_reservation"}
      started == {"startup_phases"}
      output == {"artifact_contract"}
      work == {"model_load", "gpu_execution"} \cup output
      residue == {"provider_residue"}
      removed == {"cleanup_result"} \cup residue
      cost == {"cost_guard"}
  IN [runpod_serverless |->
        [endpoint_health |-> started \cup queue, minimal_run |-> work, status_poll |-> identity \cup queue,
         cancel |-> removed, result_retention |-> output, artifact_upload |-> output,
         billing_surface_snapshot |-> cost \cup residue],
      runpod_pod |->
        [gpu_stock_query |-> queue, create_pod |-> identity \cup started, proxy_url_ready |-> started,
         ssh_ready |-> started, workspace_path_check |-> {"image_contract", "workspace_cache"},
         stop_resume |-> started \cup {"cleanup_result"}, terminate |-> removed,
         billing_residue_check |-> cost \cup residue],
      vast_instance |->
        [search_offer |-> queue \cup cost, create_instance |-> identity \cup started, ssh_ready |-> started,
         boot_marker_check |-> started \cup {"image_contract"}, gpu_cuda_check |-> {"gpu_execution"},
         small_workload |-> work, destroy_instance |-> removed, no_active_matching_instance |-> residue,
         billing_snapshot |-> cost],
      vast_pyworker_serverless |->
        [endpoint_create |-> identity \cup queue, workergroup_create |-> identity \cup queue,
         worker_loading_ready |-> started, healthcheck |-> started, log_action_match |-> started \cup output,
         benchmark |-> {"gpu_execution"} \cup cost, request |-> work, delete_endpoint_workergroup |-> removed,
         orphan_instance_check |-> residue, billing_snapshot |-> cost],
      modal_function |->
        [function_invoke |-> identity \cup started \cup {"gpu_execution"}, artifact_verify |-> output,
         volume_visibility |-> output, cost_snapshot |-> cost \cup residue]]

\* _required_canary_categories.
RequiredCategories(module) == UNION {Mapping[module][r] : r \in DOMAIN Mapping[module]}

\* _module_specific_evidence_failures: serverless evidence names its endpoint.
LacksIdentity(a, module) ==
  \/ module = "runpod_serverless" /\ "endpoint_id" \notin a.ids
  \/ module = "vast_pyworker_serverless" /\ ~({"endpoint_id", "workergroup_id"} \subseteq a.ids)

Rows(a, spec) ==
  [Coverage(a, spec) EXCEPT !["provider_resource_identity"].ok = IF LacksIdentity(a, spec.module) THEN FALSE ELSE @]

\* _requirement_evidence.
RequirementMet(a, spec, r) ==
  \A c \in Mapping[spec.module][r] : Rows(a, spec)[c].observed /\ Rows(a, spec)[c].ok # FALSE

\* provider_module_canary_evidence.
ModuleProven(a, spec) ==
  /\ RequiredCategories(spec.module) # {}
  /\ \A c \in RequiredCategories(spec.module) : Rows(a, spec)[c].observed /\ Rows(a, spec)[c].ok # FALSE
  /\ ~LacksIdentity(a, spec.module)

===============================================================================
