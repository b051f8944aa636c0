-------------------------- MODULE ProbeEvidenceChecks --------------------------
(***************************************************************************)
(* What a record of a contract probe shows, and what it does not, over     *)
(* bounded artifacts.                                                      *)
(***************************************************************************)
EXTENDS ProbeEvidence

CONSTANTS
  Artifacts,   \* what a worker and submit_job may leave
  Specs        \* what a probe asks for

-------------------------------------------------------------------------------

\* _failure: a record that fails says why; no check fails without a class, and a
\* class that classify_error knew is replaced only by a missing dependency or a
\* download that timed out.
ASSUME FailuresAreNamed ==
  \A a \in Artifacts, spec \in Specs :
    ~ProbePasses(a, spec) =>
      /\ FailureClass(a, spec) # "unknown"
      /\ a.native # "unknown" => FailureClass(a, spec) \in {a.native, "image_missing_dependency", "cold_start_timeout"}

\* provider_module_canary_evidence: a module is proven by an artifact that holds, with
\* GPU evidence wherever one of its requirements asks for it, and a serverless module
\* by evidence that names its endpoint, whichever other id it carries.
ASSUME ProvenModuleHasEvidence ==
  \A a \in Artifacts, spec \in Specs :
    ModuleProven(a, spec) =>
      /\ "artifact_contract" \in RequiredCategories(spec.module) => Verified(a, spec)
      /\ "gpu_execution" \in RequiredCategories(spec.module) => GpuOk(a)
      /\ spec.module \in {"runpod_serverless", "vast_pyworker_serverless"} => "endpoint_id" \in a.ids

\* A module's requirements on cleanup are read from the cleanup's verdict: where it
\* says the cleanup failed, nothing that must be removed is proven removed.
ASSUME FailedCleanupProvesNothing ==
  \A a \in Artifacts, spec \in Specs :
    CleanupOk(a) = FALSE => \A r \in DOMAIN Mapping[spec.module] :
      Mapping[spec.module][r] \cap {"cleanup_result", "provider_residue"} # {} => ~RequirementMet(a, spec, r)

\* The verdict of the record reads no cleanup: it passes with a cleanup that failed.
ASSUME PassIgnoresCleanup ==
  \E a \in Artifacts, spec \in Specs : ProbePasses(a, spec) /\ CleanupOk(a) = FALSE

\* A cleanup report without a verdict counts as a cleanup that was observed: a module
\* that must remove its resource is proven although nothing says it was removed.
ASSUME SilentCleanupCounts ==
  \E a \in Artifacts, spec \in Specs :
    /\ ModuleProven(a, spec) /\ "cleanup_result" \in RequiredCategories(spec.module)
    /\ CleanupOk(a) = Unset

\* _observed_model: where only the logs name models, the one that is expected hides a
\* tiny one loaded before or after it, which the probe forbids.
ASSUME LogsHideTinyModel ==
  \A a \in Artifacts, spec \in Specs :
    (/\ \A p \in {a.result, a.metrics, a.verify, a.probe} : Says(p, "model") = Unset
     /\ ToSet(a.mentions) \cap Tiny # {} /\ spec.model \in ToSet(a.mentions) \ Tiny
     /\ ToSet(a.mentions) \subseteq Tiny \cup {spec.model})
      => Checks(a, spec)["model"] /\ (spec.forbidden \subseteq Tiny => Checks(a, spec)["forbidden"])

===============================================================================
