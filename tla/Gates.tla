-------------------------------- MODULE Gates --------------------------------
(***************************************************************************)
(* What the router and the safety gates of submit_job answer on a job and  *)
(* a provider, from the job itself and the policy in force.  What they     *)
(* answer from the state of the system is in SubmitGates.                  *)
(***************************************************************************)
EXTENDS Integers

CONSTANTS
  Asks,         \* the jobs asked for, in the order of their created_at
  Providers,
  Request,      \* what each job asks for
  Region,       \* provider_regions; "" for none
  Served,       \* job types each provider executes (provider catalog)
  Models,       \* model-capabilities.json: what each provider's model can do
  Tiers,        \* quality_order as a rank of the quality tiers
  MaxStartup,   \* a profile's strict, hard and, in percent of the run time,
                \* amortized limit on the startup; 0 for none
  Startup,      \* the startup seconds a provider is expected to take
  MaxBurst,     \* ollama_max_burst_size of the profile
  AllowedRefs,  \* secret_policy: the references each provider may be given
  MultiGpu,     \* providers that take several GPUs
  Images,       \* the image contract of each provider's runtime
  Resident      \* local and ollama: what runs on this host

Names(j) == {Request[j].order[i] : i \in DOMAIN Request[j].order}

ASSUME GatesAssumption ==
  /\ Asks \subseteq Nat /\ DOMAIN Request = Asks
  /\ \A j \in Asks : Names(j) \subseteq Providers
  /\ DOMAIN Startup = Providers /\ DOMAIN Region = Providers
  /\ DOMAIN Served = Providers /\ DOMAIN Models = Providers
  /\ MultiGpu \cup Resident \subseteq Providers

-------------------------------------------------------------------------------
(* Routing: what makes a provider a candidate, apart from its health *)

\* capability_policy_decision: the catalog knows the provider and its job types.
Executes(j, p) == Request[j].type \in Served[p]

\* startup_policy_decision: a startup is judged by itself, or as a part of the
\* run it is for.
StartsInTime(j, p) ==
  /\ MaxStartup.hard # 0 => Startup[p] <= MaxStartup.hard
  /\ IF MaxStartup.amortized
     THEN MaxStartup.share # 0 => 100 * Startup[p] <= MaxStartup.share * Request[j].runtime
     ELSE MaxStartup.strict # 0 => Startup[p] <= MaxStartup.strict

\* workload_policy_decision: this host takes neither what needs a GPU nor, for
\* ollama, more than a small burst.
SuitsWorkload(j, p) ==
  /\ p \in Resident => ~Request[j].needsGpu
  /\ p = "ollama" /\ MaxBurst # 0 => Request[j].burst <= MaxBurst

Candidate(j, p) == Executes(j, p) /\ StartsInTime(j, p) /\ SuitsWorkload(j, p)

-------------------------------------------------------------------------------
(* The workspace: images *)

\* image_contract_status: the runtime names a contract that is registered, has
\* the backends the job needs and is verified.
ImageOk(j, p) ==
  /\ Images[p].registered /\ Images[p].verified
  /\ Request[j].backends \subseteq Images[p].provides

-------------------------------------------------------------------------------
(* The safety gates *)

\* evaluate_provenance: image and model are pinned where that is asked for; an
\* attestation that is asked for or given is of this job and names its issuer.
Provenance(j) ==
  LET p == Request[j].provenance
  IN /\ p.strict => p.imagePinned /\ p.modelPinned
     /\ p.attestation # "none" => p.attestation = "of_this_job"

\* evaluate_compliance: data of a class of its own goes to a region that is named
\* and allowed, or to any when that is allowed.
Compliant(j, p) ==
  LET c == Request[j].compliance
  IN /\ p \notin c.prohibited
     /\ c.regions # {} /\ Region[p] # "" => Region[p] \in c.regions
     /\ c.classified => (Region[p] # "" /\ c.regions # {}) \/ c.anyRegion

\* evaluate_model_capability: the model, or the provider's default, is registered
\* and fits; a model nobody registered will do unless registration is asked for.
\* _quality_ok compares by the order of the tiers, unless one is not in it.
GoodEnough(has, wants) ==
  \/ wants = ""
  \/ IF {has, wants} \subseteq DOMAIN Tiers THEN Tiers[has] >= Tiers[wants] ELSE has = wants

Capable(j, p) ==
  LET r == Request[j]
      known == {m \in DOMAIN Models[p] : m = r.model}
      fallback == {m \in DOMAIN Models[p] : m = "default"}
      entries == IF known # {} THEN known ELSE fallback
      Fits(c) == /\ r.type \in c.types
                 /\ c.tokens # 0 => r.tokens <= c.tokens
                 /\ r.needs.vision \in {"any", c.vision} /\ r.needs.asr \in {"any", c.asr}
                 /\ GoodEnough(c.tier, r.needs.tier)
  IN IF entries = {} THEN ~r.needs.registered ELSE \A m \in entries : Fits(Models[p][m])

\* cost_estimate: run time, transfer to another region and storage.
Affordable(j) ==
  LET c == Request[j].cost
  IN c.limit # 0 => c.runtime + c.storage + (IF c.crossRegion THEN c.egress ELSE 0) <= c.limit

\* secret_check.
SecretsAllowed(j, p) == Request[j].secrets \subseteq AllowedRefs[p]

\* placement_check: no provider takes a fraction of a GPU.
Placeable(j, p) == (Request[j].gpus > 1 => p \in MultiGpu) /\ ~Request[j].fractional

\* preemption_check: what may be preempted has a checkpoint whose manifest holds,
\* or may start from the beginning.
Resumable(j) ==
  Request[j].preemption.preemptible => Request[j].preemption.checkpoint \/ Request[j].preemption.restart

SafetyGates(j, p) ==
  /\ Provenance(j) /\ Compliant(j, p) /\ Capable(j, p) /\ Affordable(j)
  /\ SecretsAllowed(j, p) /\ Placeable(j, p) /\ Resumable(j)

===============================================================================
