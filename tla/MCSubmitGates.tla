---------------------------- MODULE MCSubmitGates ----------------------------
(***************************************************************************)
(* Instances of the gates for TLC: a direct submission, a queued job and a *)
(* child of a workflow that needs a proven runtime, on one budget.         *)
(***************************************************************************)
EXTENDS SubmitGatesProps

MCProviders == {"ollama", "modal", "runpod"}

Plain ==
  [path |-> "direct", asked |-> AnyProvider, quoted |-> Nobody, planned |-> FALSE,
   order |-> <<"ollama", "modal", "runpod">>, source |-> "app", type |-> "llm_heavy",
   model |-> "m70", tokens |-> 8, runtime |-> 100, burst |-> 1, needsGpu |-> FALSE, backends |-> {}, isProbe |-> FALSE,
   provenance |-> [strict |-> FALSE, imagePinned |-> FALSE, modelPinned |-> TRUE, attestation |-> "none"],
   compliance |-> [prohibited |-> {}, regions |-> {}, classified |-> FALSE, anyRegion |-> FALSE],
   needs |-> [registered |-> FALSE, vision |-> "any", asr |-> "any", tier |-> ""],
   cost |-> [runtime |-> 2, storage |-> 0, egress |-> 0, crossRegion |-> FALSE, limit |-> 3],
   secrets |-> {}, gpus |-> 1, fractional |-> FALSE,
   preemption |-> [preemptible |-> FALSE, checkpoint |-> FALSE, restart |-> FALSE]]

Direct == [Plain EXCEPT !.needsGpu = TRUE, !.asked = "modal"]
Batch == [Plain EXCEPT !.path = "queue", !.cost.runtime = 1, !.burst = 9,
                       !.order = <<"ollama", "modal">>]
Child == [Plain EXCEPT !.path = "queue", !.cost.runtime = 1, !.type = "asr", !.quoted = "modal",
                       !.planned = TRUE, !.backends = {"whisper"},
                       !.order = <<"modal", "runpod">>,
                       !.compliance = [prohibited |-> {"vast"}, regions |-> {"external"},
                                       classified |-> TRUE, anyRegion |-> FALSE]]

MCRequest == <<Direct, Batch, Child>>

MCRegion == [p \in Providers |-> IF p = "ollama" THEN "local" ELSE "external"]
MCServed == [p \in Providers |-> IF p = "ollama" THEN {"llm_heavy"} ELSE {"llm_heavy", "asr"}]
Entry == [types |-> {"llm_heavy", "asr"}, tokens |-> 10, vision |-> "no", asr |-> "yes", tier |-> "good"]
MCModels == [p \in Providers |-> IF p = "ollama" THEN [m \in {"m70"} |-> Entry] ELSE [m \in {"default"} |-> Entry]]
MCTiers == [t \in {"draft", "good"} |-> IF t = "draft" THEN 1 ELSE 2]
MCMaxStartup == [amortized |-> TRUE, strict |-> 0, hard |-> 90, share |-> 60]
MCStartup == [p \in Providers |-> IF p = "runpod" THEN 60 ELSE 10]
MCRefs == [p \in Providers |-> {}]
MCImages == [p \in Providers |-> [registered |-> TRUE, verified |-> TRUE, provides |-> {"whisper"}]]
MCBudget == [s \in {"app"} |-> 2]
LimitOne == [p \in Providers |-> 1]

===============================================================================
