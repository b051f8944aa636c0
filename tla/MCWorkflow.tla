------------------------------ MODULE MCWorkflow ------------------------------
(***************************************************************************)
(* Instances of workflows for TLC: a diarized transcription, as it is      *)
(* planned.                                                                *)
(***************************************************************************)
EXTENDS WorkflowProps, WorkflowPlanChecks

CONSTANTS media, c1, c2

-------------------------------------------------------------------------------
(* The policy and the registry *)

USD == 100000000

MCClasses ==
  [c \in {"standard", "batch_low_cost"} |->
    IF c = "standard"
    THEN [auto |-> 1 * USD, hard |-> 3 * USD, allowed |-> <<"modal", "runpod", "vast">>, retry |-> 12, margin |-> 13]
    ELSE [auto |-> USD \div 2, hard |-> 2 * USD, allowed |-> <<"vast">>, retry |-> 11, margin |-> 12]]

Prices == [p \in {"modal", "runpod", "vast"} |-> IF p = "modal" THEN 900 ELSE IF p = "runpod" THEN 800 ELSE 500]

MCStrategies ==
  [s \in {"json_array_chunker", "json_array_merger", "ffmpeg_time_splitter", "timeline_reducer"} |->
    s \in {"json_array_chunker", "json_array_merger"}]

MCRules ==
  << [kind |-> "transcription.whisper", when |-> {}, profile |-> "asr_fast",
      backends |-> {"faster_whisper"}, diarizer |-> Unset],
     [kind |-> "transcription.whisper", when |-> {<<"speaker_diarization", TRUE>>}, profile |-> "asr_diarization",
      backends |-> {"faster_whisper"}, diarizer |-> "pyannote"] >>

MCBackends ==
  [b \in {"faster_whisper", "pyannote"} |->
    IF b = "pyannote"
    THEN [models |-> {"pyannote/speaker-diarization-3.1"},
          requires |-> {[type |-> "secret", id |-> "hf_token", assumed |-> FALSE],
                        [type |-> "worker_dependency", id |-> "pyannote.audio", assumed |-> FALSE]}]
    ELSE [models |-> {"large-v3"},
          requires |-> {[type |-> "worker_dependency", id |-> "faster-whisper", assumed |-> TRUE]}]]

Fast(verified) ==
  [supports |-> {"faster_whisper"}, probe |-> Unset, bindings |-> {},
   image |-> [registered |-> TRUE, verified |-> verified, provides |-> {"faster_whisper"}]]

Diarizing(p) ==
  [supports |-> {"faster_whisper", "pyannote"}, probe |-> p,
   bindings |-> {[type |-> "provider_secret_binding", id |-> "hf_token", assumed |-> FALSE]},
   image |-> [registered |-> TRUE, verified |-> TRUE, provides |-> {"faster_whisper", "pyannote"}]]

MCRuntimes ==
  [place \in {"modal", "vast"} \X {"asr_fast", "asr_diarization"} |->
    IF place[2] = "asr_fast" THEN Fast(place[1] = "modal") ELSE Diarizing(place[1])]

MCAuthorized == {<<"modal", "asr", "hf_token">>}

MCCatalog ==
  [p \in {"modal", "ollama", "runpod", "vast"} |->
    CASE p = "modal"  -> [executes |-> {"asr", "llm_heavy"}, price |-> 900, rank |-> 1]
      [] p = "ollama" -> [executes |-> {"llm_heavy"}, price |-> 0, rank |-> 2]
      [] p = "runpod" -> [executes |-> {"asr"}, price |-> 800, rank |-> 3]
      [] p = "vast"   -> [executes |-> {"asr"}, price |-> 500, rank |-> 4]]

NoObservations == [g \in {} |-> 0]

-------------------------------------------------------------------------------
(* Requests *)

MCAsked ==
  [kind : {"transcription.whisper"}, hints : {{}}, diarize : BOOLEAN, profile : {Unset},
   jobType : {"asr"}, speakerModel : {Unset, "other/model"}, class : {Unset, "batch_low_cost", "unheard_of"},
   provider : {Unset, "modal"}, limit : {Unset, USD}, duration : {0, 4800}, runSeconds : {Unset}, startup : {Unset}]

\* An hour and twenty minutes on modal: more than is approved without being asked.
Transcription ==
  WorkflowOf([kind |-> "transcription.whisper", hints |-> {}, diarize |-> TRUE, profile |-> Unset,
              jobType |-> "asr", speakerModel |-> Unset, class |-> Unset, provider |-> "modal",
              limit |-> Unset, duration |-> 4800, runSeconds |-> Unset, startup |-> Unset])

MCKind == [w \in Flows |-> KindPlanned(Transcription)]
MCMerged == {w \in {media} : MergedInApi(Transcription)}

\* The same plan while the latest record of the runtime's contract probe is a failure.
Unproven == INSTANCE WorkflowPlan WITH Passed <- {}

MCDecisions ==
  [w \in Flows |-> {ManifestStatus(PlanDecision(Transcription)),
                   Unproven!ManifestStatus(Unproven!PlanDecision(Transcription))}]

MCPlannedMaps == [w \in Flows |-> Len(PlannedChunks(Transcription))]
MCP95 == [w \in Flows |-> {P95Of(Transcription)}]
MCHardCap == [w \in Flows |-> PlannedCap(Transcription)]

\* Its template says two dollars a segment: two segments are more than the hard cap.
MCJobCost == [w \in Flows |-> 2 * USD]

Roles == [c \in Callers |-> IF c = c1 THEN {"execute", "approve"} ELSE {"approve", "drain"}]

===============================================================================
