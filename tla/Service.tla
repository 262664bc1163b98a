------------------------------- MODULE Service -------------------------------
(***************************************************************************)
(* The parts of the service that share no state, side by side: a behaviour *)
(* is one of one part, which Init chooses.  Nothing is said here of what a *)
(* part is given: MCService gives it.                                      *)
(***************************************************************************)
EXTENDS AgentParts, SharedParts, ResultParts

CONSTANT Parts  \* the parts that a behaviour may be one of

VARIABLE part

-----------------------------------------------------------------------------

Init ==
    /\ part \in Parts
    /\ Caller!Init /\ (part = "tokens" \/ ~gated)
    /\ Run!Init
    /\ Files!Init /\ (part = "files" \/ ~retention)
    /\ Manifests!Init /\ (part = "manifests" \/ files = {})
    /\ Qgis!Init
    /\ IF part = "scoring" THEN Scoring!Init
       ELSE question = {} /\ answer = {} /\ called = {} /\ result = {}
    /\ Sweep!Init
    /\ part = "sweep" \/ /\ active = CHOOSE s \in Chats : TRUE
                         /\ profile = CHOOSE p \in Profiles : p # Cloud
                         /\ ~viewer /\ named = Sweep!Unknown /\ ~allowCloud
    /\ IF part = "sites" THEN Sites!Init ELSE request = {} /\ toolAnswer = {}
    /\ Links!Init /\ (part = "shares" \/ old = Links!Gone)
    /\ Pacing!Init
    /\ IF part = "layers" THEN Layers!Init ELSE layerRequest = {} /\ layerAnswer = {}

Next ==
    \/ /\ part = "tokens"
       /\ Caller!Next
       /\ UNCHANGED <<part, runVars, fileVars, manifestVars, qgisVars,
                        scoringVars, sweepVars, siteVars, shareVars, pacingVars,
                        layerVars>>
    \/ /\ part = "run"
       /\ Run!Next
       /\ UNCHANGED <<part, callerVars, fileVars, manifestVars,
                        qgisVars, scoringVars, sweepVars, siteVars, shareVars,
                        pacingVars, layerVars>>
    \/ /\ part = "files"
       /\ Files!Next
       /\ UNCHANGED <<part, callerVars, runVars, manifestVars, qgisVars,
                        scoringVars, sweepVars, siteVars, shareVars, pacingVars,
                        layerVars>>
    \/ /\ part = "manifests"
       /\ Manifests!Next
       /\ UNCHANGED <<part, callerVars, runVars, fileVars, qgisVars,
                        scoringVars, sweepVars, siteVars, shareVars, pacingVars,
                        layerVars>>
    \/ /\ part = "qgis"
       /\ Qgis!Next
       /\ UNCHANGED <<part, callerVars, runVars, fileVars, manifestVars,
                        scoringVars, sweepVars, siteVars, shareVars, pacingVars,
                        layerVars>>
    \/ /\ part = "scoring"
       /\ Scoring!Next
       /\ UNCHANGED <<part, callerVars, runVars, fileVars, manifestVars,
                        qgisVars, sweepVars, siteVars, shareVars, pacingVars,
                        layerVars>>
    \/ /\ part = "sweep"
       /\ Sweep!Next
       /\ UNCHANGED <<part, callerVars, runVars, fileVars, manifestVars,
                        qgisVars, scoringVars, siteVars, shareVars, pacingVars,
                        layerVars>>
    \/ /\ part = "sites"
       /\ Sites!Next
       /\ UNCHANGED <<part, callerVars, runVars, fileVars, manifestVars,
                        qgisVars, scoringVars, sweepVars, shareVars, pacingVars,
                        layerVars>>
    \/ /\ part = "shares"
       /\ Links!Next
       /\ UNCHANGED <<part, callerVars, runVars, fileVars, manifestVars,
                        qgisVars, scoringVars, sweepVars, siteVars, pacingVars,
                        layerVars>>
    \/ /\ part = "pacing"
       /\ Pacing!Next
       /\ UNCHANGED <<part, callerVars, runVars, fileVars, manifestVars,
                        qgisVars, scoringVars, sweepVars, siteVars, shareVars,
                        layerVars>>
    \/ /\ part = "layers"
       /\ Layers!Next
       /\ UNCHANGED <<part, callerVars, runVars, fileVars, manifestVars,
                        qgisVars, scoringVars, sweepVars, siteVars, shareVars,
                        pacingVars>>

vars == <<part, callerVars, runVars, fileVars, manifestVars,
          qgisVars, scoringVars, sweepVars, siteVars, shareVars, pacingVars,
          layerVars>>

Spec == Init /\ [][Next]_vars

-----------------------------------------------------------------------------

\* CallerTokens: a token never gets wider or someone else's on its way, and a tool's
\* ends with the one it was exchanged for (exchange_tool_token, mint_mcp_token).
TokensNeverWiden == part = "tokens" => Caller!TokensNeverWiden

\* CallerTokens: what runs came through a door that offers it, with a token for
\* that door (offered_tools, external_tools, call_tool).
RunsByItsDoor == part = "tokens" => Caller!RunsByItsDoor

\* CallerTokens: the result of a tool that ran reaches its caller (call_tool).
ResultReachesCaller == part = "tokens" => Caller!ResultReachesCaller

\* AgentRun: one terminal frame, the last, says how the run ended (agui_stream).
StreamWellFormed == part = "run" => Run!StreamWellFormed

\* AgentRun: an announced map is sent however the run ends, a planned one never
\* (agent_event_stream).
MapOutlivesTheRun == part = "run" => Run!MapOutlivesTheRun

\* CallerFiles: what a bearer that lasted stored is listed until its file goes, unless
\* its caller uploaded a catalogue.json (upload_dataset, save_drawn_area).
StoredIsListed == part = "files" => Files!StoredIsListed

\* CallerFiles: the sweep leaves the catalogue alone (outputs_retention.sweep).
SweepLeavesTheCatalogue == part = "files" => Files!SweepLeavesTheCatalogue

\* CallerFiles: a catalogue lists the uploads of its caller, whatever they are called
\* (load_catalogue, path_inside_directory).
UploadsKeepTheirList == part = "files" => Files!UploadsKeepTheirList

\* CallerFiles: a catalogue lists the files beside it (upload_dataset,
\* caller_catalogue_file).
ListedBesideItsFile == part = "files" => Files!ListedBesideItsFile

\* WorkflowManifests: a run reads and writes what a plan has shown, and reports what
\* it wrote (confine_manifest, run_workflow).
RunsAsShown == part = "manifests" => Manifests!RunsAsShown

\* WorkflowManifests: a plan that is shown stands for itself (plan_workflow).
ShownPlanIsItself == part = "manifests" => Manifests!ShownPlanIsItself

\* QgisSession: QGIS is built once and what is said of it agrees (qgis_session).
StartedOnce == part = "qgis" => Qgis!StartedOnce

\* EvalScoring: a full score is a pipeline that runs the expected steps
\* (score_manifest).
PerfectIsThePipeline == part = "scoring" => Scoring!PerfectIsThePipeline

\* EvalScoring: a full score is a call that sends the viewer what the task asks for,
\* of calls that the tool accepts with nothing written twice (score_calls,
\* viewer_control).
PerfectIsWhatTheViewerRuns == part = "scoring" => Scoring!PerfectIsWhatTheViewerRuns

\* EvalSweep: every run is on the profile that the report names
\* (pin_active_profile).
OneProfileMeasured == part = "sweep" => Sweep!OneProfileMeasured

\* EvalSweep: a sweep leaves sibyl's sessions as it found them (restore_session,
\* delete_sessions).
SibylLeftAsFound == part = "sweep" => Sweep!SibylLeftAsFound

\* EvalSweep: the answer is the last manifest that was not refused, when every call
\* carried one (capture_answer).
AnswerWasAccepted == part = "sweep" => Sweep!AnswerWasAccepted

\* EvalSweep: only a manifest whose own call was accepted counts (capture_answer).
OwnCallCounts == part = "sweep" => Sweep!OwnCallCounts

\* EvalSweep: no run is on the cloud's profile without --allow-cloud
\* (stack_skip_reason, pin_active_profile).
CloudIsOptIn == part = "sweep" => Sweep!CloudIsOptIn

\* SiteTools: every saved figure is its own site's (batch_geocode, trade_area,
\* score_sites).
EveryFigureIsItsOwn == part = "sites" => Sites!EveryFigureIsItsOwn

\* SiteTools: better sites, safer ground and nearer facilities are never scored
\* worse (score_sites, flood_score_from, service_gap).
BetterIsNeverScoredWorse == part = "sites" => Sites!BetterIsNeverScoredWorse

\* Shares: a link that was given out keeps serving its share, whatever dies on the
\* way (save_json, split_all_shares_file).
LinksKeepWorking == part = "shares" => Links!LinksKeepWorking

\* ExternalPacing: turns are the spacing apart and nobody waits for longer than that
\* at a time (wait_for_turn).
TurnsApart == part = "pacing" => Pacing!TurnsApart

\* LayerTools: what a derived layer says of a place, or of a feature, is of that one
\* (aggregate_by_region, compare_layers, cluster_points, voronoi).
EveryFeatureInItsPlace == part = "layers" => Layers!EveryFeatureInItsPlace
=============================================================================
