---------------------------- MODULE ServiceProofs ----------------------------
(***************************************************************************)
(* Theorems about Service, for anything that its parts are given: what is  *)
(* proved of a part by itself holds while it is one of many.               *)
(***************************************************************************)
EXTENDS Service, AgentProofs, SharedProofs, ResultProofs

(* A step of the service is a step of a part, or leaves it alone.          *)
LEMMA PartSteps ==
    ASSUME [Next]_vars
    PROVE  /\ [Caller!Next]_callerVars
           /\ [Run!Next]_runVars
           /\ [Files!Next]_fileVars
           /\ [Manifests!Next]_manifestVars
           /\ [Qgis!Next]_qgisVars
           /\ [Links!Next]_shareVars
           /\ [Pacing!Next]_pacingVars
           /\ [Sweep!Next]_sweepVars
           /\ [Scoring!Next]_scoringVars
           /\ [Layers!Next]_layerVars
           /\ [Sites!Next]_siteVars
           /\ part' = part
  BY Zenon DEF Next, vars

-----------------------------------------------------------------------------
LEMMA CallerSpec == Spec => []CallerInv
  <1>1. Init => CallerInv
    BY CallerInitially DEF Init
  <1>2. CallerInv /\ [Next]_vars => CallerInv'
    BY CallerInvariance, PartSteps
  <1> QED
    BY <1>1, <1>2, PTL DEF Spec

(* A token never gets wider or someone else's on its way from the sign-in  *)
(* to a tool, and a tool's ends no later than the platform's or the MCP    *)
(* token it was exchanged for (exchange_tool_token, sign_tool_token,       *)
(* mint_mcp_token), whatever roles, scopes and lifetimes there are.        *)
THEOREM TokensAreNeverWidened == Spec => []TokensNeverWiden
  <1>1. CallerInv => TokensNeverWiden
    BY TokensPromised DEF TokensNeverWiden
  <1> QED
    BY <1>1, CallerSpec, PTL

(* What runs came through a door that offers it, with a token for that     *)
(* door and, under the gate, as the caller of that token (offered_tools,   *)
(* external_tools, call_tool), however long any look at the token takes.   *)
THEOREM EveryRunCameByItsDoor == Spec => []RunsByItsDoor
  <1>1. CallerInv => RunsByItsDoor
    BY DoorsPromised DEF RunsByItsDoor
  <1> QED
    BY <1>1, CallerSpec, PTL

-----------------------------------------------------------------------------
LEMMA RunSpec == Spec => []RunInv
  <1>1. Init => RunInv
    BY RunInitially DEF Init
  <1>2. RunInv /\ [Next]_vars => RunInv'
    BY RunInvariance, PartSteps
  <1> QED
    BY <1>1, <1>2, PTL DEF Spec

(* What the browser gets is what AG-UI asks of a stream, whatever sibyl    *)
(* sends, in whatever order, and whenever it fails or the browser leaves   *)
(* (agui_stream, render_agui_event).                                       *)
THEOREM StreamIsWellFormed == Spec => []StreamWellFormed
  <1>1. RunInv => StreamWellFormed
    BY StreamPromised DEF StreamWellFormed
  <1> QED
    BY <1>1, RunSpec, PTL

(* A map that was announced goes out once, however the run ends, and what  *)
(* a plan only names is never drawn (agent_event_stream).                  *)
THEOREM AnnouncedMapIsSent == Spec => []MapOutlivesTheRun
  <1>1. RunInv => MapOutlivesTheRun
    BY MapPromised DEF MapOutlivesTheRun
  <1> QED
    BY <1>1, RunSpec, PTL

-----------------------------------------------------------------------------
(* Without a retention, a dataset whose request was answered to a bearer   *)
(* that lasted is listed for its caller while the file that was read is    *)
(* there: whatever number of uploads and drawings run over each other,     *)
(* under one name or through tokens that end, and wherever they fail,      *)
(* unless the caller uploads a file called catalogue.json                  *)
(* (upload_dataset, save_drawn_area, load_catalogue).                      *)
THEOREM StoredStaysListed == Spec => []StoredIsListed
  <1>1. Init => FilesInv
    BY FilesInitially DEF Init
  <1>2. FilesInv /\ [Next]_vars => FilesInv'
    BY FilesInvariance, PartSteps
  <1>3. FilesInv => StoredIsListed
    BY FilesPromised DEF StoredIsListed
  <1> QED
    BY <1>1, <1>2, <1>3, PTL DEF Spec

-----------------------------------------------------------------------------
LEMMA ManifestsSpec == Spec => [](ManifestsInv /\ StandsInv)
  <1>1. Init => ManifestsInv /\ StandsInv
    BY ManifestsInitially, StandsInitially DEF Init
  <1>2. ManifestsInv /\ StandsInv /\ [Next]_vars => ManifestsInv' /\ StandsInv'
    BY ManifestsInvariance, StandsInvariance, PartSteps
  <1> QED
    BY <1>1, <1>2, PTL DEF Spec

(* Whatever files come and go between a plan and its run, and however the  *)
(* model, the user and the viewer write their paths, geodukt runs only     *)
(* what reads and writes as a plan has shown, from and to the directories  *)
(* of the caller and the shared sets, and the report offers no file that   *)
(* the run did not write (confine_manifest, plan_workflow, run_workflow,   *)
(* run_payload).                                                           *)
THEOREM RunsWereShown == Spec => []RunsAsShown
  <1>1. ManifestsInv => RunsAsShown
    BY RunsPromised DEF RunsAsShown
  <1> QED
    BY <1>1, ManifestsSpec, PTL

(* A plan that is shown stands for itself: as long as its shared datasets  *)
(* are there and no file of the caller's has taken their names, approving  *)
(* and running the text it shows is approving and running that very text,  *)
(* whatever else has come, gone or been written since; and where the steps *)
(* are in geodukt's order, none comes before what it reads                 *)
(* (confine_manifest, confine_workflow_path, order_steps).                 *)
THEOREM ShownPlansStand == Spec => []ShownPlanIsItself
  <1>1. ManifestsInv /\ StandsInv => ShownPlanIsItself
    BY PlansPromised DEF ShownPlanIsItself
  <1> QED
    BY <1>1, ManifestsSpec, PTL

-----------------------------------------------------------------------------
(* However many threads ask for the session while one starts it, and       *)
(* wherever the start fails, no second QGIS application is built, a failed *)
(* start is final and what the tools say of the session agrees             *)
(* (qgis_session, _start_session).                                         *)
THEOREM OneApplication == Spec => []StartedOnce
  <1>1. Init => QgisInv
    BY QgisInitially DEF Init
  <1>2. QgisInv /\ [Next]_vars => QgisInv'
    BY QgisInvariance, PartSteps, SharedAssumption DEF Qgis!Nobody
  <1>3. QgisInv => StartedOnce
    BY QgisPromised DEF StartedOnce
  <1> QED
    BY <1>1, <1>2, <1>3, PTL DEF Spec

(* Whatever dies or fails on the way, a service that serves has a whole    *)
(* file for every link that was given out or that the old file held        *)
(* (save_json, split_all_shares_file).                                     *)
THEOREM NoLinkIsLost == Spec => []LinksKeepWorking
  <1>1. Init => LinksInv
    BY LinksInitially, SharedAssumption DEF Init
  <1>2. LinksInv /\ [Next]_vars => LinksInv'
    BY LinksInvariance, PartSteps, SharedAssumption
  <1>3. LinksInv => LinksKeepWorking
    BY LinksPromised DEF LinksKeepWorking
  <1> QED
    BY <1>1, <1>2, <1>3, PTL DEF Spec

(* However many runs send requests, are killed or have the clock set under *)
(* them, two turns are the spacing apart unless the record of the first    *)
(* was lost or the clock put forward since, and nobody waits longer than   *)
(* the spacing at a time (wait_for_turn).                                  *)
THEOREM TurnsAreApart == Spec => []TurnsApart
  <1>0. PacingAssumptions
    BY SharedAssumption DEF PacingAssumptions, Spacing, Pacing!Nobody
  <1>1. Init => PacingInv
    BY <1>0, PacingInitially DEF Init
  <1>2. PacingInv /\ [Next]_vars => PacingInv'
    BY <1>0, PacingInvariance, PartSteps
  <1>3. PacingInv => TurnsApart
    BY <1>0, PacingPromised DEF TurnsApart
  <1> QED
    BY <1>1, <1>2, <1>3, PTL DEF Spec

-----------------------------------------------------------------------------
LEMMA SweepSpec == Spec => [](StackInv /\ TurnInv)
  <1>1. Init => StackInv /\ TurnInv
    BY StackInitially, TurnInitially DEF Init
  <1>2. StackInv /\ TurnInv /\ [Next]_vars => StackInv' /\ TurnInv'
    BY StackInvariance, TurnInvariance, PartSteps
  <1> QED
    BY <1>1, <1>2, PTL DEF Spec

(* Every run of a sweep is on the one profile that its report names,       *)
(* whatever becomes of sibyl's active profile (pin_active_profile,         *)
(* run_events).                                                            *)
THEOREM OneProfileIsMeasured == Spec => []OneProfileMeasured
  <1>1. StackInv => OneProfileMeasured
    BY OneProfilePromised DEF OneProfileMeasured
  <1> QED
    BY <1>1, SweepSpec, PTL

(* A sweep that is over leaves no session of its own and the session that  *)
(* it found active, unless a request failed or somebody switched: of       *)
(* however many runs, whichever of them is refused                         *)
(* (start_eval_session, restore_session, delete_sessions).                 *)
THEOREM SibylIsLeftAsFound == Spec => []SibylLeftAsFound
  <1>1. StackInv => SibylLeftAsFound
    BY SibylPromised DEF SibylLeftAsFound
  <1> QED
    BY <1>1, SweepSpec, PTL

(* The answer that is scored is the last manifest whose own call came back *)
(* without an error, or else one whose call never came back, of a turn     *)
(* whose calls all carried one and could be read: however the calls of the *)
(* two tools are mixed, made and answered, the results of one tool coming  *)
(* in the order of its calls (capture_answer).                             *)
THEOREM AnswersWereAccepted == Spec => []AnswerWasAccepted
  <1>1. TurnInv => AnswerWasAccepted
    BY AnswerPromised DEF AnswerWasAccepted
  <1> QED
    BY <1>1, SweepSpec, PTL

-----------------------------------------------------------------------------
(* A viewer answer gets a full score if, and only if, one of its calls     *)
(* sends the viewer the action of the task with the arguments it asks for, *)
(* however the model has spread them over the fields, the args and the     *)
(* url, of whatever tasks, calls and arguments: provided that the tool     *)
(* accepts each call and no argument is written twice in it (score_calls,  *)
(* call_arguments, viewer_control).                                        *)
THEOREM ViewerScoresAreTrue == Spec => []PerfectIsWhatTheViewerRuns
  <1> DEFINE Inv == part = "scoring" => ScoringInv
  <1>1. Init => Inv
    BY ScoringInitially DEF Init
  <1>2. Inv /\ [Next]_vars => Inv'
    BY ScoringInvariance, PartSteps
  <1>3. Inv => PerfectIsWhatTheViewerRuns
    BY ViewerScorePromised DEF PerfectIsWhatTheViewerRuns
  <1> QED
    BY <1>1, <1>2, <1>3, PTL DEF Spec

(* A manifest that parses gets a full score only if it runs a step for     *)
(* each expected one, of its operation and with its values, none before    *)
(* one that it reads when the order counts, and has the formats asked for; *)
(* a chain of just the expected steps gets it in any order of declaration, *)
(* of whatever tasks and manifests: provided that the graph can run at all *)
(* (score_manifest, topological_transforms, _match_transforms).            *)
THEOREM ManifestScoresAreTrue == Spec => []PerfectIsThePipeline
  <1> DEFINE Inv == part = "scoring" => ScoringInv
  <1>1. Init => Inv
    BY ScoringInitially DEF Init
  <1>2. Inv /\ [Next]_vars => Inv'
    BY ScoringInvariance, PartSteps
  <1>3. Inv => PerfectIsThePipeline
    BY PipelineScorePromised DEF PerfectIsThePipeline
  <1> QED
    BY <1>1, <1>2, <1>3, PTL DEF Spec

(* What a layer says that is made of others is about the features in their *)
(* places: no count, part, hull or cell is of another                      *)
(* (aggregate_by_region, compare_layers, cluster_points, voronoi), for any *)
(* request and any plane.                                                  *)
THEOREM FeaturesKeepTheirPlace == Spec => []EveryFeatureInItsPlace
  <1> DEFINE Inv == part = "layers" => LayersInv
  <1>1. Init => Inv
    BY LayersInitially DEF Init
  <1>2. Inv /\ [Next]_vars => Inv'
    BY LayersInvariance, PartSteps
  <1>3. Inv => EveryFeatureInItsPlace
    BY LayersPromised DEF EveryFeatureInItsPlace
  <1> QED
    BY <1>1, <1>2, <1>3, PTL DEF Spec

-----------------------------------------------------------------------------
LEMMA SitesSpec == Spec => [](part = "sites" => SitesInv)
  <1> DEFINE Inv == part = "sites" => SitesInv
  <1>1. Init => Inv
    BY SitesInitially DEF Init
  <1>2. Inv /\ [Next]_vars => Inv'
    BY SitesInvariance, PartSteps
  <1> QED
    BY <1>1, <1>2, PTL DEF Spec

(* A figure that is saved for a site is the one that its own source gave   *)
(* for it, whatever other sites, batches and sources failed, what no       *)
(* source gave is scored as 0, and a site that is left out is counted, and *)
(* named while there is room for its name: of any number of sites,         *)
(* criteria and batches (batch_geocode, trade_area, score_sites).          *)
THEOREM FiguresAreTheSitesOwn == Spec => []EveryFigureIsItsOwn
  <1>1. (part = "sites" => SitesInv) => EveryFigureIsItsOwn
    BY FiguresPromised DEF EveryFigureIsItsOwn
  <1> QED
    BY <1>1, SitesSpec, PTL

(* A site that is no worse in any criterion, ground that is no lower or    *)
(* water that is no nearer, and a cell that is no farther from a facility, *)
(* is never scored worse, whatever the weights, as long as none is less    *)
(* than zero, the samples, the distances and the rounding (score_sites,    *)
(* flood_score_from, service_gap).                                         *)
THEOREM BetterSitesScoreNoWorse == Spec => []BetterIsNeverScoredWorse
  <1>1. (part = "sites" => SitesInv) => BetterIsNeverScoredWorse
    BY BetterPromised DEF BetterIsNeverScoredWorse
  <1> QED
    BY <1>1, SitesSpec, PTL
=============================================================================
