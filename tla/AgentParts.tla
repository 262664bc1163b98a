----------------------------- MODULE AgentParts -----------------------------
(***************************************************************************)
(* What a question to the agent passes: the door, which takes a token, the *)
(* run behind it, which answers with a stream, and the workflow manifest   *)
(* that a run plans and another one runs.                                  *)
(***************************************************************************)
EXTENDS Integers, Sequences, FiniteSets

CONSTANTS Subjects, Tools, Calls, TOOL_TOKEN_LIFETIME, MCP_TOKEN_LIFETIME, MaxTime, MaxTokens,
          Events, MaxLines, MaxKeepalives,
          Me, WrittenManifests, CoastPlaces, MaxShown

\* A part of a path
PathPart == STRING

\* A manifest as it is parsed: an entry without a path has an empty one, and one
\* whose path stands on a line of its own can be rewritten.
ManifestEntry == [name : STRING, input : STRING, path : Seq(PathPart), line : BOOLEAN]

ParsedManifest ==
    [sources : Seq(ManifestEntry), transforms : Seq([name : STRING, input : STRING]),
     sinks : Seq(ManifestEntry)]

\* The fixed parts are strings, like any other (tlapm is not told so).  Files come
\* and go under plain names, and a shared set is flat: natural_earth/<scale>/<file>.
ASSUME AgentAssumption ==
    /\ TOOL_TOKEN_LIFETIME \in Nat
    /\ {Me, "outputs", "user_data", "natural_earth", "10m"} \subseteq PathPart
    /\ WrittenManifests \subseteq ParsedManifest
    /\ CoastPlaces \subseteq Seq(PathPart) \ {<<>>} /\ IsFiniteSet(CoastPlaces)
    /\ Me # ".."
    /\ \A place \in CoastPlaces :
           /\ \A i \in DOMAIN place : place[i] # ".."
           /\ place[1] = "natural_earth" => Len(place) = 3

VARIABLES gated, now, tokens, call,
          thread, queue, stream, lines, content, replies, spec, planned,
          failed, frames, taken, keepalives,
          files, planRecords, approved, shown, posted, wrote, report

callerVars == <<gated, now, tokens, call>>
runVars == <<thread, queue, stream, lines, content, replies, spec, planned,
             failed, frames, taken, keepalives>>
manifestVars == <<files, planRecords, approved, shown, posted, wrote, report>>

Caller == INSTANCE CallerTokens
Run == INSTANCE AgentRun
Manifests == INSTANCE WorkflowManifests
                 WITH planned <- planRecords, Manifests <- WrittenManifests,
                      Places <- CoastPlaces, MaxPlans <- MaxShown
=============================================================================
