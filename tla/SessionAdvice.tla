---------------------------- MODULE SessionAdvice ----------------------------
(***************************************************************************)
(* What a session advises and what its tools admit: the next tools that    *)
(* agda_session_snapshot and agda_tool_recommend name in a state of the    *)
(* session, and the gates that refuse a tool call in a state.              *)
(*                                                                         *)
(* A state is a record [busy, live, loaded, stale, goalIds, invisible,     *)
(* classification].                                                        *)
(*                                                                         *)
(* Source: src/session/session-state.ts, src/session/session-snapshot.ts,  *)
(* src/session/tool-recommendation.ts,                                     *)
(* src/tools/register-session-snapshot.ts,                                 *)
(* src/tools/tool-gates.ts,                                                *)
(* src/tools/tool-registration.ts.                                         *)
(***************************************************************************)
EXTENDS Naturals

(* deriveSessionPhase, of a session that is not being destroyed.           *)
Phase(s) == IF s.busy THEN "busy"
            ELSE IF s.loaded THEN "loaded"
            ELSE IF s.live THEN "ready" ELSE "idle"

ClosingTools == {"agda_read_module", "agda_load", "agda_bug_report_bundle"}

(* The tools that take a goal: registerGoalTextTool.                       *)
GoalTools == {"agda_goal_type", "agda_context", "agda_auto", "agda_case_split", "agda_refine"}

Reload(s) == IF s.stale /\ s.loaded THEN {"agda_load"} ELSE {}

(* Mutated form of AfterError: the advice goes on to the goals.            *)
AfterErrorGoesOn(s, rest) == Reload(s) \cup ClosingTools \cup rest

(* A load that failed ends the advice, whatever goals it left.             *)
AfterError(s, rest) ==
  Reload(s) \cup (IF s.classification = "type-error" THEN ClosingTools ELSE rest)

(* deriveSuggestedActions *)
SuggestedActions(s) ==
  CASE Phase(s) \in {"idle", "ready"} -> {"agda_load"}
    [] Phase(s) = "busy"              -> {"agda_session_snapshot"}
    [] Phase(s) = "loaded"            ->
         AfterError(s,
           IF s.goalIds # {} THEN {"agda_goal_catalog", "agda_solve_all"} \cup
                                  (GoalTools \ {"agda_refine"})
           ELSE IF s.invisible THEN {}
           ELSE IF s.classification = "ok-complete" THEN {"agda_search_about"}
           ELSE {"agda_goal_catalog"})

(* Of a loaded file with goals, and of one without.                        *)
WithGoals == {"agda_goal_catalog", "agda_goal_candidates", "agda_solve_all"} \cup GoalTools

WithoutGoals(s) == IF s.classification = "ok-complete"
                   THEN {"agda_search_about", "agda_read_module"}
                   ELSE {"agda_session_snapshot"}

(* deriveToolRecommendations, every tool being in the manifest.            *)
ToolRecommendations(s) ==
  CASE Phase(s) \in {"idle", "ready"} -> {"agda_load", "agda_tools_catalog"}
    [] Phase(s) = "busy"              -> {"agda_session_snapshot"}
    [] Phase(s) = "loaded"            ->
         AfterError(s, IF s.goalIds # {} THEN WithGoals ELSE WithoutGoals(s))

(* agda_session_snapshot and agda_tool_recommend                           *)
Advised(s) == SuggestedActions(s) \cup ToolRecommendations(s)

-----------------------------------------------------------------------------
(* The gates.                                                              *)

(* sessionErrorStateGate lets the call pass.                               *)
NoErrorState(s) == s.classification # "type-error"

(* validateGoalId lets a call on the first goal pass.                      *)
ValidGoal(s) == s.loaded /\ s.goalIds # {}

Admits(s, tool) ==
  CASE tool \in GoalTools -> ValidGoal(s) /\ NoErrorState(s)
    [] tool \in {"agda_goal_catalog", "agda_goal_candidates"} -> s.loaded
    [] tool \in {"agda_solve_all", "agda_search_about"} -> NoErrorState(s) /\ s.loaded
    [] OTHER -> TRUE
=============================================================================
