------------------------------- MODULE Approval -------------------------------
(* The approval pipeline (zoomac/autonomy): how risky an action is, which of    *)
(* the stored rules apply to it, and what is decided.                           *)
(*                                                                              *)
(* Rules are a sequence in the order of their ids.  Commands and paths are      *)
(* compared after trimming, lower-casing and normalising, so that all that is   *)
(* left of them is which one starts with which.                                 *)
EXTENDS Naturals, Sequences

CONSTANTS NoValue,         (* a field that is absent                            *)
          ActionTypes,     (* ActionType                                        *)
          HighByDefault,   (* the actions that are HIGH in _DEFAULT_RISKS       *)
          ActionLevels,    (* autonomy.yaml, defaults: action type to level     *)
          SkillLevels,     (* autonomy.yaml, overrides: skill to level          *)
          PlatformLevels,  (* autonomy.yaml, overrides: platform to level       *)
          Starts           (* <<s, p>>: the text s starts with p                *)

ASSUME ApprovalAssumption ==
  /\ HighByDefault \subseteq ActionTypes
  /\ NoValue \notin ActionTypes \cup DOMAIN SkillLevels \cup DOMAIN PlatformLevels
  /\ \A s \in Starts : s[1] # NoValue

-----------------------------------------------------------------------------
(* The classifier.                                                              *)

ParseLevel(level) == IF level \in {"allow", "low"} THEN "low" ELSE "high"

(* An unknown action type in the configuration is passed over.                  *)
ActionRisk(type) ==
  IF type \in DOMAIN ActionLevels THEN ParseLevel(ActionLevels[type])
  ELSE IF type \in ActionTypes \ HighByDefault THEN "low" ELSE "high"

(* The skill's override comes before the platform's, and both before the action *)
(* type.                                                                        *)
Risk(q) ==
  CASE q.skill \in DOMAIN SkillLevels -> ParseLevel(SkillLevels[q.skill])
    [] q.skill \notin DOMAIN SkillLevels /\ q.platform \in DOMAIN PlatformLevels ->
         ParseLevel(PlatformLevels[q.platform])
    [] OTHER -> ActionRisk(q.type)

RequiresConfirmation(q) == Risk(q) = "high"

-----------------------------------------------------------------------------
(* Rules: records with a scope, a value, an action type or none, and a mode.    *)

Covers(rule, q) ==
  /\ rule.type \in {NoValue, q.type}
  /\ \/ rule.scope = "session" /\ q.session = rule.value
     \/ rule.scope = "command_prefix" /\ <<q.command, rule.value>> \in Starts
     \/ rule.scope = "path_prefix" /\ <<q.file, rule.value>> \in Starts

Allowing == {"allow_for_session", "allow_by_rule"}
Denying == {"deny"}

(* The rules that apply; the newest of them is the one that is quoted.          *)
Matches(rules, q, modes) ==
  {i \in DOMAIN rules : rules[i].mode \in modes /\ Covers(rules[i], q)}

Newest(S) == CHOOSE i \in S : \A j \in S : j <= i

(* The rules of the five operations that add one.                               *)
AllowForSession(session, type) ==
  [scope |-> "session", value |-> session, type |-> type, mode |-> "allow_for_session"]
AllowPrefix(scope, prefix, type) ==
  [scope |-> scope, value |-> prefix, type |-> type, mode |-> "allow_by_rule"]
DenyPrefix(scope, prefix, type) ==
  [scope |-> scope, value |-> prefix, type |-> type, mode |-> "deny"]

-----------------------------------------------------------------------------
Decision(outcome, mode, rule) == [outcome |-> outcome, mode |-> mode, rule |-> rule]
NoRule == 0

(* Fault: allow rules are looked at first.                                      *)
EvaluateAllowFirst(rules, q) ==
  IF Matches(rules, q, Allowing) # {} THEN
    Decision("allow", "allow_by_rule", Newest(Matches(rules, q, Allowing)))
  ELSE IF Matches(rules, q, Denying) # {} THEN
    Decision("deny", "deny", Newest(Matches(rules, q, Denying)))
  ELSE IF RequiresConfirmation(q) THEN Decision("ask", "ask_once", NoRule)
  ELSE Decision("allow", "auto_allow", NoRule)

(* Fault: the newest rule decides.                                              *)
EvaluateNewest(rules, q) ==
  LET all == Matches(rules, q, Allowing \cup Denying) IN
  IF all # {} /\ rules[Newest(all)].mode = "deny" THEN Decision("deny", "deny", Newest(all))
  ELSE IF all # {} THEN Decision("allow", rules[Newest(all)].mode, Newest(all))
  ELSE IF RequiresConfirmation(q) THEN Decision("ask", "ask_once", NoRule)
  ELSE Decision("allow", "auto_allow", NoRule)

(* A deny rule comes before an allow rule, and any rule before the risk.        *)
Evaluate(rules, q) ==
  LET denied == Matches(rules, q, Denying)
      allowed == Matches(rules, q, Allowing) IN
  IF denied # {} THEN Decision("deny", "deny", Newest(denied))
  ELSE IF allowed # {} THEN
    Decision("allow",
             IF rules[Newest(allowed)].scope = "session" THEN "allow_for_session"
             ELSE "allow_by_rule",
             Newest(allowed))
  ELSE IF RequiresConfirmation(q) THEN Decision("ask", "ask_once", NoRule)
  ELSE Decision("allow", "auto_allow", NoRule)
=============================================================================
