------------------------------ MODULE PlanRules ------------------------------
(***************************************************************************)
(* What is decided over the changes of a plan: the risk of each and of the *)
(* whole, what the policies of the operator deny or want approved, whether *)
(* the client's own contract holds; and, once a plan has been applied,     *)
(* whether the world is what the document asks for.  No state.             *)
(***************************************************************************)
EXTENDS PlanDiff, Sequences
LOCAL Sets == INSTANCE FiniteSetsExt

CONSTANTS
    Environments,   \* names of environments
    MaxPlanSize     \* maxTotalChanges of the rule limit-plan-size

ASSUME MaxPlanSizeAssumption == MaxPlanSize \in Nat

Effective(change) == change.action \notin {"noop", "blocked"}

effectiveChanges(changes) == {k \in DOMAIN changes : Effective(changes[k])}

-----------------------------------------------------------------------------
(***************************************************************************)
(* Risk                                                                    *)
(***************************************************************************)
environmentWeight(environment) ==
    CASE environment \in {"production", "prod", "live"} -> 20
      [] environment \in {"staging", "stage", "preprod", "pre-production"} -> 8
      [] OTHER -> 0

clamp(score) == IF score > 100 THEN 100 ELSE score

weight(holds, points) == IF holds THEN points ELSE 0

scoreChange(k, change, environment) ==
    LET factors == definition(k).factors
    IN  IF ~Effective(change) THEN 0
        ELSE clamp(weight(change.action = "delete", 45)
                   + weight(change.action = "replace", 35)
                   + weight(~change.reversible, 10)
                   + environmentWeight(environment)
                   + weight(\/ "sensitive" \in factors
                            \/ change.fields \cap definition(k).sensitive # {}, 15)
                   + weight("financial" \in factors, 15)
                   + weight("permissionScope" \in factors, 15)
                   + weight("externallyVisible" \in factors, 5))

blastRadiusWeight(count) ==
    CASE count <= 1 -> 0
      [] count > 1 /\ count <= 5 -> 6
      [] count > 5 /\ count <= 20 -> 12
      [] OTHER -> 20

riskLevelFromScore(score) ==
    CASE score >= 80 -> "critical"
      [] score >= 50 /\ score < 80 -> "high"
      [] score >= 20 /\ score < 50 -> "medium"
      [] OTHER -> "low"

scorePlan(changes, environment) ==
    LET effective == effectiveChanges(changes)
        scores    == {scoreChange(k, changes[k], environment) : k \in effective}
    IN  clamp(Sets!Max(scores \cup {0}) + blastRadiusWeight(Cardinality(effective)))

withChangeRisk_trusting(changes, environment) == changes

\* The provider does not fix the risk: what it said of it is overwritten.
withChangeRisk(changes, environment) ==
    [k \in DOMAIN changes |->
        [changes[k] EXCEPT !.estimatedRisk =
            riskLevelFromScore(scoreChange(k, changes[k], environment))]]

severity == [low |-> 0, medium |-> 1, high |-> 2, critical |-> 3]

maxRisk(levels) == CHOOSE l \in levels : \A m \in levels : severity[m] <= severity[l]

-----------------------------------------------------------------------------
(***************************************************************************)
(* Policies.  A bundle is the sequence of its rules, policies by name.  A  *)
(* condition a rule leaves out admits everything; no limit is -1.          *)
(***************************************************************************)
Rule == [policy : STRING, id : STRING,
         effect : {"deny", "requireApproval", "warn", "allow"}, minApprovals : Nat,
         environments : SUBSET Environments, actions : SUBSET Actions, types : SUBSET Types,
         risks : SUBSET Levels, destructive : SUBSET BOOLEAN,
         anyPath : BOOLEAN, paths : SUBSET Paths,
         constrained : BOOLEAN, maxChanges : Int, maxTotalChanges : Int]

\* defaults.ts
baselineRule(id, effect) ==
    [policy |-> "baseline-safety", id |-> id, effect |-> effect, minApprovals |-> 1,
     environments |-> Environments, actions |-> Actions, types |-> Types,
     risks |-> Levels, destructive |-> BOOLEAN, anyPath |-> TRUE, paths |-> {},
     constrained |-> FALSE, maxChanges |-> -1, maxTotalChanges |-> -1]

blockDelete  == [baselineRule("block-delete", "deny") EXCEPT !.actions = {"delete"}]
blockReplace == [baselineRule("block-replace", "deny") EXCEPT !.actions = {"replace"}]

requireApprovalForHighRisk ==
    [baselineRule("require-approval-for-high-risk", "requireApproval")
        EXCEPT !.risks = {"high", "critical"}]

warnOnMediumRisk ==
    [baselineRule("warn-on-medium-risk", "warn") EXCEPT !.risks = {"medium"}]

limitPlanSize ==
    [baselineRule("limit-plan-size", "deny")
        EXCEPT !.constrained = TRUE, !.maxTotalChanges = MaxPlanSize]

requireApprovalInProduction ==
    [baselineRule("require-approval-in-production", "requireApproval")
        EXCEPT !.policy = "production-safety", !.environments = Environments \cap {"production"}]

defaultPolicyBundle ==
    <<blockDelete, blockReplace, requireApprovalForHighRisk, warnOnMediumRisk,
      limitPlanSize, requireApprovalInProduction>>

\* All documents here are of one kind.
conditionMatchesContext(rule, environment) == environment \in rule.environments

conditionMatchesChange(rule, k, change) ==
    /\ change.action \in rule.actions
    /\ TypeOf[k] \in rule.types
    /\ change.estimatedRisk \in rule.risks
    /\ change.destructive \in rule.destructive
    /\ rule.anyPath \/ change.fields \cap rule.paths # {}

matches(rule, changes) ==
    {k \in effectiveChanges(changes) : conditionMatchesChange(rule, k, changes[k])}

exceeds(count, limit) == limit # -1 /\ count > limit

constraintViolation(rule, changes) ==
    \/ exceeds(Cardinality(matches(rule, changes)), rule.maxChanges)
    \/ exceeds(Cardinality(effectiveChanges(changes)), rule.maxTotalChanges)

evaluateRule(rule, changes, environment) ==
    /\ conditionMatchesContext(rule, environment)
    /\ IF rule.constrained THEN constraintViolation(rule, changes)
                           ELSE matches(rule, changes) # {}

deciding(bundle, changes, environment) ==
    {i \in DOMAIN bundle : evaluateRule(bundle[i], changes, environment)}

allowed(bundle, changes, environment) ==
    \A i \in deciding(bundle, changes, environment) : bundle[i].effect # "deny"

toApprovalRequirement(rule, changes, level) ==
    LET hit == matches(rule, changes)
    IN  [policyId |-> rule.policy, ruleId |-> rule.id, minApprovals |-> rule.minApprovals,
         risk |-> IF hit = {} THEN level
                  ELSE maxRisk({changes[k].estimatedRisk : k \in hit})]

\* One requirement for each policy and rule id: of two rules with one id the
\* later stands.
requiredApprovals(bundle, changes, environment, level) ==
    LET asking == {i \in deciding(bundle, changes, environment) :
                     bundle[i].effect = "requireApproval"}
        sameId(i, j) == <<bundle[i].policy, bundle[i].id>> = <<bundle[j].policy, bundle[j].id>>
    IN  {toApprovalRequirement(bundle[i], changes, level) :
            i \in {j \in asking : \A l \in asking : sameId(j, l) => l <= j}}

-----------------------------------------------------------------------------
(***************************************************************************)
(* The contract: a predicate that does not evaluate, or not to a boolean,  *)
(* is in error and neither true nor false.                                 *)
(***************************************************************************)
Outcomes == {"true", "false", "not_boolean", "error"}

evaluateOne(outcome) ==
    [satisfied |-> outcome = "true", error |-> outcome \in {"not_boolean", "error"}]

contractSatisfied(outcomes) ==
    \A o \in outcomes : evaluateOne(o).satisfied /\ ~evaluateOne(o).error

-----------------------------------------------------------------------------
(***************************************************************************)
(* Verification: the leaves the document asks for, found or not.           *)
(***************************************************************************)
desiredLeaves(desired) ==
    UNION {{k} \X DOMAIN desired[k].attributes : k \in DOMAIN desired}

matched(desired, observed) ==
    {f \in desiredLeaves(desired) :
        /\ f[1] \in DOMAIN observed
        /\ at(desired[f[1]].attributes, f[2]) = at(observed[f[1]].attributes, f[2])}

\* round4: the share in ten-thousandths, rounded half up.
satisfaction(found, total) ==
    IF total = 0 THEN 10000 ELSE (20000 * found + total) \div (2 * total)

statusFor(share, found) ==
    IF share >= 10000 THEN "satisfied"
    ELSE IF found = 0 THEN "not_satisfied" ELSE "partially_satisfied"

verifyDesiredState(desired, observed) ==
    LET found == Cardinality(matched(desired, observed))
    IN  statusFor(satisfaction(found, Cardinality(desiredLeaves(desired))), found)

=============================================================================
