------------------------------ MODULE RuleSpec ------------------------------
(* What a rule net promises, without its cache: a connection is routed by the *)
(* first rule that matches it, whatever was routed before.                   *)
EXTENDS RuleMatch

CONSTANTS Rules, Tasks, Contexts   \* the rules, the connections and what they may ask for

VARIABLES asked,     \* task -> the MatchContext it asks for, None when it does not
          routed     \* task -> the rule it was given, 0 for none or until then
specVars == <<asked, routed>>

SpecInit == asked = [t \in Tasks |-> None] /\ routed = [t \in Tasks |-> 0]

Ask(t) == /\ asked[t] = None
          /\ asked'[t] \in Contexts /\ asked' = [asked EXCEPT ![t] = asked'[t]]
          /\ routed' = [routed EXCEPT ![t] = 0]
Route(t) == /\ asked[t] # None
            /\ asked' = [asked EXCEPT ![t] = None]
            /\ routed' = [routed EXCEPT ![t] = FirstMatch(Rules, asked[t])]

SpecNext == \E t \in Tasks : Ask(t) \/ Route(t)
RoutesByFirstMatch == SpecInit /\ [][SpecNext]_specVars
=============================================================================
