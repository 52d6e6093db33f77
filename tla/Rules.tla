-------------------------------- MODULE Rules --------------------------------
(***************************************************************************)
(* The severity rules of a tenant: libs/config/src/rules.ts, and           *)
(* evaluateSeverity of services/incident-engine/src/handler.ts.  A         *)
(* severity is its severityRank; the rules are for one window.             *)
(***************************************************************************)
EXTENDS Integers, Sequences

(* Operators that no other definition uses are the mutants of PROJECT.json. *)

SeverityRule == [severity : Nat, threshold : Int]
Rule(severity, threshold) == [severity |-> severity, threshold |-> threshold]

\* medium, high and critical
defaultRules == <<Rule(2, 5), Rule(3, 10), Rule(4, 20)>>

\* An item of the rules table: one that has no array of rules is as none.
Found(rules) == [found |-> TRUE, rules |-> rules]
Missing == [found |-> FALSE, rules |-> <<>>]

\* The tenant's item, else the default one; without either, or if a read throws,
\* the rules of the code.
loadRules(tenant, default, throws) ==
  IF throws THEN defaultRules
  ELSE IF tenant.found THEN tenant.rules
  ELSE IF default.found THEN default.rules
  ELSE defaultRules

maxOf(a, b) == IF a >= b THEN a ELSE b

applyRuleAlone(severity, rule, count) ==
  IF count >= rule.threshold THEN rule.severity ELSE severity

\* A rule whose threshold the count reaches lowers no severity.
applyRule(severity, rule, count) ==
  IF count >= rule.threshold THEN maxOf(severity, rule.severity) ELSE severity

\* In the order of the rules, whatever it is.
evaluateSeverity(hint, rules, count) ==
  LET after[n \in 0 .. Len(rules)] ==
        IF n = 0 THEN hint ELSE applyRule(after[n - 1], rules[n], count)
  IN after[Len(rules)]
=============================================================================
