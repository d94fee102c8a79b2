------------------------------ MODULE RuleStore ------------------------------
(***************************************************************************)
(* The hard constraint rules (src/rules.ts): a bounded list, the most      *)
(* important first, changed by set_rule and delete_rule and saved by       *)
(* writing a file beside the old one and renaming it.  The functions are   *)
(* synchronous, so only a crash comes between their steps.                 *)
(*                                                                         *)
(* A rule's text and keywords are the number of the set_rule that made it. *)
(***************************************************************************)
EXTENDS Integers, Sequences, SequencesExt, FiniteSetsExt

CONSTANTS
  Priorities,   \* what the agent asks for, out of range included
  Limits,       \* maxRules, as a start of the plugin may configure it
  MaxSets,      \* bound: set_rule calls
  MaxRuleFaults \* bound: starts, and saves or loads that fail

ASSUME RuleAssumption ==
  /\ Priorities \subseteq Int /\ Limits \subseteq Nat
  /\ MaxSets \in Nat /\ MaxRuleFaults \in Nat

VARIABLES
  rules, nextId,   \* the module's variables
  maxRules,
  rulesFile,       \* rules.json: rules and nextId, NoRules when absent
  save,            \* the persist under way and what it will leave
  sets, ruleFaults,
  told,            \* history: the rules set_rule has answered with
  unread           \* history: rules.json was there and could not be read

ruleVars == <<rules, nextId, maxRules, rulesFile, save, sets, ruleFaults, told, unread>>

NoRules == [rules |-> <<>>, nextId |-> 1]
NoSave == [at |-> "idle", rules |-> <<>>, nextId |-> 0]
Rule == [id : Nat, made : Nat, priority : 1..10]

-----------------------------------------------------------------------------
RuleInit ==
  /\ rules = <<>> /\ nextId = 1 /\ maxRules \in Limits
  /\ rulesFile = NoRules /\ save = NoSave
  /\ sets = 0 /\ ruleFaults = 0 /\ told = {} /\ unread = FALSE

(* Math.max(1, Math.min(10, priority || 5)) *)
Priority(asked) ==
  IF asked = 0 THEN 5 ELSE IF asked < 1 THEN 1 ELSE IF asked > 10 THEN 10 ELSE asked

(* The first of the least important, when the list is full. *)
Dropped(list) ==
  LET least == {i \in DOMAIN list : \A j \in DOMAIN list : list[i].priority <= list[j].priority}
  IN IF least = {} THEN list ELSE RemoveAt(list, Min(least))

(* push and the stable sort: behind all that are as important. *)
Inserted(list, rule) ==
  LET before == {i \in DOMAIN list : list[i].priority >= rule.priority}
  IN InsertAt(list, Cardinality(before) + 1, rule)

Ready == save.at = "idle"

(* setRule, up to the temporary file.  One rule makes room, also when a    *)
(* lower limit has left more than one too many.                            *)
\* mutation: the identifier that was just given is saved as the next one
SetRuleKeepsId(asked) ==
  /\ Ready /\ maxRules > 0 /\ sets < MaxSets /\ sets' = sets + 1
  /\ LET rule == [id |-> nextId, made |-> sets', priority |-> Priority(asked)]
         room == IF Len(rules) >= maxRules THEN Dropped(rules) ELSE rules
     IN save' = [at |-> "staged", rules |-> Inserted(room, rule), nextId |-> nextId]
  /\ UNCHANGED <<rules, nextId, maxRules, rulesFile, ruleFaults, told, unread>>

SetRule(asked) ==
  /\ Ready /\ maxRules > 0 /\ sets < MaxSets /\ sets' = sets + 1
  /\ LET rule == [id |-> nextId, made |-> sets', priority |-> Priority(asked)]
         room == IF Len(rules) >= maxRules THEN Dropped(rules) ELSE rules
     IN save' = [at |-> "staged", rules |-> Inserted(room, rule), nextId |-> nextId + 1]
  /\ UNCHANGED <<rules, nextId, maxRules, rulesFile, ruleFaults, told, unread>>

(* deleteRule, up to the temporary file. *)
DeleteRule(id) ==
  /\ Ready /\ \E i \in DOMAIN rules : rules[i].id = id
  /\ LET first == Min({i \in DOMAIN rules : rules[i].id = id})
     IN save' = [at |-> "staged", rules |-> RemoveAt(rules, first), nextId |-> nextId]
  /\ UNCHANGED <<rules, nextId, maxRules, rulesFile, sets, ruleFaults, told, unread>>

RenameRules ==
  /\ save.at = "staged"
  /\ rulesFile' = [rules |-> save.rules, nextId |-> save.nextId]
  /\ save' = [save EXCEPT !.at = "renamed"]
  /\ UNCHANGED <<rules, nextId, maxRules, sets, ruleFaults, told, unread>>

(* The assignments after persist, and the answer. *)
RuleSaved ==
  /\ save.at = "renamed" /\ save' = NoSave
  /\ rules' = save.rules /\ nextId' = save.nextId
  /\ told' = told \cup ToSet(save.rules)
  /\ UNCHANGED <<maxRules, rulesFile, sets, ruleFaults, unread>>

(* The directory, the temporary file or its renaming fails: persist throws *)
(* before anything is assigned.                                            *)
\* mutation: the rules are assigned before they are saved
SaveFailsLate ==
  /\ save.at = "staged" /\ ruleFaults < MaxRuleFaults /\ ruleFaults' = ruleFaults + 1
  /\ save' = NoSave /\ rules' = save.rules
  /\ UNCHANGED <<nextId, maxRules, rulesFile, sets, told, unread>>

SaveFails ==
  /\ save.at = "staged" /\ ruleFaults < MaxRuleFaults /\ ruleFaults' = ruleFaults + 1
  /\ save' = NoSave
  /\ UNCHANGED <<rules, nextId, maxRules, rulesFile, sets, told, unread>>

(* The plugin is registered again, in this process or in the next one, at  *)
(* any moment: initRuleStore and setMaxRules.                              *)
RulesLoaded(limit) ==
  /\ ruleFaults < MaxRuleFaults /\ ruleFaults' = ruleFaults + 1
  /\ save' = NoSave /\ maxRules' = limit
  /\ rules' = rulesFile.rules /\ nextId' = rulesFile.nextId
  /\ UNCHANGED <<rulesFile, sets, told, unread>>

(* Whatever the error, the store starts empty, and the next save replaces  *)
(* the rules that could not be read.                                       *)
RulesUnreadable(limit) ==
  /\ ruleFaults < MaxRuleFaults /\ ruleFaults' = ruleFaults + 1
  /\ save' = NoSave /\ maxRules' = limit
  /\ rules' = <<>> /\ nextId' = 1 /\ unread' = (rulesFile # NoRules \/ unread)
  /\ UNCHANGED <<rulesFile, sets, told>>

RuleNext ==
  \/ \E asked \in Priorities : SetRule(asked)
  \/ \E id \in 1..MaxSets : DeleteRule(id)
  \/ RenameRules \/ RuleSaved \/ SaveFails
  \/ \E limit \in Limits : RulesLoaded(limit) \/ RulesUnreadable(limit)

RuleSpec == RuleInit /\ [][RuleNext]_ruleVars

-----------------------------------------------------------------------------
RuleTypeOK ==
  /\ rules \in Seq(Rule) /\ nextId \in Nat /\ maxRules \in Limits
  /\ rulesFile \in [rules : Seq(Rule), nextId : Nat]
  /\ save \in [at : {"idle", "staged", "renamed"}, rules : Seq(Rule), nextId : Nat]
  /\ sets \in Nat /\ ruleFaults \in Nat /\ told \subseteq Rule /\ unread \in BOOLEAN

(* Between two calls the rules in force are the ones a restart brings      *)
(* back, whichever saves failed and wherever the process died, as long as  *)
(* rules.json could be read at every start.                                *)
RulesAreStored ==
  Ready /\ ~ unread => rulesFile = [rules |-> rules, nextId |-> nextId]

(* A rule identifier that the agent was told names that rule for good:     *)
(* get_rule and delete_rule never reach another one, not after the rule    *)
(* is gone and not after a crash, under the same condition.                *)
RuleIdsNameOneRule ==
  ~ unread => \A a, b \in told \cup ToSet(rules) \cup ToSet(rulesFile.rules) :
                a.id = b.id => a.made = b.made
=============================================================================
