---------------------------- MODULE MCServices ----------------------------
(* Instances for TLC of what serves every session: semantic recall and its *)
(* circuit, dream promotion and the rule store.  They share no state and   *)
(* no step, so one of them moves in each behaviour; the fairness of the    *)
(* others, none of whose steps is enabled, says nothing.                   *)
EXTENDS RecallCircuit, DreamPromotion, RuleStore

CONSTANTS s1

VARIABLE part

(* Recall: one session, reached through two clients. *)
MCScopes == {[session |-> s1, client |-> 1], [session |-> s1, client |-> 2]}
MCCooldown == [timeout |-> 1, overloaded |-> 1, unknown |-> 1]

(* Dreams: a diary with a fence of backticks that holds one of tildes, and *)
(* one whose first section is not promoted.                                *)
Heading(promotes) == [kind |-> "heading", promotes |-> promotes]
Bullet(text, counts) == [kind |-> "bullet", text |-> text, counts |-> counts]
FenceLine(mark, length, info) ==
  [kind |-> "fence", mark |-> mark, length |-> length, info |-> info]
All == {"score", "recall", "unique"}
MCLines ==
  << <<Heading(TRUE), Bullet("a", All), FenceLine("tick", 3, TRUE), Bullet("b", All),
      FenceLine("tilde", 3, FALSE), FenceLine("tick", 3, FALSE), Bullet("c", All \ {"score"})>>,
    <<Heading(FALSE), Bullet("a", All), Heading(TRUE), Bullet("b", All)>> >>

ServicesInit ==
  /\ RecallInit /\ DreamInit /\ RuleInit
  /\ part \in {"recall", "dreams", "rules"}
  /\ part # "dreams" => diary.content = NoDiary /\ promoted = {}
  /\ part # "rules" => maxRules = 1
ServicesNext ==
  /\ \/ part = "recall" /\ RecallNext /\ UNCHANGED <<dreamVars, ruleVars>>
     \/ part = "dreams" /\ DreamNext /\ UNCHANGED <<recallVars, ruleVars>>
     \/ part = "rules" /\ RuleNext /\ UNCHANGED <<recallVars, dreamVars>>
  /\ UNCHANGED part
ServicesSpec ==
  /\ ServicesInit
  /\ [][ServicesNext]_<<part, recallVars, dreamVars, ruleVars>>
  /\ RecallFairness /\ DreamFairness
=============================================================================
