----------------------------- MODULE MCSession -----------------------------
(* Instances of what the context engine does for a session, for TLC: the   *)
(* turns of an older host that waits for nothing (TurnIngest), the token   *)
(* budget of a prompt, the exclusion hooks and the memory tools.  They     *)
(* share no state and no step, so one of them moves in each behaviour.     *)
EXTENDS TurnIngest, IngestBounds, ContextBudget, SessionExclusion, MemoryTools, TLC

CONSTANTS
  s1,
  Batch    \* messages per ingest batch, each charged one token

VARIABLE part

MCTranscript == [t \in 1..NTurns |-> [i \in 1..(t + 1) |-> i]]
MCPrePrompt == [t \in 1..NTurns |-> IF t = 1 THEN 0 ELSE t]
MCBounded(b) == BoundBatch(b, [m \in 1..(NTurns + 1) |-> 1], Batch)

(* Every paired transcript of up to four messages: blank, short and long   *)
(* user messages, tool calls and their results.                            *)
Kinds == {[role |-> "user", size |-> 2], [role |-> "user", size |-> 9],
          [role |-> "user", size |-> 0],
          [role |-> "call", size |-> 2], [role |-> "result", size |-> 5]}
Paired(t) ==
  \A i \in DOMAIN t :
    t[i].role = "result" => i > 1 /\ t[i - 1].role \in {"call", "result"}
MCTranscripts ==
  { [i \in DOMAIN t |-> [place |-> i] @@ t[i]] :
      t \in {u \in UNION {[1..n -> Kinds] : n \in 0..4} :
              Paired(u) /\ (u # <<>> => u[1].role = "user")} }
MCItemLists == {<<>>, <<2, 4>>}

(* Tools: a scope that reads two tenants, and one of an excluded session.  *)
(* The same id is in both tenants, and the same record in two collections. *)
Home == [session |-> s1, primary |-> "t1", reads |-> <<"t1", "t2">>, excluded |-> FALSE]
Barred == [session |-> s1, primary |-> "t3", reads |-> <<>>, excluded |-> TRUE]
MCToolScopes == {Home, Barred}
Rec(tenant, kind, session, id, score, labelled) ==
  [tenant |-> tenant, collection |-> <<kind, session>>, id |-> id, score |-> score,
   labelled |-> labelled]
MCRecords == {
  Rec("t1", "global", NoSession, "a", 2, TRUE), Rec("t2", "global", NoSession, "a", 2, TRUE),
  Rec("t2", "user", NoSession, "b", 1, FALSE),
  Rec("t1", "session", s1, "c", 1, TRUE), Rec("t1", "session_raw", s1, "c", 1, TRUE),
  Rec("t1", "dream", NoSession, "d", 3, TRUE),
  Rec("t1", "session_summary", s1, "e", 1, TRUE), Rec("t1", "session_summary", s1, "f", 1, TRUE)}
MCIds == {"a", "b", "c", "d", "e", "f"}
MCCauses == [id \in MCIds |->
  CASE id = "a" -> {"b", "c"} [] id = "e" -> {"c"} [] id = "b" -> {"a"} [] OTHER -> {}]
MCParents == [id \in MCIds |-> IF id = "e" THEN {"f"} ELSE {}]
MCQueries == {
  [corpus |-> "all", k |-> 2, least |-> 0, dream |-> TRUE],
  [corpus |-> "memory", k |-> 2, least |-> 2, dream |-> FALSE],
  [corpus |-> "sessions", k |-> 2, least |-> 0, dream |-> TRUE]}

SessionInit ==
  /\ Init
  /\ part \in {"turns", "budget", "exclusion", "tools"}
  /\ IF part = "budget" THEN BudgetInit
     ELSE BudgetInit /\ source = <<>> /\ budget = 0 /\ owned = FALSE
  /\ ExclusionInit /\ (part # "exclusion" => excluding = FALSE)
  /\ ToolsInit /\ (part # "tools" => ~ crossRecall)
SessionNext ==
  /\ \/ /\ part = "turns" /\ Next
        /\ UNCHANGED <<budgetVars, exclusionVars, toolVars>>
     \/ /\ part = "budget" /\ BudgetNext
        /\ UNCHANGED <<vars, exclusionVars, toolVars>>
     \/ /\ part = "exclusion" /\ ExclusionNext
        /\ UNCHANGED <<vars, budgetVars, toolVars>>
     \/ /\ part = "tools" /\ ToolsNext
        /\ UNCHANGED <<vars, budgetVars, exclusionVars>>
  /\ UNCHANGED part
SessionSpec ==
  SessionInit /\ [][SessionNext]_<<part, vars, budgetVars, exclusionVars, toolVars>>
=============================================================================
