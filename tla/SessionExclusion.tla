-------------------------- MODULE SessionExclusion --------------------------
(***************************************************************************)
(* Which sessions memory keeps out of (src/agent-exclusion.ts,             *)
(* src/subagent-exclusion.ts and the exclusion state of                    *)
(* src/context-engine.ts), and what a subagent may expand                  *)
(* (memory_expand in src/tools/memory-recall.ts).                          *)
(*                                                                         *)
(* A hook names its session and may give a key, which says whose it is: an *)
(* excluded agent's, an allowed one's, or a child's, which is a subagent   *)
(* of an allowed agent.  Bounded Sets and Maps are sequences in insertion  *)
(* order.                                                                  *)
(***************************************************************************)
EXTENDS Integers, Sequences, SequencesExt

CONSTANTS
  HookSessions,    \* session ids
  Children,        \* session keys of subagents
  NoKey,           \* the host gave no sessionKey
  MaxRemembered,   \* 1000, of all three tables of sessions
  MaxBudgets,      \* SUBAGENT_BUDGET_MAX
  SubagentTokens,  \* cfg.subagentTokenBudget
  Ttl,             \* the budget's time to live, in ticks
  MaxExpand,       \* MAX_EXPAND_TOKENS
  MaxExpansions    \* bound: expansions of a child

VARIABLES
  excluding,        \* cfg.excludeSubagents
  agentSessions,    \* the agent guard: sessions, least recently active first
  childSessions,    \* the subagent guard: entries [session, child]
  marked,           \* excludedSessionIds of an engine
  excludedChildren, \* excludedSubagentsByRuntime
  budgets,          \* entries [child, remaining, ttl]
  alive,            \* the host: children spawned and not ended
  identity,         \* history: the last key of each session, NoKey if allowed
  activity,         \* history: sessions by when a hook last found them excluded
  turns,            \* history: sessions by their last excluded turn in the engine
  turnedAway,       \* history: sessions whose key the engine refused, until let in
  expansions,       \* bound: expansions[child]
  expanded          \* history: tokens a child was given since it was spawned

guardVars == <<agentSessions, childSessions>>
exclusionVars == <<excluding, guardVars, marked, excludedChildren, budgets, alive,
                   identity, activity, turns, turnedAway, expansions, expanded>>

SessionKeys == {"excluded", "allowed", NoKey} \cup Children

ASSUME ExclusionAssumption ==
  /\ NoKey \notin {"excluded", "allowed"}
  /\ Children \cap {"excluded", "allowed", NoKey} = {}
  /\ MaxRemembered \in Nat \ {0}

Place(order, s) == CHOOSE i \in DOMAIN order : order[i] = s

DropFirst(seq, max) == IF Len(seq) > max THEN Tail(seq) ELSE seq
Gone(seq, s) == IF s \in ToSet(seq) THEN RemoveAt(seq, Place(seq, s)) ELSE seq
Latest(seq, s) == Append(Gone(seq, s), s)

ExclusionInit ==
  /\ excluding \in BOOLEAN
  /\ agentSessions = <<>> /\ childSessions = <<>> /\ marked = <<>>
  /\ excludedChildren = {} /\ budgets = <<>> /\ alive = {}
  /\ identity = [s \in HookSessions |-> NoKey]
  /\ activity = <<>> /\ turns = <<>> /\ turnedAway = {}
  /\ expansions = [k \in Children |-> 0]
  /\ expanded = [k \in Children |-> 0]

-----------------------------------------------------------------------------
(* The guards of hooks and tools.                                          *)

(* createAgentExclusionGuard: an identity that is given decides, else what *)
(* is remembered of the session; either way the session's place is renewed *)
(* or given up.                                                            *)
AgentExcluded(s, key) ==
  IF key # NoKey THEN key = "excluded" ELSE s \in ToSet(agentSessions)

\* mutation: a session that is known keeps its place
AgentRememberedInPlace(s, key) ==
  IF ~ AgentExcluded(s, key) THEN Gone(agentSessions, s)
  ELSE IF s \in ToSet(agentSessions) THEN agentSessions
  ELSE DropFirst(Append(agentSessions, s), MaxRemembered)

AgentRemembered(s, key) ==
  IF AgentExcluded(s, key) THEN DropFirst(Latest(agentSessions, s), MaxRemembered)
  ELSE Gone(agentSessions, s)

(* createSubagentExclusionGuard: the session only remembers the child; the *)
(* spawn that is alive decides.                                            *)
Known(s) == {i \in DOMAIN childSessions : childSessions[i].session = s}
Rest(s) ==
  IF Known(s) = {} THEN childSessions ELSE RemoveAt(childSessions, CHOOSE i \in Known(s) : TRUE)
KnownChild(s) ==
  IF Known(s) = {} THEN NoKey ELSE childSessions[CHOOSE i \in Known(s) : TRUE].child
ChildOf(s, key) == IF key = NoKey THEN KnownChild(s) ELSE key
ChildExcluded(s, key) == excluding /\ ChildOf(s, key) \in excludedChildren

ChildRemembered(s, key) ==
  IF ~ excluding THEN childSessions
  ELSE IF ChildExcluded(s, key)
  THEN DropFirst(Append(Rest(s), [session |-> s, child |-> ChildOf(s, key)]),
                 MaxRemembered)
  ELSE Rest(s)

(* isExcluded of src/index.ts: the second guard is asked if the first      *)
(* allows.                                                                 *)
HookAsks(s, key) ==
  /\ agentSessions' = AgentRemembered(s, key)
  /\ childSessions' = IF AgentExcluded(s, key) THEN childSessions ELSE ChildRemembered(s, key)
  /\ identity' = [identity EXCEPT ![s] =
       IF key = NoKey THEN @ ELSE IF key = "allowed" THEN NoKey ELSE key]
  /\ activity' = IF AgentExcluded(s, key) THEN Latest(activity, s) ELSE Gone(activity, s)
  /\ UNCHANGED <<excluding, marked, excludedChildren, budgets, alive, turns, turnedAway,
                 expansions, expanded>>

(* session_end asks, and when its own work is done it forgets. *)
SessionForgotten(s) ==
  /\ agentSessions' = Gone(agentSessions, s)
  /\ childSessions' = Rest(s)
  /\ identity' = [identity EXCEPT ![s] = NoKey]
  /\ activity' = Gone(activity, s)
  /\ UNCHANGED <<excluding, marked, excludedChildren, budgets, alive, turns, turnedAway,
                 expansions, expanded>>

-----------------------------------------------------------------------------
(* The engine.                                                             *)

(* isExcludedSession *)
EngineExcludes(s, key) ==
  IF key = NoKey THEN s \in ToSet(marked)
  ELSE key = "excluded" \/ (excluding /\ key \in excludedChildren)

(* markExcludedSession *)
Marked(s) ==
  LET others == Gone(marked, s) IN
  Append(IF Len(others) >= MaxRemembered THEN Tail(others) ELSE others, s)

TurnedAway(s, key) ==
  IF EngineExcludes(s, key) /\ key # NoKey THEN turnedAway \cup {s} ELSE turnedAway

(* ingest, assemble and afterTurn mark what they find excluded; a turn that*)
(* is let in clears no mark.                                               *)
EngineTurn(s, key) ==
  /\ marked' = IF EngineExcludes(s, key) THEN Marked(s) ELSE marked
  /\ turns' = IF EngineExcludes(s, key) THEN Latest(turns, s) ELSE turns
  /\ turnedAway' = TurnedAway(s, key)
  /\ UNCHANGED <<excluding, guardVars, excludedChildren, budgets, alive, identity,
                 activity, expansions, expanded>>

(* bootstrap also clears the mark of a session that is not excluded. *)
\* mutation: a session that is used again keeps its mark
EngineBootstrapsMarked(s, key) ==
  /\ marked' = IF EngineExcludes(s, key) THEN Marked(s) ELSE marked
  /\ turns' = IF EngineExcludes(s, key) THEN Latest(turns, s) ELSE turns
  /\ turnedAway' = IF EngineExcludes(s, key) THEN TurnedAway(s, key) ELSE turnedAway \ {s}
  /\ UNCHANGED <<excluding, guardVars, excludedChildren, budgets, alive, identity,
                 activity, expansions, expanded>>

EngineBootstraps(s, key) ==
  /\ marked' = IF EngineExcludes(s, key) THEN Marked(s) ELSE Gone(marked, s)
  /\ turns' = IF EngineExcludes(s, key) THEN Latest(turns, s) ELSE Gone(turns, s)
  /\ turnedAway' = IF EngineExcludes(s, key) THEN TurnedAway(s, key) ELSE turnedAway \ {s}
  /\ UNCHANGED <<excluding, guardVars, excludedChildren, budgets, alive, identity,
                 activity, expansions, expanded>>

EngineDisposed ==
  /\ marked' = <<>> /\ turns' = <<>> /\ turnedAway' = {}
  /\ UNCHANGED <<excluding, guardVars, excludedChildren, budgets, alive, identity,
                 activity, expansions, expanded>>

-----------------------------------------------------------------------------
(* Subagents.                                                              *)

Others(k) == SelectSeq(budgets, LAMBDA b : b.child # k)
BudgetPlaces(k) == {i \in DOMAIN budgets : budgets[i].child = k}

(* prepareSubagentSpawn: a child is excluded, or has a budget to expand. *)
Spawn(k) ==
  /\ k \notin alive
  /\ alive' = alive \cup {k}
  /\ excludedChildren' = IF excluding THEN excludedChildren \cup {k} ELSE excludedChildren
  /\ budgets' =
       IF excluding THEN budgets
       ELSE LET fresh == [child |-> k, remaining |-> SubagentTokens, ttl |-> Ttl] IN
            IF BudgetPlaces(k) = {} THEN Append(budgets, fresh)
            ELSE [i \in DOMAIN budgets |-> IF i \in BudgetPlaces(k) THEN fresh ELSE budgets[i]]
  /\ expanded' = [expanded EXCEPT ![k] = 0]
  /\ expansions' = [expansions EXCEPT ![k] = 0]
  /\ UNCHANGED <<excluding, guardVars, marked, identity, activity, turns, turnedAway>>

(* rollback, and onSubagentEnded. *)
ChildGone(k) ==
  /\ k \in alive
  /\ alive' = alive \ {k}
  /\ excludedChildren' = excludedChildren \ {k}
  /\ budgets' = Others(k)
  /\ UNCHANGED <<excluding, guardVars, marked, identity, activity, turns, turnedAway,
                 expansions, expanded>>

BudgetTime ==
  /\ \E i \in DOMAIN budgets : budgets[i].ttl > 0
  /\ budgets' = [i \in DOMAIN budgets |->
       [budgets[i] EXCEPT !.ttl = IF @ > 0 THEN @ - 1 ELSE @]]
  /\ UNCHANGED <<excluding, guardVars, marked, excludedChildren, alive, identity,
                 activity, turns, turnedAway, expansions, expanded>>

(* consumeSubagentBudget prunes first: what has expired, then the oldest   *)
(* if there are too many.                                                  *)
Pruned == DropFirst(SelectSeq(budgets, LAMBDA b : b.ttl > 0), MaxBudgets)

(* memory_expand: what is granted is taken before the daemon is asked, and *)
(* a text that is longer is not given.  A child that has no entry has no   *)
(* cap; one whose entry is at zero gets nothing.                           *)
Expand(k) ==
  LET mine == {i \in DOMAIN Pruned : Pruned[i].child = k}
      left == Pruned[CHOOSE i \in mine : TRUE].remaining IN
  /\ k \in alive /\ expansions[k] < MaxExpansions
  /\ expansions' = [expansions EXCEPT ![k] = @ + 1]
  /\ \E asked \in 1..MaxExpand :
       LET granted == IF mine = {} THEN asked
                      ELSE IF left < asked THEN left ELSE asked IN
       /\ budgets' = [i \in DOMAIN Pruned |->
            IF i \in mine THEN [Pruned[i] EXCEPT !.remaining = @ - granted]
            ELSE Pruned[i]]
       /\ \E text \in {0, granted} :
            expanded' = [expanded EXCEPT ![k] = @ + text]
  /\ UNCHANGED <<excluding, guardVars, marked, excludedChildren, alive, identity,
                 activity, turns, turnedAway>>

(* The runtime's shutdown tasks. *)
ExclusionShutdown ==
  /\ agentSessions' = <<>> /\ childSessions' = <<>> /\ excludedChildren' = {}
  /\ alive' = {} /\ activity' = <<>>
  /\ identity' = [s \in HookSessions |-> NoKey]
  /\ UNCHANGED <<excluding, marked, budgets, turns, turnedAway, expansions, expanded>>

ExclusionNext ==
  \/ \E s \in HookSessions :
       \/ \E key \in SessionKeys :
            HookAsks(s, key) \/ EngineTurn(s, key) \/ EngineBootstraps(s, key)
       \/ SessionForgotten(s)
  \/ \E k \in Children : Spawn(k) \/ ChildGone(k) \/ Expand(k)
  \/ EngineDisposed \/ BudgetTime \/ ExclusionShutdown

ExclusionSpec == ExclusionInit /\ [][ExclusionNext]_exclusionVars

-----------------------------------------------------------------------------

(* Memory keeps out only of what it should.  A hook or tool that gives no  *)
(* key is refused by the guards only for a session that last came with an  *)
(* excluded agent's key or with that of a child that has not ended.  The   *)
(* engine's own set is coarser: it refuses a call without a key for any    *)
(* session it refused by key since the last bootstrap that let the session *)
(* in, an allowed turn in between changes nothing; but only for such a one,*)
(* whatever calls without a key, evictions, other sessions and disposals   *)
(* came between.  And a child stays excluded until it ends.                *)
ExclusionFollowsIdentity ==
  /\ \A s \in HookSessions :
       /\ AgentExcluded(s, NoKey) \/ ChildExcluded(s, NoKey) =>
            identity[s] = "excluded" \/ identity[s] \in alive
       /\ EngineExcludes(s, NoKey) => s \in turnedAway
  /\ excluding => alive = excludedChildren

(* A session that is still active is not the one a full table forgets: the *)
(* coming of another drops the least recently active (the comment above    *)
(* markExcludedSession says so of the engine's).                           *)
DropsLeastActive(before, after, order) ==
  \A s \in ToSet(before) \ ToSet(after) : \A o \in ToSet(after) :
    s \in ToSet(order) /\ Last(order) # s => Place(order, s) < Place(order, o)
LeastActiveDropped ==
  [][ /\ DropsLeastActive(agentSessions, agentSessions', activity')
      /\ DropsLeastActive(marked, marked', turns') ]_exclusionVars

(* A subagent never expands more than the budget it was spawned with.      *)
SubagentWithinBudget == \A k \in alive : ~ excluding => expanded[k] <= SubagentTokens
=============================================================================
