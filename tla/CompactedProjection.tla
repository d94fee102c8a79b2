------------------------ MODULE CompactedProjection ------------------------
(***************************************************************************)
(* The compacted projection of src/context-engine.ts: after the daemon has *)
(* compacted a session, a prompt is the compacted context it returned with *)
(* the suffix of the transcript that goes with it.                         *)
(*                                                                         *)
(* The state (CompactedProjectionState and postToolRecallCache) is shared  *)
(* by every engine of the process; compact(), assemble() and the last part *)
(* of afterTurn() of several engines run interleaved at their awaits, and  *)
(* the session_end and before_reset hooks clear it under them.  Tokens    *)
(* are fresh objects in the code and fresh numbers here.                   *)
(*                                                                         *)
(* The transcript is how many windows of it have gone by and how often the *)
(* host has rewritten it; whether a call continues the turn of the prompt  *)
(* that was kept is its own choice.  A context is the number of            *)
(* compactions it reflects, the window of the transcript it was asked with *)
(* and, as history, the lifecycle it was asked in.  Trimming to a budget   *)
(* either leaves the context whole or breaks it (ContextBudget).           *)
(***************************************************************************)
EXTENDS Integers, FiniteSets

CONSTANTS
  Sessions, ContextEngines, Places,
  MaxCompactions,   \* bound: compactions the daemon makes of a session
  MaxDisturbances,  \* bound: clears, disposals and changed transcripts
  MaxCalls          \* bound: calls the host makes

ASSUME ProjectionAssumption ==
  /\ Sessions # {} /\ ContextEngines # {}
  /\ MaxCompactions \in Nat /\ MaxDisturbances \in Nat
  /\ MaxCalls \in Nat

VARIABLES
  snapshots,         \* snapshots[s]: context, window and version, or NoSnapshot
  lifecycleTokens,   \* lifecycleTokens[s], NoToken when there is none
  projectionTokens,  \* projectionTokens[s], NoToken when there is none
  activeSessions,
  postToolCache,     \* postToolCache[s]: version and context, or NoPrompt
  disposedEngines,          \* the engines with engineDisposed
  op,                \* op[c]: the call in place c
  calls,             \* bound: calls made so far
  returned,          \* what the step just taken returned to the host
  compactions,       \* the daemon: compactions made of s
  transcript,        \* the host: transcript[s]
  resets,            \* history: times s was cleared
  minted,            \* history: projection tokens made for s
  applied            \* history: latest compaction of s applied since

stateVars == <<snapshots, lifecycleTokens, projectionTokens, activeSessions,
               postToolCache>>
projectionVars == <<stateVars, disposedEngines, op, calls, returned, compactions, transcript,
                   resets, minted, applied>>

NoToken == -1
NoContext == [compaction |-> 0, window |-> 0, life |-> NoToken]
NoSnapshot == [context |-> NoContext, version |-> 0]
NoPrompt == [version |-> -1, context |-> NoContext]
NoAnswer == [kind |-> "none", compaction |-> 0]
NoResult == [source |-> "none", context |-> NoContext, from |-> 0,
             session |-> CHOOSE s \in Sessions : TRUE, continued |-> FALSE]

Blank == [window |-> 0, version |-> 0]
Idle == [pc |-> "idle", kind |-> "compact",
         session |-> CHOOSE s \in Sessions : TRUE,
         engine |-> CHOOSE e \in ContextEngines : TRUE,
         life |-> NoToken, proj |-> NoToken, cached |-> NoSnapshot,
         active |-> FALSE, args |-> Blank, postTool |-> FALSE,
         ok |-> FALSE, answer |-> NoAnswer, prompt |-> NoContext]

ProjectionInit ==
  /\ snapshots = [s \in Sessions |-> NoSnapshot]
  /\ lifecycleTokens = [s \in Sessions |-> NoToken]
  /\ projectionTokens = [s \in Sessions |-> NoToken]
  /\ activeSessions = {}
  /\ postToolCache = [s \in Sessions |-> NoPrompt]
  /\ disposedEngines = {} /\ op = [c \in Places |-> Idle] /\ returned = NoResult /\ calls = 0
  /\ compactions = [s \in Sessions |-> 0]
  /\ transcript = [s \in Sessions |-> Blank]
  /\ resets = [s \in Sessions |-> 0] /\ minted = [s \in Sessions |-> 0]
  /\ applied = [s \in Sessions |-> 0]

Silent == returned' = NoResult

-----------------------------------------------------------------------------
(* Tokens.  getProjectionLifecycleToken makes at most one object between   *)
(* two clears, so the number of clears names it.                           *)

LifeCurrent(o) ==
  o.engine \notin disposedEngines /\ lifecycleTokens[o.session] = o.life

StateCurrent(o) ==
  LifeCurrent(o) /\ projectionTokens[o.session] = o.proj

(* clearCompactedProjectionState. *)
Clear(s) ==
  /\ snapshots' = [snapshots EXCEPT ![s] = NoSnapshot]
  /\ lifecycleTokens' = [lifecycleTokens EXCEPT ![s] = NoToken]
  /\ projectionTokens' = [projectionTokens EXCEPT ![s] = NoToken]
  /\ activeSessions' = activeSessions \ {s}
  /\ postToolCache' = [postToolCache EXCEPT ![s] = NoPrompt]
  /\ resets' = [resets EXCEPT ![s] = @ + 1]
  /\ applied' = [applied EXCEPT ![s] = 0]

Undisturbed(s) ==
  resets[s] + transcript[s].window + transcript[s].version + Cardinality(disposedEngines)
    < MaxDisturbances

(* The session_end and before_reset hooks. *)
SessionCleared(s) ==
  /\ Undisturbed(s)
  /\ Clear(s)
  /\ Silent
  /\ UNCHANGED <<calls, disposedEngines, op, compactions, transcript, minted>>

Dispose(e) ==
  /\ \A s \in Sessions : Undisturbed(s)
  /\ disposedEngines' = disposedEngines \cup {e}
  /\ Silent
  /\ UNCHANGED <<stateVars, calls, op, compactions, transcript, resets, minted, applied>>

(* bootstrap drops the kept prompt of its session.  Both Maps are bounded  *)
(* (POST_TOOL_CACHE_MAX_SIZE): an entry set for some other session may     *)
(* push this one's out; activeSessions stays as it is.                     *)
PromptDropped(s) ==
  /\ postToolCache' = [postToolCache EXCEPT ![s] = NoPrompt]
  /\ Silent
  /\ UNCHANGED <<calls, snapshots, lifecycleTokens, projectionTokens, activeSessions,
                 disposedEngines, op, compactions, transcript, resets, minted, applied>>

SnapshotEvicted(s) ==
  /\ snapshots' = [snapshots EXCEPT ![s] = NoSnapshot]
  /\ Silent
  /\ UNCHANGED <<calls, postToolCache, lifecycleTokens, projectionTokens, activeSessions,
                 disposedEngines, op, compactions, transcript, resets, minted, applied>>

(* The host appends a turn or a tool exchange, or rewrites the transcript. *)
HostStep(s) ==
  /\ Undisturbed(s)
  /\ transcript' \in
       { [transcript EXCEPT ![s].window = @ + 1],
         [transcript EXCEPT ![s].version = @ + 1] }
  /\ Silent
  /\ UNCHANGED <<stateVars, calls, disposedEngines, op, compactions, resets, minted, applied>>

-----------------------------------------------------------------------------
(* Compaction.                                                             *)

WithToken(f, s, token) == [f EXCEPT ![s] = IF @ = NoToken THEN token ELSE @]
LifeOf(s) == IF lifecycleTokens[s] = NoToken THEN resets[s]
             ELSE lifecycleTokens[s]

Move(c, pc) == op' = [op EXCEPT ![c].pc = pc]
Returns(c, result) ==
  /\ op' = [op EXCEPT ![c] = Idle]
  /\ returned' = result
Ready(c) == op[c].pc = "idle" /\ calls < MaxCalls /\ calls' = calls + 1

(* compact() past its threshold, or forced. *)
CompactStarts(c, s, e) ==
  /\ Ready(c)
  /\ lifecycleTokens' = WithToken(lifecycleTokens, s, resets[s])
  /\ op' = [op EXCEPT ![c] =
       [Idle EXCEPT !.pc = IF e \in disposedEngines THEN "idle" ELSE "compacting",
                    !.session = s, !.engine = e, !.life = LifeOf(s)]]
  /\ Silent
  /\ UNCHANGED <<snapshots, projectionTokens, activeSessions, postToolCache,
                 disposedEngines, compactions, transcript, resets, minted, applied>>

(* afterTurn takes its token when it is called; its predictive compaction  *)
(* comes after the turn's ingestion, in TurnIngest.                        *)
TurnQueued(c, s, e) ==
  /\ Ready(c) /\ e \notin disposedEngines
  /\ lifecycleTokens' = WithToken(lifecycleTokens, s, resets[s])
  /\ op' = [op EXCEPT ![c] =
       [Idle EXCEPT !.pc = "ingesting", !.session = s, !.engine = e,
                    !.life = LifeOf(s)]]
  /\ Silent
  /\ UNCHANGED <<snapshots, projectionTokens, activeSessions, postToolCache,
                 disposedEngines, compactions, transcript, resets, minted, applied>>

(* Below the threshold, or with another lifecycle, nothing is asked. *)
TurnCompacts(c) ==
  /\ op[c].pc = "ingesting"
  /\ \/ LifeCurrent(op[c]) /\ Move(c, "compacting")
     \/ op' = [op EXCEPT ![c] = Idle]
  /\ Silent
  /\ UNCHANGED <<stateVars, calls, disposedEngines, compactions, transcript, resets, minted,
                 applied>>

(* The daemon, at any moment the request is out: it compacts, finds the    *)
(* session compacted already, or does not compact.                         *)
DaemonCompacts(c) ==
  LET s == op[c].session IN
  /\ op[c].pc = "compacting" /\ op[c].answer = NoAnswer
  /\ \/ /\ compactions[s] < MaxCompactions
        /\ compactions' = [compactions EXCEPT ![s] = @ + 1]
        /\ op' = [op EXCEPT ![c].answer =
             [kind |-> "did", compaction |-> compactions[s] + 1]]
     \/ \E kind \in {"already", "not"} :
          /\ kind = "already" => compactions[s] > 0
          /\ op' = [op EXCEPT ![c].answer =
               [kind |-> kind, compaction |-> compactions[s]]]
          /\ UNCHANGED compactions
  /\ Silent
  /\ UNCHANGED <<stateVars, calls, disposedEngines, transcript, resets, minted, applied>>

(* compact() and afterTurn() are done with it, assemble() goes on. *)
Compacted(c, outcome) ==
  op' = [op EXCEPT ![c] = IF @.kind = "assemble" THEN outcome ELSE Idle]

(* didCompact: the prior projection is dropped until assemble() has seen a *)
(* new one (awaitCompactedProjection), under a new token the caller gets.  *)
\* mutation: the projection is kept until the next one comes
AppliedCompactionKept(c) ==
  LET s == op[c].session
      token == minted[s] + 1 IN
  /\ op[c].pc = "compacting" /\ op[c].answer.kind = "did"
  /\ LifeCurrent(op[c])
  /\ postToolCache' = [postToolCache EXCEPT ![s] = NoPrompt]
  /\ projectionTokens' = [projectionTokens EXCEPT ![s] = token]
  /\ minted' = [minted EXCEPT ![s] = token]
  /\ applied' = [applied EXCEPT ![s] =
       IF op[c].answer.compaction > @ THEN op[c].answer.compaction ELSE @]
  /\ Compacted(c, [op[c] EXCEPT !.pc = "compacted", !.ok = TRUE, !.proj = token,
                                !.cached = NoSnapshot, !.answer = NoAnswer])
  /\ Silent
  /\ UNCHANGED <<calls, snapshots, activeSessions, lifecycleTokens, disposedEngines,
                 compactions, transcript, resets>>

AppliedCompaction(c) ==
  LET s == op[c].session
      token == minted[s] + 1 IN
  /\ op[c].pc = "compacting" /\ op[c].answer.kind = "did"
  /\ LifeCurrent(op[c])
  /\ snapshots' = [snapshots EXCEPT ![s] = NoSnapshot]
  /\ activeSessions' = activeSessions \ {s}
  /\ postToolCache' = [postToolCache EXCEPT ![s] = NoPrompt]
  /\ projectionTokens' = [projectionTokens EXCEPT ![s] = token]
  /\ minted' = [minted EXCEPT ![s] = token]
  /\ applied' = [applied EXCEPT ![s] =
       IF op[c].answer.compaction > @ THEN op[c].answer.compaction ELSE @]
  /\ Compacted(c, [op[c] EXCEPT !.pc = "compacted", !.ok = TRUE, !.proj = token,
                                !.cached = NoSnapshot, !.answer = NoAnswer])
  /\ Silent
  /\ UNCHANGED <<calls, lifecycleTokens, disposedEngines, compactions, transcript, resets>>

(* Any other answer, an answer for another lifecycle, or no answer: a      *)
(* request may fail before or after the daemon has acted on it.  An        *)
(* already compacted session that is active drops its cached prompt; over  *)
(* the threshold, "not compacted" is a failure (normalizeCompactResult).   *)
OtherCompaction(c) ==
  LET s == op[c].session
      kind == IF LifeCurrent(op[c]) THEN op[c].answer.kind ELSE "stale" IN
  /\ op[c].pc = "compacting"
  /\ \E result \in {kind, "failed"} \ {"none", "did"} :
       /\ postToolCache' =
            IF result = "already" /\ s \in activeSessions
            THEN [postToolCache EXCEPT ![s] = NoPrompt] ELSE postToolCache
       /\ \E ok \in IF result = "not" THEN BOOLEAN ELSE {result = "already"} :
            Compacted(c, [op[c] EXCEPT !.pc = "compacted", !.ok = ok,
                                       !.answer = NoAnswer])
  /\ Silent
  /\ UNCHANGED <<calls, snapshots, lifecycleTokens, projectionTokens, activeSessions,
                 disposedEngines, compactions, transcript, resets, minted, applied>>

-----------------------------------------------------------------------------
(* Assembly.                                                               *)

(* The remembered boundary is no longer in the transcript. *)
BoundaryGone(snap, t) ==
  t.window < snap.context.window \/ t.version # snap.version

(* Everything up to the first await: the tokens are read or made, and a    *)
(* snapshot whose boundary is gone takes the session's state with it.      *)
AssembleStarts(c, s, e) ==
  LET gone == snapshots[s] # NoSnapshot /\ BoundaryGone(snapshots[s], transcript[s])
      lives == IF gone THEN resets[s] + 1 ELSE resets[s]
      life == IF gone THEN lives ELSE LifeOf(s)
      new == gone \/ projectionTokens[s] = NoToken
      proj == IF new THEN minted[s] + 1 ELSE projectionTokens[s]
      cached == IF gone THEN NoSnapshot ELSE snapshots[s] IN
  /\ Ready(c)
  /\ resets' = [resets EXCEPT ![s] = lives]
  /\ lifecycleTokens' = [lifecycleTokens EXCEPT ![s] = life]
  /\ projectionTokens' = [projectionTokens EXCEPT ![s] = proj]
  /\ minted' = [minted EXCEPT ![s] = IF new THEN proj ELSE @]
  /\ snapshots' = [snapshots EXCEPT ![s] = cached]
  /\ activeSessions' = IF gone THEN activeSessions \ {s} ELSE activeSessions
  /\ postToolCache' = IF gone THEN [postToolCache EXCEPT ![s] = NoPrompt]
                      ELSE postToolCache
  /\ applied' = [applied EXCEPT ![s] = IF gone THEN 0 ELSE @]
  /\ \E pc \in {"compacting", "client"}, postTool \in BOOLEAN :
       op' = [op EXCEPT ![c] =
         [Idle EXCEPT !.kind = "assemble", !.session = s, !.engine = e,
            !.life = life, !.proj = proj, !.cached = cached,
            !.active = s \in activeSessions' \/ cached # NoSnapshot,
            !.args = transcript[s], !.postTool = postTool,
            !.pc = IF pc = "compacting" /\ e \in disposedEngines THEN "compacted" ELSE pc]]
  /\ Silent
  /\ UNCHANGED <<disposedEngines, compactions, transcript>>

(* buildBudgetFallbackContext, and buildUncompactedFallback without its    *)
(* compacted context: the whole transcript, for the host to trim.          *)
UncompactedResult == [NoResult EXCEPT !.source = "all"]

(* projectedSourceMessages: where the returned messages begin. *)
\* mutation: the recent messages, whatever context goes with them
SourceFromRecent(o) == IF o.active THEN o.args.window ELSE 0

SourceFrom(o) ==
  IF ~ o.active THEN 0
  ELSE IF o.cached # NoSnapshot THEN o.cached.context.window
  ELSE o.args.window

AssembledWith(o, context) ==
  [source |-> IF o.active THEN "suffix" ELSE "all",
   context |-> context, from |-> SourceFrom(o), session |-> o.session,
   continued |-> o.postTool]

(* buildAssembleFallback behind the check of the catch block: fits says    *)
(* whether its trim left the context whole.                                *)
\* mutation: the remembered context is used whatever came meanwhile
AssembleFallbackUnchecked(o, fits) ==
  IF o.active /\ o.cached # NoSnapshot /\ fits
  THEN AssembledWith(o, o.cached.context) ELSE UncompactedResult

AssembleFallback(o, fits) ==
  IF StateCurrent(o) /\ o.active /\ o.cached # NoSnapshot /\ fits
  THEN AssembledWith(o, o.cached.context) ELSE UncompactedResult

(* What follows the predictive compaction. *)
AfterCompaction(c) ==
  LET o == op[c]
      active == o.session \in activeSessions \/ o.cached # NoSnapshot IN
  /\ o.pc = "compacted"
  /\ IF ~ StateCurrent(o) \/ (~ o.ok /\ ~ active)
     THEN Returns(c, UncompactedResult)
     ELSE /\ op' = [op EXCEPT ![c].pc = "client", ![c].active = active]
          /\ returned' = NoResult
  /\ UNCHANGED <<stateVars, calls, disposedEngines, compactions, transcript, resets, minted,
                 applied>>

(* What both paths end with, once nothing is awaited any more: the prompt  *)
(* is returned and kept for a continuation of the same turn, unless the    *)
(* state changed, or a trim or the repair of the user turn broke the       *)
(* context: here it is looked for once more after the repair.              *)
\* mutation: an active session's prompt goes out without its context
FinishIncomplete(c, o, caches, fits) ==
  IF ~ StateCurrent(o)
  THEN /\ Returns(c, UncompactedResult) /\ postToolCache' = caches
  ELSE /\ Returns(c, AssembledWith(o, IF fits THEN o.prompt ELSE NoContext))
       /\ postToolCache' =
            [caches EXCEPT ![o.session] =
               [version |-> o.args.version, context |-> o.prompt]]

Finish(c, o, caches, fits) ==
  IF ~ StateCurrent(o) \/ (o.active /\ (o.prompt = NoContext \/ ~ fits))
  THEN /\ Returns(c, UncompactedResult) /\ postToolCache' = caches
  ELSE /\ Returns(c, AssembledWith(o, o.prompt))
       /\ postToolCache' =
            [caches EXCEPT ![o.session] =
               [version |-> o.args.version, context |-> o.prompt]]

(* A continuation of the turn whose prompt is kept, with the same client,  *)
(* reuses the prompt; no await comes between this and the end.             *)
Continuation(c) ==
  LET o == op[c]
      s == o.session
      kept == postToolCache[s]
      seen == kept.context # NoContext
      caches == IF seen THEN [postToolCache EXCEPT ![s] = NoPrompt]
                ELSE postToolCache IN
  /\ o.pc = "client" /\ o.postTool
  /\ kept # NoPrompt /\ kept.version = o.args.version
  /\ activeSessions' = IF seen THEN activeSessions \cup {s} ELSE activeSessions
  /\ \E fits \in BOOLEAN :
       Finish(c, [o EXCEPT !.active = seen \/ @, !.prompt = kept.context],
              caches, fits)
  /\ UNCHANGED <<calls, snapshots, lifecycleTokens, projectionTokens, disposedEngines,
                 compactions, transcript, resets, minted, applied>>

(* Otherwise, once the ingestion queue is drained and recall asked (see    *)
(* RecallCircuit), the daemon is: it answers with the context of its       *)
(* latest compaction or with none that is complete.  The request changes   *)
(* nothing, so it is one step with the daemon's answer.                    *)
DaemonAssembles(c) ==
  LET s == op[c].session IN
  /\ op[c].pc = "client"
  /\ \E kind \in {"context", "bare"} :
       /\ kind = "context" => compactions[s] > 0
       /\ op' = [op EXCEPT ![c].pc = "asked", ![c].answer =
            [kind |-> kind, compaction |-> compactions[s]]]
  /\ Silent
  /\ UNCHANGED <<stateVars, calls, disposedEngines, compactions, transcript, resets, minted,
                 applied>>

(* A complete context under current tokens becomes the projection          *)
(* (rememberCompactedProjection, activateCompactedProjection).             *)
AssembledProjection(c) ==
  LET o == op[c]
      s == o.session
      context == [compaction |-> o.answer.compaction,
                  window |-> o.args.window, life |-> o.life] IN
  /\ o.pc = "asked" /\ o.answer.kind = "context" /\ StateCurrent(o)
  /\ snapshots' = [snapshots EXCEPT ![s] =
       [context |-> context, version |-> o.args.version]]
  /\ activeSessions' = activeSessions \cup {s}
  /\ postToolCache' = [postToolCache EXCEPT ![s] = NoPrompt]
  /\ op' = [op EXCEPT ![c].pc = "enriching", ![c].prompt = context,
                      ![c].active = TRUE, ![c].cached = NoSnapshot,
                      ![c].answer = NoAnswer]
  /\ Silent
  /\ UNCHANGED <<calls, lifecycleTokens, projectionTokens, disposedEngines, compactions,
                 transcript, resets, minted, applied>>

(* Otherwise the remembered context is put back, if the daemon sent none.  *)
AssembledOther(c) ==
  LET o == op[c]
      sent == o.answer.kind = "context" IN
  /\ o.pc = "asked"
  /\ sent => ~ StateCurrent(o)
  /\ op' = [op EXCEPT ![c].pc = "enriching",
              ![c].prompt = IF sent THEN [compaction |-> o.answer.compaction,
                                          window |-> o.args.window, life |-> o.life]
                            ELSE o.cached.context,
              ![c].answer = NoAnswer]
  /\ Silent
  /\ UNCHANGED <<stateVars, calls, disposedEngines, compactions, transcript, resets, minted,
                 applied>>

(* Bootstrap contexts, exact recall and predictions have been added. *)
AssembleReturns(c) ==
  /\ op[c].pc = "enriching"
  /\ \E fits \in BOOLEAN :
       Finish(c, op[c], postToolCache, fits)
  /\ UNCHANGED <<calls, snapshots, lifecycleTokens, projectionTokens, activeSessions,
                 disposedEngines, compactions, transcript, resets, minted, applied>>

(* ensureReplaySafeUserTurn, after which a failed assembly looks at nothing*)
(* any more: a suffix with no user message that says something gets the    *)
(* last one of the transcript before it.  Where the context is in the way, *)
(* cutting it takes all the room there is, and the user turn is all that   *)
(* goes out (ContextBudget computes it).                                   *)
UserTurnRepaired(result, roomy) ==
  IF result.source = "suffix" /\ ~ roomy
  THEN [NoResult EXCEPT !.source = "user turn"] ELSE result

(* The catch block: no client, an error or the time limit.  It looks for   *)
(* the context before the user turn is repaired and not again after it.    *)
AssembleFails(c) ==
  /\ op[c].pc \in {"client", "asked", "enriching"}
  /\ \E fits, roomy \in BOOLEAN :
       Returns(c, UserTurnRepaired(AssembleFallback(op[c], fits), roomy))
  /\ UNCHANGED <<stateVars, calls, disposedEngines, compactions, transcript, resets, minted,
                 applied>>

ProjectionNext ==
  \/ \E s \in Sessions :
       SessionCleared(s) \/ PromptDropped(s) \/ SnapshotEvicted(s) \/ HostStep(s)
  \/ \E e \in ContextEngines : Dispose(e)
  \/ \E c \in Places, s \in Sessions, e \in ContextEngines :
       CompactStarts(c, s, e) \/ TurnQueued(c, s, e) \/ AssembleStarts(c, s, e)
  \/ \E c \in Places :
       \/ TurnCompacts(c) \/ DaemonCompacts(c)
       \/ AppliedCompaction(c) \/ OtherCompaction(c)
       \/ AfterCompaction(c) \/ Continuation(c)
       \/ DaemonAssembles(c) \/ AssembledProjection(c) \/ AssembledOther(c)
       \/ AssembleReturns(c) \/ AssembleFails(c)

ProjectionSpec == ProjectionInit /\ [][ProjectionNext]_projectionVars

-----------------------------------------------------------------------------

TokenValues == Nat \cup {NoToken}
Contexts == [compaction : Nat, window : Nat, life : TokenValues]
Snapshots == [context : Contexts, version : Nat]
KeptPrompts == [version : Nat \cup {-1}, context : Contexts]
Transcripts == [window : Nat, version : Nat]
Answers == [kind : {"none", "did", "already", "not", "context", "bare"}, compaction : Nat]
CallRecords ==
  [pc : {"idle", "ingesting", "compacting", "compacted", "client", "asked", "enriching"},
   kind : {"compact", "assemble"}, session : Sessions, engine : ContextEngines,
   life : TokenValues, proj : TokenValues, cached : Snapshots, active : BOOLEAN,
   args : Transcripts, postTool : BOOLEAN, ok : BOOLEAN,
   answer : Answers, prompt : Contexts]

TokensTyped ==
  /\ lifecycleTokens \in [Sessions -> TokenValues]
  /\ projectionTokens \in [Sessions -> TokenValues]
  /\ resets \in [Sessions -> Nat] /\ minted \in [Sessions -> Nat]
  /\ applied \in [Sessions -> Nat]

CachesTyped ==
  /\ snapshots \in [Sessions -> Snapshots]
  /\ activeSessions \subseteq Sessions
  /\ postToolCache \in [Sessions -> KeptPrompts]

CallsTyped ==
  /\ op \in [Places -> CallRecords] /\ calls \in Nat
  /\ disposedEngines \subseteq ContextEngines

OutsideTyped ==
  /\ compactions \in [Sessions -> Nat]
  /\ transcript \in [Sessions -> Transcripts]

ProjectionTypeOK == TokensTyped /\ CachesTyped /\ CallsTyped /\ OutsideTyped

Current(context, s) ==
  context.compaction >= applied[s] /\ context.life = resets[s]

(* No context that is remembered, or kept for the rest of a turn, is older *)
(* than a compaction whose response has been applied, or from before the   *)
(* session was last cleared, however the requests overlap.                 *)
ProjectionFresh ==
  \A s \in Sessions :
    /\ snapshots[s] # NoSnapshot => Current(snapshots[s].context, s)
    /\ postToolCache[s].context # NoContext =>
         Current(postToolCache[s].context, s)

(* Nor is the context a prompt is returned with. *)
AssembledIsCurrent ==
  returned.context # NoContext => Current(returned.context, returned.session)

(* A suffix of the transcript goes out exactly with the compacted context  *)
(* that stands for the rest, whatever failed, was evicted, came late or    *)
(* was cut on the way.                                                     *)
NoBlackout ==
  returned.source = "suffix" <=> returned.context # NoContext

(* The messages of a prompt leave no gap after the part of the transcript  *)
(* its context was asked with.                                             *)
NoHole ==
  returned.context # NoContext /\ ~ returned.continued =>
    returned.from <= returned.context.window
=============================================================================
