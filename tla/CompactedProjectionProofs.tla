--------------------- MODULE CompactedProjectionProofs ---------------------
(***************************************************************************)
(* Proofs about CompactedProjection, for any number of sessions, engines,  *)
(* calls and compactions: types first, then freshness.                     *)
(*                                                                         *)
(* The inductive invariant ties the tokens a call took to what the call    *)
(* holds.  A token a call has is never younger than the session's counters *)
(* (CallTokens), so a call whose tokens are still the session's has seen   *)
(* every clear and every applied compaction (CurrentBefore), and what it   *)
(* took when it started, or was sent since, is current (CallFresh).  Calls *)
(* with other tokens may hold anything: the checks before they write or    *)
(* return turn them away.                                                  *)
(*                                                                         *)
(* Every step is shown to advance the sessions (SessionAdvances) and to    *)
(* leave all calls but one alone; CallKept then keeps the other calls, and *)
(* StepComposed puts the parts together.                                   *)
(***************************************************************************)
EXTENDS CompactedProjection, TLAPS

(* The constants of the module have the types of the variables they start. *)
LEMMA ConstantsTyped ==
  /\ NoContext \in Contexts /\ NoSnapshot \in Snapshots
  /\ NoPrompt \in KeptPrompts /\ Blank \in Transcripts
  /\ NoAnswer \in Answers /\ Idle \in CallRecords
<1>1. NoToken \in TokenValues
  BY DEF NoToken, TokenValues
<1>2. NoContext \in Contexts
  BY <1>1 DEF NoContext, Contexts
<1>3. NoSnapshot \in Snapshots
  BY <1>2 DEF NoSnapshot, Snapshots
<1>4. NoPrompt \in KeptPrompts
  BY <1>2 DEF NoPrompt, KeptPrompts
<1>5. Blank \in Transcripts
  BY DEF Blank, Transcripts
<1>6. /\ (CHOOSE s \in Sessions : TRUE) \in Sessions
      /\ (CHOOSE e \in ContextEngines : TRUE) \in ContextEngines
  BY ProjectionAssumption
<1>7. NoAnswer \in Answers
  BY DEF NoAnswer, Answers
<1>8. Idle \in CallRecords
  BY <1>1, <1>2, <1>3, <1>5, <1>6, <1>7 DEF Idle, CallRecords
<1> QED
  BY <1>2, <1>3, <1>4, <1>5, <1>7, <1>8

(* One call changes, to another that has its type.                         *)
LEMMA CallReplaced ==
  ASSUME CallsTyped, NEW c \in Places, NEW o \in CallRecords,
         op' = [op EXCEPT ![c] = o], calls' \in Nat, disposedEngines' = disposedEngines
  PROVE  CallsTyped'
BY DEF CallsTyped

(* The fields of a call have their types.                                  *)
LEMMA CallTyped ==
  ASSUME ProjectionTypeOK, NEW c \in Places
  PROVE  /\ op[c] \in CallRecords /\ op[c].session \in Sessions
         /\ op[c].engine \in ContextEngines
         /\ op[c].life \in TokenValues /\ op[c].proj \in TokenValues
         /\ op[c].cached \in Snapshots /\ op[c].cached.context \in Contexts
         /\ op[c].args \in Transcripts /\ op[c].answer \in Answers
         /\ op[c].answer.compaction \in Nat /\ op[c].args.window \in Nat
         /\ op[c].args.version \in Nat /\ op[c].prompt \in Contexts
<1>1. op[c] \in CallRecords
  BY DEF ProjectionTypeOK, CallsTyped
<1>2. /\ op[c].session \in Sessions /\ op[c].engine \in ContextEngines
      /\ op[c].life \in TokenValues /\ op[c].proj \in TokenValues
      /\ op[c].cached \in Snapshots /\ op[c].args \in Transcripts
      /\ op[c].answer \in Answers /\ op[c].prompt \in Contexts
  BY <1>1 DEF CallRecords
<1> QED
  BY <1>1, <1>2 DEF Snapshots, Transcripts, Answers

(* The typed parts a step leaves alone keep their type.                    *)
LEMMA TokensKept ==
  ASSUME TokensTyped,
         UNCHANGED <<lifecycleTokens, projectionTokens, resets, minted, applied>>
  PROVE  TokensTyped'
BY DEF TokensTyped

(* The same for the caches,                                                *)
LEMMA CachesKept ==
  ASSUME CachesTyped, UNCHANGED <<snapshots, activeSessions, postToolCache>>
  PROVE  CachesTyped'
BY DEF CachesTyped

(* the calls,                                                              *)
LEMMA CallsKept ==
  ASSUME CallsTyped, UNCHANGED <<op, calls, disposedEngines>>
  PROVE  CallsTyped'
BY DEF CallsTyped

(* and the daemon and the host.                                            *)
LEMMA OutsideKept ==
  ASSUME OutsideTyped, UNCHANGED <<compactions, transcript>>
  PROVE  OutsideTyped'
BY DEF OutsideTyped

(* Every step keeps the types.                                             *)
LEMMA TypeStep == ProjectionTypeOK /\ [ProjectionNext]_projectionVars => ProjectionTypeOK'
<1> SUFFICES ASSUME ProjectionTypeOK, [ProjectionNext]_projectionVars PROVE ProjectionTypeOK'
  OBVIOUS
<1>0. TokensTyped /\ CachesTyped /\ CallsTyped /\ OutsideTyped
  BY DEF ProjectionTypeOK
<1>n. NoToken \in TokenValues
  BY DEF NoToken, TokenValues
<1>1. ASSUME NEW s \in Sessions, SessionCleared(s) PROVE ProjectionTypeOK'
  <2>1. CachesTyped'
    BY <1>0, <1>1, ConstantsTyped DEF SessionCleared, Clear, CachesTyped
  <2>2. TokensTyped'
    BY <1>0, <1>1, <1>n DEF SessionCleared, Clear, TokensTyped
  <2>3. CallsTyped' /\ OutsideTyped'
    BY <1>0, <1>1, CallsKept, OutsideKept DEF SessionCleared
  <2> QED
    BY <2>1, <2>2, <2>3 DEF ProjectionTypeOK
<1>2. ASSUME NEW c \in Places, NEW s \in Sessions, NEW e \in ContextEngines,
             AssembleStarts(c, s, e) PROVE ProjectionTypeOK'
  <2> DEFINE gone == snapshots[s] # NoSnapshot /\ BoundaryGone(snapshots[s], transcript[s])
             lives == IF gone THEN resets[s] + 1 ELSE resets[s]
             life == IF gone THEN lives ELSE LifeOf(s)
             new == gone \/ projectionTokens[s] = NoToken
             proj == IF new THEN minted[s] + 1 ELSE projectionTokens[s]
             cached == IF gone THEN NoSnapshot ELSE snapshots[s]
  <2>1. lives \in Nat /\ life \in TokenValues /\ proj \in TokenValues /\ cached \in Snapshots
        /\ (new => proj \in Nat)
    BY <1>0, ConstantsTyped DEF LifeOf, TokensTyped, CachesTyped, TokenValues, NoToken
  <2>2. CallsTyped'
    <3>1. PICK pc \in {"compacting", "client"}, postTool \in BOOLEAN :
       op' = [op EXCEPT ![c] =
         [Idle EXCEPT !.kind = "assemble", !.session = s, !.engine = e,
            !.life = life, !.proj = proj, !.cached = cached,
            !.active = s \in activeSessions' \/ cached # NoSnapshot,
            !.args = transcript[s], !.postTool = postTool,
            !.pc = IF pc = "compacting" /\ e \in disposedEngines THEN "compacted" ELSE pc]]
      BY <1>2, Zenon DEF AssembleStarts
    <3>2. transcript[s] \in Transcripts
      BY <1>0 DEF OutsideTyped
    <3> DEFINE at == IF pc = "compacting" /\ e \in disposedEngines THEN "compacted" ELSE pc
               on == s \in activeSessions' \/ cached # NoSnapshot
    <3>3. at \in {"compacting", "compacted", "client"} /\ on \in BOOLEAN
      OBVIOUS
    <3> HIDE DEF life, proj, cached, at, on
    <3>4. [Idle EXCEPT !.kind = "assemble", !.session = s, !.engine = e,
            !.life = life, !.proj = proj, !.cached = cached, !.active = on,
            !.args = transcript[s], !.postTool = postTool, !.pc = at] \in CallRecords
      BY <2>1, <3>2, <3>3, ConstantsTyped DEF CallRecords
    <3>5. calls' \in Nat /\ disposedEngines' = disposedEngines
      BY <1>0, <1>2 DEF AssembleStarts, Ready, CallsTyped
    <3> QED
      BY <1>0, <3>1, <3>4, <3>5, CallReplaced DEF at, on
  <2>3. /\ resets' = [resets EXCEPT ![s] = lives]
        /\ lifecycleTokens' = [lifecycleTokens EXCEPT ![s] = life]
        /\ projectionTokens' = [projectionTokens EXCEPT ![s] = proj]
        /\ minted' = [minted EXCEPT ![s] = IF new THEN proj ELSE @]
        /\ applied' = [applied EXCEPT ![s] = IF gone THEN 0 ELSE @]
    BY <1>2 DEF AssembleStarts
  <2>4. /\ snapshots' = [snapshots EXCEPT ![s] = cached]
        /\ activeSessions' = IF gone THEN activeSessions \ {s} ELSE activeSessions
        /\ postToolCache' = IF gone THEN [postToolCache EXCEPT ![s] = NoPrompt]
                            ELSE postToolCache
    BY <1>2 DEF AssembleStarts
  <2> HIDE DEF gone, lives, life, new, proj, cached
  <2>5. TokensTyped'
    BY <1>0, <2>1, <2>3 DEF TokensTyped
  <2>6. CachesTyped'
    BY <1>0, <2>1, <2>4, ConstantsTyped DEF CachesTyped
  <2>7. OutsideTyped'
    BY <1>0, <1>2, OutsideKept DEF AssembleStarts
  <2> QED
    BY <2>2, <2>5, <2>6, <2>7 DEF ProjectionTypeOK
<1>3. ASSUME NEW s \in Sessions, PromptDropped(s) \/ SnapshotEvicted(s) PROVE ProjectionTypeOK'
  <2>1. CachesTyped'
    BY <1>0, <1>3, ConstantsTyped DEF PromptDropped, SnapshotEvicted, CachesTyped
  <2>2. TokensTyped' /\ CallsTyped' /\ OutsideTyped'
    BY <1>0, <1>3, TokensKept, CallsKept, OutsideKept DEF PromptDropped, SnapshotEvicted
  <2> QED
    BY <2>1, <2>2 DEF ProjectionTypeOK
<1>4. ASSUME NEW s \in Sessions, HostStep(s) PROVE ProjectionTypeOK'
  <2>1. TokensTyped' /\ CachesTyped' /\ CallsTyped'
    BY <1>0, <1>4, TokensKept, CachesKept, CallsKept DEF HostStep, stateVars
  <2>2. OutsideTyped'
    BY <1>0, <1>4 DEF HostStep, OutsideTyped, Transcripts
  <2> QED
    BY <2>1, <2>2 DEF ProjectionTypeOK
<1>5. ASSUME NEW e \in ContextEngines, Dispose(e) PROVE ProjectionTypeOK'
  <2>1. TokensTyped' /\ CachesTyped' /\ OutsideTyped'
    BY <1>0, <1>5, TokensKept, CachesKept, OutsideKept DEF Dispose, stateVars
  <2>2. CallsTyped'
    BY <1>0, <1>5 DEF Dispose, CallsTyped
  <2> QED
    BY <2>1, <2>2 DEF ProjectionTypeOK
<1>6. ASSUME NEW c \in Places, NEW s \in Sessions, NEW e \in ContextEngines,
             CompactStarts(c, s, e) \/ TurnQueued(c, s, e) PROVE ProjectionTypeOK'
  <2>1. resets[s] \in TokenValues /\ LifeOf(s) \in TokenValues
    BY <1>0 DEF LifeOf, TokenValues, TokensTyped
  <2>2. /\ lifecycleTokens' = WithToken(lifecycleTokens, s, resets[s])
        /\ projectionTokens' = projectionTokens /\ resets' = resets
        /\ minted' = minted /\ applied' = applied
    BY <1>6 DEF CompactStarts, TurnQueued
  <2>3. TokensTyped'
    BY <1>0, <2>1, <2>2 DEF WithToken, TokensTyped
  <2>4. PICK pc \in {"idle", "ingesting", "compacting"} :
          op' = [op EXCEPT ![c] = [Idle EXCEPT !.pc = pc, !.session = s, !.engine = e,
                                              !.life = LifeOf(s)]]
    BY <1>6, Zenon DEF CompactStarts, TurnQueued
  <2>5. [Idle EXCEPT !.pc = pc, !.session = s, !.engine = e, !.life = LifeOf(s)]
          \in CallRecords
    BY <2>1, ConstantsTyped DEF CallRecords
  <2>6. calls' \in Nat /\ disposedEngines' = disposedEngines
    BY <1>0, <1>6 DEF CompactStarts, TurnQueued, Ready, CallsTyped
  <2>7. CallsTyped'
    BY <1>0, <2>4, <2>5, <2>6, CallReplaced
  <2>8. CachesTyped' /\ OutsideTyped'
    BY <1>0, <1>6, CachesKept, OutsideKept DEF CompactStarts, TurnQueued
  <2> QED
    BY <2>3, <2>7, <2>8 DEF ProjectionTypeOK
<1>7. ASSUME NEW c \in Places, NEW o \in CallRecords, op' = [op EXCEPT ![c] = o],
             UNCHANGED <<stateVars, calls, disposedEngines, compactions, transcript, resets,
                         minted, applied>>
      PROVE  ProjectionTypeOK'
  <2>1. CallsTyped'
    BY <1>0, <1>7, CallReplaced DEF CallsTyped
  <2>2. TokensTyped' /\ CachesTyped' /\ OutsideTyped'
    BY <1>0, <1>7, TokensKept, CachesKept, OutsideKept DEF stateVars
  <2> QED
    BY <2>1, <2>2 DEF ProjectionTypeOK
<1>8. ASSUME NEW c \in Places, TurnCompacts(c) PROVE ProjectionTypeOK'
  <2>1. [op[c] EXCEPT !.pc = "compacting"] \in CallRecords
    BY CallTyped DEF CallRecords
  <2> QED
    BY <1>7, <1>8, <2>1, ConstantsTyped DEF TurnCompacts, Move
<1>9. ASSUME NEW c \in Places, DaemonCompacts(c) PROVE ProjectionTypeOK'
  <2>1. op[c].session \in Sessions /\ compactions[op[c].session] \in Nat
    BY <1>0, CallTyped DEF OutsideTyped
  <2>2. PICK a : /\ a \in Answers
                 /\ op' = [op EXCEPT ![c].answer = a]
                 /\ \/ compactions' = compactions
                    \/ compactions' = [compactions EXCEPT ![op[c].session] = @ + 1]
    <3>1. [kind |-> "did", compaction |-> compactions[op[c].session] + 1] \in Answers
      BY <2>1 DEF Answers
    <3>2. \A kind \in {"already", "not"} :
            [kind |-> kind, compaction |-> compactions[op[c].session]] \in Answers
      BY <2>1 DEF Answers
    <3> QED
      BY <1>9, <3>1, <3>2, Zenon DEF DaemonCompacts
  <2>3. [op[c] EXCEPT !.answer = a] \in CallRecords
    BY <2>2, CallTyped DEF CallRecords
  <2>4. CallsTyped'
    BY <1>0, <1>9, <2>2, <2>3, CallReplaced DEF DaemonCompacts, CallsTyped
  <2>5. OutsideTyped'
    BY <1>0, <1>9, <2>1, <2>2 DEF DaemonCompacts, OutsideTyped
  <2>6. TokensTyped' /\ CachesTyped'
    BY <1>0, <1>9, TokensKept, CachesKept DEF DaemonCompacts, stateVars
  <2> QED
    BY <2>4, <2>5, <2>6 DEF ProjectionTypeOK
<1>10. ASSUME NEW c \in Places, AppliedCompaction(c) PROVE ProjectionTypeOK'
  <2> DEFINE s == op[c].session
             token == minted[s] + 1
             seen == IF op[c].answer.compaction > applied[s] THEN op[c].answer.compaction
                     ELSE applied[s]
             done == [op[c] EXCEPT !.pc = "compacted", !.ok = TRUE, !.proj = token,
                                   !.cached = NoSnapshot, !.answer = NoAnswer]
  <2>1. /\ op[c] \in CallRecords /\ s \in Sessions /\ op[c].answer.compaction \in Nat
        /\ token \in Nat /\ token \in TokenValues
    BY <1>0, CallTyped DEF TokensTyped, TokenValues
  <2>2. seen \in Nat
    BY <1>0, <2>1 DEF TokensTyped
  <2>3. done \in CallRecords
    <3> HIDE DEF token
    <3> QED
      BY <2>1, ConstantsTyped DEF CallRecords
  <2>4. op' = [op EXCEPT ![c] = IF op[c].kind = "assemble" THEN done ELSE Idle]
    BY <1>10 DEF AppliedCompaction, Compacted, CallRecords
  <2>5. /\ snapshots' = [snapshots EXCEPT ![s] = NoSnapshot]
        /\ activeSessions' = activeSessions \ {s}
        /\ postToolCache' = [postToolCache EXCEPT ![s] = NoPrompt]
    BY <1>10 DEF AppliedCompaction
  <2>6. /\ projectionTokens' = [projectionTokens EXCEPT ![s] = token]
        /\ minted' = [minted EXCEPT ![s] = token]
        /\ applied' = [applied EXCEPT ![s] = seen]
        /\ lifecycleTokens' = lifecycleTokens /\ resets' = resets
    BY <1>10 DEF AppliedCompaction
  <2> HIDE DEF s, token, seen, done
  <2>7. CallsTyped'
    BY <1>0, <1>10, <2>3, <2>4, ConstantsTyped, CallReplaced DEF AppliedCompaction, CallsTyped
  <2>8. CachesTyped'
    BY <1>0, <2>5, ConstantsTyped DEF CachesTyped
  <2>9. TokensTyped'
    BY <1>0, <2>1, <2>2, <2>6 DEF TokensTyped
  <2>10. OutsideTyped'
    BY <1>0, <1>10, OutsideKept DEF AppliedCompaction
  <2> QED
    BY <2>7, <2>8, <2>9, <2>10 DEF ProjectionTypeOK
<1>11. ASSUME NEW c \in Places, OtherCompaction(c) PROVE ProjectionTypeOK'
  <2>1. PICK ok \in BOOLEAN :
          op' = [op EXCEPT ![c] = IF op[c].kind = "assemble"
                                  THEN [op[c] EXCEPT !.pc = "compacted", !.ok = ok,
                                                     !.answer = NoAnswer]
                                  ELSE Idle]
    BY <1>11 DEF OtherCompaction, Compacted
  <2>2. [op[c] EXCEPT !.pc = "compacted", !.ok = ok, !.answer = NoAnswer] \in CallRecords
    BY CallTyped, ConstantsTyped DEF CallRecords
  <2>3. CallsTyped'
    BY <1>0, <1>11, <2>1, <2>2, ConstantsTyped, CallReplaced DEF OtherCompaction, CallsTyped
  <2>4. CachesTyped'
    BY <1>0, <1>11, ConstantsTyped DEF OtherCompaction, CachesTyped
  <2>5. TokensTyped' /\ OutsideTyped'
    BY <1>0, <1>11, TokensKept, OutsideKept DEF OtherCompaction
  <2> QED
    BY <2>3, <2>4, <2>5 DEF ProjectionTypeOK
<1>12. ASSUME NEW c \in Places, AfterCompaction(c) PROVE ProjectionTypeOK'
  <2>1. \A on \in BOOLEAN : [op[c] EXCEPT !.pc = "client", !.active = on] \in CallRecords
    BY CallTyped, ZenonT(40) DEF CallRecords
  <2>2. \/ op' = [op EXCEPT ![c] = Idle]
        \/ \E on \in BOOLEAN :
             op' = [op EXCEPT ![c] = [op[c] EXCEPT !.pc = "client", !.active = on]]
    BY <1>12 DEF AfterCompaction, Returns
  <2> QED
    BY <1>7, <1>12, <2>1, <2>2, ConstantsTyped DEF AfterCompaction
<1>13. ASSUME NEW c \in Places, NEW o \in CallRecords, NEW caches \in [Sessions -> KeptPrompts],
              NEW fits, Finish(c, o, caches, fits)
       PROVE  op' = [op EXCEPT ![c] = Idle] /\ postToolCache' \in [Sessions -> KeptPrompts]
  <2>1. op' = [op EXCEPT ![c] = Idle]
    BY <1>13 DEF Finish, Returns
  <2>2. \/ postToolCache' = caches
        \/ postToolCache' = [caches EXCEPT ![o.session] =
               [version |-> o.args.version, context |-> o.prompt]]
    BY <1>13, Zenon DEF Finish
  <2>3. o.args \in Transcripts /\ o.prompt \in Contexts /\ o.session \in Sessions
    BY DEF CallRecords
  <2>4. [version |-> o.args.version, context |-> o.prompt] \in KeptPrompts
    BY <2>3 DEF KeptPrompts, Transcripts
  <2> QED
    BY <2>1, <2>2, <2>3, <2>4
<1>14. ASSUME NEW c \in Places, Continuation(c) PROVE ProjectionTypeOK'
  <2> DEFINE s == op[c].session
             seen == postToolCache[s].context # NoContext
             caches == IF seen THEN [postToolCache EXCEPT ![s] = NoPrompt] ELSE postToolCache
             o == [op[c] EXCEPT !.active = seen \/ @, !.prompt = postToolCache[s].context]
  <2>1. s \in Sessions /\ op[c] \in CallRecords /\ op[c].active \in BOOLEAN
    BY CallTyped DEF CallRecords
  <2>2. postToolCache[s].context \in Contexts
    BY <1>0, <2>1 DEF CachesTyped, KeptPrompts
  <2>3. caches \in [Sessions -> KeptPrompts]
    BY <1>0, <2>1, ConstantsTyped DEF CachesTyped
  <2>4. o \in CallRecords
    <3> HIDE DEF seen
    <3> QED
      BY <2>1, <2>2 DEF CallRecords
  <2>5. PICK fits \in BOOLEAN : Finish(c, o, caches, fits)
    BY <1>14 DEF Continuation
  <2>6. activeSessions' \subseteq Sessions
    BY <1>0, <1>14, <2>1 DEF Continuation, CachesTyped
  <2> HIDE DEF o, caches
  <2>7. op' = [op EXCEPT ![c] = Idle] /\ postToolCache' \in [Sessions -> KeptPrompts]
    BY <1>13, <2>3, <2>4, <2>5
  <2>8. CallsTyped'
    BY <1>0, <1>14, <2>7, ConstantsTyped, CallReplaced DEF Continuation, CallsTyped
  <2>9. CachesTyped'
    BY <1>0, <1>14, <2>6, <2>7 DEF Continuation, CachesTyped
  <2>10. TokensTyped' /\ OutsideTyped'
    BY <1>0, <1>14, TokensKept, OutsideKept DEF Continuation
  <2> QED
    BY <2>8, <2>9, <2>10 DEF ProjectionTypeOK
<1>15. ASSUME NEW c \in Places, DaemonAssembles(c) PROVE ProjectionTypeOK'
  <2>1. compactions[op[c].session] \in Nat
    BY <1>0, CallTyped DEF OutsideTyped
  <2>2. PICK a : /\ a \in Answers
                 /\ op' = [op EXCEPT ![c] = [op[c] EXCEPT !.pc = "asked", !.answer = a]]
    <3>1. \A kind \in {"context", "bare"} :
            [kind |-> kind, compaction |-> compactions[op[c].session]] \in Answers
      BY <2>1 DEF Answers
    <3> QED
      BY <1>15, <3>1 DEF DaemonAssembles
  <2>3. [op[c] EXCEPT !.pc = "asked", !.answer = a] \in CallRecords
    BY <2>2, CallTyped DEF CallRecords
  <2> QED
    BY <1>7, <1>15, <2>2, <2>3 DEF DaemonAssembles
<1>16. ASSUME NEW c \in Places, AssembledProjection(c) PROVE ProjectionTypeOK'
  <2> DEFINE context == [compaction |-> op[c].answer.compaction,
                         window |-> op[c].args.window, life |-> op[c].life]
             snapshot == [context |-> context, version |-> op[c].args.version]
             asked == [op[c] EXCEPT !.pc = "enriching", !.prompt = context, !.active = TRUE,
                                    !.cached = NoSnapshot, !.answer = NoAnswer]
  <2>1. context \in Contexts /\ op[c].session \in Sessions
    BY CallTyped DEF Contexts
  <2>2. snapshot \in Snapshots
    BY <2>1, CallTyped DEF Snapshots
  <2>3. asked \in CallRecords
    <3> HIDE DEF context
    <3> QED
      BY <2>1, CallTyped, ConstantsTyped DEF CallRecords
  <2>4. op' = [op EXCEPT ![c] = asked]
    BY <1>16 DEF AssembledProjection
  <2>5. /\ snapshots' = [snapshots EXCEPT ![op[c].session] = snapshot]
        /\ activeSessions' = activeSessions \cup {op[c].session}
        /\ postToolCache' = [postToolCache EXCEPT ![op[c].session] = NoPrompt]
    BY <1>16 DEF AssembledProjection
  <2> HIDE DEF context, snapshot, asked
  <2>6. CallsTyped'
    BY <1>0, <1>16, <2>3, <2>4, CallReplaced DEF AssembledProjection, CallsTyped
  <2>7. CachesTyped'
    BY <1>0, <2>1, <2>2, <2>5, ConstantsTyped DEF CachesTyped
  <2>8. TokensTyped' /\ OutsideTyped'
    BY <1>0, <1>16, TokensKept, OutsideKept DEF AssembledProjection
  <2> QED
    BY <2>6, <2>7, <2>8 DEF ProjectionTypeOK
<1>17. ASSUME NEW c \in Places, AssembledOther(c) PROVE ProjectionTypeOK'
  <2> DEFINE prompt == IF op[c].answer.kind = "context"
                       THEN [compaction |-> op[c].answer.compaction,
                             window |-> op[c].args.window, life |-> op[c].life]
                       ELSE op[c].cached.context
             asked == [op[c] EXCEPT !.pc = "enriching", !.prompt = prompt, !.answer = NoAnswer]
  <2>1. prompt \in Contexts
    BY CallTyped DEF Contexts
  <2>2. asked \in CallRecords
    <3> HIDE DEF prompt
    <3> QED
      BY <2>1, CallTyped, ConstantsTyped DEF CallRecords
  <2>3. op' = [op EXCEPT ![c] = asked]
    BY <1>17 DEF AssembledOther
  <2> HIDE DEF asked
  <2> QED
    BY <1>7, <1>17, <2>2, <2>3 DEF AssembledOther
<1>18. ASSUME NEW c \in Places, AssembleReturns(c) PROVE ProjectionTypeOK'
  <2>1. PICK fits \in BOOLEAN : Finish(c, op[c], postToolCache, fits)
    BY <1>18 DEF AssembleReturns
  <2>2. op[c] \in CallRecords /\ postToolCache \in [Sessions -> KeptPrompts]
    BY <1>0, CallTyped DEF CachesTyped
  <2>3. op' = [op EXCEPT ![c] = Idle] /\ postToolCache' \in [Sessions -> KeptPrompts]
    BY <1>13, <2>1, <2>2
  <2>4. CallsTyped'
    BY <1>0, <1>18, <2>3, ConstantsTyped, CallReplaced DEF AssembleReturns, CallsTyped
  <2>5. CachesTyped'
    BY <1>0, <1>18, <2>3 DEF AssembleReturns, CachesTyped
  <2>6. TokensTyped' /\ OutsideTyped'
    BY <1>0, <1>18, TokensKept, OutsideKept DEF AssembleReturns
  <2> QED
    BY <2>4, <2>5, <2>6 DEF ProjectionTypeOK
<1>19. ASSUME NEW c \in Places, AssembleFails(c) PROVE ProjectionTypeOK'
  <2>1. op' = [op EXCEPT ![c] = Idle]
    BY <1>19 DEF AssembleFails, Returns
  <2> QED
    BY <1>7, <1>19, <2>1, ConstantsTyped DEF AssembleFails
<1>20. CASE UNCHANGED projectionVars
  BY <1>0, <1>20, TokensKept, CachesKept, CallsKept, OutsideKept
     DEF projectionVars, stateVars, ProjectionTypeOK
<1> QED
  BY <1>1, <1>2, <1>3, <1>4, <1>5, <1>6, <1>8, <1>9, <1>10, <1>11, <1>12, <1>14,
     <1>15, <1>16, <1>17, <1>18, <1>19, <1>20 DEF ProjectionNext

(* Every call, token and remembered context keeps its type.                *)
THEOREM ProjectionTyped == ProjectionSpec => []ProjectionTypeOK
<1>1. ProjectionInit => ProjectionTypeOK
  BY ConstantsTyped DEF ProjectionInit, ProjectionTypeOK, TokensTyped, CachesTyped,
     CallsTyped, OutsideTyped, TokenValues, NoToken
<1> QED
  BY <1>1, TypeStep, PTL DEF ProjectionSpec

-----------------------------------------------------------------------------
(* Freshness.  What a call holds was current when it took it.  While the   *)
(* session's tokens are those the call took, nothing has been cleared or   *)
(* applied since, so what it holds is current still.                       *)

SessionInv(s) ==
  /\ lifecycleTokens[s] \in {NoToken, resets[s]}
  /\ projectionTokens[s] <= minted[s]
  /\ applied[s] <= compactions[s]
  /\ snapshots[s] # NoSnapshot =>
       snapshots[s].context # NoContext /\ Current(snapshots[s].context, s)
  /\ postToolCache[s].context # NoContext => Current(postToolCache[s].context, s)

CallTokens(c) ==
  LET o == op[c] IN
  /\ o.life # NoToken /\ o.life <= resets[o.session]
  /\ o.life = resets[o.session] => lifecycleTokens[o.session] = o.life
  /\ o.proj <= minted[o.session]
  /\ o.answer.compaction <= compactions[o.session]
  /\ o.pc # "enriching" => o.prompt = NoContext
  /\ o.cached # NoSnapshot => o.cached.context # NoContext
  /\ o.cached # NoSnapshot /\ o.pc \in {"client", "asked", "enriching"} => o.active

CallFresh(c) ==
  LET o == op[c] IN
  /\ o.cached # NoSnapshot => Current(o.cached.context, o.session)
  /\ o.prompt # NoContext => Current(o.prompt, o.session)
  /\ o.pc = "asked" => applied[o.session] <= o.answer.compaction
  /\ o.pc = "enriching" =>
       /\ ~ o.active => o.prompt = NoContext
       /\ o.cached # NoSnapshot => o.prompt = o.cached.context
       /\ o.cached = NoSnapshot /\ o.prompt # NoContext => o.prompt.window = o.args.window

CallInv(c) ==
  op[c].pc # "idle" => CallTokens(c) /\ (StateCurrent(op[c]) => CallFresh(c))

ProjectionInv ==
  /\ ProjectionTypeOK
  /\ \A s \in Sessions : SessionInv(s)
  /\ \A c \in Places : CallInv(c)
  /\ AssembledIsCurrent /\ NoBlackout /\ NoHole

(* What a step may do to a session: its counters grow, and unless it was   *)
(* cleared its lifecycle token stays or is made; a projection token that   *)
(* changes is a new one, and nothing is applied without one.               *)
SessionAdvances(s) ==
  /\ resets[s] <= resets'[s] /\ minted[s] <= minted'[s]
  /\ compactions[s] <= compactions'[s]
  /\ disposedEngines \subseteq disposedEngines'
  /\ resets'[s] = resets[s] =>
       /\ lifecycleTokens[s] \in {NoToken, lifecycleTokens'[s]}
       /\ \/ minted[s] < projectionTokens'[s]
          \/ projectionTokens'[s] = projectionTokens[s] /\ applied'[s] = applied[s]

(* The values of a session have their types.                               *)
LEMMA SessionTyped ==
  ASSUME ProjectionTypeOK, NEW s \in Sessions
  PROVE  /\ resets[s] \in Nat /\ minted[s] \in Nat /\ applied[s] \in Nat
         /\ compactions[s] \in Nat
         /\ lifecycleTokens[s] \in TokenValues /\ projectionTokens[s] \in TokenValues
         /\ snapshots[s] \in Snapshots /\ snapshots[s].context \in Contexts
         /\ postToolCache[s] \in KeptPrompts /\ postToolCache[s].context \in Contexts
<1>1. snapshots[s] \in Snapshots /\ postToolCache[s] \in KeptPrompts
  BY DEF ProjectionTypeOK, CachesTyped
<1> QED
  BY <1>1 DEF ProjectionTypeOK, TokensTyped, OutsideTyped, Snapshots, KeptPrompts

(* A call that is still current after a step was so before it, and nothing *)
(* was cleared or applied by the step.                                     *)
LEMMA CurrentBefore ==
  ASSUME ProjectionTypeOK, ProjectionTypeOK', NEW c \in Places, op'[c] = op[c],
         op[c].pc # "idle", CallTokens(c), SessionInv(op[c].session)',
         SessionAdvances(op[c].session), StateCurrent(op[c])'
  PROVE  /\ StateCurrent(op[c])
         /\ resets'[op[c].session] = resets[op[c].session]
         /\ applied'[op[c].session] = applied[op[c].session]
<1> DEFINE s == op[c].session
<1>1. /\ s \in Sessions /\ resets[s] \in Nat /\ minted[s] \in Nat
      /\ op[c].life \in TokenValues /\ op[c].proj \in TokenValues
  BY CallTyped, SessionTyped
<1>2. resets'[s] \in Nat
  BY <1>1 DEF ProjectionTypeOK, TokensTyped
<1>3. /\ op[c].engine \notin disposedEngines' /\ lifecycleTokens'[s] = op[c].life
      /\ projectionTokens'[s] = op[c].proj
  BY DEF StateCurrent, LifeCurrent
<1>4. op[c].life # NoToken /\ op[c].life <= resets[s] /\ op[c].proj <= minted[s]
      /\ (op[c].life = resets[s] => lifecycleTokens[s] = op[c].life)
  BY DEF CallTokens
<1>5. lifecycleTokens'[s] \in {NoToken, resets'[s]}
  BY DEF SessionInv
<1>6. resets[s] <= resets'[s] /\ disposedEngines \subseteq disposedEngines'
  BY DEF SessionAdvances
<1>7. op[c].life = resets[s] /\ resets'[s] = resets[s]
  BY <1>1, <1>2, <1>3, <1>4, <1>5, <1>6 DEF TokenValues, NoToken
<1>8. projectionTokens'[s] = projectionTokens[s] /\ applied'[s] = applied[s]
  BY <1>1, <1>3, <1>4, <1>7 DEF SessionAdvances, TokenValues, NoToken
<1> QED
  BY <1>3, <1>4, <1>6, <1>7, <1>8 DEF StateCurrent, LifeCurrent

(* So a call that a step does not change keeps its part of the invariant.  *)
LEMMA CallKept ==
  ASSUME ProjectionTypeOK, ProjectionTypeOK', NEW c \in Places, op'[c] = op[c],
         CallInv(c), SessionInv(op[c].session)', SessionAdvances(op[c].session)
  PROVE  CallInv(c)'
<1> SUFFICES ASSUME op[c].pc # "idle"
             PROVE  CallTokens(c)' /\ (StateCurrent(op[c])' => CallFresh(c)')
  BY DEF CallInv
<1> DEFINE s == op[c].session
<1>1. CallTokens(c) /\ (StateCurrent(op[c]) => CallFresh(c))
  BY DEF CallInv
<1>2. /\ s \in Sessions /\ resets[s] \in Nat /\ minted[s] \in Nat
      /\ op[c].life \in TokenValues /\ op[c].proj \in TokenValues
      /\ compactions[s] \in Nat /\ op[c].answer.compaction \in Nat
  BY CallTyped, SessionTyped
<1>3. resets'[s] \in Nat /\ minted'[s] \in Nat /\ compactions'[s] \in Nat
  BY <1>2 DEF ProjectionTypeOK, TokensTyped, OutsideTyped
<1>4. CallTokens(c)'
  <2>1. op[c].life # NoToken /\ op[c].life <= resets'[s]
    BY <1>1, <1>2, <1>3 DEF CallTokens, SessionAdvances, TokenValues, NoToken
  <2>2. op[c].life = resets'[s] => lifecycleTokens'[s] = op[c].life
    <3> SUFFICES ASSUME op[c].life = resets'[s] PROVE lifecycleTokens'[s] = op[c].life
      OBVIOUS
    <3>1. resets'[s] = resets[s] /\ lifecycleTokens[s] = op[c].life
      BY <1>1, <1>2, <1>3 DEF CallTokens, SessionAdvances, TokenValues, NoToken
    <3> QED
      BY <2>1, <3>1 DEF SessionAdvances
  <2>3. op[c].proj <= minted'[s] /\ op[c].answer.compaction <= compactions'[s]
    BY <1>1, <1>2, <1>3 DEF CallTokens, SessionAdvances, TokenValues, NoToken
  <2> QED
    BY <1>1, <2>1, <2>2, <2>3 DEF CallTokens
<1>5. ASSUME StateCurrent(op[c])' PROVE CallFresh(c)'
  <2>1. /\ StateCurrent(op[c]) /\ resets'[s] = resets[s] /\ applied'[s] = applied[s]
    BY <1>1, <1>5, CurrentBefore
  <2>2. CallFresh(c)
    BY <1>1, <2>1
  <2> QED
    BY <2>1, <2>2 DEF CallFresh, Current
<1> QED
  BY <1>4, <1>5

(* A step that leaves tokens alone, and drops entries of the caches at     *)
(* most, keeps what is known of the sessions; compactions only grow.       *)
LEMMA SessionsKept ==
  ASSUME ProjectionTypeOK, ProjectionTypeOK', \A s \in Sessions : SessionInv(s),
         UNCHANGED <<lifecycleTokens, projectionTokens, resets, minted, applied>>,
         \A s \in Sessions : /\ snapshots'[s] \in {NoSnapshot, snapshots[s]}
                             /\ postToolCache'[s] \in {NoPrompt, postToolCache[s]}
                             /\ compactions[s] <= compactions'[s],
         disposedEngines \subseteq disposedEngines'
  PROVE  \A s \in Sessions : SessionInv(s)' /\ SessionAdvances(s)
<1> TAKE s \in Sessions
<1>1. applied[s] <= compactions'[s]
  <2>1. compactions'[s] \in Nat
    BY DEF ProjectionTypeOK, OutsideTyped
  <2> QED
    BY <2>1, SessionTyped DEF SessionInv
<1>2. SessionInv(s)'
  BY <1>1 DEF SessionInv, Current, NoPrompt
<1>3. SessionAdvances(s)
  BY SessionTyped DEF SessionAdvances
<1> QED
  BY <1>2, <1>3

(* A step that changes neither tokens, caches nor compactions.             *)
LEMMA SessionsUntouched ==
  ASSUME ProjectionInv, ProjectionTypeOK',
         UNCHANGED <<stateVars, compactions, resets, minted, applied>>,
         disposedEngines \subseteq disposedEngines'
  PROVE  \A s \in Sessions : SessionInv(s)' /\ SessionAdvances(s)
BY SessionsKept, SessionTyped DEF ProjectionInv, stateVars

(* The steps of clearing a session: every call of it has an old lifecycle. *)
LEMMA ClearKeeps ==
  ASSUME ProjectionInv, ProjectionTypeOK', NEW s \in Sessions, SessionCleared(s)
  PROVE  \A t \in Sessions : SessionInv(t)' /\ SessionAdvances(t)
<1>0. ProjectionTypeOK /\ \A t \in Sessions : SessionInv(t)
  BY DEF ProjectionInv
<1> TAKE t \in Sessions
<1>1. /\ compactions' = compactions /\ minted' = minted /\ disposedEngines' = disposedEngines
      /\ compactions[t] \in Nat /\ minted[t] \in Nat /\ resets[t] \in Nat
  BY <1>0, SessionTyped DEF SessionCleared
<1>2. CASE t = s
  <2>1. /\ snapshots'[s] = NoSnapshot /\ lifecycleTokens'[s] = NoToken
        /\ projectionTokens'[s] = NoToken /\ postToolCache'[s] = NoPrompt
        /\ resets'[s] = resets[s] + 1 /\ applied'[s] = 0
    BY <1>0 DEF SessionCleared, Clear, ProjectionTypeOK, TokensTyped, CachesTyped
  <2>2. SessionInv(s)'
    BY <1>1, <1>2, <2>1 DEF SessionInv, NoPrompt, NoToken
  <2> QED
    BY <1>1, <1>2, <2>1, <2>2 DEF SessionAdvances
<1>3. CASE t # s
  <2>1. /\ snapshots'[t] = snapshots[t] /\ lifecycleTokens'[t] = lifecycleTokens[t]
        /\ projectionTokens'[t] = projectionTokens[t] /\ postToolCache'[t] = postToolCache[t]
        /\ resets'[t] = resets[t] /\ applied'[t] = applied[t]
    BY <1>0, <1>3 DEF SessionCleared, Clear, ProjectionTypeOK, TokensTyped, CachesTyped
  <2> QED
    BY <1>0, <1>1, <2>1 DEF SessionInv, SessionAdvances, Current
<1> QED
  BY <1>2, <1>3

(* A dropped prompt or an evicted snapshot.                                *)
LEMMA DroppedKeeps ==
  ASSUME ProjectionInv, ProjectionTypeOK', NEW s \in Sessions,
         PromptDropped(s) \/ SnapshotEvicted(s)
  PROVE  \A t \in Sessions : SessionInv(t)' /\ SessionAdvances(t)
<1>0. ProjectionTypeOK /\ \A t \in Sessions : SessionInv(t)
  BY DEF ProjectionInv
<1>1. \A t \in Sessions : /\ snapshots'[t] \in {NoSnapshot, snapshots[t]}
                          /\ postToolCache'[t] \in {NoPrompt, postToolCache[t]}
  BY <1>0 DEF PromptDropped, SnapshotEvicted, ProjectionTypeOK, CachesTyped
<1> QED
  BY <1>0, <1>1, SessionsKept, SessionTyped DEF PromptDropped, SnapshotEvicted

(* compact() and afterTurn() make the lifecycle token if there is none.    *)
LEMMA StartKeeps ==
  ASSUME ProjectionInv, ProjectionTypeOK', NEW c \in Places, NEW s \in Sessions,
         NEW e \in ContextEngines, CompactStarts(c, s, e) \/ TurnQueued(c, s, e)
  PROVE  /\ \A t \in Sessions : SessionInv(t)' /\ SessionAdvances(t)
         /\ CallInv(c)' /\ \A d \in Places \ {c} : op'[d] = op[d]
<1>0. ProjectionTypeOK /\ \A t \in Sessions : SessionInv(t)
  BY DEF ProjectionInv
<1>1. /\ lifecycleTokens' = WithToken(lifecycleTokens, s, resets[s])
      /\ projectionTokens' = projectionTokens /\ snapshots' = snapshots
      /\ postToolCache' = postToolCache
      /\ resets' = resets /\ minted' = minted /\ applied' = applied
      /\ compactions' = compactions /\ disposedEngines' = disposedEngines
  BY DEF CompactStarts, TurnQueued
<1>2. \A t \in Sessions :
        lifecycleTokens'[t] = IF t = s /\ lifecycleTokens[s] = NoToken THEN resets[s]
                              ELSE lifecycleTokens[t]
  BY <1>0, <1>1 DEF WithToken, ProjectionTypeOK, TokensTyped
<1>3. \A t \in Sessions : SessionInv(t)'
  BY <1>0, <1>1, <1>2 DEF SessionInv, Current
<1>4. \A t \in Sessions : SessionAdvances(t)
  BY <1>0, <1>1, <1>2, SessionTyped DEF SessionAdvances
<1>5. PICK pc \in {"idle", "ingesting", "compacting"} :
        op' = [op EXCEPT ![c] = [Idle EXCEPT !.pc = pc, !.session = s, !.engine = e,
                                            !.life = LifeOf(s)]]
  BY Zenon DEF CompactStarts, TurnQueued
<1>6. op'[c] = [Idle EXCEPT !.pc = pc, !.session = s, !.engine = e, !.life = LifeOf(s)]
      /\ \A d \in Places \ {c} : op'[d] = op[d]
  BY <1>0, <1>5 DEF ProjectionTypeOK, CallsTyped
<1>7. /\ op'[c].pc = pc /\ op'[c].session = s /\ op'[c].life = LifeOf(s)
      /\ op'[c].proj = NoToken /\ op'[c].cached = NoSnapshot /\ op'[c].prompt = NoContext
      /\ op'[c].answer = NoAnswer
  BY <1>6 DEF Idle
<1>8. LifeOf(s) = resets[s] /\ lifecycleTokens'[s] = resets[s]
  BY <1>0, <1>2 DEF LifeOf, SessionInv
<1>9. resets[s] \in Nat /\ minted[s] \in Nat /\ compactions[s] \in Nat
  BY <1>0, SessionTyped
<1>10. CallTokens(c)'
  BY <1>1, <1>7, <1>8, <1>9 DEF CallTokens, NoToken, NoAnswer
<1>11. CallFresh(c)'
  BY <1>7 DEF CallFresh
<1> QED
  BY <1>3, <1>4, <1>6, <1>10, <1>11 DEF CallInv

(* assemble() makes the tokens that are missing and takes the snapshot, or *)
(* clears the session when the snapshot's boundary is gone.                *)
LEMMA AssembleStartKeeps ==
  ASSUME ProjectionInv, ProjectionTypeOK', NEW c \in Places, NEW s \in Sessions,
         NEW e \in ContextEngines, AssembleStarts(c, s, e)
  PROVE  /\ \A t \in Sessions : SessionInv(t)' /\ SessionAdvances(t)
         /\ CallInv(c)' /\ \A d \in Places \ {c} : op'[d] = op[d]
<1>0. ProjectionTypeOK /\ \A t \in Sessions : SessionInv(t)
  BY DEF ProjectionInv
<1> DEFINE gone == snapshots[s] # NoSnapshot /\ BoundaryGone(snapshots[s], transcript[s])
           lives == IF gone THEN resets[s] + 1 ELSE resets[s]
           life == IF gone THEN lives ELSE LifeOf(s)
           new == gone \/ projectionTokens[s] = NoToken
           proj == IF new THEN minted[s] + 1 ELSE projectionTokens[s]
           cached == IF gone THEN NoSnapshot ELSE snapshots[s]
<1>1. /\ resets' = [resets EXCEPT ![s] = lives]
      /\ lifecycleTokens' = [lifecycleTokens EXCEPT ![s] = life]
      /\ projectionTokens' = [projectionTokens EXCEPT ![s] = proj]
      /\ minted' = [minted EXCEPT ![s] = IF new THEN proj ELSE @]
      /\ applied' = [applied EXCEPT ![s] = IF gone THEN 0 ELSE @]
      /\ snapshots' = [snapshots EXCEPT ![s] = cached]
      /\ postToolCache' = IF gone THEN [postToolCache EXCEPT ![s] = NoPrompt]
                          ELSE postToolCache
      /\ compactions' = compactions /\ disposedEngines' = disposedEngines
  BY DEF AssembleStarts
<1>2. /\ resets[s] \in Nat /\ minted[s] \in Nat /\ applied[s] \in Nat
      /\ compactions[s] \in Nat
      /\ projectionTokens[s] \in TokenValues /\ SessionInv(s)
  BY <1>0, SessionTyped
<1>3. life = lives /\ lives \in Nat /\ resets[s] <= lives
      /\ (lives = resets[s] => ~ gone)
  BY <1>2 DEF LifeOf, SessionInv
<1>4. proj \in TokenValues /\ (new => proj = minted[s] + 1)
      /\ (~ new => proj = projectionTokens[s] /\ proj <= minted[s])
  BY <1>2 DEF SessionInv, TokenValues
<1>5. /\ resets'[s] = lives /\ lifecycleTokens'[s] = lives /\ projectionTokens'[s] = proj
      /\ minted'[s] = (IF new THEN proj ELSE minted[s])
      /\ applied'[s] = (IF gone THEN 0 ELSE applied[s]) /\ snapshots'[s] = cached
      /\ postToolCache'[s] = (IF gone THEN NoPrompt ELSE postToolCache[s])
  BY <1>0, <1>1, <1>3 DEF ProjectionTypeOK, TokensTyped, CachesTyped
<1>6. PICK pc \in {"compacted", "compacting", "client"}, on \in BOOLEAN, postTool \in BOOLEAN :
        /\ (cached # NoSnapshot => on)
        /\ op' = [op EXCEPT ![c] =
             [Idle EXCEPT !.kind = "assemble", !.session = s, !.engine = e,
                !.life = life, !.proj = proj, !.cached = cached, !.active = on,
                !.args = transcript[s], !.postTool = postTool, !.pc = pc]]
  <2>1. PICK at \in {"compacting", "client"}, postTool \in BOOLEAN :
     op' = [op EXCEPT ![c] =
       [Idle EXCEPT !.kind = "assemble", !.session = s, !.engine = e,
          !.life = life, !.proj = proj, !.cached = cached,
          !.active = s \in activeSessions' \/ cached # NoSnapshot,
          !.args = transcript[s], !.postTool = postTool,
          !.pc = IF at = "compacting" /\ e \in disposedEngines THEN "compacted" ELSE at]]
    BY Zenon DEF AssembleStarts
  <2> DEFINE pc == IF at = "compacting" /\ e \in disposedEngines THEN "compacted" ELSE at
             on == s \in activeSessions' \/ cached # NoSnapshot
  <2>2. pc \in {"compacted", "compacting", "client"} /\ on \in BOOLEAN
        /\ (cached # NoSnapshot => on)
    OBVIOUS
  <2> HIDE DEF cached, life, proj
  <2> QED
    BY <2>1, <2>2, ZenonT(40)
<1> HIDE DEF lives, life, new, proj, cached
<1>7. op'[c] = [Idle EXCEPT !.kind = "assemble", !.session = s, !.engine = e,
                !.life = life, !.proj = proj, !.cached = cached, !.active = on,
                !.args = transcript[s], !.postTool = postTool, !.pc = pc]
      /\ \A d \in Places \ {c} : op'[d] = op[d]
  BY <1>0, <1>6 DEF ProjectionTypeOK, CallsTyped
<1>8. /\ op'[c].session = s /\ op'[c].life = life /\ op'[c].proj = proj
      /\ op'[c].cached = cached /\ op'[c].active = on /\ op'[c].prompt = NoContext
      /\ op'[c].answer = NoAnswer /\ op'[c].pc = pc
  BY <1>7 DEF Idle
<1>9. cached # NoSnapshot => cached = snapshots[s] /\ ~ gone
  BY DEF cached
<1>10. SessionInv(s)'
  <2>1. lifecycleTokens'[s] = resets'[s] /\ projectionTokens'[s] <= minted'[s]
    BY <1>2, <1>4, <1>5 DEF TokenValues, NoToken
  <2>2. applied'[s] <= compactions'[s]
    BY <1>1, <1>2, <1>5 DEF SessionInv
  <2>3. ~ gone => lives = resets[s] /\ cached = snapshots[s]
    BY DEF lives, cached
  <2>4. /\ snapshots'[s] # NoSnapshot =>
             snapshots'[s].context # NoContext /\ Current(snapshots[s].context, s)'
        /\ postToolCache'[s].context # NoContext => Current(postToolCache[s].context, s)'
    <3>1. CASE gone
      BY <1>5, <3>1 DEF cached, NoPrompt
    <3>2. CASE ~ gone
      BY <1>2, <1>5, <2>3, <3>2 DEF SessionInv, Current
    <3> QED
      BY <3>1, <3>2
  <2> QED
    BY <2>1, <2>2, <2>4 DEF SessionInv
<1>11. SessionAdvances(s)
  <2>1. resets[s] <= resets'[s] /\ minted[s] <= minted'[s] /\ compactions[s] <= compactions'[s]
    BY <1>1, <1>2, <1>3, <1>4, <1>5 DEF TokenValues
  <2>2. ASSUME resets'[s] = resets[s]
        PROVE  lifecycleTokens[s] \in {NoToken, lifecycleTokens'[s]}
    BY <1>2, <1>5, <2>2 DEF SessionInv
  <2>3. ASSUME resets'[s] = resets[s]
        PROVE  \/ minted[s] < projectionTokens'[s]
               \/ projectionTokens'[s] = projectionTokens[s] /\ applied'[s] = applied[s]
    BY <1>2, <1>3, <1>4, <1>5, <2>3
  <2> QED
    BY <1>1, <2>1, <2>2, <2>3 DEF SessionAdvances
<1>12. \A t \in Sessions \ {s} : SessionInv(t)' /\ SessionAdvances(t)
  <2> TAKE t \in Sessions \ {s}
  <2>1. /\ snapshots'[t] = snapshots[t] /\ lifecycleTokens'[t] = lifecycleTokens[t]
        /\ projectionTokens'[t] = projectionTokens[t] /\ postToolCache'[t] = postToolCache[t]
        /\ resets'[t] = resets[t] /\ applied'[t] = applied[t] /\ minted'[t] = minted[t]
    BY <1>0, <1>1 DEF ProjectionTypeOK, TokensTyped, CachesTyped
  <2>2. SessionInv(t)'
    BY <1>0, <1>1, <2>1 DEF SessionInv, Current
  <2> QED
    BY <1>0, <1>1, <2>1, <2>2, SessionTyped DEF SessionAdvances
<1>13. CallTokens(c)'
  <2>1. life # NoToken /\ life <= resets'[s] /\ lifecycleTokens'[s] = life
    BY <1>3, <1>5 DEF NoToken
  <2>2. proj <= minted'[s] /\ NoAnswer.compaction <= compactions'[s]
    BY <1>1, <1>2, <1>4, <1>5 DEF NoAnswer, TokenValues, NoToken
  <2>3. cached # NoSnapshot => cached.context # NoContext
    BY <1>2, <1>9 DEF SessionInv
  <2> QED
    BY <1>6, <1>8, <2>1, <2>2, <2>3 DEF CallTokens
<1>14. CallFresh(c)'
  <2>1. cached # NoSnapshot =>
          cached.context.compaction >= applied'[s] /\ cached.context.life = resets'[s]
    BY <1>5, <1>9, <1>10 DEF SessionInv, Current
  <2> QED
    BY <1>6, <1>8, <2>1 DEF CallFresh, Current
<1> QED
  BY <1>7, <1>10, <1>11, <1>12, <1>13, <1>14 DEF CallInv

(* An applied compaction takes a new projection token: every other call of *)
(* the session has an old one.                                             *)
LEMMA AppliedKeeps ==
  ASSUME ProjectionInv, ProjectionTypeOK', NEW c \in Places, AppliedCompaction(c)
  PROVE  /\ \A t \in Sessions : SessionInv(t)' /\ SessionAdvances(t)
         /\ CallInv(c)' /\ \A d \in Places \ {c} : op'[d] = op[d]
<1>0. ProjectionTypeOK /\ (\A t \in Sessions : SessionInv(t)) /\ CallInv(c)
  BY DEF ProjectionInv
<1>s. PICK s \in Sessions : s = op[c].session
  BY <1>0, CallTyped
<1> DEFINE token == minted[s] + 1
           seen == IF op[c].answer.compaction > applied[s] THEN op[c].answer.compaction
                   ELSE applied[s]
           done == [op[c] EXCEPT !.pc = "compacted", !.ok = TRUE, !.proj = token,
                                 !.cached = NoSnapshot, !.answer = NoAnswer]
<1>1. /\ snapshots' = [snapshots EXCEPT ![s] = NoSnapshot]
      /\ postToolCache' = [postToolCache EXCEPT ![s] = NoPrompt]
      /\ projectionTokens' = [projectionTokens EXCEPT ![s] = token]
      /\ minted' = [minted EXCEPT ![s] = token]
      /\ applied' = [applied EXCEPT ![s] = seen]
      /\ lifecycleTokens' = lifecycleTokens /\ resets' = resets
      /\ compactions' = compactions /\ disposedEngines' = disposedEngines
      /\ op[c].pc = "compacting" /\ LifeCurrent(op[c])
  BY <1>s DEF AppliedCompaction
<1>2. op' = [op EXCEPT ![c] = IF op[c].kind = "assemble" THEN done ELSE Idle]
  BY <1>s DEF AppliedCompaction, Compacted
<1>3. /\ s \in Sessions /\ op[c] \in CallRecords /\ op[c].answer.compaction \in Nat
      /\ resets[s] \in Nat /\ minted[s] \in Nat /\ applied[s] \in Nat
      /\ compactions[s] \in Nat /\ token \in Nat
  BY <1>0, CallTyped, SessionTyped
<1>4. /\ op[c].life # NoToken /\ op[c].life <= resets[s]
      /\ op[c].answer.compaction <= compactions[s] /\ op[c].prompt \in Contexts
  BY <1>0, <1>1, <1>s, CallTyped DEF CallInv, CallTokens
<1>5. lifecycleTokens[s] = op[c].life
  BY <1>1, <1>s DEF LifeCurrent
<1>6. seen <= compactions[s]
  BY <1>0, <1>3, <1>4 DEF SessionInv
<1>7. /\ snapshots'[s] = NoSnapshot /\ postToolCache'[s] = NoPrompt
      /\ projectionTokens'[s] = token /\ minted'[s] = token /\ applied'[s] = seen
  BY <1>0, <1>1, <1>3 DEF ProjectionTypeOK, TokensTyped, CachesTyped
<1>8. minted[s] < token
  BY <1>3
<1> HIDE DEF token, seen
<1>9. SessionInv(s)' /\ SessionAdvances(s)
  <2>1. SessionInv(s)'
    BY <1>0, <1>1, <1>3, <1>6, <1>7 DEF SessionInv, NoPrompt
  <2> QED
    BY <1>1, <1>3, <1>7, <1>8, <2>1 DEF SessionAdvances
<1>10. \A t \in Sessions \ {s} : SessionInv(t)' /\ SessionAdvances(t)
  <2> TAKE t \in Sessions \ {s}
  <2>1. /\ snapshots'[t] = snapshots[t] /\ postToolCache'[t] = postToolCache[t]
        /\ projectionTokens'[t] = projectionTokens[t]
        /\ applied'[t] = applied[t] /\ minted'[t] = minted[t]
    BY <1>0, <1>1 DEF ProjectionTypeOK, TokensTyped, CachesTyped
  <2>2. SessionInv(t)'
    BY <1>0, <1>1, <2>1 DEF SessionInv, Current
  <2> QED
    BY <1>0, <1>1, <2>1, <2>2, SessionTyped DEF SessionAdvances
<1>11. op'[c] = (IF op[c].kind = "assemble" THEN done ELSE Idle)
       /\ \A d \in Places \ {c} : op'[d] = op[d]
  BY <1>0, <1>2 DEF ProjectionTypeOK, CallsTyped
<1>12. CallInv(c)'
  <2>1. CASE op[c].kind # "assemble"
    BY <1>11, <2>1 DEF CallInv, Idle
  <2>2. CASE op[c].kind = "assemble"
    <3>1. /\ op'[c].session = s /\ op'[c].life = op[c].life /\ op'[c].proj = token
          /\ op'[c].cached = NoSnapshot /\ op'[c].prompt = op[c].prompt
          /\ op'[c].answer = NoAnswer /\ op'[c].pc = "compacted"
      BY <1>3, <1>11, <1>s, <2>2 DEF CallRecords
    <3>2. op[c].prompt = NoContext
      BY <1>0, <1>1 DEF CallInv, CallTokens
    <3>3. CallTokens(c)'
      BY <1>1, <1>3, <1>4, <1>5, <1>7, <3>1, <3>2 DEF CallTokens, NoAnswer
    <3>4. CallFresh(c)'
      BY <3>1, <3>2 DEF CallFresh
    <3> QED
      BY <3>3, <3>4 DEF CallInv
  <2> QED
    BY <2>1, <2>2
<1> QED
  BY <1>9, <1>10, <1>11, <1>12, <1>s

(* A call goes on under the tokens it has.                                 *)
LEMMA CallMoved ==
  ASSUME ProjectionTypeOK, ProjectionTypeOK', NEW c \in Places, CallInv(c),
         op[c].pc # "idle",
         UNCHANGED <<lifecycleTokens, projectionTokens, resets, minted, applied,
                     disposedEngines>>,
         NEW o, op' = [op EXCEPT ![c] = o],
         /\ o.session = op[c].session /\ o.engine = op[c].engine
         /\ o.life = op[c].life /\ o.proj = op[c].proj /\ o.cached = op[c].cached,
         o.answer.compaction <= compactions'[o.session],
         o.pc # "enriching" => o.prompt = NoContext,
         o.cached # NoSnapshot /\ o.pc \in {"client", "asked", "enriching"} => o.active,
         ASSUME StateCurrent(op[c]), CallFresh(c) PROVE CallFresh(c)'
  PROVE  CallInv(c)' /\ \A d \in Places \ {c} : op'[d] = op[d]
<1>1. op'[c] = o /\ \A d \in Places \ {c} : op'[d] = op[d]
  BY DEF ProjectionTypeOK, CallsTyped
<1>2. CallTokens(c) /\ (StateCurrent(op[c]) => CallFresh(c))
  BY DEF CallInv
<1>3. CallTokens(c)'
  BY <1>1, <1>2 DEF CallTokens
<1>4. StateCurrent(op[c])' => StateCurrent(op[c])
  BY <1>1 DEF StateCurrent, LifeCurrent
<1> QED
  BY <1>1, <1>2, <1>3, <1>4 DEF CallInv

(* afterTurn() goes on to its predictive compaction, or is done.           *)
LEMMA TurnKeeps ==
  ASSUME ProjectionInv, ProjectionTypeOK', NEW c \in Places, TurnCompacts(c)
  PROVE  CallInv(c)' /\ \A d \in Places \ {c} : op'[d] = op[d]
<1>0. ProjectionTypeOK /\ CallInv(c) /\ op[c].pc = "ingesting" /\ CallTokens(c)
  BY DEF ProjectionInv, CallInv, TurnCompacts
<1>1. CASE op' = [op EXCEPT ![c] = Idle]
  BY <1>0, <1>1 DEF ProjectionTypeOK, CallsTyped, CallInv, Idle
<1>2. CASE op' = [op EXCEPT ![c].pc = "compacting"]
  <2> DEFINE o == [op[c] EXCEPT !.pc = "compacting"]
  <2>1. /\ o.session = op[c].session /\ o.engine = op[c].engine
        /\ o.life = op[c].life /\ o.proj = op[c].proj /\ o.cached = op[c].cached
        /\ o.answer = op[c].answer /\ o.prompt = op[c].prompt /\ o.pc = "compacting"
    BY <1>0, CallTyped DEF CallRecords
  <2>2. op' = [op EXCEPT ![c] = o] /\ op'[c] = o
    BY <1>0, <1>2 DEF ProjectionTypeOK, CallsTyped
  <2>3. UNCHANGED <<lifecycleTokens, projectionTokens, resets, minted, applied,
                    disposedEngines, compactions>>
    BY DEF TurnCompacts, stateVars
  <2> HIDE DEF o
  <2>4. ASSUME CallFresh(c) PROVE CallFresh(c)'
    BY <1>0, <2>1, <2>2, <2>3, <2>4 DEF CallFresh, Current
  <2> QED
    BY <1>0, <2>1, <2>2, <2>3, <2>4, CallMoved DEF CallTokens
<1> QED
  BY <1>1, <1>2 DEF TurnCompacts, Move

(* The daemon compacts; its answer names a compaction it has made.         *)
LEMMA DaemonKeeps ==
  ASSUME ProjectionInv, ProjectionTypeOK', NEW c \in Places, DaemonCompacts(c)
  PROVE  /\ \A t \in Sessions : SessionInv(t)' /\ SessionAdvances(t)
         /\ CallInv(c)' /\ \A d \in Places \ {c} : op'[d] = op[d]
<1>0. /\ ProjectionTypeOK /\ \A t \in Sessions : SessionInv(t)
      /\ CallInv(c) /\ op[c].pc = "compacting" /\ CallTokens(c)
  BY DEF ProjectionInv, CallInv, DaemonCompacts
<1>s. PICK s \in Sessions : s = op[c].session
  BY <1>0, CallTyped
<1>1. UNCHANGED <<lifecycleTokens, projectionTokens, resets, minted, applied,
                  snapshots, postToolCache, disposedEngines>>
  BY DEF DaemonCompacts, stateVars
<1>2. compactions[s] \in Nat
  BY <1>0, SessionTyped
<1>3. PICK a : /\ op' = [op EXCEPT ![c].answer = a]
               /\ \/ /\ compactions' = [compactions EXCEPT ![s] = @ + 1]
                     /\ a.compaction = compactions[s] + 1
                  \/ compactions' = compactions /\ a.compaction = compactions[s]
  <2>1. CASE op' = [op EXCEPT ![c].answer =
                     [kind |-> "did", compaction |-> compactions[op[c].session] + 1]]
             /\ compactions' = [compactions EXCEPT ![op[c].session] = @ + 1]
    <3>1. [kind |-> "did", compaction |-> compactions[s] + 1].compaction = compactions[s] + 1
      OBVIOUS
    <3> QED
      BY <1>s, <2>1, <3>1, Zenon
  <2>2. ASSUME NEW kind \in {"already", "not"}, compactions' = compactions,
               op' = [op EXCEPT ![c].answer =
                        [kind |-> kind, compaction |-> compactions[op[c].session]]]
        PROVE  \E a : /\ op' = [op EXCEPT ![c].answer = a]
                      /\ compactions' = compactions /\ a.compaction = compactions[s]
    <3>1. [kind |-> kind, compaction |-> compactions[s]].compaction = compactions[s]
      OBVIOUS
    <3> QED
      BY <1>s, <2>2, <3>1, Zenon
  <2> QED
    BY <2>1, <2>2 DEF DaemonCompacts
<1>4. \A t \in Sessions : compactions[t] <= compactions'[t]
  BY <1>0, <1>2, <1>3, SessionTyped DEF ProjectionTypeOK, OutsideTyped
<1>5. \A t \in Sessions : SessionInv(t)' /\ SessionAdvances(t)
  BY <1>0, <1>1, <1>4, SessionsKept
<1>6. a.compaction <= compactions'[s]
  BY <1>0, <1>2, <1>3 DEF ProjectionTypeOK, OutsideTyped
<1> DEFINE o == [op[c] EXCEPT !.answer = a]
<1>7. /\ o.session = s /\ o.engine = op[c].engine
      /\ o.life = op[c].life /\ o.proj = op[c].proj /\ o.cached = op[c].cached
      /\ o.answer = a /\ o.prompt = op[c].prompt /\ o.pc = "compacting"
  BY <1>0, <1>s, CallTyped DEF CallRecords
<1>8. op' = [op EXCEPT ![c] = o] /\ op'[c] = o
  BY <1>0, <1>3 DEF ProjectionTypeOK, CallsTyped
<1> HIDE DEF o
<1>9. ASSUME CallFresh(c) PROVE CallFresh(c)'
  BY <1>0, <1>1, <1>s, <1>7, <1>8, <1>9 DEF CallFresh, Current
<1>10. CallInv(c)' /\ \A d \in Places \ {c} : op'[d] = op[d]
  BY <1>0, <1>1, <1>s, <1>6, <1>7, <1>8, <1>9, CallMoved, ZenonT(40) DEF CallTokens
<1> QED
  BY <1>5, <1>10

(* Any other outcome of a compaction drops a prompt at most.               *)
LEMMA OtherKeeps ==
  ASSUME ProjectionInv, ProjectionTypeOK', NEW c \in Places, OtherCompaction(c)
  PROVE  /\ \A t \in Sessions : SessionInv(t)' /\ SessionAdvances(t)
         /\ CallInv(c)' /\ \A d \in Places \ {c} : op'[d] = op[d]
<1>0. /\ ProjectionTypeOK /\ \A t \in Sessions : SessionInv(t)
      /\ CallInv(c) /\ op[c].pc = "compacting" /\ CallTokens(c)
  BY DEF ProjectionInv, CallInv, OtherCompaction
<1>1. UNCHANGED <<lifecycleTokens, projectionTokens, resets, minted, applied,
                  snapshots, compactions, disposedEngines>>
  BY DEF OtherCompaction
<1>2. \A t \in Sessions : postToolCache'[t] \in {NoPrompt, postToolCache[t]}
  BY <1>0 DEF OtherCompaction, ProjectionTypeOK, CachesTyped
<1>3. \A t \in Sessions : SessionInv(t)' /\ SessionAdvances(t)
  BY <1>0, <1>1, <1>2, SessionsKept, SessionTyped
<1>4. PICK ok \in BOOLEAN :
        op' = [op EXCEPT ![c] = IF op[c].kind = "assemble"
                                THEN [op[c] EXCEPT !.pc = "compacted", !.ok = ok,
                                                   !.answer = NoAnswer]
                                ELSE Idle]
  BY DEF OtherCompaction, Compacted
<1>5. CASE op[c].kind # "assemble"
  BY <1>0, <1>3, <1>4, <1>5 DEF ProjectionTypeOK, CallsTyped, CallInv, Idle
<1>6. CASE op[c].kind = "assemble"
  <2> DEFINE o == [op[c] EXCEPT !.pc = "compacted", !.ok = ok, !.answer = NoAnswer]
  <2>1. /\ o.session = op[c].session /\ o.engine = op[c].engine
        /\ o.life = op[c].life /\ o.proj = op[c].proj /\ o.cached = op[c].cached
        /\ o.answer = NoAnswer /\ o.prompt = op[c].prompt /\ o.pc = "compacted"
    BY <1>0, CallTyped DEF CallRecords
  <2>2. op' = [op EXCEPT ![c] = o] /\ op'[c] = o
    BY <1>0, <1>4, <1>6 DEF ProjectionTypeOK, CallsTyped
  <2>3. NoAnswer.compaction <= compactions'[o.session]
    BY <1>0, <1>1, <2>1, CallTyped, SessionTyped DEF NoAnswer
  <2> HIDE DEF o
  <2>4. ASSUME CallFresh(c) PROVE CallFresh(c)'
    BY <1>0, <1>1, <2>1, <2>2, <2>4 DEF CallFresh, Current
  <2>5. CallInv(c)' /\ \A d \in Places \ {c} : op'[d] = op[d]
    BY <1>0, <1>1, <2>1, <2>2, <2>3, <2>4, CallMoved DEF CallTokens
  <2> QED
    BY <1>3, <2>5
<1> QED
  BY <1>5, <1>6

(* The daemon answers with its latest compaction.                          *)
LEMMA AsksKeeps ==
  ASSUME ProjectionInv, ProjectionTypeOK', NEW c \in Places, DaemonAssembles(c)
  PROVE  CallInv(c)' /\ \A d \in Places \ {c} : op'[d] = op[d]
<1>0. /\ ProjectionTypeOK /\ \A t \in Sessions : SessionInv(t)
      /\ CallInv(c) /\ op[c].pc = "client" /\ CallTokens(c)
  BY DEF ProjectionInv, CallInv, DaemonAssembles
<1>1. UNCHANGED <<lifecycleTokens, projectionTokens, resets, minted, applied,
                  snapshots, compactions, disposedEngines>>
  BY DEF DaemonAssembles, stateVars
<1>s. PICK s \in Sessions : s = op[c].session
  BY <1>0, CallTyped
<1>2. compactions[s] \in Nat /\ applied[s] <= compactions[s]
  BY <1>0, SessionTyped DEF SessionInv
<1>3. PICK kind : op' = [op EXCEPT ![c] = [op[c] EXCEPT !.pc = "asked", !.answer =
                           [kind |-> kind, compaction |-> compactions[s]]]]
  BY <1>s DEF DaemonAssembles
<1> DEFINE o == [op[c] EXCEPT !.pc = "asked", !.answer =
                   [kind |-> kind, compaction |-> compactions[s]]]
<1>4. /\ o.session = s /\ o.engine = op[c].engine
      /\ o.life = op[c].life /\ o.proj = op[c].proj /\ o.cached = op[c].cached
      /\ o.answer.compaction = compactions[s] /\ o.prompt = op[c].prompt /\ o.pc = "asked"
      /\ o.active = op[c].active
  BY <1>0, <1>s, CallTyped DEF CallRecords
<1>5. op' = [op EXCEPT ![c] = o] /\ op'[c] = o
  BY <1>0, <1>3 DEF ProjectionTypeOK, CallsTyped
<1> HIDE DEF o
<1>6. ASSUME CallFresh(c) PROVE CallFresh(c)'
  BY <1>0, <1>1, <1>2, <1>s, <1>4, <1>5, <1>6 DEF CallFresh, Current
<1>7. o.answer.compaction <= compactions'[o.session]
  BY <1>1, <1>2, <1>4
<1>8. op[c].cached # NoSnapshot => op[c].active
  BY <1>0 DEF CallTokens
<1> QED
  BY <1>0, <1>1, <1>s, <1>4, <1>5, <1>6, <1>7, <1>8, CallMoved, ZenonT(40) DEF CallTokens

(* assemble() goes on after its compaction.                                *)
LEMMA AfterKeeps ==
  ASSUME ProjectionInv, ProjectionTypeOK', NEW c \in Places, AfterCompaction(c)
  PROVE  CallInv(c)' /\ \A d \in Places \ {c} : op'[d] = op[d]
<1>0. /\ ProjectionTypeOK /\ CallInv(c) /\ op[c].pc = "compacted" /\ CallTokens(c)
  BY DEF ProjectionInv, CallInv, AfterCompaction
<1>1. UNCHANGED <<lifecycleTokens, projectionTokens, resets, minted, applied,
                  snapshots, compactions, disposedEngines>>
  BY DEF AfterCompaction, stateVars
<1> DEFINE on == op[c].session \in activeSessions \/ op[c].cached # NoSnapshot
           o == [op[c] EXCEPT !.pc = "client", !.active = on]
<1>2. CASE op' = [op EXCEPT ![c] = Idle]
  BY <1>0, <1>2 DEF ProjectionTypeOK, CallsTyped, CallInv, Idle
<1>3. CASE op' = [op EXCEPT ![c] = o]
  <2>1. /\ o.session = op[c].session /\ o.engine = op[c].engine
        /\ o.life = op[c].life /\ o.proj = op[c].proj /\ o.cached = op[c].cached
        /\ o.answer = op[c].answer /\ o.prompt = op[c].prompt /\ o.pc = "client"
    BY <1>0, CallTyped DEF CallRecords
  <2>2. op[c].cached # NoSnapshot => o.active
    BY <1>0, CallTyped DEF CallRecords
  <2>3. op'[c] = o
    BY <1>0, <1>3 DEF ProjectionTypeOK, CallsTyped
  <2> HIDE DEF o
  <2>4. ASSUME CallFresh(c) PROVE CallFresh(c)'
    BY <1>0, <1>1, <2>1, <2>3, <2>4 DEF CallFresh, Current
  <2> QED
    BY <1>0, <1>1, <1>3, <2>1, <2>2, <2>3, <2>4, CallMoved, ZenonT(40) DEF CallTokens
<1> QED
  BY <1>2, <1>3 DEF AfterCompaction, Returns

(* The remembered context is put back.                                     *)
LEMMA PutBackKeeps ==
  ASSUME ProjectionInv, ProjectionTypeOK', NEW c \in Places, AssembledOther(c)
  PROVE  CallInv(c)' /\ \A d \in Places \ {c} : op'[d] = op[d]
<1>0. /\ ProjectionTypeOK /\ CallInv(c) /\ op[c].pc = "asked" /\ CallTokens(c)
  BY DEF ProjectionInv, CallInv, AssembledOther
<1>1. UNCHANGED <<lifecycleTokens, projectionTokens, resets, minted, applied,
                  snapshots, compactions, disposedEngines>>
  BY DEF AssembledOther, stateVars
<1>2. PICK prompt : /\ op' = [op EXCEPT ![c] = [op[c] EXCEPT !.pc = "enriching",
                                        !.prompt = prompt, !.answer = NoAnswer]]
                    /\ StateCurrent(op[c]) => prompt = op[c].cached.context
  BY DEF AssembledOther
<1> DEFINE o == [op[c] EXCEPT !.pc = "enriching", !.prompt = prompt, !.answer = NoAnswer]
<1>3. /\ o.session = op[c].session /\ o.engine = op[c].engine
      /\ o.life = op[c].life /\ o.proj = op[c].proj /\ o.cached = op[c].cached
      /\ o.answer = NoAnswer /\ o.prompt = prompt /\ o.pc = "enriching"
      /\ o.active = op[c].active
  BY <1>0, CallTyped DEF CallRecords
<1>4. op' = [op EXCEPT ![c] = o] /\ op'[c] = o
  BY <1>0, <1>2 DEF ProjectionTypeOK, CallsTyped
<1> HIDE DEF o
<1>5. NoAnswer.compaction <= compactions'[o.session]
  BY <1>0, <1>1, <1>3, CallTyped, SessionTyped DEF NoAnswer
<1>6. op[c].cached # NoSnapshot => op[c].active
  BY <1>0 DEF CallTokens
<1>7. NoSnapshot.context = NoContext
  BY DEF NoSnapshot
<1>8. ASSUME StateCurrent(op[c]), CallFresh(c) PROVE CallFresh(c)'
  BY <1>0, <1>1, <1>2, <1>3, <1>4, <1>6, <1>7, <1>8 DEF CallFresh, Current
<1> QED
  BY <1>0, <1>1, <1>3, <1>4, <1>5, <1>6, <1>8, CallMoved

(* A complete context becomes the projection: it is the daemon's answer to *)
(* a request made under the tokens that are current now.                   *)
LEMMA ProjectionKeeps ==
  ASSUME ProjectionInv, ProjectionTypeOK', NEW c \in Places, AssembledProjection(c)
  PROVE  /\ \A t \in Sessions : SessionInv(t)' /\ SessionAdvances(t)
         /\ CallInv(c)' /\ \A d \in Places \ {c} : op'[d] = op[d]
<1>0. /\ ProjectionTypeOK /\ \A t \in Sessions : SessionInv(t)
      /\ CallInv(c) /\ op[c].pc = "asked" /\ CallTokens(c) /\ StateCurrent(op[c])
      /\ CallFresh(c)
  BY DEF ProjectionInv, CallInv, AssembledProjection
<1>s. PICK s \in Sessions : s = op[c].session
  BY <1>0, CallTyped
<1>1. /\ UNCHANGED <<lifecycleTokens, projectionTokens, resets, minted, applied,
                     compactions, disposedEngines>>
  BY DEF AssembledProjection
<1> DEFINE context == [compaction |-> op[c].answer.compaction,
                       window |-> op[c].args.window, life |-> op[c].life]
           snapshot == [context |-> context, version |-> op[c].args.version]
           o == [op[c] EXCEPT !.pc = "enriching", !.prompt = context, !.active = TRUE,
                              !.cached = NoSnapshot, !.answer = NoAnswer]
<1>2. /\ snapshots' = [snapshots EXCEPT ![s] = snapshot]
      /\ postToolCache' = [postToolCache EXCEPT ![s] = NoPrompt]
      /\ op' = [op EXCEPT ![c] = o]
  BY <1>s DEF AssembledProjection
<1>3. /\ op[c].life \in TokenValues /\ op[c].life # NoToken /\ lifecycleTokens[s] = op[c].life
      /\ op[c].proj <= minted[s]
      /\ op[c].answer.compaction \in Nat /\ resets[s] \in Nat /\ applied[s] \in Nat
  BY <1>0, <1>s, CallTyped, SessionTyped DEF CallTokens, StateCurrent, LifeCurrent
<1>4. context # NoContext
  BY <1>3 DEF NoContext
<1>5. context.compaction >= applied[s] /\ context.life = resets[s]
  <2>1. op[c].life = resets[s]
    BY <1>0, <1>3 DEF SessionInv
  <2>2. applied[s] <= op[c].answer.compaction
    BY <1>0, <1>s DEF CallFresh
  <2> QED
    BY <1>3, <2>1, <2>2
<1>6. /\ snapshot.context = context /\ context.window = op[c].args.window
  OBVIOUS
<1>7. /\ o.session = s /\ o.life = op[c].life /\ o.proj = op[c].proj
      /\ o.cached = NoSnapshot /\ o.answer = NoAnswer /\ o.prompt = context
      /\ o.pc = "enriching" /\ o.active = TRUE /\ o.args = op[c].args
  BY <1>0, <1>s, CallTyped DEF CallRecords
<1> HIDE DEF context, snapshot, o
<1>8. \A t \in Sessions : SessionInv(t)'
  <2> TAKE t \in Sessions
  <2>1. CASE t = s
    <3>1. snapshots'[s] = snapshot /\ postToolCache'[s] = NoPrompt
      BY <1>0, <1>2 DEF ProjectionTypeOK, CachesTyped
    <3> QED
      BY <1>0, <1>1, <1>4, <1>5, <1>6, <2>1, <3>1 DEF SessionInv, Current, NoPrompt
  <2>2. CASE t # s
    <3>1. snapshots'[t] = snapshots[t] /\ postToolCache'[t] = postToolCache[t]
      BY <1>0, <1>2, <2>2 DEF ProjectionTypeOK, CachesTyped
    <3> QED
      BY <1>0, <1>1, <3>1 DEF SessionInv, Current
  <2> QED
    BY <2>1, <2>2
<1>9. \A t \in Sessions : SessionAdvances(t)
  BY <1>0, <1>1, SessionTyped DEF SessionAdvances
<1>10. op'[c] = o /\ \A d \in Places \ {c} : op'[d] = op[d]
  BY <1>0, <1>2 DEF ProjectionTypeOK, CallsTyped
<1>11. CallTokens(c)'
  <2>1. /\ op[c].life <= resets[s] /\ NoAnswer.compaction <= compactions[s]
    BY <1>0, <1>s, SessionTyped DEF CallTokens, NoAnswer
  <2> QED
    BY <1>1, <1>3, <1>7, <1>10, <2>1 DEF CallTokens
<1>12. CallFresh(c)'
  BY <1>1, <1>5, <1>6, <1>7, <1>10 DEF CallFresh, Current
<1> QED
  BY <1>8, <1>9, <1>10, <1>11, <1>12 DEF CallInv

-----------------------------------------------------------------------------
(* What a step returns.                                                    *)

ResultInv == AssembledIsCurrent /\ NoBlackout /\ NoHole

(* Nothing is returned, or the whole transcript.                           *)
LEMMA SilentKeeps ==
  ASSUME returned' \in {NoResult, UncompactedResult}
  PROVE  ResultInv'
<1>1. NoResult.context = NoContext /\ NoResult.source # "suffix"
  BY DEF NoResult
<1>2. UncompactedResult.context = NoContext /\ UncompactedResult.source # "suffix"
  BY DEF NoResult, UncompactedResult
<1> QED
  BY <1>1, <1>2 DEF ResultInv, AssembledIsCurrent, NoBlackout, NoHole

(* A prompt goes out with a context if and only if the session is active,  *)
(* and with messages from the end of what the context stands for.          *)
LEMMA AssembledKeeps ==
  ASSUME ProjectionTypeOK, UNCHANGED <<resets, applied>>,
         NEW o \in CallRecords, NEW context \in Contexts,
         returned' = AssembledWith(o, context),
         o.active <=> context # NoContext,
         context # NoContext => Current(context, o.session),
         context # NoContext /\ ~ o.postTool => SourceFrom(o) <= context.window
  PROVE  ResultInv'
<1>1. /\ returned'.source = (IF o.active THEN "suffix" ELSE "all")
      /\ returned'.context = context /\ returned'.from = SourceFrom(o)
      /\ returned'.session = o.session /\ returned'.continued = o.postTool
  BY DEF AssembledWith
<1>2. AssembledIsCurrent'
  BY <1>1 DEF AssembledIsCurrent, Current
<1>3. NoBlackout'
  BY <1>1 DEF NoBlackout
<1>4. NoHole'
  BY <1>1 DEF NoHole
<1> QED
  BY <1>2, <1>3, <1>4 DEF ResultInv

(* Nor is there a context to speak of where the user turn is all that is   *)
(* returned.                                                               *)
LEMMA UserTurnKeeps ==
  ASSUME returned' = [NoResult EXCEPT !.source = "user turn"]
  PROVE  ResultInv'
<1>1. returned'.context = NoContext /\ returned'.source = "user turn"
  BY DEF NoResult
<1> QED
  BY <1>1 DEF ResultInv, AssembledIsCurrent, NoBlackout, NoHole

(* What makes a prompt fit to be returned.                                 *)
Presentable(o) ==
  /\ ~ o.active => o.prompt = NoContext
  /\ o.prompt # NoContext => Current(o.prompt, o.session)
  /\ o.prompt # NoContext /\ ~ o.postTool => SourceFrom(o) <= o.prompt.window

(* The common end of both paths returns, and keeps, what is presentable.   *)
LEMMA FinishKeeps ==
  ASSUME ProjectionTypeOK, UNCHANGED <<resets, applied>>,
         NEW c \in Places, NEW o \in CallRecords, NEW fits \in BOOLEAN,
         NEW caches \in [Sessions -> KeptPrompts],
         Finish(c, o, caches, fits),
         StateCurrent(o) => Presentable(o)
  PROVE  /\ ResultInv'
         /\ op' = [op EXCEPT ![c] = Idle]
         /\ \A s \in Sessions :
              postToolCache'[s] = caches[s]
              \/ (postToolCache'[s].context # NoContext =>
                    Current(postToolCache'[s].context, s))
<1>1. o.prompt \in Contexts /\ o.session \in Sessions
  BY DEF CallRecords
<1>2. CASE returned' = UncompactedResult /\ postToolCache' = caches
           /\ op' = [op EXCEPT ![c] = Idle]
  BY <1>2, SilentKeeps
<1>3. CASE /\ StateCurrent(o) /\ ~ (o.active /\ (o.prompt = NoContext \/ ~ fits))
           /\ op' = [op EXCEPT ![c] = Idle] /\ returned' = AssembledWith(o, o.prompt)
           /\ postToolCache' = [caches EXCEPT ![o.session] =
                                  [version |-> o.args.version, context |-> o.prompt]]
  <2>1. /\ o.active <=> o.prompt # NoContext
        /\ o.prompt # NoContext => Current(o.prompt, o.session)
        /\ o.prompt # NoContext /\ ~ o.postTool => SourceFrom(o) <= o.prompt.window
    BY <1>3 DEF Presentable
  <2>2. ResultInv'
    BY <1>1, <1>3, <2>1, AssembledKeeps
  <2> DEFINE kept == [version |-> o.args.version, context |-> o.prompt]
  <2>3. kept.context = o.prompt
    OBVIOUS
  <2>4. postToolCache' = [caches EXCEPT ![o.session] = kept]
    BY <1>3
  <2> HIDE DEF kept
  <2>5. \A s \in Sessions : \/ postToolCache'[s] = caches[s]
                            \/ s = o.session /\ postToolCache'[s].context = o.prompt
    <3> TAKE s \in Sessions
    <3>1. CASE s = o.session
      BY <1>1, <2>3, <2>4, <3>1
    <3>2. CASE s # o.session
      BY <1>1, <2>4, <3>2
    <3> QED
      BY <3>1, <3>2
  <2> QED
    BY <1>3, <2>1, <2>2, <2>5 DEF Presentable
<1> QED
  BY <1>2, <1>3, Zenon DEF Finish, Returns

(* A continuation of a turn returns the prompt that was kept.              *)
LEMMA ContinuationKeeps ==
  ASSUME ProjectionInv, ProjectionTypeOK', NEW c \in Places, Continuation(c)
  PROVE  /\ \A t \in Sessions : SessionInv(t)' /\ SessionAdvances(t)
         /\ op' = [op EXCEPT ![c] = Idle] /\ ResultInv'
<1>0. ProjectionTypeOK /\ \A t \in Sessions : SessionInv(t)
  BY DEF ProjectionInv
<1>s. PICK s \in Sessions : s = op[c].session
  BY <1>0, CallTyped
<1>1. /\ UNCHANGED <<lifecycleTokens, projectionTokens, resets, minted, applied,
                     snapshots, compactions, disposedEngines>>
      /\ op[c].postTool
  BY DEF Continuation
<1> DEFINE seen == postToolCache[s].context # NoContext
           caches == IF seen THEN [postToolCache EXCEPT ![s] = NoPrompt] ELSE postToolCache
           o == [op[c] EXCEPT !.active = seen \/ @, !.prompt = postToolCache[s].context]
<1>2. PICK fits \in BOOLEAN : Finish(c, o, caches, fits)
  BY <1>s DEF Continuation
<1>3. /\ op[c] \in CallRecords /\ op[c].active \in BOOLEAN
      /\ postToolCache[s].context \in Contexts
  BY <1>0, CallTyped, SessionTyped DEF CallRecords
<1>4. o \in CallRecords /\ o.session = s /\ o.postTool = op[c].postTool
      /\ o.prompt = postToolCache[s].context /\ (~ o.active => ~ seen)
  <2> HIDE DEF seen
  <2> QED
    BY <1>3, <1>s DEF CallRecords
<1>5. /\ caches \in [Sessions -> KeptPrompts]
      /\ \A t \in Sessions : caches[t] \in {NoPrompt, postToolCache[t]}
  BY <1>0, ConstantsTyped DEF ProjectionTypeOK, CachesTyped
<1>6. o.prompt # NoContext => Current(o.prompt, o.session)
  BY <1>0, <1>4 DEF SessionInv
<1>7. ~ o.active => o.prompt = NoContext
  BY <1>4
<1>8. Presentable(o)
  BY <1>1, <1>4, <1>6, <1>7 DEF Presentable
<1> HIDE DEF o, caches
<1>u. UNCHANGED <<resets, applied>>
  BY <1>1
<1>9. /\ ResultInv' /\ op' = [op EXCEPT ![c] = Idle]
      /\ \A t \in Sessions :
           postToolCache'[t] = caches[t]
           \/ (postToolCache'[t].context # NoContext =>
                 Current(postToolCache'[t].context, t))
  BY <1>0, <1>u, <1>2, <1>4, <1>5, <1>8, FinishKeeps
<1>10. \A t \in Sessions : SessionInv(t)'
  BY <1>0, <1>1, <1>5, <1>9 DEF SessionInv, Current, NoPrompt
<1>11. \A t \in Sessions : SessionAdvances(t)
  BY <1>0, <1>1, SessionTyped DEF SessionAdvances
<1> QED
  BY <1>9, <1>10, <1>11

(* assemble() returns what it has built.                                   *)
LEMMA ReturnKeeps ==
  ASSUME ProjectionInv, ProjectionTypeOK', NEW c \in Places, AssembleReturns(c)
  PROVE  /\ \A t \in Sessions : SessionInv(t)' /\ SessionAdvances(t)
         /\ op' = [op EXCEPT ![c] = Idle] /\ ResultInv'
<1>0. /\ ProjectionTypeOK /\ \A t \in Sessions : SessionInv(t)
      /\ CallInv(c) /\ op[c].pc = "enriching" /\ CallTokens(c)
  BY DEF ProjectionInv, CallInv, AssembleReturns
<1>1. UNCHANGED <<lifecycleTokens, projectionTokens, resets, minted, applied,
                  snapshots, compactions, disposedEngines>>
  BY DEF AssembleReturns
<1>2. PICK fits \in BOOLEAN : Finish(c, op[c], postToolCache, fits)
  BY DEF AssembleReturns
<1>3. op[c] \in CallRecords /\ postToolCache \in [Sessions -> KeptPrompts]
  BY <1>0, CallTyped DEF ProjectionTypeOK, CachesTyped
<1>4. ASSUME StateCurrent(op[c]) PROVE Presentable(op[c])
  <2>1. CallFresh(c)
    BY <1>0, <1>4 DEF CallInv
  <2>2. /\ op[c].args.window \in Nat /\ op[c].cached.context.window \in Nat
    BY <1>0, CallTyped DEF Contexts
  <2> QED
    BY <1>0, <2>1, <2>2 DEF CallFresh, SourceFrom, Presentable
<1>u. UNCHANGED <<resets, applied>>
  BY <1>1
<1>5. /\ ResultInv' /\ op' = [op EXCEPT ![c] = Idle]
      /\ \A t \in Sessions :
           postToolCache'[t] = postToolCache[t]
           \/ (postToolCache'[t].context # NoContext =>
                 Current(postToolCache'[t].context, t))
  BY <1>0, <1>u, <1>2, <1>3, <1>4, FinishKeeps, Zenon
<1>6. \A t \in Sessions : SessionInv(t)'
  BY <1>0, <1>1, <1>5 DEF SessionInv, Current
<1>7. \A t \in Sessions : SessionAdvances(t)
  BY <1>0, <1>1, SessionTyped DEF SessionAdvances
<1> QED
  BY <1>5, <1>6, <1>7

(* A failed assembly returns the remembered context, everything, or the    *)
(* user turn alone.                                                        *)
LEMMA FailKeeps ==
  ASSUME ProjectionInv, ProjectionTypeOK', NEW c \in Places, AssembleFails(c)
  PROVE  op' = [op EXCEPT ![c] = Idle] /\ ResultInv'
<1>0. /\ ProjectionTypeOK /\ CallInv(c) /\ op[c].pc # "idle" /\ CallTokens(c)
  BY DEF ProjectionInv, CallInv, AssembleFails
<1>r. PICK fits \in BOOLEAN, roomy \in BOOLEAN :
        /\ op' = [op EXCEPT ![c] = Idle]
        /\ returned' = UserTurnRepaired(AssembleFallback(op[c], fits), roomy)
  BY DEF AssembleFails, Returns
<1>1. op' = [op EXCEPT ![c] = Idle] /\ resets' = resets /\ applied' = applied
  BY <1>r DEF AssembleFails
<1>2. CASE AssembleFallback(op[c], fits) = UncompactedResult
  <2>1. UncompactedResult.source = "all"
    BY DEF UncompactedResult, NoResult
  <2>2. returned' = UncompactedResult
    BY <1>r, <1>2, <2>1 DEF UserTurnRepaired
  <2> QED
    BY <1>1, <2>2, SilentKeeps
<1>3. CASE /\ StateCurrent(op[c]) /\ op[c].active /\ op[c].cached # NoSnapshot
           /\ AssembleFallback(op[c], fits) = AssembledWith(op[c], op[c].cached.context)
  <2>1. CallFresh(c) /\ op[c].cached.context # NoContext
    BY <1>0, <1>3 DEF CallInv, CallTokens
  <2>2. /\ op[c] \in CallRecords /\ op[c].cached.context \in Contexts
        /\ op[c].cached.context.window \in Nat
    BY <1>0, CallTyped DEF Contexts
  <2>3. /\ Current(op[c].cached.context, op[c].session)
        /\ SourceFrom(op[c]) <= op[c].cached.context.window
    BY <1>3, <2>1, <2>2 DEF CallFresh, SourceFrom
  <2>4. op[c].active <=> op[c].cached.context # NoContext
    BY <1>3, <2>1
  <2>5. CASE returned' = AssembledWith(op[c], op[c].cached.context)
    BY <1>0, <1>1, <2>2, <2>3, <2>4, <2>5, AssembledKeeps
  <2>6. CASE returned' # AssembledWith(op[c], op[c].cached.context)
    BY <1>r, <1>3, <2>6, UserTurnKeeps DEF UserTurnRepaired
  <2> QED
    BY <1>1, <2>5, <2>6
<1> QED
  BY <1>1, <1>2, <1>3 DEF AssembleFallback

-----------------------------------------------------------------------------
(* The step as a whole: it advances the sessions, and changes one call.    *)
LEMMA StepComposed ==
  ASSUME ProjectionInv, ProjectionTypeOK',
         \A s \in Sessions : SessionInv(s)' /\ SessionAdvances(s),
         \A c \in Places : op'[c] = op[c] \/ CallInv(c)',
         ResultInv'
  PROVE  ProjectionInv'
<1>1. ASSUME NEW c \in Places PROVE CallInv(c)'
  BY <1>1, CallKept, CallTyped DEF ProjectionInv
<1> QED
  BY <1>1 DEF ProjectionInv, ResultInv

(* Every step keeps the invariant.                                         *)
LEMMA InvStep == ProjectionInv /\ [ProjectionNext]_projectionVars => ProjectionInv'
<1> SUFFICES ASSUME ProjectionInv, [ProjectionNext]_projectionVars PROVE ProjectionInv'
  OBVIOUS
<1>0. ProjectionTypeOK /\ ProjectionTypeOK'
  BY TypeStep DEF ProjectionInv
<1>q. Silent => ResultInv'
  BY SilentKeeps DEF Silent
<1>i. \A c \in Places : op' = [op EXCEPT ![c] = Idle] =>
        CallInv(c)' /\ \A d \in Places \ {c} : op'[d] = op[d]
  BY <1>0 DEF ProjectionTypeOK, CallsTyped, CallInv, Idle
<1>1. ASSUME NEW s \in Sessions, SessionCleared(s) PROVE ProjectionInv'
  BY <1>0, <1>1, <1>q, ClearKeeps, StepComposed DEF SessionCleared
<1>2. ASSUME NEW s \in Sessions, PromptDropped(s) \/ SnapshotEvicted(s) PROVE ProjectionInv'
  BY <1>0, <1>2, <1>q, DroppedKeeps, StepComposed DEF PromptDropped, SnapshotEvicted
<1>3. ASSUME NEW s \in Sessions, HostStep(s) PROVE ProjectionInv'
  BY <1>0, <1>3, <1>q, SessionsUntouched, StepComposed DEF HostStep
<1>4. ASSUME NEW e \in ContextEngines, Dispose(e) PROVE ProjectionInv'
  BY <1>0, <1>4, <1>q, SessionsUntouched, StepComposed DEF Dispose
<1>5. ASSUME NEW c \in Places, NEW s \in Sessions, NEW e \in ContextEngines,
             CompactStarts(c, s, e) \/ TurnQueued(c, s, e) PROVE ProjectionInv'
  BY <1>0, <1>5, <1>q, StartKeeps, StepComposed DEF CompactStarts, TurnQueued
<1>6. ASSUME NEW c \in Places, NEW s \in Sessions, NEW e \in ContextEngines,
             AssembleStarts(c, s, e) PROVE ProjectionInv'
  BY <1>0, <1>6, <1>q, AssembleStartKeeps, StepComposed, ZenonT(40) DEF AssembleStarts
<1>7. ASSUME NEW c \in Places, TurnCompacts(c) PROVE ProjectionInv'
  BY <1>0, <1>7, <1>q, SessionsUntouched, TurnKeeps, StepComposed DEF TurnCompacts
<1>8. ASSUME NEW c \in Places, DaemonCompacts(c) PROVE ProjectionInv'
  BY <1>0, <1>8, <1>q, DaemonKeeps, StepComposed DEF DaemonCompacts
<1>9. ASSUME NEW c \in Places, AppliedCompaction(c) PROVE ProjectionInv'
  BY <1>0, <1>9, <1>q, AppliedKeeps, StepComposed DEF AppliedCompaction
<1>10. ASSUME NEW c \in Places, OtherCompaction(c) PROVE ProjectionInv'
  BY <1>0, <1>10, <1>q, OtherKeeps, StepComposed DEF OtherCompaction
<1>11. ASSUME NEW c \in Places, AfterCompaction(c) PROVE ProjectionInv'
  <2>1. ResultInv'
    BY <1>11, SilentKeeps DEF AfterCompaction, Returns
  <2> QED
    BY <1>0, <1>11, <2>1, SessionsUntouched, AfterKeeps, StepComposed DEF AfterCompaction
<1>12. ASSUME NEW c \in Places, Continuation(c) PROVE ProjectionInv'
  BY <1>0, <1>12, <1>i, ContinuationKeeps, StepComposed
<1>13. ASSUME NEW c \in Places, DaemonAssembles(c) PROVE ProjectionInv'
  BY <1>0, <1>13, <1>q, SessionsUntouched, AsksKeeps, StepComposed DEF DaemonAssembles
<1>14. ASSUME NEW c \in Places, AssembledProjection(c) PROVE ProjectionInv'
  BY <1>0, <1>14, <1>q, ProjectionKeeps, StepComposed DEF AssembledProjection
<1>15. ASSUME NEW c \in Places, AssembledOther(c) PROVE ProjectionInv'
  BY <1>0, <1>15, <1>q, SessionsUntouched, PutBackKeeps, StepComposed DEF AssembledOther
<1>16. ASSUME NEW c \in Places, AssembleReturns(c) PROVE ProjectionInv'
  BY <1>0, <1>16, <1>i, ReturnKeeps, StepComposed
<1>17. ASSUME NEW c \in Places, AssembleFails(c) PROVE ProjectionInv'
  BY <1>0, <1>17, <1>i, SessionsUntouched, FailKeeps, StepComposed DEF AssembleFails
<1>18. CASE UNCHANGED projectionVars
  <2>1. ResultInv'
    BY <1>18 DEF projectionVars, ProjectionInv, ResultInv, AssembledIsCurrent, NoBlackout,
       NoHole, Current
  <2> QED
    BY <1>0, <1>18, <2>1, SessionsUntouched, StepComposed DEF projectionVars
<1> QED
  BY <1>1, <1>2, <1>3, <1>4, <1>5, <1>6, <1>7, <1>8, <1>9, <1>10, <1>11, <1>12, <1>13,
     <1>14, <1>15, <1>16, <1>17, <1>18 DEF ProjectionNext

(* The invariant holds of every behaviour.                                 *)
LEMMA InvHolds == ProjectionSpec => []ProjectionInv
<1>1. ProjectionInit => ProjectionInv
  <2> SUFFICES ASSUME ProjectionInit PROVE ProjectionInv
    OBVIOUS
  <2>1. ProjectionTypeOK
    BY ConstantsTyped DEF ProjectionInit, ProjectionTypeOK, TokensTyped, CachesTyped,
       CallsTyped, OutsideTyped, TokenValues, NoToken
  <2>2. \A s \in Sessions : SessionInv(s)
    BY DEF ProjectionInit, SessionInv, NoToken, NoPrompt
  <2>3. \A c \in Places : CallInv(c)
    BY DEF ProjectionInit, CallInv, Idle
  <2>4. AssembledIsCurrent /\ NoBlackout /\ NoHole
    BY DEF ProjectionInit, AssembledIsCurrent, NoBlackout, NoHole, NoResult
  <2> QED
    BY <2>1, <2>2, <2>3, <2>4 DEF ProjectionInv
<1> QED
  BY <1>1, InvStep, PTL DEF ProjectionSpec

(* Whatever the sessions, engines, calls and bounds: what is remembered is *)
(* never older than an applied compaction or from before a clear.          *)
THEOREM MemoryStaysFresh == ProjectionSpec => []ProjectionFresh
<1>1. ProjectionInv => ProjectionFresh
  BY DEF ProjectionInv, SessionInv, ProjectionFresh
<1> QED
  BY <1>1, InvHolds, PTL

(* Nor is the context a prompt is returned with.                           *)
THEOREM ReturnedIsCurrent == ProjectionSpec => []AssembledIsCurrent
<1>1. ProjectionInv => AssembledIsCurrent
  BY DEF ProjectionInv
<1> QED
  BY <1>1, InvHolds, PTL

(* A suffix of the transcript never goes out without its context, nor a    *)
(* context with anything but a suffix, whatever failed on the way.         *)
THEOREM SuffixHasContext == ProjectionSpec => []NoBlackout
<1>1. ProjectionInv => NoBlackout
  BY DEF ProjectionInv
<1> QED
  BY <1>1, InvHolds, PTL

(* The suffix begins no later than its context ends.                       *)
THEOREM SuffixMeetsContext == ProjectionSpec => []NoHole
<1>1. ProjectionInv => NoHole
  BY DEF ProjectionInv
<1> QED
  BY <1>1, InvHolds, PTL
=============================================================================
