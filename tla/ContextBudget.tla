--------------------------- MODULE ContextBudget ---------------------------
(***************************************************************************)
(* How src/context-engine.ts fits a prompt into the model's budget: the    *)
(* token estimates, the cuts at turn boundaries, the two budget            *)
(* invariants, the sections added late, the fallback and the repair that   *)
(* puts a user turn back.  The state is one assembly on its way through    *)
(* them, in the order assemble() makes the calls.                          *)
(*                                                                         *)
(* A message is its place in the source, its role and its number of        *)
(* characters (0: nothing but white space once normalized).  What is added *)
(* to the system prompt is a compacted context, which comes first, and     *)
(* extra characters after it; a cut that reaches the context breaks it.    *)
(***************************************************************************)
EXTENDS Integers, Sequences, FiniteSetsExt, SequencesExt

CONSTANTS
  CharsPerToken,    \* APPROX_CHARS_PER_TOKEN
  MessageOverhead,  \* the 8 tokens charged for a message's wrapper
  HeadroomTokens,   \* ASSEMBLE_BUDGET_HEADROOM_TOKENS
  HeadroomShare,    \* 1 / ASSEMBLE_BUDGET_HEADROOM_FRACTION
  WindowSize,       \* normalizeWindow
  Transcripts,      \* the transcripts the host may hand over
  Budgets,          \* the budgets it may ask for, 0 for none
  ExtraSizes,       \* sizes of what memory adds
  ContextSizes,     \* sizes of a compacted context, 0 for none
  InjectionCap,     \* cfg.tokenBudgetMax
  Claims,           \* token counts the host may report, 0 for none
  CompactThreshold, \* cfg.compactThreshold, 0 when it is not set
  ThresholdPercent, \* cfg.compactionThresholdFraction, in percent
  SessionBudget,    \* cfg.compactSessionTokenBudget, -1 when it is not set
  ThresholdFloor, ThresholdCeiling,  \* 2000 and 16000
  SectionFrame,     \* characters of the wrapper of a section
  ItemFrame,        \* characters around a shortened item
  ItemLists,        \* sizes of the predictions there may be
  Reserved          \* RESERVED_CURRENT_TURN_TOKENS

Messages == [place : Nat, role : STRING, size : Nat]

ASSUME BudgetAssumption ==
  /\ {CharsPerToken, HeadroomShare} \subseteq Nat \ {0}
  /\ {MessageOverhead, HeadroomTokens, WindowSize, InjectionCap, CompactThreshold,
      ThresholdPercent, ThresholdFloor, ThresholdCeiling, SectionFrame, ItemFrame,
      Reserved} \subseteq Nat
  /\ SessionBudget \in Int
  /\ Transcripts \subseteq Seq(Messages)
  /\ \A t \in Transcripts : \A i \in DOMAIN t : t[i].place = i
  /\ UNION {Budgets, ExtraSizes, ContextSizes, Claims} \subseteq Nat
  /\ ItemLists \subseteq Seq(Nat)

VARIABLES
  stage,      \* where the assembly is
  source,     \* the host's messages
  budget,
  owned,      \* compactionProjectionActive; once returned: a projection was
  remembered, \* cachedCompactedProjection: its context, and where its suffix starts
  prompt,     \* messages, context, extra, estimated
  pressure    \* the count the compaction was judged by, and its target

budgetVars == <<stage, source, budget, owned, remembered, prompt, pressure>>

Larger(a, b) == IF a >= b THEN a ELSE b
Smaller(a, b) == IF a <= b THEN a ELSE b

-----------------------------------------------------------------------------
(* Estimates (approximateTokenCount, approximateMessagesTokens).           *)

Tokens(chars) == (chars + CharsPerToken - 1) \div CharsPerToken
MessageTokens(m) == Tokens(m.size) + MessageOverhead

(* The sum of the first numbers of a sequence, and of all of them. *)
Sums(numbers) ==
  LET sum[i \in 0..Len(numbers)] == IF i = 0 THEN 0 ELSE sum[i - 1] + numbers[i]
  IN  sum
Total(numbers) == Sums(numbers)[Len(numbers)]

MessagesTokens(ms) == Total([i \in 1..Len(ms) |-> MessageTokens(ms[i])])
Added(p) == p.context + p.extra
TotalTokens(p) == Tokens(Added(p)) + MessagesTokens(p.messages)

(* resolveEffectiveAssembleBudget. *)
Effective(b) ==
  LET headroom == Smaller(HeadroomTokens, Larger(1, b \div HeadroomShare)) IN
  Larger(1, b - headroom)

(* resolveDynamicCompactThreshold behind getPredictiveCompactThreshold; 0  *)
(* when there is none.                                                     *)
Threshold(b) ==
  LET derived == Larger(1, (b * Larger(5, Smaller(99, ThresholdPercent))) \div 100)
      bounded == Larger(ThresholdFloor, Smaller(ThresholdCeiling, derived)) IN
  IF CompactThreshold > 0 THEN CompactThreshold
  ELSE IF SessionBudget = 0 \/ b = 0 THEN 0
  ELSE IF SessionBudget > 0 THEN Smaller(bounded, SessionBudget) ELSE bounded

(* resolvePredictiveCompactionTarget, 0 when nothing is to be compacted. *)
\* mutation: the threshold itself is aimed at
TargetAtThreshold(count, threshold) ==
  IF count = 0 \/ threshold = 0 \/ count < threshold THEN 0 ELSE threshold

Target(count, threshold) ==
  LET below == Larger(1, threshold - 1) IN
  IF count = 0 \/ threshold = 0 \/ count < threshold THEN 0
  ELSE IF below < count THEN below ELSE Larger(1, count - 1)

-----------------------------------------------------------------------------
(* Cuts.                                                                   *)

UserPlaces(ms) == {i \in DOMAIN ms : ms[i].role = "user"}
LastUser(ms) == IF UserPlaces(ms) = {} THEN 0 ELSE Max(UserPlaces(ms))
From(ms, i) == SubSeq(ms, i, Len(ms))

(* findLastReplaySafeUserMessage: the place of the last user message with  *)
(* content, or 0.                                                          *)
SafeUsers(ms) == {i \in UserPlaces(ms) : ms[i].size > 0}
LastSafeUser(ms) == IF SafeUsers(ms) = {} THEN 0 ELSE Max(SafeUsers(ms))

(* selectTurnAlignedSourceSuffix: the cut moves back to a user message, or *)
(* on to the first one.                                                    *)

AlignedSuffix(ms, n) ==
  LET cut == Larger(1, Len(ms) - n + 1)
      before == {i \in UserPlaces(ms) : i <= cut}
      start == IF before # {} THEN Max(before)
               ELSE IF UserPlaces(ms) # {} THEN Min(UserPlaces(ms)) ELSE 1 IN
  From(ms, start)

(* truncateContentToTokenBudget keeps the tail of the content. *)
Shortened(m, tokens) ==
  [m EXCEPT !.size = IF tokens <= 0 THEN 0
                     ELSE Smaller(@, Larger(1, tokens * CharsPerToken))]

(* trimMessagesToBudget: from the newest back, a message that does not fit *)
(* is passed over; if none fits, the newest is shortened.                  *)
WithOlder(m, newer, tokens) ==
  IF MessagesTokens(newer) + MessageTokens(m) > tokens THEN newer ELSE <<m>> \o newer

KeptFrom(ms, tokens) ==
  LET kept[i \in 1..(Len(ms) + 1)] ==
        IF i = Len(ms) + 1 THEN <<>> ELSE WithOlder(ms[i], kept[i + 1], tokens)
  IN  kept

Trimmed(ms, tokens) ==
  LET kept == KeptFrom(ms, tokens)[1]
      short == Shortened(ms[Len(ms)], tokens - MessageOverhead) IN
  IF ms = <<>> \/ tokens <= 0 THEN <<>>
  ELSE IF kept # <<>> THEN kept
  ELSE IF short.size = 0 THEN <<>> ELSE <<short>>

(* trimTurnAlignedSourceSuffixToBudget: whole turns, the newest always.    *)
Bundles(ms, tokens) ==
  LET fit == {i \in UserPlaces(ms) :
                \/ i = LastUser(ms)
                \/ MessagesTokens(From(ms, i)) <= tokens} IN
  IF UserPlaces(ms) = {} THEN ms ELSE From(ms, Min(fit))

(* truncateSystemPromptAdditionToTokenBudget keeps the front: a context    *)
(* that is cut is no longer one.                                           *)
CutInjection(p, tokens) ==
  LET chars == IF tokens <= 0 THEN 0 ELSE Larger(1, tokens * CharsPerToken) IN
  IF Added(p) <= chars THEN p
  ELSE IF chars >= p.context THEN [p EXCEPT !.extra = chars - p.context]
  ELSE [p EXCEPT !.context = 0, !.extra = chars]

-----------------------------------------------------------------------------
(* The budget invariants.  A budget of 0 is none, and enforces nothing.    *)

(* enforceTokenBudgetInvariant. *)
EnforcePlain(p, b) ==
  LET limit == Effective(b)
      used == Tokens(Added(p))
      kept == Trimmed(p.messages, limit - used) IN
  IF b = 0 \/ (p.estimated <= limit /\ TotalTokens(p) <= limit) THEN p
  ELSE IF used >= limit
  THEN [p EXCEPT !.messages = <<>>, !.estimated = limit]
  ELSE [p EXCEPT !.messages = kept,
                 !.estimated = Smaller(limit, used + MessagesTokens(kept))]

(* enforceCompactedProjectionBudgetInvariant: the injection and the older  *)
(* turns give way to the newest.                                           *)
EnforceProjection(p, b) ==
  LET limit == Effective(b)
      newest == IF LastUser(p.messages) = 0 THEN p.messages
                ELSE From(p.messages, LastUser(p.messages))
      needed == MessagesTokens(newest)
      cut == CutInjection(p, limit - needed)
      kept == Bundles(p.messages,
                      Larger(needed, limit - Tokens(Added(cut)))) IN
  IF b = 0 \/ (p.estimated <= limit /\ TotalTokens(p) <= limit) THEN p
  ELSE [cut EXCEPT !.messages = kept,
                   !.estimated = Tokens(Added(cut)) + MessagesTokens(kept)]

Enforce(p) ==
  IF owned THEN EnforceProjection(p, budget) ELSE EnforcePlain(p, budget)

(* buildBudgetFallbackContext: without a budget it still keeps to the      *)
(* smallest one.                                                           *)
Fallback(ms, b) ==
  LET limit == Effective(Larger(1, b))
      whole == [messages |-> ms, context |-> 0, extra |-> 0,
                estimated |-> MessagesTokens(ms)]
      cut == EnforceProjection(whole, b)
      user == LastSafeUser(ms)
      short == Shortened(ms[user], Larger(1, limit - MessageOverhead)) IN
  IF whole.estimated <= limit THEN whole
  ELSE IF cut.estimated <= limit THEN cut
  ELSE IF user # 0
  THEN [cut EXCEPT !.messages = <<short>>,
                   !.estimated = Smaller(limit, MessageTokens(short))]
  ELSE [cut EXCEPT !.messages = <<>>, !.estimated = 0]

(* ensureReplaySafeUserTurn: a prompt with no user message that says       *)
(* something gets the last one of the source, and the rest makes room.     *)
\* mutation: the user turn is looked for in what is left
RepairedFromKept(p, ms, b) == p

Repaired(p, ms, b) ==
  LET user == ms[LastSafeUser(ms)]
      cost == MessageTokens(user)
      base == Larger(p.estimated, MessagesTokens(p.messages))
      all == [p EXCEPT !.messages = <<user>> \o @, !.estimated = base + cost]
      limit == Effective(b)
      short == Shortened(user, Larger(1, limit - MessageOverhead))
      cut == CutInjection(p, limit - cost)
      kept == Trimmed(p.messages, limit - cost - Tokens(Added(cut))) IN
  IF SafeUsers(p.messages) # {} \/ SafeUsers(ms) = {} THEN p
  ELSE IF b = 0 THEN all
  ELSE IF base + cost <= limit /\ TotalTokens(all) <= limit
  THEN [all EXCEPT !.estimated = Larger(@, TotalTokens(all))]
  ELSE IF cost >= limit
  THEN [messages |-> <<short>>, context |-> 0, extra |-> 0,
        estimated |-> Smaller(limit, MessageTokens(short))]
  ELSE [cut EXCEPT !.messages = <<user>> \o kept,
                   !.estimated = Smaller(limit, cost + Tokens(Added(cut))
                                                + MessagesTokens(kept))]

(* adaptivelyBuildWrappedSection: items in order while they fit; the first *)
(* that does not is shortened into what is left (tryTruncateItem).  Each   *)
(* item brings a line break, which nothing is charged for.  In characters. *)
Section(items, tokens) ==
  LET left == tokens - Tokens(SectionFrame)
      Cost(n) == Total([i \in 1..n |-> Tokens(items[i])])
      whole == Max({n \in 0..Len(items) : Cost(n) <= left})
      inner == left - Cost(whole) - Tokens(ItemFrame)
      short == IF whole < Len(items) /\ inner > 0
               THEN ItemFrame + Smaller(items[whole + 1], inner * CharsPerToken) + 1
               ELSE 0
      chars == Total([i \in 1..whole |-> items[i] + 1]) IN
  IF items = <<>> \/ left <= 0 \/ chars + short = 0 THEN 0
  ELSE SectionFrame + chars + short

-----------------------------------------------------------------------------
(* The assembly.                                                           *)

(* sourceStartIndex of a snapshot: how much came before the recent tail of *)
(* the transcript as it was when the snapshot was taken.  The host only    *)
(* appends, so that was a prefix of what it is now.                        *)
Starts(ms) ==
  {n - Len(AlignedSuffix(SubSeq(ms, 1, n), WindowSize)) : n \in 0..Len(ms)}

Nothing == [start |-> 0, context |-> 0]
Snapshots(ms) == [start : Starts(ms), context : ContextSizes \ {0}]

BudgetInit ==
  /\ pressure = [count |-> 0, target |-> 0]
  /\ stage = "asked" /\ source \in Transcripts /\ budget \in Budgets
  /\ owned \in BOOLEAN
  /\ remembered \in {Nothing} \cup Snapshots(source)
  /\ remembered # Nothing => owned
  /\ prompt = [messages |-> <<>>, context |-> 0, extra |-> 0, estimated |-> 0]

Advance(from, to) ==
  /\ stage = from /\ stage' = to
  /\ UNCHANGED <<source, budget>>

(* projectedSourceMessages: with a snapshot, all that came after it, which *)
(* may be more than the window.                                            *)
Projected(owns, snapshot) ==
  IF ~ owns THEN source
  ELSE IF snapshot # Nothing THEN From(source, snapshot.start + 1)
  ELSE AlignedSuffix(source, WindowSize)

(* The pressure is the host's count or the estimate of the recent tail,    *)
(* whichever is more (resolvePredictiveCompactionTokenCount).  A compaction*)
(* that is applied drops the projection until there is a new one.          *)
Judge ==
  /\ Advance("asked", "judged")
  /\ \E claimed \in Claims :
       LET count == Larger(1, Larger(claimed,
                      MessagesTokens(AlignedSuffix(source, WindowSize)))) IN
       pressure' = [count |-> count, target |-> Target(count, Threshold(budget))]
  /\ \/ UNCHANGED <<owned, remembered>>
     \/ pressure'.target > 0 /\ owned' = FALSE /\ remembered' = Nothing
  /\ UNCHANGED prompt

(* The source projection with what the daemon sent, or what was kept of    *)
(* the turn's last prompt (normalizeAssembleResult).  A context makes the  *)
(* session owned; one the daemon sent replaces the snapshot, and a snapshot*)
(* stands in when it sent none.  The estimate may be anything.             *)
Assemble ==
  /\ Advance("judged", "assembled")
  /\ pressure' = [count |-> 0, target |-> 0]
  /\ \E context \in ContextSizes, extra \in ExtraSizes,
        estimate \in {0} \cup Budgets, asked \in BOOLEAN :
       /\ owned' = (owned \/ context > 0)
       /\ remembered' = IF asked /\ context > 0 THEN Nothing ELSE remembered
       /\ prompt' = [messages |-> Projected(owned', remembered'),
                     context |-> IF asked /\ context = 0 THEN remembered.context
                                 ELSE context,
                     extra |-> extra, estimated |-> estimate]

(* The first enforcement, after exact recall has added to the injection. *)
Recall ==
  /\ Advance("assembled", "recalled")
  /\ \E extra \in ExtraSizes : prompt' = Enforce([prompt EXCEPT !.extra = @ + extra])
  /\ UNCHANGED <<owned, remembered, pressure>>

(* Predictions and retrieved memory come after it, then the cap on the     *)
(* whole injection (tokenBudgetMax) and the second enforcement.            *)
Inject ==
  /\ Advance("recalled", "injected")
  /\ \E items \in ItemLists, block \in ExtraSizes :
       LET left == IF budget = 0 THEN 1000
                   ELSE Effective(budget) - Tokens(Added(prompt)) - Reserved
           section == Section(items, left)
           more == [prompt EXCEPT !.extra = @ + section + block,
                                  !.estimated = @ + Tokens(section) + Tokens(block)]
           capped == CutInjection(more, InjectionCap)
           freed == Tokens(Added(more)) - Tokens(Added(capped)) IN
       prompt' = Enforce([capped EXCEPT !.estimated = Larger(0, @ - freed)])
  /\ UNCHANGED <<owned, remembered, pressure>>

(* buildUncompactedFallback: the fallback's messages with what memory      *)
(* added, less the compacted context.                                      *)
Uncompacted(p) ==
  LET messages == Fallback(source, budget).messages IN
  EnforceProjection([messages |-> messages, context |-> 0, extra |-> p.extra,
                     estimated |-> MessagesTokens(messages) + Tokens(p.extra)],
                    budget)

(* A projection that lost its context, before or by the repair, is not     *)
(* returned, nor one whose session has changed (isProjectionStateCurrent). *)
Return ==
  LET repaired == Repaired(prompt, source, budget)
      intact == owned => prompt.context > 0 /\ repaired.context > 0 IN
  /\ Advance("injected", "returned")
  /\ \E current \in BOOLEAN :
       /\ prompt' = IF ~ current THEN Repaired(Fallback(source, budget), source, budget)
                    ELSE IF intact THEN repaired
                    ELSE Repaired(Uncompacted(prompt), source, budget)
       /\ owned' = (owned /\ intact /\ current)
  /\ UNCHANGED <<remembered, pressure>>

(* buildAssembleFallback: what is remembered, without asking anyone.       *)
\* mutation: the remembered projection is not fitted to the budget
AssembleFallbackUncut ==
  LET messages == Projected(owned, remembered) IN
  IF ~ owned THEN Fallback(source, budget)
  ELSE [messages |-> messages, context |-> remembered.context, extra |-> 0,
        estimated |-> MessagesTokens(messages) + Tokens(remembered.context)]

AssembleFallback ==
  LET messages == Projected(owned, remembered) IN
  IF ~ owned THEN Fallback(source, budget)
  ELSE EnforceProjection([messages |-> messages, context |-> remembered.context,
                          extra |-> 0, estimated |-> MessagesTokens(messages)
                                                     + Tokens(remembered.context)],
                         budget)

(* Any failure on the way, after the compaction or in the catch block.  The*)
(* remembered projection goes out if its context is whole; the repair that *)
(* comes after that may still cut it.                                      *)
Fail ==
  /\ stage \in {"judged", "assembled", "recalled"} /\ stage' = "returned"
  /\ \E current \in BOOLEAN :
       LET whole == current /\ owned /\ AssembleFallback.context > 0 IN
       /\ prompt' = Repaired(IF whole THEN AssembleFallback ELSE Fallback(source, budget),
                             source, budget)
       /\ owned' = whole
  /\ pressure' = [count |-> 0, target |-> 0]
  /\ UNCHANGED <<source, budget, remembered>>

BudgetNext == Judge \/ Assemble \/ Recall \/ Inject \/ Return \/ Fail

BudgetSpec == BudgetInit /\ [][BudgetNext]_budgetVars

-----------------------------------------------------------------------------

NewestTurn == {i \in DOMAIN source : 0 < LastUser(source) /\ LastUser(source) <= i}
KeptPlaces == {m.place : m \in ToSet(prompt.messages)}

(* What is returned fits the budget, by the estimates the code makes, as   *)
(* soon as there is a user message to answer: whether it went through both *)
(* enforcements or a failure sent the remembered projection in its place.  *)
(* The newest turn of a projection may exceed the budget in between; its   *)
(* context is then gone, and it is not returned (Return, Fail).            *)
FitsBudget ==
  stage = "returned" /\ budget > 0 /\ SafeUsers(source) # {} =>
    TotalTokens(prompt) <= Effective(budget)

(* A compaction is asked for less than there is, whenever there is more    *)
(* than one token, so that it can make progress.                           *)
AimsLower ==
  pressure.target > 0 =>
    /\ pressure.target <= pressure.count
    /\ pressure.count > 1 => pressure.target < pressure.count

(* What is returned holds a user message that says something whenever the  *)
(* transcript does.  A projection, be it what was assembled or what the    *)
(* catch block remembers, holds all of the newest turn, its tool calls with*)
(* their results, when the user message that starts it says something (one *)
(* that holds only what is not rendered as text may be traded for an       *)
(* earlier one); and one that lost its context to the repair of the user   *)
(* turn is that user turn and nothing else: no bare suffix goes out.       *)
TurnsKept ==
  stage = "returned" =>
    /\ SafeUsers(source) # {} => SafeUsers(prompt.messages) # {}
    /\ owned /\ LastSafeUser(source) = LastUser(source) => NewestTurn \subseteq KeptPlaces
    /\ owned /\ prompt.context = 0 => Len(prompt.messages) = 1
=============================================================================
