# Verification of the LibraVDB memory plugin

This directory holds TLA+ specifications of the OpenClaw memory plugin in
`src/src`, TLC configurations that model-check them, and proofs checked by
TLAPS. The plugin runs in one Node process and talks over gRPC to `libravdbd`,
a daemon whose source is not in this repository; the daemon appears in the
models as what the plugin's code expects of it.

Sections: [the system](#1-the-system), [the plan](#2-the-plan),
[the modules](#3-the-modules), [the runs](#4-the-runs),
[the disagreements found](#5-where-the-code-and-its-documentation-disagree),
[fairness](#6-fairness), [the proofs](#7-the-proofs),
[what is not covered](#8-what-is-not-covered).

Line numbers are of the files under `src/src`.

## 1. The system

### 1.1 Components

**Context engine** (`context-engine.ts`, 4282 lines). What the host calls
around every turn of a conversation: `assemble` recalls memories into a prompt,
`afterTurn` and `commitTurn` store the turn, `compact` shrinks the session,
`dispose` ends an engine. Engines come and go, but most of their state belongs
to the module and is shared by all engines of a process:

| state | lines | what it is |
|---|---|---|
| `committedAdvancementKeys`, `inFlightAdvancements` | 36-66, 3914-3949 | the memo of committed turns and the calls under way |
| `asyncIngestionQueues` | 323, 366-381 | one chain of ingestions per session |
| projection and lifecycle tokens | 1275-1306, 2281-2365 | the compacted view of a session and who may still write |
| `excludedSessionIds`, subagent sets | 327-342, 2131-2275 | sessions whose memory is off |
| recall circuit, trigger cache | 2103-2129, 2426-2545 | failures counted per session, recalls kept per turn |

**Checkpoint manifest** (`manifest.ts`). One JSON file per session and
destination: the messages the daemon has acknowledged, chained by hash, and
`recoveryPending`. `findOverlapIndex` decides what of a transcript is new.

**gRPC client** (`libravdb-client.ts`). Every authenticated call carries the
nonce the previous response brought; a mutex made of a chain of promises orders
the calls; `close` ends them. It also resolves endpoints and credentials and
fans searches out over tenants.

**Plugin runtime** (`plugin-runtime.ts`, `index.ts`). Starts one client per
tenant on first use, shares it, remembers which agent a session belongs to, and
runs the one shutdown: drain the registered tasks, flush, close.

**Markdown ingestion** (`markdown-ingest.ts`, with `markdown-hash.ts` and
`markdown-fence.ts`). Adapters watch directories of Markdown files, scan them,
have changed files stored and vanished ones deleted, and save what they know
between runs. A generic and an Obsidian adapter may cover the same files.

**Document ingest queue** (`ingest-queue.ts`). Orders the operations on one
document, cuts a text into chunks, retries and shrinks them.

**Memory search and tools** (`memory-runtime.ts`, `memory-tools.ts`,
`tools/memory-recall.ts`, `record-reference.ts`). What the agent itself may
call: a search that fans out over tenants and is guarded against repeating
itself, and tools that follow the references it hands out.

**Session exclusion** (`agent-exclusion.ts`, `subagent-exclusion.ts`, and state
of the context engine). Which sessions memory keeps out of, and how many tokens
a subagent may expand.

**Dream promotion** (`dream-promotion.ts`, `markdown-fence.ts`). Watches a
diary file, parses it for candidates and promotes them. **Rule store**
(`rules.ts`). A bounded list of rules, saved as a file.

**Identity** (`identity.ts`), **command line** (`cli*.ts`), **entry point and
hooks** (`index.ts`, `lifecycle-hooks.ts`), **continuity cache**
(`continuity-cache.ts`): wiring, pure derivations, or I/O with little state.

### 1.2 How they interact

```
 host ── assemble / afterTurn / commitTurn / compact / dispose ──▶ context engine
   │                                                        │   │
   │ hooks: session_end, before_reset, gateway_stop         │   └─▶ manifest (file)
   ▼                                                        ▼
 index.ts ── onShutdown / shutdown ──▶ plugin runtime ── getClient ──▶ gRPC client ──▶ libravdbd
   │                                                                   ▲
   ├─ services: markdown ingestion ──▶ ingest queue ───────────────────┤
   │            dream promotion ───────────────────────────────────────┤
   └─ tools: search, get, grep, describe, expand; rules ───────────────┘
```

Within the process everything is one thread: code between two `await`s is
atomic, and what happens at an `await` is any interleaving. That granularity is
the granularity of the actions in every module here.

### 1.3 What is hard

- Two host calls, two engines or two scans meet at an `await` with state one of
  them read before it.
- An RPC fails and nobody knows whether the daemon served it, or will later.
- The daemon confirms part of a batch, or disproves the checkpoint (a cursor
  gap) and must be sent the transcript again.
- The process dies between the daemon's store and the file that records it.
- A reset, a disposal or a shutdown arrives in the middle of any of this.
- Bounded memos and caches forget, and what they forget is asked for again.

`PROJECT.json` lists each hazard at its line with the properties that would
catch it going wrong.

### 1.4 What makes each component correct

| component | correct means |
|---|---|
| turn ingestion | a turn reported as committed is stored; one ingestion per session at a time; one leader per key; a replay adds nothing; recovery is paid in full; every call is answered |
| manifest | never ahead of the daemon |
| gRPC client | one nonce owner; no nonce sent twice; a failure does not make another call fail; closed means silent; every call settles |
| plugin runtime | one open client per tenant; none leaks; none closed before the drain; no call routed to another tenant; shutdown ends |
| Markdown ingestion | a file is skipped only if its content is stored; deletion needs evidence; one writer per document; a reported change arrives |
| ingest queue | one operation per document; stored text has no gap; success means stored; no character is cut in two; every operation settles |
| compaction and assembly | a result for a projection that was replaced or cleared is neither kept nor shown; a prompt never lacks messages no context stands for |
| token budgets | what is assembled fits; a compaction aims below what started it; the user's turn survives every cut |
| recall circuit | opens at the threshold of its failure class, closes again, and a client's memory stays with it, whatever the bounded maps evict |
| exclusion | the guards keep a session out only as long as it last was an excluded one's, the engine until a bootstrap lets it in; the least active is forgotten first; a subagent keeps to its budget |
| search and tools | a blocked search has results to go back to; the best of all tenants are answered; a reference reaches its record |
| dream promotion | the daemon comes to hold what the diary promotes; a stopped service is quiet |
| rule store | memory and file agree after a failed save; an identifier names one rule |

## 2. The plan

Modules in the order of what is at stake if they are wrong:

| module | composes | proofs | abstract specification |
|---|---|---|---|
| `TurnIngest` | manifest, queue, memo, daemon, host; `MCTurnIngest` puts `IngestBounds` in it | `TurnIngestProofs` | `TurnCommit`: what `commitTurn` promises |
| `RpcClient` | | `RpcClientProofs` | |
| `PluginRuntime` | | `PluginRuntimeProofs` | |
| `MarkdownIngest` | coordinator, adapters, watchers, snapshot | `MarkdownIngestProofs` | |
| `IngestQueue` | chunker | `IngestQueueProofs` | |
| `CompactedProjection` | `compact`, `assemble` and the last part of `afterTurn` over one shared state | `CompactedProjectionProofs` | |
| `ContextBudget` | the steps of one assembly in `assemble`'s order | `SessionProofs` | |
| `RecallCircuit` | circuit, attempts, turn cache, triggers | `ServicesProofs` | |
| `SessionExclusion` | two guards, the engine's set, the budgets | `SessionProofs` | |
| `MemoryTools` | tools, managers, tenants, references | `SessionProofs` | |
| `DreamPromotion` | watches, scan, parser, daemon | `ServicesProofs` | |
| `RuleStore` | memory, file | `ServicesProofs` | |

All of them are written, checked and proved about: every invariant and every
action property of the passing runs has its theorem, and what `TurnIngest` and
its theorems assume of the token cap is proved of `IngestBounds`. What is left to
TLC is liveness.

## 3. The modules

A module whose name begins with `MC` gives the constants of others their values
for TLC, a name that ends in `Proofs` holds theorems. Definitions below a
comment `mutation:` are used by nothing: each is a plausible bug in the
definition that follows it, kept beside it to show that the properties notice.

### `TurnIngest`: `commitTurn` and `afterTurn`

State: `manifest` is the checkpoint file; `log`, `ever` and `late` are the
daemon (its chain, all it ever stored, requests it may still serve although the
caller gave up); `call[c]` is a host call and its answer; `task[c]` the
ingestion it queued, with a program counter over the awaits of the queued
function; `queue` is the session's chain in `asyncIngestionQueues`; `memo` and
`inFlight` are the two advancement maps; `lifecycle` and `disposed` are what
the fence compares.

| action | code |
|---|---|
| `CommitKnown`, `CommitJoin`, `CommitLead`, `Settle` | `commitTurn` 3847-3955 |
| `AfterTurn` (part of a call), `AfterTurnOnly` | `afterTurn` up to its return |
| `Fenced`, `StartIngestion`, `ClientFails`, `SendBatch` | the queued task up to the RPC |
| `RecoverGap`, `Persist`, `PersistFails`, `PostIngest` | what follows the reply, gap recovery and `persistAcknowledgedBatch` |
| `DaemonServes`, `DaemonServesLate`, `DaemonLosesChain`, `RpcFails` | the daemon and the wire |
| `ResetLifecycle`, `DisposeEngine`, `Crash` | what the host and the world do meanwhile |

Turn `t` is given by a transcript and a pre-prompt count; a message is a number.
`Bounded` is the token cap, a constant operator: the proofs assume only that it
keeps a nonempty subsequence which costs the turn none of its messages because
of older ones (`BoundedAssumption`; this is where no single message is larger
than the cap), which `CapKeepsTurns` proves of `IngestBounds`, the algorithm of
the code, and TLC uses `IngestBounds`. `CapIsStable` and `TurnsFit` are what two
theorems assume besides (section 7).
`TurnCommit` says what a host may rely on, with nothing of how it is kept: when
calls of a turn are answered together one of them is told it has committed, and
a call that comes alone is told duplicate only of a turn told before (what the
comment at 3879-3887 asks for);
`ImplementsTurnCommit` maps leaders and joiners to pending calls, and what the
daemon ever stored to the store. `DurableHost`, `AfterTurnHost`, `InOrderHost`
and `CursorDaemon` choose the host and the daemon.

History variables: `told` (turns answered committed or duplicate), `covered`,
`debt` (messages of a recovery batch not yet confirmed).

### `RpcClient`: nonce chain and mutex

`slot`, `nextSlot` and `released` are the chain of promises of `createRpcMutex`;
`pc[c]` walks through `createAuthInterceptor`; `nonce` is `nonceHex`; `valid`,
`issued` and `dropped` the daemon's side. An abort can come in the queue, in the
lock, during the bootstrap, and on the wire (`Abort`, `CallFails`). The daemon
accepts each nonce it issued once, in any order, and may forget those unused.

### `PluginRuntime`: start-up, sharing, shutdown

`started` is the map of clients, `clients[i]` each client ever made, `caller[c]`
who waits for which, `bound` the remembered agents, `phase` the progress of the
single shutdown, `closing` what it took from the map. A start-up may fail, be
abandoned by its caller (`CancelWait`, the compaction client of `index.ts`), or
still be under way when `shutdown` clears the map.

### `MarkdownIngest`: adapters, watchers, coordinator, snapshot

A file's content is a version and its times a stamp, which an edit always
changes. Whether it is over the size cap is decided twice, as in the code: by
the size the walk saw (`large`, for which `Sync` deletes a cached document
before any stamp or content is looked at, and a failed deletion ends the scan)
and again by the read. `scan[r]` walks through `scanRoot`: walk, sort, sync each
candidate (`Sync`, `Read`, `StoreEnds`, `DeleteEnds`, `UnlistEnds`), prune,
save. `cache` is `fileStates` of each adapter, `saved` its snapshot file,
`sched` the timer, the rescan flag and the resume cursor, `events` what a
watcher has yet to report. The coordinator's rule, one operation per document at
a time, is `Free`; its ownership test is `OtherOwner`. A document half stored is
the version `Torn`. `Crash` throws away all but the snapshot, the files and the
daemon; a call under way lands or not (`Landed`). `Stop` follows the composite
adapter: one adapter after the other.

### `IngestQueue`: chunks, retries, order

`op[o]` is an operation asked for, with what it waits for (`after`), its offset,
token limit and attempts; `tail` is `pendingByDocument`; `content[d]` the pieces
the daemon holds. A text is a sequence of character classes (newline, space, the
two halves of a surrogate pair, any other), which is all `splitIntoChunks` tells
apart. `Cut` is that function's search for a boundary, translated in full: its
three passes, and that a pass which finds the hard end counts as finding
nothing. An attempt is accepted, fails (served or not), makes the limit shrink,
or is rejected.

### `CompactedProjection`: who may write what a prompt relies on

After a compaction a prompt is a compacted context and the suffix of the
transcript that goes with it. `snapshots`, `lifecycleTokens`,
`projectionTokens`, `activeSessions` and `postToolCache` are the module-level
maps every engine shares; `op[c]` is a call of `compact`, `assemble` or the
predictive compaction of `afterTurn` between two of its awaits, with the tokens
it took at its start. `Clear` is what the `session_end` and `before_reset` hooks
do under such a call. Tokens are fresh objects in the code and fresh numbers
here. `AppliedCompaction` and `AssembledProjection` are the two places that
write the state, both only while the call's tokens are current (`LifeCurrent`,
`StateCurrent`); `Continuation` is the post-tool prompt that is repeated from
its cache. `UserTurnRepaired` is what the catch block does after it has looked
for the context: where there is no room left for the user turn, the repair cuts
the addition to exactly what remains beside it or drops everything else, so that
a context it breaks takes the suffix with it. `ContextBudget` computes that
(`TurnsKept`, last conjunct). A context carries, as history, the compaction it
reflects and the lifecycle it was asked in, so that the properties can say what
is stale. Not every step of `assemble` is here: what is done to the text between
the awaits is in `ContextBudget`.

### `ContextBudget`: one prompt on its way through its budget

`Judge`, `Assemble`, `Recall`, `Inject`, `Return` and `Fail` are the places of
`assemble` that estimate, cut or add, in the order it calls them. A message is a
place, a role and a number of characters. The cuts are translated in full:
`Trimmed` (newest first, the last one shortened), `Bundles` (whole user turns),
`EnforcePlain`, `EnforceProjection`, `Section` (an item shortened to fit),
`Fallback`, and `Repaired`, which puts a user turn back. `remembered` is the
snapshot a session may have: the suffix then starts where the snapshot does,
which may be well before the window (`Projected`), and when anything fails the
catch block sends that suffix with the remembered context, cut by
`EnforceProjection` and repaired (`AssembleFallback`, `Fail`). `owned` says
whether what is returned is such a projection. What the loops of the
code accumulate are recursive functions (`Sums`, `KeptFrom`), which a proof can
follow by induction over the messages.

### `RecallCircuit`: whether semantic recall is asked

`circuits`, `attempts`, `turnCache` and `triggers` are Maps bounded by deleting
their first key, hence sequences. `recall[c]` is an assembly between its
decision (`RecallSkipped`, `RecallDecided`), its request and the reply;
`Tracked`, `Wait` and `Open` are the breaker, with a deadline as the ticks that
are left (`Counting`: none yet, `Forever`: refused for good). The scope of an
entry is a session together with a client, as `recallClientId` makes it.

### `SessionExclusion`: sessions memory keeps out of

`agentSessions` and `childSessions` are the two guards of the hooks and tools,
`marked` the engine's own set, `excludedChildren` what the engines of a runtime
share, `budgets` what a subagent may still expand. A hook names its session and
may or may not give a key (`HookAsks`, `EngineTurn`, `EngineBootstraps`).
The guards follow the key a session last came with; the engine's set does not: a
turn that is let in clears no mark, only `EngineBootstraps` and disposal do.
`turnedAway`, a history variable, is the set of sessions refused by key since,
and `ExclusionFollowsIdentity` holds the guards to the last key and the engine to
`turnedAway`.
`Spawn`, `ChildGone`, `Expand` and `BudgetTime` are a subagent's life.

### `MemoryTools`: searches and references

`search[c]` is a search of the tool from its guard (`Ask`, `Blocked`) through
the scope's manager, the requests of its tenants (`RequestsOf`,
`RequestAnswered`, `RequestFailed`, `DreamsAnswered`) and the merge
(`SearchAnswered`). `held` is a reference the agent was given and the record it
was given for; `Grep`, `ExpandGraph`, `Describe` and `SummarySeen` exchange it
for another. Scores are the records' own and ties come in any order (`Best`).

### `DreamPromotion`: the diary

`diary` is the file with its stamp and directory; `watcher`, `parentWatcher` and
`notices` the two watches and what they have yet to deliver; `scan` walks
through stat, read and request. `Candidates` is the parser, over kinds of lines
rather than characters. The history flags `owed` and `unsure` mark the two cases
in which the code does not retry: a scan that failed, and a reply that was lost.

### `RuleStore`: rules in memory and in the file

The functions are synchronous, so only a crash comes between writing the
temporary file (`SetRule`, `DeleteRule`), renaming it (`RenameRules`) and
assigning what was saved (`RuleSaved`). `RulesUnreadable` is a start at which
`rules.json` cannot be read: the store begins empty and the next save replaces
the file, which is why the properties end there (`unread`).

## 4. The runs

| run | instance | states | shows |
|---|---|---|---|
| `turn_faults` | 2 calls, 2 engines, 2 turns, cap below a recovery batch, memo of 1, 2 faults, 1 late request, chain up to 4 | 120,618 | a commit is stored, a replay adds nothing, recovery is paid, `TurnCommit` is implemented, for a host that commits in order |
| `turn_live` | 1 engine, 2 turns, 1 fault, a host that may also call `afterTurn` alone | 18,085 | every commit call is answered |
| `turn_replay`, `turn_recovery` | any order, 1 fault | | counterexamples, section 5 |
| `markdown` | 2 files, 2 adapters sharing one, 1 edit, 1 fault (RPC, file system or back pressure), 2 starts | 429,408 | a skipped file is stored, one writer per document, only what is gone is deleted, changes arrive |
| `markdown_cursor`, `markdown_stop` | the same, fewer faults | | counterexamples, section 5 |
| `client` | 3 RPC calls and nonces; 2 callers, 3 tenants, 3 clients, 2 tasks; 4 operations of 2 documents | 297,909 | no needless refusal, no leak, no misrouting, no gap, stored means whole, and everything settles |
| `context` | 1 session, 3 calls, 2 at once, 2 compactions, 1 disturbance | 1,109,833 | remembered and returned contexts are current; no prompt lacks its context or has a hole |
| `session` | turns of an older host; transcripts of up to 4 messages at 4 budgets; 3 sessions in sets of 2; 8 records in 2 tenants | 453,675 | checkpoint and serial ingestion without cursors, prompts that fit and keep the user's turn, exclusion, searches and references |
| `services` | 1 session of 2 clients with maps of 1 entry; 2 diaries, 3 edits, 1 stop; 3 rules in lists of 0 to 2 | 618,508 | the circuit opens and closes by the rules, the diary arrives, a stopped service is quiet, rules and file agree |
| `subagent_budget` | 1 child, 3 expansions | | counterexample, section 5 |

`client`, `session` and `services` each join modules that share neither state
nor steps: a variable `part`, chosen at the start, says whose next-state
relation the behaviour takes, and the others stand still. The states are the sum
of theirs, not the product, and a property of one of them is decided by the
behaviours of its part.

Deadlock is not checked: every instance stops when its bounds are used up, and a
finished shutdown or an idle client is a legitimate end. What must not stop is
stated as liveness.

### Bounds, and why they are enough

- **Two calls, two engines.** Every race in `commitTurn` is between a leader and
  one other call, or between an engine's task and its successor's. Three callers
  of `RpcClient`, because an abandoned waiter matters to the one *behind* it.
- **`MemoLimit = 1`** makes eviction happen with two turns; the limit of 4096 is
  beyond any test.
- **`Budget`** is between the largest turn and the largest recovery batch, so
  that a recovery is capped and a turn is not (in `turn_faults`; elsewhere it
  caps nothing).
- **`MaxChain`** stops new calls once the checkpoint is that long; it allows at
  least one replay of everything. **`MaxFaults`** counts crashes, losses of the
  chain, resets and disposals together: two let a crash meet a recovery.
  **`MaxLate`**: one request served after its caller gave up.
- **`MaxSlots`, `MaxNonces`, `MaxForgets`** bound the calls made, the nonces
  issued and how often the daemon forgets; **`MaxClients`** the clients made, so
  a failed one is replaced and another tenant has its own.
- **`MaxEdits`, `MaxStarts`, `Faults`, `MaxFaults`** of Markdown: one edit lands
  at any point of any scan, one call fails anywhere, one restart follows any
  state. The second adapter does not accept the second version of a file, which
  is how ownership is disputed; one file becomes too large.
- **`CharsPerToken = 2`, `ProbeLimit = 3`** for 4 and 256 keep boundaries, hard
  cuts and probes that run out within texts of eight characters.
  `MCClient` also checks, as the assumption `CutIsSafe`, the cut of every
  well-formed text of three to five characters at every limit: it advances,
  stays within the limit and never separates a pair. (`IngestQueueProofs` proves
  it for every text.)
- **`MaxCalls = 3`, two `Places`**: a compaction, the assembly it overlaps and a
  third call that finds what they left. `MaxDisturbances = 1`: one clear,
  disposal or change of the transcript at any point of them; the two bounds
  count calls and disturbances, so nothing is disturbed for free.
- **Transcripts of up to four messages** of five kinds cover a turn with a tool
  call and its result before or after another user message. `MessageOverhead`,
  `HeadroomTokens`, `SectionFrame` and the like are scaled down from 8, 500 and
  more, so that each of the budgets 4, 8 and 14 falls in another branch of the
  cuts; 0 stands for no budget. The context is absent or of 11 characters
  (`ContextSizes`): whole beside a short turn, and cut by the smaller budgets and
  by `InjectionCap`. A snapshot may have been taken at any length of the
  transcript, so its suffix is the window, longer, or all of it.
- **`MaxRemembered = 2`** with three sessions, **`MaxBudgets = 1`**,
  **`MaxCircuits`, `MaxAttempts`, `MaxTurns`, `MaxTriggers = 1`** with two
  scopes, **`MaxScopes = 1`** with two tool contexts: one more than fits.
  `Failures` are a class that accumulates and backs off and the one that never
  closes.
- **Two diary contents** with nested fences and a section that is not promoted,
  three edits: away and back again under a scan. **`MaxSets = 3`** rules at
  limits 0, 1 and 2; priorities out of range are clamped.

The proofs of section 7 have none of these bounds, except where a bound is a
constant of the module: then they hold for every value of it.

## 5. Where the code and its documentation disagree

Each is a run that TLC must find violated.

- **`turn_replay`** (`manifest.ts:211`). The overlap is looked for at the *tail*
  of the checkpoint only. A turn replayed after a later one was covered, with
  the memo gone, overlaps with nothing and is ingested again; the comment at
  `context-engine.ts:3842-3845` says a replay "contributes no new messages even
  across a process restart". It holds for a host that commits in order
  (`turn_faults` checks that).
- **`turn_recovery`** (`context-engine.ts:2081`). `recoveryPending` belongs to
  the session. With two turns outstanding, the one with the shorter transcript
  can be confirmed whole and clear the flag while the other's longer recovery
  batch is still owed; `docs/architecture.md:70-71` says the state is kept
  "until the full recovery batch is confirmed". It, too, holds in order.
- **`markdown_cursor`** (`markdown-ingest.ts:781`). A watcher event during a
  scan resets the resume cursor, and back pressure later in the same scan sets
  it again: the rescan starts past the changed file, and nothing schedules
  another. `CHANGELOG.md:41` says watcher events reset the cursor.
- **`markdown_stop`** (`markdown-ingest.ts:469`). `stop` of the first adapter
  clears what it owns before the second one's scan has drained; that scan then
  deletes a shared document which the first one's saved snapshot still claims,
  and the next start skips the file. The comment at `:331` promises the
  opposite.
- **`subagent_budget`** (`context-engine.ts:2159`). `consumeSubagentBudget`
  drops a budget that has expired, or that made room for another, and gives a
  child without one no cap at all: the expansions of a subagent that lives
  longer than 120 s are unlimited. The comment at `:2131-2135` says the budget
  is checked "before each expansion".

Others were met and have no run of their own:

- With `MayRevert = TRUE`, `Faults` of `{"rpc"}` and two edits,
  `SkipMeansStoredUnlessReleased` fails: an ingestion or deletion that landed
  only in part, followed by the file going back to its earlier content, leaves a
  cached hash that says unchanged (`test/integration/markdown-ingest.test.ts:613`
  says a failed indexing must not poison the snapshot).
- With one adapter and two roots that both cover a file over the size cap,
  `SkipMeansStoredUnlessReleased` fails as well, without any reverting: one
  root's walk sees the file too large, the file shrinks and the other root's scan
  stores it, and the first root's `syncCandidates` (794-800) then deletes it for
  the size it saw. If that deletion lands but fails, or the process dies before
  the snapshot is saved, the entry that skips the file outlives the document.
- A turn larger than the cap, whose oldest messages are left out, is sent again
  on a replay after a restart: `docs/architecture.md:86-90` speaks of the
  truncated *single* message only, while 76-78 promises that an exact replay
  matches.
- `enforceTokenBudgetInvariant` never shortens the system prompt addition: when
  that alone exceeds the budget it drops every message and returns. What makes
  the prompt fit after all is the repair, which then finds no user message and
  cuts the addition to make room for one (`PromptsFitTheBudget`); a transcript
  with no user message to put back is answered above its budget. A user message
  that is blank once normalized may be traded for an earlier one
  (`trimTurnAlignedSourceSuffixToBudget`,
  1062-1068), and the fallback for a host that gives no budget shrinks every
  message to about a token.
- `deduplicatePredictions` (2587-2602) does not know what exact recall has
  found, so a fact may come twice, although the comment near 3623 says
  "deduped against exact recall".
- `resolveIdentity` falls back to `session-key:<key>`, a form that
  `resolveDurableNamespace` rejects.
- A `rules.json` that cannot be read counts as empty: the next `set_rule`
  replaces it and gives out its identifiers again. When the list is full, a new
  rule of low priority pushes out one that may be more important, and a limit
  that was lowered drops one rule per call.

## 6. Fairness

Fairness is weak and only on what the runtime itself does.

- `TurnIngest`: the steps of a queued ingestion and the settling of its call.
  RPCs end because the transport gives each a deadline (`defaultTimeoutMs`,
  `libravdb-client.ts:356`); promise callbacks run. The host and the faults are
  under no obligation.
- `RpcClient`: the steps of a call that has been made, for the same reasons.
- `PluginRuntime`: a start-up ends, shutdown tasks end, and a flush ends, each
  bounded by an RPC deadline.
- `MarkdownIngest`: watchers report, timers fire, a scan's awaits return or its
  watchdog ends a walk that stalls, and starting or stopping goes on. Edits,
  failures, stops and crashes are never required.
- `IngestQueue`: a task whose predecessor settled starts, an attempt ends, and
  the settled chain is forgotten.
- `RecallCircuit`: the clock goes on (`Tick`). Nobody is obliged to ask again:
  `RecallRetried` says that an open circuit would let the next one through, not
  that there is a next one.
- `DreamPromotion`: timers fire, the scan's awaits return (`DreamWorks`) and the
  watches deliver what they saw (`DiaryChanged`, `DirectoryChanged`). Edits,
  stops, starts and failures are never required. `DiaryPromoted` is stated as
  "from some time on": the bounds stop the edits, as the owner of a diary does.

The fairness of a part that stands still asks for nothing: none of its steps is
enabled.

## 7. The proofs

The theorems hold for every value of the constants that satisfies the named
assumptions: `TurnsAssumption`, `BoundedAssumption`, `BoundsAssumption`,
`RpcBoundsAssumption`, `RuntimeAssumption`, `QueueAssumption`,
`MarkdownAssumption`, `ProjectionAssumption`, `BudgetAssumption`,
`RecallAssumption`, `ExclusionAssumption`, `ToolAssumption`, `RuleAssumption`.
TLC evaluates each of them on the instances above. The theorems on
`DreamPromotion` assume nothing. Four theorems have hypotheses besides:

- `SkippedIsStored` assumes `~ MayRevert`, `CappedAreUnshared` (no file that
  may be over the size cap lies under two roots of one adapter; otherwise it is
  violated, section 5) and at most two adapters. The code
  makes at most two, the generic and the Obsidian one
  (`markdown-ingest.ts:240-290`); with three, the timers of the third may fire
  while the second is still being stopped, and TLC finds the property violated.
  With `MayRevert` it is violated as well (section 5).
- `PromptsFitTheBudget` assumes that every budget leaves room for more than the
  wrapper of one message (`Effective(b) > MessageOverhead`; 8 tokens in the
  code). Below that no prompt with a message fits.
- `RecoveryIsPaid` and `ReplaysAddNothing` are about a host that calls
  `commitTurn` alone, with a key that survives a restart, and for a turn only
  once the turn before it is committed (`DurableHost`, `InOrderHost`,
  `~ AfterTurnHost`), as in `turn_faults`. For a host that does not wait, TLC
  finds both violated (`turn_recovery`, `turn_replay`). Both assume
  `CapIsStable`: what the cap left of a transcript it leaves again, from any
  place on. This is proved of the code's cap (`StabilityOfTheCap`).
- `ReplaysAddNothing` also assumes `TurnsFit`: no turn is larger than the cap.
  `TurnsFitTheCap` proves it of the code's cap when each turn, taken by itself,
  is left as it is. Of a larger turn the cap leaves out the oldest messages, the
  checkpoint never has them, and the replay sends them again.

`MCTurnIngest` evaluates `CapIsStable` and, where the host commits in order,
`TurnsFit` on its instances.

**`TurnIngestProofs`.** `CommittedMeansStored` is not inductive: nothing in it
says what a task about to report success has in hand. `Inductive` adds, for
every program counter, how the turn is accounted for (`TaskAccounted`): the
checkpoint the task loaded is stored, that checkpoint and the batch together
cover the turn, and what a reply confirms is stored. For the last to survive
while other calls run, ingestion must be serial (`RunningIsHead`) and the
leaders must be the calls in flight (`LeadersInFlight`). The lemmas underneath
are about sequences, the overlap (`OverlapIsMatch`: the greatest match exists
and what it leaves out is in the checkpoint) and the cap. From `Inductive`
follow `TypeCorrect`, `CommitIsDurable`, `CheckpointIsHonest`, `MemoIsHonest`,
`IngestionIsSerial` and `LeaderIsUnique`. `CommitIsImplemented` maps every step to a
step or a stutter of `TurnCommit`: a settlement answers the leader and all who
joined it at once, and the accounting above is what lets it say so.

The two action properties need an order that `Inductive` does not have.
`OrderInv`: every call under way leads a turn of its own, and the calls stand in
line in the order of their turns, so nothing later moves the checkpoint while a
turn runs. `SendingInv`: the checkpoint a task builds on is still the stored
one, and its batch is what that checkpoint lacks, of the whole transcript while
a recovery is pending. From these, `DebtInv`: only the latest turn owes, what it
owes follows the prefix of its transcript that the checkpoint holds, the
checkpoint says `recovery`, and nobody else is in line; `PersistKeepsDebt` is the
step that pays, and a partial answer moves the prefix and pays no more than it
confirmed (`RecoveryIsPaid`). `CoverInv`: a covered turn is neither queued nor
being sent, and the checkpoint ends with the latest one if it is covered, so
that its overlap is the whole turn and a replay finds nothing to send
(`ReplaysAddNothing`).

`Bounded` is a constant of `TurnIngest`; that the cap of the code is one is
proved of `IngestBounds`. `CapKeepsTurns` is the body of `BoundedAssumption` for
`BoundBatch`, for distinct messages of which none is larger than the cap by
itself. The lemmas go from the newest message back (`BackToFirst`): what is taken
of a suffix does not depend on what is older (`TakenOfSuffix`), what was taken is
taken again (`TakenAgain`), and it is what fits beside the newer messages taken
(`TakenRange`).

**`RpcClientProofs`.** `SlotsOwned` (an unsettled call owns an unreleased slot,
and one past the mutex has none before it) is why a chain of promises excludes,
aborts included. `NonceAccounted` follows the nonce: fresh and acceptable at
rest, or carried by the one request on the wire. Then `MutexHolds`,
`NonceIsSingleUse` and `RefusalsAreExplained`.

**`PluginRuntimeProofs`.** `MapHoldsOpenClients`: before shutdown takes the map
it holds exactly the open clients, and afterwards `closing` does. From it
`ShutdownClosesAll`, `ClientsAreShared` and `StartupIsRetried`; `RoutingIsKept`
and `DrainComesFirst` need in addition that clients are only touched once the
task list is empty.

**`MarkdownIngestProofs`.** Three layers. `BaseInv`: types, what a handle that
does not run may still have under way (`HostInv`), that a scan only holds files
its root covers (`CoverInv`), and `OneWriterPerDocument`; a writer enters only
when `Free` says that no other has the document, which `WriterBlocks` turns
around. `GoneInv`: a scan about to delete saw the file missing or disowned in
its own walk (`OnlyGoneIsDeleted`, an action property). `BeliefInv` is what
`SkipMeansStoredUnlessReleased` needs to be inductive. Every version seen is one
of the edits made so far (`VersionInv`). A snapshot that would skip a file
belongs to a cache that would (`SavedInv`). The adapter of a scan that stores or
deletes a document would not skip the file, a scan that deletes it knows no
other owner, and if the file changed since it was read, no cache and no snapshot
has it as it is now (`WriterInv`). A missed file is not one that its root's
cache would skip, unless another adapter took it over (`MissingInv`), and a file
the walk saw too large is not one that the cache of its root skips, since only
that root's scan could have stored it meanwhile (`LargeInv`). While an
adapter is stopped after another, a document was `released` or no root is
scanning (`ReleasedInv`).

**`IngestQueueProofs`.** An operation waits only for whoever was last in the map
when it was asked for, and the map forgets settled chains. `Chained` is why that
suffices: whoever runs or has settled has only settled operations of its
document before it, and no unsettled operation comes after the one the map
names. `OperationsNeverOverlap` follows. What the daemon holds rests on the cut:
`CutIsSafe` (it advances, stays within its limit and never separates a pair,
for every well-formed text; its passes choose a greatest position, whose
existence is a least counterexample) and `Stored`: the pieces of every document
are sound and joined, each operation stands at the end of what it wrote, and
where the newest one settled with success the content is whole. `NoGap`,
`WholeCharacters` and `SuccessMeansStored` follow.

**`CompactedProjectionProofs`.** Nothing in `ProjectionFresh` says what a call
that is about to write may have read before others compacted or cleared.
`ProjectionInv` adds it per session and per call: a projection token is never
newer than the last one made, a lifecycle token is the current one or none
(`SessionInv`), and a call whose two tokens are still current took everything it
holds since the last compaction was applied and the last clear (`CallInv`). The
lemma that carries the proof is `CurrentBefore`: a call that is current after a
step was current before it, and the step neither cleared nor applied anything.
From `ProjectionInv` follow `MemoryStaysFresh`, `ReturnedIsCurrent`,
`SuffixHasContext` and `SuffixMeetsContext`.

**`ServicesProofs`**, `DreamPromotion`. `QuietInv` (a service that does not watch
has no timer, watch or notice, and a scan still under way is awaited by `stop`)
gives `ServiceStopsQuietly`. A scan skips a diary by its stamp; that this is
right (`SkippedDiaryIsHeld`) needs that a remembered stamp was taken before its
content was read (`StampInv`) and that it is remembered only after the daemon
acted on it (`HeldInv`).

`RuleStore`. Between two calls memory equals the file, and during one
the file equals one side of the change (`SavedIsInForce`). Identifiers are
stable (`IdentifiersAreStable`) because every rule in memory, in the file, in a
change under way or ever told lies below every counter a restart may bring back
(`IdsBelowCounter`); the lemmas are about what `Dropped` and `Inserted` may
leave in a list.

`RecallCircuit`. `RecallInv` follows the bounded maps through eviction: an entry
of the circuit counts at most as many failures as there were in a row, up to 3,
and has a deadline only at the threshold of its class (`CircuitInv`); cached
entries carry the client of their key, and a prompt under way was given nothing
or the memory of its own client (`MemoryInv`).

**`SessionProofs`**, `SessionExclusion`. A bounded set is the end of the whole
history of activity (`Tracks`), so what it dropped came before all it keeps:
`OnlyTheQuietAreDropped`. `IdentityInv` relates each table to the key a session
last came with, the engine's set to `turnedAway`, and the children's tables to
who is alive.

`MemoryTools`. `KeyInv`: a remembered key has a search under way or an answer of
the same age. `ReferenceInv`: whatever the agent holds leads, by the resolution
the code uses, to the record it was made for, and the paths a scope may follow
were returned to it. `RankInv` carries through the requests of the tenants that
what was left out of an answer has `k` at least as good in it.

`ContextBudget`. `MessagesTokens` is a sum and `Trimmed` a fold; `TotalOfMore`
and `KeptProperties` are proved by least counterexample over the messages. From
them each cut costs no more than it was given. Neither budget invariant of the
code makes a prompt fit by itself: `Enforced` says that the second one leaves a
prompt that fits, or one without messages, or a projection without its context,
and `Return` and `Fail` mend the last two. `OnlyTheUserTurn` is why the repair in
the catch block needs no second look: it leaves the context whole or the user
message alone. `TurnHeld` (the messages of an owned projection
are a suffix of the transcript that starts no later than its last user message)
gives `NewestTurnsAreKept`.

Only model-checked: all liveness (`EveryCommitAnswered`, `EveryCallSettles`,
`EveryGetClientSettles`, `ShutdownCompletes`, `UnracedChangesIngested`,
`EveryOpSettles`, `RecallRetried`, `DiaryPromoted`), which the prover does not
reach.

## 8. What is not covered

In modelled components:

- `TurnIngest`: one session and one destination; `commitTurn` without a key
  (3912), which neither remembers nor joins; excluded sessions (3857, 3961);
  messages without an identity, which the code matches by role and content; the
  on-disk form and the hash chain, which `log` and `base` stand for; a message
  larger than the cap alone.
- `RpcClient`: calls without a secret and `Health`, which take no lock (233,
  258); the public `health()`.
- `PluginRuntime`: validation of the configuration (a start-up that fails), and
  `emitLifecycleHint` (a `getClient` and an RPC whose failure is swallowed).
- `MarkdownIngest`: migration of version-3 snapshots, entries of other
  destinations, subdirectories and parent watchers, the WAL threshold (it has
  the shape of `acceptMore`), the order among waiters of the coordinator,
  `refresh` of a running handle, a stop that overtakes a start, torn reads, a
  call served after a later one.
- `IngestQueue`: the feedback callback and pauses; a failed call that is served
  after its own retry.
- `CompactedProjection`: `NoHole` is not claimed of a prompt that continues a
  turn after a tool call, which repeats the context of the turn's first prompt;
  which entry a bounded map evicts.
- `ContextBudget`: characters, normalization and the wording of sections.
- `RecallCircuit`: the ranking the daemon does, and what is predicted from it.
- `SessionExclusion`: patterns of agents and the parsing of keys. Which session
  `childSessions` drops when it is full is modelled but not claimed
  (`LeastActiveDropped` is about the other two tables).
- `MemoryTools`: the summary mode of `memory_expand` (it hands out text only),
  user cards and persona (single requests), limits parsed from parameters.
  `BestAreAnswered` leaves out records without metadata, which are merged as one
  record when their identifiers agree. The run has one search at a time; that
  `BlockedHasResults` holds of searches side by side is the theorem's.
- `DreamPromotion`: the numeric thresholds of a candidate and the path check.

Not modelled at all: the **plugin entry point and hooks**, which wire the parts
together and whose effects are actions of the parts; the **continuity cache**,
one best-effort file per session that nothing depends on; the **command line**
and **set-up scripts**, one-shot commands with no state between them; and
**declarations**. `.ts-build-narrow` holds compiled copies of `src/src`.
