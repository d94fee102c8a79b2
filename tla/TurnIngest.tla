----------------------------- MODULE TurnIngest -----------------------------
(***************************************************************************)
(* Durable turn ingestion for one session: commitTurn and afterTurn of     *)
(* src/context-engine.ts over the checkpoint kept by src/manifest.ts.      *)
(*                                                                         *)
(* A host call runs in one synchronous stretch up to the enqueueing of its *)
(* ingestion, and an ingestion runs in stretches separated by awaits: each *)
(* stretch is one action.  The daemon, which is not in the repository, is  *)
(* modelled by what the plugin's code expects of it: it keeps a chain of   *)
(* messages per session, refuses as a gap a batch whose cursor does not    *)
(* match that chain, starts the chain over for a batch without a cursor,   *)
(* and confirms a prefix of what it was sent.                              *)
(***************************************************************************)
EXTENDS Integers, Sequences, FiniteSets, Functions

CONSTANTS
  Calls,          \* places in the host that may have a call outstanding
  Engines,        \* context-engine instances sharing the module's state
  NTurns,         \* the session's turns are 1..NTurns, in the order accepted
  Transcript,     \* Transcript[t]: the messages the host passes with turn t
  PrePrompt,      \* PrePrompt[t]: prePromptMessageCount of turn t
  Bounded(_),     \* the token cap on a batch (IngestBounds gives it)
  MemoLimit,      \* COMMITTED_ADVANCEMENT_KEY_LIMIT
  DurableHost,    \* TRUE: the host calls commitTurn
  AfterTurnHost,  \* TRUE: the host calls afterTurn itself, and waits for nothing
  InOrderHost,    \* TRUE: a turn is begun once the one before is committed
  CursorDaemon,   \* FALSE: a legacy daemon that answers without a cursor
  MaxChain,       \* bound: no new call once the checkpoint is this long
  MaxFaults,      \* bound: crashes, data losses, resets and disposals
  MaxLate,        \* bound: requests the daemon may still serve too late
  None

Turns == 1..NTurns
Msgs == UNION {Range(Transcript[t]) : t \in Turns}

(* selectAfterTurnMessages: what follows the pre-prompt boundary, or the   *)
(* last message when the boundary consumes everything.                     *)
Selected(t) ==
  LET all == Transcript[t]
      first == IF PrePrompt[t] < Len(all) THEN PrePrompt[t] + 1 ELSE Len(all)
  IN  SubSeq(all, first, Len(all))

(* What turn t must leave in the daemon: its own messages, less those the  *)
(* cap leaves out of a turn that is larger than the cap.                   *)
Need(t) == Range(Bounded(Selected(t)))

ASSUME TurnsAssumption ==
  /\ NTurns \in Nat \ {0}
  /\ Transcript \in [Turns -> Seq(Msgs)]
  /\ \A t \in Turns : Transcript[t] # << >>
  /\ PrePrompt \in [Turns -> Nat]

(* What a turn may send, before the overlap is cut off. *)
Batches(t) == {Transcript[t], Selected(t), Bounded(Transcript[t])}

(* The cap keeps a nonempty subsequence.  It takes messages newest first,  *)
(* so history before a turn never costs the turn a message: this is where  *)
(* no message is assumed larger than the cap by itself.                    *)
ASSUME BoundedAssumption ==
  \A t \in Turns :
    \A b \in Batches(t) : \A k \in 1..Len(b) :
        LET s == SubSeq(b, k, Len(b))
        IN  /\ Bounded(s) \in Seq(Range(s))
            /\ Bounded(s) # << >>
            /\ Range(s) \cap Need(t) \subseteq Range(Bounded(s))

ASSUME BoundsAssumption ==
  /\ MemoLimit \in Nat \ {0}
  /\ MaxChain \in Nat /\ MaxFaults \in Nat /\ MaxLate \in Nat
  /\ DurableHost \in BOOLEAN /\ AfterTurnHost \in BOOLEAN
  /\ InOrderHost \in BOOLEAN /\ CursorDaemon \in BOOLEAN
  /\ None \notin Calls \cup Engines

VARIABLES
  manifest,    \* the checkpoint file: acknowledged turns, recoveryPending
  log,         \* the daemon's chain for the session
  ever,        \* history: the messages the daemon has ever stored
  late,        \* requests whose caller gave up before the daemon served them
  call,        \* call[c]: the host call in slot c and its answer
  task,        \* task[c]: the ingestion slot c's call queued
  queue,       \* asyncIngestionQueues: slots with an unsettled ingestion
  memo,        \* committedAdvancementKeys, oldest first
  inFlight,    \* inFlightAdvancements: the leading call of each key
  lifecycle,   \* the session's current projection lifecycle token
  disposed,    \* the engines that are disposed
  begun,       \* the latest turn the host has called for
  told,        \* history: turns the host was told are committed
  covered,     \* history: turns whose content the checkpoint has covered
  debt,        \* history: recovery messages a turn sent, not yet confirmed
  faults       \* bound: faults so far

storeVars == <<manifest, log, ever, late>>
hostVars == <<call, memo, inFlight, begun, told>>
engineVars == <<lifecycle, disposed, faults>>
historyVars == <<covered, debt>>
vars == <<storeVars, hostVars, task, queue, engineVars, historyVars>>

-----------------------------------------------------------------------------
(* Host calls and their ingestion tasks.                                   *)

IdleCall == [pc |-> "idle", turn |-> 1, res |-> "none"]
CallRecords ==
  [pc : {"idle", "lead", "join", "done"}, turn : Turns,
   res : {"none", "committed", "duplicate", "error"}]

NoReply == [kind |-> "none", n |-> 0]
Replies ==
  [kind : {"none", "ack", "legacy", "gap", "rejected", "invalid"}, n : Nat]

EmptyManifest == [turns |-> << >>, recovery |-> FALSE]
Manifests == [turns : Seq(Msgs), recovery : BOOLEAN]

Steps == {"none", "queued", "client", "rpc", "rpcDone", "seed", "seedDone",
          "post", "ok", "failed", "skipped"}
NoTask ==
  [step |-> "none", turn |-> 1, awaited |-> FALSE, engine |-> None,
   token |-> 0, msgs |-> << >>, base |-> EmptyManifest, batch |-> << >>,
   reply |-> NoReply]
Tasks ==
  [step : Steps, turn : Turns, awaited : BOOLEAN, engine : Engines \cup {None},
   token : Nat, msgs : Seq(Msgs), base : Manifests, batch : Seq(Msgs),
   reply : Replies]

Settled == {"ok", "failed", "skipped"}
Running == {"client", "rpc", "rpcDone", "seed", "seedDone", "post"}

Init ==
  /\ manifest = EmptyManifest
  /\ log = << >> /\ ever = {} /\ late = {}
  /\ call = [c \in Calls |-> IdleCall]
  /\ task = [c \in Calls |-> NoTask]
  /\ queue = << >> /\ memo = << >>
  /\ inFlight = [t \in Turns |-> None]
  /\ lifecycle = 0 /\ disposed = {} /\ faults = 0
  /\ begun = 0 /\ told = {} /\ covered = {}
  /\ debt = [t \in Turns |-> {}]

-----------------------------------------------------------------------------
(* The checkpoint.                                                         *)

(* matchesManifestTail: the last n checkpointed messages are the first n   *)
(* incoming ones.  Messages here have an identity, the host's or the one   *)
(* derived from the advancement key and position; without one the code     *)
(* compares role and content, which is left out here.                      *)
\* mutation: the last message of the window is not compared
MatchesTailButLast(turns, incoming, n) ==
  /\ n <= Len(turns) /\ n <= Len(incoming)
  /\ \A i \in 1..(n - 1) : turns[Len(turns) - n + i] = incoming[i]

MatchesTail(turns, incoming, n) ==
  /\ n <= Len(turns) /\ n <= Len(incoming)
  /\ \A i \in 1..n : turns[Len(turns) - n + i] = incoming[i]

(* findOverlapIndex: the longest such match. *)
\* mutation: the transcript is never compared with the checkpoint
OverlapNone(turns, incoming) == 0

Overlap(turns, incoming) ==
  CHOOSE n \in 0..Len(incoming) :
    /\ MatchesTail(turns, incoming, n)
    /\ \A k \in (n + 1)..Len(incoming) : ~ MatchesTail(turns, incoming, k)

Unmatched(turns, incoming) ==
  SubSeq(incoming, Overlap(turns, incoming) + 1, Len(incoming))

(* selectMessages: a pending recovery sends the whole transcript, capped.  *)
SelectMessages(t, recovery) ==
  IF recovery THEN Bounded(Transcript[t]) ELSE Selected(t)

(* What persistAcknowledgedBatch takes as confirmed of a batch of len      *)
(* messages.  A refusal, a gap and an unreadable cursor confirm nothing.   *)
\* mutation: ok = false counts as an answer of a daemon without cursors
AckCountWithoutOk(reply, len) ==
  CASE reply.kind = "ack" -> reply.n
    [] reply.kind \in {"legacy", "rejected"} -> len
    [] OTHER -> 0

AckCount(reply, len) ==
  CASE reply.kind = "ack" -> reply.n
    [] reply.kind = "legacy" -> len
    [] OTHER -> 0

(* recoveryPending outlives the save only while the batch is incomplete.   *)

StillRecovering(base, n, len) == base.recovery /\ n < len

(* appendACKedMessages, with the flag persistAcknowledgedBatch puts back.  *)
Checkpointed(base, batch, n) ==
  [turns |-> base.turns \o SubSeq(batch, 1, n),
   recovery |-> StillRecovering(base, n, Len(batch))]

-----------------------------------------------------------------------------
(* The daemon.                                                             *)

Request(c) == [base |-> task[c].base.turns, batch |-> task[c].batch]
Requests == [base : Seq(Msgs), batch : Seq(Msgs)]

(* A batch without a cursor starts the chain over; one with a cursor must  *)
(* continue the chain as the plugin knows it.  A legacy daemon compares    *)
(* nothing, so its chain is not followed.                                  *)
InSync(r) == r.base = << >> \/ r.base = log

DaemonStores(r, n) ==
  /\ log' = IF CursorDaemon THEN r.base \o SubSeq(r.batch, 1, n) ELSE log
  /\ ever' = ever \cup Range(SubSeq(r.batch, 1, n))

Reply(c, kind, n) ==
  task' = [task EXCEPT
    ![c].step = IF @ = "rpc" THEN "rpcDone" ELSE "seedDone",
    ![c].reply = [kind |-> kind, n |-> n]]

(* The daemon serves a request: it confirms a prefix, refuses a gap, says  *)
(* ok = false, or stores the batch and answers with a cursor out of range. *)
DaemonServes(c) ==
  /\ task[c].step \in {"rpc", "seed"}
  /\ LET r == Request(c)
         len == Len(r.batch)
     IN  \/ /\ CursorDaemon /\ InSync(r)
            /\ \E n \in 0..len : DaemonStores(r, n) /\ Reply(c, "ack", n)
         \/ /\ CursorDaemon /\ ~ InSync(r)
            /\ Reply(c, "gap", 0)
            /\ UNCHANGED <<log, ever>>
         \/ /\ Reply(c, "rejected", 0)
            /\ UNCHANGED <<log, ever>>
         \/ /\ CursorDaemon /\ InSync(r)
            /\ DaemonStores(r, len) /\ Reply(c, "invalid", 0)
         \/ /\ ~ CursorDaemon
            /\ DaemonStores(r, len) /\ Reply(c, "legacy", 0)
  /\ UNCHANGED <<manifest, late, hostVars, queue, engineVars, historyVars>>

(* It serves a request whose caller is gone. *)
DaemonServesLate(r) ==
  /\ r \in late
  /\ late' = late \ {r}
  /\ IF CursorDaemon => InSync(r)
       THEN \E n \in 1..Len(r.batch) : DaemonStores(r, n)
       ELSE UNCHANGED <<log, ever>>
  /\ UNCHANGED <<manifest, hostVars, task, queue, engineVars, historyVars>>

Fault == faults < MaxFaults /\ faults' = faults + 1

(* It loses the session's chain, as a daemon whose data is reset does. *)
DaemonLosesChain ==
  /\ log # << >>
  /\ log' = << >>
  /\ Fault
  /\ UNCHANGED <<manifest, ever, late, hostVars, task, queue, lifecycle,
                 disposed, historyVars>>

-----------------------------------------------------------------------------
(* commitTurn and afterTurn.                                               *)

(* A host with durable turns calls again for a key as it likes, for its    *)
(* latest turn only or for any; one without calls once per turn.           *)
HostMayCall(t) ==
  \/ DurableHost /\ InOrderHost /\ t = begun
  \/ DurableHost /\ ~ InOrderHost /\ t <= begun
  \/ t = begun + 1 /\ (DurableHost /\ InOrderHost /\ begun > 0 => begun \in told)

Callable(c, t) ==
  /\ call[c].pc \in {"idle", "done"} /\ task[c].step = "none"
  /\ HostMayCall(t)
  /\ Len(manifest.turns) < MaxChain
  /\ begun' = IF t > begun THEN t ELSE begun

(* afterTurn up to its return: it selects the messages, answers at once    *)
(* when the checkpoint covers them, and queues an ingestion otherwise.     *)
AfterTurn(c, e, t, awaited) ==
  LET msgs == SelectMessages(t, manifest.recovery)
      skip == Unmatched(manifest.turns, msgs) = << >>
      fresh == [NoTask EXCEPT !.turn = t, !.awaited = awaited, !.engine = e,
                              !.token = lifecycle, !.msgs = msgs]
  IN  /\ task' = IF skip
                   THEN IF awaited
                          THEN [task EXCEPT ![c] = [NoTask EXCEPT !.step = "skipped",
                                                      !.turn = t, !.awaited = TRUE]]
                          ELSE task
                   ELSE [task EXCEPT ![c] = [fresh EXCEPT !.step = "queued"]]
      /\ queue' = IF skip THEN queue ELSE Append(queue, c)

(* A call for a key already in the memo is a duplicate. *)
CommitKnown(c, t) ==
  /\ DurableHost /\ Callable(c, t)
  /\ t \in Range(memo)
  /\ call' = [call EXCEPT ![c] = [pc |-> "done", turn |-> t, res |-> "duplicate"]]
  /\ told' = told \cup {t}
  /\ UNCHANGED <<storeVars, task, queue, memo, inFlight, engineVars, historyVars>>

(* inFlightAdvancements has an entry for the key. *)

InFlight(t) == inFlight[t] # None

(* A call for a key in flight joins the call that leads it. *)
CommitJoin(c, t) ==
  /\ DurableHost /\ Callable(c, t)
  /\ t \notin Range(memo)
  /\ InFlight(t)
  /\ call' = [call EXCEPT ![c] = [pc |-> "join", turn |-> t, res |-> "none"]]
  /\ UNCHANGED <<storeVars, task, queue, memo, inFlight, told, engineVars, historyVars>>

(* Any other call leads: it runs the turn through afterTurn. *)
CommitLead(c, e, t) ==
  /\ DurableHost /\ Callable(c, t)
  /\ e \notin disposed
  /\ t \notin Range(memo)
  /\ ~ InFlight(t)
  /\ call' = [call EXCEPT ![c] = [pc |-> "lead", turn |-> t, res |-> "none"]]
  /\ inFlight' = [inFlight EXCEPT ![t] = c]
  /\ AfterTurn(c, e, t, TRUE)
  /\ UNCHANGED <<storeVars, memo, told, engineVars, historyVars>>

(* afterTurn called by the host itself, which waits for nothing. *)
AfterTurnOnly(c, e, t) ==
  /\ AfterTurnHost /\ Callable(c, t)
  /\ e \notin disposed
  /\ AfterTurn(c, e, t, FALSE)
  /\ UNCHANGED <<storeVars, call, memo, inFlight, told, engineVars, historyVars>>

(* rememberCommittedAdvancementKey: the oldest key makes room. *)

Remember(keys, t) ==
  LET added == IF t \in Range(keys) THEN keys ELSE Append(keys, t)
  IN  IF Len(added) > MemoLimit THEN Tail(added) ELSE added

(* Whether the leader's outcome may be remembered as a durable commit. *)

Durable(c) == task[c].step = "ok"

(* The calls waiting for the leader's promise. *)
\* mutation: only the leader is answered
JoinedForgotten(c) == {}

Joined(c) == {d \in Calls : call[d].pc = "join" /\ call[d].turn = task[c].turn}

(* What a call waiting for the leader's ingestion is told. *)
\* mutation: a turn that had nothing left to ingest is called a duplicate
SkippedIsDuplicate(c, d) ==
  IF task[c].step = "failed" THEN "error"
  ELSE IF d # c \/ ~ Durable(c) THEN "duplicate" ELSE "committed"

AnswerOf(c, d) ==
  IF task[c].step = "failed" THEN "error"
  ELSE IF d # c /\ Durable(c) THEN "duplicate" ELSE "committed"

(* The leader's ingestion has settled.  In one synchronous stretch its key *)
(* is remembered if the ingestion it queued completed, leaves the in-flight*)
(* map either way, and the leader and everyone who joined it are answered. *)
Settle(c) ==
  LET t == task[c].turn
      answered == {c} \cup Joined(c)
  IN  /\ call[c].pc = "lead" /\ task[c].step \in Settled
      /\ memo' = IF Durable(c) THEN Remember(memo, t) ELSE memo
      /\ inFlight' = [inFlight EXCEPT ![t] = None]
      /\ call' = [d \in Calls |-> IF d \in answered
                                    THEN [pc |-> "done", turn |-> t, res |-> AnswerOf(c, d)]
                                    ELSE call[d]]
      /\ told' = IF AnswerOf(c, c) = "error" THEN told ELSE told \cup {t}
      /\ task' = [task EXCEPT ![c] = NoTask]
      /\ UNCHANGED <<storeVars, queue, begun, engineVars, historyVars>>

-----------------------------------------------------------------------------
(* The queued ingestion.                                                   *)

(* enqueueAsyncIngestion: a task runs when the one before it has settled. *)
\* mutation: the queue entry was dropped, so nothing is waited for
RunnableAtOnce(c) == c \in Range(queue)

Runnable(c) == queue # << >> /\ Head(queue) = c

LifecycleCurrent(c) ==
  task[c].engine \notin disposed /\ task[c].token = lifecycle

(* What is left of a task once its batch has been dealt with. *)
Remains(c, step) ==
  [NoTask EXCEPT !.step = step, !.turn = task[c].turn, !.awaited = task[c].awaited]

EndTask(c, outcome) ==
  /\ task' = [task EXCEPT ![c] = IF @.awaited THEN Remains(c, outcome) ELSE NoTask]
  /\ queue' = Tail(queue)

(* The lifecycle checks: at the start and after every await up to the save.*)
FencePoints == {"queued", "client", "rpcDone", "seedDone"}

Fenced(c) ==
  /\ task[c].step \in FencePoints
  /\ task[c].step = "queued" => Runnable(c)
  /\ ~ LifecycleCurrent(c)
  /\ EndTask(c, "failed")
  /\ UNCHANGED <<storeVars, hostVars, engineVars, historyVars>>

(* The task reloads the checkpoint, which earlier tasks may have moved; it *)
(* completes if they covered its messages, and asks for a client otherwise.*)
StartIngestion(c) ==
  LET t == task[c].turn
      msgs == IF manifest.recovery THEN SelectMessages(t, TRUE) ELSE task[c].msgs
      new == Unmatched(manifest.turns, msgs)
  IN  /\ task[c].step = "queued" /\ Runnable(c) /\ LifecycleCurrent(c)
      /\ \/ /\ new = << >>
            /\ EndTask(c, "ok")
         \/ /\ new # << >>
            /\ task' = [task EXCEPT ![c].step = "client", ![c].msgs = << >>,
                          ![c].base = manifest, ![c].batch = Bounded(new)]
            /\ UNCHANGED queue
      /\ UNCHANGED <<storeVars, hostVars, engineVars, historyVars>>

ClientFails(c) ==
  /\ task[c].step = "client"
  /\ EndTask(c, "failed")
  /\ UNCHANGED <<storeVars, hostVars, engineVars, historyVars>>

SendBatch(c) ==
  /\ task[c].step = "client" /\ LifecycleCurrent(c)
  /\ task' = [task EXCEPT ![c].step = "rpc"]
  /\ UNCHANGED <<storeVars, hostVars, queue, engineVars, historyVars>>

(* The call fails or times out; the daemon may have served it, may serve   *)
(* it later, or never sees it.                                             *)
RpcFails(c) ==
  /\ task[c].step \in {"rpc", "seed", "rpcDone", "seedDone"}
  /\ EndTask(c, "failed")
  /\ \/ UNCHANGED late
     \/ /\ task[c].step \in {"rpc", "seed"} /\ Cardinality(late) < MaxLate
        /\ late' = late \cup {Request(c)}
  /\ UNCHANGED <<manifest, log, ever, hostVars, engineVars, historyVars>>

(* The daemon reported a gap: it has disproved the checkpoint.  The empty  *)
(* one is saved with recoveryPending before the transcript is sent again.  *)
\* mutation: the emptied checkpoint does not remember why
DisprovedForgotten == EmptyManifest

Disproved == [turns |-> << >>, recovery |-> TRUE]

RecoverGap(c) ==
  LET t == task[c].turn
      seed == SelectMessages(t, TRUE)
  IN  /\ task[c].step = "rpcDone" /\ LifecycleCurrent(c)
      /\ task[c].reply.kind = "gap"
      /\ manifest' = Disproved
      /\ task' = [task EXCEPT ![c].step = "seed", ![c].base = Disproved,
                              ![c].batch = seed, ![c].reply = NoReply]
      /\ covered' = {}
      /\ debt' = [debt EXCEPT ![t] = Range(seed)]
      /\ UNCHANGED <<log, ever, late, hostVars, queue, engineVars>>

Replied(c) ==
  /\ LifecycleCurrent(c)
  /\ \/ task[c].step = "rpcDone" /\ task[c].reply.kind # "gap"
     \/ task[c].step = "seedDone"

(* persistAcknowledgedBatch: the confirmed prefix is saved, and the turn   *)
(* fails, to be retried, unless the prefix is the whole batch.             *)
Persist(c) ==
  LET batch == task[c].batch
      n == AckCount(task[c].reply, Len(batch))
      whole == n = Len(batch)
  IN  /\ Replied(c) /\ n > 0
      /\ manifest' = Checkpointed(task[c].base, batch, n)
      /\ \/ /\ whole
            /\ task' = [task EXCEPT ![c] = Remains(c, "post")]
            /\ covered' = covered \cup {task[c].turn}
            /\ UNCHANGED queue
         \/ /\ ~ whole
            /\ EndTask(c, "failed")
            /\ UNCHANGED covered
      /\ debt' = [t \in Turns |-> debt[t] \ Range(SubSeq(batch, 1, n))]
      /\ UNCHANGED <<log, ever, late, hostVars, engineVars>>

(* Nothing is confirmed, or the save fails. *)
PersistFails(c) ==
  /\ task[c].step \in {"rpcDone", "seedDone"} /\ LifecycleCurrent(c)
  /\ EndTask(c, "failed")
  /\ UNCHANGED <<storeVars, hostVars, engineVars, historyVars>>

(* What follows the save is best effort: it never fails the turn. *)
PostIngest(c) ==
  /\ task[c].step = "post"
  /\ EndTask(c, "ok")
  /\ UNCHANGED <<storeVars, hostVars, engineVars, historyVars>>

-----------------------------------------------------------------------------
(* What happens around the calls.                                          *)

(* clearCompactedProjectionState: a reset, a session's end, or an assembly *)
(* that finds the projection's boundary gone drops the lifecycle token.    *)
ResetLifecycle ==
  /\ lifecycle' = lifecycle + 1
  /\ Fault
  /\ UNCHANGED <<storeVars, hostVars, task, queue, disposed, historyVars>>

(* dispose fences the engine's own ingestions. *)
DisposeEngine(e) ==
  /\ e \notin disposed
  /\ disposed' = disposed \cup {e}
  /\ Fault
  /\ UNCHANGED <<storeVars, hostVars, task, queue, lifecycle, historyVars>>

(* The process dies: the checkpoint and the daemon survive, and a request  *)
(* under way may still be served.                                          *)
Crash ==
  /\ Fault
  /\ late' \in {late} \cup
       {late \cup {Request(c)} : c \in {d \in Calls :
          task[d].step \in {"rpc", "seed"} /\ Cardinality(late) < MaxLate}}
  /\ call' = [c \in Calls |-> IdleCall]
  /\ task' = [c \in Calls |-> NoTask]
  /\ queue' = << >> /\ memo' = << >>
  /\ inFlight' = [t \in Turns |-> None]
  /\ disposed' = {}
  /\ UNCHANGED <<manifest, log, ever, begun, told, lifecycle, historyVars>>

TaskStep(c) ==
  \/ Fenced(c) \/ StartIngestion(c) \/ ClientFails(c) \/ SendBatch(c)
  \/ DaemonServes(c) \/ RpcFails(c)
  \/ RecoverGap(c) \/ Persist(c) \/ PersistFails(c) \/ PostIngest(c)

Next ==
  \/ \E c \in Calls, t \in Turns : CommitKnown(c, t) \/ CommitJoin(c, t)
  \/ \E c \in Calls, e \in Engines, t \in Turns :
       CommitLead(c, e, t) \/ AfterTurnOnly(c, e, t)
  \/ \E c \in Calls : Settle(c) \/ TaskStep(c)
  \/ \E r \in late : DaemonServesLate(r)
  \/ DaemonLosesChain \/ ResetLifecycle \/ Crash
  \/ \E e \in Engines : DisposeEngine(e)

(* Awaits return: the transport gives every RPC a deadline, promise        *)
(* callbacks run, and only the host and the faults may stop.               *)
Fairness == \A c \in Calls : WF_vars(TaskStep(c)) /\ WF_vars(Settle(c))

Spec == Init /\ [][Next]_vars /\ Fairness

-----------------------------------------------------------------------------
(* Properties.                                                             *)

TypeOK ==
  /\ manifest \in Manifests /\ log \in Seq(Msgs) /\ ever \subseteq Msgs
  /\ late \subseteq Requests
  /\ call \in [Calls -> CallRecords] /\ task \in [Calls -> Tasks]
  /\ queue \in Seq(Calls)
  /\ memo \in Seq(Turns) /\ Len(memo) <= MemoLimit
  /\ inFlight \in [Turns -> Calls \cup {None}]
  /\ lifecycle \in Nat /\ disposed \subseteq Engines
  /\ begun \in 0..NTurns /\ told \subseteq Turns /\ covered \subseteq Turns
  /\ debt \in [Turns -> SUBSET Msgs] /\ faults \in 0..MaxFaults

(* What the cap left of a transcript it leaves again, from any place on.   *)
CapIsStable ==
  \A t \in Turns :
    LET all == Bounded(Transcript[t])
    IN  \A k \in 1..Len(all) :
          Bounded(SubSeq(all, k, Len(all))) = SubSeq(all, k, Len(all))

(* No turn is larger than the cap, which starts with the newest messages.  *)
TurnsFit ==
  \A t \in Turns :
    LET own == Selected(t)
    IN  /\ MatchesTail(Bounded(Transcript[t]), own, Len(own))
        /\ \A k \in 1..Len(own) :
             Bounded(SubSeq(own, k, Len(own))) = SubSeq(own, k, Len(own))

(* Every turn the host was told is committed, or a duplicate of a commit,  *)
(* has the messages it needs stored by the daemon: no crash, lost or late  *)
(* reply, partial confirmation, gap recovery, reset or race of two calls   *)
(* makes commitTurn answer for content that never arrived.                 *)
CommittedMeansStored == \A t \in told : Need(t) \subseteq ever

(* The checkpoint is never ahead of the daemon: what it lets a later turn  *)
(* skip has been stored.                                                   *)
CheckpointNotAhead == Range(manifest.turns) \subseteq ever

(* A key in the memo stands for stored content, though the memo outlives   *)
(* the checkpoint it was derived from and is never revalidated.            *)
MemoMeansStored == \A t \in Range(memo) : Need(t) \subseteq ever

(* One ingestion per session runs at a time, whatever engines queued it:   *)
(* two would load one checkpoint and both ingest.                          *)
SerialIngestion ==
  \A c, d \in Calls : task[c].step \in Running /\ task[d].step \in Running => c = d

(* Of concurrent calls for one key one leads, it is the one in flight, and *)
(* nobody waits for a call that is no longer there to answer.              *)
OneLeaderPerKey ==
  \A c \in Calls :
    /\ call[c].pc = "lead" => inFlight[call[c].turn] = c
    /\ call[c].pc = "join" =>
         inFlight[call[c].turn] # None /\ call[inFlight[call[c].turn]].pc = "lead"

(* A commit that ends the recovery of a lost session does so with nothing  *)
(* of the recovery batch unconfirmed, over however many partial answers.   *)
RecoveryPaidBeforeCommit ==
  [][\A t \in Turns : t \in told' \ told => debt'[t] = {}]_vars

(* A replayed turn whose content the checkpoint has covered contributes no *)
(* new messages, even across a restart: no batch is sent for it.           *)
ReplayAddsNothing ==
  [][\A c \in Calls : SendBatch(c) => task[c].turn \notin covered]_vars

(* Why the safety invariants hold.  A running ingestion is at the head of  *)
(* the queue.                                                              *)
RunningIsHead ==
  \A c \in Calls : task[c].step \in Running => queue # << >> /\ Head(queue) = c

(* What an ingestion has in hand accounts for its turn: the checkpoint it  *)
(* builds on is stored, what it is about to send completes the turn, and   *)
(* what a reply confirms is stored.                                        *)
TaskAccounted(c) ==
  LET t == task[c].turn
      batch == task[c].batch
      reply == task[c].reply
  IN  /\ task[c].step = "queued" =>
           task[c].msgs \in {Selected(t), Bounded(Transcript[t])}
      /\ task[c].step \in {"client", "rpc", "rpcDone", "seed", "seedDone"} =>
           /\ Range(task[c].base.turns) \subseteq ever
           /\ Need(t) \subseteq Range(task[c].base.turns) \cup Range(batch)
      /\ task[c].step \in {"rpcDone", "seedDone"} =>
           /\ reply.kind = "ack" =>
                reply.n <= Len(batch) /\ Range(SubSeq(batch, 1, reply.n)) \subseteq ever
           /\ reply.kind = "legacy" => Range(batch) \subseteq ever
      /\ task[c].step \in {"post", "ok", "skipped"} => Need(t) \subseteq ever

(* The in-flight map and the leading calls are one and the same. *)
LeadersInFlight ==
  /\ \A t \in Turns : inFlight[t] # None =>
       call[inFlight[t]].pc = "lead" /\ call[inFlight[t]].turn = t
  /\ \A c \in Calls :
       /\ call[c].pc = "lead" =>
            /\ inFlight[call[c].turn] = c
            /\ task[c].turn = call[c].turn /\ task[c].awaited
       /\ call[c].pc = "join" => inFlight[call[c].turn] # None

(* The invariant that carries the others from one state to the next. *)
Inductive ==
  /\ TypeOK
  /\ RunningIsHead
  /\ CheckpointNotAhead
  /\ \A c \in Calls : TaskAccounted(c)
  /\ LeadersInFlight
  /\ CommittedMeansStored
  /\ Range(memo) \subseteq told

(* Every commit call is answered, and every queued ingestion settles. *)
EveryCommitAnswered ==
  \A c \in Calls : call[c].pc \in {"lead", "join"} ~> call[c].pc \in {"idle", "done"}

(* commitTurn implements its abstract promise. *)
AbstractCall(c) ==
  CASE call[c].pc = "idle" -> [pc |-> "idle"]
    [] call[c].pc = "done" -> [pc |-> "done", turn |-> call[c].turn, res |-> call[c].res]
    [] OTHER -> [pc |-> "pending", turn |-> call[c].turn]

Commit == INSTANCE TurnCommit WITH
  call <- [c \in Calls |-> AbstractCall(c)], stored <- ever, told <- told

ImplementsTurnCommit == Commit!Spec
=============================================================================
