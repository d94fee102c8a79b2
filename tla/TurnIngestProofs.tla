-------------------------- MODULE TurnIngestProofs --------------------------
(***************************************************************************)
(* Proofs about TurnIngest, for every number of calls, engines and turns,  *)
(* every transcript and every cap.                                         *)
(***************************************************************************)
EXTENDS TurnIngest, IngestBounds, SequenceTheorems, WellFoundedInduction, TLAPS

-----------------------------------------------------------------------------
(* Sequences.                                                              *)

(* A prefix or suffix of a sequence is one of its subsequences. *)
LEMMA SubSeqType ==
  ASSUME NEW S, NEW s \in Seq(S), NEW m \in Nat \ {0}, NEW n \in 0..Len(s)
  PROVE  /\ SubSeq(s, m, n) \in Seq(S)
         /\ Range(SubSeq(s, m, n)) \subseteq Range(s)
<1>1. \A i \in m..n : s[i] \in Range(s)
  BY LenProperties DEF Range
<1>2. SubSeq(s, m, n) \in Seq(Range(s))
  BY <1>1, SubSeqProperties
<1>3. Range(s) \subseteq S
  BY RangeOfSeq
<1> QED
  BY <1>2, <1>3, RangeOfSeq, SeqMonotonic

(* A prefix and what follows it hold all of a sequence. *)
LEMMA RangeSplit ==
  ASSUME NEW S, NEW s \in Seq(S), NEW n \in 0..Len(s)
  PROVE  Range(s) = Range(SubSeq(s, 1, n)) \cup Range(SubSeq(s, n + 1, Len(s)))
<1>1. Len(s) \in Nat
  BY LenProperties
<1>2. SubSeq(s, 1, n) \o SubSeq(s, n + 1, Len(s)) = SubSeq(s, 1, Len(s))
  <2>1. 1 \in 1..Len(s) + 1 /\ n \in 1 - 1..Len(s) /\ Len(s) \in n..Len(s)
    BY <1>1
  <2> QED
    BY <2>1, ConcatAdjacentSubSeq, Zenon
<1>3. SubSeq(s, 1, n) \in Seq(S) /\ SubSeq(s, n + 1, Len(s)) \in Seq(S)
  BY <1>1, SubSeqType
<1>4. SubSeq(s, 1, Len(s)) = s
  BY SubSeqFull, Zenon
<1>5. Range(SubSeq(s, 1, n) \o SubSeq(s, n + 1, Len(s)))
        = Range(SubSeq(s, 1, n)) \cup Range(SubSeq(s, n + 1, Len(s)))
  BY <1>3, RangeConcatenation, ZenonT(40)
<1> QED
  BY <1>2, <1>4, <1>5, Zenon

(* A nonempty set of naturals with an upper bound has a greatest element. *)
LEMMA GreatestNatural ==
  ASSUME NEW T \in SUBSET Nat, NEW b \in Nat, T # {}, \A n \in T : n <= b
  PROVE  \E m \in T : \A n \in T : n <= m
<1> DEFINE D == {b - n : n \in T}
<1>1. D \subseteq Nat /\ D # {}
  OBVIOUS
<1>2. PICK d \in D : \A e \in D : ~ (<<e, d>> \in OpToRel(<, Nat))
  BY <1>1, NatLessThanWellFounded, WFMin
<1>3. \A e \in D : ~ (e < d)
  BY <1>1, <1>2 DEF OpToRel
<1>4. PICK m \in T : d = b - m
  OBVIOUS
<1>5. \A n \in T : n <= m
  <2>1. \A n \in T : b - n \in D /\ n \in Nat
    OBVIOUS
  <2>2. \A n \in T : ~ (b - n < b - m)
    BY <1>3, <1>4, <2>1
  <2> QED
    BY <2>1, <2>2
<1> QED
  BY <1>5

-----------------------------------------------------------------------------
(* The overlap of a batch with the checkpoint.                             *)

(* findOverlapIndex is defined and is the longest match. *)
LEMMA OverlapIsMatch ==
  ASSUME NEW S, NEW turns \in Seq(S), NEW incoming \in Seq(S)
  PROVE  /\ Overlap(turns, incoming) \in 0..Len(incoming)
         /\ MatchesTail(turns, incoming, Overlap(turns, incoming))
         /\ \A k \in (Overlap(turns, incoming) + 1)..Len(incoming) :
              ~ MatchesTail(turns, incoming, k)
<1> DEFINE T == {n \in 0..Len(incoming) : MatchesTail(turns, incoming, n)}
<1>1. Len(incoming) \in Nat /\ Len(turns) \in Nat
  BY LenProperties
<1>2. 0 \in T
  BY <1>1 DEF MatchesTail
<1>3. PICK m \in T : \A n \in T : n <= m
  <2>1. T \in SUBSET Nat /\ T # {} /\ \A n \in T : n <= Len(incoming)
    BY <1>1, <1>2
  <2> HIDE DEF T
  <2> QED
    BY <1>1, <2>1, GreatestNatural, Zenon
<1>4. /\ m \in 0..Len(incoming)
      /\ MatchesTail(turns, incoming, m)
      /\ \A k \in (m + 1)..Len(incoming) : ~ MatchesTail(turns, incoming, k)
  BY <1>1, <1>3
<1> QED
  BY <1>4 DEF Overlap

(* What the overlap skips is in the checkpoint, and the rest is a suffix.  *)
LEMMA UnmatchedProperties ==
  ASSUME NEW S, NEW turns \in Seq(S), NEW incoming \in Seq(S)
  PROVE  /\ Unmatched(turns, incoming) \in Seq(S)
         /\ Range(incoming) \subseteq Range(turns) \cup Range(Unmatched(turns, incoming))
         /\ Unmatched(turns, incoming) = << >> =>
              Range(incoming) \subseteq Range(turns)
         /\ Unmatched(turns, incoming) # << >> =>
              \E k \in 1..Len(incoming) :
                Unmatched(turns, incoming) = SubSeq(incoming, k, Len(incoming))
<1> DEFINE n == Overlap(turns, incoming)
<1>1. /\ Len(incoming) \in Nat /\ Len(turns) \in Nat
      /\ n \in 0..Len(incoming) /\ MatchesTail(turns, incoming, n)
  BY OverlapIsMatch, LenProperties
<1> HIDE DEF n
<1>2. Unmatched(turns, incoming) = SubSeq(incoming, n + 1, Len(incoming))
  BY DEF Unmatched, n
<1>3. Unmatched(turns, incoming) \in Seq(S)
  BY <1>1, <1>2, SubSeqType
<1>4. Range(SubSeq(incoming, 1, n)) \subseteq Range(turns)
  <2>1. SubSeq(incoming, 1, n) \in Seq(S)
    BY <1>1, SubSeqType
  <2>2. \A i \in 1..n : incoming[i] \in S
    BY <1>1, LenProperties
  <2>3. /\ Len(SubSeq(incoming, 1, n)) = n
        /\ \A i \in 1..n : SubSeq(incoming, 1, n)[i] = incoming[i]
    BY <1>1, <2>2, SubSeqProperties
  <2>4. Range(SubSeq(incoming, 1, n)) = {incoming[i] : i \in 1..n}
    <3>1. Range(SubSeq(incoming, 1, n)) =
            {SubSeq(incoming, 1, n)[i] : i \in 1..Len(SubSeq(incoming, 1, n))}
      BY <2>1, RangeEquality, Zenon
    <3> QED
      BY <2>3, <3>1
  <2>5. \A i \in 1..n : /\ Len(turns) - n + i \in 1..Len(turns)
                         /\ turns[Len(turns) - n + i] = incoming[i]
    <3>1. /\ n <= Len(turns)
          /\ \A i \in 1..n : turns[Len(turns) - n + i] = incoming[i]
      BY <1>1 DEF MatchesTail
    <3>2. \A i \in 1..n : Len(turns) - n + i \in 1..Len(turns)
      BY <1>1, <3>1
    <3> QED
      BY <3>1, <3>2
  <2>6. Range(turns) = {turns[i] : i \in 1..Len(turns)}
    BY RangeEquality
  <2> QED
    BY <2>4, <2>5, <2>6
<1>5. Range(incoming) = Range(SubSeq(incoming, 1, n)) \cup Range(Unmatched(turns, incoming))
  BY <1>1, <1>2, RangeSplit
<1>6. Range(<< >>) = {}
  BY DEF Range
<1>7. Unmatched(turns, incoming) # << >> => n + 1 \in 1..Len(incoming)
  BY <1>1, <1>2, SubSeqEmpty
<1> QED
  BY <1>2, <1>3, <1>4, <1>5, <1>6, <1>7

-----------------------------------------------------------------------------
(* What a turn sends.                                                      *)

LEMMA SelectedType ==
  ASSUME NEW t \in Turns
  PROVE  /\ Transcript[t] \in Seq(Msgs) /\ Transcript[t] # << >>
         /\ Selected(t) \in Seq(Msgs) /\ Selected(t) # << >>
         /\ Range(Selected(t)) \subseteq Range(Transcript[t])
<1> DEFINE all == Transcript[t]
           first == IF PrePrompt[t] < Len(all) THEN PrePrompt[t] + 1 ELSE Len(all)
<1>1. all \in Seq(Msgs) /\ all # << >> /\ PrePrompt[t] \in Nat
  BY TurnsAssumption
<1>2. Len(all) \in Nat \ {0}
  BY <1>1, EmptySeq
<1>3. first \in 1..Len(all)
  BY <1>1, <1>2
<1>4. Selected(t) = SubSeq(all, first, Len(all))
  BY DEF Selected
<1> HIDE DEF all, first
<1>5. Selected(t) \in Seq(Msgs) /\ Range(Selected(t)) \subseteq Range(all)
  BY <1>1, <1>2, <1>3, <1>4, SubSeqType
<1>6. \A i \in first..Len(all) : all[i] \in Msgs
  BY <1>1, <1>2, <1>3, LenProperties
<1>7. Len(Selected(t)) = Len(all) - first + 1
  BY <1>2, <1>3, <1>4, <1>6, SubSeqProperties
<1>8. Selected(t) # << >>
  BY <1>2, <1>3, <1>7
<1> QED
  BY <1>1, <1>5, <1>8 DEF all

(* The cap on a suffix of a batch. *)
LEMMA BoundedSuffix ==
  ASSUME NEW t \in Turns, NEW b \in Batches(t), b \in Seq(Msgs),
         NEW k \in 1..Len(b)
  PROVE  LET s == SubSeq(b, k, Len(b))
         IN  /\ Bounded(s) \in Seq(Msgs) /\ Bounded(s) # << >>
             /\ Range(Bounded(s)) \subseteq Range(b)
             /\ Range(s) \cap Need(t) \subseteq Range(Bounded(s))
<1> DEFINE s == SubSeq(b, k, Len(b))
<1>1. /\ Bounded(s) \in Seq(Range(s)) /\ Bounded(s) # << >>
      /\ Range(s) \cap Need(t) \subseteq Range(Bounded(s))
  BY BoundedAssumption
<1>2. Range(s) \subseteq Range(b) /\ Range(b) \subseteq Msgs
  BY SubSeqType, LenProperties, RangeOfSeq
<1> HIDE DEF s
<1>3. Bounded(s) \in Seq(Msgs) /\ Range(Bounded(s)) \subseteq Range(s)
  BY <1>1, <1>2, SeqMonotonic, RangeOfSeq
<1> QED
  BY <1>1, <1>2, <1>3 DEF s

(* Every batch has all its turn needs. *)
LEMMA BatchType ==
  ASSUME NEW t \in Turns, NEW b \in Batches(t)
  PROVE  b \in Seq(Msgs) /\ b # << >> /\ Need(t) \subseteq Range(b)
<1> DEFINE all == Transcript[t]
<1>1. /\ all \in Seq(Msgs) /\ all # << >> /\ all \in Batches(t)
      /\ Selected(t) \in Seq(Msgs) /\ Selected(t) # << >> /\ Selected(t) \in Batches(t)
      /\ Range(Selected(t)) \subseteq Range(all)
  BY SelectedType DEF Batches
<1>2. \A d \in {all, Selected(t)} : SubSeq(d, 1, Len(d)) = d /\ 1 \in 1..Len(d)
  BY <1>1, SubSeqFull, EmptySeq
<1>3. /\ Range(Bounded(Selected(t))) \subseteq Range(Selected(t))
      /\ Bounded(all) \in Seq(Msgs) /\ Bounded(all) # << >>
      /\ Range(all) \cap Need(t) \subseteq Range(Bounded(all))
  BY <1>1, <1>2, BoundedSuffix
<1>4. Need(t) \subseteq Range(Selected(t))
  BY <1>3 DEF Need
<1> QED
  BY <1>1, <1>3, <1>4 DEF Batches

LEMMA SelectMessagesType ==
  ASSUME NEW t \in Turns, NEW recovery \in BOOLEAN
  PROVE  SelectMessages(t, recovery) \in Batches(t)
BY DEF SelectMessages, Batches

(* A turn's needs are in the checkpoint or in what is sent on top of it.   *)
LEMMA BatchAccounts ==
  ASSUME NEW t \in Turns, NEW turns \in Seq(Msgs), NEW b \in Batches(t)
  PROVE  LET new == Unmatched(turns, b)
         IN  /\ new = << >> => Need(t) \subseteq Range(turns)
             /\ new # << >> =>
                  /\ Bounded(new) \in Seq(Msgs)
                  /\ Need(t) \subseteq Range(turns) \cup Range(Bounded(new))
<1> DEFINE new == Unmatched(turns, b)
<1>1. b \in Seq(Msgs) /\ Need(t) \subseteq Range(b)
  BY BatchType
<1>2. /\ new = << >> => Range(b) \subseteq Range(turns)
      /\ Range(b) \subseteq Range(turns) \cup Range(new)
      /\ new # << >> => \E k \in 1..Len(b) : new = SubSeq(b, k, Len(b))
  BY <1>1, UnmatchedProperties
<1>3. new # << >> => /\ Bounded(new) \in Seq(Msgs)
                     /\ Range(new) \cap Need(t) \subseteq Range(Bounded(new))
  BY <1>1, <1>2, BoundedSuffix
<1> QED
  BY <1>1, <1>2, <1>3

-----------------------------------------------------------------------------
(* Types.                                                                  *)

LEMMA TaskType ==
  ASSUME TypeOK, NEW c \in Calls
  PROVE  /\ task[c] \in Tasks
         /\ task[c].step \in Steps /\ task[c].turn \in Turns
         /\ task[c].awaited \in BOOLEAN /\ task[c].engine \in Engines \cup {None}
         /\ task[c].token \in Nat /\ task[c].msgs \in Seq(Msgs)
         /\ task[c].base \in Manifests
         /\ task[c].base.turns \in Seq(Msgs) /\ task[c].base.recovery \in BOOLEAN
         /\ task[c].batch \in Seq(Msgs)
         /\ task[c].reply \in Replies /\ task[c].reply.n \in Nat
BY DEF TypeOK, Tasks, Manifests, Replies

LEMMA EmptyType == << >> \in Seq(Msgs) /\ 1 \in Turns
BY TurnsAssumption, EmptySeq DEF Turns

LEMMA NoTaskType == NoTask \in Tasks
BY EmptyType DEF NoTask, Tasks, Steps, EmptyManifest, Manifests, NoReply, Replies

LEMMA RemainsType ==
  ASSUME TypeOK, NEW c \in Calls, NEW step \in Steps
  PROVE  /\ Remains(c, step) \in Tasks
         /\ Remains(c, step).step = step
         /\ Remains(c, step).turn = task[c].turn
         /\ Remains(c, step).awaited = task[c].awaited
BY TaskType, NoTaskType DEF Remains, Tasks, NoTask

-----------------------------------------------------------------------------
(* Parts of a step.                                                        *)

(* A task that a step leaves alone stays accounted for: ever only grows.   *)
LEMMA AccountedMonotone ==
  ASSUME NEW c \in Calls, TaskAccounted(c), task'[c] = task[c], ever \subseteq ever'
  PROVE  TaskAccounted(c)'
BY DEF TaskAccounted

(* The leaders stay in flight while their tasks keep their turns. *)
LEMMA LeadersKept ==
  ASSUME LeadersInFlight, UNCHANGED <<call, inFlight>>,
         \A c \in Calls : /\ task'[c].turn = task[c].turn
                          /\ task'[c].awaited = task[c].awaited
  PROVE  LeadersInFlight'
BY DEF LeadersInFlight

(* A task at rest has nothing to account for but its outcome. *)
LEMMA EndTaskStep ==
  ASSUME Inductive, NEW c \in Calls, NEW outcome \in Settled,
         EndTask(c, outcome), queue # << >>, Head(queue) = c,
         outcome = "failed" \/ Need(task[c].turn) \subseteq ever,
         UNCHANGED <<ever, call, inFlight>>
  PROVE  /\ task' \in [Calls -> Tasks] /\ queue' \in Seq(Calls)
         /\ RunningIsHead'
         /\ \A d \in Calls : TaskAccounted(d)'
         /\ LeadersInFlight'
<1> USE DEF Inductive
<1>1. TypeOK /\ outcome \in Steps
  BY DEF Settled, Steps
<1>2. /\ task' \in [Calls -> Tasks]
      /\ \A d \in Calls \ {c} : task'[d] = task[d]
      /\ task'[c] = IF task[c].awaited THEN Remains(c, outcome) ELSE NoTask
  BY <1>1, RemainsType, NoTaskType DEF EndTask, TypeOK
<1>3. queue' \in Seq(Calls)
  BY <1>1, HeadTailProperties DEF EndTask, TypeOK
<1>4. task'[c].step \in {outcome, "none"}
  BY <1>1, <1>2, RemainsType DEF NoTask
<1>5. RunningIsHead'
  <2>1. \A d \in Calls : task[d].step \in Running => d = c
    BY DEF RunningIsHead
  <2> QED
    BY <1>2, <1>4, <2>1 DEF RunningIsHead, Running, Settled
<1>6. ASSUME NEW d \in Calls PROVE TaskAccounted(d)'
  <2>1. CASE d # c
    BY <1>2, <2>1, AccountedMonotone
  <2>2. CASE d = c /\ task[c].awaited
    <3>1. task'[c].step = outcome /\ task'[c].turn = task[c].turn
      BY <1>1, <1>2, <2>2, RemainsType
    <3> QED
      BY <2>2, <3>1 DEF TaskAccounted, Settled
  <2>3. CASE d = c /\ ~ task[c].awaited
    BY <1>2, <2>3 DEF TaskAccounted, NoTask
  <2> QED
    BY <2>1, <2>2, <2>3
<1>7. LeadersInFlight'
  <2>1. call[c].pc = "lead" => task'[c].turn = task[c].turn /\ task'[c].awaited
    BY <1>1, <1>2, RemainsType DEF LeadersInFlight
  <2> QED
    BY <1>2, <2>1 DEF LeadersInFlight
<1> QED
  BY <1>2, <1>3, <1>5, <1>6, <1>7

-----------------------------------------------------------------------------
(* Steps of an ingestion.                                                  *)

(* The steps that only end it. *)
LEMMA EndingSteps ==
  ASSUME Inductive, NEW c \in Calls,
         Fenced(c) \/ ClientFails(c) \/ RpcFails(c) \/ PersistFails(c) \/ PostIngest(c)
  PROVE  Inductive'
<1> PICK outcome \in Settled :
      /\ EndTask(c, outcome)
      /\ outcome = "failed" \/ Need(task[c].turn) \subseteq ever
  <2>1. CASE PostIngest(c)
    BY <2>1 DEF PostIngest, Inductive, TaskAccounted, Settled
  <2>2. CASE ~ PostIngest(c)
    BY <2>2 DEF Fenced, ClientFails, RpcFails, PersistFails, Settled
  <2> QED
    BY <2>1, <2>2
<1>1. queue # << >> /\ Head(queue) = c
  <2>1. task[c].step \in Running \/ Runnable(c)
    BY DEF Fenced, FencePoints, ClientFails, RpcFails, PersistFails, PostIngest, Running
  <2> QED
    BY <2>1 DEF Runnable, Inductive, RunningIsHead
<1>2. /\ UNCHANGED <<manifest, log, ever, hostVars, engineVars, historyVars>>
      /\ late' \subseteq late \cup {Request(c)}
  BY DEF Fenced, ClientFails, RpcFails, PersistFails, PostIngest, storeVars
<1>3. UNCHANGED <<ever, call, inFlight>>
  BY <1>2 DEF hostVars
<1>4. /\ task' \in [Calls -> Tasks] /\ queue' \in Seq(Calls)
      /\ RunningIsHead' /\ (\A d \in Calls : TaskAccounted(d)') /\ LeadersInFlight'
  BY <1>1, <1>3, EndTaskStep
<1>5. Request(c) \in Requests
  BY TaskType DEF Inductive, Request, Requests
<1>6. TypeOK'
  BY <1>2, <1>4, <1>5 DEF Inductive, TypeOK, hostVars, engineVars, historyVars
<1> QED
  BY <1>2, <1>4, <1>6
     DEF Inductive, CheckpointNotAhead, CommittedMeansStored, hostVars

(* The checkpoint is reloaded, and a batch is made of what it misses. *)
LEMMA StartStep ==
  ASSUME Inductive, NEW c \in Calls, StartIngestion(c)
  PROVE  Inductive'
<1> DEFINE t == task[c].turn
           msgs == IF manifest.recovery THEN SelectMessages(t, TRUE) ELSE task[c].msgs
           new == Unmatched(manifest.turns, msgs)
<1>1. /\ TypeOK /\ t \in Turns /\ manifest \in Manifests
      /\ manifest.turns \in Seq(Msgs) /\ manifest.recovery \in BOOLEAN
  BY TaskType DEF Inductive, TypeOK, Manifests
<1>2. /\ task[c].step = "queued" /\ queue # << >> /\ Head(queue) = c
      /\ UNCHANGED <<storeVars, hostVars, engineVars, historyVars>>
  BY DEF StartIngestion, Runnable
<1>3. msgs \in Batches(t)
  BY <1>1, <1>2, SelectMessagesType DEF Inductive, TaskAccounted, Batches
<1>4. Range(manifest.turns) \subseteq ever
  BY DEF Inductive, CheckpointNotAhead
<1>5. CASE new = << >> /\ EndTask(c, "ok")
  <2>1. Need(t) \subseteq ever
    BY <1>1, <1>3, <1>4, <1>5, BatchAccounts
  <2>2. UNCHANGED <<ever, call, inFlight>>
    BY <1>2 DEF storeVars, hostVars
  <2>3. /\ task' \in [Calls -> Tasks] /\ queue' \in Seq(Calls)
        /\ RunningIsHead' /\ (\A d \in Calls : TaskAccounted(d)') /\ LeadersInFlight'
    BY <1>2, <1>5, <2>1, <2>2, EndTaskStep DEF Settled
  <2>4. TypeOK'
    BY <1>1, <1>2, <2>3 DEF TypeOK, storeVars, hostVars, engineVars, historyVars
  <2> QED
    BY <1>2, <2>3, <2>4
       DEF Inductive, CheckpointNotAhead, CommittedMeansStored, storeVars, hostVars
<1>6. CASE /\ new # << >>
           /\ task' = [task EXCEPT ![c].step = "client", ![c].msgs = << >>,
                         ![c].base = manifest, ![c].batch = Bounded(new)]
           /\ UNCHANGED queue
  <2>1. /\ Bounded(new) \in Seq(Msgs)
        /\ Need(t) \subseteq Range(manifest.turns) \cup Range(Bounded(new))
    BY <1>1, <1>3, <1>6, BatchAccounts
  <2> HIDE DEF new
  <2>2. /\ task[c] \in Tasks /\ task \in [Calls -> Tasks] /\ << >> \in Seq(Msgs)
    BY <1>1, EmptyType DEF TypeOK
  <2>3. /\ \A d \in Calls \ {c} : task'[d] = task[d]
        /\ task'[c] = [task[c] EXCEPT !.step = "client", !.msgs = << >>,
                         !.base = manifest, !.batch = Bounded(new)]
    BY <1>6, <2>2
  <2>4. /\ task'[c].step = "client" /\ task'[c].turn = t
        /\ task'[c].awaited = task[c].awaited
        /\ task'[c].base = manifest /\ task'[c].batch = Bounded(new)
    BY <2>2, <2>3 DEF Tasks
  <2>5. task' \in [Calls -> Tasks]
    <3>1. task'[c] \in Tasks
      BY <1>1, <2>1, <2>2, <2>3 DEF Tasks, Steps
    <3> QED
      BY <1>6, <2>2, <2>3, <3>1
  <2>6. TypeOK'
    BY <1>1, <1>2, <1>6, <2>5 DEF TypeOK, storeVars, hostVars, engineVars, historyVars
  <2>7. RunningIsHead'
    BY <1>2, <1>6, <2>3 DEF Inductive, RunningIsHead
  <2>8. ASSUME NEW d \in Calls PROVE TaskAccounted(d)'
    <3>1. CASE d # c
      BY <1>2, <2>3, <3>1, AccountedMonotone DEF Inductive, storeVars
    <3>2. CASE d = c
      BY <1>2, <1>4, <2>1, <2>4, <3>2 DEF TaskAccounted, storeVars
    <3> QED
      BY <3>1, <3>2
  <2>9. LeadersInFlight'
    BY <1>2, <2>3, <2>4, LeadersKept DEF Inductive, hostVars
  <2> QED
    BY <1>2, <2>6, <2>7, <2>8, <2>9
       DEF Inductive, CheckpointNotAhead, CommittedMeansStored, storeVars, hostVars
<1> QED
  BY <1>5, <1>6 DEF StartIngestion

LEMMA SendStep ==
  ASSUME Inductive, NEW c \in Calls, SendBatch(c)
  PROVE  Inductive'
<1>1. /\ task[c].step = "client" /\ task' = [task EXCEPT ![c].step = "rpc"]
      /\ UNCHANGED <<storeVars, hostVars, queue, engineVars, historyVars>>
  BY DEF SendBatch
<1>2. task[c] \in Tasks /\ task \in [Calls -> Tasks]
  BY DEF Inductive, TypeOK
<1>3. /\ \A d \in Calls \ {c} : task'[d] = task[d]
      /\ task'[c] = [task[c] EXCEPT !.step = "rpc"]
  BY <1>1, <1>2
<1>4. /\ task'[c].step = "rpc" /\ task'[c].turn = task[c].turn
      /\ task'[c].awaited = task[c].awaited
      /\ task'[c].base = task[c].base /\ task'[c].batch = task[c].batch
  BY <1>2, <1>3 DEF Tasks
<1>5. task' \in [Calls -> Tasks]
  <2>1. task'[c] \in Tasks
    BY <1>2, <1>3 DEF Tasks, Steps
  <2> QED
    BY <1>1, <1>2, <1>3, <2>1
<1>6. TypeOK'
  BY <1>1, <1>5 DEF Inductive, TypeOK, storeVars, hostVars, engineVars, historyVars
<1>7. RunningIsHead'
  BY <1>1, <1>3, <1>4 DEF Inductive, RunningIsHead, Running
<1>8. ASSUME NEW d \in Calls PROVE TaskAccounted(d)'
  <2>1. CASE d # c
    BY <1>1, <1>3, <2>1, AccountedMonotone DEF Inductive, storeVars
  <2>2. CASE d = c
    BY <1>1, <1>4, <2>2 DEF Inductive, TaskAccounted, storeVars
  <2> QED
    BY <2>1, <2>2
<1>9. LeadersInFlight'
  BY <1>1, <1>3, <1>4, LeadersKept DEF Inductive, hostVars
<1> QED
  BY <1>1, <1>6, <1>7, <1>8, <1>9
     DEF Inductive, CheckpointNotAhead, CommittedMeansStored, storeVars, hostVars

(* The daemon's store only grows, and by what it confirms. *)
LEMMA StoresType ==
  ASSUME TypeOK, NEW r \in Requests, NEW n \in 0..Len(r.batch), DaemonStores(r, n)
  PROVE  /\ log' \in Seq(Msgs) /\ ever' \subseteq Msgs /\ ever \subseteq ever'
         /\ Range(SubSeq(r.batch, 1, n)) \subseteq ever'
<1>1. r.base \in Seq(Msgs) /\ r.batch \in Seq(Msgs) /\ log \in Seq(Msgs) /\ ever \subseteq Msgs
  BY DEF Requests, TypeOK
<1>2. SubSeq(r.batch, 1, n) \in Seq(Msgs) /\ Range(SubSeq(r.batch, 1, n)) \subseteq Msgs
  BY <1>1, SubSeqType, RangeOfSeq
<1>3. r.base \o SubSeq(r.batch, 1, n) \in Seq(Msgs)
  BY <1>1, <1>2, ConcatProperties
<1> QED
  BY <1>1, <1>2, <1>3 DEF DaemonStores

LEMMA ServesStep ==
  ASSUME Inductive, NEW c \in Calls, DaemonServes(c)
  PROVE  Inductive'
<1> DEFINE r == Request(c)
           batch == task[c].batch
<1>1. /\ TypeOK /\ task[c].step \in {"rpc", "seed"}
      /\ UNCHANGED <<manifest, late, hostVars, queue, engineVars, historyVars>>
  BY DEF DaemonServes, Inductive
<1>2. /\ task[c] \in Tasks /\ task \in [Calls -> Tasks] /\ batch \in Seq(Msgs)
      /\ r \in Requests /\ r.batch = batch /\ Len(batch) \in Nat
  BY <1>1, TaskType, LenProperties DEF Request, Requests, TypeOK
<1>3. SubSeq(batch, 1, Len(batch)) = batch
  BY <1>2, SubSeqFull
<1>4. PICK kind \in {"ack", "legacy", "gap", "rejected", "invalid"}, n \in 0..Len(batch) :
        /\ Reply(c, kind, n)
        /\ log' \in Seq(Msgs) /\ ever' \subseteq Msgs /\ ever \subseteq ever'
        /\ kind = "ack" => Range(SubSeq(batch, 1, n)) \subseteq ever'
        /\ kind = "legacy" => Range(batch) \subseteq ever'
  <2>1. CASE \E n \in 0..Len(batch) : DaemonStores(r, n) /\ Reply(c, "ack", n)
    BY <1>1, <1>2, <2>1, StoresType
  <2>2. CASE (Reply(c, "gap", 0) \/ Reply(c, "rejected", 0)) /\ UNCHANGED <<log, ever>>
    <3>1. /\ 0 \in 0..Len(batch) /\ \E kind \in {"gap", "rejected"} : Reply(c, kind, 0)
          /\ log' \in Seq(Msgs) /\ ever' \subseteq Msgs /\ ever \subseteq ever'
      BY <1>1, <1>2, <2>2 DEF TypeOK
    <3>2. PICK kind \in {"gap", "rejected"} : Reply(c, kind, 0)
      BY <3>1
    <3>3. /\ kind \in {"ack", "legacy", "gap", "rejected", "invalid"}
          /\ kind # "ack" /\ kind # "legacy"
      OBVIOUS
    <3> QED
      BY <3>1, <3>2, <3>3, Zenon
  <2>3. CASE DaemonStores(r, Len(batch)) /\ (Reply(c, "invalid", 0) \/ Reply(c, "legacy", 0))
    <3>1. /\ Len(batch) \in 0..Len(batch) /\ DaemonStores(r, Len(r.batch))
          /\ Len(r.batch) \in 0..Len(r.batch)
      BY <1>2, <2>3
    <3>2. /\ log' \in Seq(Msgs) /\ ever' \subseteq Msgs /\ ever \subseteq ever'
          /\ Range(batch) \subseteq ever'
      BY <1>1, <1>2, <1>3, <3>1, StoresType
    <3> QED
      BY <1>2, <1>3, <2>3, <3>1, <3>2
  <2> QED
    BY <1>2, <2>1, <2>2, <2>3 DEF DaemonServes
<1> DEFINE reply == [kind |-> kind, n |-> n]
           step == IF task[c].step = "rpc" THEN "rpcDone" ELSE "seedDone"
<1>5. /\ \A d \in Calls \ {c} : task'[d] = task[d]
      /\ task'[c] = [task[c] EXCEPT !.step = step, !.reply = reply]
      /\ reply \in Replies /\ step \in {"rpcDone", "seedDone"}
  BY <1>2, <1>4 DEF Reply, Replies
<1>6. /\ task'[c].step = step /\ task'[c].turn = task[c].turn
      /\ task'[c].awaited = task[c].awaited /\ task'[c].reply = reply
      /\ task'[c].base = task[c].base /\ task'[c].batch = batch
  BY <1>2, <1>5 DEF Tasks
<1>7. task' \in [Calls -> Tasks]
  <2>1. task'[c] \in Tasks
    BY <1>2, <1>5 DEF Tasks, Steps
  <2> QED
    BY <1>2, <1>4, <1>5, <2>1 DEF Reply
<1>8. TypeOK'
  BY <1>1, <1>4, <1>7 DEF TypeOK, hostVars, engineVars, historyVars
<1>9. RunningIsHead'
  BY <1>1, <1>5, <1>6 DEF Inductive, RunningIsHead, Running
<1>10. ASSUME NEW d \in Calls PROVE TaskAccounted(d)'
  <2>1. CASE d # c
    BY <1>4, <1>5, <2>1, AccountedMonotone DEF Inductive
  <2>2. CASE d = c
    <3>1. /\ Range(task[c].base.turns) \subseteq ever'
          /\ Need(task[c].turn) \subseteq Range(task[c].base.turns) \cup Range(batch)
      BY <1>1, <1>4 DEF Inductive, TaskAccounted
    <3>2. /\ task'[c].reply.kind = kind /\ task'[c].reply.n = n
          /\ task'[c].step \in {"rpcDone", "seedDone"}
      BY <1>5, <1>6
    <3>3. /\ kind = "ack" => n <= Len(batch) /\ Range(SubSeq(batch, 1, n)) \subseteq ever'
          /\ kind = "legacy" => Range(batch) \subseteq ever'
      BY <1>2, <1>4
    <3> QED
      BY <1>6, <2>2, <3>1, <3>2, <3>3 DEF TaskAccounted
  <2> QED
    BY <2>1, <2>2
<1>11. LeadersInFlight'
  BY <1>1, <1>5, <1>6, LeadersKept DEF Inductive, hostVars
<1> QED
  BY <1>1, <1>4, <1>8, <1>9, <1>10, <1>11
     DEF Inductive, CheckpointNotAhead, CommittedMeansStored, hostVars

(* The checkpoint is emptied before the transcript is sent again. *)
LEMMA RecoverStep ==
  ASSUME Inductive, NEW c \in Calls, RecoverGap(c)
  PROVE  Inductive'
<1> DEFINE t == task[c].turn
           seed == SelectMessages(t, TRUE)
<1>1. /\ task[c].step = "rpcDone" /\ manifest' = Disproved
      /\ task' = [task EXCEPT ![c].step = "seed", ![c].base = Disproved,
                              ![c].batch = seed, ![c].reply = NoReply]
      /\ covered' = {} /\ debt' = [debt EXCEPT ![t] = Range(seed)]
      /\ UNCHANGED <<log, ever, late, hostVars, queue, engineVars>>
  BY DEF RecoverGap
<1>2. TypeOK /\ t \in Turns /\ task[c] \in Tasks /\ task \in [Calls -> Tasks]
  BY TaskType DEF Inductive, TypeOK
<1>3. seed \in Seq(Msgs) /\ Need(t) \subseteq Range(seed) /\ Range(seed) \subseteq Msgs
  <2>1. seed \in Batches(t)
    BY <1>2, SelectMessagesType
  <2>2. seed \in Seq(Msgs) /\ Need(t) \subseteq Range(seed)
    BY <1>2, <2>1, BatchType
  <2> QED
    BY <2>2, RangeOfSeq
<1> HIDE DEF seed
<1>4. /\ Disproved \in Manifests /\ NoReply \in Replies
      /\ Disproved.turns = << >> /\ Range(<< >>) = {}
  BY EmptyType DEF Disproved, Manifests, NoReply, Replies, Range
<1>5. /\ \A d \in Calls \ {c} : task'[d] = task[d]
      /\ task'[c] = [task[c] EXCEPT !.step = "seed", !.base = Disproved,
                                      !.batch = seed, !.reply = NoReply]
  BY <1>1, <1>2
<1>6. /\ task'[c].step = "seed" /\ task'[c].turn = t
      /\ task'[c].awaited = task[c].awaited
      /\ task'[c].base = Disproved /\ task'[c].batch = seed
  BY <1>2, <1>5 DEF Tasks
<1>7. task' \in [Calls -> Tasks]
  <2>1. task'[c] \in Tasks
    BY <1>2, <1>3, <1>4, <1>5, ZenonT(40) DEF Tasks, Steps
  <2> QED
    BY <1>1, <1>2, <1>5, <2>1
<1>8. TypeOK'
  BY <1>1, <1>2, <1>3, <1>4, <1>7 DEF TypeOK, hostVars, engineVars
<1>9. RunningIsHead'
  BY <1>1, <1>5, <1>6 DEF Inductive, RunningIsHead, Running
<1>10. CheckpointNotAhead'
  BY <1>1, <1>4 DEF CheckpointNotAhead
<1>11. ASSUME NEW d \in Calls PROVE TaskAccounted(d)'
  <2>1. CASE d # c
    BY <1>1, <1>5, <2>1, AccountedMonotone DEF Inductive
  <2>2. CASE d = c
    BY <1>3, <1>4, <1>6, <2>2 DEF TaskAccounted
  <2> QED
    BY <2>1, <2>2
<1>12. LeadersInFlight'
  BY <1>1, <1>5, <1>6, LeadersKept DEF Inductive, hostVars
<1> QED
  BY <1>1, <1>8, <1>9, <1>10, <1>11, <1>12
     DEF Inductive, CommittedMeansStored, hostVars

(* What a reply confirms is a prefix of the batch, and stored. *)
LEMMA ConfirmedPrefix ==
  ASSUME Inductive, NEW c \in Calls, Persist(c)
  PROVE  LET batch == task[c].batch
             n == AckCount(task[c].reply, Len(batch))
         IN  n \in 1..Len(batch) /\ Range(SubSeq(batch, 1, n)) \subseteq ever
<1> DEFINE batch == task[c].batch
           n == AckCount(task[c].reply, Len(batch))
           prefix == SubSeq(batch, 1, n)
<1>1. task[c].step \in {"rpcDone", "seedDone"} /\ n > 0
  BY DEF Persist, Replied
<1>2. batch \in Seq(Msgs) /\ Len(batch) \in Nat /\ task[c].reply.n \in Nat
  BY TaskType, LenProperties DEF Inductive
<1>3. SubSeq(batch, 1, Len(batch)) = batch
  BY <1>2, SubSeqFull
<1>4. /\ task[c].reply.kind = "ack" =>
           /\ task[c].reply.n <= Len(batch)
           /\ Range(SubSeq(batch, 1, task[c].reply.n)) \subseteq ever
      /\ task[c].reply.kind = "legacy" => Range(batch) \subseteq ever
  BY <1>1 DEF Inductive, TaskAccounted
<1>5. n = CASE task[c].reply.kind = "ack" -> task[c].reply.n
            [] task[c].reply.kind = "legacy" -> Len(batch)
            [] OTHER -> 0
  BY DEF AckCount
<1>6. CASE task[c].reply.kind = "ack"
  <2>1. n = task[c].reply.n
    BY <1>5, <1>6
  <2> QED
    BY <1>1, <1>2, <1>4, <1>6, <2>1
<1>7. CASE task[c].reply.kind = "legacy"
  <2>1. n = Len(batch)
    BY <1>5, <1>7
  <2>2. Range(prefix) = Range(batch)
    BY <1>3, <2>1
  <2> QED
    BY <1>1, <1>2, <1>4, <1>7, <2>1, <2>2
<1>8. CASE task[c].reply.kind \notin {"ack", "legacy"}
  BY <1>1, <1>5, <1>8
<1> QED
  BY <1>6, <1>7, <1>8

(* The confirmed prefix is saved. *)
LEMMA PersistStep ==
  ASSUME Inductive, NEW c \in Calls, Persist(c)
  PROVE  Inductive'
<1> DEFINE t == task[c].turn
           base == task[c].base
           batch == task[c].batch
           n == AckCount(task[c].reply, Len(batch))
           prefix == SubSeq(batch, 1, n)
<1>1. /\ task[c].step \in {"rpcDone", "seedDone"} /\ n > 0
      /\ manifest' = Checkpointed(base, batch, n)
      /\ \/ /\ n = Len(batch)
            /\ task' = [task EXCEPT ![c] = Remains(c, "post")]
            /\ covered' = covered \cup {t}
            /\ UNCHANGED queue
         \/ n # Len(batch) /\ EndTask(c, "failed") /\ UNCHANGED covered
      /\ debt' = [u \in Turns |-> debt[u] \ Range(prefix)]
      /\ UNCHANGED <<log, ever, late, hostVars, engineVars>>
  BY DEF Persist, Replied
<1>2. /\ TypeOK /\ t \in Turns /\ base \in Manifests /\ base.turns \in Seq(Msgs)
      /\ base.recovery \in BOOLEAN /\ batch \in Seq(Msgs) /\ Len(batch) \in Nat
      /\ task[c].reply.n \in Nat
  BY TaskType, LenProperties DEF Inductive
<1>3. /\ Range(base.turns) \subseteq ever
      /\ Need(t) \subseteq Range(base.turns) \cup Range(batch)
      /\ queue # << >> /\ Head(queue) = c
  BY <1>1 DEF Inductive, TaskAccounted, RunningIsHead, Running
<1>4. SubSeq(batch, 1, Len(batch)) = batch
  BY <1>2, SubSeqFull
<1>5. n \in 1..Len(batch) /\ Range(prefix) \subseteq ever
  BY ConfirmedPrefix
<1> HIDE DEF n
<1>6. prefix \in Seq(Msgs)
  BY <1>2, <1>5, SubSeqType
<1>7. /\ base.turns \o prefix \in Seq(Msgs)
      /\ Range(base.turns \o prefix) = Range(base.turns) \cup Range(prefix)
  <2> DEFINE turns == base.turns
  <2>1. turns \in Seq(Msgs) /\ prefix \in Seq(Msgs)
    BY <1>2, <1>6
  <2> HIDE DEF turns, prefix
  <2>2. Range(turns \o prefix) = Range(turns) \cup Range(prefix)
    BY <2>1, RangeConcatenation, ZenonT(40)
  <2>3. turns \o prefix \in Seq(Msgs)
    BY <2>1, ConcatProperties, Zenon
  <2> QED
    BY <2>2, <2>3 DEF turns, prefix
<1>8. manifest' \in Manifests /\ Range(manifest'.turns) \subseteq ever
  <2>1. StillRecovering(base, n, Len(batch)) \in BOOLEAN
    BY DEF StillRecovering
  <2> QED
    BY <1>1, <1>3, <1>5, <1>7, <2>1 DEF Checkpointed, Manifests
<1>9. UNCHANGED <<ever, call, inFlight>>
  BY <1>1 DEF hostVars
<1>10. /\ task' \in [Calls -> Tasks] /\ queue' \in Seq(Calls)
       /\ RunningIsHead' /\ (\A d \in Calls : TaskAccounted(d)') /\ LeadersInFlight'
  <2>1. CASE /\ n = Len(batch) /\ task' = [task EXCEPT ![c] = Remains(c, "post")]
             /\ UNCHANGED queue
    <3>1. /\ Remains(c, "post") \in Tasks /\ Remains(c, "post").step = "post"
          /\ Remains(c, "post").turn = t /\ Remains(c, "post").awaited = task[c].awaited
      BY <1>2, RemainsType DEF Steps
    <3>2. /\ task' \in [Calls -> Tasks] /\ task'[c] = Remains(c, "post")
          /\ \A d \in Calls \ {c} : task'[d] = task[d]
      BY <1>2, <2>1, <3>1 DEF TypeOK
    <3>3. queue' \in Seq(Calls) /\ RunningIsHead'
      BY <1>2, <1>3, <2>1, <3>2 DEF Inductive, TypeOK, RunningIsHead
    <3>4. Need(t) \subseteq ever
      BY <1>3, <1>4, <1>5, <2>1
    <3>5. ASSUME NEW d \in Calls PROVE TaskAccounted(d)'
      <4>1. CASE d # c
        BY <1>9, <3>2, <4>1, AccountedMonotone DEF Inductive
      <4>2. CASE d = c
        BY <1>9, <3>1, <3>2, <3>4, <4>2 DEF TaskAccounted
      <4> QED
        BY <4>1, <4>2
    <3>6. LeadersInFlight'
      BY <1>9, <3>1, <3>2, LeadersKept DEF Inductive
    <3> QED
      BY <3>2, <3>3, <3>5, <3>6
  <2>2. CASE EndTask(c, "failed")
    BY <1>3, <1>9, <2>2, EndTaskStep DEF Settled
  <2> QED
    BY <1>1, <2>1, <2>2
<1>11. TypeOK'
  BY <1>1, <1>2, <1>8, <1>10 DEF TypeOK, hostVars, engineVars
<1> QED
  BY <1>1, <1>8, <1>10, <1>11
     DEF Inductive, CheckpointNotAhead, CommittedMeansStored, hostVars

-----------------------------------------------------------------------------
(* Steps of the host's calls.                                              *)

(* A turn that afterTurn skips is in the checkpoint, hence stored. *)
LEMMA AfterTurnStep ==
  ASSUME Inductive, NEW c \in Calls, NEW e \in Engines, NEW t \in Turns,
         NEW awaited \in BOOLEAN, task[c].step = "none",
         AfterTurn(c, e, t, awaited), ever' = ever
  PROVE  /\ task' \in [Calls -> Tasks] /\ queue' \in Seq(Calls)
         /\ RunningIsHead' /\ \A d \in Calls : TaskAccounted(d)'
         /\ \A d \in Calls \ {c} : task'[d] = task[d]
         /\ awaited => task'[c].turn = t /\ task'[c].awaited
<1> DEFINE msgs == SelectMessages(t, manifest.recovery)
           skip == Unmatched(manifest.turns, msgs) = << >>
           skipped == [NoTask EXCEPT !.step = "skipped", !.turn = t, !.awaited = TRUE]
           fresh == [[NoTask EXCEPT !.turn = t, !.awaited = awaited, !.engine = e,
                        !.token = lifecycle, !.msgs = msgs] EXCEPT !.step = "queued"]
<1>1. /\ TypeOK /\ task \in [Calls -> Tasks] /\ queue \in Seq(Calls) /\ lifecycle \in Nat
      /\ manifest.turns \in Seq(Msgs) /\ manifest.recovery \in BOOLEAN
      /\ Range(manifest.turns) \subseteq ever
  BY DEF Inductive, TypeOK, CheckpointNotAhead, Manifests
<1>2. msgs \in Batches(t) /\ msgs \in {Selected(t), Bounded(Transcript[t])}
  BY <1>1, SelectMessagesType DEF SelectMessages
<1>3. skip => Need(t) \subseteq ever
  BY <1>1, <1>2, BatchAccounts
<1>4. msgs \in Seq(Msgs)
  BY <1>2, BatchType
<1>5. /\ skip => queue' = queue /\ task' = IF awaited THEN [task EXCEPT ![c] = skipped] ELSE task
      /\ ~ skip => queue' = Append(queue, c) /\ task' = [task EXCEPT ![c] = fresh]
  BY DEF AfterTurn
<1> HIDE DEF skip, msgs
<1>6. /\ skipped \in Tasks /\ skipped.step = "skipped" /\ skipped.turn = t /\ skipped.awaited
      /\ fresh \in Tasks /\ fresh.step = "queued" /\ fresh.turn = t
      /\ fresh.awaited = awaited /\ fresh.msgs = msgs
  BY <1>1, <1>4, NoTaskType DEF Tasks, Steps, NoTask
<1> HIDE DEF skipped, fresh
<1>7. /\ task' \in [Calls -> Tasks]
      /\ \A d \in Calls \ {c} : task'[d] = task[d]
      /\ task'[c] = IF skip THEN IF awaited THEN skipped ELSE task[c] ELSE fresh
  BY <1>1, <1>5, <1>6
<1>8. queue' \in Seq(Calls)
  BY <1>1, <1>5, AppendProperties
<1>9. RunningIsHead'
  <2>1. ASSUME NEW d \in Calls, task'[d].step \in Running
        PROVE  queue' # << >> /\ Head(queue') = d
    <3>1. d # c /\ task[d].step \in Running
      BY <1>6, <1>7, <2>1 DEF Running
    <3>2. queue # << >> /\ Head(queue) = d
      BY <3>1 DEF Inductive, RunningIsHead
    <3> QED
      BY <1>1, <1>5, <3>2, HeadTailAppend, AppendProperties
  <2> QED
    BY <2>1 DEF RunningIsHead
<1>10. ASSUME NEW d \in Calls PROVE TaskAccounted(d)'
  <2>1. CASE d # c \/ task'[c] = task[c]
    BY <1>7, <2>1, AccountedMonotone DEF Inductive
  <2>2. CASE d = c /\ skip /\ awaited
    BY <1>3, <1>6, <1>7, <2>2 DEF TaskAccounted
  <2>3. CASE d = c /\ ~ skip
    BY <1>2, <1>6, <1>7, <2>3 DEF TaskAccounted
  <2> QED
    BY <1>7, <2>1, <2>2, <2>3
<1> QED
  BY <1>6, <1>7, <1>8, <1>9, <1>10

LEMMA LeadStep ==
  ASSUME Inductive, NEW c \in Calls, NEW e \in Engines, NEW t \in Turns,
         CommitLead(c, e, t)
  PROVE  Inductive'
<1>1. /\ call[c].pc \in {"idle", "done"} /\ task[c].step = "none"
      /\ begun' = IF t > begun THEN t ELSE begun
      /\ inFlight[t] = None
      /\ call' = [call EXCEPT ![c] = [pc |-> "lead", turn |-> t, res |-> "none"]]
      /\ inFlight' = [inFlight EXCEPT ![t] = c]
      /\ AfterTurn(c, e, t, TRUE)
      /\ UNCHANGED <<storeVars, memo, told, engineVars, historyVars>>
  BY DEF CommitLead, Callable, InFlight
<1>2. /\ task' \in [Calls -> Tasks] /\ queue' \in Seq(Calls)
      /\ RunningIsHead' /\ \A d \in Calls : TaskAccounted(d)'
      /\ \A d \in Calls \ {c} : task'[d] = task[d]
      /\ task'[c].turn = t /\ task'[c].awaited
  BY <1>1, AfterTurnStep DEF storeVars
<1>3. TypeOK'
  <2>1. TypeOK /\ t \in 0..NTurns
    BY DEF Inductive, Turns
  <2> QED
    BY <1>1, <1>2, <2>1 DEF TypeOK, CallRecords, storeVars, engineVars, historyVars
<1>4. LeadersInFlight'
  <2>1. LeadersInFlight /\ call \in [Calls -> CallRecords] /\ inFlight \in [Turns -> Calls \cup {None}]
    BY DEF Inductive, TypeOK
  <2>2. \A u \in Turns : inFlight'[u] # None =>
          call'[inFlight'[u]].pc = "lead" /\ call'[inFlight'[u]].turn = u
    BY <1>1, <2>1 DEF LeadersInFlight
  <2>3. None \notin Calls
    BY BoundsAssumption
  <2>4. ASSUME NEW d \in Calls
        PROVE  /\ call'[d].pc = "lead" => /\ inFlight'[call'[d].turn] = d
                                         /\ task'[d].turn = call'[d].turn /\ task'[d].awaited
               /\ call'[d].pc = "join" => inFlight'[call'[d].turn] # None
    <3>1. CASE d = c
      BY <1>1, <1>2, <2>1, <3>1
    <3>2. CASE d # c
      <4>1. call'[d] = call[d] /\ task'[d] = task[d] /\ call[d].turn \in Turns
        BY <1>1, <1>2, <2>1, <3>2 DEF CallRecords
      <4> QED
        BY <1>1, <2>1, <2>3, <4>1 DEF LeadersInFlight
    <3> QED
      BY <3>1, <3>2
  <2> QED
    BY <2>2, <2>4 DEF LeadersInFlight
<1> QED
  BY <1>1, <1>2, <1>3, <1>4
     DEF Inductive, CheckpointNotAhead, CommittedMeansStored, storeVars

LEMMA AfterTurnOnlyStep ==
  ASSUME Inductive, NEW c \in Calls, NEW e \in Engines, NEW t \in Turns,
         AfterTurnOnly(c, e, t)
  PROVE  Inductive'
<1>1. /\ call[c].pc \in {"idle", "done"} /\ task[c].step = "none"
      /\ begun' = IF t > begun THEN t ELSE begun
      /\ AfterTurn(c, e, t, FALSE)
      /\ UNCHANGED <<storeVars, call, memo, inFlight, told, engineVars, historyVars>>
  BY DEF AfterTurnOnly, Callable
<1>2. /\ task' \in [Calls -> Tasks] /\ queue' \in Seq(Calls)
      /\ RunningIsHead' /\ \A d \in Calls : TaskAccounted(d)'
      /\ \A d \in Calls \ {c} : task'[d] = task[d]
  BY <1>1, AfterTurnStep DEF storeVars
<1>3. TypeOK'
  <2>1. TypeOK /\ t \in 0..NTurns
    BY DEF Inductive, Turns
  <2> QED
    BY <1>1, <1>2, <2>1 DEF TypeOK, storeVars, engineVars, historyVars
<1>4. LeadersInFlight'
  BY <1>1, <1>2 DEF Inductive, LeadersInFlight
<1> QED
  BY <1>1, <1>2, <1>3, <1>4
     DEF Inductive, CheckpointNotAhead, CommittedMeansStored, storeVars

(* Calls that do not lead: a key already known, or one in flight. *)
LEMMA FollowSteps ==
  ASSUME Inductive, NEW c \in Calls, NEW t \in Turns,
         CommitKnown(c, t) \/ CommitJoin(c, t)
  PROVE  Inductive'
<1>1. /\ call[c].pc \in {"idle", "done"}
      /\ begun' = IF t > begun THEN t ELSE begun
      /\ UNCHANGED <<storeVars, task, queue, memo, inFlight, engineVars, historyVars>>
  BY DEF CommitKnown, CommitJoin, Callable
<1>2. \/ /\ t \in Range(memo) /\ told' = told \cup {t}
         /\ call' = [call EXCEPT ![c] = [pc |-> "done", turn |-> t, res |-> "duplicate"]]
      \/ /\ inFlight[t] # None /\ told' = told
         /\ call' = [call EXCEPT ![c] = [pc |-> "join", turn |-> t, res |-> "none"]]
  BY DEF CommitKnown, CommitJoin, InFlight
<1> PICK pc \in {"done", "join"}, res \in {"none", "duplicate"} :
      call' = [call EXCEPT ![c] = [pc |-> pc, turn |-> t, res |-> res]]
  BY <1>2
<1> DEFINE new == [pc |-> pc, turn |-> t, res |-> res]
<1>3. /\ TypeOK /\ call \in [Calls -> CallRecords] /\ t \in 0..NTurns
      /\ new \in CallRecords /\ new.pc = pc /\ new.turn = t
      /\ pc = "join" => inFlight[t] # None
  <2>1. CASE pc = "done"
    BY <2>1 DEF CallRecords, Inductive, TypeOK, Turns
  <2>2. CASE pc = "join"
    <3>1. call' = [call EXCEPT ![c] = [pc |-> "join", turn |-> t, res |-> res]]
      BY <2>2
    <3>2. call \in [Calls -> CallRecords]
      BY DEF Inductive, TypeOK
    <3>3. call'[c].pc = "join"
      BY <3>1, <3>2
    <3>4. inFlight[t] # None
      BY <1>2, <3>2, <3>3
    <3> QED
      BY <2>2, <3>4 DEF CallRecords, Inductive, TypeOK, Turns
  <2> QED
    BY <2>1, <2>2
<1> HIDE DEF new
<1>4. /\ call' \in [Calls -> CallRecords] /\ call'[c] = new
      /\ \A d \in Calls \ {c} : call'[d] = call[d]
  BY <1>3 DEF new
<1>8. TypeOK'
  <2>1. told' \in SUBSET Turns
    BY <1>2, <1>3 DEF TypeOK
  <2> QED
    BY <1>1, <1>3, <1>4, <2>1 DEF TypeOK, storeVars, engineVars, historyVars
<1>9. LeadersInFlight'
  <2>1. LeadersInFlight /\ None \notin Calls /\ inFlight \in [Turns -> Calls \cup {None}]
    BY BoundsAssumption DEF Inductive, TypeOK
  <2>2. ASSUME NEW u \in Turns, inFlight[u] # None
        PROVE  call'[inFlight[u]].pc = "lead" /\ call'[inFlight[u]].turn = u
    <3>1. /\ inFlight[u] \in Calls /\ call[inFlight[u]].pc = "lead"
          /\ call[inFlight[u]].turn = u /\ inFlight[u] # c
      BY <1>1, <2>1, <2>2 DEF LeadersInFlight
    <3> QED
      BY <1>4, <3>1
  <2>3. ASSUME NEW d \in Calls
        PROVE  /\ call'[d].pc = "lead" => /\ inFlight[call'[d].turn] = d
                                         /\ task[d].turn = call'[d].turn /\ task[d].awaited
               /\ call'[d].pc = "join" => inFlight[call'[d].turn] # None
    <3>1. CASE d = c
      BY <1>3, <1>4, <3>1
    <3>2. CASE d # c
      BY <1>4, <2>1, <3>2 DEF LeadersInFlight
    <3> QED
      BY <3>1, <3>2
  <2> QED
    BY <1>1, <2>2, <2>3 DEF LeadersInFlight
<1>5. told' \subseteq told \cup Range(memo) /\ told \subseteq told'
  BY <1>2
<1>6. /\ CommittedMeansStored' /\ Range(memo') \subseteq told'
  BY <1>1, <1>5 DEF Inductive, CommittedMeansStored, storeVars
<1>7. \A d \in Calls : TaskAccounted(d)'
  BY <1>1, AccountedMonotone DEF Inductive, storeVars
<1> QED
  BY <1>1, <1>6, <1>7, <1>8, <1>9
     DEF Inductive, RunningIsHead, CheckpointNotAhead, storeVars

(* The memo stays within its limit and gains only the key remembered. *)
LEMMA RememberType ==
  ASSUME NEW keys \in Seq(Turns), Len(keys) <= MemoLimit, NEW t \in Turns
  PROVE  /\ Remember(keys, t) \in Seq(Turns) /\ Len(Remember(keys, t)) <= MemoLimit
         /\ Range(Remember(keys, t)) \subseteq Range(keys) \cup {t}
<1> DEFINE added == IF t \in Range(keys) THEN keys ELSE Append(keys, t)
<1>1. MemoLimit \in Nat \ {0} /\ Len(keys) \in Nat
  BY BoundsAssumption, LenProperties
<1>2. /\ Append(keys, t) \in Seq(Turns) /\ Len(Append(keys, t)) = Len(keys) + 1
      /\ \A i \in 1..Len(keys) : Append(keys, t)[i] = keys[i]
      /\ Append(keys, t)[Len(keys) + 1] = t
  BY AppendProperties
<1>3. /\ added \in Seq(Turns) /\ Len(added) \in Nat /\ Len(added) <= MemoLimit + 1
      /\ Range(added) \subseteq Range(keys) \cup {t}
  <2>1. Range(Append(keys, t)) \subseteq Range(keys) \cup {t}
    <3>1. Range(Append(keys, t)) = {Append(keys, t)[i] : i \in 1..(Len(keys) + 1)}
      BY <1>2, RangeEquality
    <3>2. Range(keys) = {keys[i] : i \in 1..Len(keys)}
      BY RangeEquality
    <3>3. \A i \in 1..(Len(keys) + 1) : i \in 1..Len(keys) \/ i = Len(keys) + 1
      BY <1>1
    <3> QED
      BY <1>2, <3>1, <3>2, <3>3
  <2> QED
    BY <1>1, <1>2, <2>1
<1> HIDE DEF added
<1>4. CASE Len(added) > MemoLimit
  <2>1. added # << >> /\ 2 \in Nat \ {0} /\ Len(added) \in 0..Len(added)
    BY <1>1, <1>3, <1>4, EmptySeq
  <2>2. Tail(added) = SubSeq(added, 2, Len(added)) /\ Len(Tail(added)) = Len(added) - 1
    BY <1>3, <2>1, TailIsSubSeq, HeadTailProperties
  <2>3. Tail(added) \in Seq(Turns) /\ Range(Tail(added)) \subseteq Range(added)
    BY <1>3, <2>1, <2>2, SubSeqType
  <2>4. Remember(keys, t) = Tail(added)
    BY <1>4 DEF Remember, added
  <2> QED
    BY <1>1, <1>3, <2>2, <2>3, <2>4
<1>5. CASE ~ (Len(added) > MemoLimit)
  <2>1. Remember(keys, t) = added
    BY <1>5 DEF Remember, added
  <2> QED
    BY <1>1, <1>3, <1>5, <2>1
<1> QED
  BY <1>4, <1>5

(* An answer that is no error is given for a stored turn. *)
LEMMA SettleStep ==
  ASSUME Inductive, NEW c \in Calls, Settle(c)
  PROVE  Inductive'
<1> DEFINE t == task[c].turn
           answered == {c} \cup Joined(c)
<1>1. /\ call[c].pc = "lead" /\ task[c].step \in Settled
      /\ memo' = IF Durable(c) THEN Remember(memo, t) ELSE memo
      /\ inFlight' = [inFlight EXCEPT ![t] = None]
      /\ call' = [d \in Calls |-> IF d \in answered
                                    THEN [pc |-> "done", turn |-> t, res |-> AnswerOf(c, d)]
                                    ELSE call[d]]
      /\ told' = IF AnswerOf(c, c) = "error" THEN told ELSE told \cup {t}
      /\ task' = [task EXCEPT ![c] = NoTask]
      /\ UNCHANGED <<storeVars, queue, begun, engineVars, historyVars>>
  BY DEF Settle
<1>2. /\ TypeOK /\ t \in Turns /\ task \in [Calls -> Tasks]
      /\ call \in [Calls -> CallRecords] /\ inFlight \in [Turns -> Calls \cup {None}]
      /\ call[c].turn = t /\ inFlight[t] = c
  BY <1>1, TaskType DEF Inductive, TypeOK, LeadersInFlight
<1>3. AnswerOf(c, c) # "error" => Need(t) \subseteq ever
  BY <1>1 DEF AnswerOf, Inductive, TaskAccounted, Settled
<1>4. /\ memo' \in Seq(Turns) /\ Len(memo') <= MemoLimit
      /\ Range(memo') \subseteq Range(memo) \cup {t}
      /\ Durable(c) => AnswerOf(c, c) # "error"
      /\ ~ Durable(c) => memo' = memo
  BY <1>1, <1>2, RememberType DEF TypeOK, Durable, AnswerOf
<1>5. \A d \in Calls : AnswerOf(c, d) \in {"error", "duplicate", "committed"}
  BY DEF AnswerOf
<1>6. call' \in [Calls -> CallRecords]
  BY <1>1, <1>2, <1>5 DEF CallRecords
<1>7. /\ \A d \in Calls \ {c} : task'[d] = task[d]
      /\ task'[c] = NoTask /\ task' \in [Calls -> Tasks]
  BY <1>1, <1>2, NoTaskType
<1>8. TypeOK'
  BY <1>1, <1>2, <1>4, <1>6, <1>7 DEF TypeOK, storeVars, engineVars, historyVars
<1>9. RunningIsHead'
  BY <1>1, <1>7 DEF Inductive, RunningIsHead, NoTask, Running
<1>10. ASSUME NEW d \in Calls PROVE TaskAccounted(d)'
  <2>1. CASE d # c
    BY <1>1, <1>7, <2>1, AccountedMonotone DEF Inductive, storeVars
  <2>2. CASE d = c
    BY <1>7, <2>2 DEF TaskAccounted, NoTask
  <2> QED
    BY <2>1, <2>2
<1>11. LeadersInFlight'
  <2>1. \A d \in Joined(c) : call[d].pc = "join" /\ call[d].turn = t
    BY DEF Joined
  <2>2. \A d \in Calls : call'[d].pc # "done" => call'[d] = call[d] /\ d \notin answered
    BY <1>1
  <2>3. ASSUME NEW u \in Turns, inFlight'[u] # None
        PROVE  call'[inFlight'[u]].pc = "lead" /\ call'[inFlight'[u]].turn = u
    <3>1. u # t /\ inFlight'[u] = inFlight[u] /\ inFlight[u] \in Calls
      BY <1>1, <1>2, <2>3
    <3>2. call[inFlight[u]].pc = "lead" /\ call[inFlight[u]].turn = u
      BY <2>3, <3>1 DEF Inductive, LeadersInFlight
    <3>3. inFlight[u] \notin answered
      BY <1>2, <2>1, <3>1, <3>2
    <3> QED
      BY <1>1, <3>1, <3>2, <3>3
  <2>4. ASSUME NEW d \in Calls
        PROVE  /\ call'[d].pc = "lead" => /\ inFlight'[call'[d].turn] = d
                                         /\ task'[d].turn = call'[d].turn /\ task'[d].awaited
               /\ call'[d].pc = "join" => inFlight'[call'[d].turn] # None
    <3>1. CASE call'[d].pc = "lead"
      <4>1. call'[d] = call[d] /\ d # c /\ call[d].turn \in Turns
        BY <1>2, <2>2, <3>1 DEF CallRecords
      <4>2. inFlight[call[d].turn] = d /\ task[d].turn = call[d].turn /\ task[d].awaited
        BY <3>1, <4>1 DEF Inductive, LeadersInFlight
      <4> QED
        BY <1>1, <1>2, <1>7, <3>1, <4>1, <4>2
    <3>2. CASE call'[d].pc = "join"
      <4>1. call'[d] = call[d] /\ d \notin Joined(c) /\ call[d].turn \in Turns
        BY <1>2, <2>2, <3>2 DEF CallRecords
      <4>2. call[d].turn # t /\ inFlight[call[d].turn] # None
        BY <3>2, <4>1 DEF Inductive, LeadersInFlight, Joined
      <4> QED
        BY <1>1, <1>2, <3>2, <4>1, <4>2
    <3> QED
      BY <3>1, <3>2
  <2> QED
    BY <2>3, <2>4 DEF LeadersInFlight
<1>12. CommittedMeansStored' /\ Range(memo') \subseteq told'
  BY <1>1, <1>3, <1>4 DEF Inductive, CommittedMeansStored, storeVars
<1> QED
  BY <1>1, <1>8, <1>9, <1>10, <1>11, <1>12
     DEF Inductive, CheckpointNotAhead, storeVars

-----------------------------------------------------------------------------
(* Steps of the daemon, of the process and of the engines' lifecycle.      *)

LEMMA LateStep ==
  ASSUME Inductive, NEW r \in late, DaemonServesLate(r)
  PROVE  Inductive'
<1>1. /\ late' = late \ {r}
      /\ \/ \E n \in 1..Len(r.batch) : DaemonStores(r, n)
         \/ UNCHANGED <<log, ever>>
      /\ UNCHANGED <<manifest, hostVars, task, queue, engineVars, historyVars>>
  BY DEF DaemonServesLate
<1>2. TypeOK /\ r \in Requests /\ log \in Seq(Msgs) /\ ever \subseteq Msgs
  BY DEF Inductive, TypeOK
<1>3. log' \in Seq(Msgs) /\ ever' \subseteq Msgs /\ ever \subseteq ever'
  <2>1. \A n \in 1..Len(r.batch) : n \in 0..Len(r.batch)
    OBVIOUS
  <2> QED
    BY <1>1, <1>2, <2>1, StoresType
<1>4. TypeOK'
  BY <1>1, <1>2, <1>3 DEF TypeOK, hostVars, engineVars, historyVars
<1>5. \A d \in Calls : TaskAccounted(d)'
  BY <1>1, <1>3, AccountedMonotone DEF Inductive
<1> QED
  BY <1>1, <1>3, <1>4, <1>5
     DEF Inductive, RunningIsHead, CheckpointNotAhead, LeadersInFlight,
         CommittedMeansStored, hostVars

(* Neither the host nor an ingestion takes part. *)
LEMMA OutsideSteps ==
  ASSUME Inductive,
         \/ DaemonLosesChain \/ ResetLifecycle
         \/ \E e \in Engines : DisposeEngine(e)
         \/ UNCHANGED vars
  PROVE  Inductive'
<1>1. UNCHANGED <<manifest, ever, late, hostVars, task, queue, historyVars>>
  BY DEF DaemonLosesChain, ResetLifecycle, DisposeEngine, vars, storeVars
<1> TypeOK /\ MaxFaults \in Nat
  BY BoundsAssumption DEF Inductive
<1>2. log' \in Seq(Msgs)
  BY EmptyType DEF TypeOK, DaemonLosesChain, ResetLifecycle, DisposeEngine, vars, storeVars
<1>4. lifecycle' \in Nat
  BY DEF TypeOK, DaemonLosesChain, ResetLifecycle, DisposeEngine, vars, engineVars
<1>5. disposed' \in SUBSET Engines
  BY DEF TypeOK, DaemonLosesChain, ResetLifecycle, DisposeEngine, vars, engineVars
<1>6. faults' \in 0..MaxFaults
  <2>1. CASE UNCHANGED vars
    BY <2>1 DEF TypeOK, vars, engineVars
  <2>2. CASE ~ UNCHANGED vars
    <3>1. Fault
      BY <2>2 DEF DaemonLosesChain, ResetLifecycle, DisposeEngine
    <3> QED
      BY <3>1 DEF Fault, TypeOK
  <2> QED
    BY <2>1, <2>2
<1>7. TypeOK'
  BY <1>1, <1>2, <1>4, <1>5, <1>6 DEF TypeOK, hostVars, historyVars
<1>3. \A d \in Calls : TaskAccounted(d)'
  BY <1>1, AccountedMonotone DEF Inductive
<1> QED
  BY <1>1, <1>3, <1>7
     DEF Inductive, RunningIsHead, CheckpointNotAhead, LeadersInFlight,
         CommittedMeansStored, hostVars

(* A crash leaves the checkpoint, the store and what the host was told.    *)
LEMMA CrashStep ==
  ASSUME Inductive, Crash
  PROVE  Inductive'
<1>1. /\ call' = [c \in Calls |-> IdleCall] /\ task' = [c \in Calls |-> NoTask]
      /\ queue' = << >> /\ memo' = << >>
      /\ inFlight' = [t \in Turns |-> None] /\ disposed' = {}
      /\ faults < MaxFaults /\ faults' = faults + 1
      /\ UNCHANGED <<manifest, log, ever, begun, told, lifecycle, historyVars>>
  BY DEF Crash, Fault
<1>2. late' \subseteq Requests
  <2>1. \A c \in Calls : Request(c) \in Requests
    BY TaskType DEF Inductive, Request, Requests
  <2> QED
    BY <2>1 DEF Crash, Inductive, TypeOK
<1>3. IdleCall \in CallRecords /\ NoTask \in Tasks
  BY EmptyType, NoTaskType DEF IdleCall, CallRecords
<1>4. TypeOK'
  BY <1>1, <1>2, <1>3, BoundsAssumption, EmptySeq DEF Inductive, TypeOK, historyVars
<1>5. /\ RunningIsHead' /\ (\A d \in Calls : TaskAccounted(d)') /\ LeadersInFlight'
  BY <1>1 DEF RunningIsHead, Running, TaskAccounted, NoTask, LeadersInFlight, IdleCall
<1>6. Range(memo') \subseteq told'
  BY <1>1 DEF Range
<1> QED
  BY <1>1, <1>4, <1>5, <1>6 DEF Inductive, CheckpointNotAhead, CommittedMeansStored

-----------------------------------------------------------------------------
(* The invariants.                                                         *)

LEMMA InitInductive == Init => Inductive
<1> SUFFICES ASSUME Init PROVE Inductive
  OBVIOUS
<1>1. /\ manifest = EmptyManifest /\ log = << >> /\ ever = {} /\ late = {}
      /\ call = [c \in Calls |-> IdleCall] /\ task = [c \in Calls |-> NoTask]
      /\ queue = << >> /\ memo = << >> /\ inFlight = [t \in Turns |-> None]
      /\ lifecycle = 0 /\ disposed = {} /\ faults = 0
      /\ begun = 0 /\ told = {} /\ covered = {} /\ debt = [t \in Turns |-> {}]
  BY DEF Init
<1>2. /\ IdleCall \in CallRecords /\ NoTask \in Tasks /\ EmptyManifest \in Manifests
      /\ Range(<< >>) = {} /\ EmptyManifest.turns = << >>
  BY EmptyType, NoTaskType DEF IdleCall, CallRecords, EmptyManifest, Manifests, Range
<1>3. TypeOK
  BY <1>1, <1>2, EmptySeq, BoundsAssumption, TurnsAssumption DEF TypeOK
<1>4. RunningIsHead /\ (\A c \in Calls : TaskAccounted(c)) /\ LeadersInFlight
  BY <1>1 DEF RunningIsHead, Running, TaskAccounted, NoTask, LeadersInFlight, IdleCall
<1> QED
  BY <1>1, <1>2, <1>3, <1>4 DEF Inductive, CheckpointNotAhead, CommittedMeansStored

LEMMA StepInductive == Inductive /\ [Next]_vars => Inductive'
<1> SUFFICES ASSUME Inductive, [Next]_vars PROVE Inductive'
  OBVIOUS
<1>1. CASE \E c \in Calls, t \in Turns : CommitKnown(c, t) \/ CommitJoin(c, t)
  BY <1>1, FollowSteps
<1>2. CASE \E c \in Calls, e \in Engines, t \in Turns :
             CommitLead(c, e, t) \/ AfterTurnOnly(c, e, t)
  BY <1>2, LeadStep, AfterTurnOnlyStep
<1>3. ASSUME NEW c \in Calls, Settle(c) \/ TaskStep(c) PROVE Inductive'
  <2>1. CASE Settle(c)
    BY <2>1, SettleStep
  <2>2. CASE Fenced(c) \/ ClientFails(c) \/ RpcFails(c) \/ PersistFails(c) \/ PostIngest(c)
    BY <2>2, EndingSteps
  <2>3. CASE StartIngestion(c) \/ SendBatch(c)
    BY <2>3, StartStep, SendStep
  <2>4. CASE DaemonServes(c) \/ RecoverGap(c) \/ Persist(c)
    BY <2>4, ServesStep, RecoverStep, PersistStep
  <2> QED
    BY <1>3, <2>1, <2>2, <2>3, <2>4 DEF TaskStep
<1>4. CASE \E r \in late : DaemonServesLate(r)
  BY <1>4, LateStep
<1>5. CASE Crash
  BY <1>5, CrashStep
<1>6. CASE \/ DaemonLosesChain \/ ResetLifecycle
           \/ \E e \in Engines : DisposeEngine(e)
           \/ UNCHANGED vars
  BY <1>6, OutsideSteps
<1> QED
  BY <1>1, <1>2, <1>3, <1>4, <1>5, <1>6 DEF Next

(* The inductive invariant holds of every behaviour. *)
THEOREM InductiveHolds == Spec => []Inductive
BY InitInductive, StepInductive, PTL DEF Spec

(* Every variable keeps its type, and the memo its limit. *)
THEOREM TypeCorrect == Spec => []TypeOK
<1>1. Inductive => TypeOK
  BY DEF Inductive
<1> QED
  BY <1>1, InductiveHolds, PTL

(* Whatever commitTurn reports as committed or duplicate has been stored by *)
(* the daemon: for every number of concurrent calls and engines, across    *)
(* crashes, lost chains, late and partial answers and gap recovery.        *)
THEOREM CommitIsDurable == Spec => []CommittedMeansStored
<1>1. Inductive => CommittedMeansStored
  BY DEF Inductive
<1> QED
  BY <1>1, InductiveHolds, PTL

(* The checkpoint file never claims what the daemon has not stored. *)
THEOREM CheckpointIsHonest == Spec => []CheckpointNotAhead
<1>1. Inductive => CheckpointNotAhead
  BY DEF Inductive
<1> QED
  BY <1>1, InductiveHolds, PTL

(* The memo of committed keys only names stored turns. *)
THEOREM MemoIsHonest == Spec => []MemoMeansStored
<1>1. Inductive => MemoMeansStored
  BY DEF Inductive, MemoMeansStored, CommittedMeansStored
<1> QED
  BY <1>1, InductiveHolds, PTL

(* A session's ingestions never overlap, whichever engines queued them. *)
THEOREM IngestionIsSerial == Spec => []SerialIngestion
<1>1. Inductive => SerialIngestion
  BY DEF Inductive, RunningIsHead, SerialIngestion
<1> QED
  BY <1>1, InductiveHolds, PTL

(* A key has one leading call, and whoever joined it has one to wait for.  *)
THEOREM LeaderIsUnique == Spec => []OneLeaderPerKey
<1>1. Inductive => OneLeaderPerKey
  <2> SUFFICES ASSUME Inductive, NEW c \in Calls
               PROVE  /\ call[c].pc = "lead" => inFlight[call[c].turn] = c
                      /\ call[c].pc = "join" =>
                           /\ inFlight[call[c].turn] # None
                           /\ call[inFlight[call[c].turn]].pc = "lead"
    BY DEF OneLeaderPerKey
  <2>1. call[c].turn \in Turns
    BY DEF Inductive, TypeOK, CallRecords
  <2> QED
    BY <2>1 DEF Inductive, LeadersInFlight
<1> QED
  BY <1>1, InductiveHolds, PTL

-----------------------------------------------------------------------------
(* The refinement of TurnCommit.                                           *)

(* What the abstract call looks like in each state of the concrete one.    *)
LEMMA AbstractCalls ==
  ASSUME NEW c \in Calls
  PROVE  /\ call[c].pc = "idle" => AbstractCall(c) = Commit!Idle
         /\ call[c].pc = "done" =>
              AbstractCall(c) = Commit!Answered(call[c].turn, call[c].res)
         /\ call[c].pc \in {"lead", "join"} =>
              AbstractCall(c) = Commit!Pending(call[c].turn)
BY DEF AbstractCall, Commit!Idle, Commit!Answered, Commit!Pending

(* A call that changes nothing of itself is the same call abstractly. *)
LEMMA SameAbstractCall ==
  ASSUME NEW c \in Calls, call'[c] = call[c]
  PROVE  AbstractCall(c)' = AbstractCall(c)
BY DEF AbstractCall

LEMMA RefineInit == Init => Commit!Init
BY AbstractCalls DEF Init, Commit!Init, IdleCall

(* A step that changes no call and tells the host nothing only stores.     *)
LEMMA RefineStore ==
  ASSUME ever \subseteq ever', ever' \subseteq Msgs, UNCHANGED <<call, told>>
  PROVE  Commit!Store
<1>1. ever' = ever \cup ever' /\ ever' \in SUBSET Msgs
  OBVIOUS
<1>2. \A c \in Calls : AbstractCall(c)' = AbstractCall(c)
  BY SameAbstractCall
<1> QED
  BY <1>1, <1>2 DEF Commit!Store

(* A call that leads or joins is pending. *)
LEMMA RefineBegin ==
  ASSUME Inductive, NEW c \in Calls, NEW t \in Turns, NEW pc \in {"lead", "join"},
         call[c].pc \in {"idle", "done"},
         call' = [call EXCEPT ![c] = [pc |-> pc, turn |-> t, res |-> "none"]],
         UNCHANGED <<ever, told>>
  PROVE  Commit!Begin(c, t)
<1>1. call \in [Calls -> CallRecords]
  BY DEF Inductive, TypeOK
<1>2. /\ call'[c].pc = pc /\ call'[c].turn = t
      /\ \A d \in Calls \ {c} : call'[d] = call[d]
  BY <1>1
<1>3. AbstractCall(c).pc # "pending"
  BY AbstractCalls DEF Commit!Idle, Commit!Answered
<1>4. AbstractCall(c)' = Commit!Pending(t)
  BY <1>2 DEF AbstractCall, Commit!Pending
<1>5. \A d \in Calls \ {c} : AbstractCall(d)' = AbstractCall(d)
  BY <1>2, SameAbstractCall
<1> QED
  BY <1>3, <1>4, <1>5 DEF Commit!Begin

LEMMA RefineKnown ==
  ASSUME Inductive, NEW c \in Calls, NEW t \in Turns, CommitKnown(c, t)
  PROVE  Commit!AnswerKnown(c, t)
<1>1. /\ call[c].pc \in {"idle", "done"} /\ t \in Range(memo)
      /\ call' = [call EXCEPT ![c] = [pc |-> "done", turn |-> t, res |-> "duplicate"]]
      /\ told' = told \cup {t} /\ ever' = ever
  BY DEF CommitKnown, Callable, storeVars
<1>2. call \in [Calls -> CallRecords] /\ t \in told /\ Need(t) \subseteq ever
  BY <1>1 DEF Inductive, TypeOK, CommittedMeansStored
<1>3. /\ call'[c] = [pc |-> "done", turn |-> t, res |-> "duplicate"]
      /\ \A d \in Calls \ {c} : call'[d] = call[d]
  BY <1>1, <1>2
<1>4. AbstractCall(c).pc # "pending"
  BY <1>1, AbstractCalls DEF Commit!Idle, Commit!Answered
<1>5. AbstractCall(c)' = Commit!Answered(t, "duplicate")
  BY <1>3 DEF AbstractCall, Commit!Answered
<1>6. \A d \in Calls \ {c} : AbstractCall(d)' = AbstractCall(d)
  BY <1>3, SameAbstractCall
<1> DEFINE res == [d \in {c} |-> "duplicate"]
<1>7. DOMAIN res = {c} /\ res[c] = "duplicate"
  OBVIOUS
<1>8. [d \in Calls |-> AbstractCall(d)]' =
        [d \in Calls |-> IF d \in DOMAIN res THEN Commit!Answered(t, res[d])
                          ELSE [x \in Calls |-> AbstractCall(x)][d]]
  BY <1>5, <1>6, <1>7
<1>9. Commit!Answer(t, res)
  BY <1>1, <1>2, <1>8 DEF Commit!Answer
<1> QED
  BY <1>2, <1>4, <1>9 DEF Commit!AnswerKnown

(* The leader and those who joined it are answered together. *)
LEMMA RefineSettle ==
  ASSUME Inductive, NEW c \in Calls, Settle(c)
  PROVE  LET C == {c} \cup Joined(c)
             t == task[c].turn
         IN  /\ C \in (SUBSET Calls) \ {{}} /\ t \in Turns
             /\ Commit!AnswerPending(C, t) \/ Commit!Fail(C, t)
<1> DEFINE C == {c} \cup Joined(c)
           t == task[c].turn
<1>1. /\ call[c].pc = "lead" /\ task[c].step \in Settled
      /\ call' = [d \in Calls |-> IF d \in C
                                    THEN [pc |-> "done", turn |-> t, res |-> AnswerOf(c, d)]
                                    ELSE call[d]]
      /\ told' = IF AnswerOf(c, c) = "error" THEN told ELSE told \cup {t}
      /\ ever' = ever
  BY DEF Settle, storeVars
<1>2. t \in Turns /\ call[c].turn = t
  BY <1>1, TaskType DEF Inductive, LeadersInFlight
<1>3. C \in (SUBSET Calls) \ {{}}
  BY DEF Joined
<1>4. \A d \in C : /\ d \in Calls /\ call[d].turn = t
                   /\ call[d].pc \in {"lead", "join"}
  BY <1>1, <1>2 DEF Joined
<1>5. \A d \in C : AbstractCall(d) = Commit!Pending(t)
  BY <1>4, AbstractCalls
<1>6. \A d \in C : call'[d] = [pc |-> "done", turn |-> t, res |-> AnswerOf(c, d)]
  BY <1>1, <1>4
<1>7. \A d \in C : AbstractCall(d)' = Commit!Answered(t, AnswerOf(c, d))
  BY <1>6 DEF AbstractCall, Commit!Answered
<1>8. \A d \in Calls \ C : AbstractCall(d)' = AbstractCall(d)
  BY <1>1, SameAbstractCall
<1> HIDE DEF C
<1>9. CASE AnswerOf(c, c) = "error"
  <2>1. \A d \in C : AnswerOf(c, d) = "error"
    BY <1>9 DEF AnswerOf
  <2>2. [d \in Calls |-> AbstractCall(d)]' =
          [d \in Calls |-> IF d \in C THEN Commit!Answered(t, "error")
                            ELSE [x \in Calls |-> AbstractCall(x)][d]]
    BY <1>7, <1>8, <2>1
  <2>3. Commit!Fail(C, t)
    BY <1>1, <1>3, <1>5, <1>9, <2>2 DEF Commit!Fail
  <2> QED
    BY <1>2, <1>3, <2>3 DEF C
<1>10. CASE AnswerOf(c, c) # "error"
  <2> DEFINE other == IF Durable(c) THEN "duplicate" ELSE "committed"
             res == [d \in C |-> IF d = c THEN "committed" ELSE other]
  <2>1. /\ DOMAIN res = C /\ c \in C /\ other \in {"committed", "duplicate"}
        /\ \A d \in C : res[d] = AnswerOf(c, d)
    BY <1>10 DEF AnswerOf, C
  <2>2. [d \in Calls |-> AbstractCall(d)]' =
          [d \in Calls |-> IF d \in DOMAIN res THEN Commit!Answered(t, res[d])
                            ELSE [x \in Calls |-> AbstractCall(x)][d]]
    BY <1>7, <1>8, <2>1
  <2>3. Need(t) \subseteq ever
    BY <1>1, <1>10 DEF AnswerOf, Inductive, TaskAccounted, Settled
  <2>4. Commit!Answer(t, res)
    BY <1>1, <1>10, <2>2, <2>3 DEF Commit!Answer
  <2>5. \E leader \in C, rest \in {"committed", "duplicate"} :
          Commit!Answer(t, [d \in C |-> IF d = leader THEN "committed" ELSE rest])
    <3>1. c \in C /\ other \in {"committed", "duplicate"}
      BY <2>1
    <3> USE <3>1
    <3> HIDE DEF other
    <3> WITNESS c \in C, other \in {"committed", "duplicate"}
    <3>2. Commit!Answer(t, [d \in C |-> IF d = c THEN "committed" ELSE other])
      BY <2>4
    <3> QED
      BY <3>2
  <2>6. \A d \in C : [x \in Calls |-> AbstractCall(x)][d] = Commit!Pending(t)
    BY <1>3, <1>5
  <2>7. Commit!AnswerPending(C, t)
    BY <2>5, <2>6, Zenon DEF Commit!AnswerPending
  <2> QED
    BY <1>2, <1>3, <2>7 DEF C
<1> QED
  BY <1>9, <1>10

LEMMA RefineCrash ==
  ASSUME Crash
  PROVE  Commit!Crash
<1>1. call' = [c \in Calls |-> IdleCall] /\ UNCHANGED <<ever, told>>
  BY DEF Crash
<1>2. \A c \in Calls : AbstractCall(c)' = Commit!Idle
  BY <1>1 DEF AbstractCall, IdleCall, Commit!Idle
<1> QED
  BY <1>1, <1>2 DEF Commit!Crash

LEMMA RefineStep ==
  Inductive /\ Inductive' /\ [Next]_vars => [Commit!Next]_(Commit!abstractVars)
<1> SUFFICES ASSUME Inductive, Inductive', [Next]_vars
             PROVE  Commit!Next \/ UNCHANGED Commit!abstractVars
  OBVIOUS
<1>1. ASSUME NEW c \in Calls, NEW t \in Turns, CommitKnown(c, t) PROVE Commit!Next
  BY <1>1, RefineKnown DEF Commit!Next
<1>2. ASSUME NEW c \in Calls, NEW t \in Turns, CommitJoin(c, t) PROVE Commit!Next
  <2>1. Commit!Begin(c, t)
    BY <1>2, RefineBegin DEF CommitJoin, Callable, storeVars
  <2> QED
    BY <2>1 DEF Commit!Next
<1>3. ASSUME NEW c \in Calls, NEW e \in Engines, NEW t \in Turns, CommitLead(c, e, t)
      PROVE  Commit!Next
  <2>1. Commit!Begin(c, t)
    BY <1>3, RefineBegin DEF CommitLead, Callable, storeVars
  <2> QED
    BY <2>1 DEF Commit!Next
<1>4. ASSUME NEW c \in Calls, Settle(c) PROVE Commit!Next
  BY <1>4, RefineSettle DEF Commit!Next
<1>5. CASE Crash
  BY <1>5, RefineCrash DEF Commit!Next
<1>6. ASSUME UNCHANGED <<call, told>>, ever \subseteq ever' PROVE Commit!Next
  <2>1. ever' \subseteq Msgs
    BY DEF Inductive, TypeOK
  <2>2. Commit!Store
    BY <1>6, <2>1, RefineStore
  <2> QED
    BY <2>2 DEF Commit!Next
<1>7. ASSUME NEW c \in Calls, TaskStep(c) PROVE UNCHANGED <<call, told>> /\ ever \subseteq ever'
  <2>1. CASE \/ Fenced(c) \/ ClientFails(c) \/ RpcFails(c) \/ PersistFails(c)
             \/ PostIngest(c) \/ StartIngestion(c) \/ SendBatch(c)
    BY <2>1 DEF Fenced, ClientFails, RpcFails, PersistFails, PostIngest,
                StartIngestion, SendBatch, storeVars, hostVars
  <2>2. CASE RecoverGap(c)
    BY <2>2 DEF RecoverGap, hostVars
  <2>3. CASE Persist(c)
    BY <2>3 DEF Persist, hostVars
  <2>4. CASE DaemonServes(c)
    <3>1. UNCHANGED hostVars
      BY <2>4 DEF DaemonServes
    <3>2. ever' = ever \/ \E n \in Nat : DaemonStores(Request(c), n)
      <4>1. Len(Request(c).batch) \in Nat
        BY TaskType, LenProperties DEF Request, Inductive
      <4> QED
        BY <2>4, <4>1 DEF DaemonServes
    <3> QED
      BY <3>1, <3>2 DEF DaemonStores, hostVars
  <2> QED
    BY <1>7, <2>1, <2>2, <2>3, <2>4 DEF TaskStep
<1>8. ASSUME NEW r \in late, DaemonServesLate(r)
      PROVE  UNCHANGED <<call, told>> /\ ever \subseteq ever'
  BY <1>8 DEF DaemonServesLate, DaemonStores, hostVars
<1>9. ASSUME NEW c \in Calls, NEW e \in Engines, NEW t \in Turns, AfterTurnOnly(c, e, t)
      PROVE  UNCHANGED <<call, told>> /\ ever \subseteq ever'
  BY <1>9 DEF AfterTurnOnly, storeVars
<1>10. ASSUME \/ DaemonLosesChain \/ ResetLifecycle
              \/ \E e \in Engines : DisposeEngine(e)
              \/ UNCHANGED vars
       PROVE  UNCHANGED <<call, told>> /\ ever \subseteq ever'
  BY <1>10 DEF DaemonLosesChain, ResetLifecycle, DisposeEngine, vars, storeVars, hostVars
<1> QED
  BY <1>1, <1>2, <1>3, <1>4, <1>5, <1>6, <1>7, <1>8, <1>9, <1>10 DEF Next

(* commitTurn keeps the promise TurnCommit states: TurnIngest implements it*)
(* for every value of the constants.                                       *)
THEOREM CommitIsImplemented == Spec => ImplementsTurnCommit
<1>1. Spec => Commit!Init
  BY RefineInit DEF Spec
<1>2. Spec => [][Commit!Next]_(Commit!abstractVars)
  BY InductiveHolds, RefineStep, PTL DEF Spec
<1> QED
  BY <1>1, <1>2 DEF ImplementsTurnCommit, Commit!Spec

-----------------------------------------------------------------------------
(* What a batch and a checkpoint have to do with each other.               *)

(* A suffix of a sequence, one element at a time. *)
LEMMA SuffixProperties ==
  ASSUME NEW S, NEW s \in Seq(S), NEW k \in 1..(Len(s) + 1)
  PROVE  /\ SubSeq(s, k, Len(s)) \in Seq(S) /\ Len(SubSeq(s, k, Len(s))) = Len(s) - k + 1
         /\ \A i \in 1..(Len(s) - k + 1) : SubSeq(s, k, Len(s))[i] = s[k + i - 1]
<1>1. Len(s) \in Nat /\ k \in Nat \ {0} /\ k <= Len(s) + 1
  BY LenProperties
<1>2. \A i \in k..Len(s) : s[i] \in S
  BY <1>1, LenProperties
<1> QED
  BY <1>1, <1>2, SubSeqProperties

(* So a prefix. *)
LEMMA PrefixProperties ==
  ASSUME NEW S, NEW s \in Seq(S), NEW k \in 0..Len(s)
  PROVE  /\ SubSeq(s, 1, k) \in Seq(S) /\ Len(SubSeq(s, 1, k)) = k
         /\ \A i \in 1..k : SubSeq(s, 1, k)[i] = s[i]
<1>1. Len(s) \in Nat /\ k \in Nat /\ k <= Len(s)
  BY LenProperties
<1>2. \A i \in 1..k : s[i] \in S
  BY <1>1, LenProperties
<1> QED
  BY <1>1, <1>2, SubSeqProperties

(* A batch the checkpoint ends with has nothing left to send. *)
LEMMA EndingIsSkipped ==
  ASSUME NEW S, NEW turns \in Seq(S), NEW x \in Seq(S), MatchesTail(turns, x, Len(x))
  PROVE  Unmatched(turns, x) = << >>
<1>1. Len(x) \in Nat
  BY LenProperties
<1>2. Overlap(turns, x) = Len(x)
  BY <1>1, OverlapIsMatch
<1>3. SubSeq(x, Len(x) + 1, Len(x)) = << >>
  BY <1>1, SubSeqEmpty
<1> QED
  BY <1>2, <1>3 DEF Unmatched

(* What is sent completes the batch: the checkpoint ends with it then. *)
LEMMA SentCompletes ==
  ASSUME NEW S, NEW turns \in Seq(S), NEW x \in Seq(S)
  PROVE  LET all == turns \o Unmatched(turns, x)
         IN  all \in Seq(S) /\ MatchesTail(all, x, Len(x))
<1> DEFINE n == Overlap(turns, x)
           new == Unmatched(turns, x)
           all == turns \o new
<1>1. /\ Len(x) \in Nat /\ Len(turns) \in Nat /\ n \in 0..Len(x) /\ n <= Len(turns)
      /\ \A i \in 1..n : turns[Len(turns) - n + i] = x[i]
  BY OverlapIsMatch, LenProperties DEF MatchesTail
<1>2. new = SubSeq(x, n + 1, Len(x))
  BY DEF Unmatched
<1> HIDE DEF n
<1>3. /\ new \in Seq(S) /\ Len(new) = Len(x) - n
      /\ \A i \in 1..(Len(x) - n) : new[i] = x[n + i]
  <2>1. n + 1 \in 1..(Len(x) + 1)
    BY <1>1
  <2>2. /\ new \in Seq(S) /\ Len(new) = Len(x) - (n + 1) + 1
        /\ \A i \in 1..(Len(x) - (n + 1) + 1) : new[i] = x[(n + 1) + i - 1]
    BY <1>2, <2>1, SuffixProperties
  <2> QED
    BY <1>1, <2>2
<1> HIDE DEF new
<1>4. /\ all \in Seq(S) /\ Len(all) = Len(turns) + Len(new)
      /\ \A i \in 1..(Len(turns) + Len(new)) :
           all[i] = IF i <= Len(turns) THEN turns[i] ELSE new[i - Len(turns)]
  BY <1>3, ConcatProperties
<1> HIDE DEF all
<1>5. ASSUME NEW i \in 1..Len(x) PROVE all[Len(all) - Len(x) + i] = x[i]
  <2>1. /\ Len(all) - Len(x) + i = Len(turns) - n + i
        /\ Len(turns) - n + i \in 1..(Len(turns) + Len(new))
    BY <1>1, <1>3, <1>4
  <2>2. CASE i <= n
    <3>1. Len(turns) - n + i <= Len(turns) /\ i \in 1..n
      BY <1>1, <2>2
    <3> QED
      BY <1>1, <1>4, <2>1, <3>1
  <2>3. CASE ~ (i <= n)
    <3>1. /\ ~ (Len(turns) - n + i <= Len(turns)) /\ i - n \in 1..(Len(x) - n)
          /\ (Len(turns) - n + i) - Len(turns) = i - n /\ n + (i - n) = i
      BY <1>1, <2>3
    <3>2. all[Len(turns) - n + i] = new[i - n]
      BY <1>4, <2>1, <3>1
    <3>3. new[i - n] = x[i]
      BY <1>3, <3>1
    <3> QED
      BY <2>1, <3>2, <3>3
  <2> QED
    BY <2>2, <2>3
<1>6. Len(x) <= Len(all)
  BY <1>1, <1>3, <1>4
<1> QED
  BY <1>4, <1>5, <1>6 DEF MatchesTail, all, new

LEMMA EndsTransitive ==
  ASSUME NEW S, NEW s \in Seq(S), NEW m \in Seq(S), NEW x \in Seq(S),
         MatchesTail(s, m, Len(m)), MatchesTail(m, x, Len(x))
  PROVE  MatchesTail(s, x, Len(x))
<1>1. /\ Len(s) \in Nat /\ Len(m) \in Nat /\ Len(x) \in Nat
      /\ Len(m) <= Len(s) /\ Len(x) <= Len(m)
      /\ \A i \in 1..Len(m) : s[Len(s) - Len(m) + i] = m[i]
      /\ \A i \in 1..Len(x) : m[Len(m) - Len(x) + i] = x[i]
  BY LenProperties DEF MatchesTail
<1>2. ASSUME NEW i \in 1..Len(x) PROVE s[Len(s) - Len(x) + i] = x[i]
  <2>1. /\ Len(m) - Len(x) + i \in 1..Len(m)
        /\ Len(s) - Len(m) + (Len(m) - Len(x) + i) = Len(s) - Len(x) + i
    BY <1>1
  <2> QED
    BY <1>1, <2>1
<1> QED
  BY <1>1, <1>2 DEF MatchesTail

(* A checkpoint that is a prefix of the batch leaves the rest of it.       *)
LEMMA PrefixIsMatched ==
  ASSUME NEW S, NEW f \in Seq(S), NEW k \in 0..Len(f)
  PROVE  Unmatched(SubSeq(f, 1, k), f) = SubSeq(f, k + 1, Len(f))
<1> DEFINE p == SubSeq(f, 1, k)
           n == Overlap(p, f)
<1>1. p \in Seq(S) /\ Len(p) = k /\ (\A i \in 1..k : p[i] = f[i]) /\ Len(f) \in Nat /\ k \in Nat
  BY PrefixProperties, LenProperties
<1> HIDE DEF p
<1>2. MatchesTail(p, f, k)
  BY <1>1 DEF MatchesTail
<1>3. /\ n \in 0..Len(f) /\ n <= Len(p)
      /\ \A j \in (n + 1)..Len(f) : ~ MatchesTail(p, f, j)
  <2>1. /\ n \in 0..Len(f) /\ MatchesTail(p, f, n)
        /\ \A j \in (n + 1)..Len(f) : ~ MatchesTail(p, f, j)
    BY <1>1, OverlapIsMatch
  <2>2. n <= Len(p)
    BY <2>1 DEF MatchesTail
  <2> QED
    BY <2>1, <2>2
<1> HIDE DEF n
<1>4. n = k
  BY <1>1, <1>2, <1>3
<1> QED
  BY <1>4 DEF Unmatched, n, p

(* A prefix grows by what is confirmed of the rest. *)
LEMMA PrefixGrows ==
  ASSUME NEW S, NEW f \in Seq(S), NEW k \in 0..Len(f),
         NEW n \in 0..Len(SubSeq(f, k + 1, Len(f)))
  PROVE  LET rest == SubSeq(f, k + 1, Len(f))
         IN  /\ Len(rest) = Len(f) - k /\ k + n \in 0..Len(f)
             /\ SubSeq(f, 1, k) \o SubSeq(rest, 1, n) = SubSeq(f, 1, k + n)
             /\ SubSeq(rest, n + 1, Len(rest)) = SubSeq(f, (k + n) + 1, Len(f))
<1> DEFINE rest == SubSeq(f, k + 1, Len(f))
           p == SubSeq(f, 1, k)
           q == SubSeq(rest, 1, n)
           more == SubSeq(rest, n + 1, Len(rest))
           left == SubSeq(f, (k + n) + 1, Len(f))
           whole == SubSeq(f, 1, k + n)
<1>1. Len(f) \in Nat /\ k \in Nat /\ k <= Len(f) /\ k + 1 \in 1..(Len(f) + 1)
  BY LenProperties
<1>2. rest \in Seq(S) /\ Len(rest) = Len(f) - k /\ \A i \in 1..(Len(f) - k) : rest[i] = f[k + i]
  <2>1. /\ rest \in Seq(S) /\ Len(rest) = Len(f) - (k + 1) + 1
        /\ \A i \in 1..(Len(f) - (k + 1) + 1) : rest[i] = f[(k + 1) + i - 1]
    BY <1>1, SuffixProperties
  <2> QED
    BY <1>1, <2>1
<1>3. n \in Nat /\ n <= Len(f) - k /\ k + n \in 0..Len(f)
  BY <1>1, <1>2
<1>4. p \in Seq(S) /\ Len(p) = k /\ \A i \in 1..k : p[i] = f[i]
  BY PrefixProperties
<1>5. whole \in Seq(S) /\ Len(whole) = k + n /\ \A i \in 1..(k + n) : whole[i] = f[i]
  BY <1>3, PrefixProperties
<1>6. q \in Seq(S) /\ Len(q) = n /\ \A i \in 1..n : q[i] = rest[i]
  BY <1>2, PrefixProperties
<1>7. /\ more \in Seq(S) /\ Len(more) = Len(rest) - (n + 1) + 1
      /\ \A i \in 1..(Len(rest) - (n + 1) + 1) : more[i] = rest[(n + 1) + i - 1]
  <2>1. n + 1 \in 1..(Len(rest) + 1)
    BY <1>1, <1>2, <1>3
  <2> HIDE DEF rest
  <2> QED
    BY <1>2, <2>1, SuffixProperties
<1>8. /\ left \in Seq(S) /\ Len(left) = Len(f) - ((k + n) + 1) + 1
      /\ \A i \in 1..(Len(f) - ((k + n) + 1) + 1) : left[i] = f[((k + n) + 1) + i - 1]
  <2>1. (k + n) + 1 \in 1..(Len(f) + 1)
    BY <1>1, <1>3
  <2> QED
    BY <2>1, SuffixProperties
<1> HIDE DEF rest, p, q, more, left, whole
<1>9. p \o q = whole
  <2>1. /\ p \o q \in Seq(S) /\ Len(p \o q) = k + n
        /\ \A i \in 1..(k + n) : (p \o q)[i] = IF i <= k THEN p[i] ELSE q[i - k]
    <3>1. p \in Seq(S) /\ q \in Seq(S)
      BY <1>4, <1>6
    <3>2. /\ p \o q \in Seq(S) /\ Len(p \o q) = Len(p) + Len(q)
          /\ \A i \in 1..(Len(p) + Len(q)) :
               (p \o q)[i] = IF i <= Len(p) THEN p[i] ELSE q[i - Len(p)]
      BY <3>1, ConcatProperties, Zenon
    <3> QED
      BY <1>4, <1>6, <3>2, Zenon
  <2>2. ASSUME NEW i \in 1..(k + n) PROVE (p \o q)[i] = whole[i]
    <3>1. CASE i <= k
      <4>1. i \in 1..k /\ (p \o q)[i] = p[i]
        BY <1>1, <2>1, <3>1
      <4>2. p[i] = f[i] /\ whole[i] = f[i]
        BY <1>4, <1>5, <4>1
      <4> QED
        BY <4>1, <4>2
    <3>2. CASE ~ (i <= k)
      <4>1. i - k \in 1..n /\ i - k \in 1..(Len(f) - k) /\ k + (i - k) = i
        BY <1>1, <1>3, <3>2
      <4> QED
        BY <1>2, <1>5, <1>6, <2>1, <3>2, <4>1
    <3> QED
      BY <3>1, <3>2
  <2> QED
    BY <1>5, <2>1, <2>2, SeqEqual
<1>10. more = left
  <2>1. Len(more) = Len(f) - (k + n) /\ Len(left) = Len(f) - (k + n)
    BY <1>1, <1>2, <1>3, <1>7, <1>8
  <2>2. ASSUME NEW i \in 1..(Len(f) - (k + n)) PROVE more[i] = left[i]
    <3> DEFINE j == (n + 1) + i - 1
    <3>1. /\ j \in 1..(Len(f) - k) /\ k + j = ((k + n) + 1) + i - 1
          /\ i \in 1..(Len(rest) - (n + 1) + 1) /\ i \in 1..(Len(f) - ((k + n) + 1) + 1)
      BY <1>1, <1>2, <1>3
    <3>2. more[i] = rest[j]
      BY <1>7, <3>1
    <3> HIDE DEF j
    <3>3. rest[j] = f[((k + n) + 1) + i - 1]
      BY <1>2, <3>1
    <3>4. left[i] = f[((k + n) + 1) + i - 1]
      BY <1>8, <3>1
    <3> QED
      BY <3>2, <3>3, <3>4
  <2> QED
    BY <1>7, <1>8, <2>1, <2>2, SeqEqual
<1> QED
  BY <1>2, <1>3, <1>9, <1>10 DEF rest, p, q, more, left, whole

-----------------------------------------------------------------------------
(***************************************************************************)
(* A host that commits in order.                                           *)
(*                                                                         *)
(* Its calls stand in line in the order of their turns (OrderInv), so the  *)
(* turn that runs is never overtaken.  A batch under way is what its       *)
(* checkpoint lacks (SendingInv).  A turn that lost its session owes what  *)
(* follows the prefix that the checkpoint has of it, and no other turn is  *)
(* in line until it has paid (DebtInv).  A covered turn is not under way,  *)
(* and the latest one is where the checkpoint ends (CoverInv).             *)
(***************************************************************************)

Full(t) == Bounded(Transcript[t])
InLine == {"queued"} \cup Running
Sending == {"client", "rpc", "rpcDone", "seed", "seedDone"}

(* A host that calls commitTurn alone, and for a turn once the one before  *)
(* is committed.                                                           *)
OrderedHost == DurableHost /\ InOrderHost /\ ~ AfterTurnHost

(* Each call under way leads a turn of its own, and they run in the order  *)
(* of the turns.                                                           *)
OrderInv ==
  /\ told \subseteq 1..begun /\ \A t \in Turns : t < begun => t \in told
  /\ \A c \in Calls : task[c].step # "none" <=> call[c].pc = "lead"
  /\ \A c \in Calls : task[c].step # "none" => task[c].turn <= begun
  /\ \A c \in Calls : task[c].step \in InLine <=> c \in Range(queue)
  /\ \A i, j \in 1..Len(queue) : i < j => task[queue[i]].turn < task[queue[j]].turn

LEMMA LineSteps ==
  /\ InLine = {"queued", "client", "rpc", "rpcDone", "seed", "seedDone", "post"}
  /\ Sending \subseteq InLine /\ Settled \cap InLine = {} /\ "none" \notin InLine
BY DEF InLine, Sending, Settled, Running

LEMMA NumbersOrdered ==
  ASSUME TypeOK
  PROVE  /\ begun \in Nat /\ Turns \subseteq Nat \ {0} /\ NTurns \in Nat
         /\ \A c \in Calls : task[c].turn \in Turns
<1>1. \A c \in Calls : task[c].turn \in Turns
  BY TaskType
<1> QED
  BY <1>1, TurnsAssumption DEF TypeOK, Turns

(* The place of a slot in line. *)
LEMMA PlaceInLine ==
  ASSUME TypeOK, OrderInv, NEW c \in Calls, task[c].step \in InLine
  PROVE  \E i \in 1..Len(queue) : queue[i] = c
<1>1. queue \in Seq(Calls) /\ c \in Range(queue)
  BY DEF TypeOK, OrderInv
<1> QED
  BY <1>1, RangeEquality

(* Two calls under way are not for one turn. *)
LEMMA TurnsApart ==
  ASSUME Inductive, OrderInv, NEW c \in Calls, NEW d \in Calls, c # d,
         task[c].step # "none", task[d].step # "none"
  PROVE  task[c].turn # task[d].turn
BY DEF Inductive, OrderInv, LeadersInFlight

(* The one that runs is for the earliest turn. *)
LEMMA HeadIsEarliest ==
  ASSUME TypeOK, OrderInv, NEW c \in Calls, queue # << >>, Head(queue) = c,
         NEW d \in Calls, d # c, task[d].step \in InLine
  PROVE  task[c].turn < task[d].turn
<1>1. queue \in Seq(Calls) /\ Len(queue) \in Nat \ {0} /\ queue[1] = c
  BY LenProperties, EmptySeq, HeadTailProperties DEF TypeOK
<1>2. PICK i \in 1..Len(queue) : queue[i] = d
  BY PlaceInLine
<1>3. 1 < i /\ 1 \in 1..Len(queue)
  BY <1>1, <1>2
<1> QED
  BY <1>1, <1>2, <1>3 DEF OrderInv

(* What EndTask does to the line. *)
LEMMA EndTaskFrame ==
  ASSUME Inductive, OrderInv, NEW c \in Calls, NEW outcome \in Settled,
         task[c].step \in InLine, EndTask(c, outcome)
  PROVE  /\ task'[c].step = outcome /\ task'[c].turn = task[c].turn
         /\ \A d \in Calls \ {c} : task'[d] = task[d]
         /\ queue' = Tail(queue)
<1>1. task[c].awaited
  BY LineSteps DEF Inductive, OrderInv, LeadersInFlight
<1>2. TypeOK /\ outcome \in Steps /\ task \in [Calls -> Tasks]
  BY DEF Inductive, TypeOK, Settled, Steps
<1>3. /\ task'[c] = Remains(c, outcome) /\ queue' = Tail(queue)
      /\ \A d \in Calls \ {c} : task'[d] = task[d]
  BY <1>1, <1>2 DEF EndTask
<1> QED
  BY <1>2, <1>3, RemainsType

(* A step of an ingestion leaves it in line, or ends it and the line moves.*)
Goes(c) ==
  /\ UNCHANGED <<call, memo, inFlight, begun, told>>
  /\ task[c].step \in InLine /\ queue # << >> /\ Head(queue) = c
  /\ task'[c].turn = task[c].turn
  /\ \A d \in Calls \ {c} : task'[d] = task[d]
  /\ \/ task'[c].step \in InLine /\ queue' = queue
     \/ task'[c].step \in Settled /\ queue' = Tail(queue)

LEMMA HeadRuns ==
  ASSUME Inductive, NEW c \in Calls, TaskStep(c)
  PROVE  /\ task[c].step \in InLine /\ queue # << >> /\ Head(queue) = c
         /\ UNCHANGED <<call, memo, inFlight, begun, told>>
<1>1. task[c].step \in Running \/ (task[c].step = "queued" /\ Runnable(c))
  BY DEF TaskStep, Fenced, FencePoints, StartIngestion, ClientFails, SendBatch, DaemonServes,
         RpcFails, RecoverGap, Persist, Replied, PersistFails, PostIngest, Running
<1>2. UNCHANGED hostVars
  BY DEF TaskStep, Fenced, StartIngestion, ClientFails, SendBatch, DaemonServes,
         RpcFails, RecoverGap, Persist, PersistFails, PostIngest
<1>3. task[c].step \in Running => queue # << >> /\ Head(queue) = c
  BY DEF Inductive, RunningIsHead
<1> QED
  BY <1>1, <1>2, <1>3 DEF Runnable, InLine, hostVars

LEMMA TaskGoes ==
  ASSUME Inductive, OrderInv, NEW c \in Calls, TaskStep(c)
  PROVE  Goes(c)
<1>1. /\ task[c].step \in InLine /\ queue # << >> /\ Head(queue) = c
      /\ UNCHANGED <<call, memo, inFlight, begun, told>>
  BY HeadRuns
<1>2. TypeOK /\ task \in [Calls -> Tasks] /\ task[c] \in Tasks
  BY DEF Inductive, TypeOK
<1>3. CASE \E outcome \in Settled : EndTask(c, outcome)
  <2>1. PICK outcome \in Settled : EndTask(c, outcome)
    BY <1>3
  <2>2. /\ task'[c].step = outcome /\ task'[c].turn = task[c].turn
        /\ \A d \in Calls \ {c} : task'[d] = task[d]
        /\ queue' = Tail(queue)
    BY <1>1, <2>1, EndTaskFrame
  <2> QED
    BY <1>1, <2>1, <2>2 DEF Goes
<1>4. ASSUME StartIngestion(c), ~ EndTask(c, "ok") PROVE Goes(c)
  <2>1. PICK batch : task' = [task EXCEPT ![c].step = "client", ![c].msgs = << >>,
                                ![c].base = manifest, ![c].batch = batch]
    BY <1>4 DEF StartIngestion
  <2>2. /\ task'[c] = [task[c] EXCEPT !.step = "client", !.msgs = << >>,
                         !.base = manifest, !.batch = batch]
        /\ \A d \in Calls \ {c} : task'[d] = task[d]
    BY <1>2, <2>1
  <2>3. task'[c].step = "client" /\ task'[c].turn = task[c].turn
    BY <1>2, <2>2 DEF Tasks
  <2>4. queue' = queue
    BY <1>4 DEF StartIngestion
  <2> QED
    BY <1>1, <2>2, <2>3, <2>4, LineSteps DEF Goes
<1>5. ASSUME SendBatch(c) PROVE Goes(c)
  <2>1. /\ task'[c] = [task[c] EXCEPT !.step = "rpc"] /\ queue' = queue
        /\ \A d \in Calls \ {c} : task'[d] = task[d]
    BY <1>2, <1>5 DEF SendBatch
  <2>2. task'[c].step = "rpc" /\ task'[c].turn = task[c].turn
    BY <1>2, <2>1 DEF Tasks
  <2> QED
    BY <1>1, <2>1, <2>2, LineSteps DEF Goes
<1>6. ASSUME DaemonServes(c) PROVE Goes(c)
  <2>1. PICK kind, n : Reply(c, kind, n)
    BY <1>6 DEF DaemonServes
  <2>2. queue' = queue /\ task[c].step \in {"rpc", "seed"}
    BY <1>6 DEF DaemonServes
  <2>3. \A d \in Calls \ {c} : task'[d] = task[d]
    BY <1>2, <2>1 DEF Reply
  <2>4. task'[c].step \in {"rpcDone", "seedDone"} /\ task'[c].turn = task[c].turn
    BY <1>2, <2>1 DEF Reply, Tasks
  <2> QED
    BY <1>1, <2>2, <2>3, <2>4, LineSteps DEF Goes
<1>7. ASSUME RecoverGap(c) PROVE Goes(c)
  <2>1. PICK batch : task' = [task EXCEPT ![c].step = "seed", ![c].base = Disproved,
                                ![c].batch = batch, ![c].reply = NoReply]
    BY <1>7 DEF RecoverGap
  <2>2. /\ task'[c] = [task[c] EXCEPT !.step = "seed", !.base = Disproved,
                         !.batch = batch, !.reply = NoReply]
        /\ \A d \in Calls \ {c} : task'[d] = task[d]
    BY <1>2, <2>1
  <2>3. task'[c].step = "seed" /\ task'[c].turn = task[c].turn
    BY <1>2, <2>2 DEF Tasks
  <2>4. queue' = queue
    BY <1>7 DEF RecoverGap
  <2> QED
    BY <1>1, <2>2, <2>3, <2>4, LineSteps DEF Goes
<1>8. ASSUME Persist(c), ~ EndTask(c, "failed") PROVE Goes(c)
  <2>1. task' = [task EXCEPT ![c] = Remains(c, "post")] /\ queue' = queue
    BY <1>8 DEF Persist
  <2>2. /\ task'[c] = Remains(c, "post")
        /\ \A d \in Calls \ {c} : task'[d] = task[d]
    BY <1>2, <2>1
  <2>3. task'[c].step = "post" /\ task'[c].turn = task[c].turn
    BY <1>2, <2>2, RemainsType DEF Steps
  <2> QED
    BY <1>1, <2>1, <2>2, <2>3, LineSteps DEF Goes
<1> QED
  BY <1>3, <1>4, <1>5, <1>6, <1>7, <1>8
     DEF TaskStep, Fenced, ClientFails, RpcFails, PersistFails, PostIngest, Settled

(* A line of distinct slots loses its first. *)
LEMMA LineMoves ==
  ASSUME TypeOK, OrderInv, NEW c \in Calls, queue # << >>, Head(queue) = c
  PROVE  /\ Len(Tail(queue)) = Len(queue) - 1 /\ Len(queue) \in Nat \ {0}
         /\ \A i \in 1..(Len(queue) - 1) : Tail(queue)[i] = queue[i + 1]
         /\ Range(Tail(queue)) = Range(queue) \ {c}
<1>1. /\ queue \in Seq(Calls) /\ Len(queue) \in Nat \ {0} /\ queue[1] = c
      /\ Tail(queue) \in Seq(Calls) /\ Len(Tail(queue)) = Len(queue) - 1
      /\ \A i \in 1..(Len(queue) - 1) : Tail(queue)[i] = queue[i + 1]
  BY LenProperties, EmptySeq, HeadTailProperties DEF TypeOK
<1>2. \A i \in 2..Len(queue) : queue[i] # c
  <2> SUFFICES ASSUME NEW i \in 2..Len(queue), queue[i] = c PROVE FALSE
    OBVIOUS
  <2>1. 1 \in 1..Len(queue) /\ i \in 1..Len(queue) /\ 1 < i
    BY <1>1
  <2>2. task[c].turn < task[c].turn
    BY <1>1, <2>1 DEF OrderInv
  <2> QED
    BY <2>2, NumbersOrdered
<1>3. /\ Range(queue) = {queue[i] : i \in 1..Len(queue)}
      /\ Range(Tail(queue)) = {Tail(queue)[i] : i \in 1..Len(Tail(queue))}
  BY <1>1, RangeEquality
<1>4. Range(Tail(queue)) \subseteq Range(queue) \ {c}
  <2> SUFFICES ASSUME NEW i \in 1..(Len(queue) - 1)
               PROVE Tail(queue)[i] \in Range(queue) \ {c}
    BY <1>1, <1>3
  <2>1. i + 1 \in 2..Len(queue) /\ i + 1 \in 1..Len(queue)
    BY <1>1
  <2> QED
    BY <1>1, <1>2, <1>3, <2>1
<1>5. Range(queue) \ {c} \subseteq Range(Tail(queue))
  <2> SUFFICES ASSUME NEW i \in 1..Len(queue), queue[i] # c
               PROVE queue[i] \in Range(Tail(queue))
    BY <1>3
  <2>1. i - 1 \in 1..(Len(queue) - 1) /\ (i - 1) + 1 = i
    BY <1>1
  <2>2. Tail(queue)[i - 1] = queue[i]
    BY <1>1, <2>1
  <2> QED
    BY <1>1, <1>3, <2>1, <2>2
<1> QED
  BY <1>1, <1>4, <1>5

LEMMA OrderGoes ==
  ASSUME Inductive, OrderInv, NEW c \in Calls, Goes(c)
  PROVE  OrderInv'
<1>1. TypeOK
  BY DEF Inductive
<1>2. /\ UNCHANGED <<call, begun, told>> /\ queue # << >> /\ Head(queue) = c
      /\ task[c].step \in InLine /\ task'[c].turn = task[c].turn
      /\ \A d \in Calls \ {c} : task'[d] = task[d]
  BY DEF Goes
<1>3. \A d \in Calls : task'[d].turn = task[d].turn
  BY <1>2
<1>4. task[c].step # "none" /\ task'[c].step # "none"
  BY <1>2, LineSteps DEF Goes, Settled
<1>5. /\ \A d \in Calls : task'[d].step # "none" <=> call'[d].pc = "lead"
      /\ \A d \in Calls : task'[d].step # "none" => task'[d].turn <= begun'
  BY <1>2, <1>3, <1>4 DEF OrderInv
<1>6. CASE task'[c].step \in InLine /\ queue' = queue
  <2>1. \A d \in Calls : task'[d].step \in InLine <=> d \in Range(queue')
    BY <1>2, <1>6 DEF OrderInv
  <2>2. \A i \in 1..Len(queue) : queue[i] \in Calls
    BY <1>1, LenProperties DEF TypeOK
  <2>3. \A i, j \in 1..Len(queue') : i < j => task'[queue'[i]].turn < task'[queue'[j]].turn
    BY <1>3, <1>6, <2>2 DEF OrderInv
  <2> QED
    BY <1>2, <1>5, <2>1, <2>3 DEF OrderInv
<1>7. CASE task'[c].step \in Settled /\ queue' = Tail(queue)
  <2>1. /\ Len(queue') = Len(queue) - 1 /\ Len(queue) \in Nat \ {0}
        /\ \A i \in 1..(Len(queue) - 1) : queue'[i] = queue[i + 1]
        /\ Range(queue') = Range(queue) \ {c}
    BY <1>1, <1>2, <1>7, LineMoves
  <2>2. task'[c].step \notin InLine
    BY <1>7, LineSteps
  <2>3. \A d \in Calls : task'[d].step \in InLine <=> d \in Range(queue')
    BY <1>2, <2>1, <2>2 DEF OrderInv
  <2>4. \A i \in 1..Len(queue) : queue[i] \in Calls
    BY <1>1, LenProperties DEF TypeOK
  <2>5. ASSUME NEW i \in 1..Len(queue'), NEW j \in 1..Len(queue'), i < j
        PROVE  task'[queue'[i]].turn < task'[queue'[j]].turn
    <3>1. i + 1 \in 1..Len(queue) /\ j + 1 \in 1..Len(queue) /\ i + 1 < j + 1
      BY <2>1, <2>5
    <3>2. task[queue[i + 1]].turn < task[queue[j + 1]].turn
      BY <3>1 DEF OrderInv
    <3>3. queue'[i] = queue[i + 1] /\ queue'[j] = queue[j + 1]
      BY <2>1, <2>5
    <3> QED
      BY <1>3, <2>4, <3>1, <3>2, <3>3
  <2> QED
    BY <1>2, <1>5, <2>3, <2>5 DEF OrderInv
<1> QED
  BY <1>6, <1>7 DEF Goes

(* Which turns a host that keeps the order may call for. *)
LEMMA CallsInOrder ==
  ASSUME OrderedHost, Inductive, OrderInv, NEW c \in Calls, NEW t \in Turns, Callable(c, t)
  PROVE  /\ task[c].step = "none" /\ call[c].pc # "lead" /\ c \notin Range(queue)
         /\ \/ t = begun /\ begun' = begun
            \/ t = begun + 1 /\ begun' = t /\ (begun > 0 => begun \in told)
<1>1. begun \in Nat /\ t \in Nat
  BY NumbersOrdered DEF Inductive
<1>2. task[c].step = "none" /\ HostMayCall(t) /\ begun' = IF t > begun THEN t ELSE begun
  BY DEF Callable
<1>3. t = begun \/ (t = begun + 1 /\ (begun > 0 => begun \in told))
  BY <1>2 DEF HostMayCall, OrderedHost
<1>4. call[c].pc # "lead" /\ c \notin Range(queue)
  BY <1>2, LineSteps DEF OrderInv
<1> QED
  BY <1>1, <1>2, <1>3, <1>4

(* A turn that leads is not under way yet, and later than those that are.  *)
LEMMA LeadIsLatest ==
  ASSUME OrderedHost, Inductive, OrderInv, NEW c \in Calls, NEW t \in Turns, Callable(c, t),
         ~ InFlight(t), NEW d \in Calls, task[d].step # "none"
  PROVE  d # c /\ task[d].turn < t
<1>1. begun \in Nat /\ t \in Nat /\ task[d].turn \in Nat
  BY NumbersOrdered DEF Inductive
<1>2. task[d].turn <= begun /\ call[d].pc = "lead" /\ d # c
  BY CallsInOrder DEF OrderInv
<1>3. inFlight[task[d].turn] = d
  BY <1>2 DEF Inductive, LeadersInFlight
<1>4. task[d].turn # t
  BY <1>3, BoundsAssumption DEF InFlight
<1> QED
  BY <1>1, <1>2, <1>4, CallsInOrder

LEMMA OrderLeads ==
  ASSUME OrderedHost, Inductive, OrderInv, NEW c \in Calls, NEW e \in Engines, NEW t \in Turns,
         CommitLead(c, e, t)
  PROVE  OrderInv'
<1>1. /\ Callable(c, t) /\ ~ InFlight(t) /\ AfterTurn(c, e, t, TRUE) /\ told' = told
      /\ call' = [call EXCEPT ![c] = [pc |-> "lead", turn |-> t, res |-> "none"]]
  BY DEF CommitLead
<1>2. /\ TypeOK /\ task \in [Calls -> Tasks] /\ call \in [Calls -> CallRecords]
      /\ queue \in Seq(Calls) /\ Len(queue) \in Nat
      /\ \A i \in 1..Len(queue) : queue[i] \in Calls
  BY LenProperties DEF Inductive, TypeOK
<1>3. /\ task[c].step = "none" /\ call[c].pc # "lead" /\ c \notin Range(queue)
      /\ \/ t = begun /\ begun' = begun
         \/ t = begun + 1 /\ begun' = t /\ (begun > 0 => begun \in told)
  BY <1>1, CallsInOrder
<1>4. begun \in Nat /\ t \in Nat /\ begun' \in Nat /\ begun <= begun' /\ t <= begun'
      /\ Turns \subseteq Nat \ {0}
      /\ \A d \in Calls : task[d].turn \in Nat
  BY <1>2, <1>3, NumbersOrdered
<1>5. /\ \A d \in Calls \ {c} : task'[d] = task[d]
      /\ task'[c].turn = t
      /\ \/ task'[c].step = "skipped" /\ queue' = queue
         \/ task'[c].step = "queued" /\ queue' = Append(queue, c)
  <2>1. PICK x \in {[NoTask EXCEPT !.step = "skipped", !.turn = t, !.awaited = TRUE],
                    [[NoTask EXCEPT !.turn = t, !.awaited = TRUE, !.engine = e,
                        !.token = lifecycle,
                        !.msgs = SelectMessages(t, manifest.recovery)]
                       EXCEPT !.step = "queued"]} :
          /\ task' = [task EXCEPT ![c] = x]
          /\ \/ x.step = "skipped" /\ queue' = queue
             \/ x.step = "queued" /\ queue' = Append(queue, c)
    BY <1>1 DEF AfterTurn, NoTask
  <2>2. x.turn = t
    BY DEF NoTask
  <2>3. task'[c] = x /\ \A d \in Calls \ {c} : task'[d] = task[d]
    BY <1>2, <2>1
  <2> QED
    BY <2>1, <2>2, <2>3
<1>6. told' \subseteq 1..begun' /\ \A u \in Turns : u < begun' => u \in told'
  <2>1. told \subseteq 1..begun /\ \A u \in Turns : u < begun => u \in told
    BY DEF OrderInv
  <2>2. 1..begun \subseteq 1..begun'
    BY <1>4
  <2>3. \A u \in Turns : u < begun' => u < begun \/ (u = begun /\ begun > 0 /\ begun \in told)
    <3> SUFFICES ASSUME NEW u \in Turns, u < begun', ~ (u < begun)
                 PROVE  u = begun /\ begun > 0 /\ begun \in told
      OBVIOUS
    <3>1. u \in Nat \ {0}
      BY <1>4
    <3> QED
      BY <1>3, <1>4, <3>1
  <2> QED
    BY <1>1, <2>1, <2>2, <2>3
<1>7. \A d \in Calls : task'[d].step # "none" <=> call'[d].pc = "lead"
  <2>1. call'[c].pc = "lead" /\ \A d \in Calls \ {c} : call'[d] = call[d]
    BY <1>1, <1>2
  <2> QED
    BY <1>5, <2>1 DEF OrderInv
<1>8. \A d \in Calls : task'[d].step # "none" => task'[d].turn <= begun'
  <2>1. \A d \in Calls \ {c} : task[d].step # "none" => task[d].turn <= begun'
    BY <1>4 DEF OrderInv
  <2> QED
    BY <1>4, <1>5, <2>1
<1>9. CASE task'[c].step = "skipped" /\ queue' = queue
  <2>1. \A d \in Calls : task'[d].step \in InLine <=> d \in Range(queue')
    BY <1>3, <1>5, <1>9, LineSteps DEF OrderInv, Settled
  <2>2. \A i \in 1..Len(queue) : queue[i] # c
    BY <1>2, <1>3, RangeEquality
  <2>3. \A i, j \in 1..Len(queue') : i < j => task'[queue'[i]].turn < task'[queue'[j]].turn
    BY <1>2, <1>5, <1>9, <2>2 DEF OrderInv
  <2> QED
    BY <1>6, <1>7, <1>8, <2>1, <2>3 DEF OrderInv
<1>10. CASE task'[c].step = "queued" /\ queue' = Append(queue, c)
  <2>1. /\ queue' \in Seq(Calls) /\ Len(queue') = Len(queue) + 1
        /\ \A i \in 1..Len(queue) : queue'[i] = queue[i]
        /\ queue'[Len(queue) + 1] = c
    BY <1>2, <1>10, AppendProperties
  <2>2. Range(queue') = Range(queue) \cup {c}
    <3>1. /\ Range(queue') = {queue'[i] : i \in 1..(Len(queue) + 1)}
          /\ Range(queue) = {queue[i] : i \in 1..Len(queue)}
      BY <1>2, <2>1, RangeEquality
    <3> QED
      BY <1>2, <2>1, <3>1
  <2>3. \A d \in Calls : task'[d].step \in InLine <=> d \in Range(queue')
    BY <1>5, <1>10, <2>2, LineSteps DEF OrderInv
  <2>4. \A i \in 1..Len(queue) : queue[i] # c /\ task[queue[i]].step # "none"
                                  /\ task[queue[i]].turn < t
    <3> TAKE i \in 1..Len(queue)
    <3>1. queue[i] \in Range(queue) /\ queue[i] \in Calls
      BY <1>2, RangeEquality
    <3>2. task[queue[i]].step # "none"
      BY <3>1, LineSteps DEF OrderInv
    <3> QED
      BY <1>1, <3>1, <3>2, LeadIsLatest
  <2>5. ASSUME NEW i \in 1..Len(queue'), NEW j \in 1..Len(queue'), i < j
        PROVE  task'[queue'[i]].turn < task'[queue'[j]].turn
    <3>1. i \in 1..Len(queue) /\ queue'[i] = queue[i] /\ task'[queue[i]] = task[queue[i]]
      BY <1>2, <1>5, <2>1, <2>4, <2>5
    <3>2. CASE j \in 1..Len(queue)
      <4>1. queue'[j] = queue[j] /\ task'[queue[j]] = task[queue[j]]
        BY <1>2, <1>5, <2>1, <2>4, <3>2
      <4>2. task[queue[i]].turn < task[queue[j]].turn
        BY <2>5, <3>1, <3>2 DEF OrderInv
      <4> QED
        BY <3>1, <4>1, <4>2
    <3>3. CASE j = Len(queue) + 1
      BY <1>5, <2>1, <2>4, <3>1, <3>3
    <3> QED
      BY <1>2, <2>1, <3>2, <3>3
  <2> QED
    BY <1>6, <1>7, <1>8, <2>3, <2>5 DEF OrderInv
<1> QED
  BY <1>5, <1>9, <1>10

(* An answer takes no one out of line. *)
LEMMA OrderSettles ==
  ASSUME Inductive, OrderInv, NEW c \in Calls, Settle(c)
  PROVE  OrderInv'
<1> DEFINE t == task[c].turn
<1>1. /\ call[c].pc = "lead" /\ task[c].step \in Settled
      /\ task' = [task EXCEPT ![c] = NoTask] /\ UNCHANGED <<queue, begun>>
      /\ call' = [d \in Calls |-> IF d \in {c} \cup Joined(c)
                                    THEN [pc |-> "done", turn |-> t, res |-> AnswerOf(c, d)]
                                    ELSE call[d]]
      /\ told' \in {told, told \cup {t}}
  BY DEF Settle
<1>2. /\ TypeOK /\ task \in [Calls -> Tasks] /\ queue \in Seq(Calls)
      /\ t \in Nat \ {0} /\ begun \in Nat
  BY NumbersOrdered DEF Inductive, TypeOK
<1>3. \A d \in Calls \ {c} : task'[d] = task[d]
  BY <1>1, <1>2
<1>4. task'[c].step = "none" /\ task[c].step # "none" /\ task[c].step \notin InLine
  BY <1>1, <1>2, LineSteps DEF NoTask, Settled
<1>5. \A d \in Calls : task'[d].step # "none" <=> call'[d].pc = "lead"
  <2>1. call'[c].pc = "done"
    BY <1>1
  <2>2. \A d \in Calls \ {c} : call'[d].pc = "lead" <=> call[d].pc = "lead"
    BY <1>1 DEF Joined
  <2> QED
    BY <1>3, <1>4, <2>1, <2>2 DEF OrderInv
<1>6. told' \subseteq 1..begun' /\ \A u \in Turns : u < begun' => u \in told'
  <2>1. t <= begun
    BY <1>4 DEF OrderInv
  <2> QED
    BY <1>1, <1>2, <2>1 DEF OrderInv
<1>7. \A d \in Calls : task'[d].step # "none" => task'[d].turn <= begun'
  BY <1>1, <1>3, <1>4 DEF OrderInv
<1>8. \A d \in Calls : task'[d].step \in InLine <=> d \in Range(queue')
  BY <1>1, <1>3, <1>4, LineSteps DEF OrderInv
<1>9. \A i, j \in 1..Len(queue') : i < j => task'[queue'[i]].turn < task'[queue'[j]].turn
  <2>1. \A i \in 1..Len(queue) : queue[i] \in Calls /\ queue[i] # c
    <3>1. c \notin Range(queue)
      BY <1>4 DEF OrderInv
    <3> QED
      BY <1>2, <3>1, RangeEquality
  <2> QED
    BY <1>1, <1>3, <2>1 DEF OrderInv
<1> QED
  BY <1>5, <1>6, <1>7, <1>8, <1>9 DEF OrderInv

(* Calls that follow a leader, or the memo, change no order. *)
LEMMA FollowsInOrder ==
  ASSUME OrderedHost, Inductive, OrderInv, NEW c \in Calls, NEW t \in Turns,
         CommitKnown(c, t) \/ CommitJoin(c, t)
  PROVE  OrderInv' /\ UNCHANGED <<begun, told, task>>
<1>1. /\ Callable(c, t) /\ UNCHANGED <<task, queue>>
      /\ \/ t \in Range(memo) /\ told' = told \cup {t}
         \/ InFlight(t) /\ told' = told
      /\ call' = [call EXCEPT ![c] = [pc |-> "done", turn |-> t, res |-> "duplicate"]]
         \/ call' = [call EXCEPT ![c] = [pc |-> "join", turn |-> t, res |-> "none"]]
  BY DEF CommitKnown, CommitJoin
<1>2. /\ task[c].step = "none" /\ call[c].pc # "lead"
      /\ \/ t = begun /\ begun' = begun
         \/ t = begun + 1 /\ begun' = t /\ (begun > 0 => begun \in told)
  BY <1>1, CallsInOrder
<1>3. begun \in Nat /\ call \in [Calls -> CallRecords] /\ inFlight \in [Turns -> Calls \cup {None}]
  BY NumbersOrdered DEF Inductive, TypeOK
<1>4. told' = told
  BY <1>1 DEF Inductive
<1>5. t <= begun
  <2>1. CASE t \in Range(memo)
    <3>1. t \in told
      BY <2>1 DEF Inductive
    <3>2. told \subseteq 1..begun
      BY DEF OrderInv
    <3> QED
      BY <1>3, <3>1, <3>2
  <2>2. CASE InFlight(t)
    <3>1. inFlight[t] \in Calls /\ call[inFlight[t]].pc = "lead" /\ call[inFlight[t]].turn = t
      BY <1>3, <2>2 DEF InFlight, Inductive, LeadersInFlight
    <3>2. task[inFlight[t]].turn = t /\ task[inFlight[t]].step # "none"
      BY <3>1 DEF Inductive, LeadersInFlight, OrderInv
    <3> QED
      BY <3>1, <3>2 DEF OrderInv
  <2> QED
    BY <1>1, <2>1, <2>2
<1>6. begun' = begun
  BY <1>2, <1>3, <1>5
<1>7. \A d \in Calls : call'[d].pc = "lead" <=> call[d].pc = "lead"
  BY <1>1, <1>2, <1>3
<1>8. OrderInv'
  BY <1>1, <1>4, <1>6, <1>7 DEF OrderInv
<1> QED
  BY <1>1, <1>4, <1>6, <1>8

LEMMA OrderCrash ==
  ASSUME OrderInv, Crash
  PROVE  OrderInv'
<1>1. /\ call' = [c \in Calls |-> IdleCall] /\ task' = [c \in Calls |-> NoTask]
      /\ queue' = << >> /\ UNCHANGED <<begun, told>>
  BY DEF Crash
<1>2. IdleCall.pc = "idle" /\ NoTask.step = "none" /\ Range(<< >>) = {} /\ Len(<< >>) = 0
  BY EmptySeq DEF IdleCall, NoTask, Range
<1> QED
  BY <1>1, <1>2, LineSteps DEF OrderInv

-----------------------------------------------------------------------------
(* A batch under way completes what the checkpoint ends with, and during a *)
(* recovery that is the whole transcript as the cap leaves it.             *)
SendingInv ==
  \A c \in Calls : task[c].step \in Sending =>
    /\ task[c].base = manifest
    /\ \E m \in {Selected(task[c].turn), Full(task[c].turn)} :
         /\ manifest.recovery => m = Full(task[c].turn)
         /\ Unmatched(manifest.turns, m) # << >>
         /\ task[c].batch = Bounded(Unmatched(manifest.turns, m))

(* What a turn owes follows the prefix that the checkpoint has of it. *)
Owed(t, k) ==
  /\ manifest = [turns |-> SubSeq(Full(t), 1, k), recovery |-> TRUE]
  /\ debt[t] \subseteq Range(SubSeq(Full(t), k + 1, Len(Full(t))))

(* Only the latest turn owes, nobody else is in line then, and a turn that *)
(* is done owes nothing.                                                   *)
DebtInv ==
  /\ \A t \in Turns : t \notin told /\ debt[t] # {} =>
       /\ t = begun /\ \E k \in 0..Len(Full(t)) : Owed(t, k)
       /\ \A c \in Calls : task[c].step \in InLine => task[c].turn = t
  /\ \A c \in Calls : task[c].step \in {"post", "ok", "skipped"} =>
       task[c].turn \in told \/ debt[task[c].turn] = {}

Active == {"queued"} \cup Sending

(* A covered turn is not under way, and the latest is where the checkpoint *)
(* ends.                                                                   *)
CoverInv ==
  /\ covered \subseteq 1..begun
  /\ \A c \in Calls : task[c].step \in Active => task[c].turn \notin covered
  /\ begun \in covered =>
       /\ ~ manifest.recovery
       /\ MatchesTail(manifest.turns, Selected(begun), Len(Selected(begun)))
       /\ \A c \in Calls : task[c].step \notin Active

LEMMA ActiveSteps ==
  /\ Active = {"queued", "client", "rpc", "rpcDone", "seed", "seedDone"}
  /\ Active \subseteq InLine /\ Sending \subseteq Running
BY DEF Active, InLine, Sending, Running

LEMMA FullType ==
  ASSUME NEW t \in Turns
  PROVE  /\ Full(t) \in Seq(Msgs) /\ Full(t) # << >> /\ Len(Full(t)) \in Nat
         /\ Selected(t) \in Seq(Msgs) /\ Len(Selected(t)) \in Nat
<1>1. Full(t) \in Batches(t) /\ Selected(t) \in Batches(t)
  BY DEF Full, Batches
<1> QED
  BY <1>1, BatchType, LenProperties

LEMMA ManifestType ==
  ASSUME Inductive
  PROVE  manifest \in Manifests /\ manifest.turns \in Seq(Msgs) /\ manifest.recovery \in BOOLEAN
BY DEF Inductive, TypeOK, Manifests

(* The rest of a turn that owes is sent as it is. *)
LEMMA OwedRest ==
  ASSUME CapIsStable, NEW t \in Turns, NEW k \in 0..Len(Full(t)), Owed(t, k)
  PROVE  LET rest == SubSeq(Full(t), k + 1, Len(Full(t)))
         IN  /\ manifest.recovery /\ manifest.turns = SubSeq(Full(t), 1, k)
             /\ Unmatched(manifest.turns, Full(t)) = rest
             /\ debt[t] \subseteq Range(rest)
             /\ rest # << >> => Bounded(rest) = rest
<1> DEFINE f == Full(t)
           rest == SubSeq(f, k + 1, Len(f))
<1>1. f \in Seq(Msgs) /\ Len(f) \in Nat
  BY FullType
<1>2. /\ manifest = [turns |-> SubSeq(f, 1, k), recovery |-> TRUE]
      /\ debt[t] \subseteq Range(rest)
  BY DEF Owed
<1>3. manifest.recovery /\ manifest.turns = SubSeq(f, 1, k)
  BY <1>2
<1>4. Unmatched(SubSeq(f, 1, k), f) = rest
  BY <1>1, PrefixIsMatched
<1>5. ASSUME rest # << >> PROVE Bounded(rest) = rest
  <2>1. k + 1 \in 1..Len(f)
    BY <1>1, <1>5, SubSeqEmpty
  <2> QED
    BY <2>1 DEF CapIsStable, Full
<1> QED
  BY <1>2, <1>3, <1>4, <1>5

(* So a turn that finds nothing to send owes nothing. *)
LEMMA NothingOwed ==
  ASSUME CapIsStable, DebtInv, NEW t \in Turns, t \notin told,
         manifest.recovery => Unmatched(manifest.turns, Full(t)) = << >>
  PROVE  debt[t] = {}
<1> SUFFICES ASSUME debt[t] # {} PROVE FALSE
  OBVIOUS
<1>1. PICK k \in 0..Len(Full(t)) : Owed(t, k)
  BY DEF DebtInv
<1>2. debt[t] \subseteq Range(Unmatched(manifest.turns, Full(t))) /\ manifest.recovery
  BY <1>1, OwedRest
<1>3. Range(<< >>) = {}
  BY DEF Range
<1> QED
  BY <1>2, <1>3

-----------------------------------------------------------------------------
(* Steps that neither begin nor confirm anything. *)
Quiet ==
  /\ UNCHANGED <<manifest, covered, debt, begun>> /\ told \subseteq told'
  /\ \A d \in Calls :
       \/ task'[d] = task[d]
       \/ task'[d].step \in {"none", "failed"}
       \/ /\ task[d].step \in Sending /\ task'[d].step \in Sending
          /\ task'[d].turn = task[d].turn /\ task'[d].base = task[d].base
          /\ task'[d].batch = task[d].batch
       \/ /\ task[d].step = "post" /\ task'[d].step = "ok"
          /\ task'[d].turn = task[d].turn

LEMMA QuietKeeps ==
  ASSUME Quiet
  PROVE  /\ SendingInv => SendingInv' /\ (DebtInv => DebtInv') /\ (CoverInv => CoverInv')
<1>1. /\ UNCHANGED <<manifest, covered, debt, begun>> /\ told \subseteq told'
      /\ Sending = {"client", "rpc", "rpcDone", "seed", "seedDone"}
      /\ "none" \notin Sending /\ "failed" \notin Sending /\ "ok" \notin Sending
  BY DEF Quiet, Sending
<1>2. \A d \in Calls : task'[d].step \in Sending =>
        /\ task[d].step \in Sending
        /\ task'[d].turn = task[d].turn /\ task'[d].base = task[d].base
        /\ task'[d].batch = task[d].batch
  BY <1>1 DEF Quiet
<1>3. \A d \in Calls :
        /\ task'[d].step \in InLine =>
             task[d].step \in InLine /\ task'[d].turn = task[d].turn
        /\ task'[d].step \in Active =>
             task[d].step \in Active /\ task'[d].turn = task[d].turn
  <2>1. /\ \A s \in {"none", "failed", "ok"} : s \notin InLine /\ s \notin Active
        /\ Sending \subseteq Active /\ Sending \subseteq InLine
    BY DEF InLine, Active, Sending, Running
  <2> HIDE DEF InLine, Active, Sending
  <2> QED
    BY <2>1 DEF Quiet
<1>4. \A d \in Calls : task'[d].step \in {"post", "ok", "skipped"} =>
        task[d].step \in {"post", "ok", "skipped"} /\ task'[d].turn = task[d].turn
  BY <1>1 DEF Quiet
<1>5. SendingInv => SendingInv'
  BY <1>1, <1>2 DEF SendingInv
<1>6. DebtInv => DebtInv'
  BY <1>1, <1>3, <1>4 DEF DebtInv, Owed
<1>7. CoverInv => CoverInv'
  BY <1>1, <1>3 DEF CoverInv
<1> QED
  BY <1>5, <1>6, <1>7

LEMMA EndingIsQuiet ==
  ASSUME Inductive, OrderInv, NEW c \in Calls,
         Fenced(c) \/ ClientFails(c) \/ RpcFails(c) \/ PersistFails(c) \/ PostIngest(c)
  PROVE  Quiet
<1>1. UNCHANGED <<manifest, covered, debt, begun, told>>
  BY DEF Fenced, ClientFails, RpcFails, PersistFails, PostIngest, storeVars, historyVars, hostVars
<1>2. task[c].step \in InLine
  BY HeadRuns DEF TaskStep
<1>3. \/ EndTask(c, "failed")
      \/ EndTask(c, "ok") /\ task[c].step = "post"
  BY DEF Fenced, ClientFails, RpcFails, PersistFails, PostIngest
<1>4. \A outcome \in {"failed", "ok"} : EndTask(c, outcome) =>
        /\ task'[c].step = outcome /\ task'[c].turn = task[c].turn
        /\ \A d \in Calls \ {c} : task'[d] = task[d]
  BY <1>2, EndTaskFrame DEF Settled
<1> QED
  BY <1>1, <1>3, <1>4 DEF Quiet

LEMMA TransferIsQuiet ==
  ASSUME Inductive, NEW c \in Calls, SendBatch(c) \/ DaemonServes(c)
  PROVE  Quiet
<1>1. task \in [Calls -> Tasks] /\ task[c] \in Tasks
  BY DEF Inductive, TypeOK
<1>2. UNCHANGED <<manifest, covered, debt, begun, told>>
  BY DEF SendBatch, DaemonServes, storeVars, historyVars, hostVars
<1>3. \A d \in Calls \ {c} : task'[d] = task[d]
  BY <1>1 DEF SendBatch, DaemonServes, Reply
<1>4. /\ task[c].step \in Sending /\ task'[c].step \in Sending
      /\ task'[c].turn = task[c].turn /\ task'[c].base = task[c].base
      /\ task'[c].batch = task[c].batch
  <2>1. CASE SendBatch(c)
    <3>1. task'[c] = [task[c] EXCEPT !.step = "rpc"] /\ task[c].step = "client"
      BY <1>1, <2>1 DEF SendBatch
    <3> QED
      BY <1>1, <3>1 DEF Tasks, Sending
  <2>2. CASE DaemonServes(c)
    <3>1. PICK kind, n : Reply(c, kind, n)
      BY <2>2 DEF DaemonServes
    <3>2. task[c].step \in {"rpc", "seed"}
      BY <2>2 DEF DaemonServes
    <3>3. task'[c] = [task[c] EXCEPT !.step = IF @ = "rpc" THEN "rpcDone" ELSE "seedDone",
                                       !.reply = [kind |-> kind, n |-> n]]
      BY <1>1, <3>1 DEF Reply
    <3> QED
      BY <1>1, <3>2, <3>3 DEF Tasks, Sending
  <2> QED
    BY <2>1, <2>2
<1> QED
  BY <1>2, <1>3, <1>4 DEF Quiet

LEMMA OutsideIsQuiet ==
  ASSUME Inductive,
         \/ \E r \in late : DaemonServesLate(r)
         \/ DaemonLosesChain \/ ResetLifecycle \/ Crash
         \/ \E e \in Engines : DisposeEngine(e)
         \/ UNCHANGED vars
         \/ \E c \in Calls : Settle(c)
  PROVE  Quiet
<1>1. UNCHANGED <<manifest, covered, debt, begun>> /\ told \subseteq told'
  BY DEF DaemonServesLate, DaemonLosesChain, ResetLifecycle, Crash, DisposeEngine, vars,
         storeVars, hostVars, historyVars, Settle
<1>2. \A d \in Calls : task'[d] = task[d] \/ task'[d].step = "none"
  <2>1. task \in [Calls -> Tasks] /\ NoTask.step = "none"
    BY DEF Inductive, TypeOK, NoTask
  <2> QED
    BY <2>1 DEF DaemonServesLate, DaemonLosesChain, ResetLifecycle, Crash, DisposeEngine, vars,
                Settle
<1> QED
  BY <1>1, <1>2 DEF Quiet

-----------------------------------------------------------------------------
(* Steps that begin, recover or confirm. *)

(* Only the ingestion that runs is sending. *)
LEMMA OneSends ==
  ASSUME Inductive, NEW c \in Calls, queue # << >>, Head(queue) = c,
         NEW d \in Calls, task[d].step \in Sending
  PROVE  d = c
BY ActiveSteps DEF Inductive, RunningIsHead

(* The batch is made of what the checkpoint lacks. *)
LEMMA StartKeeps ==
  ASSUME CapIsStable, Inductive, OrderInv, NEW c \in Calls, StartIngestion(c)
  PROVE  /\ SendingInv => SendingInv' /\ (DebtInv => DebtInv') /\ (CoverInv => CoverInv')
<1> DEFINE t == task[c].turn
           msgs == IF manifest.recovery THEN SelectMessages(t, TRUE) ELSE task[c].msgs
           new == Unmatched(manifest.turns, msgs)
<1>1. /\ task[c].step = "queued" /\ task[c].step \in InLine
      /\ queue # << >> /\ Head(queue) = c
      /\ UNCHANGED <<manifest, covered, debt, begun, told>>
      /\ t \in Turns /\ task \in [Calls -> Tasks] /\ task[c] \in Tasks
      /\ manifest.recovery \in BOOLEAN
  BY HeadRuns, ManifestType, TaskType
     DEF StartIngestion, TaskStep, storeVars, hostVars, historyVars, Inductive, TypeOK
<1>2. msgs \in {Selected(t), Full(t)} /\ (manifest.recovery => msgs = Full(t))
  BY <1>1 DEF Inductive, TaskAccounted, SelectMessages, Full
<1> HIDE DEF msgs
<1>3. CASE new = << >> /\ EndTask(c, "ok")
  <2>1. /\ task'[c].step = "ok" /\ task'[c].turn = t
        /\ \A d \in Calls \ {c} : task'[d] = task[d]
    BY <1>1, <1>3, EndTaskFrame DEF Settled
  <2>2. "ok" \notin InLine /\ "ok" \notin Active /\ "ok" \notin Sending
    BY DEF InLine, Active, Sending, Running
  <2>3. SendingInv => SendingInv'
    BY <1>1, <2>1, <2>2 DEF SendingInv
  <2>4. ASSUME DebtInv PROVE DebtInv'
    <3>1. t \in told \/ debt[t] = {}
      BY <1>1, <1>2, <1>3, <2>4, NothingOwed
    <3> QED
      BY <1>1, <2>1, <2>2, <2>4, <3>1 DEF DebtInv, Owed
  <2>5. CoverInv => CoverInv'
    BY <1>1, <2>1, <2>2 DEF CoverInv
  <2> QED
    BY <2>3, <2>4, <2>5
<1>4. CASE /\ new # << >>
           /\ task' = [task EXCEPT ![c].step = "client", ![c].msgs = << >>,
                         ![c].base = manifest, ![c].batch = Bounded(new)]
  <2>1. /\ \A d \in Calls \ {c} : task'[d] = task[d]
        /\ task'[c] = [task[c] EXCEPT !.step = "client", !.msgs = << >>,
                         !.base = manifest, !.batch = Bounded(new)]
    BY <1>1, <1>4
  <2>2. /\ task'[c].step = "client" /\ task'[c].turn = t
        /\ task'[c].base = manifest /\ task'[c].batch = Bounded(new)
    BY <1>1, <2>1 DEF Tasks
  <2>3. "client" \in InLine /\ "client" \in Active /\ "queued" \in Active
    BY DEF InLine, Active, Sending, Running
  <2>4. ASSUME SendingInv PROVE SendingInv'
    <3>1. \E m \in {Selected(t), Full(t)} :
             /\ manifest.recovery => m = Full(t)
             /\ Unmatched(manifest.turns, m) # << >>
             /\ task'[c].batch = Bounded(Unmatched(manifest.turns, m))
      BY <1>2, <1>4, <2>2
    <3>2. \A d \in Calls \ {c} : task'[d].step \notin Sending
      BY <1>1, <2>1, OneSends
    <3> QED
      BY <1>1, <2>2, <3>1, <3>2 DEF SendingInv
  <2>5. ASSUME DebtInv PROVE DebtInv'
    <3>1. \A d \in Calls :
            /\ task'[d].turn = task[d].turn
            /\ task'[d].step \in InLine => task[d].step \in InLine
            /\ task'[d].step \in {"post", "ok", "skipped"} =>
                 task[d].step \in {"post", "ok", "skipped"}
      BY <1>1, <2>1, <2>2, ZenonT(40)
    <3> HIDE DEF InLine
    <3> QED
      BY <1>1, <2>5, <3>1, SMTT(40) DEF DebtInv, Owed
  <2>6. CoverInv => CoverInv'
    BY <1>1, <2>1, <2>2, <2>3, ZenonT(40) DEF CoverInv
  <2> QED
    BY <2>4, <2>5, <2>6
<1> QED
  BY <1>3, <1>4 DEF StartIngestion, msgs

(* A gap: the turn owes all it sends, and is the only one in line if it is *)
(* not committed yet.                                                      *)
LEMMA RecoverKeeps ==
  ASSUME CapIsStable, Inductive, OrderInv, NEW c \in Calls, RecoverGap(c)
  PROVE  /\ SendingInv => SendingInv' /\ (DebtInv => DebtInv') /\ CoverInv'
<1> DEFINE t == task[c].turn
           f == Full(t)
<1>1. /\ task[c].step = "rpcDone" /\ manifest' = Disproved
      /\ task' = [task EXCEPT ![c].step = "seed", ![c].base = Disproved,
                              ![c].batch = f, ![c].reply = NoReply]
      /\ covered' = {} /\ debt' = [debt EXCEPT ![t] = Range(f)]
      /\ UNCHANGED <<begun, told>>
  BY DEF RecoverGap, SelectMessages, Full, hostVars
<1>2. /\ TypeOK /\ t \in Turns /\ task[c] \in Tasks /\ task \in [Calls -> Tasks]
      /\ debt \in [Turns -> SUBSET Msgs]
      /\ queue # << >> /\ Head(queue) = c /\ task[c].step \in InLine
  BY TaskType, HeadRuns DEF Inductive, TypeOK, TaskStep
<1>3. f \in Seq(Msgs) /\ f # << >> /\ Len(f) \in Nat /\ 0 \in 0..Len(f)
  BY <1>2, FullType
<1>4. SubSeq(f, 1, 0) = << >> /\ SubSeq(f, 0 + 1, Len(f)) = f
  BY <1>3, SubSeqEmpty, SubSeqFull
<1>5. Unmatched(<< >>, f) = f
  <2>1. Unmatched(SubSeq(f, 1, 0), f) = SubSeq(f, 0 + 1, Len(f))
    BY <1>3, PrefixIsMatched
  <2> QED
    BY <1>4, <2>1
<1>6. Bounded(f) = f
  <2>1. 1 \in 1..Len(f)
    BY <1>3, EmptySeq
  <2>2. Bounded(SubSeq(f, 1, Len(f))) = SubSeq(f, 1, Len(f))
    BY <1>2, <2>1 DEF CapIsStable, Full
  <2> QED
    BY <1>3, <2>2, SubSeqFull
<1> HIDE DEF f
<1>7. /\ \A d \in Calls \ {c} : task'[d] = task[d]
      /\ task'[c] = [task[c] EXCEPT !.step = "seed", !.base = Disproved,
                                      !.batch = f, !.reply = NoReply]
  BY <1>1, <1>2
<1>8. /\ task'[c].step = "seed" /\ task'[c].turn = t
      /\ task'[c].base = Disproved /\ task'[c].batch = f
  BY <1>2, <1>7 DEF Tasks
<1>9. manifest'.turns = << >> /\ manifest'.recovery
  BY <1>1 DEF Disproved
<1>10. ASSUME SendingInv PROVE SendingInv'
  <2>1. \A d \in Calls \ {c} : task'[d].step \notin Sending
    BY <1>2, <1>7, OneSends
  <2>2. /\ task'[c].base = manifest'
        /\ \E m \in {Selected(t), Full(t)} :
             /\ manifest'.recovery => m = Full(t)
             /\ Unmatched(manifest'.turns, m) # << >>
             /\ task'[c].batch = Bounded(Unmatched(manifest'.turns, m))
    BY <1>1, <1>3, <1>5, <1>6, <1>8, <1>9 DEF f
  <2> QED
    BY <1>8, <2>1, <2>2 DEF SendingInv
<1>11. ASSUME DebtInv PROVE DebtInv'
  <2>1. ASSUME NEW u \in Turns, u \notin told, debt'[u] # {}
        PROVE  /\ u = begun /\ \E k \in 0..Len(Full(u)) : Owed(u, k)'
               /\ \A d \in Calls : task'[d].step \in InLine => task'[d].turn = u
    <3>1. CASE u = t
      <4>1. t = begun
        <5>1. t <= begun /\ ~ (t < begun)
          BY <1>2, <2>1, <3>1, LineSteps DEF OrderInv
        <5> QED
          BY <1>2, <5>1, NumbersOrdered
      <4>2. Owed(u, 0)'
        <5>1. manifest' = [turns |-> SubSeq(f, 1, 0), recovery |-> TRUE]
          BY <1>1, <1>4 DEF Disproved
        <5>2. debt'[t] = Range(SubSeq(f, 0 + 1, Len(f)))
          BY <1>1, <1>2, <1>4
        <5> QED
          BY <3>1, <5>1, <5>2 DEF Owed, f
      <4>3. ASSUME NEW d \in Calls \ {c} PROVE task'[d].step \notin InLine
        <5> SUFFICES ASSUME task[d].step \in InLine PROVE FALSE
          BY <1>7
        <5>1. t < task[d].turn
          BY <1>2, HeadIsEarliest
        <5>2. task[d].turn <= begun
          BY LineSteps DEF OrderInv
        <5> QED
          BY <1>2, <4>1, <5>1, <5>2, NumbersOrdered
      <4> QED
        BY <1>3, <1>8, <3>1, <4>1, <4>2, <4>3 DEF f
    <3>2. CASE u # t
      BY <1>1, <1>2, <1>11, <2>1, <3>2 DEF DebtInv
    <3> QED
      BY <3>1, <3>2
  <2>2. ASSUME NEW d \in Calls, task'[d].step \in {"post", "ok", "skipped"}
        PROVE  task'[d].turn \in told \/ debt'[task'[d].turn] = {}
    <3>1. d # c /\ task'[d] = task[d]
      BY <1>7, <1>8, <2>2
    <3>2. task[d].turn # t
      BY <1>1, <2>2, <3>1, TurnsApart
    <3>3. task[d].turn \in Turns
      BY <1>2, TaskType
    <3> QED
      BY <1>1, <1>2, <1>11, <2>2, <3>1, <3>2, <3>3 DEF DebtInv
  <2> QED
    BY <1>1, <2>1, <2>2, ZenonT(40) DEF DebtInv
<1>12. CoverInv'
  BY <1>1 DEF CoverInv
<1> QED
  BY <1>10, <1>11, <1>12

(* A turn that begins. *)
LEMMA LeadKeeps ==
  ASSUME CapIsStable, OrderedHost, Inductive, OrderInv, NEW c \in Calls, NEW e \in Engines,
         NEW t \in Turns, CommitLead(c, e, t)
  PROVE  /\ SendingInv => SendingInv' /\ (DebtInv => DebtInv') /\ (CoverInv => CoverInv')
<1> DEFINE msgs == SelectMessages(t, manifest.recovery)
           skip == Unmatched(manifest.turns, msgs) = << >>
<1>1. /\ Callable(c, t) /\ ~ InFlight(t) /\ AfterTurn(c, e, t, TRUE)
      /\ UNCHANGED <<manifest, covered, debt, told>>
  BY DEF CommitLead, storeVars, historyVars
<1>2. /\ TypeOK /\ task \in [Calls -> Tasks] /\ manifest.turns \in Seq(Msgs)
      /\ manifest.recovery \in BOOLEAN /\ begun \in Nat /\ t \in Nat /\ Turns \subseteq Nat \ {0}
  BY ManifestType, NumbersOrdered DEF Inductive, TypeOK
<1>3. /\ task[c].step = "none"
      /\ \/ t = begun /\ begun' = begun
         \/ t = begun + 1 /\ begun' = t /\ (begun > 0 => begun \in told)
  BY <1>1, CallsInOrder
<1>4. msgs = IF manifest.recovery THEN Full(t) ELSE Selected(t)
  BY DEF SelectMessages, Full
<1> HIDE DEF msgs
<1>5. /\ \A d \in Calls \ {c} : task'[d] = task[d]
      /\ task'[c].turn = t
      /\ \/ skip /\ task'[c].step = "skipped"
         \/ ~ skip /\ task'[c].step = "queued"
  <2>1. PICK x \in {[NoTask EXCEPT !.step = "skipped", !.turn = t, !.awaited = TRUE],
                    [[NoTask EXCEPT !.turn = t, !.awaited = TRUE, !.engine = e,
                        !.token = lifecycle, !.msgs = msgs]
                       EXCEPT !.step = "queued"]} :
          /\ task' = [task EXCEPT ![c] = x]
          /\ \/ skip /\ x.step = "skipped"
             \/ ~ skip /\ x.step = "queued"
    BY <1>1 DEF AfterTurn, NoTask, msgs
  <2>2. x.turn = t
    BY DEF NoTask
  <2>3. task'[c] = x /\ \A d \in Calls \ {c} : task'[d] = task[d]
    BY <1>2, <2>1
  <2> QED
    BY <2>1, <2>2, <2>3
<1>6. /\ "skipped" \notin Sending /\ "queued" \notin Sending
      /\ "skipped" \notin InLine /\ "skipped" \notin Active /\ "none" \notin Active
  BY DEF InLine, Active, Sending, Running
<1>7. SendingInv => SendingInv'
  BY <1>1, <1>5, <1>6 DEF SendingInv
<1>8. ASSUME DebtInv PROVE DebtInv'
  <2>1. ASSUME NEW u \in Turns, u \notin told, debt[u] # {}
        PROVE  /\ u = begun' /\ u = t /\ \E k \in 0..Len(Full(u)) : Owed(u, k)'
    <3>1. u = begun /\ \E k \in 0..Len(Full(u)) : Owed(u, k)
      BY <1>8, <2>1 DEF DebtInv
    <3>2. begun' = begun /\ t = begun
      BY <1>2, <1>3, <2>1, <3>1
    <3>3. \A k \in 0..Len(Full(u)) : Owed(u, k) => Owed(u, k)'
      BY <1>1 DEF Owed
    <3> QED
      BY <3>1, <3>2, <3>3
  <2>2. ASSUME NEW u \in Turns, u \notin told, debt[u] # {}, NEW d \in Calls,
               task'[d].step \in InLine
        PROVE  task'[d].turn = u
    <3>1. CASE d = c
      BY <1>5, <2>1, <2>2, <3>1
    <3>2. CASE d # c
      BY <1>5, <1>8, <2>2, <3>2 DEF DebtInv
    <3> QED
      BY <3>1, <3>2
  <2>3. ASSUME NEW d \in Calls, task'[d].step \in {"post", "ok", "skipped"}
        PROVE  task'[d].turn \in told \/ debt[task'[d].turn] = {}
    <3>1. CASE d = c
      <4>1. skip
        BY <1>5, <2>3, <3>1
      <4>2. manifest.recovery => Unmatched(manifest.turns, Full(t)) = << >>
        BY <1>4, <4>1
      <4>3. t \notin told => debt[t] = {}
        BY <1>8, <4>2, NothingOwed
      <4> QED
        BY <1>5, <3>1, <4>3
    <3>2. CASE d # c
      BY <1>5, <1>8, <2>3, <3>2 DEF DebtInv
    <3> QED
      BY <3>1, <3>2
  <2> QED
    BY <1>1, <2>1, <2>2, <2>3 DEF DebtInv
<1>9. ASSUME CoverInv PROVE CoverInv'
  <2>1. covered \subseteq 1..begun'
    <3>1. covered \subseteq 1..begun /\ 1..begun \subseteq 1..begun'
      BY <1>2, <1>3, <1>9 DEF CoverInv
    <3> QED
      BY <3>1
  <2>2. ASSUME t \in covered PROVE skip
    <3>1. t = begun
      BY <1>2, <1>3, <1>9, <2>2 DEF CoverInv
    <3>2. msgs = Selected(t) /\ MatchesTail(manifest.turns, Selected(t), Len(Selected(t)))
      BY <1>4, <1>9, <2>2, <3>1 DEF CoverInv
    <3> QED
      BY <1>2, <3>2, FullType, EndingIsSkipped
  <2>3. ASSUME begun' \in covered
        PROVE  /\ begun' = begun /\ task'[c].step \notin Active
    <3>1. begun' = t /\ t = begun
      BY <1>2, <1>3, <1>9, <2>3 DEF CoverInv
    <3>2. task'[c].step = "skipped"
      BY <1>5, <2>2, <2>3, <3>1
    <3> QED
      BY <1>6, <3>1, <3>2
  <2>4. ASSUME NEW d \in Calls, task'[d].step \in Active
        PROVE  task'[d].turn \notin covered
    <3>1. CASE d = c
      BY <1>5, <1>6, <2>2, <2>4, <3>1
    <3>2. CASE d # c
      BY <1>5, <1>9, <2>4, <3>2 DEF CoverInv
    <3> QED
      BY <3>1, <3>2
  <2>5. ASSUME begun' \in covered
        PROVE  /\ ~ manifest.recovery
               /\ MatchesTail(manifest.turns, Selected(begun'), Len(Selected(begun')))
               /\ \A d \in Calls : task'[d].step \notin Active
    <3>1. begun \in covered /\ begun' = begun /\ task'[c].step \notin Active
      BY <2>3, <2>5
    <3>2. \A d \in Calls : task[d].step \notin Active
      BY <1>9, <3>1 DEF CoverInv
    <3>3. \A d \in Calls : task'[d].step \notin Active
      BY <1>5, <3>1, <3>2
    <3> QED
      BY <1>9, <3>1, <3>3 DEF CoverInv
  <2> QED
    BY <1>1, <2>1, <2>4, <2>5 DEF CoverInv
<1> QED
  BY <1>7, <1>8, <1>9

(* A batch is sent as it was made, unless the turn is larger than the cap. *)
LEMMA SentAsItIs ==
  ASSUME CapIsStable, TurnsFit, NEW t \in Turns, NEW turns \in Seq(Msgs),
         NEW m \in {Selected(t), Full(t)}, Unmatched(turns, m) # << >>
  PROVE  /\ m \in Seq(Msgs) /\ Bounded(Unmatched(turns, m)) = Unmatched(turns, m)
         /\ MatchesTail(m, Selected(t), Len(Selected(t)))
<1>1. m \in Seq(Msgs) /\ Selected(t) \in Seq(Msgs) /\ Len(Selected(t)) \in Nat
  BY FullType
<1>2. PICK k \in 1..Len(m) : Unmatched(turns, m) = SubSeq(m, k, Len(m))
  BY <1>1, UnmatchedProperties
<1>3. Bounded(SubSeq(m, k, Len(m))) = SubSeq(m, k, Len(m))
  BY DEF CapIsStable, TurnsFit, Full
<1>4. MatchesTail(m, Selected(t), Len(Selected(t)))
  <2>1. CASE m = Full(t)
    BY <2>1 DEF TurnsFit, Full
  <2>2. CASE m = Selected(t)
    BY <1>1, <2>2 DEF MatchesTail
  <2> QED
    BY <2>1, <2>2
<1> QED
  BY <1>1, <1>2, <1>3, <1>4

(* What a save does to the ingestions. *)
LEMMA PersistFrame ==
  ASSUME Inductive, OrderInv, NEW c \in Calls, Persist(c)
  PROVE  /\ \A d \in Calls \ {c} : task'[d] = task[d] /\ task'[d].step \notin Sending
         /\ task'[c].turn = task[c].turn
         /\ \/ task'[c].step = "post"
               /\ AckCount(task[c].reply, Len(task[c].batch)) = Len(task[c].batch)
               /\ covered' = covered \cup {task[c].turn}
            \/ task'[c].step = "failed" /\ covered' = covered
               /\ AckCount(task[c].reply, Len(task[c].batch)) # Len(task[c].batch)
         /\ task[c].step \in Sending /\ task[c].turn \in Turns
         /\ queue # << >> /\ Head(queue) = c
         /\ UNCHANGED <<begun, told>>
<1>1. /\ task[c].step \in {"rpcDone", "seedDone"} /\ UNCHANGED hostVars
      /\ \/ /\ AckCount(task[c].reply, Len(task[c].batch)) = Len(task[c].batch)
            /\ task' = [task EXCEPT ![c] = Remains(c, "post")]
            /\ covered' = covered \cup {task[c].turn}
         \/ /\ AckCount(task[c].reply, Len(task[c].batch)) # Len(task[c].batch)
            /\ EndTask(c, "failed") /\ covered' = covered
  BY DEF Persist, Replied
<1>2. /\ task[c].step \in InLine /\ task[c].step \in Sending
      /\ queue # << >> /\ Head(queue) = c
  BY <1>1, HeadRuns DEF TaskStep, Sending
<1>3. /\ TypeOK /\ task[c].turn \in Turns /\ task \in [Calls -> Tasks]
  BY TaskType DEF Inductive, TypeOK
<1>4. /\ \A d \in Calls \ {c} : task'[d] = task[d]
      /\ task'[c].turn = task[c].turn
      /\ \/ task'[c].step = "post"
            /\ AckCount(task[c].reply, Len(task[c].batch)) = Len(task[c].batch)
            /\ covered' = covered \cup {task[c].turn}
         \/ task'[c].step = "failed" /\ covered' = covered
            /\ AckCount(task[c].reply, Len(task[c].batch)) # Len(task[c].batch)
  <2>1. CASE EndTask(c, "failed")
    BY <1>1, <1>2, <1>3, <2>1, EndTaskFrame, RemainsType DEF Settled, Steps
  <2>2. CASE task' = [task EXCEPT ![c] = Remains(c, "post")]
    <3>1. /\ task'[c] = Remains(c, "post")
          /\ \A d \in Calls \ {c} : task'[d] = task[d]
      BY <1>3, <2>2
    <3>2. task'[c].step = "post" /\ task'[c].turn = task[c].turn
      BY <1>3, <3>1, RemainsType DEF Steps
    <3>3. ~ EndTask(c, "failed")
      <4> SUFFICES ASSUME EndTask(c, "failed") PROVE FALSE
        OBVIOUS
      <4>1. task'[c].step = "failed"
        BY <1>2, EndTaskFrame DEF Settled
      <4> QED
        BY <3>2, <4>1
    <3> QED
      BY <1>1, <3>1, <3>2, <3>3
  <2> QED
    BY <1>1, <2>1, <2>2
<1>5. \A d \in Calls \ {c} : task'[d].step \notin Sending
  BY <1>2, <1>4, OneSends
<1> QED
  BY <1>1, <1>2, <1>3, <1>4, <1>5 DEF hostVars

(* A save pays what is confirmed. *)
LEMMA PersistKeepsDebt ==
  ASSUME CapIsStable, Inductive, OrderInv, SendingInv, DebtInv, NEW c \in Calls, Persist(c)
  PROVE  DebtInv'
<1> DEFINE batch == task[c].batch
<1> PICK n : n = AckCount(task[c].reply, Len(batch))
  OBVIOUS
<1>1. /\ manifest' = Checkpointed(task[c].base, batch, n)
      /\ debt' = [u \in Turns |-> debt[u] \ Range(SubSeq(batch, 1, n))]
  BY DEF Persist
<1>2. n \in 1..Len(batch)
  BY ConfirmedPrefix
<1>3. /\ \A d \in Calls \ {c} : task'[d] = task[d]
      /\ task'[c].turn = task[c].turn
      /\ \/ task'[c].step = "post" /\ n = Len(batch)
         \/ task'[c].step = "failed" /\ n # Len(batch)
      /\ task[c].step \in Sending /\ task[c].turn \in Turns
      /\ UNCHANGED <<begun, told>>
  BY PersistFrame
<1>4. /\ task[c].base = manifest /\ task[c].step \in InLine
      /\ manifest.recovery => batch = Bounded(Unmatched(manifest.turns, Full(task[c].turn)))
                              /\ Unmatched(manifest.turns, Full(task[c].turn)) # << >>
  BY <1>3, LineSteps DEF SendingInv
<1>5. ASSUME NEW u \in Turns, u \notin told, debt'[u] # {}
      PROVE  /\ u = begun /\ task[c].turn = u /\ n # Len(batch)
             /\ \E k \in 0..Len(Full(u)) : Owed(u, k)'
             /\ \A d \in Calls : task[d].step \in InLine => task[d].turn = u
  <2>1. debt[u] # {} /\ debt'[u] = debt[u] \ Range(SubSeq(batch, 1, n))
    BY <1>1, <1>5
  <2>2. /\ u = begun
        /\ \A d \in Calls : task[d].step \in InLine => task[d].turn = u
    BY <1>5, <2>1 DEF DebtInv
  <2>3. PICK k \in 0..Len(Full(u)) : Owed(u, k)
    BY <1>5, <2>1 DEF DebtInv
  <2> DEFINE f == Full(u)
             rest == SubSeq(f, k + 1, Len(f))
  <2>4. f \in Seq(Msgs) /\ Len(f) \in Nat /\ task[c].turn = u
    BY <1>4, <2>2, FullType
  <2>5. /\ manifest.recovery /\ manifest.turns = SubSeq(f, 1, k)
        /\ debt[u] \subseteq Range(rest) /\ batch = rest
    <3>1. /\ manifest.recovery /\ manifest.turns = SubSeq(f, 1, k)
          /\ Unmatched(manifest.turns, f) = rest /\ debt[u] \subseteq Range(rest)
          /\ rest # << >> => Bounded(rest) = rest
      BY <2>3, OwedRest
    <3> HIDE DEF rest
    <3> QED
      BY <1>4, <2>4, <3>1
  <2>6. n \in 0..Len(rest)
    BY <1>2, <2>5
  <2>7. /\ k + n \in 0..Len(f)
        /\ SubSeq(f, 1, k) \o SubSeq(rest, 1, n) = SubSeq(f, 1, k + n)
        /\ SubSeq(rest, n + 1, Len(rest)) = SubSeq(f, (k + n) + 1, Len(f))
    <3> HIDE DEF f
    <3>1. f \in Seq(Msgs) /\ k \in 0..Len(f) /\ n \in 0..Len(SubSeq(f, k + 1, Len(f)))
      BY <2>4, <2>6 DEF f
    <3> QED
      BY <3>1, PrefixGrows
  <2>8. rest \in Seq(Msgs) /\ Len(rest) \in Nat
    <3>1. k + 1 \in 1..(Len(f) + 1)
      BY <2>4
    <3> QED
      BY <2>4, <3>1, SuffixProperties, LenProperties
  <2>9. debt'[u] \subseteq Range(SubSeq(rest, n + 1, Len(rest)))
    <3>1. Range(rest) = Range(SubSeq(rest, 1, n)) \cup Range(SubSeq(rest, n + 1, Len(rest)))
      BY <2>6, <2>8, RangeSplit
    <3> QED
      BY <2>1, <2>5, <3>1
  <2>10. n # Len(rest)
    <3> SUFFICES ASSUME n = Len(rest) PROVE FALSE
      OBVIOUS
    <3>1. SubSeq(rest, n + 1, Len(rest)) = << >>
      BY <2>8, SubSeqEmpty
    <3>2. Range(<< >>) = {}
      BY DEF Range
    <3> QED
      BY <1>5, <2>9, <3>1, <3>2
  <2>11. manifest' = [turns |-> SubSeq(f, 1, k + n), recovery |-> TRUE]
    <3>1. manifest' = [turns |-> manifest.turns \o SubSeq(rest, 1, n),
                       recovery |-> manifest.recovery /\ n < Len(rest)]
      BY <1>1, <1>4, <2>5 DEF Checkpointed, StillRecovering
    <3>2. n < Len(rest)
      BY <2>6, <2>8, <2>10
    <3> HIDE DEF rest
    <3> QED
      BY <2>5, <2>7, <3>1, <3>2
  <2>12. Owed(u, k + n)'
    BY <2>7, <2>9, <2>11 DEF Owed
  <2> QED
    BY <2>2, <2>4, <2>5, <2>7, <2>10, <2>12
<1>6. ASSUME NEW u \in Turns, u \notin told, debt'[u] # {}
      PROVE  \A d \in Calls : task'[d].step \in InLine => task'[d].turn = u
  BY <1>3, <1>5, <1>6
<1>7. ASSUME NEW d \in Calls, task'[d].step \in {"post", "ok", "skipped"}
      PROVE  task'[d].turn \in told \/ debt'[task'[d].turn] = {}
  <2>1. CASE d = c
    BY <1>3, <1>5, <1>7, <2>1
  <2>2. CASE d # c
    <3>1. task[d].turn \in Turns
      BY TaskType DEF Inductive
    <3>2. debt'[task[d].turn] \subseteq debt[task[d].turn]
      BY <1>1, <3>1
    <3>3. task[d].turn \in told \/ debt[task[d].turn] = {}
      BY <1>3, <1>7, <2>2 DEF DebtInv
    <3> QED
      BY <1>3, <2>2, <3>2, <3>3
  <2> QED
    BY <2>1, <2>2
<1> QED
  BY <1>3, <1>5, <1>6, <1>7 DEF DebtInv

(* A save that covers a turn ends the checkpoint with it. *)
LEMMA PersistKeepsCover ==
  ASSUME CapIsStable, TurnsFit, Inductive, OrderInv, SendingInv, CoverInv, NEW c \in Calls,
         Persist(c)
  PROVE  CoverInv'
<1> DEFINE batch == task[c].batch
           n == AckCount(task[c].reply, Len(batch))
           t == task[c].turn
<1>1. manifest' = Checkpointed(task[c].base, batch, n)
  BY DEF Persist
<1>2. /\ \A d \in Calls \ {c} : task'[d] = task[d] /\ task'[d].step \notin Sending
      /\ \/ task'[c].step = "post" /\ n = Len(batch) /\ covered' = covered \cup {t}
         \/ task'[c].step = "failed" /\ covered' = covered
      /\ task[c].step \in Sending /\ t \in Turns
      /\ queue # << >> /\ Head(queue) = c
      /\ UNCHANGED <<begun, told>>
  BY PersistFrame
<1> HIDE DEF n
<1>3. /\ task'[c].step \notin Active /\ task[c].step \in Active
      /\ task[c].step # "none" /\ "none" \notin Active
      /\ \A d \in Calls : task[d].step \in Active => task[d].step \in InLine
  BY <1>2 DEF Active, Sending, InLine, Running
<1>4. /\ begun \in Nat /\ Turns \subseteq Nat \ {0} /\ t <= begun /\ TypeOK
  BY <1>3, NumbersOrdered DEF OrderInv, Inductive
<1>5. begun \notin covered
  BY <1>3 DEF CoverInv
<1>6. covered' \subseteq 1..begun
  <2>1. t \in Nat \ {0}
    BY <1>2, <1>4
  <2>2. t \in 1..begun
    BY <1>4, <2>1
  <2>3. covered \subseteq 1..begun
    BY DEF CoverInv
  <2> QED
    BY <1>2, <2>2, <2>3
<1>7. ASSUME NEW d \in Calls, task'[d].step \in Active
      PROVE  task'[d].turn \notin covered'
  <2>1. d # c /\ task'[d] = task[d]
    BY <1>2, <1>3, <1>7
  <2>2. task[d].turn # t
    BY <1>3, <1>7, <2>1, TurnsApart
  <2>3. task[d].turn \notin covered
    BY <1>7, <2>1 DEF CoverInv
  <2> QED
    BY <1>2, <2>1, <2>2, <2>3
<1>8. ASSUME begun \in covered'
      PROVE  /\ ~ manifest'.recovery
             /\ MatchesTail(manifest'.turns, Selected(begun), Len(Selected(begun)))
             /\ \A d \in Calls : task'[d].step \notin Active
  <2>1. n = Len(batch) /\ t = begun
    BY <1>2, <1>5, <1>8
  <2>2. /\ task[c].base = manifest
        /\ \E m \in {Selected(t), Full(t)} :
             /\ Unmatched(manifest.turns, m) # << >>
             /\ batch = Bounded(Unmatched(manifest.turns, m))
    BY <1>2 DEF SendingInv
  <2>3. PICK m \in {Selected(t), Full(t)} :
             /\ Unmatched(manifest.turns, m) # << >>
             /\ batch = Bounded(Unmatched(manifest.turns, m))
    BY <2>2
  <2>4. manifest.turns \in Seq(Msgs)
    BY ManifestType
  <2>5. /\ m \in Seq(Msgs) /\ batch = Unmatched(manifest.turns, m)
        /\ MatchesTail(m, Selected(t), Len(Selected(t)))
    BY <1>2, <2>3, <2>4, SentAsItIs
  <2>6. SubSeq(batch, 1, Len(batch)) = batch
    BY <2>4, <2>5, UnmatchedProperties, SubSeqFull
  <2>7. /\ manifest'.turns = manifest.turns \o Unmatched(manifest.turns, m)
        /\ ~ manifest'.recovery
    <3>1. manifest' = [turns |-> manifest.turns \o SubSeq(batch, 1, n),
                       recovery |-> manifest.recovery /\ n < Len(batch)]
      BY <1>1, <2>2 DEF Checkpointed, StillRecovering
    <3>2. ~ (n < Len(batch))
      <4>1. Len(batch) \in Nat
        BY TaskType, LenProperties DEF Inductive
      <4> QED
        BY <2>1, <4>1
    <3> QED
      BY <2>1, <2>5, <2>6, <3>1, <3>2
  <2>8. /\ manifest'.turns \in Seq(Msgs)
        /\ MatchesTail(manifest'.turns, m, Len(m))
    BY <2>4, <2>5, <2>7, SentCompletes
  <2>9. MatchesTail(manifest'.turns, Selected(t), Len(Selected(t)))
    BY <1>2, <2>5, <2>8, FullType, EndsTransitive
  <2>10. ASSUME NEW d \in Calls, task'[d].step \in Active PROVE FALSE
    <3>1. d # c /\ task'[d] = task[d] /\ task[d].step \in InLine
      BY <1>2, <1>3, <2>10
    <3>2. t < task[d].turn
      BY <1>2, <1>4, <3>1, HeadIsEarliest
    <3>3. task[d].turn <= begun /\ task[d].turn \in Nat
      BY <1>4, <3>1, LineSteps, NumbersOrdered DEF OrderInv
    <3> QED
      BY <1>4, <2>1, <3>2, <3>3
  <2> QED
    BY <2>1, <2>7, <2>9, <2>10
<1> QED
  BY <1>2, <1>6, <1>7, <1>8 DEF CoverInv

LEMMA PersistKeepsSending ==
  ASSUME Inductive, OrderInv, NEW c \in Calls, Persist(c)
  PROVE  SendingInv'
<1>1. \A d \in Calls : task'[d].step \notin Sending
  BY PersistFrame DEF Sending
<1> QED
  BY <1>1 DEF SendingInv

-----------------------------------------------------------------------------
(* What an ordered host's commits rest on, for any cap that is stable. *)
Ordered == OrderInv /\ SendingInv /\ DebtInv

LEMMA OrderedInit == Init => Ordered /\ CoverInv
<1> SUFFICES ASSUME Init PROVE Ordered /\ CoverInv
  OBVIOUS
<1>1. /\ call = [c \in Calls |-> IdleCall] /\ task = [c \in Calls |-> NoTask]
      /\ queue = << >> /\ begun = 0 /\ told = {} /\ covered = {}
      /\ debt = [t \in Turns |-> {}]
  BY DEF Init
<1>2. /\ IdleCall.pc = "idle" /\ NoTask.step = "none" /\ Range(<< >>) = {} /\ Len(<< >>) = 0
  BY EmptySeq DEF IdleCall, NoTask, Range
<1>3. "none" \notin InLine /\ "none" \notin Sending /\ "none" \notin Active
  BY DEF InLine, Active, Sending, Running
<1>4. OrderInv
  <2>1. \A t \in Turns : ~ (t < begun)
    BY <1>1 DEF Turns
  <2> QED
    BY <1>1, <1>2, <1>3, <2>1 DEF OrderInv
<1>5. SendingInv /\ DebtInv /\ CoverInv
  BY <1>1, <1>2, <1>3 DEF SendingInv, DebtInv, CoverInv
<1> QED
  BY <1>4, <1>5 DEF Ordered

LEMMA OrderedStep ==
  ASSUME OrderedHost, CapIsStable
  PROVE  /\ Inductive /\ Ordered /\ [Next]_vars => Ordered'
         /\ TurnsFit /\ Inductive /\ Ordered /\ CoverInv /\ [Next]_vars => CoverInv'
<1> DEFINE Keeps == Ordered' /\ (TurnsFit /\ CoverInv => CoverInv')
<1> SUFFICES ASSUME Inductive, Ordered, [Next]_vars PROVE Keeps
  OBVIOUS
<1> USE DEF Ordered
<1>1. ASSUME Quiet, OrderInv' PROVE Keeps
  BY <1>1, QuietKeeps
<1>2. ASSUME NEW c \in Calls, NEW t \in Turns, CommitKnown(c, t) \/ CommitJoin(c, t)
      PROVE  Keeps
  <2>1. OrderInv' /\ UNCHANGED <<begun, told, task>>
    BY <1>2, FollowsInOrder
  <2>2. UNCHANGED <<manifest, covered, debt>>
    BY <1>2 DEF CommitKnown, CommitJoin, storeVars, historyVars
  <2>3. Quiet
    BY <2>1, <2>2 DEF Quiet
  <2> QED
    BY <1>1, <2>1, <2>3
<1>3. ASSUME NEW c \in Calls, NEW e \in Engines, NEW t \in Turns, CommitLead(c, e, t)
      PROVE  Keeps
  BY <1>3, OrderLeads, LeadKeeps
<1>4. ASSUME NEW c \in Calls, NEW e \in Engines, NEW t \in Turns PROVE ~ AfterTurnOnly(c, e, t)
  BY DEF AfterTurnOnly, OrderedHost
<1>5. ASSUME NEW c \in Calls, Settle(c) PROVE Keeps
  BY <1>1, <1>5, OrderSettles, OutsideIsQuiet
<1>6. ASSUME NEW c \in Calls, TaskStep(c) PROVE Keeps
  <2>1. OrderInv'
    BY <1>6, TaskGoes, OrderGoes
  <2>2. CASE Fenced(c) \/ ClientFails(c) \/ RpcFails(c) \/ PersistFails(c) \/ PostIngest(c)
    BY <1>1, <2>1, <2>2, EndingIsQuiet
  <2>3. CASE SendBatch(c) \/ DaemonServes(c)
    BY <1>1, <2>1, <2>3, TransferIsQuiet
  <2>4. CASE StartIngestion(c)
    BY <2>1, <2>4, StartKeeps
  <2>5. CASE RecoverGap(c)
    BY <2>1, <2>5, RecoverKeeps
  <2>6. CASE Persist(c)
    BY <2>1, <2>6, PersistKeepsSending, PersistKeepsDebt, PersistKeepsCover
  <2> HIDE DEF Keeps
  <2> QED
    BY <1>6, <2>2, <2>3, <2>4, <2>5, <2>6 DEF TaskStep
<1>7. CASE \/ \E r \in late : DaemonServesLate(r)
           \/ DaemonLosesChain \/ ResetLifecycle
           \/ \E e \in Engines : DisposeEngine(e)
           \/ UNCHANGED vars
  <2>1. UNCHANGED <<call, task, queue, begun, told>>
    BY <1>7 DEF DaemonServesLate, DaemonLosesChain, ResetLifecycle, DisposeEngine, vars, hostVars
  <2>2. OrderInv'
    BY <2>1 DEF OrderInv
  <2> QED
    BY <1>1, <1>7, <2>2, OutsideIsQuiet
<1>8. CASE Crash
  BY <1>1, <1>8, OrderCrash, OutsideIsQuiet
<1> HIDE DEF Keeps
<1> QED
  BY <1>2, <1>3, <1>4, <1>5, <1>6, <1>7, <1>8 DEF Next

(* RecoveryPaidBeforeCommit of TurnIngest, for a host that commits in      *)
(* order: the commit that ends a recovery comes after the daemon confirmed *)
(* all of the recovery batch, over however many partial answers, retries,  *)
(* crashes and further gaps (persistAcknowledgedBatch keeps                *)
(* recoveryPending while a batch is incomplete).                           *)
THEOREM RecoveryIsPaid ==
  ASSUME DurableHost, InOrderHost, ~ AfterTurnHost, CapIsStable
  PROVE  Spec => RecoveryPaidBeforeCommit
<1>1. OrderedHost
  BY DEF OrderedHost
<1>2. Init => Ordered
  BY OrderedInit
<1>3. Inductive /\ Ordered /\ [Next]_vars => Ordered'
  BY <1>1, OrderedStep
<1>4. Inductive /\ Ordered /\ [Next]_vars =>
        [\A t \in Turns : t \in told' \ told => debt'[t] = {}]_vars
  <2> SUFFICES ASSUME Inductive, Ordered, Next, NEW t \in Turns, t \in told' \ told
               PROVE  debt'[t] = {}
    OBVIOUS
  <2>1. PICK c \in Calls : Settle(c)
    <3>1. \A c \in Calls, u \in Turns : CommitKnown(c, u) \/ CommitJoin(c, u) => told' = told
      BY <1>1, FollowsInOrder DEF Ordered
    <3>2. \A c \in Calls, e \in Engines, u \in Turns :
            CommitLead(c, e, u) \/ AfterTurnOnly(c, e, u) => told' = told
      BY DEF CommitLead, AfterTurnOnly
    <3>3. \A c \in Calls : TaskStep(c) => told' = told
      BY HeadRuns
    <3>4. \/ \E r \in late : DaemonServesLate(r)
          \/ DaemonLosesChain \/ ResetLifecycle \/ Crash
          \/ \E e \in Engines : DisposeEngine(e)
          => told' = told
      BY DEF DaemonServesLate, DaemonLosesChain, ResetLifecycle, DisposeEngine, Crash, hostVars
    <3> QED
      BY <3>1, <3>2, <3>3, <3>4 DEF Next
  <2>2. /\ t = task[c].turn /\ task[c].step \in {"ok", "skipped"} /\ debt' = debt
    BY <2>1 DEF Settle, AnswerOf, Settled, historyVars
  <2> QED
    BY <2>2 DEF Ordered, DebtInv
<1> QED
  BY <1>2, <1>3, <1>4, InductiveHolds, PTL DEF Spec, RecoveryPaidBeforeCommit

(* ReplayAddsNothing of TurnIngest, for a host that commits in order and   *)
(* turns that fit the cap: no batch is sent for a turn that the checkpoint *)
(* has covered, whatever was queued, reset, lost or restarted in between   *)
(* (the overlap is taken again from the reloaded checkpoint).              *)
THEOREM ReplaysAddNothing ==
  ASSUME DurableHost, InOrderHost, ~ AfterTurnHost, CapIsStable, TurnsFit
  PROVE  Spec => ReplayAddsNothing
<1>1. OrderedHost
  BY DEF OrderedHost
<1>2. Init => Ordered /\ CoverInv
  BY OrderedInit
<1>3. Inductive /\ Ordered /\ CoverInv /\ [Next]_vars => Ordered' /\ CoverInv'
  BY <1>1, OrderedStep
<1>4. CoverInv => [\A c \in Calls : SendBatch(c) => task[c].turn \notin covered]_vars
  BY DEF CoverInv, SendBatch, Active, Sending
<1> QED
  BY <1>2, <1>3, <1>4, InductiveHolds, PTL DEF Spec, ReplayAddsNothing

-----------------------------------------------------------------------------
(***************************************************************************)
(* The cap of the code: trimMessagesToBudget.                              *)
(*                                                                         *)
(* The lemmas go from the newest message back to the first (BackToFirst).  *)
(* What is taken of a suffix does not depend on what is older              *)
(* (TakenOfSuffix), what was taken is taken again (TakenAgain), and it is  *)
(* what fits beside the newer messages taken (TakenRange).                 *)
(***************************************************************************)

(* What holds at the end and passes from each place to the one before      *)
(* holds everywhere.                                                       *)
LEMMA BackToFirst ==
  ASSUME NEW n \in Nat, NEW T, n + 1 \in T, \A i \in 1..n : i + 1 \in T => i \in T
  PROVE  \A i \in 1..(n + 1) : i \in T
<1> DEFINE D == {k \in 0..n : n + 1 - k \notin T}
<1>1. D = {}
  <2>1. SUFFICES ASSUME D # {} PROVE FALSE
    OBVIOUS
  <2>2. PICK k \in D : \A j \in D : ~ (<<j, k>> \in OpToRel(<, Nat))
    <3>1. D \in SUBSET Nat
      OBVIOUS
    <3> QED
      BY <2>1, <3>1, WFMin, NatLessThanWellFounded
  <2>3. k \in 0..n /\ n + 1 - k \notin T
    OBVIOUS
  <2>4. k # 0
    BY <2>3
  <2>5. k - 1 \in 0..n /\ k - 1 < k /\ k - 1 \in Nat /\ k \in Nat
    BY <2>3, <2>4
  <2>6. k - 1 \notin D
    BY <2>2, <2>5 DEF OpToRel
  <2>7. n + 1 - (k - 1) \in T
    BY <2>5, <2>6
  <2>8. n + 1 - k \in 1..n /\ (n + 1 - k) + 1 = n + 1 - (k - 1)
    BY <2>3, <2>4
  <2> QED
    BY <2>3, <2>7, <2>8
<1>2. ASSUME NEW i \in 1..(n + 1) PROVE i \in T
  <2> DEFINE k == n + 1 - i
  <2>1. k \in 0..n /\ n + 1 - k = i
    OBVIOUS
  <2> HIDE DEF k
  <2> QED
    BY <1>1, <2>1
<1> QED
  BY <1>2

TakenTo(b, weight, budget, first, f) ==
  f = [i \in first..(Len(b) + 1) |->
         IF i = Len(b) + 1 THEN NoneTaken ELSE TakeOlder(f[i + 1], b[i], weight, budget)]

LEMMA TakenToExtends ==
  ASSUME NEW S, NEW b \in Seq(S), NEW weight, NEW budget, NEW i \in 1..Len(b), NEW f,
         TakenTo(b, weight, budget, i + 1, f)
  PROVE  \E g : TakenTo(b, weight, budget, i, g)
<1> DEFINE last == Len(b) + 1
<1> DEFINE g == [j \in i..last |->
                   IF j = i THEN TakeOlder(f[i + 1], b[i], weight, budget) ELSE f[j]]
<1>1. Len(b) \in Nat /\ i \in Nat /\ i < last /\ last \in Nat
  BY LenProperties
<1>2. \A j \in i..last :
        g[j] = IF j = i THEN TakeOlder(f[i + 1], b[i], weight, budget) ELSE f[j]
  OBVIOUS
<1>3. \A j \in (i + 1)..last :
        f[j] = IF j = last THEN NoneTaken ELSE TakeOlder(f[j + 1], b[j], weight, budget)
  BY DEF TakenTo
<1>4. g = [j \in i..last |-> g[j]]
  OBVIOUS
<1> HIDE DEF g
<1>5. ASSUME NEW j \in i..last
      PROVE  g[j] = IF j = last THEN NoneTaken ELSE TakeOlder(g[j + 1], b[j], weight, budget)
  <2>1. CASE j = i
    <3>1. i + 1 \in i..last /\ i + 1 # i /\ i # last
      BY <1>1
    <3>2. g[i + 1] = f[i + 1]
      BY <1>2, <3>1
    <3> QED
      BY <1>2, <2>1, <3>1, <3>2
  <2>2. CASE j # i
    <3>1. j \in (i + 1)..last /\ (j # last => j + 1 \in i..last /\ j + 1 # i)
      BY <1>1, <2>2
    <3>2. g[j] = f[j] /\ (j # last => g[j + 1] = f[j + 1])
      BY <1>2, <2>2, <3>1
    <3> QED
      BY <1>3, <3>1, <3>2
  <2> QED
    BY <2>1, <2>2
<1>6. TakenTo(b, weight, budget, i, g)
  BY <1>4, <1>5 DEF TakenTo
<1> QED
  BY <1>6

(* TakenFrom is the function that its recursion describes. *)
LEMMA TakenStep ==
  ASSUME NEW S, NEW b \in Seq(S), NEW weight, NEW budget
  PROVE  LET taken == TakenFrom(b, weight, budget)
         IN  /\ taken[Len(b) + 1] = NoneTaken
             /\ \A i \in 1..Len(b) : taken[i] = TakeOlder(taken[i + 1], b[i], weight, budget)
<1> DEFINE last == Len(b) + 1
           T == {i \in 1..last : \E f : TakenTo(b, weight, budget, i, f)}
           taken == TakenFrom(b, weight, budget)
<1>1. Len(b) \in Nat
  BY LenProperties
<1>2. last \in T
  <2> DEFINE f == [i \in last..last |-> NoneTaken]
  <2>1. \A i \in last..last : i = last
    BY <1>1
  <2>2. TakenTo(b, weight, budget, last, f)
    BY <2>1 DEF TakenTo
  <2>3. last \in 1..last
    BY <1>1
  <2> QED
    BY <2>2, <2>3
<1>3. ASSUME NEW i \in 1..Len(b), i + 1 \in T PROVE i \in T
  <2>1. PICK f : TakenTo(b, weight, budget, i + 1, f)
    BY <1>3
  <2>2. i \in 1..last
    BY <1>1
  <2> QED
    BY <2>1, <2>2, TakenToExtends
<1>4. 1 \in T
  <2> HIDE DEF T
  <2>1. \A i \in 1..(Len(b) + 1) : i \in T
    BY <1>1, <1>2, <1>3, BackToFirst
  <2>2. 1 \in 1..(Len(b) + 1)
    BY <1>1
  <2> QED
    BY <2>1, <2>2
<1>5. TakenTo(b, weight, budget, 1, taken)
  BY <1>4 DEF TakenTo, TakenFrom
<1> HIDE DEF taken
<1>6. \A i \in 1..last :
        taken[i] = IF i = last THEN NoneTaken ELSE TakeOlder(taken[i + 1], b[i], weight, budget)
  BY <1>5 DEF TakenTo
<1>7. last \in 1..last /\ \A i \in 1..Len(b) : i \in 1..last /\ i # last
  BY <1>1
<1>8. taken[last] = NoneTaken
  BY <1>6, <1>7
<1>9. \A i \in 1..Len(b) : taken[i] = TakeOlder(taken[i + 1], b[i], weight, budget)
  BY <1>6, <1>7
<1> QED
  BY <1>8, <1>9 DEF taken

(* What is taken of a suffix does not depend on what is older. *)
LEMMA TakenOfSuffix ==
  ASSUME NEW S, NEW b \in Seq(S), NEW weight, NEW budget, NEW k \in 1..(Len(b) + 1)
  PROVE  TakenFrom(SubSeq(b, k, Len(b)), weight, budget)[1] = TakenFrom(b, weight, budget)[k]
<1> DEFINE s == SubSeq(b, k, Len(b))
           n == Len(b) - k + 1
           ofB == TakenFrom(b, weight, budget)
           ofS == TakenFrom(s, weight, budget)
           T == {i \in 1..(n + 1) : ofS[i] = ofB[i + k - 1]}
<1>1. Len(b) \in Nat /\ n \in Nat /\ k \in Nat
  BY LenProperties
<1>2. /\ s \in Seq(S) /\ Len(s) = n
      /\ \A i \in 1..n : s[i] = b[i + k - 1] /\ i + k - 1 \in 1..Len(b)
  <2>1. \A i \in k..Len(b) : b[i] \in S
    BY <1>1
  <2>2. s \in Seq(S) /\ Len(s) = (IF k <= Len(b) THEN Len(b) - k + 1 ELSE 0)
        /\ \A i \in 1..(Len(b) - k + 1) : s[i] = b[k + i - 1]
    BY <1>1, <2>1, SubSeqProperties
  <2>3. Len(s) = n
    BY <1>1, <2>2
  <2>4. \A i \in 1..n : k + i - 1 = i + k - 1 /\ i + k - 1 \in 1..Len(b)
    BY <1>1
  <2> QED
    BY <2>2, <2>3, <2>4
<1>3. /\ ofB[Len(b) + 1] = NoneTaken
      /\ \A i \in 1..Len(b) : ofB[i] = TakeOlder(ofB[i + 1], b[i], weight, budget)
  BY TakenStep
<1> HIDE DEF s
<1>4. /\ ofS[n + 1] = NoneTaken
      /\ \A i \in 1..n : ofS[i] = TakeOlder(ofS[i + 1], s[i], weight, budget)
  BY <1>2, TakenStep
<1> HIDE DEF ofB, ofS
<1>5. n + 1 \in T
  <2>1. n + 1 \in 1..(n + 1) /\ (n + 1) + k - 1 = Len(b) + 1
    BY <1>1
  <2> QED
    BY <1>3, <1>4, <2>1
<1>6. ASSUME NEW i \in 1..n, i + 1 \in T PROVE i \in T
  <2>1. i \in 1..(n + 1) /\ (i + 1) + k - 1 = (i + k - 1) + 1
    BY <1>1
  <2>2. ofS[i + 1] = ofB[(i + k - 1) + 1]
    BY <1>6, <2>1
  <2>3. ofS[i] = TakeOlder(ofS[i + 1], s[i], weight, budget)
        /\ ofB[i + k - 1] = TakeOlder(ofB[(i + k - 1) + 1], b[i + k - 1], weight, budget)
        /\ s[i] = b[i + k - 1]
    BY <1>2, <1>3, <1>4
  <2>4. ofS[i] = ofB[i + k - 1]
    BY <2>2, <2>3
  <2> QED
    BY <2>1, <2>4
<1>7. 1 \in T
  <2> HIDE DEF T
  <2>1. \A i \in 1..(n + 1) : i \in T
    BY <1>1, <1>5, <1>6, BackToFirst
  <2>2. 1 \in 1..(n + 1)
    BY <1>1
  <2> QED
    BY <2>1, <2>2
<1>8. 1 + k - 1 = k
  BY <1>1
<1>9. ofS[1] = ofB[k]
  BY <1>7, <1>8
<1> QED
  BY <1>9 DEF s, ofS, ofB

(* What is taken of a batch. *)
Taken(b, weight, budget) == TakenFrom(b, weight, budget)[1]

LEMMA TakenOfNone ==
  ASSUME NEW weight, NEW budget
  PROVE  Taken(<< >>, weight, budget) = NoneTaken
<1>1. << >> \in Seq({}) /\ Len(<< >>) + 1 = 1
  BY EmptySeq
<1>2. \A b \in Seq({}) : TakenFrom(b, weight, budget)[Len(b) + 1] = NoneTaken
  BY TakenStep
<1> QED
  BY <1>1, <1>2 DEF Taken

(* An older message is taken or passed over, after the newer ones. *)
LEMMA TakenOfMore ==
  ASSUME NEW S, NEW b \in Seq(S), NEW m \in S, NEW weight, NEW budget
  PROVE  Taken(<<m>> \o b, weight, budget) = TakeOlder(Taken(b, weight, budget), m, weight, budget)
<1> DEFINE more == <<m>> \o b
<1>1. /\ more \in Seq(S) /\ Len(more) = Len(b) + 1 /\ Len(b) \in Nat /\ more[1] = m
      /\ SubSeq(more, 2, Len(more)) = b
  <2>1. <<m>> \in Seq(S) /\ Len(<<m>>) = 1 /\ Len(b) \in Nat
    BY LenProperties
  <2>2. more \in Seq(S) /\ Len(more) = Len(b) + 1 /\ more[1] = m
    BY <2>1, ConcatProperties
  <2>3. Tail(more) = b
    BY <2>1, ConcatProperties, HeadTailProperties
  <2>4. Tail(more) = SubSeq(more, 2, Len(more))
    BY <2>2, HeadTailProperties
  <2> QED
    BY <2>1, <2>2, <2>3, <2>4
<1> HIDE DEF more
<1>2. 1 \in 1..Len(more) /\ 2 \in 1..(Len(more) + 1) /\ 1 + 1 = 2
  BY <1>1
<1>3. TakenFrom(more, weight, budget)[1]
        = TakeOlder(TakenFrom(more, weight, budget)[2], more[1], weight, budget)
  BY <1>1, <1>2, TakenStep
<1>4. TakenFrom(SubSeq(more, 2, Len(more)), weight, budget)[1] = TakenFrom(more, weight, budget)[2]
  BY <1>1, <1>2, TakenOfSuffix
<1> QED
  BY <1>1, <1>3, <1>4 DEF more, Taken

(* What is taken fits the budget. *)
LEMMA TakenFits ==
  ASSUME NEW S, NEW b \in Seq(S), NEW weight \in [S -> Nat], NEW budget \in Nat
  PROVE  LET taken == TakenFrom(b, weight, budget)
         IN  \A i \in 1..(Len(b) + 1) :
               taken[i] \in [used : 0..budget, kept : Seq(S)]
<1> DEFINE taken == TakenFrom(b, weight, budget)
           T == {i \in 1..(Len(b) + 1) : taken[i] \in [used : 0..budget, kept : Seq(S)]}
<1>1. /\ taken[Len(b) + 1] = NoneTaken
      /\ \A i \in 1..Len(b) : taken[i] = TakeOlder(taken[i + 1], b[i], weight, budget)
  BY TakenStep
<1>2. Len(b) \in Nat
  BY LenProperties
<1> HIDE DEF taken
<1>3. Len(b) + 1 \in T
  <2>1. NoneTaken \in [used : 0..budget, kept : Seq(S)]
    BY EmptySeq DEF NoneTaken
  <2>2. Len(b) + 1 \in 1..(Len(b) + 1)
    BY <1>2
  <2> QED
    BY <1>1, <2>1, <2>2
<1>4. ASSUME NEW i \in 1..Len(b), i + 1 \in T PROVE i \in T
  <2>1. taken[i + 1] \in [used : 0..budget, kept : Seq(S)] /\ i \in 1..(Len(b) + 1)
    BY <1>2, <1>4
  <2>2. PICK newer : newer = taken[i + 1]
    OBVIOUS
  <2>3. newer.used \in 0..budget /\ newer.kept \in Seq(S) /\ b[i] \in S /\ weight[b[i]] \in Nat
    BY <2>1, <2>2, ElementOfSeq
  <2>4. <<b[i]>> \o newer.kept \in Seq(S)
    <3>1. <<b[i]>> \in Seq(S)
      BY <2>3
    <3> QED
      BY <2>3, <3>1, ConcatProperties
  <2>5. newer.used + weight[b[i]] > budget \/ newer.used + weight[b[i]] \in 0..budget
    BY <2>3
  <2>6. TakeOlder(newer, b[i], weight, budget) \in [used : 0..budget, kept : Seq(S)]
    BY <2>1, <2>2, <2>4, <2>5 DEF TakeOlder
  <2> QED
    BY <1>1, <2>1, <2>2, <2>6
<1> HIDE DEF T
<1>5. \A i \in 1..(Len(b) + 1) : i \in T
  BY <1>2, <1>3, <1>4, BackToFirst
<1> QED
  BY <1>5 DEF T, taken

LEMMA TakenType ==
  ASSUME NEW S, NEW b \in Seq(S), NEW weight \in [S -> Nat], NEW budget \in Nat
  PROVE  Taken(b, weight, budget) \in [used : 0..budget, kept : Seq(S)]
<1>1. 1 \in 1..(Len(b) + 1)
  BY LenProperties
<1> QED
  BY <1>1, TakenFits DEF Taken

(* What was taken is taken again, whole or from any place on. *)
Again(taken, weight, budget) ==
  /\ Taken(taken.kept, weight, budget) = taken
  /\ \A k \in 1..Len(taken.kept) :
       LET rest == SubSeq(taken.kept, k, Len(taken.kept))
       IN  Taken(rest, weight, budget).kept = rest

LEMMA AgainOlder ==
  ASSUME NEW S, NEW weight \in [S -> Nat], NEW budget \in Nat, NEW m \in S,
         NEW newer \in [used : 0..budget, kept : Seq(S)], Again(newer, weight, budget)
  PROVE  Again(TakeOlder(newer, m, weight, budget), weight, budget)
<1> DEFINE c == newer.kept
           more == <<m>> \o c
<1>1. c \in Seq(S) /\ Len(c) \in Nat
  BY LenProperties
<1>2. CASE newer.used + weight[m] > budget
  BY <1>2 DEF TakeOlder
<1>3. CASE ~ (newer.used + weight[m] > budget)
  <2>1. TakeOlder(newer, m, weight, budget) = [used |-> newer.used + weight[m], kept |-> more]
    BY <1>3 DEF TakeOlder
  <2>2. Taken(more, weight, budget) = TakeOlder(newer, m, weight, budget)
    BY <1>1, TakenOfMore DEF Again
  <2>3. /\ Len(more) = Len(c) + 1
        /\ SubSeq(more, 1, Len(more)) = more
        /\ \A k \in 1..Len(c) : SubSeq(more, k + 1, Len(more)) = SubSeq(c, k, Len(c))
    <3>1. <<m>> \in Seq(S) /\ Len(<<m>>) = 1
      OBVIOUS
    <3>2. more \in Seq(S) /\ Len(more) = Len(c) + 1
      BY <1>1, <3>1, ConcatProperties
    <3>3. SubSeq(more, 1, Len(more)) = more
      BY <3>2, SubSeqFull
    <3>4. ASSUME NEW k \in 1..Len(c) PROVE SubSeq(more, k + 1, Len(more)) = SubSeq(c, k, Len(c))
      <4>1. \A i \in 1..Len(c) : more[i + 1] = c[i] /\ c[i] \in S
        BY <1>1, <3>1, ConcatProperties, ElementOfSeq
      <4> DEFINE p == SubSeq(more, k + 1, Len(more))
                 q == SubSeq(c, k, Len(c))
      <4>2. /\ p \in Seq(S) /\ Len(p) = Len(c) - k + 1
            /\ \A i \in 1..(Len(c) - k + 1) : p[i] = more[k + i]
        <5> HIDE DEF more
        <5>1. \A i \in (k + 1)..Len(more) : more[i] \in S
          BY <1>1, <3>2
        <5>2. /\ p \in Seq(S)
              /\ Len(p) = IF k + 1 <= Len(more) THEN Len(more) - (k + 1) + 1 ELSE 0
              /\ \A i \in 1..(Len(more) - (k + 1) + 1) : p[i] = more[(k + 1) + i - 1]
          BY <1>1, <3>2, <5>1, SubSeqProperties, SMTT(40)
        <5>3. k + 1 <= Len(more) /\ Len(more) - (k + 1) + 1 = Len(c) - k + 1
              /\ \A i \in 1..(Len(c) - k + 1) : (k + 1) + i - 1 = k + i
          BY <1>1, <3>2
        <5> QED
          BY <5>2, <5>3
      <4>3. /\ q \in Seq(S) /\ Len(q) = Len(c) - k + 1
            /\ \A i \in 1..(Len(c) - k + 1) : q[i] = c[k + i - 1]
        BY <1>1
      <4>4. \A i \in 1..(Len(c) - k + 1) :
              k + i - 1 \in 1..Len(c) /\ (k + i - 1) + 1 = k + i
        BY <1>1
      <4> HIDE DEF p, q, more
      <4>5. \A i \in 1..(Len(c) - k + 1) : p[i] = q[i]
        BY <4>1, <4>2, <4>3, <4>4
      <4>6. p = q
        BY <4>2, <4>3, <4>5, SeqEqual
      <4> QED
        BY <4>6 DEF p, q
    <3> QED
      BY <3>2, <3>3, <3>4
  <2> HIDE DEF more
  <2>4. ASSUME NEW k \in 1..Len(more)
        PROVE  Taken(SubSeq(more, k, Len(more)), weight, budget).kept = SubSeq(more, k, Len(more))
    <3>1. CASE k = 1
      <4>1. SubSeq(more, k, Len(more)) = more
        BY <2>3, <3>1
      <4>2. Taken(more, weight, budget).kept = more
        BY <2>1, <2>2
      <4> QED
        BY <4>1, <4>2
    <3>2. CASE k # 1
      <4>1. k - 1 \in 1..Len(c) /\ (k - 1) + 1 = k
        BY <1>1, <2>3, <3>2
      <4>2. SubSeq(more, k, Len(more)) = SubSeq(c, k - 1, Len(c))
        BY <2>3, <4>1
      <4> QED
        BY <4>1, <4>2 DEF Again
    <3> QED
      BY <3>1, <3>2
  <2> QED
    BY <2>1, <2>2, <2>4 DEF Again
<1> QED
  BY <1>2, <1>3

LEMMA TakenAgain ==
  ASSUME NEW S, NEW b \in Seq(S), NEW weight \in [S -> Nat], NEW budget \in Nat
  PROVE  Again(Taken(b, weight, budget), weight, budget)
<1> DEFINE taken == TakenFrom(b, weight, budget)
           T == {i \in 1..(Len(b) + 1) : Again(taken[i], weight, budget)}
<1>1. /\ taken[Len(b) + 1] = NoneTaken
      /\ \A i \in 1..Len(b) : taken[i] = TakeOlder(taken[i + 1], b[i], weight, budget)
  BY TakenStep
<1>2. \A i \in 1..(Len(b) + 1) : taken[i] \in [used : 0..budget, kept : Seq(S)]
  BY TakenFits
<1>3. Len(b) \in Nat
  BY LenProperties
<1> HIDE DEF taken
<1>4. Len(b) + 1 \in T
  <2>1. NoneTaken.kept = << >> /\ Len(<< >>) = 0
    BY DEF NoneTaken
  <2>2. Again(NoneTaken, weight, budget)
    BY <2>1, TakenOfNone DEF Again
  <2> QED
    BY <1>1, <1>3, <2>2
<1>5. ASSUME NEW i \in 1..Len(b), i + 1 \in T PROVE i \in T
  <2>1. i \in 1..(Len(b) + 1) /\ i + 1 \in 1..(Len(b) + 1) /\ b[i] \in S
    BY <1>3, ElementOfSeq
  <2>2. Again(taken[i + 1], weight, budget) /\ taken[i + 1] \in [used : 0..budget, kept : Seq(S)]
    BY <1>2, <1>5, <2>1
  <2>3. Again(TakeOlder(taken[i + 1], b[i], weight, budget), weight, budget)
    BY <2>1, <2>2, AgainOlder
  <2>4. Again(taken[i], weight, budget)
    BY <1>1, <2>3
  <2> QED
    BY <2>1, <2>4
<1>6. 1 \in T
  <2> HIDE DEF T
  <2>1. \A i \in 1..(Len(b) + 1) : i \in T
    BY <1>3, <1>4, <1>5, BackToFirst
  <2>2. 1 \in 1..(Len(b) + 1)
    BY <1>3
  <2> QED
    BY <2>1, <2>2
<1> QED
  BY <1>6 DEF taken, Taken

(* What the cap left it leaves again, from any place on: truncation aside, *)
(* what was kept fitted together.                                          *)
LEMMA BoundAgain ==
  ASSUME NEW S, NEW b \in Seq(S), NEW weight \in [S -> Nat], NEW budget \in Nat
  PROVE  LET all == BoundBatch(b, weight, budget)
         IN  \A k \in 1..Len(all) :
               BoundBatch(SubSeq(all, k, Len(all)), weight, budget) = SubSeq(all, k, Len(all))
<1> DEFINE kept == Taken(b, weight, budget).kept
           all == BoundBatch(b, weight, budget)
           rest(k) == SubSeq(all, k, Len(all))
<1>1. kept \in Seq(S) /\ Len(kept) \in Nat
  BY TakenType, LenProperties
<1>2. CASE b = << >>
  <2>1. all = << >> /\ Len(all) = 0
    BY <1>2 DEF BoundBatch
  <2> QED
    BY <2>1
<1>3. CASE b # << >> /\ kept = << >>
  <2> DEFINE m == b[Len(b)]
  <2>1. all = <<m>>
    BY <1>3 DEF BoundBatch, Taken
  <2>2. m \in S
    BY <1>3, EmptySeq, ElementOfSeq, LenProperties
  <2>3. Taken(<<m>>, weight, budget) = TakeOlder(NoneTaken, m, weight, budget)
    <3>1. << >> \in Seq(S) /\ <<m>> \in Seq(S)
      BY <2>2, EmptySeq
    <3>2. <<m>> \o << >> = <<m>>
      BY <3>1, ConcatEmptySeq
    <3>3. Taken(<<m>> \o << >>, weight, budget) = TakeOlder(Taken(<< >>, weight, budget), m, weight, budget)
      BY <2>2, <3>1, TakenOfMore, ZenonT(40)
    <3> QED
      BY <3>2, <3>3, TakenOfNone
  <2>4. Taken(<<m>>, weight, budget).kept \in {<< >>, <<m>>}
    BY <2>2, <2>3 DEF TakeOlder, NoneTaken
  <2>5. <<m>> # << >> /\ Len(<<m>>) = 1 /\ <<m>>[1] = m
    OBVIOUS
  <2>6. BoundBatch(<<m>>, weight, budget) = <<m>>
    BY <2>4, <2>5 DEF BoundBatch, Taken
  <2>7. \A k \in 1..Len(all) : k = 1 /\ SubSeq(all, k, Len(all)) = <<m>>
    <3>1. SubSeq(<<m>>, 1, Len(<<m>>)) = <<m>>
      <4>1. <<m>> \in Seq(S)
        BY <2>2
      <4> QED
        BY <4>1, SubSeqFull
    <3> QED
      BY <2>1, <2>5, <3>1
  <2> QED
    BY <2>6, <2>7
<1>4. CASE b # << >> /\ kept # << >>
  <2>1. all = kept
    BY <1>4 DEF BoundBatch, Taken
  <2>2. \A k \in 1..Len(kept) : Taken(SubSeq(kept, k, Len(kept)), weight, budget).kept
                                 = SubSeq(kept, k, Len(kept))
    BY TakenAgain DEF Again
  <2>3. ASSUME NEW k \in 1..Len(kept) PROVE SubSeq(kept, k, Len(kept)) # << >>
    <3>1. Len(SubSeq(kept, k, Len(kept))) = Len(kept) - k + 1 /\ Len(kept) - k + 1 # 0
      BY <1>1
    <3> QED
      BY <3>1
  <2> HIDE DEF kept
  <2>4. ASSUME NEW k \in 1..Len(kept)
        PROVE  BoundBatch(SubSeq(kept, k, Len(kept)), weight, budget) = SubSeq(kept, k, Len(kept))
    BY <2>2, <2>3 DEF BoundBatch, Taken
  <2> QED
    BY <2>1, <2>4
<1> QED
  BY <1>2, <1>3, <1>4

(* The places of the messages that fit beside the newer ones taken. *)
Fitting(b, weight, budget, i) ==
  {j \in i..Len(b) : TakenFrom(b, weight, budget)[j + 1].used + weight[b[j]] <= budget}

Fitted(b, weight, budget, i) == {b[j] : j \in Fitting(b, weight, budget, i)}

(* The messages taken are those that fit. *)
LEMMA TakenRange ==
  ASSUME NEW S, NEW b \in Seq(S), NEW weight \in [S -> Nat], NEW budget \in Nat
  PROVE  LET taken == TakenFrom(b, weight, budget)
         IN  \A i \in 1..(Len(b) + 1) :
               Range(taken[i].kept) = Fitted(b, weight, budget, i)
<1> DEFINE taken == TakenFrom(b, weight, budget)
           Fits(i) == Fitting(b, weight, budget, i)
           T == {i \in 1..(Len(b) + 1) : Range(taken[i].kept) = {b[j] : j \in Fits(i)}}
<1>0. \A i \in 1..(Len(b) + 1) :
        Fits(i) = {j \in i..Len(b) : taken[j + 1].used + weight[b[j]] <= budget}
  BY DEF Fitting
<1>1. /\ taken[Len(b) + 1] = NoneTaken
      /\ \A i \in 1..Len(b) : taken[i] = TakeOlder(taken[i + 1], b[i], weight, budget)
  BY TakenStep
<1>2. \A i \in 1..(Len(b) + 1) : taken[i] \in [used : 0..budget, kept : Seq(S)]
  BY TakenFits
<1>3. Len(b) \in Nat
  BY LenProperties
<1> HIDE DEF taken, Fits
<1>4. Len(b) + 1 \in T
  <2>1. Fits(Len(b) + 1) = {}
    <3>1. Len(b) + 1 \in 1..(Len(b) + 1) /\ (Len(b) + 1)..Len(b) = {}
      BY <1>3
    <3> QED
      BY <1>0, <3>1
  <2>2. Range(taken[Len(b) + 1].kept) = {}
    BY <1>1 DEF NoneTaken, Range
  <2>3. Len(b) + 1 \in 1..(Len(b) + 1)
    BY <1>3
  <2> QED
    BY <2>1, <2>2, <2>3
<1>5. ASSUME NEW i \in 1..Len(b), i + 1 \in T PROVE i \in T
  <2>1. i \in 1..(Len(b) + 1) /\ i + 1 \in 1..(Len(b) + 1) /\ b[i] \in S
    BY <1>3, ElementOfSeq
  <2>2. PICK newer \in [used : 0..budget, kept : Seq(S)] : newer = taken[i + 1]
    BY <1>2, <2>1
  <2>3. Range(newer.kept) = {b[j] : j \in Fits(i + 1)}
    BY <1>5, <2>2
  <2>4. newer.used \in Nat /\ newer.kept \in Seq(S) /\ weight[b[i]] \in Nat
    BY <2>1
  <2>5. CASE newer.used + weight[b[i]] > budget
    <3>1. taken[i] = newer
      BY <1>1, <2>2, <2>5 DEF TakeOlder
    <3>2. Fits(i) = Fits(i + 1)
      <4>1. ~ (taken[i + 1].used + weight[b[i]] <= budget)
        BY <2>2, <2>4, <2>5
      <4>2. \A l \in i..Len(b) : l = i \/ l \in (i + 1)..Len(b)
        BY <1>3
      <4>3. (i + 1)..Len(b) \subseteq i..Len(b)
        BY <1>3
      <4> QED
        BY <1>0, <2>1, <4>1, <4>2, <4>3
    <3> QED
      BY <2>1, <2>3, <3>1, <3>2
  <2>6. CASE ~ (newer.used + weight[b[i]] > budget)
    <3>1. taken[i].kept = <<b[i]>> \o newer.kept
      <4>1. taken[i] = TakeOlder(newer, b[i], weight, budget)
        BY <1>1, <2>2
      <4>2. TakeOlder(newer, b[i], weight, budget).kept = <<b[i]>> \o newer.kept
        BY <2>6 DEF TakeOlder
      <4> QED
        BY <4>1, <4>2
    <3>2. Fits(i) = {i} \cup Fits(i + 1)
      <4>1. taken[i + 1].used + weight[b[i]] <= budget
        BY <2>2, <2>4, <2>6
      <4>2. \A l \in i..Len(b) : l = i \/ l \in (i + 1)..Len(b)
        BY <1>3
      <4>3. (i + 1)..Len(b) \subseteq i..Len(b) /\ i \in i..Len(b)
        BY <1>3
      <4> QED
        BY <1>0, <2>1, <4>1, <4>2, <4>3, ZenonT(40)
    <3>3. Range(<<b[i]>> \o newer.kept) = {b[i]} \cup Range(newer.kept)
      <4>1. <<b[i]>> \in Seq(S) /\ Range(<<b[i]>>) = {b[i]}
        BY <2>1 DEF Range
      <4> DEFINE one == <<b[i]>>
                 kept == newer.kept
      <4>2. one \in Seq(S) /\ kept \in Seq(S)
        BY <2>4, <4>1
      <4> HIDE DEF one, kept
      <4>3. Range(one \o kept) = Range(one) \cup Range(kept)
        BY <4>2, RangeConcatenation, ZenonT(100)
      <4> QED
        BY <4>1, <4>3 DEF one, kept
    <3> QED
      BY <2>1, <2>3, <3>1, <3>2, <3>3
  <2> QED
    BY <2>5, <2>6
<1> HIDE DEF T
<1>6. \A i \in 1..(Len(b) + 1) : i \in T
  BY <1>3, <1>4, <1>5, BackToFirst
<1> QED
  BY <1>6 DEF T, taken, Fits, Fitted

(* A sequence is one of its members. *)
LEMMA OwnRange ==
  ASSUME NEW S, NEW s \in Seq(S)
  PROVE  s \in Seq(Range(s))
<1>1. Len(s) \in Nat /\ s \in [1..Len(s) -> S] /\ DOMAIN s = 1..Len(s)
  BY LenProperties
<1>2. s \in [1..Len(s) -> Range(s)]
  BY <1>1 DEF Range
<1> QED
  BY <1>1, <1>2, SeqDef

(* A suffix of a suffix is one. *)
LEMMA SuffixOfSuffix ==
  ASSUME NEW S, NEW b \in Seq(S), NEW i \in 1..Len(b), NEW k \in 1..(Len(b) - i + 1)
  PROVE  LET s == SubSeq(b, i, Len(b))
         IN  /\ s \in Seq(S) /\ Len(s) = Len(b) - i + 1
             /\ i + k - 1 \in 1..Len(b)
             /\ SubSeq(s, k, Len(s)) = SubSeq(b, i + k - 1, Len(b))
<1> DEFINE s == SubSeq(b, i, Len(b))
           n == Len(b) - (i + k - 1) + 1
           p == SubSeq(s, k, Len(s))
           q == SubSeq(b, i + k - 1, Len(b))
<1>1. Len(b) \in Nat /\ i + k - 1 \in 1..Len(b) /\ n \in Nat
  BY LenProperties
<1>2. /\ s \in Seq(S) /\ Len(s) = Len(b) - i + 1
      /\ \A j \in 1..(Len(b) - i + 1) : s[j] = b[i + j - 1]
  <2>1. \A j \in i..Len(b) : b[j] \in S
    BY <1>1
  <2>2. /\ s \in Seq(S) /\ Len(s) = IF i <= Len(b) THEN Len(b) - i + 1 ELSE 0
        /\ \A j \in 1..(Len(b) - i + 1) : s[j] = b[i + j - 1]
    BY <1>1, <2>1, SubSeqProperties
  <2> QED
    BY <1>1, <2>2
<1>3. /\ q \in Seq(S) /\ Len(q) = n
      /\ \A j \in 1..n : q[j] = b[(i + k - 1) + j - 1]
  <2>1. \A j \in (i + k - 1)..Len(b) : b[j] \in S
    BY <1>1
  <2>2. /\ q \in Seq(S) /\ Len(q) = IF i + k - 1 <= Len(b) THEN n ELSE 0
        /\ \A j \in 1..n : q[j] = b[(i + k - 1) + j - 1]
    BY <1>1, <2>1, SubSeqProperties
  <2> QED
    BY <1>1, <2>2
<1> HIDE DEF s
<1>4. /\ p \in Seq(S) /\ Len(p) = n
      /\ \A j \in 1..n : p[j] = s[k + j - 1]
  <2>1. Len(s) \in Nat /\ k \in 1..Len(s) /\ Len(s) - k + 1 = n
    BY <1>1, <1>2
  <2>2. \A j \in k..Len(s) : s[j] \in S
    BY <1>2, <2>1
  <2>3. /\ p \in Seq(S) /\ Len(p) = IF k <= Len(s) THEN Len(s) - k + 1 ELSE 0
        /\ \A j \in 1..(Len(s) - k + 1) : p[j] = s[k + j - 1]
    BY <2>1, <2>2, SubSeqProperties, SMTT(40)
  <2> HIDE DEF p, n
  <2> QED
    BY <2>1, <2>3
<1>5. \A j \in 1..n : /\ k + j - 1 \in 1..(Len(b) - i + 1)
                      /\ i + (k + j - 1) - 1 = (i + k - 1) + j - 1
  BY <1>1
<1> HIDE DEF p, q, n
<1>6. ASSUME NEW j \in 1..n PROVE p[j] = q[j]
  <2>1. p[j] = s[k + j - 1] /\ q[j] = b[(i + k - 1) + j - 1]
    BY <1>3, <1>4
  <2>2. s[k + j - 1] = b[i + (k + j - 1) - 1]
    BY <1>2, <1>5
  <2> QED
    BY <1>5, <2>1, <2>2
<1>7. p = q
  BY <1>3, <1>4, <1>6, SeqEqual
<1> QED
  BY <1>1, <1>2, <1>7 DEF s, p, q

(* Where no message is larger than the cap, the cap of a suffix is what it *)
(* takes of the batch from there on, and never nothing.                    *)
LEMMA BoundOfSuffix ==
  ASSUME NEW S, NEW b \in Seq(S), NEW budget \in Nat, NEW weight \in [S -> 0..budget],
         NEW k \in 1..Len(b)
  PROVE  LET s == SubSeq(b, k, Len(b))
             taken == TakenFrom(b, weight, budget)
         IN  /\ BoundBatch(s, weight, budget) = taken[k].kept
             /\ taken[k].kept \in Seq(S) /\ taken[k].kept # << >>
             /\ Range(taken[k].kept) \subseteq Range(s)
             /\ Range(taken[k].kept) = Fitted(b, weight, budget, k)
<1> DEFINE s == SubSeq(b, k, Len(b))
           taken == TakenFrom(b, weight, budget)
<1>1. Len(b) \in Nat /\ k \in 1..(Len(b) + 1) /\ weight \in [S -> Nat]
      /\ b[Len(b)] \in S /\ weight[b[Len(b)]] \in 0..budget
  <2>1. Len(b) \in Nat /\ Len(b) \in 1..Len(b)
    BY LenProperties
  <2>2. b[Len(b)] \in S
    BY <2>1, ElementOfSeq
  <2> QED
    BY <2>1, <2>2
<1>2. taken[Len(b) + 1].used = 0
  BY TakenStep DEF NoneTaken
<1>3. taken[k].kept \in Seq(S)
  BY <1>1, TakenFits
<1>4. Range(taken[k].kept) = Fitted(b, weight, budget, k)
  BY <1>1, TakenRange
<1>5. Taken(s, weight, budget) = taken[k]
  BY <1>1, TakenOfSuffix DEF Taken
<1>6. /\ s \in Seq(S) /\ Len(s) = Len(b) - k + 1
      /\ \A j \in k..Len(b) : b[j] \in Range(s)
  <2>1. \A j \in k..Len(b) : b[j] \in S
    BY <1>1
  <2>2. /\ s \in Seq(S) /\ Len(s) = IF k <= Len(b) THEN Len(b) - k + 1 ELSE 0
        /\ \A j \in 1..(Len(b) - k + 1) : s[j] = b[k + j - 1]
    BY <1>1, <2>1, SubSeqProperties
  <2>3. \A j \in k..Len(b) : j - k + 1 \in 1..(Len(b) - k + 1) /\ k + (j - k + 1) - 1 = j
    BY <1>1
  <2> HIDE DEF s
  <2>4. Len(s) = Len(b) - k + 1
    BY <1>1, <2>2
  <2>5. \A j \in k..Len(b) : s[j - k + 1] = b[j] /\ j - k + 1 \in 1..Len(s)
    BY <2>2, <2>3, <2>4
  <2>6. \A j \in 1..Len(s) : s[j] \in Range(s)
    BY <2>2, LenProperties DEF Range
  <2>7. \A j \in k..Len(b) : b[j] \in Range(s)
    BY <2>5, <2>6
  <2> QED
    BY <2>2, <2>4, <2>7
<1> HIDE DEF s, taken
<1>7. Fitting(b, weight, budget, k) \subseteq k..Len(b)
      /\ Len(b) \in Fitting(b, weight, budget, k)
  <2>1. Len(b) \in k..Len(b) /\ taken[Len(b) + 1].used + weight[b[Len(b)]] <= budget
    BY <1>1, <1>2
  <2> QED
    BY <2>1 DEF Fitting, taken
<1>8. Range(taken[k].kept) \subseteq Range(s)
  BY <1>4, <1>6, <1>7 DEF Fitted
<1>9. taken[k].kept # << >>
  <2>2. b[Len(b)] \in Range(taken[k].kept)
    BY <1>4, <1>7 DEF Fitted
  <2>3. Range(<< >>) = {}
    BY DEF Range
  <2> QED
    BY <2>2, <2>3
<1>10. BoundBatch(s, weight, budget) = taken[k].kept
  <2>1. s # << >>
    <3>1. Len(s) # 0
      BY <1>1, <1>6
    <3> QED
      BY <3>1
  <2> QED
    BY <1>5, <1>9, <2>1 DEF BoundBatch, Taken
<1> QED
  BY <1>3, <1>4, <1>8, <1>9, <1>10 DEF s, taken

LEMMA BoundIsTaken ==
  ASSUME NEW S, NEW b \in Seq(S), NEW budget \in Nat, NEW weight \in [S -> 0..budget],
         NEW k \in 1..Len(b)
  PROVE  BoundBatch(SubSeq(b, k, Len(b)), weight, budget) = TakenFrom(b, weight, budget)[k].kept
BY BoundOfSuffix

(* The cap of the code (trimMessagesToBudget) is what TurnIngest assumes   *)
(* of it (BoundedAssumption): it leaves a nonempty subsequence, and        *)
(* history before a turn never costs the turn a message, since it takes    *)
(* the newest first.  Messages are distinct, and none is larger than the   *)
(* cap by itself.                                                          *)
THEOREM CapKeepsTurns ==
  ASSUME NEW S, NEW budget \in Nat, NEW weight \in [S -> 0..budget], NEW all \in Seq(S),
         \A i, j \in 1..Len(all) : all[i] = all[j] => i = j,
         NEW first \in 1..Len(all)
  PROVE  LET own == SubSeq(all, first, Len(all))
             need == Range(BoundBatch(own, weight, budget))
         IN  \A b \in {all, own, BoundBatch(all, weight, budget)} : \A k \in 1..Len(b) :
               LET s == SubSeq(b, k, Len(b))
                   kept == BoundBatch(s, weight, budget)
               IN  /\ kept \in Seq(Range(s)) /\ kept # << >>
                   /\ Range(s) \cap need \subseteq Range(kept)
<1> DEFINE own == SubSeq(all, first, Len(all))
           need == Range(BoundBatch(own, weight, budget))
           taken == TakenFrom(all, weight, budget)
           Right(s) == LET kept == BoundBatch(s, weight, budget)
                       IN  /\ kept \in Seq(Range(s)) /\ kept # << >>
                           /\ Range(s) \cap need \subseteq Range(kept)
<1>1. Len(all) \in Nat /\ 1 \in 1..Len(all) /\ weight \in [S -> Nat]
  BY LenProperties
<1>2. ASSUME NEW k \in 1..Len(all) PROVE Right(SubSeq(all, k, Len(all)))
  <2> DEFINE s == SubSeq(all, k, Len(all))
  <2>1. /\ BoundBatch(s, weight, budget) = taken[k].kept
        /\ taken[k].kept \in Seq(S) /\ taken[k].kept # << >>
        /\ Range(taken[k].kept) \subseteq Range(s)
        /\ Range(taken[k].kept) = Fitted(all, weight, budget, k)
    BY BoundOfSuffix
  <2>2. need = Fitted(all, weight, budget, first)
    <3>1. BoundBatch(own, weight, budget) = taken[first].kept
          /\ Range(taken[first].kept) = Fitted(all, weight, budget, first)
      BY BoundOfSuffix
    <3> QED
      BY <3>1
  <2>3. \A m \in Range(s) : \E j \in k..Len(all) : m = all[j]
    <3>1. \A j \in k..Len(all) : all[j] \in S
      BY <1>1
    <3>2. /\ s \in Seq(S) /\ Len(s) = IF k <= Len(all) THEN Len(all) - k + 1 ELSE 0
          /\ \A j \in 1..(Len(all) - k + 1) : s[j] = all[k + j - 1]
      BY <1>1, <3>1, SubSeqProperties
    <3>3. \A j \in 1..(Len(all) - k + 1) : k + j - 1 \in k..Len(all)
      BY <1>1
    <3> HIDE DEF s
    <3>4. DOMAIN s = 1..(Len(all) - k + 1)
      BY <1>1, <3>2, LenProperties
    <3> SUFFICES ASSUME NEW m \in Range(s) PROVE \E j \in k..Len(all) : m = all[j]
      OBVIOUS
    <3>5. PICK j \in 1..(Len(all) - k + 1) : m = s[j]
      BY <3>4 DEF Range
    <3> QED
      BY <3>2, <3>3, <3>5
  <2> HIDE DEF s, taken, need
  <2>4. Range(s) \cap need \subseteq Range(taken[k].kept)
    <3> SUFFICES ASSUME NEW m \in Range(s), m \in need PROVE m \in Range(taken[k].kept)
      OBVIOUS
    <3>1. PICK i \in k..Len(all) : m = all[i]
      BY <2>3
    <3>2. PICK j \in Fitting(all, weight, budget, first) : m = all[j]
      BY <2>2 DEF Fitted
    <3>3. i \in 1..Len(all) /\ j \in 1..Len(all)
      BY <1>1 DEF Fitting
    <3>4. i = j
      BY <3>1, <3>2, <3>3
    <3>5. i \in Fitting(all, weight, budget, k)
      BY <3>2, <3>4 DEF Fitting
    <3> QED
      BY <2>1, <3>1, <3>5 DEF Fitted
  <2>5. taken[k].kept \in Seq(Range(s))
    <3> DEFINE kept == taken[k].kept
    <3>1. kept \in Seq(S) /\ Range(kept) \subseteq Range(s)
      BY <2>1
    <3> HIDE DEF kept
    <3>2. kept \in Seq(Range(kept)) /\ Seq(Range(kept)) \subseteq Seq(Range(s))
      BY <3>1, OwnRange, SeqMonotonic
    <3> QED
      BY <3>2 DEF kept
  <2> QED
    BY <2>1, <2>4, <2>5 DEF s
<1>3. SubSeq(all, 1, Len(all)) = all
  BY SubSeqFull
<1>4. ASSUME NEW k \in 1..Len(own) PROVE Right(SubSeq(own, k, Len(own)))
  <2>1. 1 \in 1..(Len(all) - first + 1)
    BY <1>1
  <2>2. Len(own) = Len(all) - first + 1
    BY <2>1, SuffixOfSuffix
  <2>3. first + k - 1 \in 1..Len(all)
        /\ SubSeq(own, k, Len(own)) = SubSeq(all, first + k - 1, Len(all))
    BY <2>2, SuffixOfSuffix
  <2> HIDE DEF Right, own
  <2> QED
    BY <1>2, <2>3
<1>5. ASSUME NEW k \in 1..Len(BoundBatch(all, weight, budget))
      PROVE  LET b == BoundBatch(all, weight, budget) IN Right(SubSeq(b, k, Len(b)))
  <2> DEFINE b == BoundBatch(all, weight, budget)
             s == SubSeq(b, k, Len(b))
  <2>1. b \in Seq(S)
    <3>1. \A i \in 1..Len(all) :
            /\ BoundBatch(SubSeq(all, i, Len(all)), weight, budget) = taken[i].kept
            /\ taken[i].kept \in Seq(S)
      BY BoundOfSuffix, SMTT(40)
    <3> QED
      BY <1>1, <1>3, <3>1
  <2>2. BoundBatch(s, weight, budget) = s
    BY <1>1, BoundAgain
  <2> HIDE DEF b
  <2>3. s \in Seq(S) /\ s # << >>
    <3>1. Len(b) \in Nat /\ 1 \in 1..(Len(b) - k + 1) /\ k \in 1..Len(b)
      BY <2>1, LenProperties DEF b
    <3>2. s \in Seq(S) /\ Len(s) = Len(b) - k + 1
      BY <2>1, <3>1, SuffixOfSuffix
    <3> HIDE DEF s
    <3>3. Len(s) # 0
      BY <3>1, <3>2
    <3> QED
      BY <3>2, <3>3
  <2> HIDE DEF need, s
  <2>4. s \in Seq(Range(s))
    BY <2>3, OwnRange
  <2>5. Right(s)
    BY <2>2, <2>3, <2>4
  <2> HIDE DEF Right
  <2> QED
    BY <2>5 DEF b, s
<1> QED
  BY <1>2, <1>4, <1>5

(* A message put before a sequence leaves its end as it is. *)
LEMMA MatchesWithMore ==
  ASSUME NEW S, NEW m \in S, NEW s \in Seq(S), NEW t \in Seq(S), MatchesTail(s, t, Len(t))
  PROVE  MatchesTail(<<m>> \o s, t, Len(t))
<1> DEFINE more == <<m>> \o s
<1>1. Len(s) \in Nat /\ Len(t) \in Nat
  BY LenProperties
<1>2. Len(more) = Len(s) + 1 /\ \A i \in 1..Len(s) : more[i + 1] = s[i]
  <2>1. <<m>> \in Seq(S) /\ Len(<<m>>) = 1
    OBVIOUS
  <2> QED
    BY <1>1, <2>1, ConcatProperties
<1> HIDE DEF more
<1>3. \A i \in 1..Len(t) : /\ Len(s) - Len(t) + i \in 1..Len(s)
                           /\ Len(more) - Len(t) + i = (Len(s) - Len(t) + i) + 1
                           /\ s[Len(s) - Len(t) + i] = t[i]
  BY <1>1, <1>2 DEF MatchesTail
<1>4. \A i \in 1..Len(t) : more[Len(more) - Len(t) + i] = t[i]
  BY <1>2, <1>3
<1>5. Len(t) <= Len(more)
  BY <1>1, <1>2 DEF MatchesTail
<1> QED
  BY <1>1, <1>4, <1>5 DEF MatchesTail, more

(* What is taken of a batch ends with what is taken from any place on. *)
LEMMA TakenEndsWith ==
  ASSUME NEW S, NEW b \in Seq(S), NEW weight \in [S -> Nat], NEW budget \in Nat,
         NEW k \in 1..Len(b)
  PROVE  LET taken == TakenFrom(b, weight, budget)
         IN  MatchesTail(taken[1].kept, taken[k].kept, Len(taken[k].kept))
<1> DEFINE taken == TakenFrom(b, weight, budget)
           T == {i \in 1..k : MatchesTail(taken[i].kept, taken[k].kept, Len(taken[k].kept))}
<1>1. Len(b) \in Nat /\ k - 1 \in Nat /\ (k - 1) + 1 = k
  BY LenProperties
<1>2. \A i \in 1..Len(b) : taken[i] = TakeOlder(taken[i + 1], b[i], weight, budget)
  BY TakenStep
<1>3. \A i \in 1..k : taken[i].kept \in Seq(S)
  <2>1. \A i \in 1..(Len(b) + 1) : taken[i] \in [used : 0..budget, kept : Seq(S)]
    BY TakenFits
  <2>2. \A i \in 1..k : i \in 1..(Len(b) + 1)
    BY <1>1
  <2> QED
    BY <2>1, <2>2
<1> HIDE DEF taken
<1>4. (k - 1) + 1 \in T
  <2>1. k \in 1..k
    BY <1>1
  <2>2. MatchesTail(taken[k].kept, taken[k].kept, Len(taken[k].kept))
    BY <1>3, <2>1, LenProperties DEF MatchesTail
  <2> QED
    BY <1>1, <2>1, <2>2
<1>5. ASSUME NEW i \in 1..(k - 1), i + 1 \in T PROVE i \in T
  <2>1. i \in 1..Len(b) /\ i \in 1..k /\ i + 1 \in 1..k /\ b[i] \in S /\ k \in 1..k
    BY <1>1, ElementOfSeq
  <2>2. PICK newer : newer = taken[i + 1]
    OBVIOUS
  <2>3. TakeOlder(newer, b[i], weight, budget).kept \in {newer.kept, <<b[i]>> \o newer.kept}
    BY DEF TakeOlder
  <2>4. taken[i].kept \in {newer.kept, <<b[i]>> \o newer.kept}
    BY <1>2, <2>1, <2>2, <2>3
  <2>5. newer.kept \in Seq(S) /\ taken[k].kept \in Seq(S)
    BY <1>3, <2>1, <2>2
  <2>6. MatchesTail(newer.kept, taken[k].kept, Len(taken[k].kept))
    BY <1>5, <2>2
  <2>7. MatchesTail(<<b[i]>> \o newer.kept, taken[k].kept, Len(taken[k].kept))
    BY <2>1, <2>5, <2>6, MatchesWithMore
  <2>8. MatchesTail(taken[i].kept, taken[k].kept, Len(taken[k].kept))
    BY <2>4, <2>6, <2>7
  <2> QED
    BY <2>1, <2>8
<1>6. 1 \in T
  <2> HIDE DEF T
  <2>1. \A i \in 1..((k - 1) + 1) : i \in T
    BY <1>1, <1>4, <1>5, BackToFirst
  <2>2. 1 \in 1..((k - 1) + 1)
    BY <1>1
  <2> QED
    BY <2>1, <2>2
<1> QED
  BY <1>6 DEF taken

(* Bounded is the cap of the code, for these weights and this budget. *)
CodesCap(weight, budget) == \A b \in Seq(Msgs) : Bounded(b) = BoundBatch(b, weight, budget)

(* CapIsStable of TurnIngest, which RecoveryIsPaid and ReplaysAddNothing   *)
(* assume, is true of the cap of the code, whatever messages weigh: what   *)
(* trimMessagesToBudget kept fits again, and from any place on.            *)
THEOREM StabilityOfTheCap ==
  ASSUME NEW weight \in [Msgs -> Nat], NEW budget \in Nat, CodesCap(weight, budget)
  PROVE  CapIsStable
<1> SUFFICES ASSUME NEW t \in Turns, NEW k \in 1..Len(Bounded(Transcript[t]))
             PROVE  LET all == Bounded(Transcript[t])
                    IN  Bounded(SubSeq(all, k, Len(all))) = SubSeq(all, k, Len(all))
  BY DEF CapIsStable
<1> DEFINE all == Bounded(Transcript[t])
           rest == SubSeq(all, k, Len(all))
<1>1. Transcript[t] \in Seq(Msgs) /\ all \in Seq(Msgs) /\ Len(all) \in Nat
  BY BatchType, LenProperties DEF Batches
<1>2. all = BoundBatch(Transcript[t], weight, budget)
  BY <1>1 DEF CodesCap
<1>3. BoundBatch(rest, weight, budget) = rest
  BY <1>1, <1>2, BoundAgain
<1>4. rest \in Seq(Msgs)
  BY <1>1, SubSeqType
<1> QED
  BY <1>3, <1>4 DEF CodesCap

(* TurnsFit of TurnIngest, which ReplaysAddNothing assumes, is true of the *)
(* cap of the code whenever it would leave each turn as it is, taken by    *)
(* itself: what is older only comes after.                                 *)
THEOREM TurnsFitTheCap ==
  ASSUME NEW budget \in Nat, NEW weight \in [Msgs -> 0..budget], CodesCap(weight, budget),
         \A t \in Turns : Bounded(Selected(t)) = Selected(t)
  PROVE  TurnsFit
<1> SUFFICES ASSUME NEW t \in Turns
             PROVE  LET own == Selected(t)
                    IN  /\ MatchesTail(Bounded(Transcript[t]), own, Len(own))
                        /\ \A k \in 1..Len(own) :
                             Bounded(SubSeq(own, k, Len(own))) = SubSeq(own, k, Len(own))
  BY DEF TurnsFit
<1> DEFINE own == Selected(t)
           all == Transcript[t]
           taken == TakenFrom(all, weight, budget)
<1>1. all \in Seq(Msgs) /\ own \in Seq(Msgs) /\ Len(all) \in Nat /\ Len(own) \in Nat /\ all # << >>
  BY BatchType, LenProperties DEF Batches
<1>2. PICK first \in 1..Len(all) : own = SubSeq(all, first, Len(all))
  <2> DEFINE first == IF PrePrompt[t] < Len(all) THEN PrePrompt[t] + 1 ELSE Len(all)
  <2>1. PrePrompt[t] \in Nat /\ Len(all) # 0
    BY <1>1, TurnsAssumption, EmptySeq
  <2>2. own = SubSeq(all, first, Len(all))
    BY DEF Selected
  <2>3. first \in 1..Len(all)
    BY <1>1, <2>1
  <2> HIDE DEF own, first
  <2> QED
    BY <2>2, <2>3
<1>3. weight \in [Msgs -> Nat] /\ 1 \in 1..Len(all)
  BY <1>1, <1>2
<1>4. BoundBatch(own, weight, budget) = own
  BY <1>1 DEF CodesCap
<1>5. \A k \in 1..Len(all) : BoundBatch(SubSeq(all, k, Len(all)), weight, budget) = taken[k].kept
  <2> HIDE DEF own, all
  <2>1. ASSUME NEW k \in 1..Len(all)
        PROVE  BoundBatch(SubSeq(all, k, Len(all)), weight, budget)
                 = TakenFrom(all, weight, budget)[k].kept
    <3>1. all \in Seq(Msgs)
      BY <1>1
    <3> QED
      BY <3>1, BoundIsTaken
  <2> QED
    BY <2>1
<1>6. taken[first].kept = own /\ Bounded(all) = taken[1].kept
  <2>1. SubSeq(all, 1, Len(all)) = all
    BY <1>1, SubSeqFull
  <2> HIDE DEF own, all, taken
  <2> QED
    BY <1>1, <1>2, <1>3, <1>4, <1>5, <2>1 DEF CodesCap
<1>7. MatchesTail(taken[1].kept, taken[first].kept, Len(taken[first].kept))
  BY <1>1, <1>3, TakenEndsWith
<1>8. \A k \in 1..Len(own) : Bounded(SubSeq(own, k, Len(own))) = SubSeq(own, k, Len(own))
  <2>1. \A k \in 1..Len(own) :
          BoundBatch(SubSeq(own, k, Len(own)), weight, budget) = SubSeq(own, k, Len(own))
    <3> DEFINE b == BoundBatch(own, weight, budget)
    <3>1. \A k \in 1..Len(b) :
            BoundBatch(SubSeq(b, k, Len(b)), weight, budget) = SubSeq(b, k, Len(b))
      BY <1>1, <1>3, BoundAgain
    <3> HIDE DEF b
    <3>2. b = own
      BY <1>4 DEF b
    <3> QED
      BY <3>1, <3>2
  <2>2. \A k \in 1..Len(own) : SubSeq(own, k, Len(own)) \in Seq(Msgs)
    BY <1>1, SubSeqType
  <2> HIDE DEF own
  <2> QED
    BY <2>1, <2>2 DEF CodesCap
<1> HIDE DEF own, all, taken
<1>9. MatchesTail(Bounded(all), own, Len(own))
  BY <1>6, <1>7
<1> QED
  BY <1>8, <1>9 DEF own, all
=============================================================================
