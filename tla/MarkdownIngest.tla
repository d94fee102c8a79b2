--------------------------- MODULE MarkdownIngest ---------------------------
(***************************************************************************)
(* The Markdown source adapters of src/markdown-ingest.ts: they walk their *)
(* roots, keep for every file what they last had the daemon store, ingest  *)
(* what changed, delete what is gone, and save that cache between runs.    *)
(*                                                                         *)
(* Adapters may share files (a vault inside a generic root).  One handle   *)
(* starts and stops them in order and runs one operation per document at a *)
(* time.  A file's content is a version; its size and times are a stamp    *)
(* that every edit changes.  Every await is a step boundary: between two   *)
(* steps of a scan files change, watchers fire, other roots scan, and the  *)
(* process may die.                                                        *)
(***************************************************************************)
EXTENDS Integers, Sequences, FiniteSets, SequencesExt

CONSTANTS
  NDocs,         \* files, numbered in the order a directory lists them
  NAdapters,     \* adapters, in the order the handle starts them
  NRoots,        \* roots, in the order they are scanned at start
  AdapterOf,     \* AdapterOf[r]: the adapter whose root r is
  Covers,        \* Covers[r]: the files under root r
  Rejected,      \* Rejected[a]: the versions adapter a does not accept
  TooLarge,      \* the <<file, version>> pairs over the cap on a file
  MayRevert,     \* TRUE: a file may go back to an earlier version
  MaxEdits,      \* bound: edits of files
  Faults,        \* what may go wrong: "rpc" (a call fails, applied or not),
                 \* "fs" (a file system call fails), "pressure" (an answer
                 \* asks for no more for now)
  MaxFaults,     \* bound: faults
  MaxStarts      \* bound: starts of the handle

Docs == 1..NDocs
Adapters == 1..NAdapters
Roots == 1..NRoots
Versions == 1..(MaxEdits + 1)
Torn == MaxEdits + 2    \* a document the daemon holds a part of

ASSUME MarkdownAssumption ==
  /\ NDocs \in Nat /\ NAdapters \in Nat \ {0} /\ NRoots \in Nat
  /\ AdapterOf \in [Roots -> Adapters] /\ Covers \in [Roots -> SUBSET Docs]
  /\ Rejected \in [Adapters -> SUBSET Versions] /\ TooLarge \subseteq Docs \X Versions
  /\ MayRevert \in BOOLEAN /\ Faults \subseteq {"rpc", "fs", "pressure"}
  /\ {MaxEdits, MaxFaults, MaxStarts} \subseteq Nat

VARIABLES
  disk,          \* disk[d]: the version of file d, 0 when absent, and its stamp
  stored,        \* stored[d]: the version the daemon holds, 0 when none
  cache,         \* cache[a]: fileStates, a map from files
  saved,         \* saved[a]: the snapshot file
  unsaved,       \* unsaved[a]: snapshotDirty
  open,          \* open[a]: lastAcceptMore
  scan,          \* scan[r]: the scan of root r
  sched,         \* sched[r]: its rescan flag, timer and resume cursor
  known,         \* known[r]: knownFiles
  rooted,        \* the roots whose state and watchers exist
  events,        \* events[r]: edits not yet reported by r's watcher
  quarantined,   \* the roots whose walk stalled
  host,          \* what the handle is doing
  gone,          \* history: gone[r]: files unwanted at some time in r's scan
  raced,         \* history: files reported as changed during a scan
  released,      \* history: files were disowned while another adapter scanned
  troubled,      \* history: a step failed, or unsaved state was lost
  pushed,        \* history: the daemon asked for no more
  used           \* bound: edits, faults and starts so far

cacheVars == <<cache, unsaved>>
rootVars == <<known, rooted, quarantined>>
historyVars == <<gone, raced, released, troubled, pushed>>
vars == <<disk, stored, cacheVars, saved, open, scan, sched, rootVars, events,
          host, historyVars, used>>

-----------------------------------------------------------------------------
(* The adapters' maps and scans.                                           *)

Put(f, d, s) == [x \in DOMAIN f \cup {d} |-> IF x = d THEN s ELSE f[x]]
Drop(f, d) == [x \in DOMAIN f \ {d} |-> f[x]]
Nothing == [d \in {} |-> 0]

IdleScan ==
  [pc |-> "idle", todo |-> {}, seen |-> {}, large |-> {}, queue |-> << >>, doc |-> 0,
   v |-> 0, retired |-> {}, partial |-> FALSE]
IdleSched == [again |-> FALSE, timer |-> FALSE, resume |-> 0]

Scanning(r) == scan[r].pc # "idle"
RootsOf(a) == {r \in Roots : AdapterOf[r] = a}
Stopping(a) == host.phase = "stopping" /\ a <= host.next

(* Who wants file d at version v. *)
Fits(d, v) == v # 0 /\ <<d, v>> \notin TooLarge
Accepts(a, d, v) == Fits(d, v) /\ v \notin Rejected[a]
AcceptedBy(d) ==
  {AdapterOf[r] : r \in {x \in Roots : d \in Covers[x] /\ Accepts(AdapterOf[x], d, disk[d].v)}}
Wanted(d) == IF AcceptedBy(d) # {} THEN disk[d].v ELSE 0

Init ==
  /\ disk \in [Docs -> [v : {0, 1}, m : {0}]]
  /\ stored = [d \in Docs |-> 0]
  /\ cache = [a \in Adapters |-> Nothing] /\ saved = cache
  /\ unsaved = [a \in Adapters |-> FALSE] /\ open = [a \in Adapters |-> TRUE]
  /\ scan = [r \in Roots |-> IdleScan] /\ sched = [r \in Roots |-> IdleSched]
  /\ known = [r \in Roots |-> {}] /\ rooted = {} /\ quarantined = {}
  /\ events = [r \in Roots |-> {}]
  /\ host = [phase |-> "off", next |-> 0]
  /\ gone = [r \in Roots |-> {}] /\ raced = {} /\ released = FALSE
  /\ troubled = FALSE /\ pushed = FALSE
  /\ used = [edits |-> 0, faults |-> 0, starts |-> 0]

Spend(what, limit) ==
  /\ used[what] < limit
  /\ used' = [used EXCEPT ![what] = @ + 1]

Fault(kind) == kind \in Faults /\ Spend("faults", MaxFaults)
Fails(kind) == Fault(kind) /\ troubled' = TRUE

-----------------------------------------------------------------------------
(* Files and watchers.                                                     *)

Watched(r) == r \in rooted /\ ~ Stopping(AdapterOf[r])

Edit(d) ==
  LET n == used.edits + 1
  IN  /\ Spend("edits", MaxEdits)
      /\ \E v \in (IF MayRevert THEN 0..n ELSE {0}) \cup {n + 1} :
           disk' = [disk EXCEPT ![d] = [v |-> v, m |-> n]]
      /\ disk'[d].v # 0 \/ disk[d].v # 0
      /\ events' = [r \in Roots |->
           IF Watched(r) /\ d \in Covers[r] THEN events[r] \cup {d} ELSE events[r]]
      /\ gone' = [r \in Roots |->
           IF Scanning(r) /\ ~ Accepts(AdapterOf[r], d, disk'[d].v)
             THEN gone[r] \cup {d} ELSE gone[r]]
      /\ UNCHANGED <<stored, cacheVars, saved, open, scan, sched, rootVars, host,
                     raced, released, troubled, pushed>>

(* scheduleRootScan, in a scan and out of one. *)
\* mutation: an event in a scan is thought to be covered by it
RescheduledUnlessScanning(r, s) == IF Scanning(r) THEN s ELSE [s EXCEPT !.timer = TRUE]

Rescheduled(r, s) ==
  IF Scanning(r) THEN [s EXCEPT !.again = TRUE] ELSE [s EXCEPT !.timer = TRUE]

(* scheduleWatcherScan: the cursor is dropped and the timer starts anew. *)
WatcherFires(r) ==
  /\ events[r] # {} /\ Watched(r)
  /\ events' = [events EXCEPT ![r] = {}]
  /\ sched' = [sched EXCEPT ![r] =
       LET s == [@ EXCEPT !.resume = 0, !.timer = FALSE]
       IN  IF r \in quarantined THEN s ELSE Rescheduled(r, s)]
  /\ raced' = IF Scanning(r) THEN raced \cup events[r] ELSE raced
  /\ UNCHANGED <<disk, stored, cacheVars, saved, open, scan, rootVars, host,
                 gone, released, troubled, pushed, used>>

-----------------------------------------------------------------------------
(* A scan: scanRoot.                                                       *)

(* getRootState makes the state of a root on its first scan. *)
Begin(r) ==
  LET a == AdapterOf[r]
  IN  /\ scan' = [scan EXCEPT ![r] = [IdleScan EXCEPT !.pc = "walk", !.todo = Covers[r]]]
      /\ open' = [open EXCEPT ![a] = TRUE]
      /\ known' = IF r \in rooted THEN known
                  ELSE [known EXCEPT ![r] = {d \in DOMAIN cache[a] : cache[a][d].root = r}]
      /\ rooted' = rooted \cup {r}
      /\ gone' = [gone EXCEPT ![r] = {d \in Docs : ~ Accepts(a, d, disk[d].v)}]
      /\ UNCHANGED <<disk, stored, cacheVars, saved, events, quarantined, raced,
                     released, troubled, pushed>>

TimerFires(r) ==
  /\ sched[r].timer /\ ~ Scanning(r)
  /\ sched' = [sched EXCEPT ![r].timer = FALSE]
  /\ Begin(r)
  /\ UNCHANGED <<host, used>>

(* What the end of a scan leaves to its timer. *)
EndedSched(r) ==
  LET s == sched[r]
      anew == s.again /\ r \notin quarantined /\ ~ Stopping(AdapterOf[r])
  IN  [sched EXCEPT ![r] = [s EXCEPT !.again = FALSE, !.timer = s.timer \/ anew]]

Goes(r, s) == scan' = [scan EXCEPT ![r] = s]
Ends(r) == Goes(r, IdleScan) /\ sched' = EndedSched(r)

(* A scan that throws while start() awaits it ends the start as well. *)
Throws(r) ==
  /\ Ends(r)
  /\ host' = IF host.phase = "starting" /\ host.next = r + 1
               THEN [phase |-> "on", next |-> 0] ELSE host

(* walkDirectory visits one file: it is there or not, its metadata cannot  *)
(* be read, or its directory cannot.  The size it sees here is the one     *)
(* that syncCandidates goes by.                                            *)
Walk(r, d) ==
  LET s == [scan[r] EXCEPT !.todo = @ \ {d}]
      found == [s EXCEPT !.seen = @ \cup {d},
                         !.large = IF Fits(d, disk[d].v) THEN @ ELSE @ \cup {d},
                         !.queue = Append(@, [doc |-> d, m |-> disk[d].m])]
  IN  /\ scan[r].pc = "walk" /\ d \in scan[r].todo /\ \A e \in scan[r].todo : d <= e
      /\ \/ /\ IF Stopping(AdapterOf[r]) THEN Goes(r, [s EXCEPT !.todo = {}])
               ELSE IF disk[d].v = 0 THEN Goes(r, s) ELSE Goes(r, found)
            /\ UNCHANGED <<used, troubled>>
         \/ /\ disk[d].v # 0 /\ Fails("fs")
            /\ \/ Goes(r, [s EXCEPT !.seen = @ \cup {d}])
               \/ Goes(r, [s EXCEPT !.partial = TRUE])
      /\ UNCHANGED <<disk, stored, cacheVars, saved, open, sched, rootVars, events,
                     host, gone, raced, released, pushed>>

(* The watchdog quarantines the root; the abandoned walk does nothing. *)
Stall(r) ==
  /\ scan[r].pc = "walk" /\ Fails("fs")
  /\ quarantined' = quarantined \cup {r}
  /\ Goes(r, IdleScan) /\ sched' = [sched EXCEPT ![r].again = FALSE]
  /\ UNCHANGED <<disk, stored, cacheVars, saved, open, known, rooted, events, host,
                 gone, raced, released, pushed>>

(* Newest first; a file the scan before stopped at goes first. *)
NewestFirst(q) ==
  {p \in [DOMAIN q -> ToSet(q)] :
     \A i, j \in DOMAIN q : i < j =>
       p[i].m > p[j].m \/ (p[i].m = p[j].m /\ p[i].doc < p[j].doc)}
ResumedAt(q, d) ==
  LET at == {i \in DOMAIN q : q[i].doc = d}
  IN  IF at = {} THEN q ELSE SubSeq(q, CHOOSE i \in at : TRUE, Len(q))

WalkEnds(r) ==
  LET at == sched[r].resume
      found == {c.doc : c \in ToSet(scan[r].queue)}
  IN  /\ scan[r].pc = "walk" /\ scan[r].todo = {}
      /\ \E q \in NewestFirst(scan[r].queue) :
           Goes(r, [scan[r] EXCEPT !.pc = "sync", !.queue = ResumedAt(q, at)])
      /\ sched' = [sched EXCEPT ![r].resume = IF at \in found THEN @ ELSE 0]
      /\ open' = IF at = 0 THEN open ELSE [open EXCEPT ![AdapterOf[r]] = TRUE]
      /\ UNCHANGED <<disk, stored, cacheVars, saved, rootVars, events, host,
                     historyVars, used>>

-----------------------------------------------------------------------------
(* One candidate: syncMarkdownFileLocked under the coordinator.            *)

(* The coordinator runs one operation per document. *)
\* mutation: operations of different roots are not coordinated
FreeAlways(d) == TRUE

Free(d) == \A r \in Roots : scan[r].doc # d

(* The two ways to find a cached file unchanged: its stamp, its content. *)
SameStamp(a, c) == c.doc \in DOMAIN cache[a] /\ cache[a][c.doc].m = c.m
SameContent(a, d, v) == d \in DOMAIN cache[a] /\ cache[a][d].v = v

Keep(a, d, s) ==
  /\ cache' = [cache EXCEPT ![a] = Put(@, d, s)]
  /\ unsaved' = [unsaved EXCEPT ![a] = TRUE]
Forget(a, d) ==
  /\ cache' = [cache EXCEPT ![a] = Drop(@, d)]
  /\ unsaved' = [unsaved EXCEPT ![a] = TRUE]

Done(s) == [s EXCEPT !.pc = "sync", !.doc = 0, !.v = 0, !.queue = Tail(@)]

(* Absence is evidence only after a complete walk. *)
\* mutation: a partial walk is pruned against
CompleteAlways(s) == TRUE

Complete(s) == ~ s.partial

(* What follows the candidates: the files the walk did not find are pruned *)
(* one by one, then the snapshot is saved.                                 *)
Pruning(r, s) ==
  IF s.todo # {}
    THEN Goes(r, [s EXCEPT !.pc = "prune", !.doc = 0]) /\ UNCHANGED known
    ELSE /\ Goes(r, [s EXCEPT !.pc = "save", !.doc = 0])
         /\ known' = [known EXCEPT ![r] = s.seen \ s.retired]

Reconciles(r, s) ==
  IF Complete(s)
    THEN Pruning(r, [s EXCEPT !.todo = known[r] \ s.seen])
    ELSE /\ Goes(r, [s EXCEPT !.pc = "save"])
         /\ known' = [known EXCEPT ![r] = (@ \cup s.seen) \ (s.retired \cap s.seen)]

SyncEnds(r) ==
  /\ scan[r].pc = "sync" /\ scan[r].queue = << >>
  /\ IF Stopping(AdapterOf[r]) THEN Ends(r) /\ UNCHANGED known
     ELSE Reconciles(r, scan[r]) /\ sched' = [sched EXCEPT ![r].resume = 0]
  /\ UNCHANGED <<disk, stored, cacheVars, saved, open, rooted, quarantined, events, host,
                 historyVars, used>>

(* hasOtherOwner *)
\* mutation: an adapter sees its own documents only
OtherOwnerUnseen(a, d) == FALSE

OtherOwner(a, d) == \E b \in Adapters \ {a} : d \in DOMAIN cache[b]

(* A document is retired, at once when no RPC is needed. *)
Retired(s) == [Done(s) EXCEPT !.retired = @ \cup {s.doc}]
Retires(r, s) ==
  LET a == AdapterOf[r]
  IN  IF OtherOwner(a, s.doc)
        THEN Goes(r, Retired(s)) /\ Forget(a, s.doc)
        ELSE Goes(r, [s EXCEPT !.pc = "delete"]) /\ UNCHANGED cacheVars

(* syncCandidates takes the next candidate, or stops for back pressure.    *)
(* One that the walk found too large loses its document if it had one,     *)
(* whatever the file is by now.                                            *)
Sync(r) ==
  LET a == AdapterOf[r]
      c == Head(scan[r].queue)
  IN  /\ scan[r].pc = "sync" /\ scan[r].queue # << >>
      /\ \/ /\ Stopping(a)
            /\ Ends(r)
            /\ UNCHANGED <<cacheVars, known>>
         \/ /\ ~ Stopping(a) /\ ~ open[a]
            /\ sched' = [sched EXCEPT ![r] = [@ EXCEPT !.resume = c.doc, !.again = TRUE]]
            /\ Reconciles(r, [scan[r] EXCEPT !.queue = << >>])
            /\ UNCHANGED cacheVars
         \/ /\ ~ Stopping(a) /\ open[a] /\ Free(c.doc) /\ c.doc \in scan[r].large
            /\ IF c.doc \in DOMAIN cache[a]
                 THEN Retires(r, [scan[r] EXCEPT !.doc = c.doc])
                 ELSE Goes(r, Done(scan[r])) /\ UNCHANGED cacheVars
            /\ UNCHANGED <<sched, known>>
         \/ /\ ~ Stopping(a) /\ open[a] /\ Free(c.doc) /\ c.doc \notin scan[r].large
            /\ SameStamp(a, c)
            /\ Goes(r, Done(scan[r]))
            /\ IF cache[a][c.doc].root = r THEN UNCHANGED cacheVars
               ELSE Keep(a, c.doc, [cache[a][c.doc] EXCEPT !.root = r])
            /\ UNCHANGED <<sched, known>>
         \/ /\ ~ Stopping(a) /\ open[a] /\ Free(c.doc) /\ c.doc \notin scan[r].large
            /\ ~ SameStamp(a, c)
            /\ Goes(r, [scan[r] EXCEPT !.pc = "read", !.doc = c.doc])
            /\ UNCHANGED <<cacheVars, sched, known>>
      /\ UNCHANGED <<disk, stored, saved, open, rooted, quarantined, events, host,
                     historyVars, used>>

Read(r) ==
  LET a == AdapterOf[r]
      s == scan[r]
      d == s.doc
      v == disk[d].v
      state == [v |-> v, m |-> Head(s.queue).m, root |-> r]
  IN  /\ s.pc = "read"
      /\ \/ /\ UNCHANGED <<used, troubled>>
            /\ IF v # 0 /\ ~ Fits(d, v) /\ d \notin DOMAIN cache[a]
                 THEN Goes(r, Done(s)) /\ UNCHANGED cacheVars
               ELSE IF Fits(d, v) /\ SameContent(a, d, v)
                 THEN Goes(r, Done(s)) /\ Keep(a, d, state)
               ELSE IF Accepts(a, d, v)
                 THEN Goes(r, [s EXCEPT !.pc = "store", !.v = v]) /\ UNCHANGED cacheVars
               ELSE Retires(r, s)
         \/ /\ v # 0 /\ Fails("fs")
            /\ Goes(r, Done(s)) /\ UNCHANGED cacheVars
      /\ UNCHANGED <<disk, stored, saved, open, sched, rootVars, events, host,
                     gone, raced, released, pushed>>

Stores(d, vs) == \E v \in vs : stored' = [stored EXCEPT ![d] = v]

(* The ingest ends.  One that fails may have stored the text, or a part. *)
StoreEnds(r) ==
  LET a == AdapterOf[r]
      s == scan[r]
      d == s.doc
  IN  /\ s.pc = "store"
      /\ Goes(r, Done(s))
      /\ \/ /\ Stores(d, {s.v})
            /\ Keep(a, d, [v |-> s.v, m |-> Head(s.queue).m, root |-> r])
            /\ \/ open' = [open EXCEPT ![a] = TRUE] /\ UNCHANGED <<used, pushed>>
               \/ open' = [open EXCEPT ![a] = FALSE] /\ Fault("pressure") /\ pushed' = TRUE
            /\ UNCHANGED troubled
         \/ /\ Stores(d, {stored[d], s.v, Torn})
            /\ Fails("rpc")
            /\ UNCHANGED <<cacheVars, open, pushed>>
      /\ UNCHANGED <<disk, saved, sched, rootVars, events, host, gone, raced, released>>

(* A deletion that fails is one candidate's trouble, but for a file that   *)
(* is too large: its deletion is outside the try, and ends the scan.       *)
DeleteEnds(r) ==
  LET a == AdapterOf[r]
      s == scan[r]
      d == s.doc
  IN  /\ s.pc = "delete"
      /\ \/ /\ Stores(d, {0}) /\ Forget(a, d)
            /\ Goes(r, Retired(s))
            /\ UNCHANGED <<sched, host, used, troubled>>
         \/ /\ Stores(d, {0, stored[d]}) /\ UNCHANGED cacheVars
            /\ Fails("rpc")
            /\ IF d \in s.large THEN Throws(r) ELSE Goes(r, Done(s)) /\ UNCHANGED <<sched, host>>
      /\ UNCHANGED <<disk, saved, open, rootVars, events, gone, raced, released, pushed>>

-----------------------------------------------------------------------------
(* What the walk did not find: pruneDeletedFiles.                          *)

(* A file another root of the adapter has taken over is left alone. *)
TakenOver(r, d) ==
  LET f == cache[AdapterOf[r]] IN d \in DOMAIN f /\ f[d].root # r

Prune(r) ==
  LET a == AdapterOf[r]
      s == scan[r]
  IN  /\ s.pc = "prune"
      /\ \E d \in s.todo :
           /\ Free(d)
           /\ \/ TakenOver(r, d) /\ Pruning(r, [s EXCEPT !.todo = @ \ {d}])
                 /\ UNCHANGED cacheVars
              \/ ~ TakenOver(r, d) /\ OtherOwner(a, d)
                 /\ Pruning(r, [s EXCEPT !.todo = @ \ {d}]) /\ Forget(a, d)
              \/ ~ TakenOver(r, d) /\ ~ OtherOwner(a, d)
                 /\ Goes(r, [s EXCEPT !.pc = "unlist", !.doc = d])
                 /\ UNCHANGED <<cacheVars, known>>
      /\ UNCHANGED <<disk, stored, saved, open, sched, rooted, quarantined, events,
                     host, historyVars, used>>

(* A deletion that fails here ends the scan. *)
UnlistEnds(r) ==
  LET a == AdapterOf[r]
      s == scan[r]
      d == s.doc
  IN  /\ s.pc = "unlist"
      /\ \/ /\ Stores(d, {0}) /\ Forget(a, d)
            /\ Pruning(r, [s EXCEPT !.todo = @ \ {d}])
            /\ UNCHANGED <<sched, host, used, troubled>>
         \/ /\ Stores(d, {0, stored[d]}) /\ UNCHANGED cacheVars
            /\ Fails("rpc")
            /\ Throws(r) /\ UNCHANGED known
      /\ UNCHANGED <<disk, saved, open, rooted, quarantined, events, gone, raced,
                     released, pushed>>

(* saveSnapshotIfDirty: capture, write and rename are serialized, so the   *)
(* file holds what was captured, or what it held before.                   *)
Saves(a) ==
  \/ /\ saved' = IF unsaved[a] THEN [saved EXCEPT ![a] = cache[a]] ELSE saved
     /\ unsaved' = [unsaved EXCEPT ![a] = FALSE]
     /\ UNCHANGED <<used, troubled>>
  \/ /\ unsaved[a] /\ Fails("fs")
     /\ UNCHANGED <<saved, unsaved>>

Save(r) ==
  /\ scan[r].pc = "save"
  /\ Saves(AdapterOf[r]) /\ Ends(r)
  /\ UNCHANGED <<disk, stored, cache, open, rootVars, events, host, gone, raced,
                 released, pushed>>

-----------------------------------------------------------------------------
(* The handle: start, stop, and a crash.                                   *)

(* Every adapter loads its snapshot before the first scan. *)
Start ==
  /\ host.phase = "off" /\ Spend("starts", MaxStarts)
  /\ host' = [phase |-> "starting", next |-> 1]
  /\ cache' = saved
  /\ UNCHANGED <<disk, stored, unsaved, saved, open, scan, sched, rootVars, events, historyVars>>

(* Each root's first scan is awaited before the next one's. *)
StartNext ==
  /\ host.phase = "starting"
  /\ host.next > 1 => ~ Scanning(host.next - 1)
  /\ IF host.next > NRoots
       THEN /\ host' = [phase |-> "on", next |-> 0]
            /\ UNCHANGED <<disk, stored, cacheVars, saved, open, scan, sched, rootVars,
                           events, historyVars>>
       ELSE /\ host' = [host EXCEPT !.next = @ + 1]
            /\ Begin(host.next)
            /\ UNCHANGED sched
  /\ UNCHANGED used

(* stop() of an adapter: no timer and no watcher any more. *)
Silenced(a, f, silent) == [r \in Roots |-> IF AdapterOf[r] = a THEN silent ELSE f[r]]

Stop ==
  /\ host.phase = "on"
  /\ host' = [phase |-> "stopping", next |-> 1]
  /\ sched' = [r \in Roots |->
       IF AdapterOf[r] = 1 THEN [sched[r] EXCEPT !.timer = FALSE] ELSE sched[r]]
  /\ events' = Silenced(1, events, {})
  /\ UNCHANGED <<disk, stored, cacheVars, saved, open, scan, rootVars, historyVars, used>>

(* Its scans have ended: the snapshot is saved, its state cleared, and the *)
(* next adapter stopped.                                                   *)
StopEnds ==
  LET a == host.next
  IN  /\ host.phase = "stopping" /\ \A r \in RootsOf(a) : ~ Scanning(r)
      /\ Saves(a)
      /\ cache' = [cache EXCEPT ![a] = Nothing]
      /\ rooted' = rooted \ RootsOf(a) /\ quarantined' = quarantined \ RootsOf(a)
      /\ known' = Silenced(a, known, {})
      /\ released' = (released \/ \E r \in Roots \ RootsOf(a) : Scanning(r))
      /\ host' = IF a = NAdapters THEN [phase |-> "off", next |-> 0]
                 ELSE [host EXCEPT !.next = @ + 1]
      /\ sched' = [r \in Roots |->
           IF AdapterOf[r] = a THEN IdleSched
           ELSE IF AdapterOf[r] = a + 1 THEN [sched[r] EXCEPT !.timer = FALSE] ELSE sched[r]]
      /\ events' = Silenced(a + 1, events, {})
      /\ UNCHANGED <<disk, stored, open, scan, gone, raced, pushed>>

(* The process dies.  Its RPCs under way may have been served or not. *)
Landed(d) ==
  {stored[d]} \cup
  UNION {IF scan[r].pc = "store" THEN {scan[r].v, Torn}
         ELSE IF scan[r].pc \in {"delete", "unlist"} THEN {0} ELSE {}
         : r \in {x \in Roots : scan[x].doc = d}}

Crash ==
  /\ host.phase # "off" /\ used.starts < MaxStarts
  /\ host' = [phase |-> "off", next |-> 0]
  /\ stored' \in [Docs -> 0..Torn] /\ \A d \in Docs : stored'[d] \in Landed(d)
  /\ cache' = [a \in Adapters |-> Nothing] /\ unsaved' = [a \in Adapters |-> FALSE]
  /\ scan' = [r \in Roots |-> IdleScan] /\ sched' = [r \in Roots |-> IdleSched]
  /\ known' = [r \in Roots |-> {}] /\ rooted' = {} /\ quarantined' = {}
  /\ events' = [r \in Roots |-> {}]
  /\ troubled' = (troubled \/ (\E a \in Adapters : unsaved[a]) \/ \E r \in Roots : scan[r].doc # 0)
  /\ UNCHANGED <<disk, saved, open, gone, raced, released, pushed, used>>

ScanStep(r) ==
  \/ \E d \in Docs : Walk(r, d)
  \/ WalkEnds(r) \/ Sync(r) \/ Read(r) \/ StoreEnds(r) \/ DeleteEnds(r)
  \/ SyncEnds(r) \/ Prune(r) \/ UnlistEnds(r) \/ Save(r)

Next ==
  \/ \E d \in Docs : Edit(d)
  \/ \E r \in Roots : WatcherFires(r) \/ TimerFires(r) \/ ScanStep(r) \/ Stall(r)
  \/ Start \/ StartNext \/ Stop \/ StopEnds \/ Crash

(* Watchers report, timers fire, and every call ends: RPCs by the          *)
(* transport's deadline, file system calls or else the watchdog ends the   *)
(* walk.  Nothing makes the host start or stop.                            *)
Fairness ==
  /\ \A r \in Roots : WF_vars(WatcherFires(r)) /\ WF_vars(TimerFires(r)) /\ WF_vars(ScanStep(r))
  /\ WF_vars(StartNext) /\ WF_vars(StopEnds)

Spec == Init /\ [][Next]_vars /\ Fairness

-----------------------------------------------------------------------------
(* Properties.                                                             *)

FileStates == [v : Versions, m : 0..MaxEdits, root : Roots]

TypeOK ==
  /\ disk \in [Docs -> [v : 0..(MaxEdits + 1), m : 0..MaxEdits]]
  /\ stored \in [Docs -> 0..Torn]
  /\ \A a \in Adapters : \A f \in {cache[a], saved[a]} :
       DOMAIN f \subseteq Docs /\ \A d \in DOMAIN f : f[d] \in FileStates
  /\ unsaved \in [Adapters -> BOOLEAN] /\ open \in [Adapters -> BOOLEAN]
  /\ \A r \in Roots :
       /\ scan[r].doc \in 0..NDocs /\ scan[r].todo \subseteq Docs /\ known[r] \subseteq Docs
       /\ sched[r].resume \in 0..NDocs
       /\ sched[r].timer => ~ Scanning(r) /\ r \in rooted
       /\ Scanning(r) => r \in rooted /\ host.phase # "off"

(* What an adapter believes of each file: its cache, or the snapshot that  *)
(* it loads when it is started again.                                      *)
Belief(a) ==
  IF host.phase = "off" \/ (host.phase = "stopping" /\ a < host.next) THEN saved[a] ELSE cache[a]

(* Skips: the file would be found unchanged by a scan of the adapter.      *)
Skips(a, d) == d \in DOMAIN Belief(a) /\ Belief(a)[d].v = disk[d].v

(* A file that every adapter accepting it would find unchanged at its next *)
(* scan is stored as it is: no sequence of failed or half served calls,    *)
(* crashes, overlapping roots and adapters makes the daemon miss it for    *)
(* good.  Composite.stop keeps each adapter's ownership visible until      *)
(* every adapter's scan has drained, or so its comment says.               *)
SkipMeansStored ==
  \A d \in Docs :
    Free(d) /\ AcceptedBy(d) # {} /\ (\A a \in AcceptedBy(d) : Skips(a, d)) =>
      stored[d] = disk[d].v

(* The same, but for adapters stopped while another was scanning. *)
SkipMeansStoredUnlessReleased == released \/ SkipMeansStored

(* Only a file that was absent, or not acceptable, at some moment of a     *)
(* root's scan loses its document to it: what a walk could not see is no   *)
(* evidence.                                                               *)
OnlyGoneIsDeleted ==
  [][\A r \in Roots :
       (DeleteEnds(r) \/ UnlistEnds(r)) =>
         (stored'[scan[r].doc] = stored[scan[r].doc] \/ scan[r].doc \in gone[r])]_vars

(* Two roots never write or delete one document at a time. *)
OneWriterPerDocument ==
  \A q, r \in Roots : scan[q].doc # 0 /\ scan[q].doc = scan[r].doc => q = r

(* Settled: if nothing failed, the daemon holds exactly the wanted files.  *)
Synced(d) == stored[d] = Wanted(d)

Settled(exempt) ==
  host.phase = "on" /\ ~ troubled /\ ~ released => \A d \in Docs \ exempt : Synced(d)

(* A change that a watcher reports reaches the daemon, also one reported   *)
(* while its root is being scanned and the daemon pushes back: the watcher *)
(* resets the resume cursor for a full scan.                               *)
EveryChangeIngested == <>[] Settled({})

(* The same, but for a file reported while its root was being scanned if   *)
(* the daemon pushed back.                                                 *)
UnracedChangesIngested == <>[] Settled(IF pushed THEN raced ELSE {})
=============================================================================
