------------------------ MODULE MarkdownIngestProofs ------------------------
(***************************************************************************)
(* Proofs about MarkdownIngest, for any files, adapters, overlapping roots,*)
(* edits, faults, crashes and restarts: who may write a document, what may *)
(* be deleted, and what a scan may skip.                                   *)
(***************************************************************************)
EXTENDS MarkdownIngest, SequenceTheorems, TLAPS

-----------------------------------------------------------------------------
(* Types.                                                                  *)

Writing == {"read", "store", "delete"}

ScanStates ==
  [pc : {"idle", "walk", "sync", "prune", "unlist", "save"} \cup Writing,
   todo : SUBSET Docs, seen : SUBSET Docs, large : SUBSET Docs,
   queue : Seq([doc : Docs, m : Nat]), doc : Docs \cup {0}, v : Nat,
   retired : SUBSET Docs, partial : BOOLEAN]

Entries == [v : Nat \ {0}, m : Nat, root : Roots]
Maps == UNION {[D -> Entries] : D \in SUBSET Docs}

MarkdownTyped ==
  /\ disk \in [Docs -> [v : Nat, m : Nat]] /\ stored \in [Docs -> Nat]
  /\ cache \in [Adapters -> Maps] /\ saved \in [Adapters -> Maps]
  /\ unsaved \in [Adapters -> BOOLEAN] /\ open \in [Adapters -> BOOLEAN]
  /\ scan \in [Roots -> ScanStates]
  /\ sched \in [Roots -> [again : BOOLEAN, timer : BOOLEAN, resume : Docs \cup {0}]]
  /\ known \in [Roots -> SUBSET Docs] /\ rooted \subseteq Roots
  /\ gone \in [Roots -> SUBSET Docs]
  /\ host \in [phase : {"off", "starting", "on", "stopping"}, next : Nat]
  /\ used \in [edits : Nat, faults : Nat, starts : Nat]

-----------------------------------------------------------------------------
(* Whose scans may run, and which documents each of them is about.         *)

(* The adapter is running: its state is loaded and not yet given up. *)
Live(a) == host.phase # "off" /\ ~ (host.phase = "stopping" /\ a < host.next)

HostInv ==
  /\ host.phase = "stopping" => host.next \in 1..NAdapters
  /\ host.phase = "starting" => host.next # 0
  /\ \A r \in rooted : Live(AdapterOf[r])
  /\ \A r \in Roots : Scanning(r) => r \in rooted
  /\ \A r \in Roots : sched[r].timer => r \in rooted /\ ~ Stopping(AdapterOf[r])

(* The files that some version makes too large. *)
Capped == {d \in Docs : \E v \in Versions : <<d, v>> \in TooLarge}

(* The files a scan visits, keeps as seen, works on and prunes.  One that  *)
(* it found too large it does not read.                                    *)
ScanOK(r, s) ==
  /\ s \in ScanStates
  /\ s.todo \subseteq Covers[r] /\ s.seen \subseteq Covers[r]
  /\ \A i \in DOMAIN s.queue : s.queue[i].doc \in s.seen
  /\ s.doc # 0 <=> s.pc \in Writing \cup {"unlist"}
  /\ s.pc \in Writing => s.queue # << >> /\ s.doc \in s.seen
  /\ s.pc \in {"prune", "unlist"} => s.todo \cap s.seen = {}
  /\ s.pc = "unlist" => s.doc \in s.todo
  /\ s.pc = "store" => s.v # 0
  /\ s.large \subseteq s.seen /\ s.large \subseteq Capped
  /\ s.pc \in {"read", "store"} => s.doc \notin s.large

CoverInv ==
  /\ \A r \in Roots : ScanOK(r, scan[r]) /\ known[r] \subseteq Covers[r]
  /\ \A a \in Adapters : \A f \in {cache[a], saved[a]} :
       \A d \in DOMAIN f : d \in Covers[f[d].root]

BaseInv == MarkdownTyped /\ HostInv /\ CoverInv /\ OneWriterPerDocument

-----------------------------------------------------------------------------
(* What counts as evidence that a file is gone.                            *)

(* The files that a scan s of root r has missed, as far as it may tell. *)
MissedBy(r, s) ==
  IF s.pc \in {"prune", "unlist"} THEN s.todo
  ELSE IF s.pc \in {"idle", "save"} \/ s.partial \/ Stopping(AdapterOf[r]) THEN {}
  ELSE Covers[r] \ (s.seen \cup (IF s.pc = "walk" THEN s.todo ELSE {}))

Missing(r) == MissedBy(r, scan[r])

GoneInv ==
  \A r \in Roots :
    /\ Scanning(r) => \A d \in Docs :
         d \in scan[r].large \/ ~ Accepts(AdapterOf[r], d, disk[d].v) => d \in gone[r]
    /\ Missing(r) \subseteq gone[r]
    /\ scan[r].pc = "delete" => scan[r].doc \in gone[r]

-----------------------------------------------------------------------------
(* What an adapter may believe of the daemon.                              *)

CacheSkips(a, d) == d \in DOMAIN cache[a] /\ cache[a][d].v = disk[d].v
SavedSkips(a, d) == d \in DOMAIN saved[a] /\ saved[a][d].v = disk[d].v

(* Every version seen so far is one of the edits made so far. *)
VersionInv ==
  /\ \A d \in Docs : disk[d].v <= used.edits + 1
  /\ \A a \in Adapters : \A f \in {cache[a], saved[a]} :
       \A d \in DOMAIN f : f[d].v <= used.edits + 1
  /\ \A r \in Roots : scan[r].pc = "store" => scan[r].v <= used.edits + 1

(* A snapshot that would skip a file belongs to a cache that would. *)
SavedInv ==
  \A a \in Adapters, d \in Docs :
    Live(a) /\ Accepts(a, d, disk[d].v) /\ SavedSkips(a, d) => CacheSkips(a, d)

(* A scan that stores or deletes a document: its own adapter would not     *)
(* skip the file; one that deletes it knows no other owner; and if the     *)
(* file has changed since it was read, no adapter has seen it as it is.    *)
WriterInv ==
  \A r \in Roots :
    LET a == AdapterOf[r]
        d == scan[r].doc
    IN  /\ scan[r].pc \in {"store", "delete", "unlist"} =>
             ~ (Accepts(a, d, disk[d].v) /\ CacheSkips(a, d))
        /\ scan[r].pc \in {"delete", "unlist"} => ~ OtherOwner(a, d)
        /\ scan[r].pc = "store" =>
             /\ Accepts(a, d, scan[r].v)
             /\ disk[d].v # scan[r].v =>
                  \A b \in Adapters : ~ CacheSkips(b, d) /\ ~ SavedSkips(b, d)

(* A missed file is not one that its root's cache would skip. *)
MissingInv ==
  \A r \in Roots : \A d \in Missing(r) :
    TakenOver(r, d) \/ ~ CacheSkips(AdapterOf[r], d)

(* A file that a walk found too large is not one that the root's cache     *)
(* would skip by now.                                                      *)
LargeInv ==
  \A r \in Roots : Scanning(r) => \A d \in scan[r].large :
    ~ (Accepts(AdapterOf[r], d, disk[d].v) /\ CacheSkips(AdapterOf[r], d))

(* While an adapter is stopped after another, only that other's scans that *)
(* were running already go on.                                             *)
ReleasedInv ==
  host.phase = "stopping" /\ host.next > 1 =>
    released \/ \A r \in Roots : ~ Scanning(r)

(* No file that some version makes too large is under two roots of one     *)
(* adapter.                                                                *)
CappedAreUnshared ==
  \A q, r \in Roots :
    q # r /\ AdapterOf[q] = AdapterOf[r] => Covers[q] \cap Covers[r] \cap Capped = {}

BeliefSkips(d) == AcceptedBy(d) # {} /\ \A a \in AcceptedBy(d) : Skips(a, d)

BeliefInv ==
  /\ VersionInv /\ SavedInv /\ WriterInv /\ MissingInv /\ LargeInv /\ ReleasedInv
  /\ released \/ \A d \in Docs : BeliefSkips(d) => stored[d] = disk[d].v

-----------------------------------------------------------------------------
(* The records of a scan.                                                  *)

Candidates == [doc : Docs, m : Nat]

(* A record of a scan is what its fields are. *)
LEMMA ScanFields ==
  ASSUME NEW s \in ScanStates
  PROVE  /\ s.pc \in {"idle", "walk", "sync", "prune", "unlist", "save"} \cup Writing
         /\ s.todo \in SUBSET Docs /\ s.seen \in SUBSET Docs /\ s.queue \in Seq(Candidates)
         /\ s.doc \in Docs \cup {0} /\ s.v \in Nat /\ s.retired \in SUBSET Docs
         /\ s.partial \in BOOLEAN /\ s.large \in SUBSET Docs
BY DEF ScanStates, Candidates

LEMMA DocsAreNumbers == Docs \subseteq Nat \ {0}
BY MarkdownAssumption DEF Docs

(* Changing one field, or those that end an operation, keeps the others. *)
LEMMA IdleFields ==
  /\ IdleScan \in ScanStates /\ IdleScan.pc = "idle" /\ IdleScan.doc = 0
  /\ IdleScan.todo = {} /\ IdleScan.seen = {} /\ IdleScan.large = {}
  /\ IdleScan.queue = << >>
  /\ ~ IdleScan.partial
BY DEF IdleScan, ScanStates, Candidates

LEMMA DoneFields ==
  ASSUME NEW s \in ScanStates, s.queue # << >>
  PROVE  /\ Done(s) \in ScanStates /\ Done(s).pc = "sync" /\ Done(s).doc = 0
         /\ Done(s).todo = s.todo /\ Done(s).seen = s.seen /\ Done(s).retired = s.retired
         /\ Done(s).partial = s.partial /\ Done(s).large = s.large
         /\ Done(s).queue = Tail(s.queue)
         /\ \A i \in DOMAIN Done(s).queue :
              \E j \in DOMAIN s.queue : Done(s).queue[i] = s.queue[j]
<1>1. /\ Tail(s.queue) \in Seq(Candidates)
      /\ \A i \in DOMAIN Tail(s.queue) :
           \E j \in DOMAIN s.queue : Tail(s.queue)[i] = s.queue[j]
  <2>1. s.queue \in Seq(Candidates)
    BY ScanFields
  <2> DEFINE t == Tail(s.queue)
  <2>2. t \in Seq(Candidates) /\ Len(t) = Len(s.queue) - 1
        /\ \A i \in 1..Len(t) : t[i] = s.queue[i + 1]
    BY <2>1, HeadTailProperties
  <2> HIDE DEF t
  <2>3. DOMAIN t = 1..Len(t) /\ DOMAIN s.queue = 1..Len(s.queue) /\ Len(s.queue) \in Nat
    BY <2>1, <2>2
  <2>4. \A i \in DOMAIN t : i + 1 \in DOMAIN s.queue
    BY <2>2, <2>3
  <2>5. t \in Seq(Candidates) /\ \A i \in DOMAIN t : \E j \in DOMAIN s.queue : t[i] = s.queue[j]
    BY <2>2, <2>3, <2>4
  <2> QED
    BY <2>5 DEF t
<1> QED
  BY <1>1, ScanFields DEF Done, ScanStates, Candidates

(* An operation on a candidate ends, and the scan is as sound as before. *)
LEMMA DoneOK ==
  ASSUME NEW r \in Roots, NEW s, ScanOK(r, s), s.pc \in Writing \cup {"sync"},
         s.queue # << >>
  PROVE  ScanOK(r, Done(s))
BY DoneFields, ScanFields DEF ScanOK, Writing

LEMMA RetiredFields ==
  ASSUME NEW s \in ScanStates, s.queue # << >>, s.doc # 0
  PROVE  /\ Retired(s) \in ScanStates /\ Retired(s).pc = "sync" /\ Retired(s).doc = 0
         /\ Retired(s).todo = s.todo /\ Retired(s).seen = s.seen
         /\ Retired(s).partial = s.partial /\ Retired(s).large = s.large
         /\ Retired(s).queue = Done(s).queue
<1>1. Done(s).retired \cup {s.doc} \in SUBSET Docs
  BY DoneFields, ScanFields
<1> QED
  BY <1>1, DoneFields DEF Retired, ScanStates

LEMMA RetiredOK ==
  ASSUME NEW r \in Roots, NEW s, ScanOK(r, s), s.pc \in Writing, s.queue # << >>
  PROVE  ScanOK(r, Retired(s))
<1>1. s \in ScanStates /\ s.doc # 0
  BY DEF ScanOK
<1>2. ScanOK(r, Done(s))
  BY DoneOK
<1> QED
  BY <1>1, <1>2, RetiredFields, DoneFields DEF ScanOK, Writing

-----------------------------------------------------------------------------
(* The adapters' maps.                                                     *)

LEMMA MapFacts ==
  ASSUME NEW f \in Maps
  PROVE  /\ DOMAIN f \subseteq Docs /\ \A d \in DOMAIN f : f[d] \in Entries
         /\ \A d \in DOMAIN f : f[d].v \in Nat \ {0} /\ f[d].m \in Nat /\ f[d].root \in Roots
         /\ f \in [DOMAIN f -> Entries]
BY DEF Maps, Entries

LEMMA NothingIsMap == Nothing \in Maps /\ DOMAIN Nothing = {}
<1>1. Nothing \in [{} -> Entries] /\ {} \in SUBSET Docs
  BY DEF Nothing
<1> QED
  BY <1>1 DEF Maps, Nothing

LEMMA PutFacts ==
  ASSUME NEW f \in Maps, NEW d \in Docs, NEW e \in Entries
  PROVE  /\ Put(f, d, e) \in Maps /\ DOMAIN Put(f, d, e) = DOMAIN f \cup {d}
         /\ Put(f, d, e)[d] = e
         /\ \A x \in DOMAIN f \ {d} : Put(f, d, e)[x] = f[x]
<1>1. Put(f, d, e) \in [DOMAIN f \cup {d} -> Entries] /\ DOMAIN f \cup {d} \in SUBSET Docs
  BY MapFacts DEF Put
<1> QED
  BY <1>1 DEF Maps, Put

LEMMA DropFacts ==
  ASSUME NEW f \in Maps, NEW d
  PROVE  /\ Drop(f, d) \in Maps /\ DOMAIN Drop(f, d) = DOMAIN f \ {d}
         /\ \A x \in DOMAIN f \ {d} : Drop(f, d)[x] = f[x]
<1>1. Drop(f, d) \in [DOMAIN f \ {d} -> Entries] /\ DOMAIN f \ {d} \in SUBSET Docs
  BY MapFacts DEF Drop
<1> QED
  BY <1>1 DEF Maps, Drop

(* At most the entry of file d in the cache of adapter a changes. *)
OnlyEntry(a, d) ==
  /\ cache' \in [Adapters -> Maps] /\ unsaved' \in [Adapters -> BOOLEAN]
  /\ \A b \in Adapters \ {a} : cache'[b] = cache[b]
  /\ \A x \in Docs \ {d} :
       /\ x \in DOMAIN cache'[a] <=> x \in DOMAIN cache[a]
       /\ x \in DOMAIN cache[a] => cache'[a][x] = cache[a][x]

LEMMA KeepEffect ==
  ASSUME MarkdownTyped, NEW a \in Adapters, NEW d \in Docs, NEW e \in Entries, Keep(a, d, e)
  PROVE  /\ OnlyEntry(a, d) /\ d \in DOMAIN cache'[a] /\ cache'[a][d] = e
         /\ \A x \in DOMAIN cache'[a] : x \in DOMAIN cache[a] \/ x = d
<1> DEFINE f == Put(cache[a], d, e)
<1>1. cache \in [Adapters -> Maps] /\ cache[a] \in Maps
  BY DEF MarkdownTyped
<1>2. /\ f \in Maps /\ DOMAIN f = DOMAIN cache[a] \cup {d} /\ f[d] = e
      /\ \A x \in DOMAIN cache[a] \ {d} : f[x] = cache[a][x]
  BY <1>1, PutFacts, ZenonT(40)
<1>3. cache' = [cache EXCEPT ![a] = f] /\ unsaved' = [unsaved EXCEPT ![a] = TRUE]
  BY DEF Keep
<1> HIDE DEF f
<1>4. cache'[a] = f /\ \A b \in Adapters \ {a} : cache'[b] = cache[b]
  BY <1>1, <1>3
<1>5. cache' \in [Adapters -> Maps] /\ unsaved' \in [Adapters -> BOOLEAN]
  BY <1>1, <1>2, <1>3 DEF MarkdownTyped
<1> QED
  BY <1>2, <1>4, <1>5 DEF OnlyEntry

LEMMA ForgetEffect ==
  ASSUME MarkdownTyped, NEW a \in Adapters, NEW d, Forget(a, d)
  PROVE  OnlyEntry(a, d) /\ DOMAIN cache'[a] = DOMAIN cache[a] \ {d}
<1> DEFINE f == Drop(cache[a], d)
<1>1. cache \in [Adapters -> Maps] /\ cache[a] \in Maps
  BY DEF MarkdownTyped
<1>2. /\ f \in Maps /\ DOMAIN f = DOMAIN cache[a] \ {d}
      /\ \A x \in DOMAIN cache[a] \ {d} : f[x] = cache[a][x]
  BY <1>1, DropFacts
<1>3. cache' = [cache EXCEPT ![a] = f] /\ unsaved' = [unsaved EXCEPT ![a] = TRUE]
  BY DEF Forget
<1> HIDE DEF f
<1>4. cache'[a] = f /\ \A b \in Adapters \ {a} : cache'[b] = cache[b]
  BY <1>1, <1>3
<1>5. cache' \in [Adapters -> Maps] /\ unsaved' \in [Adapters -> BOOLEAN]
  BY <1>1, <1>2, <1>3 DEF MarkdownTyped
<1> QED
  BY <1>2, <1>4, <1>5 DEF OnlyEntry

LEMMA SameEffect ==
  ASSUME MarkdownTyped, UNCHANGED cacheVars, NEW a \in Adapters, NEW d
  PROVE  OnlyEntry(a, d)
BY DEF MarkdownTyped, OnlyEntry, cacheVars

-----------------------------------------------------------------------------
(* What one step of a scan changes.                                        *)

Scheds == [again : BOOLEAN, timer : BOOLEAN, resume : Docs \cup {0}]
Hosts == [phase : {"off", "starting", "on", "stopping"}, next : Nat]
Counters == [edits : Nat, faults : Nat, starts : Nat]

(* What every step of the scan of root r leaves alone, or nearly so. *)
ScanFrame(r) ==
  /\ Scanning(r)
  /\ UNCHANGED <<disk, gone, released, rooted>>
  /\ host' = host \/ (host.phase = "starting" /\ host' = [phase |-> "on", next |-> 0])
  /\ sched' \in [Roots -> Scheds]
  /\ \A q \in Roots : sched'[q].timer =>
       sched[q].timer \/ (q = r /\ ~ Stopping(AdapterOf[q]))
  /\ known' \in [Roots -> SUBSET Docs] /\ \A q \in Roots : known'[q] \subseteq Covers[q]
  /\ used' \in Counters /\ used'.edits = used.edits
  /\ open' \in [Adapters -> BOOLEAN]

(* The scan of root r goes on as s. *)
ScanGoes(r, s) ==
  /\ scan' = [scan EXCEPT ![r] = s] /\ ScanOK(r, s)
  /\ s.doc \in {0, scan[r].doc} \/ Free(s.doc)
  /\ s.large \subseteq scan[r].large \cup {d \in Docs : ~ Fits(d, disk[d].v)}

(* It goes on with what it has found so far. *)
SameFinds(r, s) ==
  /\ s.todo = scan[r].todo /\ s.seen = scan[r].seen /\ s.large = scan[r].large
  /\ s.partial = scan[r].partial

LEMMA FaultEffect ==
  ASSUME MarkdownTyped, NEW kind, Fault(kind) \/ UNCHANGED used
  PROVE  used' \in Counters /\ used'.edits = used.edits
BY MarkdownAssumption DEF MarkdownTyped, Fault, Spend, Counters

LEMMA SchedEffect ==
  ASSUME MarkdownTyped, NEW r \in Roots, NEW s \in Scheds, sched' = [sched EXCEPT ![r] = s],
         s.timer => sched[r].timer \/ ~ Stopping(AdapterOf[r])
  PROVE  /\ sched' \in [Roots -> Scheds]
         /\ \A q \in Roots : sched'[q].timer =>
              sched[q].timer \/ (q = r /\ ~ Stopping(AdapterOf[q]))
BY DEF MarkdownTyped, Scheds

LEMMA SchedSame ==
  ASSUME MarkdownTyped, NEW r, UNCHANGED sched
  PROVE  /\ sched' \in [Roots -> Scheds]
         /\ \A q \in Roots : sched'[q].timer =>
              sched[q].timer \/ (q = r /\ ~ Stopping(AdapterOf[q]))
BY DEF MarkdownTyped, Scheds

LEMMA TimerEnds ==
  ASSUME NEW x \in Scheds, NEW e \in BOOLEAN
  PROVE  LET s == [x EXCEPT !.again = FALSE, !.timer = @ \/ e]
         IN  s \in Scheds /\ (s.timer => x.timer \/ e)
<1> DEFINE t == x.timer \/ e
           s == [x EXCEPT !.again = FALSE, !.timer = t]
<1>1. t \in BOOLEAN
  OBVIOUS
<1> HIDE DEF t
<1>2. s \in Scheds /\ s.timer = t
  BY <1>1 DEF Scheds
<1> QED
  BY <1>2 DEF t

LEMMA EndsEffect ==
  ASSUME BaseInv, NEW r \in Roots, Ends(r)
  PROVE  /\ sched' \in [Roots -> Scheds]
         /\ \A q \in Roots : sched'[q].timer =>
              sched[q].timer \/ (q = r /\ ~ Stopping(AdapterOf[q]))
         /\ ScanGoes(r, IdleScan)
<1> DEFINE e == sched[r].again /\ r \notin quarantined /\ ~ Stopping(AdapterOf[r])
           s == [sched[r] EXCEPT !.again = FALSE, !.timer = @ \/ e]
<1>1. MarkdownTyped /\ sched[r] \in Scheds
  BY DEF BaseInv, MarkdownTyped, Scheds
<1>3. sched' = [sched EXCEPT ![r] = s]
  BY DEF Ends, EndedSched
<1>4. ScanGoes(r, IdleScan)
  BY IdleFields DEF Ends, Goes, ScanGoes, ScanOK, Writing
<1>5. e \in BOOLEAN /\ (e => ~ Stopping(AdapterOf[r]))
  OBVIOUS
<1> HIDE DEF e
<1>2. s \in Scheds /\ (s.timer => sched[r].timer \/ e)
  BY <1>1, <1>5, TimerEnds
<1> HIDE DEF s
<1> QED
  BY <1>1, <1>2, <1>3, <1>4, <1>5, SchedEffect

LEMMA ResumeEffect ==
  ASSUME MarkdownTyped, NEW r \in Roots, NEW d \in Docs \cup {0}, NEW again \in BOOLEAN,
         sched' = [sched EXCEPT ![r] = [@ EXCEPT !.resume = d, !.again = again]]
  PROVE  /\ sched' \in [Roots -> Scheds]
         /\ \A q \in Roots : sched'[q].timer =>
              sched[q].timer \/ (q = r /\ ~ Stopping(AdapterOf[q]))
<1> DEFINE s == [sched[r] EXCEPT !.resume = d, !.again = again]
<1>1. sched[r] \in Scheds
  BY DEF MarkdownTyped, Scheds
<1>2. s \in Scheds /\ s.timer = sched[r].timer
  BY <1>1 DEF Scheds
<1>3. sched' = [sched EXCEPT ![r] = s]
  OBVIOUS
<1> HIDE DEF s
<1> QED
  BY <1>2, <1>3, SchedEffect

(* A visit of the walk removes one file from what is left, and either      *)
(* counts it as seen, or notes that it was absent, or marks the walk.      *)
LEMMA WalkEffect ==
  ASSUME BaseInv, NEW r \in Roots, NEW d \in Docs, Walk(r, d)
  PROVE  /\ ScanFrame(r) /\ UNCHANGED <<stored, cacheVars, saved>> /\ scan[r].pc = "walk"
         /\ \E s \in ScanStates :
              /\ ScanGoes(r, s) /\ s.pc = "walk" /\ s.doc = 0
              /\ \/ s.partial \/ Stopping(AdapterOf[r])
                 \/ /\ s.partial = scan[r].partial /\ s.todo = scan[r].todo \ {d}
                    /\ \/ s.seen = scan[r].seen \cup {d}
                       \/ s.seen = scan[r].seen /\ disk[d].v = 0
<1>1. MarkdownTyped /\ ScanOK(r, scan[r]) /\ scan[r] \in ScanStates /\ scan[r].pc = "walk"
  BY DEF BaseInv, CoverInv, ScanOK, Walk
<1>2. ScanFrame(r)
  <2>1. UNCHANGED <<disk, gone, released, rooted, host, sched, known, open>>
    BY DEF Walk, rootVars
  <2>2. Fault("fs") \/ UNCHANGED used
    BY DEF Walk, Fails
  <2>3. used' \in Counters /\ used'.edits = used.edits
    BY <1>1, <2>2, FaultEffect
  <2>4. \A q \in Roots : known[q] \subseteq Covers[q]
    BY DEF BaseInv, CoverInv
  <2> QED
    BY <1>1, <2>1, <2>3, <2>4, SchedSame DEF ScanFrame, MarkdownTyped, Scanning
<1>3. UNCHANGED <<stored, cacheVars, saved>>
  BY DEF Walk
<1> DEFINE old == scan[r]
           s == [old EXCEPT !.todo = @ \ {d}]
           stopped == [s EXCEPT !.todo = {}]
           c == [doc |-> d, m |-> disk[d].m]
           big == IF Fits(d, disk[d].v) THEN old.large ELSE old.large \cup {d}
           found == [s EXCEPT !.seen = @ \cup {d}, !.large = big, !.queue = Append(@, c)]
           unread == [s EXCEPT !.seen = @ \cup {d}]
           partial == [s EXCEPT !.partial = TRUE]
<1>4. d \in Covers[r] /\ c \in Candidates /\ c.doc = d
  BY <1>1 DEF Walk, ScanOK, MarkdownTyped, Candidates
<1>5. \/ Stopping(AdapterOf[r]) /\ Goes(r, stopped)
      \/ disk[d].v = 0 /\ Goes(r, s)
      \/ disk[d].v # 0 /\ Goes(r, found)
      \/ Goes(r, unread) \/ Goes(r, partial)
  BY DEF Walk
<1>6. old.queue \in Seq(Candidates) /\ old.doc = 0
  BY <1>1, ScanFields DEF ScanOK, Writing
<1> HIDE DEF c
<1>7. /\ Append(old.queue, c) \in Seq(Candidates)
      /\ \A i \in DOMAIN Append(old.queue, c) :
           Append(old.queue, c)[i] = c \/ \E j \in DOMAIN old.queue :
             Append(old.queue, c)[i] = old.queue[j]
  <2> DEFINE q == Append(old.queue, c)
  <2>1. /\ q \in Seq(Candidates) /\ Len(q) = Len(old.queue) + 1
        /\ \A i \in 1..Len(old.queue) : q[i] = old.queue[i]
        /\ q[Len(old.queue) + 1] = c
    BY <1>4, <1>6, AppendProperties
  <2> HIDE DEF q
  <2>2. DOMAIN q = 1..Len(q) /\ DOMAIN old.queue = 1..Len(old.queue) /\ Len(old.queue) \in Nat
    BY <1>6, <2>1
  <2>3. \A i \in DOMAIN q : i \in DOMAIN old.queue \/ i = Len(old.queue) + 1
    BY <2>1, <2>2
  <2>4. \A i \in DOMAIN q : q[i] = c \/ \E j \in DOMAIN old.queue : q[i] = old.queue[j]
    BY <2>1, <2>2, <2>3
  <2> QED
    BY <2>1, <2>4 DEF q
<1>8. /\ s \in ScanStates /\ s.pc = "walk" /\ s.doc = 0 /\ s.todo = old.todo \ {d}
      /\ s.seen = old.seen /\ s.partial = old.partial /\ s.queue = old.queue
      /\ s.large = old.large
  BY <1>1, <1>6 DEF ScanStates
<1> HIDE DEF s
<1>15. /\ big \subseteq Docs /\ big \subseteq old.seen \cup {d}
       /\ big \subseteq old.large \cup {x \in Docs : ~ Fits(x, disk[x].v)}
       /\ disk[d].v # 0 => big \subseteq Capped
  <2>1. old.large \subseteq Docs /\ old.large \subseteq old.seen /\ old.large \subseteq Capped
    BY <1>1, ScanFields DEF ScanOK
  <2>2. disk[d].v # 0 /\ ~ Fits(d, disk[d].v) => d \in Capped
    BY MarkdownAssumption DEF Fits, Capped
  <2> QED
    BY <2>1, <2>2
<1> HIDE DEF big
<1>9. /\ stopped \in ScanStates /\ stopped.pc = "walk" /\ stopped.doc = 0
      /\ stopped.todo = {} /\ stopped.seen = old.seen /\ stopped.queue = old.queue
      /\ stopped.large = old.large
  BY <1>8 DEF ScanStates
<1>10. /\ found \in ScanStates /\ found.pc = "walk" /\ found.doc = 0
       /\ found.todo = s.todo /\ found.seen = old.seen \cup {d}
       /\ found.queue = Append(old.queue, c) /\ found.partial = s.partial
       /\ found.large = big
  BY <1>7, <1>8, <1>15 DEF ScanStates, Candidates
<1>11. /\ unread \in ScanStates /\ unread.pc = "walk" /\ unread.doc = 0
       /\ unread.todo = s.todo /\ unread.seen = old.seen \cup {d}
       /\ unread.queue = old.queue /\ unread.partial = s.partial
       /\ unread.large = old.large
  BY <1>8 DEF ScanStates
<1>12. /\ partial \in ScanStates /\ partial.pc = "walk" /\ partial.doc = 0
       /\ partial.todo = s.todo /\ partial.seen = old.seen
       /\ partial.queue = old.queue /\ partial.partial /\ partial.large = old.large
  BY <1>8 DEF ScanStates
<1> HIDE DEF stopped, found, unread, partial
<1>13. /\ ScanOK(r, s) /\ ScanOK(r, stopped) /\ ScanOK(r, unread) /\ ScanOK(r, partial)
       /\ disk[d].v # 0 => ScanOK(r, found)
  <2>1. ScanOK(r, s) /\ ScanOK(r, stopped)
    BY <1>1, <1>8, <1>9 DEF ScanOK, Writing
  <2>2. ScanOK(r, unread) /\ ScanOK(r, partial)
    BY <1>1, <1>4, <1>8, <1>11, <1>12 DEF ScanOK, Writing
  <2>3. disk[d].v # 0 => ScanOK(r, found)
    BY <1>1, <1>4, <1>7, <1>8, <1>10, <1>15 DEF ScanOK, Writing
  <2> QED
    BY <2>1, <2>2, <2>3
<1> DEFINE fresh == {x \in Docs : ~ Fits(x, disk[x].v)}
<1>14. old.large \subseteq old.large \cup fresh /\ big \subseteq old.large \cup fresh
  BY <1>15
<1>16. \A x : ScanOK(r, x) /\ x.doc = 0 /\ x.large \subseteq old.large \cup fresh /\ Goes(r, x)
          => ScanGoes(r, x)
  BY DEF Goes, ScanGoes
<1> HIDE DEF fresh
<1>17. CASE Stopping(AdapterOf[r]) /\ Goes(r, stopped)
  <2>1. ScanGoes(r, stopped)
    <3>1. stopped.large \subseteq old.large \cup fresh
      BY <1>9, <1>14
    <3>2. ScanOK(r, stopped) /\ stopped.doc = 0 /\ Goes(r, stopped)
      BY <1>9, <1>13, <1>17
    <3> QED
      BY <1>16, <3>1, <3>2
  <2> QED
    BY <1>1, <1>2, <1>3, <1>9, <1>17, <2>1
<1>18. CASE disk[d].v = 0 /\ Goes(r, s)
  <2>1. ScanGoes(r, s)
    <3>1. s.large \subseteq old.large \cup fresh
      BY <1>8, <1>14
    <3>2. ScanOK(r, s) /\ s.doc = 0 /\ Goes(r, s)
      BY <1>8, <1>13, <1>18
    <3> QED
      BY <1>16, <3>1, <3>2
  <2> QED
    BY <1>1, <1>2, <1>3, <1>8, <1>18, <2>1
<1>19. CASE disk[d].v # 0 /\ Goes(r, found)
  <2>1. ScanGoes(r, found)
    <3>1. found.large \subseteq old.large \cup fresh
      BY <1>10, <1>14
    <3>2. ScanOK(r, found) /\ found.doc = 0 /\ Goes(r, found)
      BY <1>10, <1>13, <1>19
    <3> QED
      BY <1>16, <3>1, <3>2
  <2> QED
    BY <1>1, <1>2, <1>3, <1>8, <1>10, <2>1
<1>20. CASE Goes(r, unread)
  <2>1. ScanGoes(r, unread)
    <3>1. unread.large \subseteq old.large \cup fresh
      BY <1>11, <1>14
    <3>2. ScanOK(r, unread) /\ unread.doc = 0 /\ Goes(r, unread)
      BY <1>11, <1>13, <1>20
    <3> QED
      BY <1>16, <3>1, <3>2
  <2> QED
    BY <1>1, <1>2, <1>3, <1>8, <1>11, <2>1
<1>21. CASE Goes(r, partial)
  <2>1. ScanGoes(r, partial)
    <3>1. partial.large \subseteq old.large \cup fresh
      BY <1>12, <1>14
    <3>2. ScanOK(r, partial) /\ partial.doc = 0 /\ Goes(r, partial)
      BY <1>12, <1>13, <1>21
    <3> QED
      BY <1>16, <3>1, <3>2
  <2> QED
    BY <1>1, <1>2, <1>3, <1>12, <2>1
<1> QED
  BY <1>5, <1>17, <1>18, <1>19, <1>20, <1>21

(* Sorting and resuming keep only candidates that were queued. *)
LEMMA ResumedKeeps ==
  ASSUME NEW q \in Seq(Candidates), NEW p \in NewestFirst(q), NEW d
  PROVE  /\ ResumedAt(p, d) \in Seq(Candidates)
         /\ \A i \in DOMAIN ResumedAt(p, d) : \E j \in DOMAIN q : ResumedAt(p, d)[i] = q[j]
<1>1. DOMAIN q = 1..Len(q) /\ Len(q) \in Nat /\ \A j \in DOMAIN q : q[j] \in Candidates
  OBVIOUS
<1>2. ToSet(q) = {q[j] : j \in DOMAIN q} /\ ToSet(q) \subseteq Candidates
  BY <1>1 DEF ToSet
<1>3. p \in [1..Len(q) -> ToSet(q)]
  BY <1>1 DEF NewestFirst
<1>4. p \in Seq(Candidates) /\ DOMAIN p = 1..Len(p) /\ Len(p) = Len(q)
  BY <1>1, <1>2, <1>3
<1>5. \A i \in DOMAIN p : \E j \in DOMAIN q : p[i] = q[j]
  BY <1>1, <1>2, <1>3
<1> DEFINE at == {i \in DOMAIN p : p[i].doc = d}
           m == CHOOSE i \in at : TRUE
           t == SubSeq(p, m, Len(p))
<1>6. CASE at = {}
  BY <1>4, <1>5, <1>6 DEF ResumedAt
<1>7. CASE at # {}
  <2>1. m \in DOMAIN p
    BY <1>7
  <2> HIDE DEF m
  <2>2. m \in Int /\ Len(p) \in Int /\ m <= Len(p) /\ m >= 1
        /\ \A i \in m..Len(p) : p[i] \in Candidates
    BY <1>4, <2>1
  <2>3. /\ t \in Seq(Candidates) /\ Len(t) = Len(p) - m + 1
        /\ \A i \in 1..(Len(p) - m + 1) : t[i] = p[m + i - 1]
    BY <2>2, SubSeqProperties
  <2>4. ResumedAt(p, d) = t
    BY <1>7 DEF ResumedAt, m
  <2> HIDE DEF t
  <2>5. DOMAIN t = 1..(Len(p) - m + 1)
    BY <2>3
  <2>6. \A i \in DOMAIN t : m + i - 1 \in DOMAIN p
    BY <2>2, <2>5, <1>4
  <2> QED
    BY <2>3, <2>4, <2>5, <2>6, <1>5
<1> QED
  BY <1>6, <1>7

(* Sorting the candidates changes nothing that was found. *)
LEMMA WalkEndsEffect ==
  ASSUME BaseInv, NEW r \in Roots, WalkEnds(r)
  PROVE  /\ ScanFrame(r) /\ UNCHANGED <<stored, cacheVars, saved>>
         /\ scan[r].pc = "walk" /\ scan[r].todo = {}
         /\ \E s \in ScanStates :
              ScanGoes(r, s) /\ s.pc = "sync" /\ s.doc = 0 /\ SameFinds(r, s)
<1> DEFINE old == scan[r]
           at == sched[r].resume
<1>1. MarkdownTyped /\ ScanOK(r, old) /\ old \in ScanStates /\ old.pc = "walk"
      /\ old.todo = {}
  BY DEF BaseInv, CoverInv, ScanOK, WalkEnds
<1>2. old.queue \in Seq(Candidates) /\ old.doc = 0
  BY <1>1, ScanFields DEF ScanOK, Writing
<1>3. PICK q \in NewestFirst(old.queue) :
        Goes(r, [old EXCEPT !.pc = "sync", !.queue = ResumedAt(q, at)])
  BY DEF WalkEnds
<1> DEFINE w == ResumedAt(q, at)
           s == [old EXCEPT !.pc = "sync", !.queue = w]
<1>4. w \in Seq(Candidates) /\ \A i \in DOMAIN w : \E j \in DOMAIN old.queue : w[i] = old.queue[j]
  BY <1>2, ResumedKeeps
<1> HIDE DEF w
<1>5. /\ s \in ScanStates /\ s.pc = "sync" /\ s.doc = 0 /\ s.queue = w
      /\ s.todo = old.todo /\ s.seen = old.seen /\ s.partial = old.partial
      /\ s.large = old.large
  BY <1>1, <1>2, <1>4 DEF ScanStates, Candidates
<1>6. Goes(r, s)
  BY <1>3 DEF w
<1> HIDE DEF s
<1>7. ScanOK(r, s)
  BY <1>1, <1>4, <1>5 DEF ScanOK, Writing
<1>8. ScanFrame(r)
  <2>1. UNCHANGED <<disk, gone, released, rooted, host, known, used>>
        /\ (open' = open \/ open' = [open EXCEPT ![AdapterOf[r]] = TRUE])
    BY DEF WalkEnds, rootVars, historyVars
  <2>2. used' \in Counters /\ used'.edits = used.edits /\ open' \in [Adapters -> BOOLEAN]
    BY <1>1, <2>1 DEF MarkdownTyped, Counters
  <2>3. \A x \in Roots : known[x] \subseteq Covers[x]
    BY DEF BaseInv, CoverInv
  <2>4. PICK d \in Docs \cup {0} : sched' = [sched EXCEPT ![r].resume = d]
    BY <1>1 DEF WalkEnds, MarkdownTyped
  <2> DEFINE x == [sched[r] EXCEPT !.resume = d]
  <2>5. x \in Scheds /\ x.timer = sched[r].timer /\ sched' = [sched EXCEPT ![r] = x]
    BY <1>1, <2>4 DEF MarkdownTyped, Scheds
  <2> HIDE DEF x
  <2> QED
    BY <1>1, <2>1, <2>2, <2>3, <2>5, SchedEffect DEF ScanFrame, MarkdownTyped, Scanning
<1>9. UNCHANGED <<stored, cacheVars, saved>>
  BY DEF WalkEnds
<1> QED
  BY <1>1, <1>5, <1>6, <1>7, <1>8, <1>9 DEF ScanGoes, SameFinds, Goes

KnownOK ==
  known' \in [Roots -> SUBSET Docs] /\ \A q \in Roots : known'[q] \subseteq Covers[q]

LEMMA KnownSame ==
  ASSUME BaseInv, UNCHANGED known
  PROVE  KnownOK
BY DEF BaseInv, MarkdownTyped, CoverInv, KnownOK

LEMMA KnownSet ==
  ASSUME BaseInv, NEW r \in Roots, NEW K, K \subseteq Docs, K \subseteq Covers[r],
         known' = [known EXCEPT ![r] = K]
  PROVE  KnownOK
<1>1. known \in [Roots -> SUBSET Docs] /\ \A q \in Roots : known[q] \subseteq Covers[q]
  BY DEF BaseInv, MarkdownTyped, CoverInv
<1>2. known' \in [Roots -> SUBSET Docs]
  BY <1>1
<1>3. \A q \in Roots : known'[q] \subseteq Covers[q]
  BY <1>1
<1> QED
  BY <1>2, <1>3 DEF KnownOK

(* What is left to prune is pruned, or the scan is about to be saved. *)
LEMMA PruningEffect ==
  ASSUME BaseInv, NEW r \in Roots, NEW s \in ScanStates, Pruning(r, s),
         s.todo \subseteq Covers[r], s.seen \subseteq Covers[r], s.todo \cap s.seen = {},
         \A i \in DOMAIN s.queue : s.queue[i].doc \in s.seen, s.large = scan[r].large,
         s.large \subseteq s.seen, s.large \subseteq Capped
  PROVE  /\ KnownOK
         /\ \E x \in ScanStates :
              /\ ScanGoes(r, x) /\ x.pc \in {"prune", "save"} /\ x.doc = 0
              /\ x.todo = s.todo /\ x.seen = s.seen
<1>1. KnownOK
  <2>1. s.seen \ s.retired \subseteq Docs /\ s.seen \ s.retired \subseteq Covers[r]
    BY ScanFields
  <2> DEFINE K == s.seen \ s.retired
  <2>2. UNCHANGED known \/ known' = [known EXCEPT ![r] = K]
    BY DEF Pruning
  <2> HIDE DEF K
  <2> QED
    BY <2>1, <2>2, KnownSame, KnownSet DEF K
<1> DEFINE p == [s EXCEPT !.pc = "prune", !.doc = 0]
           e == [s EXCEPT !.pc = "save", !.doc = 0]
<1>2. /\ p \in ScanStates /\ p.pc = "prune" /\ p.doc = 0 /\ p.todo = s.todo /\ p.seen = s.seen
      /\ p.queue = s.queue /\ p.large = s.large
      /\ e \in ScanStates /\ e.pc = "save" /\ e.doc = 0 /\ e.todo = s.todo /\ e.seen = s.seen
      /\ e.queue = s.queue /\ e.large = s.large
  BY DEF ScanStates
<1>3. Goes(r, p) \/ Goes(r, e)
  BY DEF Pruning
<1> HIDE DEF p, e
<1>4. ScanOK(r, p) /\ ScanOK(r, e)
  BY <1>2 DEF ScanOK, Writing
<1> QED
  BY <1>1, <1>2, <1>3, <1>4 DEF ScanGoes, Goes

(* The scan of root r turns from its candidates to what it has missed.    *)
Reconciled(r, s) ==
  /\ s.pc \in {"prune", "save"} /\ s.doc = 0
  /\ s.pc = "prune" => /\ ~ scan[r].partial
                       /\ s.seen = scan[r].seen /\ s.todo = known[r] \ scan[r].seen

LEMMA ReconcilesEffect ==
  ASSUME BaseInv, NEW r \in Roots, NEW old \in ScanStates, Reconciles(r, old),
         old.pc = "sync", old.doc = 0, old.todo = scan[r].todo, old.seen = scan[r].seen,
         old.large = scan[r].large,
         old.partial = scan[r].partial, \A i \in DOMAIN old.queue : old.queue[i].doc \in old.seen
  PROVE  KnownOK /\ \E s \in ScanStates : ScanGoes(r, s) /\ Reconciled(r, s)
<1>1. /\ ScanOK(r, scan[r]) /\ known[r] \subseteq Covers[r] /\ known[r] \subseteq Docs
      /\ scan[r] \in ScanStates
  BY DEF BaseInv, CoverInv, MarkdownTyped
<1>2. old.seen \subseteq Covers[r] /\ old.todo \subseteq Covers[r]
      /\ old.large \subseteq old.seen /\ old.large \subseteq Capped
  BY <1>1 DEF ScanOK
<1>3. CASE Complete(old)
  <2> DEFINE s == [old EXCEPT !.todo = known[r] \ old.seen]
  <2>1. /\ s \in ScanStates /\ s.todo = known[r] \ old.seen /\ s.seen = old.seen
        /\ s.queue = old.queue /\ s.large = old.large
    BY <1>1 DEF ScanStates
  <2>2. Pruning(r, s) /\ ~ scan[r].partial
    BY <1>3 DEF Reconciles, Complete
  <2> HIDE DEF s
  <2>3. s.todo \subseteq Covers[r] /\ s.seen \subseteq Covers[r] /\ s.todo \cap s.seen = {}
        /\ \A i \in DOMAIN s.queue : s.queue[i].doc \in s.seen
    BY <1>1, <1>2, <2>1
  <2> QED
    BY <1>2, <2>1, <2>2, <2>3, PruningEffect DEF Reconciled
<1>4. CASE ~ Complete(old)
  <2> DEFINE s == [old EXCEPT !.pc = "save"]
             K == (known[r] \cup old.seen) \ (old.retired \cap old.seen)
  <2>1. /\ s \in ScanStates /\ s.pc = "save" /\ s.doc = 0 /\ s.todo = old.todo
        /\ s.seen = old.seen /\ s.queue = old.queue /\ s.large = old.large
    BY DEF ScanStates
  <2>2. Goes(r, s) /\ known' = [known EXCEPT ![r] = K]
    BY <1>4 DEF Reconciles
  <2>3. K \subseteq Docs /\ K \subseteq Covers[r]
    BY <1>1, <1>2, ScanFields
  <2> HIDE DEF s, K
  <2>4. ScanOK(r, s)
    BY <1>2, <2>1 DEF ScanOK, Writing
  <2> QED
    BY <2>1, <2>2, <2>3, <2>4, KnownSet DEF ScanGoes, Goes, Reconciled
<1> QED
  BY <1>3, <1>4

(* The frame of a step that touches neither host, counters nor pressure. *)
LEMMA PlainFrame ==
  ASSUME BaseInv, NEW r \in Roots, Scanning(r), KnownOK,
         UNCHANGED <<disk, gone, released, rooted, host, used, open>>,
         sched' \in [Roots -> Scheds],
         \A q \in Roots : sched'[q].timer =>
           sched[q].timer \/ (q = r /\ ~ Stopping(AdapterOf[q]))
  PROVE  ScanFrame(r)
BY DEF BaseInv, MarkdownTyped, ScanFrame, KnownOK, Counters

(* The candidates are dealt with: a scan told to stop ends here. *)
LEMMA SyncEndsEffect ==
  ASSUME BaseInv, NEW r \in Roots, SyncEnds(r)
  PROVE  /\ ScanFrame(r) /\ UNCHANGED <<stored, cacheVars, saved>> /\ scan[r].pc = "sync"
         /\ \E s \in ScanStates :
              /\ ScanGoes(r, s)
              /\ \/ s = IdleScan
                 \/ Reconciled(r, s) /\ ~ Stopping(AdapterOf[r])
<1>1. MarkdownTyped /\ ScanOK(r, scan[r]) /\ scan[r] \in ScanStates /\ scan[r].pc = "sync"
      /\ scan[r].doc = 0 /\ Scanning(r)
  BY DEF BaseInv, CoverInv, ScanOK, SyncEnds, Scanning, Writing
<1>2. UNCHANGED <<stored, cacheVars, saved, disk, gone, released, rooted, host, used, open>>
  BY DEF SyncEnds, historyVars
<1>3. CASE Stopping(AdapterOf[r])
  <2>1. Ends(r) /\ UNCHANGED known
    BY <1>3 DEF SyncEnds
  <2> QED
    BY <1>1, <1>2, <2>1, EndsEffect, IdleFields, KnownSame, PlainFrame
<1>4. CASE ~ Stopping(AdapterOf[r])
  <2>1. Reconciles(r, scan[r]) /\ sched' = [sched EXCEPT ![r].resume = 0]
    BY <1>4 DEF SyncEnds
  <2>2. KnownOK /\ \E s \in ScanStates : ScanGoes(r, s) /\ Reconciled(r, s)
    BY <1>1, <2>1, ReconcilesEffect DEF ScanOK
  <2> DEFINE x == [sched[r] EXCEPT !.resume = 0]
  <2>3. x \in Scheds /\ x.timer = sched[r].timer /\ sched' = [sched EXCEPT ![r] = x]
    BY <1>1, <2>1 DEF MarkdownTyped, Scheds
  <2> HIDE DEF x
  <2> QED
    BY <1>1, <1>2, <1>4, <2>2, <2>3, SchedEffect, PlainFrame
<1> QED
  BY <1>3, <1>4

(* A candidate found unchanged: at most the root of its entry changes. *)
Refreshed(r, d) ==
  LET a == AdapterOf[r]
  IN  \/ UNCHANGED cacheVars
      \/ /\ d \in DOMAIN cache[a]
         /\ \E e \in Entries : e.v = cache[a][d].v /\ e.root = r /\ Keep(a, d, e)

LEMMA SyncEffect ==
  ASSUME BaseInv, NEW r \in Roots, Sync(r)
  PROVE  /\ ScanFrame(r) /\ UNCHANGED <<stored, saved>> /\ scan[r].pc = "sync"
         /\ \E s \in ScanStates :
              /\ ScanGoes(r, s)
              /\ \/ s = IdleScan /\ UNCHANGED cacheVars
                 \/ Reconciled(r, s) /\ ~ Stopping(AdapterOf[r]) /\ UNCHANGED cacheVars
                 \/ /\ SameFinds(r, s)
                    /\ \E d \in scan[r].seen :
                         /\ Free(d)
                         /\ \/ s.pc = "read" /\ s.doc = d /\ UNCHANGED cacheVars
                            \/ s.pc = "sync" /\ s.doc = 0 /\ Refreshed(r, d)
                            \/ /\ s.pc = "sync" /\ s.doc = 0 /\ d \in scan[r].large
                               /\ Forget(AdapterOf[r], d)
                            \/ /\ s.pc = "delete" /\ s.doc = d /\ d \in scan[r].large
                               /\ ~ OtherOwner(AdapterOf[r], d) /\ UNCHANGED cacheVars
<1> DEFINE a == AdapterOf[r]
           old == scan[r]
           c == Head(old.queue)
<1>1. /\ MarkdownTyped /\ ScanOK(r, old) /\ old \in ScanStates /\ old.pc = "sync"
      /\ old.doc = 0 /\ Scanning(r) /\ old.queue # << >> /\ old.queue \in Seq(Candidates)
      /\ a \in Adapters
  BY MarkdownAssumption, ScanFields DEF BaseInv, CoverInv, ScanOK, Sync, Scanning, Writing
<1>2. UNCHANGED <<stored, saved, disk, gone, released, rooted, host, used, open>>
  BY DEF Sync, historyVars
<1>3. c \in Candidates /\ c.doc \in old.seen /\ c.doc \in Docs /\ c.doc # 0
  <2>1. c = old.queue[1] /\ 1 \in DOMAIN old.queue
    BY <1>1
  <2>2. c \in Candidates
    BY <1>1, HeadTailProperties
  <2>3. c.doc \in old.seen
    BY <1>1, <2>1 DEF ScanOK
  <2> HIDE DEF c
  <2> QED
    BY <2>2, <2>3, DocsAreNumbers DEF Candidates
<1>4. CASE Stopping(a) /\ Ends(r) /\ UNCHANGED <<cacheVars, known>>
  BY <1>1, <1>2, <1>4, EndsEffect, IdleFields, KnownSame, PlainFrame
<1>5. CASE /\ ~ Stopping(a)
           /\ sched' = [sched EXCEPT ![r] = [@ EXCEPT !.resume = c.doc, !.again = TRUE]]
           /\ Reconciles(r, [old EXCEPT !.queue = << >>])
           /\ UNCHANGED cacheVars
  <2> DEFINE s == [old EXCEPT !.queue = << >>]
  <2>1. /\ s \in ScanStates /\ s.pc = "sync" /\ s.doc = 0 /\ s.todo = old.todo
        /\ s.seen = old.seen /\ s.partial = old.partial /\ s.queue = << >>
        /\ s.large = old.large
    <3>1. << >> \in Seq(Candidates)
      OBVIOUS
    <3> QED
      BY <1>1, <3>1 DEF ScanStates, Candidates
  <2>2. Reconciles(r, s)
    BY <1>5
  <2> HIDE DEF s
  <2>3. KnownOK /\ \E x \in ScanStates : ScanGoes(r, x) /\ Reconciled(r, x)
    BY <2>1, <2>2, ReconcilesEffect
  <2> HIDE DEF c
  <2>4. /\ sched' \in [Roots -> Scheds]
        /\ \A q \in Roots : sched'[q].timer =>
             sched[q].timer \/ (q = r /\ ~ Stopping(AdapterOf[q]))
    BY <1>1, <1>3, <1>5, ResumeEffect
  <2> QED
    BY <1>1, <1>2, <1>5, <2>3, <2>4, PlainFrame
<1>6. CASE /\ Free(c.doc) /\ SameStamp(a, c) /\ Goes(r, Done(old))
           /\ IF cache[a][c.doc].root = r THEN UNCHANGED cacheVars
              ELSE Keep(a, c.doc, [cache[a][c.doc] EXCEPT !.root = r])
           /\ UNCHANGED <<sched, known>>
  <2>1. ScanGoes(r, Done(old)) /\ Done(old) \in ScanStates /\ SameFinds(r, Done(old))
        /\ Done(old).pc = "sync" /\ Done(old).doc = 0
    BY <1>1, <1>6, DoneFields, DoneOK DEF ScanGoes, Goes, SameFinds
  <2>2. Refreshed(r, c.doc)
    <3> DEFINE e == [cache[a][c.doc] EXCEPT !.root = r]
    <3>1. c.doc \in DOMAIN cache[a] /\ cache[a][c.doc] \in Entries
      BY <1>1, <1>6, MapFacts DEF SameStamp, MarkdownTyped
    <3>2. e \in Entries /\ e.v = cache[a][c.doc].v /\ e.root = r
      BY <3>1 DEF Entries
    <3>3. UNCHANGED cacheVars \/ Keep(a, c.doc, e)
      BY <1>6
    <3> HIDE DEF e
    <3> QED
      BY <3>1, <3>2, <3>3 DEF Refreshed
  <2> HIDE DEF c
  <2> QED
    BY <1>1, <1>2, <1>3, <1>6, <2>1, <2>2, SchedSame, KnownSame, PlainFrame
<1>7. CASE /\ Free(c.doc) /\ Goes(r, [old EXCEPT !.pc = "read", !.doc = c.doc])
           /\ c.doc \notin old.large /\ UNCHANGED <<cacheVars, sched, known>>
  <2> DEFINE s == [old EXCEPT !.pc = "read", !.doc = c.doc]
  <2>1. Goes(r, s)
    BY <1>7
  <2>2. /\ s \in ScanStates /\ s.pc = "read" /\ s.doc = c.doc /\ s.todo = old.todo
        /\ s.seen = old.seen /\ s.partial = old.partial /\ s.queue = old.queue
        /\ s.large = old.large
    BY <1>1, <1>3 DEF ScanStates, Writing
  <2> HIDE DEF s, c
  <2>3. ScanOK(r, s)
    BY <1>1, <1>3, <1>7, <2>2 DEF ScanOK, Writing
  <2> QED
    BY <1>1, <1>2, <1>3, <1>7, <2>1, <2>2, <2>3, SchedSame, KnownSame, PlainFrame
       DEF ScanGoes, Goes, SameFinds
<1>8. CASE /\ Free(c.doc) /\ c.doc \in old.large /\ UNCHANGED <<sched, known>>
           /\ IF c.doc \in DOMAIN cache[a]
                THEN Retires(r, [old EXCEPT !.doc = c.doc])
                ELSE Goes(r, Done(old)) /\ UNCHANGED cacheVars
  <2> DEFINE t == [old EXCEPT !.doc = c.doc]
             s == [t EXCEPT !.pc = "delete"]
  <2>1. ScanFrame(r)
    BY <1>1, <1>2, <1>8, SchedSame, KnownSame, PlainFrame
  <2>2. /\ ScanOK(r, Done(old)) /\ Done(old) \in ScanStates /\ SameFinds(r, Done(old))
        /\ Done(old).pc = "sync" /\ Done(old).doc = 0 /\ Done(old).large = old.large
    BY <1>1, DoneFields, DoneOK DEF SameFinds
  <2>3. /\ t \in ScanStates /\ t.doc = c.doc /\ t.pc = "sync" /\ t.queue = old.queue
        /\ t.todo = old.todo /\ t.seen = old.seen /\ t.large = old.large
        /\ t.partial = old.partial
    BY <1>1, <1>3 DEF ScanStates
  <2> HIDE DEF t
  <2>4. /\ s \in ScanStates /\ s.doc = c.doc /\ s.pc = "delete" /\ s.queue = old.queue
        /\ s.todo = old.todo /\ s.seen = old.seen /\ s.large = old.large
        /\ s.partial = old.partial
    BY <2>3 DEF ScanStates, Writing
  <2> HIDE DEF s
  <2>5. CASE c.doc \notin DOMAIN cache[a]
    BY <1>1, <1>2, <1>3, <1>8, <2>1, <2>2, <2>5 DEF Refreshed, ScanGoes, Goes
  <2>6. CASE c.doc \in DOMAIN cache[a] /\ OtherOwner(a, c.doc)
    <3>1. Goes(r, Retired(t)) /\ Forget(a, c.doc)
      BY <1>8, <2>3, <2>6 DEF Retires, t
    <3>2. /\ Retired(t) \in ScanStates /\ Retired(t).pc = "sync" /\ Retired(t).doc = 0
          /\ Retired(t).todo = old.todo /\ Retired(t).seen = old.seen
          /\ Retired(t).partial = old.partial /\ Retired(t).large = old.large
          /\ Retired(t).queue = Done(old).queue
      BY <1>1, <1>3, <2>3, RetiredFields, DoneFields
    <3>3. ScanOK(r, Retired(t))
      BY <1>1, <2>2, <3>2, DoneFields DEF ScanOK, Writing
    <3> HIDE DEF c
    <3> QED
      BY <1>1, <1>2, <1>3, <1>8, <2>1, <3>1, <3>2, <3>3 DEF ScanGoes, Goes, SameFinds
  <2>7. CASE c.doc \in DOMAIN cache[a] /\ ~ OtherOwner(a, c.doc)
    <3>1. Goes(r, s) /\ UNCHANGED cacheVars
      BY <1>8, <2>3, <2>7 DEF Retires, t, s
    <3> HIDE DEF c
    <3>2. ScanOK(r, s)
      BY <1>1, <1>3, <2>4 DEF ScanOK, Writing
    <3> QED
      BY <1>1, <1>2, <1>3, <1>8, <2>1, <2>4, <2>7, <3>1, <3>2 DEF ScanGoes, Goes, SameFinds
  <2> QED
    BY <2>5, <2>6, <2>7
<1> QED
  BY <1>4, <1>5, <1>6, <1>7, <1>8 DEF Sync

(* An adapter whose scan is at work on a candidate. *)
LEMMA AtWork ==
  ASSUME BaseInv, NEW r \in Roots, scan[r].pc \in Writing
  PROVE  /\ MarkdownTyped /\ ScanOK(r, scan[r]) /\ scan[r] \in ScanStates /\ Scanning(r)
         /\ AdapterOf[r] \in Adapters /\ scan[r].doc \in Docs /\ scan[r].doc \in scan[r].seen
         /\ scan[r].queue # << >> /\ Head(scan[r].queue).m \in Nat
         /\ Done(scan[r]).pc = "sync" /\ Done(scan[r]).doc = 0
         /\ Retired(scan[r]).pc = "sync" /\ Retired(scan[r]).doc = 0
         /\ Done(scan[r]) \in ScanStates /\ Retired(scan[r]) \in ScanStates
         /\ SameFinds(r, Done(scan[r])) /\ SameFinds(r, Retired(scan[r]))
         /\ Goes(r, Done(scan[r])) => ScanGoes(r, Done(scan[r]))
         /\ Goes(r, Retired(scan[r])) => ScanGoes(r, Retired(scan[r]))
<1> DEFINE s == scan[r]
<1>1. MarkdownTyped /\ ScanOK(r, s) /\ s \in ScanStates /\ AdapterOf[r] \in Adapters
      /\ Scanning(r)
  BY MarkdownAssumption DEF BaseInv, CoverInv, ScanOK, Scanning, Writing
<1>2. s.doc \in Docs /\ s.doc \in s.seen /\ s.doc # 0 /\ s.queue # << >>
      /\ s.queue \in Seq(Candidates)
  BY <1>1, ScanFields DEF ScanOK
<1>3. Head(s.queue).m \in Nat
  <2>1. Head(s.queue) \in Candidates
    BY <1>2, HeadTailProperties
  <2> QED
    BY <2>1 DEF Candidates
<1>4. ScanOK(r, Done(s)) /\ ScanOK(r, Retired(s))
  BY <1>1, <1>2, DoneOK, RetiredOK
<1>5. /\ Done(s).pc = "sync" /\ Done(s).doc = 0 /\ Done(s) \in ScanStates
      /\ Retired(s).pc = "sync" /\ Retired(s).doc = 0 /\ Retired(s) \in ScanStates
      /\ SameFinds(r, Done(s)) /\ SameFinds(r, Retired(s))
  BY <1>1, <1>2, DoneFields, RetiredFields DEF SameFinds
<1> QED
  BY <1>1, <1>2, <1>3, <1>4, <1>5 DEF ScanGoes, Goes, SameFinds

(* The frame of a step that may fail. *)
LEMMA FaultFrame ==
  ASSUME BaseInv, NEW r \in Roots, Scanning(r), KnownOK,
         UNCHANGED <<disk, gone, released, rooted, sched>>,
         host' = host, open' \in [Adapters -> BOOLEAN],
         NEW kind, Fault(kind) \/ UNCHANGED used
  PROVE  ScanFrame(r)
<1>1. MarkdownTyped
  BY DEF BaseInv
<1> QED
  BY <1>1, FaultEffect, SchedSame DEF ScanFrame, KnownOK

(* A file that was read is unchanged, to be stored, or to be given up. *)
LEMMA ReadEffect ==
  ASSUME BaseInv, NEW r \in Roots, Read(r)
  PROVE  /\ ScanFrame(r) /\ UNCHANGED <<stored, saved>> /\ scan[r].pc = "read"
         /\ LET a == AdapterOf[r]
                d == scan[r].doc
                v == disk[d].v
            IN  \E s \in ScanStates :
                  /\ ScanGoes(r, s) /\ SameFinds(r, s)
                  /\ \/ /\ s.pc = "sync" /\ s.doc = 0
                        /\ Refreshed(r, d) \/ (~ Accepts(a, d, v) /\ Forget(a, d))
                     \/ /\ s.pc = "store" /\ s.doc = d /\ s.v = v /\ Accepts(a, d, v)
                        /\ ~ CacheSkips(a, d) /\ UNCHANGED cacheVars
                     \/ /\ s.pc = "delete" /\ s.doc = d /\ ~ Accepts(a, d, v)
                        /\ ~ OtherOwner(a, d) /\ UNCHANGED cacheVars
<1> DEFINE a == AdapterOf[r]
           old == scan[r]
           d == old.doc
           v == disk[d].v
           e == [v |-> v, m |-> Head(old.queue).m, root |-> r]
           store == [old EXCEPT !.pc = "store", !.v = v]
           delete == [old EXCEPT !.pc = "delete"]
<1>1. old.pc = "read" /\ old.pc \in Writing
  BY DEF Read, Writing
<1>2. MarkdownTyped /\ ScanOK(r, old) /\ old \in ScanStates /\ Scanning(r) /\ a \in Adapters
      /\ d \in Docs /\ d \in old.seen /\ v \in Nat
  BY <1>1, AtWork DEF MarkdownTyped
<1>3. ScanFrame(r)
  <2>1. UNCHANGED <<disk, gone, released, rooted, sched, host, known, open>>
    BY DEF Read, rootVars
  <2>2. Fault("fs") \/ UNCHANGED used
    BY DEF Read, Fails
  <2>3. open' \in [Adapters -> BOOLEAN]
    BY <1>2, <2>1 DEF MarkdownTyped
  <2> QED
    BY <1>2, <2>1, <2>2, <2>3, KnownSame, FaultFrame
<1>4. \/ Goes(r, Done(old)) /\ UNCHANGED cacheVars
      \/ Goes(r, Done(old)) /\ Keep(a, d, e) /\ Fits(d, v) /\ SameContent(a, d, v)
      \/ /\ Goes(r, store) /\ UNCHANGED cacheVars /\ Accepts(a, d, v)
         /\ ~ (Fits(d, v) /\ SameContent(a, d, v))
      \/ ~ Accepts(a, d, v) /\ Retires(r, old)
  BY DEF Read
<1>5. /\ store \in ScanStates /\ store.pc = "store" /\ store.doc = d /\ store.v = v
      /\ store.queue = old.queue /\ SameFinds(r, store)
      /\ delete \in ScanStates /\ delete.pc = "delete" /\ delete.doc = d
      /\ delete.queue = old.queue /\ SameFinds(r, delete)
  BY <1>2 DEF ScanStates, Writing, SameFinds
<1> HIDE DEF store, delete
<1>6. ScanOK(r, delete) /\ (v # 0 => ScanOK(r, store))
  BY <1>1, <1>2, <1>5 DEF ScanOK, Writing, SameFinds
<1>7. (Goes(r, delete) => ScanGoes(r, delete)) /\ (v # 0 /\ Goes(r, store) => ScanGoes(r, store))
  BY <1>5, <1>6 DEF Goes, ScanGoes, SameFinds
<1>8. UNCHANGED <<stored, saved>>
  BY DEF Read
<1>9. CASE Goes(r, Done(old)) /\ UNCHANGED cacheVars
  BY <1>1, <1>3, <1>8, <1>9, AtWork DEF Refreshed
<1>10. CASE Goes(r, Done(old)) /\ Keep(a, d, e) /\ Fits(d, v) /\ SameContent(a, d, v)
  <2>1. e \in Entries /\ e.v = v /\ e.root = r
    BY <1>1, <1>2, <1>10, AtWork DEF Fits, Entries
  <2> HIDE DEF e
  <2>2. Refreshed(r, d)
    BY <1>10, <2>1 DEF Refreshed, SameContent
  <2> QED
    BY <1>1, <1>3, <1>8, <1>10, <2>2, AtWork
<1>11. CASE /\ Goes(r, store) /\ UNCHANGED cacheVars /\ Accepts(a, d, v)
            /\ ~ (Fits(d, v) /\ SameContent(a, d, v))
  <2>1. v # 0 /\ ~ CacheSkips(a, d)
    BY <1>11 DEF Accepts, Fits, SameContent, CacheSkips
  <2> QED
    BY <1>1, <1>3, <1>5, <1>7, <1>8, <1>11, <2>1
<1>12. CASE ~ Accepts(a, d, v) /\ Retires(r, old)
  <2>1. CASE OtherOwner(a, d)
    <3>1. Goes(r, Retired(old)) /\ Forget(a, d)
      BY <1>12, <2>1 DEF Retires
    <3> QED
      BY <1>1, <1>3, <1>8, <1>12, <3>1, AtWork
  <2>2. CASE ~ OtherOwner(a, d)
    <3>1. Goes(r, delete) /\ UNCHANGED cacheVars
      BY <1>12, <2>2 DEF Retires, delete
    <3> QED
      BY <1>1, <1>3, <1>5, <1>7, <1>8, <1>12, <2>2, <3>1
  <2> QED
    BY <2>1, <2>2
<1> QED
  BY <1>4, <1>9, <1>10, <1>11, <1>12

(* An answer leaves something in the daemon for the document asked about.  *)
Answered(d) == \E v \in Nat : stored' = [stored EXCEPT ![d] = v]

LEMMA TornIsNatural == Torn \in Nat
BY MarkdownAssumption DEF Torn

(* An ingest that ends is remembered if it succeeded. *)
LEMMA StoreEffect ==
  ASSUME BaseInv, NEW r \in Roots, StoreEnds(r)
  PROVE  /\ ScanFrame(r) /\ UNCHANGED saved /\ scan[r].pc = "store"
         /\ \E s \in ScanStates :
              ScanGoes(r, s) /\ SameFinds(r, s) /\ s.pc = "sync" /\ s.doc = 0
         /\ LET a == AdapterOf[r]
                d == scan[r].doc
            IN  \/ /\ stored' = [stored EXCEPT ![d] = scan[r].v]
                   /\ \E e \in Entries : e.v = scan[r].v /\ e.root = r /\ Keep(a, d, e)
                \/ Answered(d) /\ UNCHANGED cacheVars
<1> DEFINE a == AdapterOf[r]
           old == scan[r]
           d == old.doc
           e == [v |-> old.v, m |-> Head(old.queue).m, root |-> r]
<1>1. old.pc = "store" /\ old.pc \in Writing
  BY DEF StoreEnds, Writing
<1>2. MarkdownTyped /\ ScanOK(r, old) /\ old \in ScanStates /\ Scanning(r) /\ a \in Adapters
      /\ d \in Docs /\ old.v \in Nat /\ old.v # 0
  BY <1>1, AtWork, ScanFields DEF ScanOK
<1>3. UNCHANGED <<disk, saved, sched, gone, released, rooted, known, host>>
      /\ Goes(r, Done(old))
  BY DEF StoreEnds, rootVars
<1>4. ScanFrame(r)
  <2>1. \/ Fault("rpc") \/ Fault("pressure") \/ UNCHANGED used
    BY DEF StoreEnds, Fails
  <2>2. open' \in [Adapters -> BOOLEAN]
    BY <1>2 DEF StoreEnds, MarkdownTyped
  <2> QED
    BY <1>2, <1>3, <2>1, <2>2, KnownSame, FaultFrame
<1>5. \/ stored' = [stored EXCEPT ![d] = old.v] /\ Keep(a, d, e)
      \/ Stores(d, {stored[d], old.v, Torn}) /\ UNCHANGED cacheVars
  BY DEF StoreEnds, Stores
<1>6. e \in Entries /\ e.v = old.v /\ e.root = r
  BY <1>1, <1>2, AtWork DEF Entries
<1> HIDE DEF e
<1>7. Stores(d, {stored[d], old.v, Torn}) => Answered(d)
  BY <1>2, TornIsNatural DEF Stores, Answered, MarkdownTyped
<1> QED
  BY <1>1, <1>3, <1>4, <1>5, <1>6, <1>7, AtWork

(* A deletion that ends is remembered if it succeeded. *)
LEMMA DeleteEffect ==
  ASSUME BaseInv, NEW r \in Roots, DeleteEnds(r)
  PROVE  /\ ScanFrame(r) /\ UNCHANGED saved /\ scan[r].pc = "delete"
         /\ \E s \in ScanStates :
              /\ ScanGoes(r, s)
              /\ s = IdleScan \/ (SameFinds(r, s) /\ s.pc = "sync" /\ s.doc = 0)
         /\ Answered(scan[r].doc)
         /\ UNCHANGED cacheVars \/ Forget(AdapterOf[r], scan[r].doc)
<1> DEFINE a == AdapterOf[r]
           old == scan[r]
           d == old.doc
<1>1. old.pc = "delete" /\ old.pc \in Writing
  BY DEF DeleteEnds, Writing
<1>2. MarkdownTyped /\ Scanning(r) /\ d \in Docs
  BY <1>1, AtWork
<1>3. UNCHANGED <<disk, saved, gone, released, rooted, known, open>>
      /\ \/ UNCHANGED <<sched, host>> /\ (Goes(r, Done(old)) \/ Goes(r, Retired(old)))
         \/ Throws(r)
  BY DEF DeleteEnds, rootVars
<1>4. used' \in Counters /\ used'.edits = used.edits /\ open' \in [Adapters -> BOOLEAN]
  <2>1. Fault("rpc") \/ UNCHANGED used
    BY DEF DeleteEnds, Fails
  <2> QED
    BY <1>2, <1>3, <2>1, FaultEffect DEF MarkdownTyped
<1>5. /\ Stores(d, {0}) \/ Stores(d, {0, stored[d]})
      /\ UNCHANGED cacheVars \/ Forget(a, d)
  BY DEF DeleteEnds
<1>6. Answered(d)
  BY <1>2, <1>5 DEF Stores, Answered, MarkdownTyped
<1>7. KnownOK
  BY <1>3, KnownSame
<1>8. CASE UNCHANGED <<sched, host>> /\ (Goes(r, Done(old)) \/ Goes(r, Retired(old)))
  <2>1. ScanFrame(r)
    BY <1>2, <1>3, <1>4, <1>7, <1>8, SchedSame DEF ScanFrame, KnownOK
  <2> QED
    BY <1>1, <1>3, <1>5, <1>6, <1>8, <2>1, AtWork
<1>9. CASE Throws(r)
  <2>1. Ends(r) /\ (host' = host \/ (host.phase = "starting"
                                     /\ host' = [phase |-> "on", next |-> 0]))
    BY <1>9 DEF Throws
  <2>2. ScanFrame(r)
    BY <1>2, <1>3, <1>4, <1>7, <2>1, EndsEffect DEF ScanFrame, KnownOK
  <2> QED
    BY <1>1, <1>3, <1>5, <1>6, <2>1, <2>2, EndsEffect, IdleFields
<1> QED
  BY <1>3, <1>8, <1>9

(* A missed file is left to whoever has it, or its document deleted. *)
LEMMA PruneEffect ==
  ASSUME BaseInv, NEW r \in Roots, Prune(r)
  PROVE  /\ ScanFrame(r) /\ UNCHANGED <<stored, saved>> /\ scan[r].pc = "prune"
         /\ LET a == AdapterOf[r]
            IN  \E s \in ScanStates, d \in scan[r].todo :
                  /\ ScanGoes(r, s) /\ Free(d) /\ s.seen = scan[r].seen
                  /\ \/ /\ s.pc \in {"prune", "save"} /\ s.doc = 0
                        /\ s.todo = scan[r].todo \ {d}
                        /\ \/ UNCHANGED cacheVars
                           \/ Forget(a, d) /\ ~ TakenOver(r, d)
                     \/ /\ s.pc = "unlist" /\ s.doc = d /\ s.todo = scan[r].todo
                        /\ ~ TakenOver(r, d) /\ ~ OtherOwner(a, d) /\ UNCHANGED cacheVars
<1> DEFINE a == AdapterOf[r]
           old == scan[r]
<1>1. MarkdownTyped /\ ScanOK(r, old) /\ old \in ScanStates /\ Scanning(r) /\ old.pc = "prune"
      /\ old.todo \cap old.seen = {} /\ old.todo \subseteq Docs
  BY ScanFields DEF BaseInv, CoverInv, Prune, Scanning, ScanOK
<1>2. UNCHANGED <<stored, saved, disk, gone, released, rooted, sched, host, used, open>>
  BY DEF Prune, historyVars
<1>3. PICK d \in old.todo :
        /\ Free(d)
        /\ \/ TakenOver(r, d) /\ Pruning(r, [old EXCEPT !.todo = @ \ {d}])
              /\ UNCHANGED cacheVars
           \/ ~ TakenOver(r, d) /\ OtherOwner(a, d)
              /\ Pruning(r, [old EXCEPT !.todo = @ \ {d}]) /\ Forget(a, d)
           \/ ~ TakenOver(r, d) /\ ~ OtherOwner(a, d)
              /\ Goes(r, [old EXCEPT !.pc = "unlist", !.doc = d])
              /\ UNCHANGED <<cacheVars, known>>
  BY DEF Prune
<1> DEFINE p == [old EXCEPT !.todo = @ \ {d}]
           u == [old EXCEPT !.pc = "unlist", !.doc = d]
<1>4. /\ p \in ScanStates /\ p.todo = old.todo \ {d} /\ p.seen = old.seen
      /\ p.queue = old.queue /\ p.large = old.large /\ u.large = old.large
      /\ u \in ScanStates /\ u.pc = "unlist" /\ u.doc = d /\ u.todo = old.todo
      /\ u.seen = old.seen /\ u.queue = old.queue
  BY <1>1 DEF ScanStates
<1> HIDE DEF p, u
<1>5. CASE Pruning(r, p) /\ (UNCHANGED cacheVars \/ (Forget(a, d) /\ ~ TakenOver(r, d)))
  <2>1. KnownOK /\ \E x \in ScanStates :
          /\ ScanGoes(r, x) /\ x.pc \in {"prune", "save"} /\ x.doc = 0
          /\ x.todo = p.todo /\ x.seen = p.seen
    BY <1>1, <1>4, <1>5, PruningEffect DEF ScanOK
  <2> QED
    BY <1>1, <1>2, <1>3, <1>4, <1>5, <2>1, SchedSame, PlainFrame
<1>6. CASE /\ Goes(r, u) /\ UNCHANGED <<cacheVars, known>>
           /\ ~ TakenOver(r, d) /\ ~ OtherOwner(a, d)
  <2>1. ScanOK(r, u)
    BY <1>1, <1>4, DocsAreNumbers DEF ScanOK, Writing
  <2> QED
    BY <1>1, <1>2, <1>3, <1>4, <1>6, <2>1, SchedSame, KnownSame, PlainFrame
       DEF ScanGoes, Goes
<1> QED
  BY <1>3, <1>5, <1>6 DEF p, u

(* A deletion of a missed file that ends lets the scan go on, or ends it.  *)
LEMMA UnlistEffect ==
  ASSUME BaseInv, NEW r \in Roots, UnlistEnds(r)
  PROVE  /\ ScanFrame(r) /\ UNCHANGED saved /\ scan[r].pc = "unlist"
         /\ LET a == AdapterOf[r]
                d == scan[r].doc
            IN  /\ d \in scan[r].todo /\ Answered(d)
                /\ \E s \in ScanStates :
                     /\ ScanGoes(r, s)
                     /\ \/ /\ s.pc \in {"prune", "save"} /\ s.doc = 0
                           /\ s.todo = scan[r].todo \ {d} /\ s.seen = scan[r].seen
                           /\ Forget(a, d)
                        \/ s = IdleScan /\ UNCHANGED cacheVars
<1> DEFINE a == AdapterOf[r]
           old == scan[r]
           d == old.doc
           p == [old EXCEPT !.todo = @ \ {d}]
<1>1. MarkdownTyped /\ ScanOK(r, old) /\ old \in ScanStates /\ Scanning(r) /\ old.pc = "unlist"
      /\ old.todo \cap old.seen = {} /\ d \in old.todo /\ old.todo \subseteq Docs
  BY ScanFields DEF BaseInv, CoverInv, UnlistEnds, Scanning, ScanOK
<1>2. UNCHANGED <<disk, saved, open, rooted, gone, released>>
  BY DEF UnlistEnds
<1>3. used' \in Counters /\ used'.edits = used.edits /\ open' \in [Adapters -> BOOLEAN]
  <2>1. Fault("rpc") \/ UNCHANGED used
    BY DEF UnlistEnds, Fails
  <2> QED
    BY <1>1, <1>2, <2>1, FaultEffect DEF MarkdownTyped
<1>4. Answered(d)
  <2>1. Stores(d, {0}) \/ Stores(d, {0, stored[d]})
    BY DEF UnlistEnds
  <2> QED
    BY <1>1, <2>1 DEF Stores, Answered, MarkdownTyped
<1>5. CASE /\ Forget(a, d) /\ Pruning(r, p) /\ UNCHANGED <<sched, host>>
  <2>1. /\ p \in ScanStates /\ p.todo = old.todo \ {d} /\ p.seen = old.seen
        /\ p.queue = old.queue /\ p.large = old.large
    BY <1>1 DEF ScanStates
  <2> HIDE DEF p
  <2>2. KnownOK /\ \E x \in ScanStates :
          /\ ScanGoes(r, x) /\ x.pc \in {"prune", "save"} /\ x.doc = 0
          /\ x.todo = p.todo /\ x.seen = p.seen
    BY <1>1, <1>5, <2>1, PruningEffect DEF ScanOK
  <2>3. ScanFrame(r)
    BY <1>1, <1>2, <1>3, <1>5, <2>2, SchedSame DEF ScanFrame, KnownOK
  <2> QED
    BY <1>1, <1>2, <1>4, <1>5, <2>1, <2>2, <2>3
<1>6. CASE UNCHANGED cacheVars /\ Throws(r) /\ UNCHANGED known
  <2>1. Ends(r) /\ (host' = host \/ (host.phase = "starting"
                                     /\ host' = [phase |-> "on", next |-> 0]))
    BY <1>6 DEF Throws
  <2>2. KnownOK
    BY <1>6, KnownSame
  <2>3. ScanFrame(r)
    BY <1>1, <1>2, <1>3, <2>1, <2>2, EndsEffect DEF ScanFrame, KnownOK
  <2> QED
    BY <1>1, <1>2, <1>4, <1>6, <2>1, <2>3, EndsEffect, IdleFields
<1> QED
  BY <1>5, <1>6 DEF UnlistEnds

(* What saving the snapshot of adapter a does to it and to its cache. *)
SavedFrom(a) ==
  /\ saved' \in [Adapters -> Maps] /\ unsaved' \in [Adapters -> BOOLEAN]
  /\ \A b \in Adapters : saved'[b] = saved[b] \/ (b = a /\ saved'[b] = cache[b])

LEMMA SavesEffect ==
  ASSUME MarkdownTyped, NEW a \in Adapters, Saves(a)
  PROVE  SavedFrom(a) /\ used' \in Counters /\ used'.edits = used.edits
<1>1. \/ UNCHANGED saved \/ saved' = [saved EXCEPT ![a] = cache[a]]
  BY DEF Saves
<1>2. UNCHANGED unsaved \/ unsaved' = [unsaved EXCEPT ![a] = FALSE]
  BY DEF Saves
<1>3. Fault("fs") \/ UNCHANGED used
  BY DEF Saves, Fails
<1>4. cache \in [Adapters -> Maps] /\ saved \in [Adapters -> Maps]
      /\ unsaved \in [Adapters -> BOOLEAN]
  BY DEF MarkdownTyped
<1>5. saved' \in [Adapters -> Maps] /\ unsaved' \in [Adapters -> BOOLEAN]
  BY <1>1, <1>2, <1>4
<1>6. \A b \in Adapters : saved'[b] = saved[b] \/ (b = a /\ saved'[b] = cache[b])
  BY <1>1, <1>4
<1>7. used' \in Counters /\ used'.edits = used.edits
  BY <1>3, FaultEffect
<1> QED
  BY <1>5, <1>6, <1>7 DEF SavedFrom

LEMMA SaveEffect ==
  ASSUME BaseInv, NEW r \in Roots, Save(r)
  PROVE  /\ ScanFrame(r) /\ UNCHANGED <<stored, cache>> /\ SavedFrom(AdapterOf[r])
         /\ ScanGoes(r, IdleScan) /\ scan[r].pc = "save"
<1>1. MarkdownTyped /\ Scanning(r) /\ scan[r].pc = "save" /\ AdapterOf[r] \in Adapters
  BY MarkdownAssumption DEF BaseInv, Save, Scanning
<1>2. UNCHANGED <<disk, stored, cache, open, gone, released, rooted, known, host>>
      /\ Saves(AdapterOf[r]) /\ Ends(r)
  BY DEF Save, rootVars
<1>3. open' \in [Adapters -> BOOLEAN]
  BY <1>1, <1>2 DEF MarkdownTyped
<1>4. ScanFrame(r)
  BY <1>1, <1>2, <1>3, EndsEffect, SavesEffect, KnownSame DEF ScanFrame, KnownOK
<1> QED
  BY <1>1, <1>2, <1>4, EndsEffect, SavesEffect

LEMMA StallEffect ==
  ASSUME BaseInv, NEW r \in Roots, Stall(r)
  PROVE  /\ ScanFrame(r) /\ UNCHANGED <<stored, cacheVars, saved>>
         /\ ScanGoes(r, IdleScan) /\ scan[r].pc = "walk"
<1>1. MarkdownTyped /\ Scanning(r) /\ scan[r].pc = "walk" /\ Goes(r, IdleScan)
      /\ sched' = [sched EXCEPT ![r].again = FALSE]
  BY DEF BaseInv, Stall, Scanning
<1>2. UNCHANGED <<disk, stored, cacheVars, saved, open, gone, released, rooted, known, host>>
      /\ Fault("fs")
  BY DEF Stall, Fails
<1>3. open' \in [Adapters -> BOOLEAN]
  BY <1>1, <1>2 DEF MarkdownTyped
<1> DEFINE x == [sched[r] EXCEPT !.again = FALSE]
<1>4. x \in Scheds /\ x.timer = sched[r].timer /\ sched' = [sched EXCEPT ![r] = x]
  BY <1>1, ZenonT(40) DEF MarkdownTyped, Scheds
<1> HIDE DEF x
<1>5. ScanFrame(r)
  BY <1>1, <1>2, <1>3, <1>4, SchedEffect, FaultEffect, KnownSame DEF ScanFrame, KnownOK
<1>6. ScanGoes(r, IdleScan)
  BY <1>1, IdleFields DEF Goes, ScanGoes, ScanOK, Writing
<1> QED
  BY <1>1, <1>2, <1>5, <1>6

-----------------------------------------------------------------------------
(* The base invariant is kept: types, the host, the roots, the writers.    *)

CacheOK ==
  /\ cache' \in [Adapters -> Maps] /\ unsaved' \in [Adapters -> BOOLEAN]
  /\ \A a \in Adapters : \A d \in DOMAIN cache'[a] : d \in Covers[cache'[a][d].root]

SavedOK ==
  /\ saved' \in [Adapters -> Maps]
  /\ \A a \in Adapters : \A d \in DOMAIN saved'[a] : d \in Covers[saved'[a][d].root]

LEMMA CacheSame ==
  ASSUME BaseInv
  PROVE  (UNCHANGED cacheVars => CacheOK) /\ (UNCHANGED saved => SavedOK)
BY DEF BaseInv, MarkdownTyped, CoverInv, CacheOK, SavedOK, cacheVars

LEMMA CacheKept ==
  ASSUME BaseInv, NEW a \in Adapters, NEW d \in Docs, NEW e \in Entries, Keep(a, d, e),
         d \in Covers[e.root]
  PROVE  CacheOK
<1>1. /\ OnlyEntry(a, d) /\ cache'[a][d] = e
      /\ \A x \in DOMAIN cache'[a] : x \in DOMAIN cache[a] \/ x = d
  BY KeepEffect DEF BaseInv
<1>2. \A b \in Adapters : \A x \in DOMAIN cache[b] : x \in Covers[cache[b][x].root]
  BY DEF BaseInv, CoverInv
<1>3. \A x \in DOMAIN cache[a] : x \in Docs
  BY MapFacts DEF BaseInv, MarkdownTyped
<1>4. \A x \in DOMAIN cache'[a] : x \in Covers[cache'[a][x].root]
  BY <1>1, <1>2, <1>3 DEF OnlyEntry
<1> QED
  BY <1>1, <1>2, <1>4 DEF OnlyEntry, CacheOK

LEMMA CacheForgot ==
  ASSUME BaseInv, NEW a \in Adapters, NEW d, Forget(a, d)
  PROVE  CacheOK
<1>1. OnlyEntry(a, d) /\ DOMAIN cache'[a] = DOMAIN cache[a] \ {d}
  BY ForgetEffect DEF BaseInv
<1>2. \A b \in Adapters : \A x \in DOMAIN cache[b] : x \in Covers[cache[b][x].root]
  BY DEF BaseInv, CoverInv
<1>3. \A x \in DOMAIN cache[a] : x \in Docs
  BY MapFacts DEF BaseInv, MarkdownTyped
<1>4. \A x \in DOMAIN cache'[a] : x \in Covers[cache'[a][x].root]
  BY <1>1, <1>2, <1>3 DEF OnlyEntry
<1> QED
  BY <1>1, <1>2, <1>4 DEF OnlyEntry, CacheOK

LEMMA CacheRefreshed ==
  ASSUME BaseInv, NEW r \in Roots, NEW d \in Docs, d \in Covers[r], Refreshed(r, d)
  PROVE  CacheOK
<1>1. AdapterOf[r] \in Adapters
  BY MarkdownAssumption
<1> QED
  BY <1>1, CacheSame, CacheKept DEF Refreshed

LEMMA SavedFromOK ==
  ASSUME BaseInv, NEW a \in Adapters, SavedFrom(a)
  PROVE  SavedOK
BY DEF BaseInv, CoverInv, SavedFrom, SavedOK

LEMMA StoredOK ==
  ASSUME BaseInv, NEW d
  PROVE  (UNCHANGED stored => stored' \in [Docs -> Nat])
         /\ (Answered(d) => stored' \in [Docs -> Nat])
BY DEF BaseInv, MarkdownTyped, Answered

LEMMA FrameKeepsHost ==
  ASSUME BaseInv, NEW r \in Roots, ScanFrame(r), NEW s, ScanGoes(r, s)
  PROVE  HostInv'
<1>1. MarkdownTyped /\ HostInv
  BY DEF BaseInv
<1>2. host'.phase = "stopping" => host' = host
  BY DEF ScanFrame
<1>3. host'.phase = "starting" => host' = host
  BY DEF ScanFrame
<1>4. \A a : Live(a) => Live(a)'
  BY DEF ScanFrame, Live
<1>5. \A a : Stopping(a)' => Stopping(a)
  BY <1>2 DEF Stopping
<1>6. \A q \in Roots : Scanning(q)' => Scanning(q)
  BY <1>1 DEF ScanFrame, ScanGoes, Scanning, MarkdownTyped
<1>7. rooted' = rooted /\ \A q \in Roots : sched'[q].timer =>
        sched[q].timer \/ (q = r /\ ~ Stopping(AdapterOf[q]))
  BY DEF ScanFrame
<1>8. Scanning(r)
  BY DEF ScanFrame
<1>9. \A q \in rooted : Live(AdapterOf[q])
  BY <1>1 DEF HostInv
<1>10. \A q \in Roots : sched'[q].timer => q \in rooted /\ ~ Stopping(AdapterOf[q])'
  BY <1>1, <1>5, <1>7, <1>8 DEF HostInv
<1> QED
  BY <1>1, <1>2, <1>3, <1>4, <1>6, <1>7, <1>9, <1>10 DEF HostInv

LEMMA FrameKeepsWriters ==
  ASSUME BaseInv, NEW r \in Roots, NEW s, ScanGoes(r, s)
  PROVE  OneWriterPerDocument'
<1>1. OneWriterPerDocument /\ scan \in [Roots -> ScanStates]
  BY DEF BaseInv, MarkdownTyped
<1>2. scan'[r] = s /\ \A q \in Roots \ {r} : scan'[q] = scan[q]
  BY <1>1 DEF ScanGoes
<1>3. s.doc \in {0, scan[r].doc} \/ Free(s.doc)
  BY DEF ScanGoes
<1>4. \A q \in Roots \ {r} : s.doc # 0 => s.doc # scan[q].doc
  BY <1>1, <1>3 DEF Free, OneWriterPerDocument
<1> QED
  BY <1>1, <1>2, <1>4 DEF OneWriterPerDocument

LEMMA FrameKeepsBase ==
  ASSUME BaseInv, NEW r \in Roots, ScanFrame(r), NEW s, ScanGoes(r, s), CacheOK, SavedOK,
         stored' \in [Docs -> Nat]
  PROVE  BaseInv'
<1>1. MarkdownTyped /\ CoverInv
  BY DEF BaseInv
<1>2. scan' = [scan EXCEPT ![r] = s] /\ ScanOK(r, s) /\ s \in ScanStates
  BY DEF ScanGoes, ScanOK
<1>3. MarkdownTyped'
  <2>1. scan' \in [Roots -> ScanStates]
    BY <1>1, <1>2 DEF MarkdownTyped
  <2>2. host' \in Hosts
    BY <1>1 DEF MarkdownTyped, ScanFrame, Hosts
  <2>3. UNCHANGED <<disk, gone, rooted>> /\ sched' \in [Roots -> Scheds]
        /\ known' \in [Roots -> SUBSET Docs] /\ used' \in Counters
        /\ open' \in [Adapters -> BOOLEAN]
    BY DEF ScanFrame
  <2> QED
    BY <1>1, <2>1, <2>2, <2>3 DEF MarkdownTyped, CacheOK, SavedOK, Scheds, Hosts, Counters
<1>4. CoverInv'
  <2>1. \A q \in Roots : ScanOK(q, scan[q])'
    BY <1>1, <1>2 DEF CoverInv, MarkdownTyped, ScanOK
  <2>2. \A q \in Roots : known'[q] \subseteq Covers[q]
    BY DEF ScanFrame
  <2> QED
    BY <2>1, <2>2 DEF CoverInv, CacheOK, SavedOK
<1> QED
  BY <1>3, <1>4, FrameKeepsHost, FrameKeepsWriters DEF BaseInv

(* A scan begins with every file of its root to visit and none seen. *)
LEMMA BeginEffect ==
  ASSUME BaseInv, NEW r \in Roots, Begin(r)
  PROVE  /\ UNCHANGED <<disk, stored, cacheVars, saved, released>>
         /\ KnownOK /\ rooted' = rooted \cup {r} /\ open' \in [Adapters -> BOOLEAN]
         /\ gone' = [gone EXCEPT ![r] = {d \in Docs : ~ Accepts(AdapterOf[r], d, disk[d].v)}]
         /\ \E s \in ScanStates :
              /\ scan' = [scan EXCEPT ![r] = s] /\ ScanOK(r, s) /\ s.pc = "walk" /\ s.doc = 0
              /\ s.todo = Covers[r] /\ s.seen = {} /\ s.large = {} /\ ~ s.partial
<1> DEFINE a == AdapterOf[r]
           s == [IdleScan EXCEPT !.pc = "walk", !.todo = Covers[r]]
           K == {d \in DOMAIN cache[a] : cache[a][d].root = r}
<1>1. MarkdownTyped /\ Covers[r] \subseteq Docs /\ a \in Adapters
  BY MarkdownAssumption DEF BaseInv
<1>2. /\ s \in ScanStates /\ s.pc = "walk" /\ s.doc = 0 /\ s.todo = Covers[r] /\ s.seen = {}
      /\ s.large = {} /\ ~ s.partial /\ s.queue = << >>
  BY <1>1, IdleFields DEF ScanStates
<1>3. scan' = [scan EXCEPT ![r] = s]
  BY DEF Begin
<1> HIDE DEF s
<1>4. ScanOK(r, s)
  BY <1>2 DEF ScanOK, Writing
<1>5. KnownOK
  <2>1. cache[a] \in Maps /\ \A d \in DOMAIN cache[a] : d \in Covers[cache[a][d].root]
    BY <1>1 DEF BaseInv, CoverInv, MarkdownTyped
  <2>2. K \subseteq Docs /\ K \subseteq Covers[r]
    BY <2>1, MapFacts
  <2>3. UNCHANGED known \/ known' = [known EXCEPT ![r] = K]
    BY DEF Begin
  <2> HIDE DEF K
  <2> QED
    BY <2>2, <2>3, KnownSame, KnownSet
<1>6. open' \in [Adapters -> BOOLEAN]
  BY <1>1 DEF Begin, MarkdownTyped
<1>7. /\ UNCHANGED <<disk, stored, cacheVars, saved, released>> /\ rooted' = rooted \cup {r}
      /\ gone' = [gone EXCEPT ![r] = {d \in Docs : ~ Accepts(a, d, disk[d].v)}]
  BY DEF Begin
<1> QED
  BY <1>2, <1>3, <1>4, <1>5, <1>6, <1>7

LEMMA BeginKeepsBase ==
  ASSUME BaseInv, NEW r \in Roots, Begin(r), HostInv', host' \in Hosts,
         sched' \in [Roots -> Scheds], used' \in Counters
  PROVE  BaseInv'
<1>1. MarkdownTyped /\ CoverInv /\ OneWriterPerDocument
  BY DEF BaseInv
<1>2. PICK s \in ScanStates : /\ scan' = [scan EXCEPT ![r] = s] /\ ScanOK(r, s) /\ s.doc = 0
                              /\ s.large = {}
  BY BeginEffect
<1>3. ScanGoes(r, s)
  BY <1>2 DEF ScanGoes
<1>4. CacheOK /\ SavedOK /\ KnownOK
  BY BeginEffect, CacheSame
<1>5. MarkdownTyped'
  <2>1. scan' \in [Roots -> ScanStates]
    BY <1>1, <1>2 DEF MarkdownTyped
  <2>2. UNCHANGED <<disk, stored>> /\ rooted' \subseteq Roots /\ open' \in [Adapters -> BOOLEAN]
    BY <1>1, BeginEffect DEF MarkdownTyped
  <2>3. gone' \in [Roots -> SUBSET Docs]
    <3> DEFINE G == {d \in Docs : ~ Accepts(AdapterOf[r], d, disk[d].v)}
    <3>1. G \subseteq Docs /\ gone' = [gone EXCEPT ![r] = G]
      BY BeginEffect
    <3> HIDE DEF G
    <3> QED
      BY <1>1, <3>1 DEF MarkdownTyped
  <2> QED
    BY <1>1, <1>4, <2>1, <2>2, <2>3
       DEF MarkdownTyped, CacheOK, SavedOK, KnownOK, Scheds, Hosts, Counters
<1>6. CoverInv'
  <2>1. \A q \in Roots : ScanOK(q, scan[q])'
    BY <1>1, <1>2 DEF CoverInv, MarkdownTyped, ScanOK
  <2> QED
    BY <1>4, <2>1 DEF CoverInv, CacheOK, SavedOK, KnownOK
<1> QED
  BY <1>3, <1>5, <1>6, FrameKeepsWriters DEF BaseInv

LEMMA TimerKeepsBase ==
  ASSUME BaseInv, NEW r \in Roots, TimerFires(r)
  PROVE  BaseInv'
<1>1. MarkdownTyped /\ HostInv
  BY DEF BaseInv
<1>2. Begin(r) /\ host' = host /\ used' = used /\ sched[r].timer
      /\ sched' = [sched EXCEPT ![r].timer = FALSE]
  BY DEF TimerFires
<1> DEFINE x == [sched[r] EXCEPT !.timer = FALSE]
<1>3. x \in Scheds /\ ~ x.timer /\ sched' = [sched EXCEPT ![r] = x]
  BY <1>1, <1>2 DEF MarkdownTyped, Scheds
<1> HIDE DEF x
<1>4. sched' \in [Roots -> Scheds] /\ \A q \in Roots : sched'[q].timer => sched[q].timer
  BY <1>1, <1>3 DEF MarkdownTyped, Scheds
<1>5. r \in rooted
  BY <1>1, <1>2 DEF HostInv
<1>6. rooted' = rooted /\ \A q \in Roots : Scanning(q)' => Scanning(q) \/ q = r
  <2>1. rooted' = rooted
    <3>1. rooted' = rooted \cup {r}
      BY <1>2, BeginEffect
    <3> QED
      BY <1>5, <3>1
  <2>2. \A q \in Roots : q # r => scan'[q] = scan[q]
    BY <1>1, <1>2, BeginEffect DEF MarkdownTyped
  <2> QED
    BY <2>1, <2>2 DEF Scanning
<1>7. HostInv'
  BY <1>1, <1>2, <1>4, <1>5, <1>6 DEF HostInv, Live, Stopping
<1> QED
  BY <1>1, <1>2, <1>4, <1>7, BeginKeepsBase DEF MarkdownTyped, Hosts, Counters

LEMMA StartNextKeepsBase ==
  ASSUME BaseInv, StartNext
  PROVE  BaseInv'
<1>1. MarkdownTyped /\ HostInv /\ CoverInv /\ OneWriterPerDocument /\ host.phase = "starting"
  BY DEF BaseInv, StartNext
<1>2. CASE host.next > NRoots
  <2>1. /\ UNCHANGED <<disk, stored, cacheVars, saved, open, scan, sched, rootVars, gone, used>>
        /\ host' = [phase |-> "on", next |-> 0]
    BY <1>2 DEF StartNext, historyVars
  <2>2. MarkdownTyped'
    BY <1>1, <2>1 DEF MarkdownTyped, cacheVars, rootVars
  <2>3. HostInv'
    BY <1>1, <2>1 DEF HostInv, Live, Stopping, Scanning, rootVars
  <2>4. CoverInv' /\ OneWriterPerDocument'
    BY <1>1, <2>1 DEF CoverInv, ScanOK, OneWriterPerDocument, cacheVars, rootVars
  <2> QED
    BY <2>2, <2>3, <2>4 DEF BaseInv
<1>3. CASE ~ (host.next > NRoots)
  <2> DEFINE r == host.next
  <2>1. Begin(r) /\ host' = [host EXCEPT !.next = @ + 1] /\ UNCHANGED <<sched, used>>
    BY <1>3 DEF StartNext
  <2>2. r \in Roots /\ r \in Nat /\ host' \in Hosts /\ host'.phase = "starting" /\ host'.next # 0
    <3>1. host.next \in Nat /\ host.next # 0 /\ host \in Hosts /\ NRoots \in Nat
      BY <1>1, MarkdownAssumption DEF MarkdownTyped, HostInv, Hosts
    <3>2. r \in Roots
      BY <1>3, <3>1 DEF Roots
    <3>3. host' \in Hosts /\ host'.phase = host.phase /\ host'.next = host.next + 1
      BY <2>1, <3>1 DEF Hosts
    <3> QED
      BY <1>1, <3>1, <3>2, <3>3
  <2> HIDE DEF r
  <2>3. rooted' = rooted \cup {r} /\ \A q \in Roots : Scanning(q)' => Scanning(q) \/ q = r
    <3>1. rooted' = rooted \cup {r}
      BY <2>1, <2>2, BeginEffect
    <3>2. \A q \in Roots : q # r => scan'[q] = scan[q]
      BY <1>1, <2>1, <2>2, BeginEffect DEF MarkdownTyped
    <3> QED
      BY <3>1, <3>2 DEF Scanning
  <2>4. HostInv'
    BY <1>1, <2>1, <2>2, <2>3 DEF HostInv, Live, Stopping
  <2> QED
    BY <1>1, <2>1, <2>2, <2>4, BeginKeepsBase DEF MarkdownTyped, Hosts, Counters, Scheds
<1> QED
  BY <1>2, <1>3

(* An edit gives a file a version never seen, unless it goes back to one.  *)
LEMMA EditEffect ==
  ASSUME BaseInv, NEW d \in Docs, Edit(d)
  PROVE  /\ UNCHANGED <<stored, cacheVars, saved, open, scan, sched, rootVars, host, released>>
         /\ used' \in Counters /\ used'.edits = used.edits + 1
         /\ disk' \in [Docs -> [v : Nat, m : Nat]]
         /\ \A x \in Docs \ {d} : disk'[x] = disk[x]
         /\ ~ MayRevert => disk'[d].v \in {0, used.edits + 2}
         /\ gone' \in [Roots -> SUBSET Docs]
         /\ \A r \in Roots : gone[r] \subseteq gone'[r]
         /\ \A r \in Roots :
              Scanning(r) /\ ~ Accepts(AdapterOf[r], d, disk'[d].v) => d \in gone'[r]
<1>1. MarkdownTyped
  BY DEF BaseInv
<1>2. used' \in Counters /\ used'.edits = used.edits + 1 /\ used.edits \in Nat
  BY <1>1 DEF Edit, Spend, MarkdownTyped, Counters
<1> DEFINE n == used.edits + 1
           V == (IF MayRevert THEN 0..n ELSE {0}) \cup {n + 1}
<1>3. PICK v \in V : disk' = [disk EXCEPT ![d] = [v |-> v, m |-> n]]
  BY DEF Edit
<1>4. n \in Nat /\ v \in Nat /\ (~ MayRevert => v \in {0, used.edits + 2})
  BY <1>2
<1> DEFINE x == [v |-> v, m |-> n]
<1>5. x \in [v : Nat, m : Nat] /\ x.v = v
  BY <1>4
<1> HIDE DEF V, n
<1>6. disk' = [disk EXCEPT ![d] = x]
  BY <1>3
<1> HIDE DEF x
<1>7. disk' \in [Docs -> [v : Nat, m : Nat]] /\ disk'[d] = x
      /\ \A y \in Docs \ {d} : disk'[y] = disk[y]
  BY <1>1, <1>5, <1>6 DEF MarkdownTyped
<1> DEFINE G(r) == IF Scanning(r) /\ ~ Accepts(AdapterOf[r], d, disk'[d].v)
                     THEN gone[r] \cup {d} ELSE gone[r]
<1>8. gone' = [r \in Roots |-> G(r)]
  BY DEF Edit
<1>9. \A r \in Roots : G(r) \subseteq Docs /\ gone[r] \subseteq G(r)
        /\ (Scanning(r) /\ ~ Accepts(AdapterOf[r], d, disk'[d].v) => d \in G(r))
  BY <1>1 DEF MarkdownTyped
<1> HIDE DEF G
<1>10. UNCHANGED <<stored, cacheVars, saved, open, scan, sched, rootVars, host, released>>
  BY DEF Edit
<1> QED
  BY <1>2, <1>4, <1>5, <1>7, <1>8, <1>9, <1>10

LEMMA EditKeepsBase ==
  ASSUME BaseInv, NEW d \in Docs, Edit(d)
  PROVE  BaseInv'
<1>1. MarkdownTyped /\ HostInv /\ CoverInv /\ OneWriterPerDocument
  BY DEF BaseInv
<1>2. /\ UNCHANGED <<stored, cache, unsaved, saved, open, scan, sched, known, rooted, host>>
      /\ used' \in Counters /\ disk' \in [Docs -> [v : Nat, m : Nat]]
      /\ gone' \in [Roots -> SUBSET Docs]
  BY EditEffect DEF cacheVars, rootVars
<1>3. MarkdownTyped'
  BY <1>1, <1>2 DEF MarkdownTyped, Counters
<1>4. HostInv' /\ OneWriterPerDocument'
  BY <1>1, <1>2 DEF HostInv, Live, Stopping, Scanning, OneWriterPerDocument
<1>5. CoverInv'
  BY <1>1, <1>2 DEF CoverInv, ScanOK
<1> QED
  BY <1>3, <1>4, <1>5 DEF BaseInv

(* What a watcher reports only sets a flag or a timer. *)
LEMMA WatcherEffect ==
  ASSUME BaseInv, NEW r \in Roots, WatcherFires(r)
  PROVE  /\ UNCHANGED <<disk, stored, cacheVars, saved, open, scan, rootVars, host, gone,
                        released, used>>
         /\ r \in rooted /\ ~ Stopping(AdapterOf[r])
         /\ sched' \in [Roots -> Scheds]
         /\ \A q \in Roots : sched'[q].timer => sched[q].timer \/ q = r
<1>1. MarkdownTyped /\ sched[r] \in Scheds
  BY DEF BaseInv, MarkdownTyped, Scheds
<1> DEFINE s == [sched[r] EXCEPT !.resume = 0, !.timer = FALSE]
           x == IF r \in quarantined THEN s ELSE Rescheduled(r, s)
<1>2. sched' = [sched EXCEPT ![r] = x]
  BY DEF WatcherFires
<1>3. s \in Scheds
  BY <1>1 DEF Scheds
<1> HIDE DEF s
<1>4. x \in Scheds
  BY <1>3 DEF Scheds, Rescheduled
<1> HIDE DEF x
<1>5. sched' \in [Roots -> Scheds] /\ \A q \in Roots : sched'[q].timer => sched[q].timer \/ q = r
  BY <1>1, <1>2, <1>4 DEF MarkdownTyped, Scheds
<1> QED
  BY <1>5 DEF WatcherFires, Watched

LEMMA WatcherKeepsBase ==
  ASSUME BaseInv, NEW r \in Roots, WatcherFires(r)
  PROVE  BaseInv'
<1>1. MarkdownTyped /\ HostInv /\ CoverInv /\ OneWriterPerDocument
  BY DEF BaseInv
<1>2. /\ UNCHANGED <<disk, stored, cache, unsaved, saved, open, scan, known, rooted, host,
                     gone, used>>
      /\ sched' \in [Roots -> Scheds] /\ r \in rooted /\ ~ Stopping(AdapterOf[r])
      /\ \A q \in Roots : sched'[q].timer => sched[q].timer \/ q = r
  BY WatcherEffect DEF cacheVars, rootVars
<1>3. MarkdownTyped'
  BY <1>1, <1>2 DEF MarkdownTyped, Scheds
<1>4. HostInv' /\ OneWriterPerDocument'
  BY <1>1, <1>2 DEF HostInv, Live, Stopping, Scanning, OneWriterPerDocument
<1>5. CoverInv'
  BY <1>1, <1>2 DEF CoverInv, ScanOK
<1> QED
  BY <1>3, <1>4, <1>5 DEF BaseInv

LEMMA StartKeepsBase ==
  ASSUME BaseInv, Start
  PROVE  BaseInv'
<1>1. MarkdownTyped /\ HostInv /\ CoverInv /\ OneWriterPerDocument /\ host.phase = "off"
  BY DEF BaseInv, Start
<1>2. /\ UNCHANGED <<disk, stored, unsaved, saved, open, scan, sched, known, rooted, gone>>
      /\ host' = [phase |-> "starting", next |-> 1] /\ cache' = saved
  BY DEF Start, rootVars, historyVars
<1>3. used' \in Counters
  BY <1>1 DEF Start, Spend, MarkdownTyped, Counters
<1>4. MarkdownTyped'
  BY <1>1, <1>2, <1>3 DEF MarkdownTyped, Counters
<1>5. HostInv' /\ OneWriterPerDocument'
  BY <1>1, <1>2 DEF HostInv, Live, Stopping, Scanning, OneWriterPerDocument
<1>6. CoverInv'
  BY <1>1, <1>2 DEF CoverInv, ScanOK
<1> QED
  BY <1>4, <1>5, <1>6 DEF BaseInv

LEMMA TimerOff ==
  ASSUME NEW x \in Scheds
  PROVE  LET s == [x EXCEPT !.timer = FALSE] IN s \in Scheds /\ ~ s.timer
BY DEF Scheds

LEMMA StopKeepsBase ==
  ASSUME BaseInv, Stop
  PROVE  BaseInv'
<1>1. MarkdownTyped /\ HostInv /\ CoverInv /\ OneWriterPerDocument /\ host.phase = "on"
  BY DEF BaseInv, Stop
<1>2. /\ UNCHANGED <<disk, stored, cache, unsaved, saved, open, scan, known, rooted, gone, used>>
      /\ host' = [phase |-> "stopping", next |-> 1]
  BY DEF Stop, cacheVars, rootVars, historyVars
<1> DEFINE S(r) == IF AdapterOf[r] = 1 THEN [sched[r] EXCEPT !.timer = FALSE] ELSE sched[r]
<1>3. \A r \in Roots : S(r) \in Scheds /\ (S(r).timer => sched[r].timer /\ AdapterOf[r] # 1)
  BY <1>1, TimerOff DEF MarkdownTyped, Scheds
<1>4. sched' = [r \in Roots |-> S(r)]
  BY DEF Stop
<1> HIDE DEF S
<1>5. /\ sched' \in [Roots -> Scheds]
      /\ \A r \in Roots : sched'[r].timer => sched[r].timer /\ AdapterOf[r] # 1
  BY <1>3, <1>4
<1>6. MarkdownTyped'
  BY <1>1, <1>2, <1>5 DEF MarkdownTyped, Scheds
<1>7. HostInv' /\ OneWriterPerDocument'
  <2>1. 1 \in 1..NAdapters /\ AdapterOf \in [Roots -> Adapters]
    BY MarkdownAssumption
  <2>2. \A a \in Adapters : Live(a)'
    BY <1>2 DEF Live, Adapters
  <2>3. \A r \in Roots : AdapterOf[r] # 1 => ~ Stopping(AdapterOf[r])'
    BY <1>2, <2>1 DEF Stopping, Adapters
  <2>4. rooted \subseteq Roots
    BY <1>1 DEF MarkdownTyped
  <2> QED
    BY <1>1, <1>2, <1>5, <2>1, <2>2, <2>3, <2>4
       DEF HostInv, Scanning, OneWriterPerDocument
<1>8. CoverInv'
  BY <1>1, <1>2 DEF CoverInv, ScanOK
<1> QED
  BY <1>6, <1>7, <1>8 DEF BaseInv

(* An adapter is stopped: its cache goes, and another one's turn comes. *)
LEMMA StopEndsEffect ==
  ASSUME BaseInv, StopEnds
  PROVE  LET a == host.next
         IN  /\ host.phase = "stopping" /\ a \in Adapters
             /\ UNCHANGED <<disk, stored, open, scan, gone>>
             /\ \A r \in Roots : AdapterOf[r] = a => ~ Scanning(r)
             /\ SavedFrom(a) /\ cache' = [cache EXCEPT ![a] = Nothing]
             /\ used' \in Counters /\ used'.edits = used.edits
             /\ rooted' = {r \in rooted : AdapterOf[r] # a} /\ KnownOK
             /\ released' = (released \/ \E r \in Roots : AdapterOf[r] # a /\ Scanning(r))
             /\ host' = IF a = NAdapters THEN [phase |-> "off", next |-> 0]
                        ELSE [phase |-> "stopping", next |-> a + 1]
             /\ sched' \in [Roots -> Scheds]
             /\ \A r \in Roots :
                  sched'[r].timer => sched[r].timer /\ AdapterOf[r] \notin {a, a + 1}
<1> DEFINE a == host.next
<1>1. MarkdownTyped /\ HostInv /\ CoverInv /\ host.phase = "stopping"
  BY DEF BaseInv, StopEnds
<1>2. a \in Adapters /\ a \in Nat
  BY <1>1, MarkdownAssumption DEF HostInv, Adapters
<1>3. SavedFrom(a) /\ used' \in Counters /\ used'.edits = used.edits
  BY <1>1, <1>2, SavesEffect DEF StopEnds
<1>4. /\ UNCHANGED <<disk, stored, open, scan, gone>> /\ cache' = [cache EXCEPT ![a] = Nothing]
      /\ \A r \in Roots : AdapterOf[r] = a => ~ Scanning(r)
  BY DEF StopEnds, RootsOf
<1>5. rooted' = {r \in rooted : AdapterOf[r] # a}
  BY <1>1 DEF StopEnds, RootsOf, MarkdownTyped
<1>6. released' = (released \/ \E r \in Roots : AdapterOf[r] # a /\ Scanning(r))
  BY DEF StopEnds, RootsOf
<1>7. host' = IF a = NAdapters THEN [phase |-> "off", next |-> 0]
              ELSE [phase |-> "stopping", next |-> a + 1]
  BY <1>1 DEF StopEnds, MarkdownTyped
<1>8. KnownOK
  BY <1>1 DEF StopEnds, Silenced, KnownOK, CoverInv, MarkdownTyped
<1> DEFINE S(r) == IF AdapterOf[r] = a THEN IdleSched
                   ELSE IF AdapterOf[r] = a + 1 THEN [sched[r] EXCEPT !.timer = FALSE]
                   ELSE sched[r]
<1>9. sched' = [r \in Roots |-> S(r)]
  BY DEF StopEnds
<1>10. \A r \in Roots :
         S(r) \in Scheds /\ (S(r).timer => sched[r].timer /\ AdapterOf[r] \notin {a, a + 1})
  <2>1. IdleSched \in Scheds /\ ~ IdleSched.timer
    BY DEF IdleSched, Scheds
  <2>2. \A r \in Roots : sched[r] \in Scheds
    BY <1>1 DEF MarkdownTyped, Scheds
  <2> QED
    BY <2>1, <2>2, TimerOff
<1> HIDE DEF S
<1> QED
  BY <1>1, <1>2, <1>3, <1>4, <1>5, <1>6, <1>7, <1>8, <1>9, <1>10

LEMMA StopEndsKeepsBase ==
  ASSUME BaseInv, StopEnds
  PROVE  BaseInv'
<1> DEFINE a == host.next
<1>1. MarkdownTyped /\ HostInv /\ CoverInv /\ OneWriterPerDocument
  BY DEF BaseInv
<1>2. /\ host.phase = "stopping" /\ a \in Adapters
      /\ UNCHANGED <<disk, stored, open, scan, gone>>
      /\ \A r \in Roots : AdapterOf[r] = a => ~ Scanning(r)
      /\ SavedFrom(a) /\ cache' = [cache EXCEPT ![a] = Nothing] /\ used' \in Counters
      /\ rooted' = {r \in rooted : AdapterOf[r] # a} /\ KnownOK
      /\ host' = IF a = NAdapters THEN [phase |-> "off", next |-> 0]
                 ELSE [phase |-> "stopping", next |-> a + 1]
      /\ sched' \in [Roots -> Scheds]
      /\ \A r \in Roots : sched'[r].timer => sched[r].timer /\ AdapterOf[r] \notin {a, a + 1}
  BY StopEndsEffect
<1>3. a \in Nat /\ a \in 1..NAdapters /\ NAdapters \in Nat /\ AdapterOf \in [Roots -> 1..NAdapters]
  BY <1>2, MarkdownAssumption DEF Adapters
<1>4. CacheOK
  <2>1. cache' \in [Adapters -> Maps] /\ cache'[a] = Nothing
        /\ \A b \in Adapters : b # a => cache'[b] = cache[b]
    BY <1>1, <1>2, NothingIsMap DEF MarkdownTyped
  <2> QED
    BY <1>1, <1>2, <2>1, NothingIsMap DEF CacheOK, CoverInv, SavedFrom
<1>5. SavedOK
  BY <1>2, SavedFromOK
<1>6. MarkdownTyped'
  <2>1. host' \in Hosts
    BY <1>2, <1>3 DEF Hosts
  <2>2. rooted' \subseteq Roots
    BY <1>1, <1>2 DEF MarkdownTyped
  <2> QED
    BY <1>1, <1>2, <1>4, <1>5, <2>1, <2>2
       DEF MarkdownTyped, CacheOK, SavedOK, KnownOK, Scheds, Hosts, Counters
<1>7. HostInv'
  <2>1. \A r \in Roots : Scanning(r) => r \in rooted /\ AdapterOf[r] >= a /\ AdapterOf[r] # a
    BY <1>1, <1>2, <1>3 DEF HostInv, Live
  <2> DEFINE A(r) == AdapterOf[r]
  <2>6. \A r \in Roots : A(r) \in Nat
    BY <1>3
  <2>7. \A r \in rooted : r \in Roots /\ ~ (A(r) < a)
    BY <1>1, <1>2 DEF HostInv, Live, MarkdownTyped
  <2>8. \A r \in Roots : sched'[r].timer => r \in rooted /\ ~ (A(r) <= a) /\ A(r) # a + 1
    BY <1>1, <1>2 DEF HostInv, Stopping
  <2> HIDE DEF A
  <2>2. \A r \in rooted' : r \in Roots /\ AdapterOf[r] > a
    <3>1. \A r \in rooted' : r \in rooted /\ A(r) # a
      BY <1>2 DEF A
    <3>2. \A r \in rooted' : A(r) > a
      BY <2>6, <2>7, <3>1, <1>3
    <3> QED
      BY <2>7, <3>1, <3>2 DEF A
  <2>3. \A r \in Roots : sched'[r].timer => r \in rooted /\ AdapterOf[r] > a + 1
    <3>1. \A r \in Roots : sched'[r].timer => r \in rooted /\ A(r) > a + 1
      BY <2>6, <2>8, <1>3
    <3> QED
      BY <3>1 DEF A
  <2>4. CASE a = NAdapters
    <3>1. \A r \in Roots : ~ (AdapterOf[r] > a)
      BY <1>3, <2>4
    <3>2. host'.phase = "off" /\ scan' = scan
      BY <1>2, <2>4
    <3>3. rooted' = {} /\ (\A r \in Roots : ~ Scanning(r)) /\ \A r \in Roots : ~ sched'[r].timer
      BY <1>3, <2>1, <2>2, <2>3, <2>4, <3>1
    <3> QED
      BY <3>2, <3>3 DEF HostInv, Scanning
  <2>5. CASE a # NAdapters
    <3>1. host'.phase = "stopping" /\ host'.next = a + 1 /\ a + 1 \in 1..NAdapters /\ scan' = scan
      BY <1>2, <1>3, <2>5
    <3>2. \A r \in rooted' : Live(AdapterOf[r])'
      BY <1>3, <2>2, <3>1 DEF Live
    <3>3. \A r \in Roots : Scanning(r)' => r \in rooted'
      BY <1>2, <2>1, <3>1 DEF Scanning
    <3>4. \A r \in Roots : sched'[r].timer => r \in rooted' /\ ~ Stopping(AdapterOf[r])'
      BY <1>2, <1>3, <2>3, <3>1 DEF Stopping
    <3> QED
      BY <3>1, <3>2, <3>3, <3>4 DEF HostInv
  <2> QED
    BY <2>4, <2>5
<1>8. CoverInv' /\ OneWriterPerDocument'
  BY <1>1, <1>2, <1>4, <1>5
     DEF CoverInv, ScanOK, CacheOK, SavedOK, KnownOK, OneWriterPerDocument
<1> QED
  BY <1>6, <1>7, <1>8 DEF BaseInv

(* Nothing of a process that dies is left but its snapshots. *)
Dead ==
  /\ scan = [r \in Roots |-> IdleScan] /\ sched = [r \in Roots |-> IdleSched]
  /\ known = [r \in Roots |-> {}] /\ rooted = {} /\ host = [phase |-> "off", next |-> 0]
  /\ cache = [a \in Adapters |-> Nothing] /\ unsaved = [a \in Adapters |-> FALSE]

NothingLeft ==
  /\ HostInv /\ OneWriterPerDocument /\ \A r \in Roots : ~ Scanning(r)
  /\ scan \in [Roots -> ScanStates] /\ sched \in [Roots -> Scheds]
  /\ known \in [Roots -> SUBSET Docs] /\ rooted \subseteq Roots /\ host \in Hosts
  /\ cache \in [Adapters -> Maps] /\ unsaved \in [Adapters -> BOOLEAN]
  /\ \A r \in Roots : ScanOK(r, scan[r]) /\ known[r] \subseteq Covers[r]
  /\ \A a \in Adapters : DOMAIN cache[a] = {}

LEMMA DeathLeavesNothing == Dead => NothingLeft
<1> SUFFICES ASSUME Dead PROVE NothingLeft
  OBVIOUS
<1> USE DEF Dead
<1>1. IdleSched \in Scheds /\ ~ IdleSched.timer
  BY DEF IdleSched, Scheds
<1>2. \A r \in Roots : scan[r] = IdleScan /\ ~ Scanning(r) /\ ScanOK(r, scan[r])
  BY IdleFields DEF Scanning, ScanOK, Writing
<1>3. HostInv
  BY <1>1, <1>2 DEF HostInv
<1>4. OneWriterPerDocument
  BY <1>2, IdleFields DEF OneWriterPerDocument
<1> QED
  BY <1>1, <1>2, <1>3, <1>4, IdleFields, NothingIsMap DEF Hosts, NothingLeft

LEMMA CrashKeepsBase ==
  ASSUME BaseInv, Crash
  PROVE  BaseInv' /\ \A r \in Roots : ~ Scanning(r)'
<1>1. MarkdownTyped /\ CoverInv
  BY DEF BaseInv
<1>2. /\ UNCHANGED <<disk, saved, open, gone, used>>
      /\ stored' \in [Docs -> 0..Torn]
  BY DEF Crash
<1>3. NothingLeft'
  <2>1. Dead'
    BY DEF Crash, Dead
  <2> QED
    BY <2>1, DeathLeavesNothing, PTL
<1>4. stored' \in [Docs -> Nat]
  BY <1>2, TornIsNatural
<1>5. MarkdownTyped'
  BY <1>1, <1>2, <1>3, <1>4 DEF MarkdownTyped, Scheds, Hosts, NothingLeft
<1>6. CoverInv'
  BY <1>1, <1>2, <1>3 DEF CoverInv, ScanOK, NothingLeft
<1> QED
  BY <1>3, <1>5, <1>6 DEF BaseInv, NothingLeft

LEMMA InitBase ==
  ASSUME Init
  PROVE  BaseInv /\ \A r \in Roots : ~ Scanning(r)
<1>1. NothingLeft
  <2>1. Dead
    BY DEF Init, Dead
  <2> QED
    BY <2>1, DeathLeavesNothing
<1>2. MarkdownTyped
  <2>1. disk \in [Docs -> [v : Nat, m : Nat]]
    BY DEF Init
  <2>2. saved = cache
    BY DEF Init
  <2>3. stored \in [Docs -> Nat] /\ open \in [Adapters -> BOOLEAN]
        /\ gone \in [Roots -> SUBSET Docs] /\ used \in Counters
    BY DEF Init, Counters
  <2> QED
    BY <1>1, <2>1, <2>2, <2>3 DEF MarkdownTyped, Scheds, Hosts, Counters, NothingLeft
<1>3. CoverInv
  BY <1>1 DEF CoverInv, Init, NothingLeft
<1> QED
  BY <1>1, <1>2, <1>3 DEF BaseInv, NothingLeft

(* Every step of a scan keeps the base invariant. *)
LEMMA ScanKeepsBase ==
  ASSUME BaseInv, NEW r \in Roots, ScanStep(r) \/ Stall(r)
  PROVE  BaseInv'
<1> DEFINE a == AdapterOf[r]
           d == scan[r].doc
<1>1. MarkdownTyped /\ CoverInv /\ ScanOK(r, scan[r]) /\ a \in Adapters
      /\ scan[r].todo \subseteq Docs /\ scan[r].seen \subseteq Docs
      /\ scan[r].seen \subseteq Covers[r]
  BY MarkdownAssumption, ScanFields DEF BaseInv, CoverInv, ScanOK
<1>3. CASE \E x \in Docs : Walk(r, x)
  BY <1>3, WalkEffect, CacheSame, StoredOK, FrameKeepsBase
<1>4. CASE WalkEnds(r)
  BY <1>4, WalkEndsEffect, CacheSame, StoredOK, FrameKeepsBase
<1>5. CASE Sync(r)
  <2>1. /\ ScanFrame(r) /\ UNCHANGED <<stored, saved>>
        /\ \E s \in ScanStates : ScanGoes(r, s)
        /\ \/ UNCHANGED cacheVars
           \/ \E x \in scan[r].seen : Refreshed(r, x) \/ Forget(a, x)
    BY <1>5, SyncEffect
  <2>2. CacheOK
    BY <1>1, <2>1, CacheSame, CacheRefreshed, CacheForgot
  <2> QED
    BY <2>1, <2>2, CacheSame, StoredOK, FrameKeepsBase
<1>6. CASE Read(r)
  <2>1. /\ ScanFrame(r) /\ UNCHANGED <<stored, saved>> /\ scan[r].pc \in Writing
        /\ \E s \in ScanStates : ScanGoes(r, s)
        /\ UNCHANGED cacheVars \/ Refreshed(r, d) \/ Forget(a, d)
    BY <1>6, ReadEffect DEF Writing
  <2>2. d \in Docs /\ d \in Covers[r]
    BY <1>1, <2>1, AtWork
  <2>3. CacheOK
    BY <1>1, <2>1, <2>2, CacheSame, CacheRefreshed, CacheForgot
  <2> QED
    BY <2>1, <2>3, CacheSame, StoredOK, FrameKeepsBase
<1>7. CASE StoreEnds(r)
  <2>1. /\ ScanFrame(r) /\ UNCHANGED saved /\ scan[r].pc \in Writing
        /\ \E s \in ScanStates : ScanGoes(r, s)
        /\ \/ /\ stored' = [stored EXCEPT ![d] = scan[r].v]
              /\ \E e \in Entries : e.root = r /\ Keep(a, d, e)
           \/ Answered(d) /\ UNCHANGED cacheVars
    BY <1>7, StoreEffect DEF Writing
  <2>2. d \in Docs /\ d \in Covers[r] /\ scan[r].v \in Nat
    BY <1>1, <2>1, AtWork, ScanFields
  <2>3. CacheOK
    BY <1>1, <2>1, <2>2, CacheSame, CacheKept
  <2>4. stored' \in [Docs -> Nat]
    BY <1>1, <2>1, <2>2, StoredOK DEF MarkdownTyped
  <2> QED
    BY <2>1, <2>3, <2>4, CacheSame, FrameKeepsBase
<1>8. CASE DeleteEnds(r)
  <2>1. CacheOK
    BY <1>1, <1>8, DeleteEffect, CacheSame, CacheForgot
  <2> QED
    BY <1>8, <2>1, DeleteEffect, CacheSame, StoredOK, FrameKeepsBase
<1>9. CASE SyncEnds(r)
  BY <1>9, SyncEndsEffect, CacheSame, StoredOK, FrameKeepsBase
<1>10. CASE Prune(r)
  <2>1. /\ ScanFrame(r) /\ UNCHANGED <<stored, saved>>
        /\ \E s \in ScanStates : ScanGoes(r, s)
        /\ UNCHANGED cacheVars \/ \E x : Forget(a, x)
    BY <1>10, PruneEffect
  <2>2. CacheOK
    BY <1>1, <2>1, CacheSame, CacheForgot
  <2> QED
    BY <2>1, <2>2, CacheSame, StoredOK, FrameKeepsBase
<1>11. CASE UnlistEnds(r)
  <2>1. /\ ScanFrame(r) /\ UNCHANGED saved /\ Answered(d)
        /\ \E s \in ScanStates : ScanGoes(r, s)
        /\ UNCHANGED cacheVars \/ Forget(a, d)
    BY <1>11, UnlistEffect
  <2>2. CacheOK
    BY <1>1, <2>1, CacheSame, CacheForgot
  <2> QED
    BY <2>1, <2>2, CacheSame, StoredOK, FrameKeepsBase
<1>12. CASE Save(r)
  <2>1. ScanFrame(r) /\ UNCHANGED <<stored, cache>> /\ SavedFrom(a) /\ ScanGoes(r, IdleScan)
    BY <1>12, SaveEffect
  <2>2. CacheOK
    BY <1>1, <2>1 DEF CacheOK, SavedFrom, MarkdownTyped, CoverInv
  <2> QED
    BY <1>1, <2>1, <2>2, SavedFromOK, StoredOK, FrameKeepsBase
<1>13. CASE Stall(r)
  BY <1>13, StallEffect, CacheSame, StoredOK, FrameKeepsBase
<1> QED
  BY <1>3, <1>4, <1>5, <1>6, <1>7, <1>8, <1>9, <1>10, <1>11, <1>12, <1>13 DEF ScanStep

(* The base invariant holds always: the types are right, only the roots of *)
(* an adapter that runs are scanned, and no two scans are at work on one   *)
(* document.                                                               *)
THEOREM BaseHolds == Spec => []BaseInv
<1>1. Init => BaseInv
  BY InitBase
<1>2. ASSUME BaseInv, [Next]_vars PROVE BaseInv'
  <2>1. CASE \E d \in Docs : Edit(d)
    BY <1>2, <2>1, EditKeepsBase
  <2>2. CASE \E r \in Roots : WatcherFires(r)
    BY <1>2, <2>2, WatcherKeepsBase
  <2>3. CASE \E r \in Roots : TimerFires(r)
    BY <1>2, <2>3, TimerKeepsBase
  <2>4. CASE \E r \in Roots : ScanStep(r) \/ Stall(r)
    BY <1>2, <2>4, ScanKeepsBase
  <2>5. CASE Start
    BY <1>2, <2>5, StartKeepsBase
  <2>6. CASE StartNext
    BY <1>2, <2>6, StartNextKeepsBase
  <2>7. CASE Stop
    BY <1>2, <2>7, StopKeepsBase
  <2>8. CASE StopEnds
    BY <1>2, <2>8, StopEndsKeepsBase
  <2>9. CASE Crash
    BY <1>2, <2>9, CrashKeepsBase
  <2>10. CASE UNCHANGED vars
    <3>1. UNCHANGED <<disk, stored, cache, unsaved, saved, open, scan, sched, known, rooted,
                      host, gone, used>>
      BY <2>10 DEF vars, cacheVars, rootVars, historyVars
    <3>2. MarkdownTyped' /\ CoverInv'
      BY <1>2, <3>1 DEF BaseInv, MarkdownTyped, CoverInv, ScanOK
    <3>3. HostInv' /\ OneWriterPerDocument'
      BY <1>2, <3>1
         DEF BaseInv, HostInv, Live, Stopping, Scanning, OneWriterPerDocument
    <3> QED
      BY <3>2, <3>3 DEF BaseInv
  <2> QED
    BY <1>2, <2>1, <2>2, <2>3, <2>4, <2>5, <2>6, <2>7, <2>8, <2>9, <2>10 DEF Next
<1> QED
  BY <1>1, <1>2, PTL DEF Spec

(* Two roots never write or delete one document at a time: the coordinator *)
(* (DocumentCoordinator.run) serializes what scans of any adapters do to   *)
(* it, whatever overlaps, fails, stops or crashes.                         *)
THEOREM WritersAreAlone == Spec => []OneWriterPerDocument
<1>1. BaseInv => OneWriterPerDocument
  BY DEF BaseInv
<1> QED
  BY <1>1, BaseHolds, PTL

-----------------------------------------------------------------------------
(* Only what was gone counts as missed.                                    *)

LEMMA ScanTurned ==
  ASSUME BaseInv, NEW r \in Roots, NEW s, ScanGoes(r, s)
  PROVE  scan'[r] = s /\ \A q \in Roots \ {r} : scan'[q] = scan[q]
BY DEF BaseInv, MarkdownTyped, ScanGoes

(* A step of a scan misses no file more than one it finds absent. *)
LEMMA MissedShrinks ==
  ASSUME BaseInv, NEW r \in Roots, ScanStep(r) \/ Stall(r)
  PROVE  MissedBy(r, scan'[r]) \subseteq Missing(r) \cup {d \in Docs : disk[d].v = 0}
<1>1. MarkdownTyped /\ ScanOK(r, scan[r]) /\ known[r] \subseteq Covers[r]
  BY DEF BaseInv, CoverInv
<1>2. ASSUME NEW s, ScanGoes(r, s), s = IdleScan
      PROVE  MissedBy(r, scan'[r]) = {}
  BY <1>2, IdleFields, ScanTurned DEF MissedBy
<1>3. ASSUME NEW s, ScanGoes(r, s), Reconciled(r, s), ~ Stopping(AdapterOf[r]),
             scan[r].pc = "sync"
      PROVE  MissedBy(r, scan'[r]) \subseteq Missing(r)
  BY <1>1, <1>3, ScanTurned DEF MissedBy, Missing, Reconciled
<1>4. ASSUME NEW s, ScanGoes(r, s), SameFinds(r, s), s.pc \in Writing \cup {"sync"},
             scan[r].pc \in Writing \cup {"sync"} \/ (scan[r].pc = "walk" /\ scan[r].todo = {})
      PROVE  MissedBy(r, scan'[r]) \subseteq Missing(r)
  BY <1>4, ScanTurned DEF MissedBy, Missing, SameFinds, Writing
<1>5. ASSUME NEW s, ScanGoes(r, s), s.pc \in {"prune", "save", "unlist"},
             scan[r].pc \in {"prune", "unlist"}, s.todo \subseteq scan[r].todo
      PROVE  MissedBy(r, scan'[r]) \subseteq Missing(r)
  BY <1>5, ScanTurned DEF MissedBy, Missing
<1>6. CASE \E d \in Docs : Walk(r, d)
  <2>1. PICK d \in Docs, s \in ScanStates :
          /\ ScanGoes(r, s) /\ s.pc = "walk" /\ scan[r].pc = "walk"
          /\ \/ s.partial \/ Stopping(AdapterOf[r])
             \/ /\ s.partial = scan[r].partial /\ s.todo = scan[r].todo \ {d}
                /\ \/ s.seen = scan[r].seen \cup {d}
                   \/ s.seen = scan[r].seen /\ disk[d].v = 0
    BY <1>6, WalkEffect
  <2> QED
    BY <2>1, ScanTurned DEF MissedBy, Missing
<1>7. CASE WalkEnds(r)
  BY <1>7, <1>4, WalkEndsEffect
<1>8. CASE Sync(r)
  BY <1>8, <1>2, <1>3, <1>4, SyncEffect DEF Writing
<1>9. CASE Read(r)
  BY <1>9, <1>4, ReadEffect DEF Writing
<1>10. CASE StoreEnds(r)
  BY <1>10, <1>4, StoreEffect DEF Writing
<1>11. CASE DeleteEnds(r)
  BY <1>11, <1>2, <1>4, DeleteEffect DEF Writing
<1>12. CASE SyncEnds(r)
  BY <1>12, <1>2, <1>3, SyncEndsEffect
<1>13. CASE Prune(r)
  <2>1. PICK s \in ScanStates : /\ ScanGoes(r, s) /\ s.pc \in {"prune", "save", "unlist"}
                                /\ scan[r].pc = "prune" /\ s.todo \subseteq scan[r].todo
    BY <1>13, PruneEffect
  <2> QED
    BY <2>1, <1>5
<1>14. CASE UnlistEnds(r)
  <2>1. PICK s \in ScanStates : /\ ScanGoes(r, s) /\ scan[r].pc = "unlist"
                                /\ \/ /\ s.pc \in {"prune", "save", "unlist"}
                                      /\ s.todo \subseteq scan[r].todo
                                   \/ s = IdleScan
    BY <1>14, UnlistEffect
  <2> QED
    BY <2>1, <1>2, <1>5
<1>15. CASE Save(r)
  BY <1>15, <1>2, SaveEffect
<1>16. CASE Stall(r)
  BY <1>16, <1>2, StallEffect
<1> QED
  BY <1>6, <1>7, <1>8, <1>9, <1>10, <1>11, <1>12, <1>13, <1>14, <1>15, <1>16 DEF ScanStep

(* A scan that is to delete a document has found its file unwanted. *)
LEMMA DeletesUnwanted ==
  ASSUME BaseInv, NEW r \in Roots, ScanStep(r) \/ Stall(r), scan'[r].pc = "delete"
  PROVE  LET d == scan'[r].doc
         IN  d \in Docs /\ (d \in scan[r].large \/ ~ Accepts(AdapterOf[r], d, disk[d].v))
<1>1. CASE Read(r)
  <2>1. scan[r].doc \in Docs
    BY <1>1, ReadEffect, AtWork DEF Writing
  <2> QED
    BY <1>1, <2>1, ReadEffect, ScanTurned
<1>2. CASE \E d \in Docs : Walk(r, d)
  BY <1>2, WalkEffect, ScanTurned
<1>3. CASE WalkEnds(r)
  BY <1>3, WalkEndsEffect, ScanTurned
<1>4. CASE Sync(r)
  <2>1. scan[r].large \subseteq Docs
    BY ScanFields DEF BaseInv, CoverInv, ScanOK
  <2> QED
    BY <1>4, <2>1, SyncEffect, ScanTurned, IdleFields DEF Reconciled
<1>5. CASE StoreEnds(r)
  BY <1>5, StoreEffect, ScanTurned
<1>6. CASE DeleteEnds(r)
  BY <1>6, DeleteEffect, ScanTurned, IdleFields
<1>7. CASE SyncEnds(r)
  BY <1>7, SyncEndsEffect, ScanTurned, IdleFields DEF Reconciled
<1>8. CASE Prune(r)
  BY <1>8, PruneEffect, ScanTurned
<1>9. CASE UnlistEnds(r)
  BY <1>9, UnlistEffect, ScanTurned, IdleFields
<1>10. CASE Save(r)
  BY <1>10, SaveEffect, ScanTurned, IdleFields
<1>11. CASE Stall(r)
  BY <1>11, StallEffect, ScanTurned, IdleFields
<1> QED
  BY <1>1, <1>2, <1>3, <1>4, <1>5, <1>6, <1>7, <1>8, <1>9, <1>10, <1>11 DEF ScanStep

(* Every step of a scan keeps to its frame and turns its record only. *)
LEMMA ScanStepGoes ==
  ASSUME BaseInv, NEW r \in Roots, ScanStep(r) \/ Stall(r)
  PROVE  ScanFrame(r) /\ \E s : ScanGoes(r, s)
BY WalkEffect, WalkEndsEffect, SyncEffect, ReadEffect, StoreEffect, DeleteEffect,
   SyncEndsEffect, PruneEffect, UnlistEffect, SaveEffect, StallEffect DEF ScanStep

LEMMA AbsentIsUnwanted ==
  ASSUME NEW a, NEW d, disk[d].v = 0
  PROVE  ~ Accepts(a, d, disk[d].v)
BY DEF Accepts, Fits

LEMMA ScanKeepsGone ==
  ASSUME BaseInv, GoneInv, NEW r \in Roots, ScanStep(r) \/ Stall(r)
  PROVE  GoneInv'
<1>1. PICK s : ScanGoes(r, s)
  BY ScanStepGoes
<1>2. UNCHANGED <<disk, gone>> /\ Scanning(r)
      /\ (host' = host \/ (host.phase = "starting" /\ host'.phase = "on"))
  BY ScanStepGoes DEF ScanFrame
<1>3. \A q \in Roots \ {r} : scan'[q] = scan[q]
  BY <1>1, ScanTurned
<1>4. \A a : Stopping(a)' <=> Stopping(a)
  BY <1>2 DEF Stopping
<1>5. ASSUME NEW q \in Roots, q # r
      PROVE  /\ Scanning(q)' => \A d \in Docs :
                  d \in scan'[q].large \/ ~ Accepts(AdapterOf[q], d, disk'[d].v) => d \in gone'[q]
             /\ Missing(q)' \subseteq gone'[q]
             /\ scan'[q].pc = "delete" => scan'[q].doc \in gone'[q]
  BY <1>2, <1>3, <1>4, <1>5 DEF GoneInv, Scanning, Missing, MissedBy
<1>6. \A d \in Docs : d \in scan[r].large \/ ~ Accepts(AdapterOf[r], d, disk[d].v) => d \in gone[r]
  BY <1>2 DEF GoneInv
<1>7. Missing(r)' \subseteq gone[r]
  <2>1. Missing(r)' = MissedBy(r, scan'[r])
    BY <1>4 DEF Missing, MissedBy
  <2>2. Missing(r) \subseteq gone[r]
    BY DEF GoneInv
  <2> QED
    BY <1>6, <2>1, <2>2, MissedShrinks, AbsentIsUnwanted
<1>8. scan'[r].pc = "delete" => scan'[r].doc \in gone[r]
  BY <1>6, DeletesUnwanted
<1>9. \A d \in Docs : d \in scan'[r].large => d \in gone[r]
  <2>1. scan'[r].large \subseteq scan[r].large \cup {d \in Docs : ~ Fits(d, disk[d].v)}
    BY <1>1, ScanTurned DEF ScanGoes
  <2> QED
    BY <1>6, <2>1 DEF Accepts
<1> QED
  BY <1>2, <1>5, <1>6, <1>7, <1>8, <1>9 DEF GoneInv

(* So does a step that changes no scan, no file, and stops no less. *)
LEMMA OthersKeepGone ==
  ASSUME BaseInv, GoneInv, UNCHANGED <<disk, scan>>, \A q \in Roots : gone[q] \subseteq gone'[q],
         \A q \in Roots : Scanning(q) /\ Stopping(AdapterOf[q]) => Stopping(AdapterOf[q])'
  PROVE  GoneInv'
<1> SUFFICES ASSUME NEW q \in Roots
             PROVE  /\ Scanning(q)' => \A d \in Docs :
                         d \in scan'[q].large \/ ~ Accepts(AdapterOf[q], d, disk'[d].v) => d \in gone'[q]
                    /\ Missing(q)' \subseteq gone'[q]
                    /\ scan'[q].pc = "delete" => scan'[q].doc \in gone'[q]
  BY DEF GoneInv
<1>1. Missing(q)' \subseteq Missing(q)
  BY DEF Missing, MissedBy, Scanning
<1> QED
  BY <1>1 DEF GoneInv, Scanning

LEMMA BeginKeepsGone ==
  ASSUME BaseInv, GoneInv, NEW r \in Roots, Begin(r), \A a : Stopping(a)' <=> Stopping(a)
  PROVE  GoneInv'
<1> DEFINE G == {d \in Docs : ~ Accepts(AdapterOf[r], d, disk[d].v)}
<1>1. PICK s \in ScanStates : /\ scan' = [scan EXCEPT ![r] = s] /\ ScanOK(r, s)
                              /\ s.pc = "walk" /\ s.doc = 0 /\ s.todo = Covers[r]
                              /\ s.large = {}
  BY BeginEffect
<1>2. disk' = disk /\ gone' = [gone EXCEPT ![r] = G]
  BY BeginEffect
<1>3. scan'[r] = s /\ \A q \in Roots \ {r} : scan'[q] = scan[q]
  BY <1>1 DEF BaseInv, MarkdownTyped
<1>4. gone'[r] = G /\ \A q \in Roots \ {r} : gone'[q] = gone[q]
  BY <1>2 DEF BaseInv, MarkdownTyped
<1>5. \A d \in Docs : ~ Accepts(AdapterOf[r], d, disk[d].v) => d \in G
  OBVIOUS
<1> HIDE DEF G
<1>6. Missing(r)' = {} /\ scan'[r].pc # "delete" /\ scan'[r].large = {}
  BY <1>1, <1>3 DEF Missing, MissedBy
<1>7. ASSUME NEW q \in Roots, q # r
      PROVE  /\ Scanning(q)' => \A d \in Docs :
                  d \in scan'[q].large \/ ~ Accepts(AdapterOf[q], d, disk'[d].v) => d \in gone'[q]
             /\ Missing(q)' \subseteq gone'[q]
             /\ scan'[q].pc = "delete" => scan'[q].doc \in gone'[q]
  BY <1>2, <1>3, <1>4, <1>7 DEF GoneInv, Scanning, Missing, MissedBy
<1> QED
  BY <1>2, <1>4, <1>5, <1>6, <1>7 DEF GoneInv

LEMMA IdleKeepsGone ==
  ASSUME \A r \in Roots : ~ Scanning(r)
  PROVE  GoneInv
BY DEF GoneInv, Missing, MissedBy, Scanning

LEMMA EditKeepsGone ==
  ASSUME BaseInv, GoneInv, NEW d \in Docs, Edit(d)
  PROVE  GoneInv'
<1>1. /\ UNCHANGED <<scan, host>> /\ \A x \in Docs \ {d} : disk'[x] = disk[x]
      /\ \A r \in Roots : gone[r] \subseteq gone'[r]
      /\ \A r \in Roots :
           Scanning(r) /\ ~ Accepts(AdapterOf[r], d, disk'[d].v) => d \in gone'[r]
  BY EditEffect
<1> SUFFICES ASSUME NEW q \in Roots
             PROVE  /\ Scanning(q)' => \A x \in Docs :
                         x \in scan'[q].large \/ ~ Accepts(AdapterOf[q], x, disk'[x].v) => x \in gone'[q]
                    /\ Missing(q)' \subseteq gone'[q]
                    /\ scan'[q].pc = "delete" => scan'[q].doc \in gone'[q]
  BY DEF GoneInv
<1>2. Scanning(q)' => \A x \in Docs :
        x \in scan'[q].large \/ ~ Accepts(AdapterOf[q], x, disk'[x].v) => x \in gone'[q]
  BY <1>1 DEF GoneInv, Scanning
<1>3. Missing(q)' = Missing(q)
  BY <1>1 DEF Missing, MissedBy, Stopping
<1> QED
  BY <1>1, <1>2, <1>3 DEF GoneInv

(* A step of the handle changes no scan, or ends them all. *)
LEMMA HostKeepsGone ==
  ASSUME BaseInv, GoneInv, Start \/ StartNext \/ Stop \/ StopEnds \/ Crash
  PROVE  GoneInv'
<1>1. HostInv
  BY DEF BaseInv
<1>2. CASE Start
  <2>1. UNCHANGED <<disk, scan, gone>> /\ host.phase = "off"
    BY <1>2 DEF Start, historyVars
  <2>2. \A q \in Roots : ~ Scanning(q)
    BY <1>1, <2>1 DEF HostInv, Live
  <2> QED
    BY <2>1, <2>2, OthersKeepGone
<1>3. CASE StartNext
  <2>1. \A a : Stopping(a)' <=> Stopping(a)
    BY <1>3 DEF StartNext, Stopping, BaseInv, MarkdownTyped
  <2>2. CASE UNCHANGED <<disk, scan, gone>>
    BY <2>1, <2>2, OthersKeepGone
  <2>3. CASE ~ UNCHANGED <<disk, scan, gone>>
    <3>1. ~ (host.next > NRoots) /\ Begin(host.next)
      BY <1>3, <2>3 DEF StartNext, historyVars
    <3>2. host.next \in Roots
      BY <1>1, <1>3, <3>1, MarkdownAssumption
         DEF StartNext, HostInv, BaseInv, MarkdownTyped, Roots
    <3> QED
      BY <2>1, <3>1, <3>2, BeginKeepsGone
  <2> QED
    BY <2>2, <2>3
<1>4. CASE Stop
  <2>1. UNCHANGED <<disk, scan, gone>> /\ host.phase = "on"
    BY <1>4 DEF Stop, historyVars
  <2> QED
    BY <2>1, OthersKeepGone DEF Stopping
<1>5. CASE StopEnds
  <2>1. /\ UNCHANGED <<disk, scan, gone>> /\ host.phase = "stopping" /\ host.next \in Adapters
        /\ \A r \in Roots : AdapterOf[r] = host.next => ~ Scanning(r)
    BY <1>5, StopEndsEffect
  <2>2. \A r \in Roots : Scanning(r) => ~ Stopping(AdapterOf[r])
    <3>1. \A r \in Roots : Scanning(r) => ~ (AdapterOf[r] < host.next) /\ AdapterOf[r] # host.next
      BY <1>1, <2>1 DEF HostInv, Live
    <3>2. host.next \in Nat /\ \A r \in Roots : AdapterOf[r] \in Nat
      BY <2>1, MarkdownAssumption DEF Adapters
    <3>3. \A r \in Roots : Scanning(r) => ~ (AdapterOf[r] <= host.next)
      BY <3>1, <3>2
    <3> QED
      BY <3>3 DEF Stopping
  <2> QED
    BY <2>1, <2>2, OthersKeepGone
<1>6. CASE Crash
  <2>1. \A r \in Roots : ~ Scanning(r)'
    BY <1>6, CrashKeepsBase
  <2> QED
    BY <2>1 DEF GoneInv, Missing, MissedBy, Scanning
<1> QED
  BY <1>2, <1>3, <1>4, <1>5, <1>6

LEMMA GoneHolds == Spec => [](BaseInv /\ GoneInv)
<1>1. Init => BaseInv /\ GoneInv
  BY InitBase, IdleKeepsGone
<1>2. ASSUME BaseInv, GoneInv, [Next]_vars PROVE GoneInv'
  <2>1. CASE \E d \in Docs : Edit(d)
    BY <1>2, <2>1, EditKeepsGone
  <2>2. CASE \E r \in Roots : WatcherFires(r)
    <3>1. UNCHANGED <<disk, scan, gone, host>>
      BY <1>2, <2>2, WatcherEffect
    <3> QED
      BY <1>2, <3>1, OthersKeepGone DEF Stopping
  <2>3. CASE \E r \in Roots : TimerFires(r)
    <3>1. PICK r \in Roots : Begin(r) /\ UNCHANGED host
      BY <2>3 DEF TimerFires
    <3> QED
      BY <1>2, <3>1, BeginKeepsGone DEF Stopping
  <2>4. CASE \E r \in Roots : ScanStep(r) \/ Stall(r)
    BY <1>2, <2>4, ScanKeepsGone
  <2>5. CASE Start \/ StartNext \/ Stop \/ StopEnds \/ Crash
    BY <1>2, <2>5, HostKeepsGone
  <2>6. CASE UNCHANGED vars
    <3>1. UNCHANGED <<disk, scan, gone, host>>
      BY <2>6 DEF vars, historyVars
    <3> QED
      BY <1>2, <3>1, OthersKeepGone DEF Stopping
  <2> QED
    BY <1>2, <2>1, <2>2, <2>3, <2>4, <2>5, <2>6 DEF Next
<1> QED
  BY <1>1, <1>2, BaseHolds, PTL DEF Spec

(* A document is deleted for a root (retireDocument, pruneDeletedFiles)    *)
(* only if its file was absent, or not acceptable, at some moment of that  *)
(* root's scan: a partial walk, a failed read or a stop is no evidence.    *)
THEOREM DeletedWasGone == Spec => OnlyGoneIsDeleted
<1>1. ASSUME BaseInv, GoneInv, NEW r \in Roots, DeleteEnds(r) \/ UnlistEnds(r)
      PROVE  scan[r].doc \in gone[r]
  <2>1. CASE DeleteEnds(r)
    BY <1>1, <2>1, DeleteEffect DEF GoneInv
  <2>2. CASE UnlistEnds(r)
    <3>1. scan[r].pc = "unlist" /\ scan[r].doc \in scan[r].todo
      BY <1>1, <2>2, UnlistEffect
    <3> QED
      BY <1>1, <3>1 DEF GoneInv, Missing, MissedBy
  <2> QED
    BY <1>1, <2>1, <2>2
<1>2. BaseInv /\ GoneInv =>
        [\A r \in Roots : (DeleteEnds(r) \/ UnlistEnds(r)) =>
           (stored'[scan[r].doc] = stored[scan[r].doc] \/ scan[r].doc \in gone[r])]_vars
  BY <1>1
<1> QED
  BY <1>2, GoneHolds, PTL DEF OnlyGoneIsDeleted

-----------------------------------------------------------------------------
(* What the steps of a scan do to what may be skipped.                     *)

(* Of the files D, no adapter comes to believe more than it did, and none  *)
(* gives up a file that it would accept and skip.                          *)
Quiet(D) ==
  \A b \in Adapters, x \in D :
    /\ x \in DOMAIN cache'[b] =>
         x \in DOMAIN cache[b] /\ cache'[b][x].v = cache[b][x].v
    /\ Accepts(b, x, disk[x].v) /\ CacheSkips(b, x) => x \in DOMAIN cache'[b]

(* Root r takes over files that it has not missed, and no other root does. *)
RootMoves(r) ==
  \A b \in Adapters, x \in Docs :
    x \in DOMAIN cache'[b] =>
      \/ x \in DOMAIN cache[b] /\ cache'[b][x].root = cache[b][x].root
      \/ b = AdapterOf[r] /\ cache'[b][x].root = r /\ x \notin Missing(r)

LEMMA QuietSame ==
  ASSUME UNCHANGED cacheVars, NEW r
  PROVE  Quiet(Docs) /\ RootMoves(r)
BY DEF Quiet, RootMoves, CacheSkips, cacheVars

LEMMA QuietForgets ==
  ASSUME MarkdownTyped, NEW r, NEW a \in Adapters, NEW d, Forget(a, d),
         ~ (Accepts(a, d, disk[d].v) /\ CacheSkips(a, d))
  PROVE  Quiet(Docs) /\ RootMoves(r)
<1>1. OnlyEntry(a, d) /\ DOMAIN cache'[a] = DOMAIN cache[a] \ {d}
  BY ForgetEffect
<1>2. ASSUME NEW b \in Adapters, NEW x \in Docs, x \in DOMAIN cache'[b]
      PROVE  x \in DOMAIN cache[b] /\ cache'[b][x] = cache[b][x]
  BY <1>1, <1>2 DEF OnlyEntry
<1>3. ASSUME NEW b \in Adapters, NEW x \in Docs, Accepts(b, x, disk[x].v), CacheSkips(b, x)
      PROVE  x \in DOMAIN cache'[b]
  <2>1. x \in DOMAIN cache[b] /\ ~ (b = a /\ x = d)
    BY <1>3 DEF CacheSkips
  <2> QED
    BY <1>1, <2>1 DEF OnlyEntry
<1> QED
  BY <1>2, <1>3 DEF Quiet, RootMoves

LEMMA QuietRefreshes ==
  ASSUME MarkdownTyped, NEW r \in Roots, NEW d \in Docs, Refreshed(r, d), d \notin Missing(r)
  PROVE  Quiet(Docs) /\ RootMoves(r)
<1> DEFINE a == AdapterOf[r]
<1>1. CASE UNCHANGED cacheVars
  BY <1>1, QuietSame
<1>2. CASE ~ UNCHANGED cacheVars
  <2>1. a \in Adapters
    BY MarkdownAssumption
  <2>2. d \in DOMAIN cache[a]
    BY <1>2 DEF Refreshed
  <2>3. PICK e \in Entries : e.v = cache[a][d].v /\ e.root = r /\ Keep(a, d, e)
    BY <1>2 DEF Refreshed
  <2>4. OnlyEntry(a, d) /\ cache'[a][d] = e /\ d \in DOMAIN cache'[a]
    BY <2>1, <2>3, KeepEffect
  <2>5. ASSUME NEW b \in Adapters, NEW x \in Docs, x \in DOMAIN cache'[b]
        PROVE  /\ x \in DOMAIN cache[b] /\ cache'[b][x].v = cache[b][x].v
               /\ cache'[b][x].root = cache[b][x].root \/ (b = a /\ x = d)
    <3>1. CASE b = a /\ x = d
      BY <2>2, <2>3, <2>4, <3>1
    <3>2. CASE ~ (b = a /\ x = d)
      BY <2>4, <2>5, <3>2 DEF OnlyEntry
    <3> QED
      BY <3>1, <3>2
  <2>6. ASSUME NEW b \in Adapters, NEW x \in Docs, x \in DOMAIN cache[b]
        PROVE  x \in DOMAIN cache'[b]
    BY <2>4, <2>6 DEF OnlyEntry
  <2>7. cache'[a][d].root = r
    BY <2>3, <2>4
  <2> QED
    BY <2>5, <2>6, <2>7 DEF Quiet, RootMoves, CacheSkips
<1> QED
  BY <1>1, <1>2

(* While a candidate is dealt with, what was seen is not missed. *)
LEMMA SeenIsNotMissed ==
  ASSUME NEW r, scan[r].pc \in Writing \cup {"sync"}, NEW d \in scan[r].seen
  PROVE  d \notin Missing(r)
BY DEF Missing, MissedBy, Writing

(* Every step of a scan is quiet, but for an ingest that succeeds. *)
LEMMA ScanIsQuiet ==
  ASSUME BaseInv, WriterInv, MissingInv, LargeInv, NEW r \in Roots, ScanStep(r) \/ Stall(r)
  PROVE  \/ Quiet(Docs) /\ RootMoves(r)
         \/ /\ scan[r].pc = "store"
            /\ stored' = [stored EXCEPT ![scan[r].doc] = scan[r].v]
            /\ \E e \in Entries : /\ e.v = scan[r].v /\ e.root = r
                                  /\ Keep(AdapterOf[r], scan[r].doc, e)
<1> DEFINE a == AdapterOf[r]
           d == scan[r].doc
<1>1. MarkdownTyped /\ a \in Adapters /\ scan[r].seen \subseteq Docs
  BY MarkdownAssumption, ScanFields DEF BaseInv, CoverInv, ScanOK
<1>2. scan[r].pc \in {"store", "delete", "unlist"} => ~ (Accepts(a, d, disk[d].v) /\ CacheSkips(a, d))
  BY DEF WriterInv
<1>3. CASE \E x \in Docs : Walk(r, x)
  BY <1>3, WalkEffect, QuietSame
<1>4. CASE WalkEnds(r)
  BY <1>4, WalkEndsEffect, QuietSame
<1>5. CASE Sync(r)
  <2>1. /\ scan[r].pc = "sync" /\ Scanning(r)
        /\ \/ UNCHANGED cacheVars
           \/ \E x \in scan[r].seen : Refreshed(r, x) \/ (x \in scan[r].large /\ Forget(a, x))
    BY <1>5, SyncEffect DEF ScanFrame
  <2>2. \A x \in scan[r].large : ~ (Accepts(a, x, disk[x].v) /\ CacheSkips(a, x))
    BY <2>1 DEF LargeInv
  <2> QED
    BY <1>1, <2>1, <2>2, SeenIsNotMissed, QuietSame, QuietRefreshes, QuietForgets
<1>6. CASE Read(r)
  <2>1. /\ scan[r].pc \in Writing
        /\ \/ UNCHANGED cacheVars \/ Refreshed(r, d)
           \/ ~ Accepts(a, d, disk[d].v) /\ Forget(a, d)
    BY <1>6, ReadEffect DEF Writing
  <2>2. d \in Docs /\ d \in scan[r].seen
    BY <2>1, AtWork
  <2> QED
    BY <1>1, <2>1, <2>2, SeenIsNotMissed, QuietSame, QuietRefreshes, QuietForgets
<1>7. CASE StoreEnds(r)
  BY <1>7, StoreEffect, QuietSame
<1>8. CASE DeleteEnds(r)
  BY <1>1, <1>2, <1>8, DeleteEffect, QuietSame, QuietForgets
<1>9. CASE SyncEnds(r)
  BY <1>9, SyncEndsEffect, QuietSame
<1>10. CASE Prune(r)
  <2>1. scan[r].pc = "prune" /\ \E x \in scan[r].todo :
          UNCHANGED cacheVars \/ (Forget(a, x) /\ ~ TakenOver(r, x))
    BY <1>10, PruneEffect
  <2>2. \A x \in scan[r].todo : TakenOver(r, x) \/ ~ CacheSkips(a, x)
    BY <2>1 DEF MissingInv, Missing, MissedBy
  <2> QED
    BY <1>1, <2>1, <2>2, QuietSame, QuietForgets
<1>11. CASE UnlistEnds(r)
  BY <1>1, <1>2, <1>11, UnlistEffect, QuietSame, QuietForgets
<1>12. CASE Save(r)
  BY <1>12, SaveEffect DEF Quiet, RootMoves, CacheSkips
<1>13. CASE Stall(r)
  BY <1>13, StallEffect, QuietSame
<1> QED
  BY <1>3, <1>4, <1>5, <1>6, <1>7, <1>8, <1>9, <1>10, <1>11, <1>12, <1>13 DEF ScanStep

(* What a scan that turns to storing or deleting a document knows of it.   *)
LEMMA WorkBegins ==
  ASSUME BaseInv, MissingInv, LargeInv, NEW r \in Roots, ScanStep(r) \/ Stall(r),
         scan'[r].pc \in {"store", "delete", "unlist"}
  PROVE  LET a == AdapterOf[r]
             d == scan'[r].doc
         IN  /\ UNCHANGED cacheVars /\ ~ (Accepts(a, d, disk[d].v) /\ CacheSkips(a, d))
             /\ scan'[r].pc \in {"delete", "unlist"} => ~ OtherOwner(a, d)
             /\ scan'[r].pc = "store" => scan'[r].v = disk[d].v /\ Accepts(a, d, scan'[r].v)
<1> DEFINE a == AdapterOf[r]
<1>1. CASE Read(r)
  BY <1>1, ReadEffect, ScanTurned
<1>2. CASE \E d \in Docs : Walk(r, d)
  BY <1>2, WalkEffect, ScanTurned
<1>3. CASE WalkEnds(r)
  BY <1>3, WalkEndsEffect, ScanTurned
<1>4. CASE Sync(r)
  <2>1. \A x \in scan[r].large : ~ (Accepts(a, x, disk[x].v) /\ CacheSkips(a, x))
    BY <1>4, SyncEffect DEF LargeInv, ScanFrame
  <2> QED
    BY <1>4, <2>1, SyncEffect, ScanTurned, IdleFields DEF Reconciled
<1>5. CASE StoreEnds(r)
  BY <1>5, StoreEffect, ScanTurned
<1>6. CASE DeleteEnds(r)
  BY <1>6, DeleteEffect, ScanTurned, IdleFields
<1>7. CASE SyncEnds(r)
  BY <1>7, SyncEndsEffect, ScanTurned, IdleFields DEF Reconciled
<1>8. CASE Prune(r)
  <2>1. PICK s \in ScanStates, d \in scan[r].todo :
          /\ ScanGoes(r, s) /\ scan[r].pc = "prune"
          /\ \/ s.pc \in {"prune", "save"}
             \/ /\ s.pc = "unlist" /\ s.doc = d
                /\ ~ TakenOver(r, d) /\ ~ OtherOwner(a, d) /\ UNCHANGED cacheVars
    BY <1>8, PruneEffect
  <2>2. scan'[r] = s
    BY <2>1, ScanTurned
  <2>3. TakenOver(r, d) \/ ~ CacheSkips(a, d)
    BY <2>1 DEF MissingInv, Missing, MissedBy
  <2> QED
    BY <2>1, <2>2, <2>3
<1>9. CASE UnlistEnds(r)
  BY <1>9, UnlistEffect, ScanTurned, IdleFields
<1>10. CASE Save(r)
  BY <1>10, SaveEffect, ScanTurned, IdleFields
<1>11. CASE Stall(r)
  BY <1>11, StallEffect, ScanTurned, IdleFields
<1> QED
  BY <1>1, <1>2, <1>3, <1>4, <1>5, <1>6, <1>7, <1>8, <1>9, <1>10, <1>11 DEF ScanStep

(* What a scan may change in the daemon, and what it may save. *)
LEMMA ScanWrites ==
  ASSUME BaseInv, NEW r \in Roots, ScanStep(r) \/ Stall(r)
  PROVE  /\ \/ UNCHANGED stored
            \/ /\ scan[r].pc \in {"store", "delete", "unlist"} /\ scan[r].doc \in Docs
               /\ \A x \in Docs \ {scan[r].doc} : stored'[x] = stored[x]
         /\ \/ UNCHANGED saved
            \/ UNCHANGED cache /\ SavedFrom(AdapterOf[r])
<1> DEFINE d == scan[r].doc
<1>1. stored \in [Docs -> Nat]
  BY DEF BaseInv, MarkdownTyped
<1>2. Answered(d) => \A x \in Docs \ {d} : stored'[x] = stored[x]
  BY <1>1 DEF Answered
<1>3. scan[r].pc \in {"store", "delete", "unlist"} => d \in Docs
  BY ScanFields, DocsAreNumbers DEF BaseInv, CoverInv, ScanOK, Writing
<1>4. CASE StoreEnds(r)
  <2>1. UNCHANGED saved /\ scan[r].pc = "store"
        /\ (stored' = [stored EXCEPT ![d] = scan[r].v] \/ Answered(d))
    BY <1>4, StoreEffect
  <2> QED
    BY <1>1, <1>2, <1>3, <2>1
<1>5. CASE DeleteEnds(r) \/ UnlistEnds(r)
  BY <1>2, <1>3, <1>5, DeleteEffect, UnlistEffect
<1>6. CASE ~ (StoreEnds(r) \/ DeleteEnds(r) \/ UnlistEnds(r))
  BY <1>6, WalkEffect, WalkEndsEffect, SyncEffect, ReadEffect,
     SyncEndsEffect, PruneEffect, SaveEffect, StallEffect DEF ScanStep
<1> QED
  BY <1>4, <1>5, <1>6

-----------------------------------------------------------------------------
(* A step of a scan keeps what may be believed.                            *)

(* The ingest of a document succeeds: its adapter now has the version that *)
(* was read, and nothing else is different.                                *)
Succeeds(r) ==
  LET a == AdapterOf[r]
      d == scan[r].doc
  IN  /\ scan[r].pc = "store" /\ d \in Docs /\ a \in Adapters
      /\ stored' = [stored EXCEPT ![d] = scan[r].v]
      /\ cache' \in [Adapters -> Maps] /\ Quiet(Docs \ {d})
      /\ \A b \in Adapters \ {a} : cache'[b] = cache[b]
      /\ \A x \in Docs \ {d} : x \in DOMAIN cache'[a] =>
           x \in DOMAIN cache[a] /\ cache'[a][x].root = cache[a][x].root
      /\ d \in DOMAIN cache'[a] /\ cache'[a][d].v = scan[r].v /\ cache'[a][d].root = r

LEMMA SuccessEffect ==
  ASSUME BaseInv, NEW r \in Roots, scan[r].pc = "store",
         stored' = [stored EXCEPT ![scan[r].doc] = scan[r].v],
         NEW e \in Entries, e.v = scan[r].v, e.root = r, Keep(AdapterOf[r], scan[r].doc, e)
  PROVE  Succeeds(r)
<1> DEFINE a == AdapterOf[r]
           d == scan[r].doc
<1>1. MarkdownTyped /\ a \in Adapters /\ d \in Docs
  BY AtWork DEF Writing
<1>2. OnlyEntry(a, d) /\ d \in DOMAIN cache'[a] /\ cache'[a][d] = e
  BY <1>1, KeepEffect
<1>3. Quiet(Docs \ {d})
  BY <1>2 DEF OnlyEntry, Quiet, CacheSkips
<1> QED
  BY <1>1, <1>2, <1>3 DEF Succeeds, OnlyEntry

LEMMA QuietOrSuccess ==
  ASSUME BaseInv, WriterInv, MissingInv, LargeInv, NEW r \in Roots, ScanStep(r) \/ Stall(r)
  PROVE  (Quiet(Docs) /\ RootMoves(r)) \/ Succeeds(r)
BY ScanIsQuiet, SuccessEffect

LEMMA QuietSkips ==
  ASSUME UNCHANGED disk, NEW D, Quiet(D), NEW b \in Adapters, NEW x \in D
  PROVE  /\ CacheSkips(b, x)' => CacheSkips(b, x)
         /\ Accepts(b, x, disk[x].v) /\ CacheSkips(b, x) => CacheSkips(b, x)'
         /\ x \in DOMAIN cache'[b] => x \in DOMAIN cache[b]
BY DEF Quiet, CacheSkips

LEMMA ScanKeepsVersions ==
  ASSUME BaseInv, BaseInv', VersionInv, WriterInv, MissingInv, LargeInv,
         NEW r \in Roots, ScanStep(r) \/ Stall(r)
  PROVE  VersionInv'
<1>1. ScanFrame(r) /\ UNCHANGED disk /\ used'.edits = used.edits
  BY ScanStepGoes DEF ScanFrame
<1>2. PICK s : ScanGoes(r, s)
  BY ScanStepGoes
<1>3. \A a \in Adapters : /\ DOMAIN cache[a] \subseteq Docs /\ DOMAIN cache'[a] \subseteq Docs
                          /\ DOMAIN saved'[a] \subseteq Docs
  BY MapFacts DEF BaseInv, MarkdownTyped
<1>4. ASSUME NEW b \in Adapters, NEW x \in DOMAIN cache'[b]
      PROVE  cache'[b][x].v <= used.edits + 1
  <2>1. CASE Quiet(Docs)
    BY <1>3, <1>4, <2>1 DEF Quiet, VersionInv
  <2>2. CASE Succeeds(r)
    <3>1. CASE b = AdapterOf[r] /\ x = scan[r].doc
      BY <2>2, <3>1 DEF Succeeds, VersionInv
    <3>2. CASE ~ (b = AdapterOf[r] /\ x = scan[r].doc)
      BY <1>3, <1>4, <2>2, <3>2 DEF Succeeds, Quiet, VersionInv
    <3> QED
      BY <3>1, <3>2
  <2> QED
    BY <2>1, <2>2, QuietOrSuccess
<1>5. ASSUME NEW b \in Adapters, NEW x \in DOMAIN saved'[b]
      PROVE  saved'[b][x].v <= used.edits + 1
  <2>1. saved'[b] = saved[b] \/ saved'[b] = cache[b]
    BY ScanWrites DEF SavedFrom
  <2> QED
    BY <1>5, <2>1 DEF VersionInv
<1>6. ASSUME NEW q \in Roots, scan'[q].pc = "store"
      PROVE  scan'[q].v <= used.edits + 1
  <2>1. CASE q = r
    <3>1. scan'[r].v = disk[scan'[r].doc].v
      BY <1>6, <2>1, WorkBegins
    <3>2. scan'[r].doc \in Docs
      BY <1>6, <2>1, ScanFields, DocsAreNumbers DEF BaseInv, CoverInv, ScanOK, Writing
    <3> QED
      BY <2>1, <3>1, <3>2 DEF VersionInv
  <2>2. CASE q # r
    BY <1>2, <1>6, <2>2, ScanTurned DEF VersionInv
  <2> QED
    BY <2>1, <2>2
<1> QED
  BY <1>1, <1>4, <1>5, <1>6 DEF VersionInv

(* What an adapter skips is in its cache, or in its snapshot. *)
LEMMA SkipsAre ==
  \A a, d : Skips(a, d) <=> IF Live(a) THEN CacheSkips(a, d) ELSE SavedSkips(a, d)
BY DEF Skips, Belief, Live, CacheSkips, SavedSkips

LEMMA SkipsAreNext ==
  \A a, d : Skips(a, d)' <=> IF Live(a)' THEN CacheSkips(a, d)' ELSE SavedSkips(a, d)'
BY DEF Skips, Belief, Live, CacheSkips, SavedSkips

(* A scan neither starts nor stops an adapter. *)
LEMMA ScanKeepsHost ==
  ASSUME NEW r, ScanFrame(r)
  PROVE  \A a : (Live(a)' <=> Live(a)) /\ (Stopping(a)' <=> Stopping(a))
BY DEF ScanFrame, Live, Stopping

(* What a snapshot may be after a step of a scan. *)
LEMMA ScanSaves ==
  ASSUME BaseInv, NEW r \in Roots, ScanStep(r) \/ Stall(r)
  PROVE  \A b \in Adapters :
           saved'[b] = saved[b] \/ (saved'[b] = cache[b] /\ b = AdapterOf[r])
BY ScanWrites DEF SavedFrom

LEMMA ScansAreLive ==
  ASSUME BaseInv, NEW r \in Roots, Scanning(r)
  PROVE  Live(AdapterOf[r])
BY DEF BaseInv, HostInv

LEMMA ScanKeepsSaved ==
  ASSUME BaseInv, SavedInv, WriterInv, MissingInv, LargeInv, NEW r \in Roots, ScanStep(r) \/ Stall(r)
  PROVE  SavedInv'
<1>1. ScanFrame(r) /\ UNCHANGED disk
  BY ScanStepGoes DEF ScanFrame
<1>2. ASSUME NEW b \in Adapters, NEW x \in Docs,
             Live(b), Accepts(b, x, disk[x].v), SavedSkips(b, x)'
      PROVE  CacheSkips(b, x)'
  <2>1. CacheSkips(b, x)
    <3>1. CASE saved'[b] = saved[b]
      BY <1>1, <1>2, <3>1 DEF SavedInv, SavedSkips
    <3>2. CASE saved'[b] = cache[b]
      BY <1>1, <1>2, <3>2 DEF SavedSkips, CacheSkips
    <3> QED
      BY <3>1, <3>2, ScanSaves
  <2>2. CASE Quiet(Docs)
    BY <1>1, <1>2, <2>1, <2>2, QuietSkips
  <2>3. CASE Succeeds(r)
    <3>1. ~ (b = AdapterOf[r] /\ x = scan[r].doc)
      BY <1>2, <2>1, <2>3 DEF Succeeds, WriterInv
    <3>2. CASE b # AdapterOf[r]
      BY <1>1, <2>1, <2>3, <3>2 DEF Succeeds, CacheSkips
    <3>3. CASE x # scan[r].doc
      <4>1. x \in Docs \ {scan[r].doc} /\ Quiet(Docs \ {scan[r].doc})
        BY <2>3, <3>3 DEF Succeeds
      <4> QED
        BY <1>1, <1>2, <2>1, <4>1, QuietSkips
    <3> QED
      BY <3>1, <3>2, <3>3
  <2> QED
    BY <2>2, <2>3, QuietOrSuccess
<1> QED
  BY <1>1, <1>2, ScanKeepsHost DEF SavedInv

(* The documents that other scans work on are not touched. *)
LEMMA OthersUntouched ==
  ASSUME BaseInv, WriterInv, MissingInv, LargeInv, NEW r \in Roots, ScanStep(r) \/ Stall(r),
         NEW q \in Roots \ {r}, scan[q].doc \in Docs
  PROVE  \A b \in Adapters :
           LET d == scan[q].doc
           IN  /\ CacheSkips(b, d)' => CacheSkips(b, d)
               /\ SavedSkips(b, d)' => SavedSkips(b, d) \/ CacheSkips(b, d)
               /\ d \in DOMAIN cache'[b] => d \in DOMAIN cache[b]
<1> DEFINE d == scan[q].doc
<1>1. UNCHANGED disk
  BY ScanStepGoes DEF ScanFrame
<1>2. PICK D : Quiet(D) /\ d \in D /\ scan'[q] = scan[q]
  <2>1. scan'[q] = scan[q]
    BY ScanStepGoes, ScanTurned
  <2>2. CASE Quiet(Docs)
    BY <2>1, <2>2
  <2>3. CASE Succeeds(r)
    <3>1. scan[r].doc # d /\ Quiet(Docs \ {scan[r].doc})
      BY <2>3, DocsAreNumbers DEF Succeeds, BaseInv, OneWriterPerDocument
    <3> QED
      BY <2>1, <3>1
  <2> QED
    BY <2>2, <2>3, QuietOrSuccess
<1>3. ASSUME NEW b \in Adapters
      PROVE  /\ d \in DOMAIN cache'[b] /\ cache'[b][d].v = disk[d].v => CacheSkips(b, d)
             /\ d \in DOMAIN saved'[b] /\ saved'[b][d].v = disk[d].v =>
                  SavedSkips(b, d) \/ CacheSkips(b, d)
             /\ d \in DOMAIN cache'[b] => d \in DOMAIN cache[b]
  BY <1>2, ScanSaves DEF Quiet, CacheSkips, SavedSkips
<1> QED
  BY <1>1, <1>2, <1>3 DEF CacheSkips, SavedSkips

LEMMA ScanKeepsWriter ==
  ASSUME BaseInv, BaseInv', WriterInv, MissingInv, LargeInv, NEW r \in Roots, ScanStep(r) \/ Stall(r)
  PROVE  WriterInv'
<1>1. UNCHANGED disk
  BY ScanStepGoes DEF ScanFrame
<1> DEFINE OK(q) ==
      LET a == AdapterOf[q]
          d == scan[q].doc
      IN  /\ scan[q].pc \in {"store", "delete", "unlist"} =>
               ~ (Accepts(a, d, disk[d].v) /\ CacheSkips(a, d))
          /\ scan[q].pc \in {"delete", "unlist"} => ~ OtherOwner(a, d)
          /\ scan[q].pc = "store" =>
               /\ Accepts(a, d, scan[q].v)
               /\ disk[d].v # scan[q].v =>
                    \A b \in Adapters : ~ CacheSkips(b, d) /\ ~ SavedSkips(b, d)
<1>2. OK(r)'
  <2>1. CASE scan'[r].pc \in {"store", "delete", "unlist"}
    <3>1. UNCHANGED <<disk, cache>> /\
          LET a == AdapterOf[r]
              d == scan'[r].doc
          IN  /\ ~ (Accepts(a, d, disk[d].v) /\ CacheSkips(a, d))
              /\ scan'[r].pc \in {"delete", "unlist"} => ~ OtherOwner(a, d)
              /\ scan'[r].pc = "store" => scan'[r].v = disk[d].v /\ Accepts(a, d, scan'[r].v)
      BY <1>1, <2>1, WorkBegins DEF cacheVars
    <3> QED
      BY <3>1 DEF CacheSkips, OtherOwner
  <2>2. CASE scan'[r].pc \notin {"store", "delete", "unlist"}
    BY <2>2
  <2> QED
    BY <2>1, <2>2
<1>3. ASSUME NEW q \in Roots, q # r
      PROVE  OK(q)'
  <2>1. scan'[q] = scan[q] /\ OK(q)
    BY <1>3, ScanStepGoes, ScanTurned DEF WriterInv
  <2>2. CASE scan[q].pc \in {"store", "delete", "unlist"}
    <3>1. scan[q].doc \in Docs /\ AdapterOf[q] \in Adapters
      BY <2>2, ScanFields, DocsAreNumbers, MarkdownAssumption DEF BaseInv, CoverInv, ScanOK, Writing
    <3>2. \A b \in Adapters :
           LET d == scan[q].doc
           IN  /\ CacheSkips(b, d)' => CacheSkips(b, d)
               /\ SavedSkips(b, d)' => SavedSkips(b, d) \/ CacheSkips(b, d)
               /\ d \in DOMAIN cache'[b] => d \in DOMAIN cache[b]
      BY <1>3, <3>1, OthersUntouched
    <3>3. OtherOwner(AdapterOf[q], scan[q].doc)' => OtherOwner(AdapterOf[q], scan[q].doc)
      BY <2>1, <3>2 DEF OtherOwner
    <3> QED
      BY <1>1, <2>1, <3>1, <3>2, <3>3
  <2>3. CASE scan[q].pc \notin {"store", "delete", "unlist"}
    BY <2>1, <2>3
  <2> QED
    BY <2>2, <2>3
<1> QED
  BY <1>2, <1>3 DEF WriterInv

(* Of the files that a root has missed, none comes to be skipped. *)
LEMMA MissedStayMissed ==
  ASSUME BaseInv, WriterInv, MissingInv, LargeInv, NEW r \in Roots, ScanStep(r) \/ Stall(r),
         NEW q \in Roots, NEW x \in Missing(q), x \in Docs
  PROVE  TakenOver(q, x)' \/ ~ CacheSkips(AdapterOf[q], x)'
<1> DEFINE a == AdapterOf[q]
           A == AdapterOf[r]
<1>1. UNCHANGED disk
  BY ScanStepGoes DEF ScanFrame
<1>2. a \in Adapters /\ A \in Adapters
  BY MarkdownAssumption
<1>3. TakenOver(q, x) \/ ~ CacheSkips(a, x)
  BY DEF MissingInv
<1>4. ASSUME x \in DOMAIN cache'[a], cache'[a][x].v = disk[x].v
      PROVE  cache'[a][x].root # q
  <2>1. CASE Quiet(Docs) /\ RootMoves(r)
    <3>1. x \in DOMAIN cache[a] /\ CacheSkips(a, x)
      BY <1>2, <1>4, <2>1 DEF Quiet, CacheSkips
    <3>2. cache[a][x].root # q
      BY <1>3, <3>1 DEF TakenOver
    <3>3. \/ cache'[a][x].root = cache[a][x].root
          \/ cache'[a][x].root = r /\ x \notin Missing(r)
      BY <1>2, <1>4, <2>1 DEF RootMoves
    <3> QED
      BY <3>2, <3>3
  <2>2. CASE Succeeds(r)
    <3>1. CASE a = A /\ x = scan[r].doc
      <4>1. cache'[a][x].root = r
        BY <2>2, <3>1 DEF Succeeds
      <4>2. scan[r].doc \notin Missing(r)
        BY <2>2, AtWork, SeenIsNotMissed DEF Succeeds, Writing
      <4> QED
        BY <3>1, <4>1, <4>2
    <3>2. CASE a # A
      BY <1>2, <1>3, <1>4, <2>2, <3>2 DEF Succeeds, TakenOver, CacheSkips
    <3>3. CASE a = A /\ x # scan[r].doc
      <4>1. x \in Docs \ {scan[r].doc} /\ Quiet(Docs \ {scan[r].doc})
        BY <2>2, <3>3 DEF Succeeds
      <4>2. x \in DOMAIN cache[a] /\ CacheSkips(a, x)
        BY <1>2, <1>4, <4>1 DEF Quiet, CacheSkips
      <4>3. cache'[a][x].root = cache[a][x].root
        BY <1>4, <2>2, <3>3, <4>1 DEF Succeeds
      <4> QED
        BY <1>3, <4>2, <4>3 DEF TakenOver
    <3> QED
      BY <3>1, <3>2, <3>3
  <2> QED
    BY <2>1, <2>2, QuietOrSuccess
<1> QED
  BY <1>1, <1>4 DEF TakenOver, CacheSkips

LEMMA ScanKeepsMissing ==
  ASSUME BaseInv, BaseInv', WriterInv, MissingInv, LargeInv, NEW r \in Roots, ScanStep(r) \/ Stall(r)
  PROVE  MissingInv'
<1>1. PICK s : ScanGoes(r, s)
  BY ScanStepGoes
<1>2. UNCHANGED disk /\ \A a : Stopping(a)' <=> Stopping(a)
  BY ScanStepGoes, ScanKeepsHost DEF ScanFrame
<1>3. \A q \in Roots : Missing(q)' = MissedBy(q, scan'[q])
  BY <1>2 DEF Missing, MissedBy
<1>4. \A q \in Roots : Missing(q) \subseteq Docs /\ MissedBy(q, scan'[q]) \subseteq Docs
  <2>1. \A q \in Roots : ScanOK(q, scan[q]) /\ ScanOK(q, scan'[q]) /\ Covers[q] \subseteq Docs
    BY MarkdownAssumption DEF BaseInv, CoverInv
  <2> QED
    BY <2>1 DEF Missing, MissedBy, ScanOK
<1>5. ASSUME NEW q \in Roots, NEW x \in MissedBy(q, scan'[q])
      PROVE  TakenOver(q, x)' \/ ~ CacheSkips(AdapterOf[q], x)'
  <2>1. x \in Docs
    BY <1>4, <1>5
  <2>2. CASE x \in Missing(q)
    BY <2>1, <2>2, MissedStayMissed
  <2>3. CASE x \notin Missing(q)
    <3>1. q = r
      BY <1>1, <1>5, <2>3, ScanTurned DEF Missing
    <3>2. disk[x].v = 0
      BY <1>5, <2>3, <3>1, MissedShrinks
    <3>3. AdapterOf[q] \in Adapters /\ cache' \in [Adapters -> Maps]
      BY MarkdownAssumption DEF BaseInv, MarkdownTyped
    <3>4. \A d \in DOMAIN cache'[AdapterOf[q]] : cache'[AdapterOf[q]][d] \in Entries
      BY <3>3, MapFacts
    <3>5. x \in DOMAIN cache'[AdapterOf[q]] => cache'[AdapterOf[q]][x].v # 0
      BY <3>4 DEF Entries
    <3> QED
      BY <1>2, <3>2, <3>5 DEF CacheSkips
  <2> QED
    BY <2>2, <2>3
<1> QED
  BY <1>3, <1>5 DEF MissingInv

(* What was too large at a walk is stored anew by its own scan's root only *)
(* after that scan, and by another root of the adapter never.              *)
LEMMA ScanKeepsLarge ==
  ASSUME CappedAreUnshared, BaseInv, BaseInv', WriterInv, MissingInv, LargeInv,
         NEW r \in Roots, ScanStep(r) \/ Stall(r)
  PROVE  LargeInv'
<1>1. PICK s : ScanGoes(r, s)
  BY ScanStepGoes
<1>2. UNCHANGED disk /\ Scanning(r)
  BY ScanStepGoes DEF ScanFrame
<1> SUFFICES ASSUME NEW q \in Roots, Scanning(q)', NEW x \in scan'[q].large,
                    Accepts(AdapterOf[q], x, disk[x].v), CacheSkips(AdapterOf[q], x)'
             PROVE  FALSE
  BY <1>2 DEF LargeInv
<1> DEFINE a == AdapterOf[q]
           d == scan[r].doc
<1>3. x \in Docs /\ a \in Adapters
  BY ScanFields, MarkdownAssumption DEF BaseInv, CoverInv, ScanOK
<1>4. x \in scan[q].large /\ Scanning(q)
  <2>1. CASE q = r
    <3>1. x \in scan[r].large \cup {y \in Docs : ~ Fits(y, disk[y].v)}
      BY <1>1, <2>1, ScanTurned DEF ScanGoes
    <3> QED
      BY <1>2, <2>1, <3>1 DEF Accepts
  <2>2. CASE q # r
    BY <1>1, <2>2, ScanTurned DEF Scanning
  <2> QED
    BY <2>1, <2>2
<1>5. ~ CacheSkips(a, x)
  BY <1>4 DEF LargeInv
<1>6. ~ Quiet(Docs)
  BY <1>2, <1>3, <1>5, QuietSkips
<1>7. Succeeds(r)
  BY <1>6, QuietOrSuccess
<1>8. a = AdapterOf[r]
  BY <1>2, <1>3, <1>5, <1>7 DEF Succeeds, CacheSkips
<1>9. x = d
  BY <1>2, <1>3, <1>5, <1>7, QuietSkips DEF Succeeds
<1>10. ScanOK(r, scan[r]) /\ ScanOK(q, scan[q]) /\ scan[r].pc = "store"
  BY <1>7 DEF BaseInv, CoverInv, Succeeds
<1>11. q # r
  BY <1>4, <1>9, <1>10 DEF ScanOK
<1>12. x \in Covers[r]
  BY <1>9, <1>10 DEF ScanOK, Writing
<1>13. x \in Covers[q] /\ x \in Capped
  BY <1>4, <1>10 DEF ScanOK
<1> QED
  BY <1>8, <1>11, <1>12, <1>13 DEF CappedAreUnshared

LEMMA ScanKeepsReleased ==
  ASSUME BaseInv, ReleasedInv, NEW r \in Roots, ScanStep(r) \/ Stall(r)
  PROVE  ReleasedInv'
<1>1. ScanFrame(r)
  BY ScanStepGoes
<1>2. Scanning(r) /\ released' = released
      /\ (host' = host \/ host'.phase = "on")
  BY <1>1 DEF ScanFrame
<1> QED
  BY <1>2 DEF ReleasedInv

(* While a document is stored or deleted, not every adapter that accepts   *)
(* its file would skip it, unless adapters were stopped meanwhile.         *)
LEMMA WriterBlocks ==
  ASSUME BaseInv, WriterInv, ReleasedInv, ~ released, NEW r \in Roots,
         scan[r].pc \in {"store", "delete", "unlist"}
  PROVE  ~ BeliefSkips(scan[r].doc)
<1> DEFINE a == AdapterOf[r]
           d == scan[r].doc
<1> SUFFICES ASSUME BeliefSkips(d) PROVE FALSE
  OBVIOUS
<1>1. Scanning(r) /\ d \in Docs /\ d \in Covers[r] /\ a \in Adapters
  BY ScanFields, DocsAreNumbers, MarkdownAssumption
     DEF Scanning, BaseInv, CoverInv, ScanOK, Writing
<1>2. Live(a)
  BY <1>1, ScansAreLive
<1>3. \A b \in Adapters : Live(b)
  BY <1>1, <1>2 DEF ReleasedInv, Live, BaseInv, HostInv, MarkdownTyped, Adapters
<1>4. PICK b \in Adapters : Accepts(b, d, disk[d].v) /\ b \in AcceptedBy(d)
  BY MarkdownAssumption DEF BeliefSkips, AcceptedBy
<1>5. \A c \in AcceptedBy(d) : CacheSkips(c, d)
  BY <1>3, SkipsAre, MarkdownAssumption DEF BeliefSkips, AcceptedBy
<1>6. ~ (Accepts(a, d, disk[d].v) /\ CacheSkips(a, d))
  BY DEF WriterInv
<1>7. CASE scan[r].pc = "store"
  <2>1. disk[d].v = scan[r].v
    BY <1>4, <1>5, <1>7 DEF WriterInv
  <2>2. Accepts(a, d, disk[d].v)
    BY <1>7, <2>1 DEF WriterInv
  <2>3. a \in AcceptedBy(d)
    BY <1>1, <2>2 DEF AcceptedBy
  <2> QED
    BY <1>5, <1>6, <2>2, <2>3
<1>8. CASE scan[r].pc \in {"delete", "unlist"}
  <2>1. ~ OtherOwner(a, d)
    BY <1>8 DEF WriterInv
  <2>2. b # a
    BY <1>4, <1>5, <1>6
  <2> QED
    BY <1>4, <1>5, <2>1, <2>2 DEF OtherOwner, CacheSkips
<1> QED
  BY <1>7, <1>8

(* Every document is what it was, or is the one the scan works on. *)
LEMMA ScanStores ==
  ASSUME BaseInv, WriterInv, ReleasedInv, ~ released, NEW r \in Roots,
         ScanStep(r) \/ Stall(r), NEW x \in Docs, BeliefSkips(x)
  PROVE  stored'[x] = stored[x]
BY ScanWrites, WriterBlocks

LEMMA ScanKeepsBelieved ==
  ASSUME BaseInv, BeliefInv, NEW r \in Roots, ScanStep(r) \/ Stall(r), ~ released,
         NEW x \in Docs, BeliefSkips(x)'
  PROVE  stored'[x] = disk[x].v
<1> DEFINE d == scan[r].doc
<1>1. UNCHANGED disk /\ Scanning(r) /\ \A b : Live(b)' <=> Live(b)
  BY ScanStepGoes, ScanKeepsHost DEF ScanFrame
<1>2. AcceptedBy(x)' = AcceptedBy(x) /\ AcceptedBy(x) \subseteq Adapters
  BY <1>1, MarkdownAssumption DEF AcceptedBy
<1>3. \A b \in AcceptedBy(x) : IF Live(b) THEN CacheSkips(b, x)' ELSE SavedSkips(b, x)'
  BY <1>1, <1>2, SkipsAreNext DEF BeliefSkips
<1>4. AcceptedBy(x) # {}
  BY <1>2 DEF BeliefSkips
<1>5. \A b \in Adapters : ~ Live(b) => (SavedSkips(b, x)' => SavedSkips(b, x))
  BY <1>1, ScanSaves, ScansAreLive DEF SavedSkips
<1>6. ASSUME NEW D, Quiet(D), x \in D
      PROVE  stored'[x] = disk[x].v
  <2>1. \A b \in AcceptedBy(x) : Skips(b, x)
    BY <1>1, <1>2, <1>3, <1>5, <1>6, QuietSkips, SkipsAre
  <2>2. BeliefSkips(x)
    BY <1>4, <2>1 DEF BeliefSkips
  <2>3. stored[x] = disk[x].v
    BY <2>2 DEF BeliefInv
  <2> QED
    BY <2>2, <2>3, ScanStores DEF BeliefInv
<1>7. CASE Quiet(Docs)
  BY <1>6, <1>7
<1>8. CASE Succeeds(r) /\ x # d
  BY <1>6, <1>8 DEF Succeeds
<1>9. CASE Succeeds(r) /\ x = d
  <2>1. stored'[x] = scan[r].v
    BY <1>9 DEF Succeeds, BaseInv, MarkdownTyped
  <2>2. ASSUME disk[x].v # scan[r].v
        PROVE  FALSE
    <3>1. \A b \in Adapters : ~ CacheSkips(b, x) /\ ~ SavedSkips(b, x)
      BY <1>9, <2>2 DEF Succeeds, BeliefInv, WriterInv
    <3>2. PICK b \in AcceptedBy(x) : IF Live(b) THEN CacheSkips(b, x)' ELSE SavedSkips(b, x)'
      BY <1>3, <1>4
    <3>3. b \in Adapters
      BY <1>2
    <3>4. ~ SavedSkips(b, x)' \/ Live(b)
      BY <1>5, <3>1, <3>3
    <3>5. ~ CacheSkips(b, x)'
      <4>1. CASE b = AdapterOf[r]
        BY <1>1, <1>9, <2>2, <4>1 DEF Succeeds, CacheSkips
      <4>2. CASE b # AdapterOf[r]
        BY <1>1, <1>9, <3>1, <3>3, <4>2 DEF Succeeds, CacheSkips
      <4> QED
        BY <4>1, <4>2
    <3> QED
      BY <3>2, <3>4, <3>5
  <2> QED
    BY <2>1, <2>2
<1> QED
  BY <1>7, <1>8, <1>9, QuietOrSuccess DEF BeliefInv

LEMMA ScanKeepsBelief ==
  ASSUME CappedAreUnshared, BaseInv, BaseInv', BeliefInv, NEW r \in Roots, ScanStep(r) \/ Stall(r)
  PROVE  BeliefInv'
<1>1. VersionInv' /\ SavedInv' /\ WriterInv' /\ MissingInv' /\ LargeInv' /\ ReleasedInv'
  BY ScanKeepsVersions, ScanKeepsSaved, ScanKeepsWriter, ScanKeepsMissing,
     ScanKeepsLarge, ScanKeepsReleased DEF BeliefInv
<1>2. UNCHANGED <<disk, released>>
  BY ScanStepGoes DEF ScanFrame
<1>3. ~ released => \A x \in Docs : BeliefSkips(x)' => stored'[x] = disk[x].v
  BY ScanKeepsBelieved
<1> QED
  BY <1>1, <1>2, <1>3 DEF BeliefInv

-----------------------------------------------------------------------------
(* And so do the other steps.                                              *)

(* Nothing that a belief rests on changes; scans end, or become quieter. *)
LEMMA CalmKeepsBelief ==
  ASSUME BeliefInv, UNCHANGED <<disk, stored, cache, saved, released>>,
         used'.edits = used.edits, \A a \in Adapters : Live(a)' <=> Live(a),
         ReleasedInv',
         \A q \in Roots : /\ \/ scan'[q] = scan[q]
                             \/ scan'[q].pc = "walk" /\ scan'[q].large = {}
                          /\ Missing(q)' \subseteq Missing(q)
  PROVE  BeliefInv'
<1>1. VersionInv' /\ SavedInv'
  BY DEF BeliefInv, VersionInv, SavedInv, CacheSkips, SavedSkips
<1>2. WriterInv'
  BY DEF BeliefInv, WriterInv, CacheSkips, SavedSkips, OtherOwner
<1>3. MissingInv'
  BY DEF BeliefInv, MissingInv, TakenOver, CacheSkips
<1>5. LargeInv'
  BY DEF BeliefInv, LargeInv, Scanning, CacheSkips
<1>4. ASSUME NEW d
      PROVE  BeliefSkips(d)' => BeliefSkips(d)
  <2>1. AcceptedBy(d)' = AcceptedBy(d) /\ AcceptedBy(d) \subseteq Adapters
    BY MarkdownAssumption DEF AcceptedBy
  <2>2. \A b \in Adapters : (Live(b)' <=> Live(b)) /\ UNCHANGED <<cache, saved>>
    OBVIOUS
  <2>3. \A b \in Adapters : Skips(b, d)' <=> Skips(b, d)
    BY <2>2, SkipsAre, SkipsAreNext DEF CacheSkips, SavedSkips
  <2> QED
    BY <2>1, <2>3 DEF BeliefSkips
<1> QED
  BY <1>1, <1>2, <1>3, <1>4, <1>5 DEF BeliefInv

LEMMA SameMissing ==
  ASSUME UNCHANGED scan, \A a : Stopping(a) => Stopping(a)'
  PROVE  \A q \in Roots : Missing(q)' \subseteq Missing(q)
BY DEF Missing, MissedBy

LEMMA WatcherKeepsBelief ==
  ASSUME BaseInv, BeliefInv, NEW r \in Roots, WatcherFires(r)
  PROVE  BeliefInv'
<1>1. UNCHANGED <<disk, stored, cache, saved, scan, host, released, used>>
  BY WatcherEffect DEF cacheVars
<1>2. (\A a : Live(a)' <=> Live(a)) /\ (\A a : Stopping(a)' <=> Stopping(a)) /\ ReleasedInv'
  BY <1>1 DEF Live, Stopping, BeliefInv, ReleasedInv, Scanning
<1> QED
  BY <1>1, <1>2, SameMissing, CalmKeepsBelief

LEMMA StopKeepsBelief ==
  ASSUME BaseInv, BeliefInv, Stop
  PROVE  BeliefInv'
<1>1. /\ UNCHANGED <<disk, stored, cache, saved, scan, released, used>>
      /\ host.phase = "on" /\ host' = [phase |-> "stopping", next |-> 1]
  BY DEF Stop, cacheVars, historyVars
<1>2. (\A a \in Adapters : Live(a)' <=> Live(a)) /\ (\A a : Stopping(a) => Stopping(a)') /\ ReleasedInv'
  BY <1>1 DEF Live, Stopping, ReleasedInv, Adapters
<1> QED
  BY <1>1, <1>2, SameMissing, CalmKeepsBelief

(* A scan that begins has missed nothing. *)
LEMMA BeginKeepsBelief ==
  ASSUME BaseInv, BeliefInv, NEW r \in Roots, Begin(r), used'.edits = used.edits,
         \A a \in Adapters : Live(a)' <=> Live(a),
         \A a : Stopping(a)' <=> Stopping(a), ReleasedInv'
  PROVE  BeliefInv'
<1>1. UNCHANGED <<disk, stored, cache, saved, released>>
  BY BeginEffect DEF cacheVars
<1>2. PICK s \in ScanStates : /\ scan' = [scan EXCEPT ![r] = s] /\ s.pc = "walk"
                              /\ s.todo = Covers[r] /\ s.seen = {} /\ s.large = {}
  BY BeginEffect
<1>3. ASSUME NEW q \in Roots
      PROVE  /\ scan'[q] = scan[q] \/ (scan'[q].pc = "walk" /\ scan'[q].large = {})
             /\ Missing(q)' \subseteq Missing(q)
  <2>1. CASE q = r
    <3>1. scan'[q] = s
      BY <1>2, <2>1 DEF BaseInv, MarkdownTyped
    <3> QED
      BY <1>2, <2>1, <3>1 DEF Missing, MissedBy
  <2>2. CASE q # r
    <3>1. scan'[q] = scan[q]
      BY <1>2, <2>2 DEF BaseInv, MarkdownTyped
    <3> QED
      BY <3>1 DEF Missing, MissedBy
  <2> QED
    BY <2>1, <2>2
<1> QED
  BY <1>1, <1>3, CalmKeepsBelief

(* With two adapters, no timer fires once the first of them is stopped. *)
LEMMA TimerKeepsBelief ==
  ASSUME NAdapters <= 2, BaseInv, BeliefInv, NEW r \in Roots, TimerFires(r)
  PROVE  BeliefInv'
<1>1. Begin(r) /\ UNCHANGED <<host, used, released>> /\ sched[r].timer
  BY BeginEffect DEF TimerFires
<1>2. (\A a : Live(a)' <=> Live(a)) /\ (\A a : Stopping(a)' <=> Stopping(a))
  BY <1>1 DEF Live, Stopping
<1>3. ~ Stopping(AdapterOf[r]) /\ AdapterOf[r] \in Adapters
  BY <1>1, MarkdownAssumption DEF BaseInv, HostInv
<1>4. ~ (host.phase = "stopping" /\ host.next > 1)
  BY <1>3, MarkdownAssumption DEF Stopping, Adapters, BaseInv, HostInv, MarkdownTyped
<1>5. ReleasedInv'
  BY <1>1, <1>4 DEF ReleasedInv
<1> QED
  BY <1>1, <1>2, <1>5, BeginKeepsBelief

LEMMA StartNextKeepsBelief ==
  ASSUME BaseInv, BeliefInv, StartNext
  PROVE  BeliefInv'
<1>1. host.phase = "starting" /\ used' = used /\ host'.phase \in {"starting", "on"}
  <2>1. host.phase = "starting" /\ used' = used
        /\ (host' = [phase |-> "on", next |-> 0] \/ host' = [host EXCEPT !.next = @ + 1])
    BY DEF StartNext
  <2>2. host \in Hosts
    BY DEF BaseInv, MarkdownTyped, Hosts
  <2> QED
    BY <2>1, <2>2 DEF Hosts
<1>2. /\ \A a \in Adapters : Live(a)' <=> Live(a)
      /\ \A a : Stopping(a)' <=> Stopping(a)
      /\ ReleasedInv'
  BY <1>1 DEF Live, Stopping, ReleasedInv
<1>3. CASE host.next > NRoots
  <2>1. UNCHANGED <<disk, stored, cache, saved, scan, released>>
    BY <1>3 DEF StartNext, cacheVars, historyVars
  <2> QED
    BY <1>1, <1>2, <2>1, SameMissing, CalmKeepsBelief
<1>4. CASE ~ (host.next > NRoots)
  <2>1. Begin(host.next)
    BY <1>4 DEF StartNext
  <2>2. host.next \in Roots
    <3>1. host.next \in Nat /\ host.next # 0 /\ NRoots \in Nat
      BY <1>1, MarkdownAssumption DEF BaseInv, MarkdownTyped, HostInv
    <3> QED
      BY <1>4, <3>1 DEF Roots
  <2> QED
    BY <1>1, <1>2, <2>1, <2>2, BeginKeepsBelief
<1> QED
  BY <1>3, <1>4

(* No scan runs: only snapshots are believed. *)
LEMMA OffIsIdle ==
  ASSUME BaseInv, host.phase = "off"
  PROVE  \A r \in Roots : ~ Scanning(r)
BY DEF BaseInv, HostInv, Live

IdleBelief ==
  /\ VersionInv /\ SavedInv /\ \A r \in Roots : ~ Scanning(r)
  /\ released \/ \A d \in Docs : BeliefSkips(d) => stored[d] = disk[d].v

LEMMA IdleKeepsBelief == IdleBelief => BeliefInv
BY DEF IdleBelief, BeliefInv, WriterInv, MissingInv, LargeInv, Missing, MissedBy, ReleasedInv,
   Scanning

LEMMA StartKeepsBelief ==
  ASSUME BaseInv, BeliefInv, Start
  PROVE  BeliefInv'
<1>1. /\ UNCHANGED <<disk, stored, saved, scan, released>> /\ cache' = saved
      /\ host.phase = "off" /\ host' = [phase |-> "starting", next |-> 1]
      /\ used'.edits = used.edits
  BY DEF Start, Spend, historyVars, BaseInv, MarkdownTyped
<1>2. \A r \in Roots : ~ Scanning(r)
  BY <1>1, OffIsIdle
<1>3. VersionInv' /\ SavedInv' /\ WriterInv' /\ MissingInv' /\ LargeInv' /\ ReleasedInv'
  BY <1>1, <1>2 DEF BeliefInv, VersionInv, SavedInv, WriterInv, MissingInv, Missing, MissedBy,
     LargeInv, ReleasedInv, CacheSkips, SavedSkips, Scanning
<1>4. ASSUME NEW d PROVE BeliefSkips(d)' => BeliefSkips(d)
  <2>1. AcceptedBy(d)' = AcceptedBy(d)
    BY <1>1 DEF AcceptedBy
  <2>2. \A b : Skips(b, d)' => Skips(b, d)
    BY <1>1 DEF Skips, Belief
  <2> QED
    BY <2>1, <2>2 DEF BeliefSkips
<1> QED
  BY <1>1, <1>3, <1>4 DEF BeliefInv

(* An adapter that has stopped believes what it saved. *)
LEMMA StopEndsKeepsBelief ==
  ASSUME BaseInv, BeliefInv, StopEnds
  PROVE  BeliefInv'
<1>0. PICK a : a = host.next
  OBVIOUS
<1>1. /\ host.phase = "stopping" /\ a = host.next /\ a \in Adapters /\ a \in Nat /\ NAdapters \in Nat
      /\ UNCHANGED <<disk, stored, scan>> /\ used'.edits = used.edits
      /\ \A r \in Roots : AdapterOf[r] = a => ~ Scanning(r)
      /\ SavedFrom(a) /\ cache' = [cache EXCEPT ![a] = Nothing]
      /\ released' = (released \/ \E r \in Roots : AdapterOf[r] # a /\ Scanning(r))
      /\ host' = IF a = NAdapters THEN [phase |-> "off", next |-> 0]
                 ELSE [phase |-> "stopping", next |-> a + 1]
  BY <1>0, StopEndsEffect, MarkdownAssumption DEF Adapters
<1>2. cache'[a] = Nothing /\ \A b \in Adapters \ {a} : cache'[b] = cache[b]
  BY <1>1 DEF BaseInv, MarkdownTyped
<1>3. /\ \A b \in Adapters \ {a} : saved'[b] = saved[b]
      /\ saved'[a] = saved[a] \/ saved'[a] = cache[a]
  BY <1>1 DEF SavedFrom
<1>4. Live(a) /\ ~ Live(a)' /\ \A b \in Adapters \ {a} : Live(b)' <=> Live(b)
  BY <1>1 DEF Live, Adapters
<1>5. \A d : \A b \in Adapters :
        /\ CacheSkips(b, d)' => CacheSkips(b, d) /\ b # a
        /\ SavedSkips(b, d)' => SavedSkips(b, d) \/ (b = a /\ CacheSkips(b, d))
        /\ d \in DOMAIN cache'[b] => d \in DOMAIN cache[b]
  BY <1>1, <1>2, <1>3, NothingIsMap DEF CacheSkips, SavedSkips
<1>6. VersionInv'
  <2>1. \A b \in Adapters : \A d \in DOMAIN cache'[b] :
          d \in DOMAIN cache[b] /\ cache'[b][d] = cache[b][d]
    BY <1>1, <1>2, NothingIsMap
  <2> QED
    BY <1>1, <1>3, <2>1 DEF BeliefInv, VersionInv
<1>7. SavedInv'
  BY <1>1, <1>2, <1>3, <1>4 DEF BeliefInv, SavedInv, CacheSkips, SavedSkips
<1>8. WriterInv'
  <2>1. \A d : \A b \in Adapters : OtherOwner(b, d)' => OtherOwner(b, d)
    BY <1>5 DEF OtherOwner
  <2>2. \A r \in Roots : AdapterOf[r] \in Adapters
    BY MarkdownAssumption
  <2> QED
    BY <1>1, <1>5, <2>1, <2>2 DEF BeliefInv, WriterInv
<1>9. ASSUME NEW r \in Roots, Scanning(r)
      PROVE  AdapterOf[r] \in Adapters \ {a} /\ host' = [phase |-> "stopping", next |-> a + 1]
  <2>1. AdapterOf[r] \in Adapters \ {a} /\ Live(AdapterOf[r])
    BY <1>1, <1>9, ScansAreLive, MarkdownAssumption
  <2> QED
    BY <1>1, <2>1 DEF Live, Adapters
<1>10. MissingInv'
  <2>1. ASSUME NEW r \in Roots, NEW x \in Missing(r)'
        PROVE  (TakenOver(r, x) \/ ~ CacheSkips(AdapterOf[r], x))'
    <3>1. Scanning(r)
      BY <1>1, <2>1 DEF Missing, MissedBy, Scanning
    <3>2. Stopping(AdapterOf[r]) => Stopping(AdapterOf[r])'
      BY <1>1, <1>9, <3>1 DEF Stopping, Adapters
    <3>3. x \in Missing(r)
      BY <1>1, <2>1, <3>2 DEF Missing, MissedBy
    <3> QED
      BY <1>1, <1>2, <1>9, <3>1, <3>3 DEF BeliefInv, MissingInv, TakenOver, CacheSkips
  <2> QED
    BY <2>1 DEF MissingInv
<1>11. ReleasedInv'
  BY <1>1 DEF ReleasedInv, Scanning
<1>13. LargeInv'
  <2>1. \A r \in Roots : AdapterOf[r] \in Adapters
    BY MarkdownAssumption
  <2> QED
    BY <1>1, <1>5, <2>1 DEF BeliefInv, LargeInv, Scanning
<1>12. ASSUME NEW d, BeliefSkips(d)' PROVE BeliefSkips(d)
  <2>1. AcceptedBy(d)' = AcceptedBy(d) /\ AcceptedBy(d) \subseteq Adapters
    BY <1>1, MarkdownAssumption DEF AcceptedBy
  <2>2. ASSUME NEW b \in AcceptedBy(d) PROVE Skips(b, d)
    <3>1. Skips(b, d)' /\ b \in Adapters /\ Accepts(b, d, disk[d].v) /\ d \in Docs
      BY <1>12, <2>1, MarkdownAssumption DEF BeliefSkips, AcceptedBy
    <3>2. CASE b # a
      BY <1>4, <1>5, <3>1, <3>2, SkipsAre, SkipsAreNext
    <3>3. CASE b = a
      <4>1. SavedSkips(a, d) \/ CacheSkips(a, d)
        BY <1>4, <1>5, <3>1, <3>3, SkipsAreNext
      <4>2. CacheSkips(a, d)
        BY <1>1, <1>4, <3>1, <3>3, <4>1 DEF BeliefInv, SavedInv
      <4> QED
        BY <1>4, <3>3, <4>2, SkipsAre
    <3> QED
      BY <3>2, <3>3
  <2> QED
    BY <1>12, <2>1, <2>2 DEF BeliefSkips
<1> QED
  BY <1>1, <1>6, <1>7, <1>8, <1>10, <1>11, <1>12, <1>13 DEF BeliefInv

(* A crash leaves the snapshots, and documents no one may believe in. *)
LEMMA CrashKeepsBelief ==
  ASSUME BaseInv, BeliefInv, Crash
  PROVE  BeliefInv'
<1>1. /\ UNCHANGED <<disk, saved, released, used>> /\ host.phase # "off"
      /\ host' = [phase |-> "off", next |-> 0] /\ cache' = [b \in Adapters |-> Nothing]
      /\ \A d \in Docs : stored'[d] \in Landed(d)
  BY DEF Crash
<1>2. VersionInv'
  BY <1>1, NothingIsMap DEF BeliefInv, VersionInv, Crash, IdleScan
<1>3. SavedInv'
  BY <1>1 DEF SavedInv, Live
<1>4. \A r \in Roots : ~ Scanning(r)'
  BY CrashKeepsBase
<1>5. ASSUME ~ released, NEW d \in Docs, BeliefSkips(d)'
      PROVE  stored'[d] = disk[d].v
  <2>1. AcceptedBy(d)' = AcceptedBy(d) /\ AcceptedBy(d) \subseteq Adapters
        /\ \A b \in AcceptedBy(d) : Accepts(b, d, disk[d].v)
    BY <1>1, MarkdownAssumption DEF AcceptedBy
  <2>2. \A b \in AcceptedBy(d) : SavedSkips(b, d)
    BY <1>1, <1>5, <2>1, SkipsAreNext DEF BeliefSkips, Live, SavedSkips
  <2>3. BeliefSkips(d)
    BY <1>5, <2>1, <2>2, SkipsAre DEF BeliefSkips, BeliefInv, SavedInv
  <2>4. \A r \in Roots : scan[r].doc = d => scan[r].pc \notin {"store", "delete", "unlist"}
    BY <1>5, <2>3, WriterBlocks DEF BeliefInv
  <2>5. Landed(d) = {stored[d]}
    BY <2>4 DEF Landed
  <2> QED
    BY <1>1, <1>5, <2>3, <2>5 DEF BeliefInv
<1>6. IdleBelief'
  BY <1>1, <1>2, <1>3, <1>4, <1>5 DEF IdleBelief
<1> QED
  BY <1>6, IdleKeepsBelief, PTL

(* No adapter has seen the version that an edit gives a file. *)
LEMMA EditKeepsBelief ==
  ASSUME ~ MayRevert, BaseInv, BeliefInv, NEW d \in Docs, Edit(d)
  PROVE  BeliefInv'
<1>1. /\ UNCHANGED <<stored, cache, saved, scan, host, released>>
      /\ used'.edits = used.edits + 1 /\ used.edits \in Nat
      /\ \A x \in Docs \ {d} : disk'[x] = disk[x]
      /\ disk'[d].v \in {0, used.edits + 2}
  BY EditEffect DEF cacheVars, BaseInv, MarkdownTyped
<1>2. \A b \in Adapters : \A f \in {cache[b], saved[b]} : d \in DOMAIN f => f[d].v # disk'[d].v
  <2>1. ASSUME NEW b \in Adapters, NEW f \in {cache[b], saved[b]}, d \in DOMAIN f
        PROVE  f[d].v # disk'[d].v
    <3>1. f \in Maps
      BY DEF BaseInv, MarkdownTyped
    <3>2. f[d].v \in Nat \ {0}
      BY <2>1, <3>1, MapFacts
    <3>3. f[d].v <= used.edits + 1
      BY <2>1 DEF BeliefInv, VersionInv
    <3> QED
      BY <1>1, <3>2, <3>3
  <2> QED
    BY <2>1
<1>3. \A b \in Adapters : ~ CacheSkips(b, d)' /\ ~ SavedSkips(b, d)'
  BY <1>1, <1>2 DEF CacheSkips, SavedSkips
<1>4. \A b \in Adapters, x \in Docs \ {d} : (CacheSkips(b, x)' <=> CacheSkips(b, x))
                                         /\ (SavedSkips(b, x)' <=> SavedSkips(b, x))
  BY <1>1 DEF CacheSkips, SavedSkips
<1>5. \A b : (Live(b)' <=> Live(b)) /\ (Stopping(b)' <=> Stopping(b))
  BY <1>1 DEF Live, Stopping
<1>6. VersionInv'
  <2>1. \A x \in Docs : disk'[x].v <= used.edits + 2
    <3>1. \A x \in Docs : disk[x].v \in Nat /\ disk[x].v <= used.edits + 1
      BY DEF BaseInv, MarkdownTyped, BeliefInv, VersionInv
    <3> QED
      BY <1>1, <3>1
  <2>2. \A b \in Adapters : \A f \in {cache[b], saved[b]} :
          \A x \in DOMAIN f : f[x].v <= used.edits + 2
    <3>1. ASSUME NEW b \in Adapters, NEW f \in {cache[b], saved[b]}, NEW x \in DOMAIN f
          PROVE  f[x].v <= used.edits + 2
      <4>1. f \in Maps
        BY DEF BaseInv, MarkdownTyped
      <4>2. f[x].v \in Nat /\ f[x].v <= used.edits + 1
        BY <4>1, MapFacts DEF BeliefInv, VersionInv
      <4> QED
        BY <1>1, <4>2
    <3> QED
      BY <3>1
  <2>3. ASSUME NEW r \in Roots, scan[r].pc = "store"
        PROVE  scan[r].v <= used.edits + 2
    <3>1. scan[r].v \in Nat
      BY ScanFields DEF BaseInv, CoverInv, ScanOK
    <3>2. scan[r].v <= used.edits + 1
      BY <2>3 DEF BeliefInv, VersionInv
    <3> QED
      BY <1>1, <3>1, <3>2
  <2>4. used'.edits + 1 = used.edits + 2
    BY <1>1
  <2> QED
    BY <1>1, <2>1, <2>2, <2>3, <2>4 DEF VersionInv
<1>7. SavedInv'
  BY <1>1, <1>3, <1>4, <1>5 DEF BeliefInv, SavedInv
<1>8. WriterInv'
  <2>1. ASSUME NEW r \in Roots, scan[r].pc \in {"store", "delete", "unlist"}
        PROVE  scan[r].doc \in Docs /\ AdapterOf[r] \in Adapters
    BY <2>1, ScanFields, DocsAreNumbers, MarkdownAssumption
       DEF BaseInv, CoverInv, ScanOK, Writing
  <2>2. \A b, x : OtherOwner(b, x)' <=> OtherOwner(b, x)
    BY <1>1 DEF OtherOwner
  <2> QED
    BY <1>1, <1>3, <1>4, <2>1, <2>2 DEF BeliefInv, WriterInv
<1>9. MissingInv'
  <2>1. \A r \in Roots : Missing(r)' = Missing(r) /\ Missing(r) \subseteq Docs
                         /\ AdapterOf[r] \in Adapters
    <3>1. \A r \in Roots : ScanOK(r, scan[r]) /\ Covers[r] \subseteq Docs /\ AdapterOf[r] \in Adapters
      BY MarkdownAssumption DEF BaseInv, CoverInv
    <3> QED
      BY <1>1, <1>5, <3>1 DEF Missing, MissedBy, ScanOK
  <2>2. \A r, x : TakenOver(r, x)' <=> TakenOver(r, x)
    BY <1>1 DEF TakenOver
  <2> QED
    BY <1>3, <1>4, <2>1, <2>2 DEF BeliefInv, MissingInv
<1>10. ReleasedInv'
  BY <1>1 DEF BeliefInv, ReleasedInv, Scanning
<1>12. LargeInv'
  <2>1. \A r \in Roots : scan[r].large \subseteq Docs /\ AdapterOf[r] \in Adapters
    BY ScanFields, MarkdownAssumption DEF BaseInv, CoverInv, ScanOK
  <2> QED
    BY <1>1, <1>3, <1>4, <2>1 DEF BeliefInv, LargeInv, Scanning
<1>11. ASSUME NEW x \in Docs, BeliefSkips(x)'
       PROVE  x # d /\ disk'[x] = disk[x] /\ BeliefSkips(x)
  <2>1. AcceptedBy(x)' \subseteq Adapters /\ AcceptedBy(x)' # {}
    BY <1>11, MarkdownAssumption DEF BeliefSkips, AcceptedBy
  <2>2. x # d
    BY <1>3, <1>11, <2>1, SkipsAreNext DEF BeliefSkips
  <2>3. AcceptedBy(x)' = AcceptedBy(x)
    BY <1>1, <2>2 DEF AcceptedBy
  <2>4. \A b \in Adapters : Skips(b, x)' => Skips(b, x)
    BY <1>4, <1>5, <2>2, SkipsAre, SkipsAreNext
  <2> QED
    BY <1>1, <1>11, <2>1, <2>2, <2>3, <2>4 DEF BeliefSkips
<1> QED
  BY <1>1, <1>6, <1>7, <1>8, <1>9, <1>10, <1>11, <1>12 DEF BeliefInv

LEMMA InitBelief ==
  ASSUME Init
  PROVE  BeliefInv
<1>1. \A b \in Adapters : cache[b] = Nothing /\ saved[b] = Nothing
  BY DEF Init
<1>2. VersionInv
  <2>1. \A d \in Docs : disk[d].v <= used.edits + 1
    <3>1. used.edits = 0 /\ \A d \in Docs : disk[d].v \in {0, 1}
      BY DEF Init
    <3> QED
      BY <3>1
  <2>2. \A r \in Roots : scan[r].pc # "store"
    BY InitBase DEF Init, IdleScan
  <2> QED
    BY <1>1, <2>1, <2>2, NothingIsMap DEF VersionInv
<1>3. SavedInv
  BY DEF SavedInv, Live, Init
<1>4. \A d \in Docs : ~ BeliefSkips(d)
  BY <1>1, NothingIsMap, MarkdownAssumption DEF BeliefSkips, AcceptedBy, Skips, Belief
<1> QED
  BY <1>2, <1>3, <1>4, InitBase, IdleKeepsBelief DEF IdleBelief

(* With the adapters that the plugin makes, at most two, and files that do *)
(* not return to an earlier content, a file that every adapter accepting   *)
(* it would skip at its next scan (isUnchanged, the content hash) is in    *)
(* the daemon as it is: after any failed or half-served calls, crashes,    *)
(* takeovers and restarts, unless an adapter was stopped during a scan of  *)
(* the other (Composite.stop releases the first one's ownership then).  A  *)
(* file over the cap must not be under two roots of one adapter: one of    *)
(* them may delete, for the size its walk saw, what the other has stored   *)
(* since.                                                                  *)
THEOREM SkippedIsStored ==
  ASSUME ~ MayRevert, NAdapters <= 2, CappedAreUnshared
  PROVE  Spec => []SkipMeansStoredUnlessReleased
<1>1. Init => BeliefInv
  BY InitBelief
<1>2. ASSUME BaseInv, BaseInv', BeliefInv, [Next]_vars PROVE BeliefInv'
  <2>1. CASE \E d \in Docs : Edit(d)
    BY <1>2, <2>1, EditKeepsBelief
  <2>2. CASE \E r \in Roots : WatcherFires(r)
    BY <1>2, <2>2, WatcherKeepsBelief
  <2>3. CASE \E r \in Roots : TimerFires(r)
    BY <1>2, <2>3, TimerKeepsBelief
  <2>4. CASE \E r \in Roots : ScanStep(r) \/ Stall(r)
    BY <1>2, <2>4, ScanKeepsBelief
  <2>5. CASE Start
    BY <1>2, <2>5, StartKeepsBelief
  <2>6. CASE StartNext
    BY <1>2, <2>6, StartNextKeepsBelief
  <2>7. CASE Stop
    BY <1>2, <2>7, StopKeepsBelief
  <2>8. CASE StopEnds
    BY <1>2, <2>8, StopEndsKeepsBelief
  <2>9. CASE Crash
    BY <1>2, <2>9, CrashKeepsBelief
  <2>10. CASE UNCHANGED vars
    <3>1. UNCHANGED <<disk, stored, cache, saved, scan, host, released, used>>
      BY <2>10 DEF vars, cacheVars, historyVars
    <3>2. (\A a : Live(a)' <=> Live(a)) /\ (\A a : Stopping(a)' <=> Stopping(a)) /\ ReleasedInv'
      BY <1>2, <3>1 DEF Live, Stopping, BeliefInv, ReleasedInv, Scanning
    <3> QED
      BY <1>2, <3>1, <3>2, SameMissing, CalmKeepsBelief
  <2> QED
    BY <1>2, <2>1, <2>2, <2>3, <2>4, <2>5, <2>6, <2>7, <2>8, <2>9, <2>10 DEF Next
<1>3. BeliefInv => SkipMeansStoredUnlessReleased
  BY DEF BeliefInv, BeliefSkips, SkipMeansStoredUnlessReleased, SkipMeansStored
<1> QED
  BY <1>1, <1>2, <1>3, BaseHolds, PTL DEF Spec
=============================================================================
