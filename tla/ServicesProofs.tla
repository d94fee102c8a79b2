---------------------------- MODULE ServicesProofs ----------------------------
(***************************************************************************)
(* Proofs about what serves every session: dream promotion, the rule store *)
(* and semantic recall.  They share no state and no step.                  *)
(***************************************************************************)
EXTENDS RecallCircuit, DreamPromotion, RuleStore, SequenceTheorems, FiniteSetTheorems,
        WellFoundedInduction, TLAPS

-----------------------------------------------------------------------------
(***************************************************************************)
(* DreamPromotion, for any contents, edits, stops and failures: what is    *)
(* left when the service has stopped, and what a scan may skip.            *)
(*                                                                         *)
(* A scan skips a diary whose stamp is the one of lastFile.  That is right *)
(* only if a stamp that is remembered goes with content that is no newer   *)
(* (StampInv) and the daemon holds what was remembered (HeldInv).          *)
(***************************************************************************)


Diaries == Contents \cup {NoDiary}

DreamTyped ==
  /\ diary \in [content : Diaries, stamp : Nat, directory : Nat \ {0}]
  /\ lastFile \in [content : Diaries, stamp : Int]
  /\ scan \in [at : {"idle", "stat", "read", "request"}, stamp : Nat, content : Diaries]
  /\ notices \subseteq {"change", "rename"}

QuietInv ==
  /\ ~ watching => ~ timer /\ watcher = 0 /\ ~ parentWatcher /\ notices = {}
  /\ Scanning => (watching \/ stopping) /\ ~ timer

StampInv ==
  /\ lastFile.stamp <= diary.stamp
  /\ lastFile.stamp = diary.stamp => lastFile.content = diary.content
  /\ scan.at \in {"read", "request"} => scan.stamp <= diary.stamp
  /\ scan.at = "request" /\ scan.content # NoDiary /\ scan.stamp = diary.stamp =>
       scan.content = diary.content

HeldInv ==
  /\ sent => scan.at = "request" /\ promoted = Promotes(scan.content)
  /\ lastFile = NoFile \/ lastFile.stamp >= 0
  /\ (lastFile # NoFile \/ reconciled) /\ ~ unsure /\ ~ sent =>
       promoted = Promotes(lastFile.content)

DreamInv == DreamTyped /\ QuietInv /\ StampInv /\ HeldInv

(* A scan of the diary as it is now would be skipped only if the daemon    *)
(* holds what this diary promotes, or a reply was lost.                    *)
SkipIsSafe ==
  lastFile.stamp = diary.stamp /\ ~ unsure /\ ~ sent => promoted = Promotes(diary.content)

(* The invariant holds before the service is first started.               *)
LEMMA Starts == DreamInit => DreamInv
<1> SUFFICES ASSUME DreamInit PROVE DreamInv
  OBVIOUS
<1>1. DreamTyped
  BY DEF DreamInit, DreamTyped, Diaries, NoFile, NoScan
<1>2. QuietInv
  BY DEF DreamInit, QuietInv, Scanning, NoScan
<1>3. StampInv
  BY DEF DreamInit, StampInv, NoFile, NoScan
<1>4. HeldInv
  BY DEF DreamInit, HeldInv
<1> QED
  BY <1>1, <1>2, <1>3, <1>4 DEF DreamInv

(* The fields of typed records have their types. *)
LEMMA RecordsTyped ==
  ASSUME DreamTyped
  PROVE  /\ diary.content \in Diaries /\ diary.stamp \in Nat /\ diary.directory \in Nat \ {0}
         /\ lastFile.content \in Diaries /\ lastFile.stamp \in Int
         /\ scan.stamp \in Nat /\ scan.content \in Diaries
         /\ scan.at \in {"idle", "stat", "read", "request"}
         /\ NoScan \in [at : {"idle", "stat", "read", "request"}, stamp : Nat, content : Diaries]
         /\ NoFile \in [content : Diaries, stamp : Int]
BY DEF DreamTyped, NoScan, NoFile, Diaries

(* Whoever edits the diary or moves its directory gives it a later stamp. *)
LEMMA EditMoves ==
  ASSUME DreamTyped, NEW content \in Diaries, Edit(content) \/ DirectoryReplaced(content)
  PROVE  /\ diary' \in [content : Diaries, stamp : Nat, directory : Nat \ {0}]
         /\ diary'.stamp = diary.stamp + 1
<1>0. diary.stamp + 1 \in Nat /\ diary.directory + 1 \in Nat \ {0}
  BY RecordsTyped
<1>1. CASE Edit(content)
  <2>1. diary' = [diary EXCEPT !.content = content, !.stamp = diary.stamp + 1]
    BY <1>1 DEF Edit
  <2> QED
    BY <1>0, <2>1 DEF DreamTyped
<1>2. CASE DirectoryReplaced(content)
  <2>1. diary' = [content |-> content, stamp |-> diary.stamp + 1,
                  directory |-> diary.directory + 1]
    BY <1>2 DEF DirectoryReplaced
  <2> QED
    BY <1>0, <2>1
<1> QED
  BY <1>1, <1>2

(* Types are kept: only an edit changes the diary, and only a scan that  *)
(* reads or ends changes lastFile.                                        *)
LEMMA Types == DreamInv /\ [DreamNext]_dreamVars => DreamTyped'
<1> SUFFICES ASSUME DreamInv, [DreamNext]_dreamVars PROVE DreamTyped'
  OBVIOUS
<1>0. DreamTyped
  BY DEF DreamInv
<1>1. CASE DreamStart \/ DreamRefresh \/ DreamStop \/ DreamStopped \/ ScanStarts
           \/ DiaryChanged \/ DirectoryChanged \/ WatchError \/ DaemonPromotes
           \/ UNCHANGED dreamVars
  <2>1. diary' = diary /\ lastFile' = lastFile
    BY <1>1 DEF DreamStart, DreamRefresh, DreamStop, DreamStopped, ScanStarts, DiaryChanged,
       DirectoryChanged, WatchError, DaemonPromotes, dreamVars, handleVars, worldVars
  <2>2. scan' = scan \/ scan' = [NoScan EXCEPT !.at = "stat"]
    BY <1>1 DEF DreamStart, DreamRefresh, DreamStop, DreamStopped, ScanStarts, DiaryChanged,
       DirectoryChanged, WatchError, DaemonPromotes, dreamVars, handleVars, worldVars
  <2>3. notices' \subseteq notices
    BY <1>1 DEF DreamStart, DreamRefresh, DreamStop, DreamStopped, ScanStarts, DiaryChanged,
       DirectoryChanged, WatchError, DaemonPromotes, dreamVars, handleVars, worldVars
  <2>4. [NoScan EXCEPT !.at = "stat"]
          \in [at : {"idle", "stat", "read", "request"}, stamp : Nat, content : Diaries]
    BY <1>0, RecordsTyped DEF NoScan
  <2> QED
    BY <1>0, <2>1, <2>2, <2>3, <2>4 DEF DreamTyped
<1>2. ASSUME NEW content \in Diaries, Edit(content) \/ DirectoryReplaced(content)
      PROVE  DreamTyped'
  <2>1. diary' \in [content : Diaries, stamp : Nat, directory : Nat \ {0}]
    BY <1>0, <1>2, EditMoves
  <2>2. notices' \subseteq notices \cup {"change", "rename"}
    BY <1>2 DEF Edit, DirectoryReplaced
  <2>3. lastFile' = lastFile /\ scan' = scan
    BY <1>2 DEF Edit, DirectoryReplaced, handleVars
  <2> QED
    BY <1>0, <2>1, <2>2, <2>3 DEF DreamTyped
<1>3. CASE Stat \/ Read \/ Promoted \/ ScanFails
  <2>1. diary' = diary /\ notices' = notices
    BY <1>3 DEF Stat, Read, Promoted, ScanFails, worldVars
  <2>2. scan' \in [at : {"idle", "stat", "read", "request"}, stamp : Nat, content : Diaries]
    BY <1>0, <1>3, RecordsTyped
       DEF Stat, Read, Promoted, ScanFails, ScanEnds, Missing, DreamTyped, NoScan
  <2>3. lastFile' \in [content : Diaries, stamp : Int]
    BY <1>0, <1>3, RecordsTyped
       DEF Stat, Read, Promoted, ScanFails, ScanEnds, Missing, DreamTyped
  <2> QED
    BY <1>0, <2>1, <2>2, <2>3 DEF DreamTyped
<1> QED
  BY <1>1, <1>2, <1>3 DEF DreamNext, DreamWorks, Diaries

(* A service that is not watching has no timer, watch or notice, and a    *)
(* scan that is under way was left to stop() to await.                    *)
LEMMA Quiet == DreamInv /\ [DreamNext]_dreamVars => QuietInv'
<1> SUFFICES ASSUME DreamInv, [DreamNext]_dreamVars PROVE QuietInv'
  OBVIOUS
<1>0. QuietInv /\ DreamTyped
  BY DEF DreamInv
<1>1. CASE DreamStart
  <2>1. /\ watching' /\ (Scanning' <=> Scanning)
        /\ Scanning => ~ timer'
    BY <1>1 DEF DreamStart, Scanning
  <2> QED
    BY <2>1 DEF QuietInv
<1>2. CASE DreamStop \/ DreamStopped \/ DaemonPromotes \/ UNCHANGED dreamVars
  BY <1>0, <1>2 DEF QuietInv, DreamStop, DreamStopped, DaemonPromotes, Scanning,
     dreamVars, handleVars, worldVars
<1>3. CASE DreamRefresh \/ DiaryChanged \/ DirectoryChanged \/ WatchError
  <2>1. watching
    BY <1>0, <1>3 DEF QuietInv, DreamRefresh, DiaryChanged, DirectoryChanged, WatchError
  <2>2. watching' /\ (Scanning' <=> Scanning)
    BY <2>1, <1>3
       DEF DreamRefresh, DiaryChanged, DirectoryChanged, WatchError, Scanning
  <2>3. \E marked \in {TRUE, dirty} : DiaryRefreshed(marked, Scanning)
    BY <1>3 DEF DreamRefresh, DiaryChanged, DirectoryChanged, WatchError
  <2>4. Scanning => ~ timer'
    BY <1>0, <2>3 DEF DiaryRefreshed, QuietInv
  <2> QED
    BY <2>2, <2>4 DEF QuietInv
<1>4. ASSUME NEW content \in Diaries, Edit(content) \/ DirectoryReplaced(content)
      PROVE  QuietInv'
  <2>1. diary.directory # 0
    BY <1>0, RecordsTyped
  <2> QED
    BY <1>0, <1>4, <2>1 DEF QuietInv, Edit, DirectoryReplaced, handleVars, Scanning
<1>5. CASE ScanStarts
  BY <1>0, <1>5 DEF QuietInv, ScanStarts, worldVars, Scanning
<1>6. CASE Stat \/ Read \/ Promoted \/ ScanFails
  <2>1. /\ watching' = watching /\ watcher' = watcher /\ parentWatcher' = parentWatcher
        /\ notices' = notices /\ stopping' = stopping
    BY <1>6 DEF Stat, Read, Promoted, ScanFails, worldVars
  <2>2. Scanning
    BY <1>6 DEF Stat, Read, Promoted, ScanFails, Scanning
  <2>3. ~ watching /\ ~ timer => ~ timer'
    BY <1>6 DEF Stat, Read, Promoted, ScanFails, ScanEnds, Missing
  <2>4. Scanning' => ~ timer \/ ~ timer'
    BY <1>0, <2>2 DEF QuietInv
  <2>5. Scanning' => (timer' = timer)
    BY <1>6 DEF Stat, Read, Promoted, ScanFails, ScanEnds, Missing, Scanning, NoScan
  <2>6. Scanning' => ~ timer'
    BY <2>4, <2>5
  <2>7. Scanning' => watching' \/ stopping'
    BY <1>0, <2>1, <2>2 DEF QuietInv
  <2> QED
    BY <1>0, <2>1, <2>3, <2>6, <2>7 DEF QuietInv
<1> QED
  BY <1>1, <1>2, <1>3, <1>4, <1>5, <1>6 DEF DreamNext, DreamWorks, Diaries

(* The stamp of lastFile is taken before its content is read, so it is    *)
(* never later than the content, and an edit leaves both behind.          *)
LEMMA Stamps == DreamInv /\ [DreamNext]_dreamVars => StampInv'
<1> SUFFICES ASSUME DreamInv, [DreamNext]_dreamVars PROVE StampInv'
  OBVIOUS
<1>0. StampInv /\ DreamTyped
  BY DEF DreamInv
<1>1. CASE DreamStart \/ DreamRefresh \/ DreamStop \/ DreamStopped \/ ScanStarts
           \/ DiaryChanged \/ DirectoryChanged \/ WatchError \/ DaemonPromotes
           \/ ScanFails \/ UNCHANGED dreamVars
  <2>1. diary' = diary /\ lastFile' = lastFile
    BY <1>1 DEF DreamStart, DreamRefresh, DreamStop, DreamStopped, ScanStarts, DiaryChanged,
       DirectoryChanged, WatchError, DaemonPromotes, ScanFails, dreamVars, handleVars, worldVars
  <2>2. scan' = scan \/ scan' = NoScan \/ scan' = [NoScan EXCEPT !.at = "stat"]
    BY <1>1 DEF DreamStart, DreamRefresh, DreamStop, DreamStopped, ScanStarts, DiaryChanged,
       DirectoryChanged, WatchError, DaemonPromotes, ScanFails, ScanEnds, dreamVars,
       handleVars, worldVars
  <2>3. scan' = scan \/ scan'.at \in {"idle", "stat"}
    BY <2>2 DEF NoScan
  <2> QED
    BY <1>0, <2>1, <2>3 DEF StampInv
<1>2. ASSUME NEW content \in Diaries, Edit(content) \/ DirectoryReplaced(content)
      PROVE  StampInv'
  <2>1. lastFile' = lastFile /\ scan' = scan
    BY <1>2 DEF Edit, DirectoryReplaced, handleVars
  <2>2. diary'.stamp = diary.stamp + 1
    BY <1>0, <1>2, EditMoves
  <2>3. lastFile.stamp \in Int /\ diary.stamp \in Nat /\ scan.stamp \in Nat
    BY <1>0, RecordsTyped
  <2>4. lastFile'.stamp <= diary'.stamp /\ lastFile'.stamp # diary'.stamp
    BY <1>0, <2>1, <2>2, <2>3 DEF StampInv
  <2>5. scan'.at \in {"read", "request"} =>
          scan'.stamp <= diary'.stamp /\ scan'.stamp # diary'.stamp
    BY <1>0, <2>1, <2>2, <2>3 DEF StampInv
  <2> QED
    BY <2>4, <2>5 DEF StampInv
<1>3. CASE Stat \/ Read
  <2>1. diary' = diary
    BY <1>3 DEF Stat, Read, worldVars
  <2>2. \/ lastFile' = lastFile
        \/ /\ lastFile' = [lastFile EXCEPT !.stamp = scan.stamp]
           /\ scan.at = "read" /\ lastFile.content = diary.content
    BY <1>3 DEF Stat, Read, Missing
  <2>3. lastFile'.stamp <= diary'.stamp
        /\ (lastFile'.stamp = diary'.stamp => lastFile'.content = diary'.content)
    BY <1>0, <2>1, <2>2 DEF StampInv, DreamTyped
  <2>4. \/ scan' = NoScan
        \/ scan' = [NoScan EXCEPT !.at = "request"]
        \/ scan' = [scan EXCEPT !.at = "read", !.stamp = diary.stamp]
        \/ scan.at = "read" /\ scan' = [scan EXCEPT !.at = "request", !.content = diary.content]
    BY <1>3 DEF Stat, Read, Missing, ScanEnds
  <2>5. ASSUME scan' = NoScan \/ scan' = [NoScan EXCEPT !.at = "request"]
        PROVE  scan'.stamp = 0 /\ scan'.content = NoDiary
    BY <2>5 DEF NoScan
  <2>6. ASSUME scan' = [scan EXCEPT !.at = "read", !.stamp = diary.stamp]
        PROVE  scan'.at = "read" /\ scan'.stamp = diary.stamp
    BY <1>0, <2>6 DEF DreamTyped
  <2>7. ASSUME scan' = [scan EXCEPT !.at = "request", !.content = diary.content]
        PROVE  scan'.stamp = scan.stamp /\ scan'.content = diary.content
    BY <1>0, <2>7 DEF DreamTyped
  <2>8. diary.stamp \in Nat /\ scan.stamp \in Nat
    BY <1>0, RecordsTyped
  <2>9. scan'.at \in {"read", "request"} => scan'.stamp <= diary'.stamp
    BY <1>0, <2>1, <2>4, <2>5, <2>6, <2>7, <2>8 DEF StampInv
  <2>10. scan'.at = "request" /\ scan'.content # NoDiary => scan'.content = diary'.content
    BY <2>1, <2>4, <2>5, <2>6, <2>7
  <2> QED
    BY <2>3, <2>9, <2>10 DEF StampInv
<1>4. CASE Promoted
  <2>1. diary' = diary /\ scan' = NoScan
    BY <1>4 DEF Promoted, ScanEnds
  <2>2. CASE scan.content = NoDiary
    <3>1. lastFile' = NoFile /\ diary.stamp \in Nat
      BY <1>0, <1>4, <2>2, RecordsTyped DEF Promoted
    <3> QED
      BY <2>1, <3>1 DEF StampInv, NoFile, NoScan
  <2>3. CASE scan.content # NoDiary
    <3>1. lastFile' = [content |-> scan.content, stamp |-> scan.stamp] /\ scan.at = "request"
      BY <1>4, <2>3 DEF Promoted
    <3> QED
      BY <1>0, <2>1, <2>3, <3>1 DEF StampInv, NoScan
  <2> QED
    BY <2>2, <2>3
<1> QED
  BY <1>1, <1>2, <1>3, <1>4 DEF DreamNext, DreamWorks, Diaries

(* lastFile is written only after the daemon has acted on its content.    *)
LEMMA Held == DreamInv /\ [DreamNext]_dreamVars => HeldInv'
<1> SUFFICES ASSUME DreamInv, [DreamNext]_dreamVars PROVE HeldInv'
  OBVIOUS
<1>0. HeldInv /\ DreamTyped
  BY DEF DreamInv
<1>1. CASE DreamStart \/ DreamRefresh \/ DreamStop \/ DreamStopped \/ DiaryChanged
           \/ DirectoryChanged \/ WatchError \/ UNCHANGED dreamVars
           \/ \E content \in Diaries : Edit(content) \/ DirectoryReplaced(content)
  <2>1. /\ lastFile' = lastFile /\ reconciled' = reconciled /\ scan' = scan
        /\ sent' = sent /\ promoted' = promoted /\ unsure' = unsure
    BY <1>1 DEF DreamStart, DreamRefresh, DreamStop, DreamStopped, DiaryChanged,
       DirectoryChanged, WatchError, Edit, DirectoryReplaced, dreamVars, handleVars, worldVars
  <2> QED
    BY <1>0, <2>1 DEF HeldInv
<1>2. CASE ScanStarts
  <2>1. /\ lastFile' = lastFile /\ reconciled' = reconciled /\ sent' = sent
        /\ promoted' = promoted /\ unsure' = unsure
    BY <1>2 DEF ScanStarts, worldVars
  <2>2. ~ sent
    BY <1>0, <1>2 DEF ScanStarts, HeldInv, DreamInv, QuietInv, Scanning
  <2> QED
    BY <1>0, <2>1, <2>2 DEF HeldInv
<1>3. CASE Stat \/ Read
  <2>1. ~ sent /\ ~ sent'
    BY <1>0, <1>3 DEF Stat, Read, Missing, ScanEnds, HeldInv
  <2>2. promoted' = promoted /\ unsure' = unsure
    BY <1>3 DEF Stat, Read, worldVars
  <2>3. reconciled' => reconciled
    BY <1>3 DEF Stat, Read, Missing
  <2>4. \/ lastFile' = lastFile
        \/ /\ lastFile' = [lastFile EXCEPT !.stamp = scan.stamp]
           /\ lastFile.content # NoDiary
    BY <1>3 DEF Stat, Read, Missing
  <2>5. /\ lastFile'.content = lastFile.content
        /\ lastFile' = NoFile => lastFile = NoFile
        /\ lastFile' = NoFile \/ lastFile'.stamp >= 0
    BY <1>0, <2>4, RecordsTyped DEF HeldInv, DreamTyped, NoFile
  <2>6. lastFile' # NoFile => lastFile # NoFile
    BY <2>4 DEF NoFile
  <2> QED
    BY <1>0, <2>1, <2>2, <2>3, <2>5, <2>6 DEF HeldInv
<1>4. CASE DaemonPromotes
  <2>1. /\ lastFile' = lastFile /\ scan' = scan /\ sent'
        /\ scan.at = "request" /\ promoted' = Promotes(scan.content)
    BY <1>4 DEF DaemonPromotes, handleVars
  <2>2. promoted' = Promotes(scan.content)'
    BY <2>1 DEF Promotes, Promotable, Contents, Candidates
  <2> QED
    BY <1>0, <2>1, <2>2 DEF HeldInv
<1>5. CASE Promoted
  <2>1. sent /\ ~ sent' /\ promoted' = promoted
    BY <1>5 DEF Promoted, ScanEnds
  <2>2. promoted = Promotes(scan.content)
    BY <1>0, <2>1 DEF HeldInv
  <2>3. lastFile'.content = scan.content
    BY <1>5 DEF Promoted, NoFile
  <2>4. lastFile' = NoFile \/ lastFile'.stamp >= 0
    BY <1>0, <1>5, RecordsTyped DEF Promoted
  <2> QED
    BY <2>1, <2>2, <2>3, <2>4 DEF HeldInv
<1>6. CASE ScanFails
  <2>1. ~ sent' /\ lastFile' = lastFile /\ reconciled' = reconciled /\ promoted' = promoted
    BY <1>6 DEF ScanFails, ScanEnds
  <2>2. ~ unsure' => ~ unsure /\ ~ sent
    BY <1>6 DEF ScanFails
  <2> QED
    BY <1>0, <2>1, <2>2 DEF HeldInv
<1> QED
  BY <1>1, <1>2, <1>3, <1>4, <1>5, <1>6 DEF DreamNext, DreamWorks, Diaries

(* Every step keeps the four parts.                                       *)
LEMMA Inductive == DreamInv /\ [DreamNext]_dreamVars => DreamInv'
BY Types, Quiet, Stamps, Held DEF DreamInv

(* The invariant holds in every state the service reaches.                *)
LEMMA Reached == DreamSpec => []DreamInv
BY Starts, Inductive, PTL DEF DreamSpec

(* After stop() has returned, in any interleaving of edits, watch events,  *)
(* failures and a scan that was under way, no scan, timer or watch is left *)
(* (src/dream-promotion.ts, stop and scheduleScan).                        *)
THEOREM ServiceStopsQuietly == DreamSpec => []StoppedIsQuiet
<1>1. DreamInv => StoppedIsQuiet
  BY DEF DreamInv, QuietInv, StoppedIsQuiet
<1> QED
  BY <1>1, Reached, PTL

(* A diary that scanDiary skips because its stamp is known is one whose    *)
(* candidates the daemon holds, unless a reply was lost or is on its way.  *)
THEOREM SkippedDiaryIsHeld == DreamSpec => []SkipIsSafe
<1>1. DreamInv => SkipIsSafe
  <2> SUFFICES ASSUME DreamInv, lastFile.stamp = diary.stamp, ~ unsure, ~ sent
               PROVE  promoted = Promotes(diary.content)
    BY DEF SkipIsSafe
  <2>1. lastFile.content = diary.content
    BY DEF DreamInv, StampInv
  <2>2. lastFile # NoFile
    BY RecordsTyped DEF DreamInv, NoFile
  <2> QED
    BY <2>1, <2>2 DEF DreamInv, HeldInv
<1> QED
  BY <1>1, Reached, PTL

-----------------------------------------------------------------------------
(***************************************************************************)
(* RuleStore: the rules in force are the rules saved, and an identifier the *)
(* agent was told never names another rule, for any priorities, limits and *)
(* number of faults.                                                       *)
(*                                                                         *)
(* The file is the rules in force until the new one is renamed over it,    *)
(* and then the rules about to be put in force.  Identifiers are unique    *)
(* because the counter that is saved with the rules is above every         *)
(* identifier that was ever in force, saved or told: a crash goes back to  *)
(* the counter of the file, below which nothing new was told.              *)
(***************************************************************************)


(* Whatever part of a list is kept, its members were members.              *)
LEMMA PartsAreMembers ==
  ASSUME NEW S, NEW s \in Seq(S), NEW m \in Int, NEW n \in Int,
         1 <= m, n <= Len(s)
  PROVE  SubSeq(s, m, n) \in Seq(S) /\ ToSet(SubSeq(s, m, n)) \subseteq ToSet(s)
<1>1. SubSeq(s, m, n) \in Seq(S)
  OBVIOUS
<1>2. ASSUME NEW i \in DOMAIN SubSeq(s, m, n)
      PROVE  SubSeq(s, m, n)[i] \in ToSet(s)
  BY <1>2 DEF ToSet
<1> QED
  BY <1>1, <1>2 DEF ToSet

LEMMA JoinedMembers ==
  ASSUME NEW S, NEW s \in Seq(S), NEW t \in Seq(S)
  PROVE  s \o t \in Seq(S) /\ ToSet(s \o t) \subseteq ToSet(s) \cup ToSet(t)
<1>1. ASSUME NEW i \in DOMAIN (s \o t)
      PROVE  (s \o t)[i] \in ToSet(s) \cup ToSet(t)
  <2>1. CASE i \in 1..Len(s)
    BY <2>1 DEF ToSet
  <2>2. CASE i \notin 1..Len(s)
    <3>1. i - Len(s) \in 1..Len(t) /\ (s \o t)[i] = t[i - Len(s)]
      BY <2>2
    <3> QED
      BY <3>1 DEF ToSet
  <2> QED
    BY <2>1, <2>2
<1> QED
  BY <1>1 DEF ToSet

LEMMA RemovedMembers ==
  ASSUME NEW S, NEW s \in Seq(S), NEW i \in DOMAIN s
  PROVE  RemoveAt(s, i) \in Seq(S) /\ ToSet(RemoveAt(s, i)) \subseteq ToSet(s)
<1>1. i \in 1..Len(s) /\ Len(s) \in Nat
  OBVIOUS
<1> DEFINE before == SubSeq(s, 1, i - 1)  after == SubSeq(s, i + 1, Len(s))
<1>2. i - 1 \in Int /\ i + 1 \in Int /\ 1 <= i + 1 /\ i - 1 <= Len(s)
  BY <1>1
<1>3. before \in Seq(S) /\ ToSet(before) \subseteq ToSet(s)
  BY <1>2, PartsAreMembers
<1>4. after \in Seq(S) /\ ToSet(after) \subseteq ToSet(s)
  BY <1>1, <1>2, PartsAreMembers
<1>5. before \o after \in Seq(S) /\ ToSet(before \o after) \subseteq ToSet(before) \cup ToSet(after)
  BY <1>3, <1>4, JoinedMembers
<1> QED
  BY <1>3, <1>4, <1>5 DEF RemoveAt

LEMMA InsertedMembers ==
  ASSUME NEW S, NEW s \in Seq(S), NEW e \in S, NEW i \in 1..(Len(s) + 1)
  PROVE  /\ InsertAt(s, i, e) \in Seq(S)
         /\ ToSet(InsertAt(s, i, e)) \subseteq ToSet(s) \cup {e}
<1> DEFINE before == SubSeq(s, 1, i - 1)  after == SubSeq(s, i, Len(s))
<1>1. Len(s) \in Nat /\ i \in Nat /\ 1 <= i /\ i - 1 <= Len(s)
  OBVIOUS
<1>2. before \in Seq(S) /\ ToSet(before) \subseteq ToSet(s)
  BY <1>1, PartsAreMembers
<1>3. after \in Seq(S) /\ ToSet(after) \subseteq ToSet(s)
  BY <1>1, PartsAreMembers
<1>4. <<e>> \in Seq(S)
  OBVIOUS
<1>5. ToSet(<<e>>) = {e}
  <2>1. DOMAIN <<e>> = {1} /\ <<e>>[1] = e
    OBVIOUS
  <2> QED
    BY <2>1, Zenon DEF ToSet
<1> DEFINE upTo == before \o <<e>>
<1> HIDE DEF before, after
<1>6. upTo \in Seq(S) /\ ToSet(upTo) \subseteq ToSet(before) \cup ToSet(<<e>>)
  BY <1>2, <1>4, JoinedMembers
<1> HIDE DEF upTo
<1>7. upTo \o after \in Seq(S) /\ ToSet(upTo \o after) \subseteq ToSet(upTo) \cup ToSet(after)
  BY <1>3, <1>6, JoinedMembers
<1> QED
  BY <1>2, <1>3, <1>5, <1>6, <1>7 DEF InsertAt, upTo, before, after

(* A non-empty set of positions has a least one.                           *)
LEMMA LeastPosition ==
  ASSUME NEW P, P \subseteq Nat, P # {}
  PROVE  Min(P) \in P
<1>1. P \subseteq Nat /\ P # {}
  OBVIOUS
<1>2. PICK x \in P : \A y \in P : ~ (<<y, x>> \in OpToRel(<, Nat))
  BY <1>1, NatLessThanWellFounded, WFMin
<1>3. \A y \in P : ~ (y < x)
  BY <1>1, <1>2 DEF OpToRel
<1>4. \A y \in P : x <= y
  BY <1>1, <1>3
<1> QED
  BY <1>4 DEF Min

-----------------------------------------------------------------------------
(* What setRule and deleteRule make of a list of rules.                    *)

LEMMA PriorityInRange == \A asked \in Int : Priority(asked) \in 1..10
  BY DEF Priority

LEMMA DroppedMembers ==
  ASSUME NEW list \in Seq(Rule)
  PROVE  Dropped(list) \in Seq(Rule) /\ ToSet(Dropped(list)) \subseteq ToSet(list)
<1> DEFINE least ==
      {i \in DOMAIN list : \A j \in DOMAIN list : list[i].priority <= list[j].priority}
<1>1. CASE least = {}
  BY <1>1 DEF Dropped
<1>2. CASE least # {}
  <2>1. least \subseteq Nat
    OBVIOUS
  <2>2. Min(least) \in DOMAIN list
    BY <1>2, <2>1, LeastPosition
  <2>3. /\ RemoveAt(list, Min(least)) \in Seq(Rule)
        /\ ToSet(RemoveAt(list, Min(least))) \subseteq ToSet(list)
    BY <2>2, RemovedMembers
  <2> QED
    BY <1>2, <2>3 DEF Dropped
<1> QED
  BY <1>1, <1>2

LEMMA InsertedRules ==
  ASSUME NEW list \in Seq(Rule), NEW rule \in Rule
  PROVE  /\ Inserted(list, rule) \in Seq(Rule)
         /\ ToSet(Inserted(list, rule)) \subseteq ToSet(list) \cup {rule}
<1> DEFINE before == {i \in DOMAIN list : list[i].priority >= rule.priority}
<1>1. before \subseteq 1..Len(list) /\ Len(list) \in Nat
  OBVIOUS
<1>2. IsFiniteSet(1..Len(list)) /\ Cardinality(1..Len(list)) = Len(list)
  BY <1>1, FS_Interval
<1>3. Cardinality(before) \in Nat /\ Cardinality(before) <= Len(list)
  BY <1>1, <1>2, FS_Subset, FS_CardinalityType
<1>4. Cardinality(before) + 1 \in 1..(Len(list) + 1)
  BY <1>1, <1>3
<1> HIDE DEF before
<1>5. /\ InsertAt(list, Cardinality(before) + 1, rule) \in Seq(Rule)
      /\ ToSet(InsertAt(list, Cardinality(before) + 1, rule)) \subseteq ToSet(list) \cup {rule}
  BY <1>4, InsertedMembers
<1> QED
  BY <1>5 DEF Inserted, before

-----------------------------------------------------------------------------
(* The store keeps its type.                                               *)
THEOREM StoreTyped == RuleSpec => []RuleTypeOK
<1> USE RuleAssumption
<1>1. RuleInit => RuleTypeOK
  <2>1. <<>> \in Seq(Rule)
    OBVIOUS
  <2>2. NoRules \in [rules : Seq(Rule), nextId : Nat]
    BY <2>1 DEF NoRules
  <2>3. NoSave \in [at : {"idle", "staged", "renamed"}, rules : Seq(Rule), nextId : Nat]
    BY <2>1 DEF NoSave
  <2> SUFFICES ASSUME RuleInit PROVE RuleTypeOK
    OBVIOUS
  <2>4. rules \in Seq(Rule) /\ nextId \in Nat /\ maxRules \in Limits
    BY <2>1 DEF RuleInit
  <2>5. rulesFile \in [rules : Seq(Rule), nextId : Nat]
    BY <2>2 DEF RuleInit
  <2>6. save \in [at : {"idle", "staged", "renamed"}, rules : Seq(Rule), nextId : Nat]
    BY <2>3 DEF RuleInit
  <2>7. sets \in Nat /\ ruleFaults \in Nat /\ told \subseteq Rule /\ unread \in BOOLEAN
    BY DEF RuleInit
  <2> QED
    BY <2>4, <2>5, <2>6, <2>7 DEF RuleTypeOK
<1>2. RuleTypeOK /\ [RuleNext]_ruleVars => RuleTypeOK'
  <2> SUFFICES ASSUME RuleTypeOK, [RuleNext]_ruleVars PROVE RuleTypeOK'
    OBVIOUS
  <2>1. ASSUME NEW asked \in Priorities, SetRule(asked) PROVE RuleTypeOK'
    <3> DEFINE rule == [id |-> nextId, made |-> sets', priority |-> Priority(asked)]
               room == IF Len(rules) >= maxRules THEN Dropped(rules) ELSE rules
    <3>1. sets' \in Nat
      BY <2>1 DEF SetRule, RuleTypeOK
    <3>2. Priority(asked) \in 1..10
      BY PriorityInRange
    <3>3. rule \in Rule
      BY <3>1, <3>2 DEF Rule, RuleTypeOK
    <3>4. room \in Seq(Rule)
      BY DroppedMembers DEF RuleTypeOK
    <3>5. Inserted(room, rule) \in Seq(Rule)
      BY <3>3, <3>4, InsertedRules
    <3>6. save' = [at |-> "staged", rules |-> Inserted(room, rule), nextId |-> nextId + 1]
      BY <2>1 DEF SetRule
    <3> HIDE DEF rule, room
    <3> QED
      BY <2>1, <3>1, <3>5, <3>6 DEF SetRule, RuleTypeOK
  <2>2. ASSUME NEW id \in 1..MaxSets, DeleteRule(id) PROVE RuleTypeOK'
    <3> DEFINE places == {i \in DOMAIN rules : rules[i].id = id}
    <3>1. places \subseteq Nat /\ places # {}
      BY <2>2 DEF DeleteRule, RuleTypeOK
    <3>2. Min(places) \in DOMAIN rules
      BY <3>1, LeastPosition
    <3>3. RemoveAt(rules, Min(places)) \in Seq(Rule)
      BY <3>2, RemovedMembers DEF RuleTypeOK
    <3> QED
      BY <2>2, <3>3 DEF DeleteRule, RuleTypeOK
  <2>3. CASE RenameRules
    BY <2>3 DEF RenameRules, RuleTypeOK
  <2>4. CASE RuleSaved
    <3>1. ToSet(save.rules) \subseteq Rule
      BY DEF RuleTypeOK, ToSet
    <3> QED
      BY <2>4, <3>1 DEF RuleSaved, RuleTypeOK, NoSave
  <2>5. CASE SaveFails
    BY <2>5 DEF SaveFails, RuleTypeOK, NoSave
  <2>6. ASSUME NEW limit \in Limits, RulesLoaded(limit) PROVE RuleTypeOK'
    BY <2>6 DEF RulesLoaded, RuleTypeOK, NoSave
  <2>7. ASSUME NEW limit \in Limits, RulesUnreadable(limit) PROVE RuleTypeOK'
    BY <2>7 DEF RulesUnreadable, RuleTypeOK, NoSave
  <2>8. CASE UNCHANGED ruleVars
    BY <2>8 DEF ruleVars, RuleTypeOK
  <2> QED
    BY <2>1, <2>2, <2>3, <2>4, <2>5, <2>6, <2>7, <2>8 DEF RuleNext
<1> QED
  BY <1>1, <1>2, PTL DEF RuleSpec

-----------------------------------------------------------------------------
(* The file is what is in force, or, once renamed, what is about to be.    *)
FileAgrees ==
  ~ unread =>
    /\ save.at # "renamed" => rulesFile = [rules |-> rules, nextId |-> nextId]
    /\ save.at = "renamed" => rulesFile = [rules |-> save.rules, nextId |-> save.nextId]

LEMMA FileAgreement == RuleSpec => []FileAgrees
<1>1. RuleInit => FileAgrees
  BY DEF RuleInit, FileAgrees, NoRules, NoSave
<1>2. RuleTypeOK /\ FileAgrees /\ [RuleNext]_ruleVars => FileAgrees'
  <2> SUFFICES ASSUME RuleTypeOK, FileAgrees, [RuleNext]_ruleVars PROVE FileAgrees'
    OBVIOUS
  <2> USE DEF FileAgrees, RuleTypeOK
  <2>1. ASSUME NEW asked \in Priorities, SetRule(asked) PROVE FileAgrees'
    <3>1. save.at = "idle" /\ save'.at = "staged" /\ UNCHANGED <<rules, nextId, rulesFile, unread>>
      BY <2>1 DEF SetRule, Ready
    <3> QED
      BY <3>1
  <2>2. ASSUME NEW id \in 1..MaxSets, DeleteRule(id) PROVE FileAgrees'
    <3>1. save.at = "idle" /\ save'.at = "staged" /\ UNCHANGED <<rules, nextId, rulesFile, unread>>
      BY <2>2 DEF DeleteRule, Ready
    <3> QED
      BY <3>1
  <2>3. CASE RenameRules
    BY <2>3 DEF RenameRules
  <2>4. CASE RuleSaved
    BY <2>4 DEF RuleSaved, NoSave
  <2>5. CASE SaveFails
    BY <2>5 DEF SaveFails, NoSave
  <2>6. ASSUME NEW limit \in Limits, RulesLoaded(limit) PROVE FileAgrees'
    BY <2>6 DEF RulesLoaded, NoSave
  <2>7. ASSUME NEW limit \in Limits, RulesUnreadable(limit) PROVE FileAgrees'
    BY <2>7 DEF RulesUnreadable, NoSave, NoRules
  <2>8. CASE UNCHANGED ruleVars
    BY <2>8 DEF ruleVars
  <2> QED
    BY <2>1, <2>2, <2>3, <2>4, <2>5, <2>6, <2>7, <2>8 DEF RuleNext
<1> QED
  BY <1>1, <1>2, StoreTyped, PTL DEF RuleSpec

(* The rules in force between two calls are the ones a restart brings back *)
(* from rules.json.                                                        *)
THEOREM SavedIsInForce == RuleSpec => []RulesAreStored
<1>1. FileAgrees => RulesAreStored
  BY DEF FileAgrees, RulesAreStored, Ready
<1> QED
  BY <1>1, FileAgreement, PTL

-----------------------------------------------------------------------------
(* Identifiers.  Every rule known anywhere is below the counter that is    *)
(* saved; a rule on its way to the file is below the one that will be.     *)
Everywhere == told \cup ToSet(rules) \cup ToSet(rulesFile.rules)
Staged == IF save.at = "staged" THEN ToSet(save.rules) ELSE {}

SameRule(S) == \A a, b \in S : a.id = b.id => a.made = b.made

IdsBelowCounter ==
  ~ unread =>
    /\ \A r \in Everywhere : r.id < rulesFile.nextId
    /\ save.at = "staged" =>
         rulesFile.nextId <= save.nextId /\ \A r \in ToSet(save.rules) : r.id < save.nextId
    /\ SameRule(Everywhere \cup Staged)

LEMMA FewerAreOneRule ==
  ASSUME NEW S, NEW T, T \subseteq S, SameRule(S) PROVE SameRule(T)
BY DEF SameRule

LEMMA KeptAreRules == RuleTypeOK => Everywhere \subseteq Rule
BY DEF RuleTypeOK, Everywhere, ToSet

LEMMA SetRuleKeepsIds ==
  ASSUME RuleTypeOK, FileAgrees, IdsBelowCounter,
         NEW asked \in Priorities, SetRule(asked)
  PROVE  IdsBelowCounter'
<1> DEFINE rule == [id |-> nextId, made |-> sets', priority |-> Priority(asked)]
           room == IF Len(rules) >= maxRules THEN Dropped(rules) ELSE rules
<1>1. rule \in Rule
  <2>1. Priority(asked) \in 1..10
    BY PriorityInRange, RuleAssumption
  <2>2. nextId \in Nat /\ sets' \in Nat
    BY DEF SetRule, RuleTypeOK
  <2> QED
    BY <2>1, <2>2 DEF Rule
<1>2. room \in Seq(Rule) /\ ToSet(room) \subseteq ToSet(rules)
  BY DroppedMembers DEF RuleTypeOK
<1>3. ToSet(Inserted(room, rule)) \subseteq ToSet(room) \cup {rule}
  BY <1>1, <1>2, InsertedRules
<1>4. /\ save' = [at |-> "staged", rules |-> Inserted(room, rule), nextId |-> nextId + 1]
      /\ UNCHANGED <<rules, nextId, rulesFile, told, unread>> /\ save.at = "idle"
  BY DEF SetRule, Ready
<1>5. rule.id = nextId
  OBVIOUS
<1> HIDE DEF rule, room
<1>6. ToSet(save'.rules) \subseteq ToSet(rules) \cup {rule}
  BY <1>2, <1>3, <1>4
<1>7. Everywhere' = Everywhere /\ Staged' \subseteq Everywhere \cup {rule}
  BY <1>4, <1>6 DEF Everywhere, Staged
<1> SUFFICES ASSUME ~ unread PROVE IdsBelowCounter'
  BY <1>4 DEF IdsBelowCounter
<1>8. rulesFile.nextId = nextId /\ nextId \in Nat
  BY <1>4 DEF FileAgrees, RuleTypeOK
<1>9. \A r \in Everywhere : r.id < nextId /\ r.id \in Nat
  BY <1>8, KeptAreRules DEF IdsBelowCounter, Rule
<1>10. SameRule(Everywhere \cup {rule})
  <2>1. SameRule(Everywhere)
    BY FewerAreOneRule DEF IdsBelowCounter
  <2>2. \A r \in Everywhere : r.id # rule.id
    BY <1>5, <1>8, <1>9
  <2> QED
    BY <2>1, <2>2 DEF SameRule
<1>11. SameRule(Everywhere' \cup Staged')
  <2>1. Everywhere' \cup Staged' \subseteq Everywhere \cup {rule}
    BY <1>7
  <2> QED
    BY <1>10, <2>1, FewerAreOneRule
<1>12. \A r \in ToSet(save'.rules) : r.id < nextId + 1
  <2>1. \A r \in ToSet(rules) : r.id < nextId /\ r.id \in Nat
    BY <1>9 DEF Everywhere
  <2> QED
    BY <1>5, <1>6, <1>8, <2>1
<1>13. rulesFile'.nextId <= save'.nextId /\ save'.nextId = nextId + 1
  BY <1>4, <1>8
<1> QED
  BY <1>4, <1>7, <1>8, <1>9, <1>11, <1>12, <1>13 DEF IdsBelowCounter, SameRule

LEMMA DeleteRuleKeepsIds ==
  ASSUME RuleTypeOK, FileAgrees, IdsBelowCounter,
         NEW id \in 1..MaxSets, DeleteRule(id)
  PROVE  IdsBelowCounter'
<1> DEFINE places == {i \in DOMAIN rules : rules[i].id = id}
<1>1. places \subseteq Nat /\ places # {}
  BY DEF DeleteRule, RuleTypeOK
<1>2. Min(places) \in DOMAIN rules
  BY <1>1, LeastPosition
<1>3. ToSet(RemoveAt(rules, Min(places))) \subseteq ToSet(rules)
  BY <1>2, RemovedMembers DEF RuleTypeOK
<1>4. /\ save' = [at |-> "staged", rules |-> RemoveAt(rules, Min(places)), nextId |-> nextId]
      /\ UNCHANGED <<rules, nextId, rulesFile, told, unread>> /\ save.at = "idle"
  BY DEF DeleteRule, Ready
<1> HIDE DEF places
<1>5. Everywhere' = Everywhere /\ Staged' \subseteq Everywhere /\ ToSet(save'.rules) \subseteq Everywhere
  BY <1>3, <1>4 DEF Everywhere, Staged
<1> SUFFICES ASSUME ~ unread PROVE IdsBelowCounter'
  BY <1>4 DEF IdsBelowCounter
<1>6. rulesFile.nextId = nextId /\ nextId \in Nat /\ save'.nextId = nextId
  BY <1>4 DEF FileAgrees, RuleTypeOK
<1>7. SameRule(Everywhere' \cup Staged')
  <2>1. Everywhere' \cup Staged' \subseteq Everywhere \cup Staged
    BY <1>5
  <2> QED
    BY <2>1, FewerAreOneRule DEF IdsBelowCounter
<1>8. \A r \in Everywhere : r.id < nextId
  BY <1>6 DEF IdsBelowCounter
<1> QED
  BY <1>4, <1>5, <1>6, <1>7, <1>8 DEF IdsBelowCounter

(* No step but a set or a deletion brings in a rule that was not known.    *)
LEMMA KnownRulesKeepIds ==
  ASSUME IdsBelowCounter, Staged' = {}, ~ unread' => ~ unread,
         Everywhere' \subseteq Everywhere, rulesFile'.nextId = rulesFile.nextId, save'.at # "staged"
  PROVE  IdsBelowCounter'
<1> SUFFICES ASSUME ~ unread PROVE IdsBelowCounter'
  BY DEF IdsBelowCounter
<1>1. Everywhere' \cup Staged' \subseteq Everywhere \cup Staged
  OBVIOUS
<1>2. SameRule(Everywhere' \cup Staged')
  BY <1>1, FewerAreOneRule DEF IdsBelowCounter
<1> QED
  BY <1>2 DEF IdsBelowCounter

(* An identifier that was told names one rule for good.                    *)
THEOREM IdentifiersAreStable == RuleSpec => []RuleIdsNameOneRule
<1>1. RuleInit => IdsBelowCounter /\ FileAgrees
  <2> SUFFICES ASSUME RuleInit PROVE IdsBelowCounter /\ FileAgrees
    OBVIOUS
  <2>1. rules = <<>> /\ rulesFile = NoRules /\ save = NoSave /\ told = {} /\ nextId = 1
    BY DEF RuleInit
  <2>2. Everywhere = {} /\ Staged = {} /\ save.at = "idle"
    BY <2>1 DEF Everywhere, Staged, NoRules, NoSave, ToSet
  <2>3. FileAgrees
    BY <2>1 DEF FileAgrees, NoRules, NoSave
  <2> QED
    BY <2>2, <2>3 DEF IdsBelowCounter, SameRule
<1>2. RuleTypeOK /\ FileAgrees /\ IdsBelowCounter /\ [RuleNext]_ruleVars => IdsBelowCounter'
  <2> SUFFICES ASSUME RuleTypeOK, FileAgrees, IdsBelowCounter, [RuleNext]_ruleVars
               PROVE  IdsBelowCounter'
    OBVIOUS
  <2>1. ASSUME NEW asked \in Priorities, SetRule(asked) PROVE IdsBelowCounter'
    BY <2>1, SetRuleKeepsIds
  <2>2. ASSUME NEW id \in 1..MaxSets, DeleteRule(id) PROVE IdsBelowCounter'
    BY <2>2, DeleteRuleKeepsIds
  <2>3. CASE RenameRules
    <3>1. /\ save.at = "staged" /\ save'.at = "renamed" /\ UNCHANGED <<rules, told, unread>>
          /\ rulesFile'.rules = save.rules /\ rulesFile'.nextId = save.nextId
      BY <2>3 DEF RenameRules, RuleTypeOK
    <3>2. Staged' = {} /\ Everywhere' \subseteq Everywhere \cup Staged
      BY <3>1 DEF Everywhere, Staged
    <3> SUFFICES ASSUME ~ unread PROVE IdsBelowCounter'
      BY <3>1 DEF IdsBelowCounter
    <3>3. SameRule(Everywhere' \cup Staged')
      <4>1. Everywhere' \cup Staged' \subseteq Everywhere \cup Staged
        BY <3>2
      <4> QED
        BY <4>1, FewerAreOneRule DEF IdsBelowCounter
    <3>4. \A r \in Everywhere \cup Staged : r.id < save.nextId
      <4>1. Everywhere \subseteq Rule /\ rulesFile.nextId \in Nat /\ save.nextId \in Nat
        BY KeptAreRules DEF RuleTypeOK
      <4>2. \A r \in Everywhere : r.id \in Nat
        BY <4>1 DEF Rule
      <4> QED
        BY <3>1, <4>1, <4>2 DEF IdsBelowCounter, Staged
    <3> QED
      BY <3>1, <3>2, <3>3, <3>4 DEF IdsBelowCounter
  <2>4. CASE RuleSaved
    <3>1. /\ save.at = "renamed" /\ save'.at = "idle" /\ rules' = save.rules
          /\ told' = told \cup ToSet(save.rules) /\ UNCHANGED <<rulesFile, unread>>
      BY <2>4 DEF RuleSaved, NoSave
    <3>2. ~ unread => save.rules = rulesFile.rules
      BY <3>1 DEF FileAgrees
    <3>3. Staged' = {}
      BY <3>1 DEF Staged
    <3>4. ~ unread => Everywhere' \subseteq Everywhere
      BY <3>1, <3>2 DEF Everywhere
    <3> QED
      BY <3>1, <3>3, <3>4, KnownRulesKeepIds DEF IdsBelowCounter
  <2>5. CASE SaveFails
    <3>1. save'.at = "idle" /\ UNCHANGED <<rules, rulesFile, told, unread>>
      BY <2>5 DEF SaveFails, NoSave
    <3>2. Staged' = {} /\ Everywhere' = Everywhere
      BY <3>1 DEF Staged, Everywhere
    <3> QED
      BY <3>1, <3>2, KnownRulesKeepIds
  <2>6. ASSUME NEW limit \in Limits, RulesLoaded(limit) PROVE IdsBelowCounter'
    <3>1. save'.at = "idle" /\ rules' = rulesFile.rules /\ UNCHANGED <<rulesFile, told, unread>>
      BY <2>6 DEF RulesLoaded, NoSave
    <3>2. Staged' = {} /\ Everywhere' \subseteq Everywhere
      BY <3>1 DEF Staged, Everywhere
    <3> QED
      BY <3>1, <3>2, KnownRulesKeepIds
  <2>7. ASSUME NEW limit \in Limits, RulesUnreadable(limit) PROVE IdsBelowCounter'
    <3>1. /\ save'.at = "idle" /\ rules' = <<>> /\ UNCHANGED <<rulesFile, told>>
          /\ unread' = (rulesFile # NoRules \/ unread)
      BY <2>7 DEF RulesUnreadable, NoSave
    <3>2. ToSet(rules') = {}
      BY <3>1 DEF ToSet
    <3>3. Staged' = {} /\ Everywhere' \subseteq Everywhere
      BY <3>1, <3>2 DEF Staged, Everywhere
    <3>4. ~ unread' => ~ unread
      BY <3>1
    <3> QED
      BY <3>1, <3>3, <3>4, KnownRulesKeepIds
  <2>8. CASE UNCHANGED ruleVars
    BY <2>8 DEF ruleVars, IdsBelowCounter, Everywhere, Staged, SameRule
  <2> QED
    BY <2>1, <2>2, <2>3, <2>4, <2>5, <2>6, <2>7, <2>8 DEF RuleNext
<1>3. IdsBelowCounter => RuleIdsNameOneRule
  BY DEF IdsBelowCounter, RuleIdsNameOneRule, SameRule, Everywhere
<1>4. RuleSpec => []FileAgrees
  BY FileAgreement
<1> QED
  BY <1>1, <1>2, <1>3, <1>4, StoreTyped, PTL DEF RuleSpec

-----------------------------------------------------------------------------
(***************************************************************************)
(* RecallCircuit, for any clients and sessions, any number of overlapping  *)
(* assemblies and any bounds of the maps: whose memory a prompt is given,  *)
(* and for what a circuit is open.                                         *)
(*                                                                         *)
(* A map never has two entries of one key, an entry of a circuit counts no *)
(* more failures than there were in a row, and its class is the class of   *)
(* the last one.                                                           *)
(***************************************************************************)

LEMMA LeastExists ==
  ASSUME NEW S \in SUBSET Nat, S # {}
  PROVE  \E m \in S : \A q \in S : m <= q
<1>1. PICK m \in S : \A q \in S : ~ (<<q, m>> \in OpToRel(<, Nat))
  BY NatLessThanWellFounded, WFMin
<1>2. \A q \in S : ~ (q < m)
  BY <1>1 DEF OpToRel
<1> QED
  BY <1>2

(* A finite set of places has one of every rank. *)
LEMMA NthExists ==
  ASSUME NEW J \in SUBSET Nat, IsFiniteSet(J), NEW n \in 1..Cardinality(J)
  PROVE  Nth(J, n) \in J /\ Cardinality({q \in J : q <= Nth(J, n)}) = n
<1> DEFINE UpTo(p) == {q \in J : q <= p}
           bad == {m \in 1..Cardinality(J) : \A p \in J : Cardinality(UpTo(p)) # m}
<1>1. Cardinality(J) \in Nat
  BY FS_CardinalityType
<1>2. \A p \in J : IsFiniteSet(UpTo(p))
  <2>1. \A p \in J : UpTo(p) \in SUBSET J
    OBVIOUS
  <2> QED
    BY <2>1, FS_Subset
<1>3. bad = {}
  <2>1. SUFFICES ASSUME bad # {} PROVE FALSE
    OBVIOUS
  <2>2. PICK m \in bad : \A q \in bad : m <= q
    <3>1. bad \in SUBSET Nat
      OBVIOUS
    <3> HIDE DEF bad
    <3> QED
      BY <2>1, <3>1, LeastExists
  <2>3. m \in 1..Cardinality(J) /\ \A p \in J : Cardinality(UpTo(p)) # m
    BY <2>2
  <2>4. CASE m = 1
    <3>1. J # {}
      BY <2>3, <1>1, FS_EmptySet
    <3>2. PICK p \in J : \A q \in J : p <= q
      BY <3>1, LeastExists
    <3>3. UpTo(p) = {p}
      <4>1. \A q \in J : q \in Nat /\ (q <= p <=> q = p)
        BY <3>2
      <4> QED
        BY <4>1
    <3> QED
      BY <2>3, <2>4, <3>3, FS_Singleton
  <2>5. CASE m # 1
    <3>1. m - 1 \in 1..Cardinality(J) /\ m - 1 \notin bad
      BY <2>2, <2>3, <2>5, <1>1
    <3>2. PICK p \in J : Cardinality(UpTo(p)) = m - 1
      BY <3>1
    <3> DEFINE above == {q \in J : p < q}
    <3>3. above # {}
      <4>1. SUFFICES ASSUME above = {} PROVE FALSE
        OBVIOUS
      <4>2. \A q \in J : q <= p
        BY <4>1
      <4>3. UpTo(p) = J
        BY <4>2
      <4> QED
        BY <4>3, <3>2, <2>3, <1>1
    <3>4. PICK next \in above : \A q \in above : next <= q
      <4>1. above \in SUBSET Nat
        OBVIOUS
      <4> HIDE DEF above
      <4> QED
        BY <3>3, <4>1, LeastExists
    <3>5. UpTo(next) = UpTo(p) \cup {next} /\ next \notin UpTo(p) /\ next \in J
      <4>1. next \in J /\ p < next /\ \A q \in J : p < q => next <= q
        BY <3>4
      <4>2. \A q \in J : q <= next <=> (q <= p \/ q = next)
        BY <4>1
      <4>3. UpTo(next) = UpTo(p) \cup {next}
        BY <4>1, <4>2
      <4>4. ~ (next <= p)
        BY <4>1
      <4> QED
        BY <4>1, <4>3, <4>4
    <3>6. Cardinality(UpTo(next)) = (m - 1) + 1
      <4> HIDE DEF UpTo
      <4> QED
        BY <3>2, <3>5, <1>2, FS_AddElement
    <3> QED
      BY <3>5, <3>6, <2>3
  <2> QED
    BY <2>4, <2>5
<1>4. \E p \in J : Cardinality(UpTo(p)) = n
  BY <1>3
<1> QED
  BY <1>4 DEF Nth

(* What is kept of a map are its entries at the places that stay. *)
LEMMA KeptProperties ==
  ASSUME NEW S, NEW map \in Seq(S), NEW J \in SUBSET (DOMAIN map)
  PROVE  Kept(map, J) \in Seq(S) /\ ToSet(Kept(map, J)) \subseteq {map[j] : j \in J}
<1>1. DOMAIN map = 1..Len(map) /\ Len(map) \in Nat
  OBVIOUS
<1>2. J \in SUBSET Nat /\ IsFiniteSet(J) /\ Cardinality(J) \in Nat
  <2>1. IsFiniteSet(DOMAIN map)
    BY <1>1, FS_Interval
  <2> QED
    BY <2>1, <1>1, FS_Subset, FS_CardinalityType
<1>3. \A n \in 1..Cardinality(J) : Nth(J, n) \in J
  BY <1>2, NthExists
<1>4. \A j \in J : map[j] \in S
  BY <1>1
<1>5. Kept(map, J) \in [1..Cardinality(J) -> S]
  BY <1>3, <1>4 DEF Kept
<1>6. Kept(map, J) \in Seq(S)
  BY <1>2, <1>5
<1>7. \A n \in DOMAIN Kept(map, J) : n \in 1..Cardinality(J) /\ Kept(map, J)[n] = map[Nth(J, n)]
  BY DEF Kept
<1> QED
  BY <1>3, <1>6, <1>7 DEF ToSet

LEMMA WithoutEntries ==
  ASSUME NEW S, NEW map \in Seq(S), NEW key
  PROVE  /\ Without(map, key) \in Seq(S)
         /\ \A e \in ToSet(Without(map, key)) : e \in ToSet(map) /\ e.key # key
<1> DEFINE J == {i \in DOMAIN map : map[i].key # key}
<1>1. J \in SUBSET (DOMAIN map)
  OBVIOUS
<1>2. Without(map, key) = Kept(map, J)
  BY DEF Without
<1>3. \A e \in {map[j] : j \in J} : e \in ToSet(map) /\ e.key # key
  BY DEF ToSet
<1> HIDE DEF J
<1> QED
  BY <1>1, <1>2, <1>3, KeptProperties

LEMMA RoomEntries ==
  ASSUME NEW S, NEW map \in Seq(S), NEW max
  PROVE  Room(map, max) \in Seq(S) /\ ToSet(Room(map, max)) \subseteq ToSet(map)
<1>1. ASSUME map # << >>
      PROVE  Tail(map) \in Seq(S) /\ \A i \in DOMAIN Tail(map) : Tail(map)[i] \in ToSet(map)
  <2>1. /\ Tail(map) \in Seq(S) /\ DOMAIN Tail(map) = 1..(Len(map) - 1)
        /\ \A i \in 1..(Len(map) - 1) : Tail(map)[i] = map[i + 1]
    BY <1>1
  <2>2. \A i \in 1..(Len(map) - 1) : i + 1 \in DOMAIN map
    OBVIOUS
  <2> QED
    BY <2>1, <2>2 DEF ToSet
<1> QED
  BY <1>1 DEF Room, ToSet

LEMMA AppendEntries ==
  ASSUME NEW S, NEW map \in Seq(S), NEW e \in S
  PROVE  Append(map, e) \in Seq(S) /\ ToSet(Append(map, e)) = ToSet(map) \cup {e}
<1>1. /\ Append(map, e) \in Seq(S) /\ DOMAIN Append(map, e) = 1..(Len(map) + 1)
      /\ Append(map, e)[Len(map) + 1] = e /\ \A i \in 1..Len(map) : Append(map, e)[i] = map[i]
      /\ DOMAIN map = 1..Len(map) /\ Len(map) \in Nat
  OBVIOUS
<1>2. \A i \in 1..(Len(map) + 1) : i \in 1..Len(map) \/ i = Len(map) + 1
  BY <1>1
<1>3. Len(map) + 1 \in 1..(Len(map) + 1) /\ 1..Len(map) \subseteq 1..(Len(map) + 1)
  BY <1>1
<1> QED
  BY <1>1, <1>2, <1>3 DEF ToSet

LEMMA PutEntries ==
  ASSUME NEW S, NEW map \in Seq(S), NEW entry \in S, NEW max
  PROVE  /\ Put(map, entry, max) \in Seq(S)
         /\ \A e \in ToSet(Put(map, entry, max)) :
              e = entry \/ (e \in ToSet(map) /\ e.key # entry.key)
<1>1. CASE Has(map, entry.key)
  <2> DEFINE new == [i \in DOMAIN map |-> IF map[i].key = entry.key THEN entry ELSE map[i]]
  <2>1. Put(map, entry, max) = new
    BY <1>1 DEF Put
  <2>2. DOMAIN map = 1..Len(map) /\ Len(map) \in Nat /\ \A i \in DOMAIN map : map[i] \in S
    OBVIOUS
  <2>3. new \in [1..Len(map) -> S]
    BY <2>2
  <2>4. \A i \in DOMAIN new : new[i] = entry \/ (new[i] = map[i] /\ map[i].key # entry.key
                                                /\ i \in DOMAIN map)
    OBVIOUS
  <2> HIDE DEF new
  <2> QED
    BY <2>1, <2>2, <2>3, <2>4 DEF ToSet
<1>2. CASE ~ Has(map, entry.key)
  <2>1. Put(map, entry, max) = Append(Room(map, max), entry)
    BY <1>2 DEF Put
  <2>2. Room(map, max) \in Seq(S) /\ ToSet(Room(map, max)) \subseteq ToSet(map)
    BY RoomEntries
  <2>3. \A e \in ToSet(map) : e.key # entry.key
    BY <1>2 DEF Has, ToSet
  <2> QED
    BY <2>1, <2>2, <2>3, AppendEntries
<1> QED
  BY <1>1, <1>2

LEMMA EntryIsThere ==
  ASSUME NEW map, NEW key, Has(map, key)
  PROVE  Entry(map, key) \in ToSet(map) /\ Entry(map, key).key = key
BY DEF Has, Entry, ToSet

LEMMA EntriesTyped ==
  ASSUME NEW S, NEW map \in Seq(S)
  PROVE  ToSet(map) \subseteq S
BY DEF ToSet

-----------------------------------------------------------------------------
Classes == {"timeout", "unavailable", "overloaded", "auth", "unknown"}
CircuitEntries == [key : Scopes, class : Classes, consecutive : Nat \ {0}, wait : Int]
CacheEntries == {[key |-> CacheKey(k, t), found |-> k.client] : k \in Scopes, t \in Nat}
Runs == [class : Classes \cup {"none"}, length : 0..3]
Places == [pc : {"idle", "draining", "calling", "assembling"}, key : Scopes \cup {NoRecall.key},
           turn : Nat, found : {0} \cup {k.client : k \in Scopes}]

(* An entry counts at most what the failures in a row were, up to 3, which *)
(* is as many as any class allows.                                         *)
CountedBy(e, run) ==
  /\ run.class = e.class
  /\ run.length >= e.consecutive \/ run.length = 3
  /\ e.wait # Counting => e.consecutive >= MaxConsecutive[e.class]

(* A prompt under way was given nothing, or its own client's memory. *)
OwnMemory(place) ==
  place.pc # "idle" => place.key \in Scopes /\ place.found \in {0, place.key.client}

CircuitInv ==
  /\ circuits \in Seq(CircuitEntries) /\ failedRun \in [Scopes -> Runs]
  /\ \A e \in ToSet(circuits) : CountedBy(e, failedRun[e.key])

MemoryInv ==
  /\ turnCache \in Seq(CacheEntries) /\ latest \in [RecallSessions -> Nat]
  /\ recall \in [Recalls -> Places]
  /\ \A c \in Recalls : OwnMemory(recall[c]) /\ (recall[c].pc = "idle" => recall[c] = NoRecall)

RecallInv == CircuitInv /\ MemoryInv

LEMMA WaitIsNumber ==
  ASSUME NEW class \in Classes, NEW n \in Nat
  PROVE  Wait(class, n) \in Int
<1>1. UnavailableUnit * 2 ^ n \in Int
  BY RecallAssumption
<1>2. UnavailableMax \in Int /\ \A c \in {"timeout", "overloaded", "unknown"} : Cooldown[c] \in Int
  BY RecallAssumption
<1> QED
  BY <1>1, <1>2 DEF Wait, Classes, Forever

LEMMA ThresholdsAreSmall ==
  \A class \in Classes : MaxConsecutive[class] \in 1..3
BY DEF Classes, MaxConsecutive

LEMMA RecallInitially == RecallInit => RecallInv
<1> SUFFICES ASSUME RecallInit PROVE RecallInv
  OBVIOUS
<1>1. CircuitInv
  BY DEF RecallInit, CircuitInv, Runs, NoFailure, ToSet
<1>2. NoRecall \in Places /\ NoRecall.pc = "idle"
  BY DEF NoRecall, Places
<1>3. MemoryInv
  BY <1>2 DEF RecallInit, MemoryInv, OwnMemory
<1> QED
  BY <1>1, <1>3 DEF RecallInv

LEMMA CircuitsAreOfScopes ==
  ASSUME CircuitInv
  PROVE  \A e \in ToSet(circuits) : e.key \in Scopes
<1>1. ToSet(circuits) \subseteq CircuitEntries
  BY EntriesTyped DEF CircuitInv
<1> QED
  BY <1>1 DEF CircuitEntries

(* An answer, or a cooldown that is over, takes the circuit's entry along. *)
LEMMA CircuitForgotten ==
  ASSUME NEW k \in Scopes, CircuitInv,
         circuits' = Without(circuits, k), failedRun' = [failedRun EXCEPT ![k] = NoFailure]
  PROVE  CircuitInv'
<1>1. /\ circuits' \in Seq(CircuitEntries)
      /\ \A e \in ToSet(circuits') : e \in ToSet(circuits) /\ e.key # k
  BY WithoutEntries DEF CircuitInv
<1>2. NoFailure \in Runs
  BY DEF NoFailure, Runs
<1>3. failedRun' \in [Scopes -> Runs] /\ \A p \in Scopes : p # k => failedRun'[p] = failedRun[p]
  BY <1>2 DEF CircuitInv
<1>4. \A e \in ToSet(circuits) : e.key \in Scopes
  BY CircuitsAreOfScopes
<1> QED
  BY <1>1, <1>3, <1>4 DEF CircuitInv

LEMMA CircuitTracked ==
  ASSUME NEW k \in Scopes, NEW class \in Failures, CircuitInv,
         circuits' = Tracked(k, class), failedRun' = [failedRun EXCEPT ![k] = Run(@, class)]
  PROVE  CircuitInv'
<1> DEFINE old == Entry(circuits, k)
           same == Has(circuits, k) /\ old.class = class
           consecutive == IF same THEN old.consecutive + 1 ELSE 1
           wait == IF consecutive >= MaxConsecutive[class] THEN Wait(class, consecutive)
                   ELSE IF same THEN old.wait ELSE Counting
           entry == [key |-> k, class |-> class, consecutive |-> consecutive, wait |-> wait]
           run == failedRun[k]
<1>1. class \in Classes
  BY RecallAssumption DEF Classes, MaxConsecutive
<1>2. Has(circuits, k) => old \in CircuitEntries /\ CountedBy(old, run)
  BY EntryIsThere, EntriesTyped DEF CircuitInv
<1>3. run \in Runs
  BY DEF CircuitInv
<1>4. consecutive \in Nat \ {0}
  BY <1>2 DEF CircuitEntries
<1>5. wait \in Int
  <2>1. Wait(class, consecutive) \in Int
    BY <1>1, <1>4, WaitIsNumber
  <2> QED
    BY <2>1, <1>2 DEF CircuitEntries, Counting
<1>6. Run(run, class) \in Runs
  BY <1>1, <1>3 DEF Run, Runs
<1>7. CountedBy(entry, Run(run, class))
  <2>1. Run(run, class).class = class
    BY DEF Run
  <2>2. Run(run, class).length >= consecutive \/ Run(run, class).length = 3
    <3>1. CASE same
      <4>1. run.class = class /\ (run.length >= old.consecutive \/ run.length = 3)
        BY <3>1, <1>2 DEF CountedBy
      <4>2. Run(run, class).length = IF run.length = 3 THEN 3 ELSE run.length + 1
        BY <4>1 DEF Run
      <4>3. run.length \in 0..3 /\ old.consecutive \in Nat /\ consecutive = old.consecutive + 1
        BY <3>1, <1>2, <1>3 DEF Runs, CircuitEntries
      <4> QED
        BY <4>1, <4>2, <4>3
    <3>2. CASE ~ same
      <4>1. consecutive = 1
        BY <3>2
      <4>2. Run(run, class).length \in {1, 3} \/ Run(run, class).length = run.length + 1
        BY DEF Run
      <4>3. run.length \in 0..3
        BY <1>3 DEF Runs
      <4> QED
        BY <4>1, <4>2, <4>3
    <3> QED
      BY <3>1, <3>2
  <2>3. wait # Counting => consecutive >= MaxConsecutive[class]
    <3>1. SUFFICES ASSUME ~ (consecutive >= MaxConsecutive[class]), wait # Counting PROVE FALSE
      OBVIOUS
    <3>2. same /\ old.wait # Counting
      BY <3>1
    <3>3. old.consecutive >= MaxConsecutive[class]
      BY <3>2, <1>2 DEF CountedBy
    <3>4. old.consecutive \in Nat /\ MaxConsecutive[class] \in 1..3 /\ consecutive = old.consecutive + 1
      BY <3>2, <1>1, <1>2, ThresholdsAreSmall DEF CircuitEntries
    <3> QED
      BY <3>1, <3>3, <3>4
  <2> HIDE DEF consecutive, wait
  <2> QED
    BY <2>1, <2>2, <2>3 DEF CountedBy
<1>8. entry \in CircuitEntries /\ entry.key = k
  <2> HIDE DEF consecutive, wait
  <2> QED
    BY <1>1, <1>4, <1>5 DEF CircuitEntries
<1>9. circuits' = Put(circuits, entry, MaxCircuits)
  BY DEF Tracked
<1> HIDE DEF entry, run
<1>10. /\ circuits' \in Seq(CircuitEntries)
       /\ \A e \in ToSet(circuits') : e = entry \/ (e \in ToSet(circuits) /\ e.key # k)
  BY <1>8, <1>9, PutEntries DEF CircuitInv
<1>11. /\ failedRun' \in [Scopes -> Runs] /\ failedRun'[k] = Run(run, class)
       /\ \A p \in Scopes : p # k => failedRun'[p] = failedRun[p]
  BY <1>6 DEF CircuitInv, run
<1>12. \A e \in ToSet(circuits) : e.key \in Scopes
  BY CircuitsAreOfScopes
<1> QED
  BY <1>7, <1>8, <1>10, <1>11, <1>12 DEF CircuitInv

LEMMA CircuitTicks ==
  ASSUME CircuitInv, Tick
  PROVE  CircuitInv'
<1> DEFINE Later(e) == IF e.wait > 0 THEN [e EXCEPT !.wait = @ - 1] ELSE e
<1>1. circuits' = [i \in DOMAIN circuits |-> Later(circuits[i])] /\ failedRun' = failedRun
  BY DEF Tick
<1>2. DOMAIN circuits = 1..Len(circuits) /\ Len(circuits) \in Nat
      /\ \A i \in DOMAIN circuits : circuits[i] \in CircuitEntries
  BY DEF CircuitInv
<1>3. ASSUME NEW e \in CircuitEntries
      PROVE  /\ Later(e) \in CircuitEntries /\ Later(e).key = e.key /\ Later(e).class = e.class
             /\ Later(e).consecutive = e.consecutive
             /\ Later(e).wait # Counting => e.wait # Counting
  BY DEF CircuitEntries, Counting
<1> HIDE DEF Later
<1>4. circuits' \in Seq(CircuitEntries)
  <2>1. circuits' \in [1..Len(circuits) -> CircuitEntries]
    BY <1>1, <1>2, <1>3
  <2> QED
    BY <2>1, <1>2
<1>5. ASSUME NEW e \in ToSet(circuits') PROVE CountedBy(e, failedRun[e.key])
  <2>1. PICK i \in DOMAIN circuits : e = Later(circuits[i])
    BY <1>1 DEF ToSet
  <2>2. CountedBy(circuits[i], failedRun[circuits[i].key])
    BY DEF CircuitInv, ToSet
  <2> QED
    BY <2>1, <2>2, <1>2, <1>3 DEF CountedBy
<1> QED
  BY <1>1, <1>4, <1>5 DEF CircuitInv

LEMMA CircuitStep ==
  ASSUME CircuitInv, MemoryInv, [RecallNext]_recallVars
  PROVE  CircuitInv'
<1>1. CASE UNCHANGED <<circuits, failedRun>>
  BY <1>1 DEF CircuitInv
<1>2. ASSUME NEW c \in Recalls, NEW k \in Scopes, RecallDecided(c, k) PROVE CircuitInv'
  <2>1. CASE Expired(k)
    BY <1>2, <2>1, CircuitForgotten DEF RecallDecided
  <2>2. CASE ~ Expired(k)
    BY <1>1, <1>2, <2>2 DEF RecallDecided
  <2> QED
    BY <2>1, <2>2
<1>3. ASSUME NEW c \in Recalls, RecallAnswered(c) PROVE CircuitInv'
  <2>1. recall[c].key \in Scopes
    BY <1>3 DEF RecallAnswered, MemoryInv, OwnMemory
  <2> QED
    BY <1>3, <2>1, CircuitForgotten DEF RecallAnswered
<1>4. ASSUME NEW c \in Recalls, RecallFailed(c) PROVE CircuitInv'
  <2>1. recall[c].key \in Scopes
    BY <1>4 DEF RecallFailed, MemoryInv, OwnMemory
  <2> QED
    BY <1>4, <2>1, CircuitTracked DEF RecallFailed
<1>5. CASE Tick
  BY <1>5, CircuitTicks
<1> QED
  BY <1>1, <1>2, <1>3, <1>4, <1>5
  DEF RecallNext, recallVars, mapVars, NewTurn, SetSessionTrigger, ClearSessionTrigger, Forget,
      RecallSkipped, RecallSent, RecallEnds

(* What a place is set to. *)
LEMMA PlaceSet ==
  ASSUME MemoryInv, NEW c \in Recalls, NEW place \in Places,
         OwnMemory(place), place.pc = "idle" => place = NoRecall,
         recall' = [recall EXCEPT ![c] = place],
         turnCache' \in Seq(CacheEntries), latest' = latest
  PROVE  MemoryInv'
BY DEF MemoryInv, OwnMemory

LEMMA MemoryStep ==
  ASSUME MemoryInv, [RecallNext]_recallVars
  PROVE  MemoryInv'
<1> USE DEF MemoryInv
<1>1. CASE UNCHANGED <<recall, latest>> /\ turnCache' \in Seq(CacheEntries)
  BY <1>1 DEF OwnMemory
<1>2. ASSUME NEW s \in RecallSessions, NewTurn(s) PROVE MemoryInv'
  BY <1>2 DEF NewTurn, mapVars, OwnMemory
<1>3. ASSUME NEW s \in RecallSessions, Forget(s) PROVE MemoryInv'
  <2> DEFINE J == {i \in DOMAIN turnCache : turnCache[i].key.session # s}
  <2>1. J \in SUBSET (DOMAIN turnCache) /\ turnCache' = Kept(turnCache, J)
    BY <1>3 DEF Forget
  <2> HIDE DEF J
  <2>2. turnCache' \in Seq(CacheEntries)
    BY <2>1, KeptProperties
  <2> QED
    BY <1>1, <1>3, <2>2 DEF Forget
<1>4. ASSUME NEW c \in Recalls, NEW k \in Scopes, NEW pc \in {"draining", "assembling"},
             NEW found \in {0, k.client}, Enter(c, k, pc, found),
             turnCache' \in Seq(CacheEntries), latest' = latest
      PROVE  MemoryInv'
  <2> DEFINE place == [pc |-> pc, key |-> k, turn |-> latest[k.session], found |-> found]
  <2>1. k.session \in RecallSessions
    BY DEF RecallSessions
  <2>2. place \in Places /\ OwnMemory(place) /\ place.pc # "idle"
    BY <2>1 DEF Places, OwnMemory
  <2>3. recall' = [recall EXCEPT ![c] = place]
    BY <1>4 DEF Enter
  <2> HIDE DEF place
  <2> QED
    BY <1>4, <2>2, <2>3, PlaceSet
<1>5. ASSUME NEW c \in Recalls, NEW k \in Scopes, RecallSkipped(c, k) PROVE MemoryInv'
  <2>1. NoRecall.found \in {0, k.client}
    BY DEF NoRecall
  <2> QED
    BY <1>4, <1>5, <2>1 DEF RecallSkipped, mapVars
<1>6. ASSUME NEW c \in Recalls, NEW k \in Scopes, RecallDecided(c, k) PROVE MemoryInv'
  <2> DEFINE key == CacheKey(k, latest[k.session])
             hit == ~ Open(k) /\ Has(turnCache, key)
             found == IF hit THEN Entry(turnCache, key).found ELSE NoRecall.found
  <2>1. Has(turnCache, key) =>
          Entry(turnCache, key) \in CacheEntries /\ Entry(turnCache, key).key = key
    BY EntryIsThere, EntriesTyped
  <2>2. Refreshed(turnCache, key) \in Seq(CacheEntries)
    <3>1. Without(turnCache, key) \in Seq(CacheEntries)
      BY WithoutEntries
    <3> QED
      BY <2>1, <3>1 DEF Refreshed
  <2>3. turnCache' \in Seq(CacheEntries)
    BY <1>6, <2>2 DEF RecallDecided
  <2>4. found \in {0, k.client}
    <3>1. \A e \in CacheEntries : e.found = e.key.client
      BY DEF CacheEntries, CacheKey
    <3>2. Has(turnCache, key) => Entry(turnCache, key).found = key.client
      BY <2>1, <3>1
    <3> QED
      BY <3>2 DEF NoRecall, CacheKey
  <2>5. Enter(c, k, IF Open(k) \/ hit \/ Attempted(k, latest[k.session]) THEN "assembling"
                    ELSE "draining", found)
    BY <1>6 DEF RecallDecided
  <2>6. latest' = latest
    BY <1>6 DEF RecallDecided
  <2> HIDE DEF hit, found, key
  <2> QED
    BY <1>4, <2>3, <2>4, <2>5, <2>6
<1>7. ASSUME NEW c \in Recalls, RecallSent(c) PROVE MemoryInv'
  <2> DEFINE place == [recall[c] EXCEPT !.pc = "calling"]
  <2>1. place \in Places /\ OwnMemory(place) /\ place.pc # "idle"
    BY <1>7 DEF RecallSent, Places, OwnMemory
  <2>2. recall' = [recall EXCEPT ![c] = place] /\ latest' = latest /\ turnCache' = turnCache
    BY <1>7 DEF RecallSent
  <2> HIDE DEF place
  <2> QED
    BY <2>1, <2>2, PlaceSet
<1>8. ASSUME NEW c \in Recalls, RecallAnswered(c) PROVE MemoryInv'
  <2> DEFINE k == recall[c].key
             place == [recall[c] EXCEPT !.pc = "assembling", !.found = k.client]
             entry == [key |-> CacheKey(k, recall[c].turn), found |-> k.client]
  <2>1. k \in Scopes /\ recall[c] \in Places /\ recall[c].turn \in Nat
    BY <1>8 DEF RecallAnswered, OwnMemory, Places
  <2>2. place \in Places /\ OwnMemory(place) /\ place.pc # "idle"
    BY <2>1 DEF Places, OwnMemory
  <2>3. entry \in CacheEntries
    BY <2>1 DEF CacheEntries
  <2>4. /\ recall' = [recall EXCEPT ![c] = place] /\ latest' = latest
        /\ turnCache' = PutLast(turnCache, entry, MaxTurns)
    BY <1>8 DEF RecallAnswered
  <2> HIDE DEF place, entry
  <2>5. turnCache' \in Seq(CacheEntries)
    <3>1. Without(turnCache, entry.key) \in Seq(CacheEntries)
      BY WithoutEntries
    <3>2. Room(Without(turnCache, entry.key), MaxTurns) \in Seq(CacheEntries)
      BY <3>1, RoomEntries
    <3> QED
      BY <2>3, <2>4, <3>2 DEF PutLast
  <2> QED
    BY <2>2, <2>4, <2>5, PlaceSet
<1>9. ASSUME NEW c \in Recalls, RecallFailed(c) PROVE MemoryInv'
  <2> DEFINE place == [recall[c] EXCEPT !.pc = "assembling"]
  <2>1. place \in Places /\ OwnMemory(place) /\ place.pc # "idle"
    BY <1>9 DEF RecallFailed, Places, OwnMemory
  <2>2. recall' = [recall EXCEPT ![c] = place] /\ latest' = latest /\ turnCache' = turnCache
    BY <1>9 DEF RecallFailed
  <2> HIDE DEF place
  <2> QED
    BY <2>1, <2>2, PlaceSet
<1>10. ASSUME NEW c \in Recalls, RecallEnds(c) PROVE MemoryInv'
  <2>1. NoRecall \in Places /\ NoRecall.pc = "idle" /\ OwnMemory(NoRecall)
    BY DEF NoRecall, Places, OwnMemory
  <2>2. recall' = [recall EXCEPT ![c] = NoRecall] /\ latest' = latest /\ turnCache' = turnCache
    BY <1>10 DEF RecallEnds, mapVars
  <2> QED
    BY <2>1, <2>2, PlaceSet
<1>11. CASE UNCHANGED <<recall, latest, turnCache>>
  BY <1>1, <1>11
<1> QED
  BY <1>2, <1>3, <1>5, <1>6, <1>7, <1>8, <1>9, <1>10, <1>11
  DEF RecallNext, recallVars, mapVars, SetSessionTrigger, ClearSessionTrigger, Tick

LEMMA RecallHolds == RecallSpec => []RecallInv
<1>1. RecallInv /\ [RecallNext]_recallVars => RecallInv'
  BY CircuitStep, MemoryStep DEF RecallInv
<1> QED
  BY <1>1, RecallInitially, PTL DEF RecallSpec

(* However assemblies of any sessions and clients overlap, and whatever    *)
(* the caches evict or refresh: a prompt holds its own client's memory.    *)
THEOREM RecallIsTheClients == RecallSpec => []RecallStaysWithClient
<1>1. RecallInv => RecallStaysWithClient
  <2> SUFFICES ASSUME RecallInv, NEW c \in Recalls
               PROVE  recall[c].found \in {0, recall[c].key.client}
    BY DEF RecallStaysWithClient
  <2>1. CASE recall[c].pc = "idle"
    BY <2>1 DEF RecallInv, MemoryInv, NoRecall
  <2>2. CASE recall[c].pc # "idle"
    BY <2>2 DEF RecallInv, MemoryInv, OwnMemory
  <2> QED
    BY <2>1, <2>2
<1> QED
  BY <1>1, RecallHolds, PTL

(* An open circuit stands for as many failures of its class in a row as    *)
(* that class is allowed, in whatever order overlapping requests end.      *)
THEOREM CircuitOpensByRule == RecallSpec => []OpenedByThreshold
<1>1. RecallInv => OpenedByThreshold
  <2> SUFFICES ASSUME RecallInv, NEW k \in Scopes, Open(k)
               PROVE  /\ failedRun[k].class = Entry(circuits, k).class
                      /\ failedRun[k].length >= MaxConsecutive[failedRun[k].class]
    BY DEF OpenedByThreshold
  <2> DEFINE e == Entry(circuits, k)
  <2>1. e \in CircuitEntries /\ CountedBy(e, failedRun[k]) /\ failedRun[k] \in Runs
    BY EntryIsThere, EntriesTyped DEF Open, RecallInv, CircuitInv
  <2>2. e.wait # Counting
    BY DEF Open, Forever, Counting
  <2>3. MaxConsecutive[e.class] \in 1..3
    BY <2>1, ThresholdsAreSmall DEF CircuitEntries
  <2> HIDE DEF e
  <2>4. /\ failedRun[k].length \in 0..3 /\ e.consecutive \in Nat
        /\ failedRun[k].length >= e.consecutive \/ failedRun[k].length = 3
        /\ e.consecutive >= MaxConsecutive[e.class] /\ failedRun[k].class = e.class
    BY <2>1, <2>2 DEF CountedBy, CircuitEntries, Runs
  <2> QED
    BY <2>3, <2>4 DEF e
<1> QED
  BY <1>1, RecallHolds, PTL
=============================================================================
