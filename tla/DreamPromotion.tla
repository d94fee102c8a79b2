--------------------------- MODULE DreamPromotion ---------------------------
(***************************************************************************)
(* The dream diary (src/dream-promotion.ts): a file that is watched,       *)
(* scanned after a pause, parsed for candidates and promoted to the        *)
(* daemon, which keeps exactly the candidates of the diary it was sent     *)
(* last.  A scan awaits the stat, the read and the request; edits, watch   *)
(* events, stop() and start() come in between.                             *)
(*                                                                         *)
(* A content is a name for its lines, NoDiary when there is no file; its   *)
(* hash is itself.  The stamp is size, mtime and ctime together, new with  *)
(* every edit.  A watch is bound to the directory it was made on, and a    *)
(* directory that replaces it needs another one.                           *)
(***************************************************************************)
EXTENDS Integers, Sequences, SequencesExt

CONSTANTS
  Lines,           \* Lines[content]: what may be written
  NoDiary,
  MaxEdits,        \* bound: edits and replaced directories
  MaxDreamFaults,  \* bound: requests that fail
  MaxStops         \* bound: times the service is stopped

VARIABLES
  diary,        \* content and stamp of the file, and its directory
  notices,      \* watch events that were raised and not delivered
  watching, dirty, timer,   \* state.watching, dirty and timer
  watcher,      \* the directory state.watcher is bound to, or 0
  parentWatcher,
  lastFile,     \* lastFileState: content and stamp, NoFile when null
  reconciled,   \* missingSourceReconciled
  scan,         \* the scan: its place, the stat and the content it read
  stopping,     \* stop() awaits activeScan
  promoted,     \* the daemon: the candidates it holds
  sent,         \* the daemon has acted on the request that is out
  faults, stops,
  unsure,       \* history: a request failed that the daemon had acted on
  owed          \* history: a scan failed, and nothing has called for one since

handleVars == <<watching, dirty, timer, watcher, parentWatcher, lastFile, reconciled>>
worldVars == <<diary, notices, promoted, faults, stops, unsure, owed>>
dreamVars == <<handleVars, worldVars, scan, stopping, sent>>

NoFile == [content |-> NoDiary, stamp |-> -1]
NoScan == [at |-> "idle", stamp |-> 0, content |-> NoDiary]

-----------------------------------------------------------------------------
(* parseDreamPromotionCandidates: the bullets of a promotion section that  *)
(* carry all three counts, outside of fenced blocks.                       *)

(* createMarkdownFenceTracker: the open fence after a line, "" for none. A *)
(* block is closed by its own mark, at least as long and with nothing      *)
(* after it.                                                               *)
NoFence == [mark |-> "", length |-> 0]
FenceAfter(fence, line) ==
  LET closes == line.mark = fence.mark /\ line.length >= fence.length /\ ~ line.info IN
  IF line.kind # "fence" THEN fence
  ELSE IF fence = NoFence THEN [mark |-> line.mark, length |-> line.length]
  ELSE IF closes THEN NoFence ELSE fence

FencesOf(lines) ==
  FoldLeft(LAMBDA fences, line : Append(fences, FenceAfter(Last(fences), line)),
           <<NoFence>>, lines)

Outside(lines) ==
  LET fences == FencesOf(lines) IN
  {i \in DOMAIN lines : fences[i] = NoFence /\ lines[i].kind # "fence"}

(* The last heading before it, of any level, decides. *)
InPromotionSection(lines, i) ==
  LET headings == {j \in Outside(lines) : j < i /\ lines[j].kind = "heading"} IN
  \E j \in headings : lines[j].promotes /\ \A k \in headings : k <= j

(* parseBulletCandidate and parseTrailingMetadata *)
Counted(line) ==
  line.kind = "bullet" /\ line.text # "" /\ line.counts = {"score", "recall", "unique"}

Candidates(lines) ==
  { [text |-> lines[i].text, line |-> i] :
      i \in {j \in Outside(lines) : Counted(lines[j]) /\ InPromotionSection(lines, j)} }

Contents == DOMAIN Lines
Promotable == [content \in Contents |-> Candidates(Lines[content])]
Promotes(content) == IF content = NoDiary THEN {} ELSE Promotable[content]

-----------------------------------------------------------------------------
DreamInit ==
  /\ \E content \in Contents \cup {NoDiary} :
       diary = [content |-> content, stamp |-> 0, directory |-> 1]
  /\ notices = {} /\ watching = FALSE /\ dirty = FALSE /\ timer = FALSE
  /\ watcher = 0 /\ parentWatcher = FALSE
  /\ lastFile = NoFile /\ reconciled = FALSE
  /\ scan = NoScan /\ stopping = FALSE
  /\ promoted \in {Promotes(content) : content \in Contents \cup {NoDiary}}
  /\ sent = FALSE /\ faults = 0 /\ stops = 0 /\ unsure = FALSE /\ owed = FALSE

(* refreshDiary, after dirty was set as it says.  A scan that is under way *)
(* or a timer that runs leaves only the mark.                              *)
DiaryRefreshed(marked, scanning) ==
  /\ dirty' = (watching /\ (marked \/ scanning \/ timer))
  /\ timer' = (timer \/ (watching /\ ~ scanning))

Scanning == scan.at # "idle"

(* start(), and the refresh() of the handle. *)
DreamStart ==
  /\ ~ watching
  /\ watching' = TRUE
  /\ dirty' = Scanning /\ timer' = ~ Scanning /\ owed' = FALSE
  /\ UNCHANGED <<watcher, parentWatcher, lastFile, reconciled, diary, notices, promoted,
                 faults, stops, unsure, scan, stopping, sent>>

DreamRefresh ==
  /\ watching /\ DiaryRefreshed(dirty, Scanning) /\ owed' = FALSE
  /\ UNCHANGED <<watching, watcher, parentWatcher, lastFile, reconciled, diary, notices,
                 promoted, faults, stops, unsure, scan, stopping, sent>>

(* stop(), up to its await, and its return. *)
\* mutation: the timer is left to run
DreamStopKeepsTimer ==
  /\ watching /\ stops < MaxStops /\ stops' = stops + 1
  /\ watching' = FALSE /\ dirty' = FALSE
  /\ watcher' = 0 /\ parentWatcher' = FALSE /\ notices' = {} /\ stopping' = TRUE
  /\ UNCHANGED <<timer, lastFile, reconciled, diary, promoted, faults, unsure,
                 owed, scan, sent>>

DreamStop ==
  /\ watching /\ stops < MaxStops /\ stops' = stops + 1
  /\ watching' = FALSE /\ dirty' = FALSE /\ timer' = FALSE
  /\ watcher' = 0 /\ parentWatcher' = FALSE /\ notices' = {} /\ stopping' = TRUE
  /\ UNCHANGED <<lastFile, reconciled, diary, promoted, faults, unsure, owed,
                 scan, sent>>

DreamStopped ==
  /\ stopping /\ ~ Scanning
  /\ stopping' = FALSE
  /\ UNCHANGED <<handleVars, worldVars, scan, sent>>

-----------------------------------------------------------------------------
(* The world: the diary is written, removed or moved with its directory.   *)

Edit(content) ==
  /\ diary.stamp < MaxEdits /\ content # diary.content
  /\ diary' = [diary EXCEPT !.content = content, !.stamp = @ + 1]
  /\ notices' = notices \cup (IF watcher = diary.directory THEN {"change"} ELSE {})
  /\ UNCHANGED <<handleVars, promoted, faults, stops, unsure, owed, scan, stopping, sent>>

DirectoryReplaced(content) ==
  /\ diary.stamp < MaxEdits
  /\ diary' = [content |-> content, stamp |-> diary.stamp + 1,
               directory |-> diary.directory + 1]
  /\ notices' = notices \cup (IF parentWatcher THEN {"rename"} ELSE {})
  /\ UNCHANGED <<handleVars, promoted, faults, stops, unsure, owed, scan, stopping, sent>>

(* Notices of a watch that was closed are not listened to. *)
DiaryChanged ==
  /\ "change" \in notices /\ notices' = notices \ {"change"}
  /\ DiaryRefreshed(TRUE, Scanning) /\ owed' = FALSE
  /\ UNCHANGED <<watching, watcher, parentWatcher, lastFile, reconciled, diary, promoted,
                 faults, stops, unsure, scan, stopping, sent>>

(* The parent saw the directory go or come: both watches are made anew. *)
DirectoryChanged ==
  /\ "rename" \in notices /\ notices' = {}
  /\ parentWatcher' = FALSE /\ watcher' = 0
  /\ DiaryRefreshed(TRUE, Scanning) /\ owed' = FALSE
  /\ UNCHANGED <<watching, lastFile, reconciled, diary, promoted, faults, stops, unsure,
                 scan, stopping, sent>>

(* A watcher fails, and the next scan makes another. *)
WatchError ==
  /\ watcher # 0 /\ faults < MaxDreamFaults /\ faults' = faults + 1
  /\ watcher' = 0 /\ notices' = notices \ {"change"}
  /\ DiaryRefreshed(dirty, Scanning) /\ owed' = FALSE
  /\ UNCHANGED <<watching, parentWatcher, lastFile, reconciled, diary, promoted, stops,
                 unsure, scan, stopping, sent>>

-----------------------------------------------------------------------------
(* A scan.                                                                 *)

(* The pause is over: the watches first, then the stat. *)
ScanStarts ==
  /\ timer /\ timer' = FALSE
  /\ IF watching
     THEN /\ watcher' = IF watcher = 0 THEN diary.directory ELSE watcher
          /\ parentWatcher' = TRUE
          /\ scan' = [NoScan EXCEPT !.at = "stat"]
     ELSE UNCHANGED <<watcher, parentWatcher, scan>>
  /\ UNCHANGED <<watching, dirty, lastFile, reconciled, worldVars, stopping, sent>>

(* scanDiary's finally block, with an event that came meanwhile. *)
ScanEnds ==
  /\ scan' = NoScan /\ sent' = FALSE
  /\ timer' = (timer \/ (dirty /\ watching)) /\ dirty' = FALSE

(* No file: the daemon is sent an empty diary, once. *)
Missing ==
  IF reconciled
  THEN ScanEnds /\ UNCHANGED <<lastFile, reconciled>>
  ELSE /\ scan' = [NoScan EXCEPT !.at = "request"]
       /\ UNCHANGED <<timer, dirty, lastFile, reconciled, sent>>

Stat ==
  /\ scan.at = "stat"
  /\ IF diary.content = NoDiary THEN Missing
     ELSE IF lastFile.stamp = diary.stamp
     THEN ScanEnds /\ UNCHANGED <<lastFile, reconciled>>
     ELSE /\ scan' = [scan EXCEPT !.at = "read", !.stamp = diary.stamp]
          /\ UNCHANGED <<timer, dirty, lastFile, reconciled, sent>>
  /\ UNCHANGED <<watching, watcher, parentWatcher, worldVars, stopping>>

(* What is read may be newer than the stat.  Known content only brings the *)
(* stamp up to date.                                                       *)
\* mutation: content is known by its stamp as it is read
ReadTakesStamp ==
  /\ scan.at = "read"
  /\ IF diary.content = NoDiary THEN Missing
     ELSE /\ reconciled' = FALSE
          /\ lastFile' = [content |-> diary.content, stamp |-> scan.stamp]
          /\ IF diary.content = lastFile.content THEN ScanEnds
             ELSE /\ scan' = [scan EXCEPT !.at = "request", !.content = diary.content]
                  /\ UNCHANGED <<timer, dirty, sent>>
  /\ UNCHANGED <<watching, watcher, parentWatcher, worldVars, stopping>>

Read ==
  /\ scan.at = "read"
  /\ IF diary.content = NoDiary THEN Missing
     ELSE /\ reconciled' = FALSE
          /\ IF diary.content = lastFile.content
             THEN ScanEnds /\ lastFile' = [lastFile EXCEPT !.stamp = scan.stamp]
             ELSE /\ scan' = [scan EXCEPT !.at = "request", !.content = diary.content]
                  /\ UNCHANGED <<timer, dirty, lastFile, sent>>
  /\ UNCHANGED <<watching, watcher, parentWatcher, worldVars, stopping>>

(* The daemon takes the diary it is sent for all there is.                 *)
DaemonPromotes ==
  /\ scan.at = "request" /\ ~ sent
  /\ promoted' = Promotes(scan.content) /\ sent' = TRUE
  /\ UNCHANGED <<handleVars, diary, notices, faults, stops, unsure, owed, scan, stopping>>

Promoted ==
  /\ scan.at = "request" /\ sent
  /\ ScanEnds
  /\ lastFile' = IF scan.content = NoDiary THEN NoFile
                 ELSE [content |-> scan.content, stamp |-> scan.stamp]
  /\ reconciled' = (scan.content = NoDiary)
  /\ unsure' = FALSE
  /\ UNCHANGED <<watching, watcher, parentWatcher, diary, notices, promoted, faults, stops,
                 owed, stopping>>

(* No client, a refusal, nodes that were rejected, or a reply that is lost *)
(* after the daemon has acted; a read error before.  Nothing is retried    *)
(* until the diary changes again.                                          *)
ScanFails ==
  /\ Scanning /\ faults < MaxDreamFaults /\ faults' = faults + 1
  /\ ScanEnds
  /\ unsure' = (unsure \/ sent) /\ owed' = ~ timer'
  /\ UNCHANGED <<watching, watcher, parentWatcher, lastFile, reconciled, diary, notices,
                 promoted, stops, stopping>>

DreamWorks == ScanStarts \/ Stat \/ Read \/ DaemonPromotes \/ Promoted
DreamNext ==
  \/ DreamStart \/ DreamRefresh \/ DreamStop \/ DreamStopped
  \/ \E content \in Contents \cup {NoDiary} : Edit(content) \/ DirectoryReplaced(content)
  \/ DiaryChanged \/ DirectoryChanged \/ WatchError
  \/ DreamWorks \/ ScanFails

(* Timers fire, promises settle and watchers report. *)
DreamFairness ==
  WF_dreamVars(DreamWorks) /\ WF_dreamVars(DiaryChanged) /\ WF_dreamVars(DirectoryChanged)

DreamSpec == DreamInit /\ [][DreamNext]_dreamVars /\ DreamFairness

-----------------------------------------------------------------------------

(* When stop() has returned and the service was not started again, nothing *)
(* is left of it: no scan, no timer, no watch.                             *)
StoppedIsQuiet ==
  ~ watching /\ ~ stopping =>
    ~ Scanning /\ ~ timer /\ watcher = 0 /\ ~ parentWatcher

(* Once the diary is left alone the daemon comes to hold what it promotes, *)
(* however edits, scans, stops and starts were interleaved: unless the     *)
(* service is stopped, the last scan failed, or a reply was lost and the   *)
(* diary is back at what it was before.                                    *)
DiaryPromoted ==
  <>[](watching => promoted = Promotes(diary.content) \/ owed \/ unsure)
=============================================================================
