--------------------------- MODULE RecallCircuit ---------------------------
(***************************************************************************)
(* Semantic recall in assemble() of src/context-engine.ts: the decision    *)
(* whether BeforeTurnKernel is asked, its circuit breaker, the bounded     *)
(* maps around it (circuits, attempts, turn cache, predictions, triggers)  *)
(* and whose memory a prompt is given in the end.                          *)
(*                                                                         *)
(* A JavaScript Map iterates in insertion order and is bounded by deleting *)
(* its first key: it is a sequence of entries here.  Deadlines are the     *)
(* time left, in ticks.  The signature of a turn is its number, and comes  *)
(* with the client as in the code (recallClientId).                        *)
(***************************************************************************)
EXTENDS Integers, Sequences, FiniteSets

CONSTANTS
  Scopes,          \* [session, client] pairs: JSON.stringify([sessionId, clientId])
  Recalls,         \* places that may have an assembly under way
  MaxUserTurns,    \* bound: turns of a session
  Failures,        \* the classes of failure that happen
  MaxCircuits, MaxAttempts, MaxTurns, MaxTriggers,  \* map bounds
  UnavailableUnit, UnavailableMax,   \* 5 s and 120 s
  Cooldown         \* [timeout, overloaded, unknown |-> ticks]

VARIABLES
  circuits,     \* entries [key, class, consecutive, wait]
  attempts,     \* entries [key, turn]
  turnCache,    \* entries [key, found], key [session, client, turn]
  triggers,     \* entries [key, trigger], key a session
  latest,       \* latest[s]: the newest turn of the host
  recall,       \* recall[c]: the assembly in place c; found is the client whose
                \* memory it was given, 0 if nothing was recalled
  failedRun     \* history: how often k last failed in one way, since it answered

mapVars == <<circuits, attempts, turnCache, triggers>>
recallVars == <<mapVars, latest, recall, failedRun>>

RecallSessions == {k.session : k \in Scopes}
Counting == -1          \* a cooldownUntil of 0: failures accumulate
Forever == -2           \* a cooldownUntil of Infinity
NoFailure == [class |-> "none", length |-> 0]
NoRecall == [pc |-> "idle", key |-> CHOOSE k \in Scopes : TRUE, turn |-> 0,
             found |-> 0]

-----------------------------------------------------------------------------
(* Bounded maps.                                                           *)

Has(map, key) == \E i \in DOMAIN map : map[i].key = key
Entry(map, key) == map[CHOOSE i \in DOMAIN map : map[i].key = key]

(* The entries at some places stay, in their order. *)
Nth(places, n) == CHOOSE p \in places : Cardinality({q \in places : q <= p}) = n
Kept(map, places) == [n \in 1..Cardinality(places) |-> map[Nth(places, n)]]
Without(map, key) == Kept(map, {i \in DOMAIN map : map[i].key # key})

Room(map, max) == IF Len(map) >= max /\ map # <<>> THEN Tail(map) ELSE map

(* A key that is there keeps its place. *)
Put(map, entry, max) ==
  IF Has(map, entry.key)
  THEN [i \in DOMAIN map |-> IF map[i].key = entry.key THEN entry ELSE map[i]]
  ELSE Append(Room(map, max), entry)

(* The key goes to the end (MemoryCache.set, setSessionTrigger). *)
PutLast(map, entry, max) == Append(Room(Without(map, entry.key), max), entry)

(* MemoryCache.get refreshes what it finds. *)
Refreshed(map, key) ==
  IF Has(map, key) THEN Append(Without(map, key), Entry(map, key)) ELSE map

-----------------------------------------------------------------------------
(* The circuit breaker.                                                    *)

MaxConsecutive == [timeout |-> 3, unavailable |-> 2, overloaded |-> 1, auth |-> 1,
                   unknown |-> 3]

ASSUME RecallAssumption ==
  /\ Failures \subseteq DOMAIN MaxConsecutive
  /\ {UnavailableUnit, UnavailableMax} \cup
       {Cooldown[class] : class \in {"timeout", "overloaded", "unknown"}} \subseteq Nat

(* computeCooldown *)
Wait(class, consecutive) ==
  LET backoff == UnavailableUnit * 2 ^ consecutive IN
  IF class = "auth" THEN Forever
  ELSE IF class = "unavailable"
  THEN IF backoff < UnavailableMax THEN backoff ELSE UnavailableMax
  ELSE Cooldown[class]

(* isBeforeTurnCircuitOpen; an entry whose time is up is deleted then. *)
Expired(k) == Has(circuits, k) /\ Entry(circuits, k).wait = 0
\* mutation: an entry is good for as long as it is there
OpenWhileThere(k) == Has(circuits, k) /\ Entry(circuits, k).wait # Counting

Open(k) ==
  Has(circuits, k) /\ (Entry(circuits, k).wait = Forever \/ Entry(circuits, k).wait > 0)

(* trackBeforeTurnFailure: a failure of another class starts over. *)
\* mutation: a failure of another class counts on
TrackedAnyClass(k, class) ==
  LET consecutive == IF Has(circuits, k) THEN Entry(circuits, k).consecutive + 1 ELSE 1 IN
  Put(circuits,
      [key |-> k, class |-> class, consecutive |-> consecutive,
       wait |-> IF consecutive >= MaxConsecutive[class] THEN Wait(class, consecutive)
                ELSE Counting],
      MaxCircuits)

Tracked(k, class) ==
  LET same == Has(circuits, k) /\ Entry(circuits, k).class = class
      consecutive == IF same THEN Entry(circuits, k).consecutive + 1 ELSE 1
      wait == IF consecutive >= MaxConsecutive[class] THEN Wait(class, consecutive)
              ELSE IF same THEN Entry(circuits, k).wait ELSE Counting IN
  Put(circuits, [key |-> k, class |-> class, consecutive |-> consecutive, wait |-> wait],
      MaxCircuits)

-----------------------------------------------------------------------------
RecallInit ==
  /\ circuits = <<>> /\ attempts = <<>> /\ turnCache = <<>>
  /\ triggers = <<>>
  /\ latest = [s \in RecallSessions |-> 1]
  /\ recall = [c \in Recalls |-> NoRecall]
  /\ failedRun = [k \in Scopes |-> NoFailure]

(* The host: a new user turn, and the hooks that record what triggered it. *)
NewTurn(s) ==
  /\ latest[s] < MaxUserTurns
  /\ latest' = [latest EXCEPT ![s] = @ + 1]
  /\ UNCHANGED <<mapVars, recall, failedRun>>

SetSessionTrigger(s, trigger) ==
  /\ triggers' = PutLast(triggers, [key |-> s, trigger |-> trigger], MaxTriggers)
  /\ UNCHANGED <<circuits, attempts, turnCache, latest, recall, failedRun>>

ClearSessionTrigger(s) ==
  /\ triggers' = Without(triggers, s)
  /\ UNCHANGED <<circuits, attempts, turnCache, latest, recall, failedRun>>

(* A trigger that is not known counts as interactive. *)
Interactive(s) == Has(triggers, s) => Entry(triggers, s).trigger = "user"

(* activateCompactedProjection, awaitCompactedProjection and bootstrap drop *)
(* what was recalled for the session (see CompactedProjection).             *)
Forget(s) ==
  /\ turnCache' = Kept(turnCache, {i \in DOMAIN turnCache : turnCache[i].key.session # s})
  /\ UNCHANGED <<circuits, attempts, triggers, latest, recall, failedRun>>

(* Time passes. *)
Tick ==
  /\ \E i \in DOMAIN circuits : circuits[i].wait > 0
  /\ circuits' = [i \in DOMAIN circuits |->
       IF circuits[i].wait > 0 THEN [circuits[i] EXCEPT !.wait = @ - 1] ELSE circuits[i]]
  /\ UNCHANGED <<attempts, turnCache, triggers, latest, recall, failedRun>>

-----------------------------------------------------------------------------
(* An assembly.                                                            *)

\* mutation: sessions share what they recall between clients
CacheKeyOfSession(k, turn) == [session |-> k.session, client |-> 0, turn |-> turn]

CacheKey(k, turn) == [session |-> k.session, client |-> k.client, turn |-> turn]
Attempted(k, turn) == Has(attempts, k) /\ Entry(attempts, k).turn = turn

Enter(c, k, pc, found) ==
  recall' = [recall EXCEPT ![c] = [pc |-> pc, key |-> k, turn |-> latest[k.session],
                                   found |-> found]]

(* Recall is off, the turn is automated, or its last message is not a new  *)
(* one of the user.                                                        *)
RecallSkipped(c, k) ==
  /\ recall[c].pc = "idle"
  /\ Enter(c, k, "assembling", NoRecall.found)
  /\ UNCHANGED <<mapVars, latest, failedRun>>

(* Everything from the decision to the drain of the ingestion queue: the   *)
(* circuit, then the cache, then the attempts.                             *)
RecallDecided(c, k) ==
  LET turn == latest[k.session]
      key == CacheKey(k, turn)
      hit == ~ Open(k) /\ Has(turnCache, key) IN
  /\ recall[c].pc = "idle" /\ Interactive(k.session)
  /\ circuits' = IF Expired(k) THEN Without(circuits, k) ELSE circuits
  /\ failedRun' = IF Expired(k) THEN [failedRun EXCEPT ![k] = NoFailure] ELSE failedRun
  /\ turnCache' = IF Open(k) THEN turnCache ELSE Refreshed(turnCache, key)
  /\ Enter(c, k, IF Open(k) \/ hit \/ Attempted(k, turn) THEN "assembling" ELSE "draining",
           IF hit THEN Entry(turnCache, key).found ELSE NoRecall.found)
  /\ UNCHANGED <<attempts, triggers, latest>>

(* After the drain the attempt is marked, and the request goes out. *)
RecallSent(c) ==
  LET k == recall[c].key IN
  /\ recall[c].pc = "draining"
  /\ attempts' = Put(attempts, [key |-> k, turn |-> recall[c].turn], MaxAttempts)
  /\ recall' = [recall EXCEPT ![c].pc = "calling"]
  /\ UNCHANGED <<circuits, turnCache, triggers, latest, failedRun>>

RecallAnswered(c) ==
  LET k == recall[c].key IN
  /\ recall[c].pc = "calling"
  /\ turnCache' = PutLast(turnCache, [key |-> CacheKey(k, recall[c].turn), found |-> k.client],
                          MaxTurns)
  /\ recall' = [recall EXCEPT ![c].pc = "assembling", ![c].found = k.client]
  /\ circuits' = Without(circuits, k)
  /\ failedRun' = [failedRun EXCEPT ![k] = NoFailure]
  /\ UNCHANGED <<attempts, triggers, latest>>

(* As long as any threshold. *)
Run(run, class) ==
  [class |-> class,
   length |-> IF run.class # class THEN 1
              ELSE IF run.length = 3 THEN 3 ELSE run.length + 1]

(* A refusal, a lost connection or the timer: the assembly goes on without. *)
RecallFailed(c) ==
  LET k == recall[c].key IN
  /\ recall[c].pc = "calling"
  /\ \E class \in Failures :
       /\ circuits' = Tracked(k, class)
       /\ failedRun' = [failedRun EXCEPT ![k] = Run(@, class)]
  /\ recall' = [recall EXCEPT ![c].pc = "assembling"]
  /\ UNCHANGED <<attempts, turnCache, triggers, latest>>

(* The prompt is returned with what was found, or the assembly fails.      *)
RecallEnds(c) ==
  /\ recall[c].pc = "assembling"
  /\ recall' = [recall EXCEPT ![c] = NoRecall]
  /\ UNCHANGED <<mapVars, latest, failedRun>>

RecallNext ==
  \/ \E s \in RecallSessions :
       NewTurn(s) \/ SetSessionTrigger(s, "cron") \/ ClearSessionTrigger(s) \/ Forget(s)
  \/ \E c \in Recalls, k \in Scopes : RecallSkipped(c, k) \/ RecallDecided(c, k)
  \/ \E c \in Recalls :
       RecallSent(c) \/ RecallAnswered(c) \/ RecallFailed(c) \/ RecallEnds(c)
  \/ Tick

(* The clock goes on. *)
RecallFairness == WF_recallVars(Tick)
RecallSpec == RecallInit /\ [][RecallNext]_recallVars /\ RecallFairness

-----------------------------------------------------------------------------

(* An open circuit stands for as many failures of one kind, with no answer *)
(* and no other failure between them, as that kind is allowed: however the *)
(* replies of overlapping assemblies arrive, and whatever was evicted.     *)
OpenedByThreshold ==
  \A k \in Scopes : Open(k) =>
    /\ failedRun[k].class = Entry(circuits, k).class
    /\ failedRun[k].length >= MaxConsecutive[failedRun[k].class]

(* What memory returned through one tenant's client never reaches a prompt *)
(* that is assembled with another's, through any of the caches.            *)
RecallStaysWithClient ==
  \A c \in Recalls : recall[c].found \in {0, recall[c].key.client}

(* A circuit that is not open for a refused identity closes again.         *)
RecallRetried ==
  \A k \in Scopes : []<>(Open(k) => Entry(circuits, k).class = "auth")
=============================================================================
