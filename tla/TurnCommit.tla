----------------------------- MODULE TurnCommit -----------------------------
(***************************************************************************)
(* What commitTurn promises its host, with nothing of how it is kept: each *)
(* accepted turn has a key, the host may call commit for a key as often as *)
(* it likes and from several places at once, and                           *)
(*   - "committed" and "duplicate" are only ever said of a turn whose      *)
(*     messages have reached the daemon's store;                           *)
(*   - "duplicate" is only said of a key some call was told is committed,  *)
(*     at the latest in the same moment: a call nobody led before is never *)
(*     told it repeats a commit that was not announced to anyone;          *)
(*   - a call may fail at any time, and then it has promised nothing;      *)
(*   - a process failure forgets the calls in progress, never the store.   *)
(* TurnIngest implements this specification.                               *)
(***************************************************************************)
EXTENDS Integers, Sequences

CONSTANTS
  Calls,      \* the places in the host that may have a call outstanding
  Turns,      \* the accepted turns, named by their advancement keys
  Msgs,       \* the messages that may reach the store
  Need(_)     \* Need(t): the messages turn t must leave in the store

VARIABLES
  call,       \* call[c]: what call c is doing, and the last answer it got
  stored,     \* the messages the daemon has durably stored
  told        \* the turns the host was told are committed

abstractVars == <<call, stored, told>>

Idle == [pc |-> "idle"]
Pending(t) == [pc |-> "pending", turn |-> t]
Answered(t, res) == [pc |-> "done", turn |-> t, res |-> res]

Init ==
  /\ call = [c \in Calls |-> Idle]
  /\ stored = {}
  /\ told = {}

(* The host calls commit for a turn. *)
Begin(c, t) ==
  /\ call[c].pc # "pending"
  /\ call' = [call EXCEPT ![c] = Pending(t)]
  /\ UNCHANGED <<stored, told>>

(* The store only grows. *)
Store ==
  /\ \E new \in SUBSET Msgs : stored' = stored \cup new
  /\ UNCHANGED <<call, told>>

(* Calls for turn t are told res[c], of content the store already holds.   *)
Answer(t, res) ==
  /\ Need(t) \subseteq stored
  /\ told' = told \cup {t}
  /\ call' = [c \in Calls |-> IF c \in DOMAIN res THEN Answered(t, res[c]) ELSE call[c]]
  /\ UNCHANGED stored

(* A call for a key some call was told is committed is a duplicate of it.  *)
AnswerKnown(c, t) ==
  /\ t \in told
  /\ call[c].pc # "pending"
  /\ Answer(t, [d \in {c} |-> "duplicate"])

(* Pending calls for one turn are answered together: the one that led is   *)
(* told it has committed, and so the others may be told they repeat it.    *)
AnswerPending(C, t) ==
  /\ \A c \in C : call[c] = Pending(t)
  /\ \E leader \in C, other \in {"committed", "duplicate"} :
       Answer(t, [c \in C |-> IF c = leader THEN "committed" ELSE other])

(* Calls for one turn fail together. *)
Fail(C, t) ==
  /\ \A c \in C : call[c] = Pending(t)
  /\ call' = [c \in Calls |-> IF c \in C THEN Answered(t, "error") ELSE call[c]]
  /\ UNCHANGED <<stored, told>>

(* The process dies: what was outstanding is forgotten. *)
Crash ==
  /\ call' = [c \in Calls |-> Idle]
  /\ UNCHANGED <<stored, told>>

Next ==
  \/ \E c \in Calls, t \in Turns : Begin(c, t) \/ AnswerKnown(c, t)
  \/ \E C \in (SUBSET Calls) \ {{}}, t \in Turns : AnswerPending(C, t) \/ Fail(C, t)
  \/ Store
  \/ Crash

Spec == Init /\ [][Next]_abstractVars
=============================================================================
