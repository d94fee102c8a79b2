---------------------------- MODULE IngestBounds ----------------------------
(***************************************************************************)
(* boundAfterTurnMessagesForIngest and trimMessagesToBudget: the token cap *)
(* on one afterTurn batch.                                                 *)
(***************************************************************************)
EXTENDS Integers, Sequences

(* An older message m is taken if it fits beside the newer ones; one that  *)
(* does not is passed over, and still older ones may fit.                  *)
TakeOlder(newer, m, weight, budget) ==
  IF newer.used + weight[m] > budget THEN newer
  ELSE [used |-> newer.used + weight[m], kept |-> <<m>> \o newer.kept]

NoneTaken == [used |-> 0, kept |-> << >>]

(* What is taken of the messages from each position on, newest first. *)
TakenFrom(b, weight, budget) ==
  LET taken[i \in 1..(Len(b) + 1)] ==
        IF i = Len(b) + 1 THEN NoneTaken ELSE TakeOlder(taken[i + 1], b[i], weight, budget)
  IN  taken

(* When nothing fits the newest message is truncated to the budget: it is  *)
(* still the same message, and the checkpoint keeps its source's hash.     *)
BoundBatch(b, weight, budget) ==
  LET kept == TakenFrom(b, weight, budget)[1].kept
  IN  IF b = << >> THEN << >>
      ELSE IF kept = << >> THEN <<b[Len(b)]>>
      ELSE kept
=============================================================================
