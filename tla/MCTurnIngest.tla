---------------------------- MODULE MCTurnIngest ----------------------------
(* Instances of TurnIngest for TLC: three turns of two, one and one        *)
(* messages, or two turns, with the transcript growing by each turn.       *)
EXTENDS TurnIngest, IngestBounds, TLC

CONSTANTS Budget   \* messages per batch, each charged one token

MCTranscript == [t \in 1..NTurns |-> [i \in 1..(t + 1) |-> i]]
MCPrePrompt == [t \in 1..NTurns |-> IF t = 1 THEN 0 ELSE t]
MCBounded(b) == BoundBatch(b, [m \in 1..(NTurns + 1) |-> 1], Budget)

(* What the proofs take from the cap holds of it. *)
ASSUME CapIsStable /\ (InOrderHost => TurnsFit)

(* Slots and engines are interchangeable. *)
Symmetry == Permutations(Calls) \cup Permutations(Engines)
=============================================================================
