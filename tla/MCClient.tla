------------------------------ MODULE MCClient ------------------------------
(* Instances of RpcClient, PluginRuntime and IngestQueue for TLC.  They    *)
(* share no state and no step, so one of them moves in each behaviour; the *)
(* fairness of the others, of which nothing was asked, says nothing.       *)
(*                                                                         *)
(* Three callers, so that one can hold the lock, one wait for it and one   *)
(* have been aborted in between; two sessions with a tenant each and the   *)
(* default tenant; and two ingestions and a deletion of one document with  *)
(* an ingestion of another.                                                *)
EXTENDS RpcClient, PluginRuntime, IngestQueue

CONSTANTS s1, s2, t1, t2, t0, d1, d2

VARIABLE part

MCSessions == {s1, s2}
MCTenants == {t1, t2, t0}
MCOwner == [s \in MCSessions |-> IF s = s1 THEN t1 ELSE t2]

MCWork == <<
  [doc |-> d1, text |-> <<AB, SP, AB, HI, LO, AB, AB>>],
  [doc |-> d1, text |-> << >>],
  [doc |-> d1, text |-> <<AB, CR, CR, AB, AB, CR, HI, LO>>],
  [doc |-> d2, text |-> <<HI, LO, HI, LO, HI, LO>>]>>

(* The cut of every short well-formed text advances, stays within its      *)
(* limit and never separates a pair.                                       *)
Texts == UNION {[1..n -> Chars] : n \in 3..5}

ASSUME CutIsSafe ==
  \A text \in {t \in Texts : WellFormed(t)} : \A most \in 2..(Len(text) - 1) :
    Cut(text, most) \in 1..most /\ ~ Splits(text, Cut(text, most))

Init ==
  /\ RpcInit /\ RuntimeInit /\ QueueInit
  /\ part \in {"rpc", "runtime", "queue"} /\ (part # "rpc" => nonce = 0)
Next ==
  /\ \/ part = "rpc" /\ RpcNext /\ UNCHANGED <<runtimeVars, queueVars>>
     \/ part = "runtime" /\ RuntimeNext /\ UNCHANGED <<rpcVars, queueVars>>
     \/ part = "queue" /\ QueueNext /\ UNCHANGED <<rpcVars, runtimeVars>>
  /\ UNCHANGED part
Spec ==
  /\ Init /\ [][Next]_<<part, rpcVars, runtimeVars, queueVars>>
  /\ RpcFairness /\ RuntimeFairness /\ QueueFairness
=============================================================================
