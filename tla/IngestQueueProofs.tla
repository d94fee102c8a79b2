-------------------------- MODULE IngestQueueProofs --------------------------
(***************************************************************************)
(* The operations of one document never overlap, and what the daemon holds *)
(* of it is one text from its start, for any number of documents and       *)
(* operations, any texts and limits, and any faults.                       *)
(*                                                                         *)
(* An operation waits only for the one that was last in the map when it    *)
(* was asked for, and the map forgets that one when it settles.  What      *)
(* keeps an operation behind ALL earlier ones is the chain: whoever runs   *)
(* or has settled has only settled operations before it, and an unsettled  *)
(* operation is never after the one the map names.  With nobody else at    *)
(* the document, its last piece ends where the running ingestion stands,   *)
(* or starts there when an answer was lost.                                *)
(***************************************************************************)
EXTENDS IngestQueue, TLAPS, SequenceTheorems, FiniteSetTheorems, WellFoundedInduction

Earlier(p, o) == p < o /\ Doc(p) = Doc(o)

Fields == {"pc", "after", "offset", "limit", "tries", "lost"}

Shape ==
  /\ op = [o \in Ops |-> op[o]]
  /\ \A o \in Ops : Fields \subseteq DOMAIN op[o]
  /\ \A o \in Ops : op[o].pc \in {"new", "queued", "sending", "ok", "failed"}
  /\ \A o \in Ops : op[o].after \in {0} \cup Ops
  /\ tail \in [Docs -> {0} \cup Ops]

InOrder == \A p, o \in Ops : p < o /\ op[p].pc = "new" => op[o].pc = "new"

AfterEarlier ==
  \A o \in Ops : op[o].pc # "new" /\ op[o].after # 0 => Earlier(op[o].after, o)

AfterLatest ==
  \A p, o \in Ops : Earlier(p, o) /\ op[o].pc # "new" => Settled(p) \/ p <= op[o].after

SettledBefore ==
  \A p, o \in Ops : Earlier(p, o) /\ (Active(o) \/ Settled(o)) => Settled(p)

TailIsLast ==
  \A o \in Ops : op[o].pc \in {"queued", "sending"} => o <= tail[Doc(o)]

TailIsReal ==
  \A d \in Docs : tail[d] # 0 => op[tail[d]].pc # "new" /\ Doc(tail[d]) = d

Chained ==
  /\ Shape
  /\ InOrder
  /\ AfterEarlier
  /\ AfterLatest
  /\ SettledBefore
  /\ TailIsLast
  /\ TailIsReal

(* Operations are numbered, and each has a document.                       *)
LEMMA OpsAreNumbers == Ops \subseteq Nat \ {0} /\ \A o \in Ops : Doc(o) \in Docs
<1>1. Work \in Seq([doc : Docs, text : Seq(Chars)])
  BY QueueAssumption
<1>2. Ops = 1..Len(Work) /\ Len(Work) \in Nat
  BY <1>1 DEF Ops
<1>3. \A o \in Ops : Work[o] \in [doc : Docs, text : Seq(Chars)]
  <2> DEFINE S == [doc : Docs, text : Seq(Chars)]
  <2>1. Work \in Seq(S)
    BY <1>1
  <2> HIDE DEF S
  <2>2. \A o \in 1..Len(Work) : Work[o] \in S
    BY <2>1
  <2> QED
    BY <2>2, <1>2 DEF S
<1>4. \A o \in Ops : Doc(o) \in Docs
  BY <1>3 DEF Doc
<1> QED
  BY <1>2, <1>4

LEMMA ChainedInit == QueueInit => Chained
<1> SUFFICES ASSUME QueueInit PROVE Chained
  OBVIOUS
<1>1. \A o \in Ops : op[o] = NewOp
  BY DEF QueueInit
<1>2. \A o \in Ops : op[o].pc = "new" /\ op[o].after = 0
  BY <1>1 DEF NewOp
<1>3. Shape
  BY <1>1, <1>2 DEF QueueInit, Shape, Fields, NewOp
<1>4. \A d \in Docs : tail[d] = 0
  BY DEF QueueInit
<1> QED
  BY <1>2, <1>3, <1>4, OpsAreNumbers
  DEF Chained, InOrder, AfterEarlier, AfterLatest, SettledBefore, TailIsLast, TailIsReal,
      Active, Settled

(* What an attempt that ends, in any way, does to the chain: its own       *)
(* operation stays active or settles, and waits for nobody else.           *)
Attempted(o, r) ==
  /\ r.after = op[o].after
  /\ r.pc \in {"sending", "ok", "failed"}
  /\ Fields \subseteq DOMAIN r

LEMMA AttemptKeeps ==
  ASSUME NEW o \in Ops, Chained, Active(o),
         NEW r, Attempted(o, r), op' = [op EXCEPT ![o] = r], tail' = tail
  PROVE  Chained'
<1>1. op'[o] = r /\ \A p \in Ops : p # o => op'[p] = op[p]
  BY DEF Chained, Shape
<1>2. \A p \in Ops : op'[p].after = op[p].after
  BY <1>1 DEF Attempted
<1>3. \A p \in Ops : /\ op[p].pc = "new" <=> op'[p].pc = "new"
                     /\ Settled(p) => Settled(p)'
                     /\ Active(p)' \/ Settled(p)' => Active(p) \/ Settled(p)
                     /\ op'[p].pc \in {"queued", "sending"} => op[p].pc \in {"queued", "sending"}
  BY <1>1 DEF Attempted, Active, Settled
<1>4. Shape'
  <2>1. op' = [p \in Ops |-> op'[p]]
    BY DEF Chained, Shape
  <2>2. \A p \in Ops : /\ Fields \subseteq DOMAIN op'[p]
                       /\ op'[p].pc \in {"new", "queued", "sending", "ok", "failed"}
    BY <1>1 DEF Attempted, Chained, Shape
  <2> QED
    BY <2>1, <2>2, <1>2 DEF Shape, Chained
<1>5. InOrder' /\ AfterEarlier' /\ AfterLatest' /\ SettledBefore'
  BY <1>2, <1>3 DEF Chained, InOrder, AfterEarlier, AfterLatest, SettledBefore, Earlier
<1>6. TailIsLast' /\ TailIsReal'
  <2>1. TailIsLast'
    BY <1>3 DEF Chained, TailIsLast
  <2>2. \A d \in Docs : tail[d] # 0 => tail[d] \in Ops
    BY DEF Chained, Shape
  <2> QED
    BY <2>1, <2>2, <1>3 DEF Chained, TailIsReal
<1> QED
  BY <1>4, <1>5, <1>6 DEF Chained

(* Every way an attempt can end is such a step.                            *)
LEMMA AttemptsAreSteps ==
  ASSUME NEW o \in Ops, Shape, Accepted(o) \/ OpFailed(o) \/ Shrunk(o) \/ Rejected(o)
  PROVE  /\ Active(o) /\ tail' = tail
         /\ \E r : Attempted(o, r) /\ op' = [op EXCEPT ![o] = r]
<1>1. Active(o) /\ tail' = tail
  BY DEF Accepted, OpFailed, Shrunk, Rejected
<1>2. op[o].pc = "sending" /\ Fields \subseteq DOMAIN op[o]
  BY <1>1 DEF Active, Shape
<1>3. CASE Accepted(o)
  <2>1. Attempted(o, Advanced(o))
    BY <1>2 DEF Attempted, Advanced, Fields
  <2> QED
    BY <2>1, <1>1, <1>3 DEF Accepted
<1>4. CASE OpFailed(o)
  <2>1. Attempted(o, AfterFailure(o))
    BY <1>2 DEF Attempted, AfterFailure, Fields
  <2>2. Attempted(o, [AfterFailure(o) EXCEPT !.lost = TRUE])
    BY <2>1 DEF Attempted, Fields
  <2> QED
    BY <2>1, <2>2, <1>1, <1>4 DEF OpFailed
<1>5. CASE Shrunk(o)
  <2>1. PICK limit : op' = [op EXCEPT ![o] = [op[o] EXCEPT !.limit = limit, !.tries = 0]]
    BY <1>5 DEF Shrunk
  <2>2. Attempted(o, [op[o] EXCEPT !.limit = limit, !.tries = 0])
    BY <1>2 DEF Attempted, Fields
  <2> QED
    BY <2>1, <2>2, <1>1
<1>6. CASE Rejected(o)
  <2>1. op' = [op EXCEPT ![o] = [op[o] EXCEPT !.pc = "failed"]]
    BY <1>6 DEF Rejected
  <2>2. Attempted(o, [op[o] EXCEPT !.pc = "failed"])
    BY <1>2 DEF Attempted, Fields
  <2> QED
    BY <2>1, <2>2, <1>1
<1> QED
  BY <1>3, <1>4, <1>5, <1>6

LEMMA EnqueueKeeps ==
  ASSUME NEW o \in Ops, Chained, Enqueue(o)
  PROVE  Chained'
<1>1. op' = [op EXCEPT ![o] = [op[o] EXCEPT !.pc = "queued", !.after = tail[Doc(o)]]]
  BY DEF Enqueue
<1>2. \A p \in Ops : p # o => op'[p] = op[p]
  BY <1>1 DEF Chained, Shape
<1>3. op'[o] = [op[o] EXCEPT !.pc = "queued", !.after = tail[Doc(o)]]
  BY <1>1 DEF Chained, Shape
<1>4. /\ op'[o].pc = "queued" /\ op'[o].after = tail[Doc(o)]
      /\ Fields \subseteq DOMAIN op'[o]
  <2>1. Fields \subseteq DOMAIN op[o]
    BY DEF Chained, Shape
  <2> QED
    BY <2>1, <1>3 DEF Fields
<1>5. tail' = [tail EXCEPT ![Doc(o)] = o] /\ op[o].pc = "new" /\ Doc(o) \in Docs
  BY OpsAreNumbers DEF Enqueue
<1>6. \A p \in Ops : (p < o => op[p].pc # "new") /\ (o <= p => op[p].pc = "new")
  BY <1>5, OpsAreNumbers DEF Enqueue, Chained, InOrder
<1>7. tail[Doc(o)] \in {0} \cup Ops
  BY <1>5 DEF Chained, Shape
<1>8. Shape'
  <2>1. op' = [p \in Ops |-> op'[p]]
    BY <1>1 DEF Chained, Shape
  <2>2. tail' \in [Docs -> {0} \cup Ops]
    BY <1>5 DEF Chained, Shape
  <2>3. \A p \in Ops : /\ op'[p].pc \in {"new", "queued", "sending", "ok", "failed"}
                       /\ op'[p].after \in {0} \cup Ops
                       /\ Fields \subseteq DOMAIN op'[p]
    BY <1>2, <1>4, <1>7 DEF Chained, Shape
  <2> QED
    BY <2>1, <2>2, <2>3 DEF Shape
<1>9. InOrder'
  BY <1>2, <1>4, <1>6, OpsAreNumbers DEF InOrder
<1>10. AfterEarlier'
  <2>1. tail[Doc(o)] # 0 => Earlier(tail[Doc(o)], o)
    <3> SUFFICES ASSUME tail[Doc(o)] # 0 PROVE Earlier(tail[Doc(o)], o)
      OBVIOUS
    <3>1. tail[Doc(o)] \in Ops /\ Doc(tail[Doc(o)]) = Doc(o) /\ op[tail[Doc(o)]].pc # "new"
      BY <1>5, <1>7 DEF Chained, TailIsReal
    <3>2. ~ (o <= tail[Doc(o)])
      BY <3>1, <1>6
    <3>3. tail[Doc(o)] \in Nat /\ o \in Nat
      BY <3>1, OpsAreNumbers
    <3> QED
      BY <3>1, <3>2, <3>3 DEF Earlier
  <2> QED
    BY <2>1, <1>2, <1>4 DEF Chained, AfterEarlier
<1>11. AfterLatest'
  <2>1. \A p \in Ops : Earlier(p, o) => Settled(p) \/ p <= tail[Doc(o)]
    BY <1>6 DEF Chained, TailIsLast, Shape, Earlier, Settled
  <2>2. \A p \in Ops : Settled(p) => Settled(p)'
    BY <1>2, <1>5 DEF Settled
  <2> QED
    BY <2>1, <2>2, <1>2, <1>4 DEF Chained, AfterLatest, Earlier
<1>12. SettledBefore'
  <2>1. \A p \in Ops : Settled(p) => Settled(p)'
    BY <1>2, <1>5 DEF Settled
  <2>2. \A p \in Ops : Active(p)' \/ Settled(p)' => Active(p) \/ Settled(p)
    BY <1>2, <1>4 DEF Settled, Active
  <2> QED
    BY <2>1, <2>2 DEF Chained, SettledBefore, Earlier
<1>13. TailIsLast'
  <2>1. \A p \in Ops : p # o /\ Doc(p) = Doc(o) /\ op[p].pc \in {"queued", "sending"} => p <= o
    BY <1>6, OpsAreNumbers
  <2>2. tail'[Doc(o)] = o
    BY <1>5 DEF Chained, Shape
  <2>3. \A p \in Ops : Doc(p) # Doc(o) => tail'[Doc(p)] = tail[Doc(p)]
    BY <1>5, OpsAreNumbers DEF Chained, Shape
  <2>4. ASSUME NEW p \in Ops, op'[p].pc \in {"queued", "sending"} PROVE p <= tail'[Doc(p)]
    <3>1. CASE Doc(p) = Doc(o)
      BY <3>1, <2>1, <2>2, <2>4, <1>2, OpsAreNumbers
    <3>2. CASE Doc(p) # Doc(o)
      BY <3>2, <2>3, <2>4, <1>2 DEF Chained, TailIsLast
    <3> QED
      BY <3>1, <3>2
  <2> QED
    BY <2>4 DEF TailIsLast
<1>14. TailIsReal'
  <2>1. \A d \in Docs : tail[d] # 0 => tail[d] \in Ops /\ tail[d] # o
    BY <1>5 DEF Chained, Shape, TailIsReal
  <2> QED
    BY <2>1, <1>2, <1>4, <1>5 DEF Chained, Shape, TailIsReal
<1> QED
  BY <1>8, <1>9, <1>10, <1>11, <1>12, <1>13, <1>14 DEF Chained

LEMMA BeginKeeps ==
  ASSUME NEW o \in Ops, Chained, Begin(o)
  PROVE  Chained'
<1>1. op' = [op EXCEPT ![o] = [op[o] EXCEPT !.pc = "sending"]]
  BY DEF Begin
<1>2. \A p \in Ops : p # o => op'[p] = op[p]
  BY <1>1 DEF Chained, Shape
<1>3. op'[o] = [op[o] EXCEPT !.pc = "sending"] /\ Fields \subseteq DOMAIN op[o]
  BY <1>1 DEF Chained, Shape
<1>4. /\ op[o].pc = "queued" /\ op'[o].pc = "sending" /\ op'[o].after = op[o].after
      /\ Fields \subseteq DOMAIN op'[o] /\ tail' = tail
  BY <1>3 DEF Begin, Fields
<1>5. \A p \in Ops : op'[p].after = op[p].after /\ (Settled(p)' <=> Settled(p))
  BY <1>2, <1>4 DEF Settled
<1>6. Shape'
  <2>1. op' = [p \in Ops |-> op'[p]]
    BY <1>1 DEF Chained, Shape
  <2>2. \A p \in Ops : /\ op'[p].pc \in {"new", "queued", "sending", "ok", "failed"}
                       /\ Fields \subseteq DOMAIN op'[p]
    BY <1>2, <1>4 DEF Chained, Shape
  <2> QED
    BY <2>1, <2>2, <1>4, <1>5 DEF Chained, Shape
<1>7. InOrder' /\ AfterEarlier' /\ AfterLatest'
  BY <1>2, <1>4, <1>5 DEF Chained, InOrder, AfterEarlier, AfterLatest, Earlier
<1>8. SettledBefore'
  <2>1. ASSUME NEW p \in Ops, Earlier(p, o) PROVE Settled(p)
    <3>1. Settled(p) \/ p <= op[o].after
      BY <2>1, <1>4 DEF Chained, AfterLatest
    <3>2. CASE p <= op[o].after
      <4> DEFINE q == op[o].after
      <4>1. q # 0 /\ q \in Ops /\ Settled(q) /\ Doc(q) = Doc(o)
        <5>1. p \in Nat \ {0} /\ q \in {0} \cup Ops
          BY OpsAreNumbers DEF Chained, Shape
        <5>2. q # 0 /\ q \in Ops
          BY <5>1, <3>2
        <5>3. Settled(q)
          BY <5>2 DEF Begin, Released
        <5>4. Earlier(q, o)
          BY <5>2, <1>4 DEF Chained, AfterEarlier
        <5> QED
          BY <5>2, <5>3, <5>4 DEF Earlier
      <4>2. p = q \/ Earlier(p, q)
        <5>1. p \in Nat /\ q \in Nat
          BY <4>1, OpsAreNumbers
        <5> HIDE DEF q
        <5> QED
          BY <5>1, <4>1, <3>2, <2>1 DEF Earlier, q
      <4> QED
        BY <4>1, <4>2 DEF Chained, SettledBefore
    <3> QED
      BY <3>1, <3>2
  <2>2. \A p \in Ops : p # o => (Active(p)' <=> Active(p))
    BY <1>2 DEF Active
  <2> QED
    BY <2>1, <2>2, <1>5 DEF Chained, SettledBefore, Earlier
<1>9. TailIsLast'
  BY <1>2, <1>4 DEF Chained, TailIsLast
<1>10. TailIsReal'
  <2>1. \A d \in Docs : tail[d] # 0 => tail[d] \in Ops
    BY DEF Chained, Shape
  <2> QED
    BY <2>1, <1>2, <1>4 DEF Chained, TailIsReal
<1> QED
  BY <1>6, <1>7, <1>8, <1>9, <1>10 DEF Chained

LEMMA ForgetKeeps ==
  ASSUME NEW o \in Ops, Chained, ForgetChain(o)
  PROVE  Chained'
<1>1. /\ op' = op /\ tail' = [tail EXCEPT ![Doc(o)] = 0]
      /\ tail[Doc(o)] = o /\ Settled(o) /\ Doc(o) \in Docs
  BY OpsAreNumbers DEF ForgetChain, IsLast
<1>2. Shape'
  <2>1. tail' \in [Docs -> {0} \cup Ops]
    BY <1>1 DEF Chained, Shape
  <2> QED
    BY <2>1, <1>1 DEF Chained, Shape
<1>3. InOrder' /\ AfterEarlier' /\ AfterLatest' /\ SettledBefore'
  BY <1>1 DEF Chained, InOrder, AfterEarlier, AfterLatest, SettledBefore, Settled, Active
<1>4. TailIsLast'
  <2>1. \A p \in Ops : Doc(p) = Doc(o) => op[p].pc \notin {"queued", "sending"}
    <3>1. SUFFICES ASSUME NEW p \in Ops, Doc(p) = Doc(o), op[p].pc \in {"queued", "sending"}
                   PROVE  FALSE
      OBVIOUS
    <3>2. p <= o
      BY <3>1, <1>1 DEF Chained, TailIsLast
    <3>3. p = o \/ Earlier(p, o)
      BY <3>1, <3>2, OpsAreNumbers DEF Earlier
    <3>4. Settled(p)
      BY <3>3, <1>1 DEF Chained, SettledBefore
    <3> QED
      BY <3>1, <3>4 DEF Settled
  <2>2. \A p \in Ops : Doc(p) # Doc(o) => tail'[Doc(p)] = tail[Doc(p)]
    BY <1>1, OpsAreNumbers DEF Chained, Shape
  <2> QED
    BY <2>1, <2>2, <1>1 DEF Chained, TailIsLast
<1>5. TailIsReal'
  BY <1>1 DEF Chained, Shape, TailIsReal
<1> QED
  BY <1>2, <1>3, <1>4, <1>5 DEF Chained

(* The chain is an inductive invariant of the queue.                       *)
THEOREM QueueIsChained == QueueSpec => []Chained
<1>1. QueueInit => Chained
  BY ChainedInit
<1>2. Chained /\ [QueueNext]_queueVars => Chained'
  <2> SUFFICES ASSUME Chained, [QueueNext]_queueVars PROVE Chained'
    OBVIOUS
  <2>1. CASE UNCHANGED queueVars
    BY <2>1 DEF queueVars, Chained, Shape, InOrder, AfterEarlier, AfterLatest, SettledBefore,
                TailIsLast, TailIsReal, Settled, Active
  <2>2. ASSUME NEW o \in Ops, Enqueue(o) PROVE Chained'
    BY <2>2, EnqueueKeeps
  <2>3. ASSUME NEW o \in Ops, Begin(o) PROVE Chained'
    BY <2>3, BeginKeeps
  <2>4. ASSUME NEW o \in Ops, ForgetChain(o) PROVE Chained'
    BY <2>4, ForgetKeeps
  <2>5. ASSUME NEW o \in Ops, Accepted(o) \/ OpFailed(o) \/ Shrunk(o) \/ Rejected(o) PROVE Chained'
    <3>1. /\ Active(o) /\ tail' = tail
          /\ \E r : Attempted(o, r) /\ op' = [op EXCEPT ![o] = r]
      BY <2>5, AttemptsAreSteps DEF Chained
    <3> QED
      BY <3>1, AttemptKeeps
  <2> QED
    BY <2>1, <2>2, <2>3, <2>4, <2>5 DEF QueueNext, Advances
<1> QED
  BY <1>1, <1>2, PTL DEF QueueSpec

(* However many operations are asked for, forgotten, retried or failed: of *)
(* each document at most one is running.                                   *)
THEOREM OperationsNeverOverlap == QueueSpec => []OneAtATimePerDocument
<1>1. Chained => OneAtATimePerDocument
  <2> SUFFICES ASSUME Chained, NEW o \in Ops, NEW p \in Ops,
                      Active(o), Active(p), Doc(o) = Doc(p)
               PROVE  o = p
    BY DEF OneAtATimePerDocument
  <2>1. ~ Settled(o) /\ ~ Settled(p)
    BY DEF Active, Settled
  <2>2. ~ Earlier(o, p) /\ ~ Earlier(p, o)
    BY <2>1 DEF Chained, SettledBefore
  <2> QED
    BY <2>2, OpsAreNumbers DEF Earlier
<1> QED
  BY <1>1, QueueIsChained, PTL
-----------------------------------------------------------------------------
(* Where a text is cut.                                                    *)

LEMMA AtMostFour ==
  ASSUME NEW a, NEW b, NEW c, NEW d
  PROVE  Cardinality({a, b, c, d}) <= 4
<1>1. IsFiniteSet({d}) /\ Cardinality({d}) = 1
  BY FS_Singleton
<1>2. IsFiniteSet({d} \cup {c}) /\ Cardinality({d} \cup {c}) \in {1, 2}
  BY <1>1, FS_AddElement
<1>3. /\ IsFiniteSet({d} \cup {c} \cup {b})
      /\ Cardinality({d} \cup {c} \cup {b}) \in {1, 2, 3}
  BY <1>2, FS_AddElement
<1>4. Cardinality({d} \cup {c} \cup {b} \cup {a}) \in {1, 2, 3, 4}
  BY <1>3, FS_AddElement
<1>5. {a, b, c, d} = {d} \cup {c} \cup {b} \cup {a}
  OBVIOUS
<1> QED
  BY <1>4, <1>5

(* The classes of characters that a cut tells apart are different. *)
LEMMA ClassesDiffer == HI # LO /\ HI # CR /\ HI # SP /\ SP # LO
<1>1. Cardinality({AB, SP, CR, HI, LO}) = 5
  BY QueueAssumption DEF Chars
<1>2. ASSUME NEW a, NEW b, NEW c, NEW d, {AB, SP, CR, HI, LO} = {a, b, c, d} PROVE FALSE
  <2>1. Cardinality({a, b, c, d}) = 5
    BY <1>1, <1>2
  <2>2. Cardinality({a, b, c, d}) <= 4
    BY AtMostFour
  <2> QED
    BY <2>1, <2>2
<1>3. ASSUME HI = LO PROVE {AB, SP, CR, HI, LO} = {AB, SP, CR, HI}
  BY <1>3
<1>4. ASSUME HI = CR PROVE {AB, SP, CR, HI, LO} = {AB, SP, CR, LO}
  BY <1>4
<1>5. ASSUME HI = SP PROVE {AB, SP, CR, HI, LO} = {AB, SP, CR, LO}
  BY <1>5
<1>6. ASSUME SP = LO PROVE {AB, SP, CR, HI, LO} = {AB, SP, CR, HI}
  BY <1>6
<1> QED
  BY <1>2, <1>3, <1>4, <1>5, <1>6

(* A nonempty set of numbers up to a bound has a last one. *)
LEMMA LastExists ==
  ASSUME NEW b \in Nat, NEW S \in SUBSET (1..b), S # {}
  PROVE  Last(S) \in S
<1> DEFINE D == {b - n : n \in S}
<1>1. D \subseteq Nat /\ D # {}
  <2>1. \A n \in S : b - n \in Nat
    <3>1. \A n \in 1..b : b - n \in Nat
      OBVIOUS
    <3> QED
      BY <3>1
  <2>2. PICK n : n \in S
    OBVIOUS
  <2>3. b - n \in D
    BY <2>2
  <2> QED
    BY <2>1, <2>3
<1>2. PICK d \in D : \A e \in D : ~ (<<e, d>> \in OpToRel(<, Nat))
  BY <1>1, NatLessThanWellFounded, WFMin
<1>3. \A e \in D : ~ (e < d)
  BY <1>1, <1>2 DEF OpToRel
<1>4. PICK m \in S : d = b - m
  OBVIOUS
<1>5. \A n \in S : n <= m
  <2>1. \A n \in S : b - n \in D /\ n \in Nat
    OBVIOUS
  <2>2. \A n \in S : ~ (b - n < b - m)
    BY <1>3, <1>4, <2>1
  <2> QED
    BY <2>1, <2>2
<1> QED
  BY <1>5 DEF Last

(* A cut advances, stays within what was asked for, and leaves no half of  *)
(* a pair behind.                                                          *)
LEMMA CutIsSafe ==
  ASSUME NEW text \in Seq(Chars), WellFormed(text),
         NEW most \in Nat, most >= 2, most < Len(text)
  PROVE  Cut(text, most) \in 1..most /\ text[Cut(text, most)] # HI
<1> DEFINE end == IF Splits(text, most) THEN most - 1 ELSE most
           near == {p \in 2..end : p > end - ProbeLimit}
           blank == {p \in near : text[p] = CR /\ p + 1 <= end /\ text[p + 1] = CR}
           line == {p \in near : text[p] = CR}
           space == {p \in near : text[p] = SP}
           atBlank == IF blank # {} THEN Last(blank) + 1 ELSE end
           atLine == IF atBlank = end /\ line # {} THEN Last(line) ELSE atBlank
<1>1. DOMAIN text = 1..Len(text) /\ Len(text) \in Nat
  OBVIOUS
<1>2. end \in 1..most /\ text[end] # HI
  <2>1. most \in DOMAIN text /\ most - 1 \in DOMAIN text
    BY <1>1
  <2>2. CASE Splits(text, most)
    <3>1. end = most - 1 /\ text[most] # LO
      BY <2>2, ClassesDiffer DEF Splits
    <3>2. text[most - 1] = HI => text[most - 1 + 1] = LO
      BY <2>1 DEF WellFormed
    <3> QED
      BY <3>1, <3>2
  <2>3. CASE ~ Splits(text, most)
    <3>1. end = most /\ ~ (text[most] = HI /\ text[most + 1] = LO)
      BY <2>3 DEF Splits
    <3>2. text[most] = HI => text[most + 1] = LO
      BY <2>1 DEF WellFormed
    <3> QED
      BY <3>1, <3>2
  <2> QED
    BY <2>2, <2>3
<1> HIDE DEF end
<1>3. near \in SUBSET (1..most)
  BY <1>2
<1>4. blank # {} => Last(blank) \in blank
  <2>1. blank \in SUBSET (1..most)
    BY <1>3
  <2> QED
    BY <2>1, LastExists
<1>5. line # {} => Last(line) \in line
  <2>1. line \in SUBSET (1..most)
    BY <1>3
  <2> QED
    BY <2>1, LastExists
<1>6. space # {} => Last(space) \in space
  <2>1. space \in SUBSET (1..most)
    BY <1>3
  <2> QED
    BY <2>1, LastExists
<1>7. atBlank \in 1..most /\ text[atBlank] # HI
  BY <1>2, <1>4, ClassesDiffer
<1>8. atLine \in 1..most /\ text[atLine] # HI
  BY <1>2, <1>5, <1>7, ClassesDiffer, SMTT(40)
<1>9. space # {} => Last(space) - 1 \in 1..most /\ text[Last(space) - 1] # HI
  <2> SUFFICES ASSUME space # {} PROVE Last(space) - 1 \in 1..most /\ text[Last(space) - 1] # HI
    OBVIOUS
  <2>1. Last(space) \in 2..end /\ text[Last(space)] = SP
    BY <1>6
  <2> QED
    BY <2>1, <1>1, <1>2, ClassesDiffer DEF WellFormed
<1>10. Cut(text, most) = IF atLine = end /\ space # {} THEN Last(space) - 1 ELSE atLine
  BY DEF Cut, end
<1> HIDE DEF near, blank, line, space, atBlank, atLine
<1> QED
  BY <1>8, <1>9, <1>10

LEMMA TextsAreTexts ==
  \A o \in Ops : Text(o) \in Seq(Chars) /\ Size(o) \in Nat /\ WellFormed(Text(o))
<1> DEFINE S == [doc : Docs, text : Seq(Chars)]
<1>1. Work \in Seq(S) /\ Ops = 1..Len(Work)
  BY QueueAssumption DEF Ops
<1> HIDE DEF S
<1>2. \A o \in Ops : Work[o] \in S
  BY <1>1
<1>3. \A o \in Ops : Text(o) \in Seq(Chars)
  BY <1>2 DEF S, Text
<1>4. \A o \in Ops : WellFormed(Text(o))
  BY QueueAssumption DEF Ops, Text
<1> QED
  BY <1>3, <1>4 DEF Size

(* What is left of a text after a cut is a text of its own. *)
LEMMA RestIsWellFormed ==
  ASSUME NEW text \in Seq(Chars), WellFormed(text),
         NEW n \in Nat, n < Len(text), n > 0 => text[n] # HI
  PROVE  LET rest == SubSeq(text, n + 1, Len(text))
         IN  /\ rest \in Seq(Chars) /\ WellFormed(rest) /\ Len(rest) = Len(text) - n
             /\ \A i \in 1..(Len(text) - n) : rest[i] = text[n + i]
<1> DEFINE rest == SubSeq(text, n + 1, Len(text))
<1>1. Len(text) \in Nat /\ DOMAIN text = 1..Len(text)
  OBVIOUS
<1>2. /\ rest \in Seq(Chars) /\ Len(rest) = Len(text) - n
      /\ \A i \in 1..(Len(text) - n) : rest[i] = text[n + i]
  <2>1. n + 1 \in 1..(Len(text) + 1) /\ Len(text) \in n..Len(text)
    BY <1>1
  <2>2. /\ rest \in Seq(Chars) /\ Len(rest) = Len(text) - (n + 1) + 1
        /\ \A i \in 1..(Len(text) - (n + 1) + 1) : rest[i] = text[(n + 1) + i - 1]
    <3>1. \A i \in (n + 1)..Len(text) : text[i] \in Chars
      BY <1>1
    <3>2. n + 1 \in Int /\ Len(text) \in Int /\ n + 1 <= Len(text)
      BY <1>1
    <3>3. Len(rest) = IF n + 1 <= Len(text) THEN Len(text) - (n + 1) + 1 ELSE 0
      BY <3>1, <3>2, SubSeqProperties
    <3> QED
      BY <3>1, <3>2, <3>3, SubSeqProperties
  <2>3. Len(text) - (n + 1) + 1 = Len(text) - n
    BY <1>1
  <2>4. \A i \in 1..(Len(text) - n) : (n + 1) + i - 1 = n + i
    OBVIOUS
  <2> HIDE DEF rest
  <2> QED
    BY <2>2, <2>3, <2>4
<1>3. DOMAIN rest = 1..(Len(text) - n)
  BY <1>2
<1> HIDE DEF rest
<1>4. ASSUME NEW i \in DOMAIN rest, rest[i] = HI
      PROVE  i + 1 \in DOMAIN rest /\ rest[i + 1] = LO
  <2>1. n + i \in DOMAIN text /\ text[n + i] = HI
    BY <1>1, <1>2, <1>3, <1>4
  <2>2. (n + i) + 1 \in DOMAIN text /\ text[(n + i) + 1] = LO
    BY <2>1 DEF WellFormed
  <2>3. i + 1 \in 1..(Len(text) - n) /\ n + (i + 1) = (n + i) + 1
    BY <2>2, <1>1, <1>3
  <2> QED
    BY <2>2, <2>3, <1>2, <1>3
<1>5. ASSUME NEW i \in DOMAIN rest, rest[i] = LO
      PROVE  i > 1 /\ rest[i - 1] = HI
  <2>1. n + i \in DOMAIN text /\ text[n + i] = LO
    BY <1>1, <1>2, <1>3, <1>5
  <2>2. n + i > 1 /\ text[(n + i) - 1] = HI
    BY <2>1 DEF WellFormed
  <2>3. i # 1
    BY <2>2, <1>3
  <2>4. i - 1 \in 1..(Len(text) - n) /\ n + (i - 1) = (n + i) - 1 /\ i > 1
    BY <2>3, <1>1, <1>3
  <2> QED
    BY <2>2, <2>4, <1>2
<1> QED
  BY <1>2, <1>4, <1>5 DEF WellFormed, rest

LEMMA FirstChunkIsSafe ==
  ASSUME NEW text \in Seq(Chars), WellFormed(text), Len(text) > 0, NEW tokens \in Nat \ {0}
  PROVE  /\ FirstChunk(text, tokens) \in 1..Len(text)
         /\ FirstChunk(text, tokens) < Len(text) => text[FirstChunk(text, tokens)] # HI
<1>1. MaxChars(tokens) \in Nat /\ MaxChars(tokens) >= 2
  <2>1. tokens * CharsPerToken \in Nat
    BY QueueAssumption
  <2> QED
    BY <2>1 DEF MaxChars
<1>2. Len(text) \in Nat
  OBVIOUS
<1>3. CASE Len(text) <= MaxChars(tokens)
  BY <1>2, <1>3 DEF FirstChunk
<1>4. CASE MaxChars(tokens) < Len(text)
  <2>1. /\ Cut(text, MaxChars(tokens)) \in 1..MaxChars(tokens)
        /\ text[Cut(text, MaxChars(tokens))] # HI
    BY <1>1, <1>4, CutIsSafe
  <2>2. FirstChunk(text, tokens) = Cut(text, MaxChars(tokens))
    BY <1>1, <1>2, <1>4 DEF FirstChunk
  <2> QED
    BY <2>1, <2>2, <1>1, <1>2, <1>4
<1> QED
  BY <1>1, <1>2, <1>3, <1>4

(* The chunk at an offset a cut has left: it is not empty, ends within its *)
(* text, and leaves an offset of the same kind.                            *)
CleanOffset(o, n) == n \in Nat /\ (n = 0 \/ (n < Size(o) /\ Text(o)[n] # HI))

SoundPiece(piece) ==
  /\ piece.from < piece.to /\ piece.to <= Size(piece.of)
  /\ piece.to < Size(piece.of) => Text(piece.of)[piece.to] # HI

Pieces == [of : Ops, from : Nat, to : Nat]

LEMMA PieceIsSound ==
  ASSUME NEW o \in Ops, ~ IsDelete(o), CleanOffset(o, op[o].offset), op[o].limit \in Nat \ {0}
  PROVE  /\ Piece(o) \in Pieces /\ SoundPiece(Piece(o))
         /\ Piece(o).of = o /\ Piece(o).from = op[o].offset
         /\ Piece(o).to # Size(o) => CleanOffset(o, Piece(o).to)
<1> DEFINE n == op[o].offset
           rest == SubSeq(Text(o), n + 1, Size(o))
           k == FirstChunk(rest, op[o].limit)
<1>1. Text(o) \in Seq(Chars) /\ Size(o) \in Nat /\ WellFormed(Text(o)) /\ Size(o) = Len(Text(o))
  BY TextsAreTexts DEF Size
<1>2. n \in Nat /\ n < Size(o) /\ (n > 0 => Text(o)[n] # HI)
  BY <1>1 DEF CleanOffset, IsDelete
<1>3. /\ rest \in Seq(Chars) /\ WellFormed(rest) /\ Len(rest) = Size(o) - n
      /\ \A i \in 1..(Size(o) - n) : rest[i] = Text(o)[n + i]
  <2>1. /\ SubSeq(Text(o), n + 1, Len(Text(o))) = rest
        /\ Text(o) \in Seq(Chars) /\ n \in Nat /\ n < Len(Text(o))
    BY <1>1, <1>2
  <2> HIDE DEF rest, n
  <2> QED
    BY <1>1, <1>2, <2>1, RestIsWellFormed
<1>4. Len(rest) > 0
  BY <1>1, <1>2, <1>3
<1>5. k \in 1..(Size(o) - n) /\ (k < Size(o) - n => rest[k] # HI)
  <2> HIDE DEF rest
  <2> QED
    BY <1>3, <1>4, FirstChunkIsSafe
<1>6. k < Size(o) - n => Text(o)[n + k] # HI
  BY <1>3, <1>5
<1>7. Piece(o) = [of |-> o, from |-> n, to |-> n + k]
  BY DEF Piece
<1> HIDE DEF k, rest, n
<1>8. n + k \in Nat /\ n < n + k /\ n + k <= Size(o) /\ (n + k < Size(o) => Text(o)[n + k] # HI)
  BY <1>1, <1>2, <1>5, <1>6
<1>9. Piece(o).of = o /\ Piece(o).from = n /\ Piece(o).to = n + k /\ Piece(o) \in Pieces
  BY <1>7, <1>8, <1>2 DEF Pieces
<1> QED
  BY <1>1, <1>8, <1>9 DEF SoundPiece, CleanOffset, n
-----------------------------------------------------------------------------
(* What the daemon holds.  A document is replaced by the first chunk of a  *)
(* text and the others are appended, so what matters is where the running  *)
(* ingestion stands: behind the last piece, or at its start when the       *)
(* answer for it was lost.                                                 *)

States == [pc : {"new", "queued", "sending", "ok", "failed"}, after : {0} \cup Ops,
           offset : Nat, limit : 1..ChunkTokens, tries : 0..MaxRetries, lost : BOOLEAN]

Sound(d, pieces) ==
  \A i \in DOMAIN pieces : Doc(pieces[i].of) = d /\ SoundPiece(pieces[i])

Joined(pieces, ops) ==
  \A i \in DOMAIN pieces :
    IF i = 1 THEN pieces[i].from = 0
    ELSE /\ pieces[i].of = pieces[i - 1].of
         /\ \/ pieces[i].from = pieces[i - 1].to
            \/ pieces[i].from = pieces[i - 1].from /\ ops[pieces[i].of].lost

OnlyOf(o, pieces) == pieces # << >> /\ \A i \in DOMAIN pieces : pieces[i].of = o

StandsAtEnd(o, r, pieces) ==
  /\ r.pc \in {"new", "queued"} => r.offset = 0
  /\ CleanOffset(o, r.offset)
  /\ r.pc = "sending" /\ r.offset > 0 =>
       /\ OnlyOf(o, pieces)
       /\ LET last == pieces[Len(pieces)]
          IN  last.to = r.offset \/ (last.from = r.offset /\ r.lost)

Whole(o, pieces) ==
  IF IsDelete(o) THEN pieces = << >>
  ELSE OnlyOf(o, pieces) /\ pieces[Len(pieces)].to = Size(o)

(* Nothing that was asked for after o has begun. *)
Newest(o) == \A p \in Ops : p > o /\ Doc(p) = Doc(o) => op[p].pc \in {"new", "queued"}

Stored ==
  /\ QueueTypeOK
  /\ Chained
  /\ \A d \in Docs : Sound(d, content[d]) /\ Joined(content[d], op)
  /\ \A o \in Ops : StandsAtEnd(o, op[o], content[Doc(o)])
  /\ \A o \in Ops : op[o].pc = "ok" /\ Newest(o) => Whole(o, content[Doc(o)])

LEMMA LimitsAreNumbers ==
  ChunkTokens \in Nat \ {0} /\ MaxRetries \in Nat /\ MaxFaults \in Nat
BY QueueAssumption

LEMMA CutSmallerIsState ==
  ASSUME NEW s \in States, NEW limit \in 1..ChunkTokens, NEW tries \in 0..MaxRetries
  PROVE  [s EXCEPT !.limit = limit, !.tries = tries] \in States
<1> DEFINE limits == 1..ChunkTokens
           counts == 0..MaxRetries
<1>1. limit \in limits /\ tries \in counts
  OBVIOUS
<1>2. s \in [pc : {"new", "queued", "sending", "ok", "failed"}, after : {0} \cup Ops,
             offset : Nat, limit : limits, tries : counts, lost : BOOLEAN]
  BY DEF States
<1> HIDE DEF limits, counts
<1> SUFFICES [s EXCEPT !.limit = limit, !.tries = tries] \in
               [pc : {"new", "queued", "sending", "ok", "failed"}, after : {0} \cup Ops,
                offset : Nat, limit : limits, tries : counts, lost : BOOLEAN]
  BY DEF States, limits, counts
<1> QED
  BY <1>1, <1>2

LEMMA StoredInit == QueueInit => Stored
<1> SUFFICES ASSUME QueueInit PROVE Stored
  OBVIOUS
<1>1. Chained
  BY ChainedInit
<1>2. op = [o \in Ops |-> NewOp] /\ \A o \in Ops : op[o] = NewOp
  BY DEF QueueInit
<1>3. NewOp \in States
  BY LimitsAreNumbers DEF NewOp, States
<1>4. QueueTypeOK
  BY <1>2, <1>3, LimitsAreNumbers DEF QueueInit, QueueTypeOK, States
<1>5. \A d \in Docs : content[d] = << >>
  BY DEF QueueInit
<1>6. \A d \in Docs : Sound(d, content[d]) /\ Joined(content[d], op)
  BY <1>5 DEF Sound, Joined
<1>7. \A o \in Ops : op[o].pc = "new" /\ op[o].offset = 0
  BY <1>2 DEF NewOp
<1>8. \A o \in Ops : StandsAtEnd(o, op[o], content[Doc(o)])
  BY <1>7 DEF StandsAtEnd, CleanOffset
<1> QED
  BY <1>1, <1>4, <1>6, <1>7, <1>8 DEF Stored

(* What a served attempt leaves in the daemon: sound pieces, joined to the *)
(* ones before them, of this text alone and ending where it stands.        *)
LEMMA ServedIsSound ==
  ASSUME NEW o \in Ops, Stored, Active(o)
  PROVE  /\ Served(o) \in Seq(Pieces) /\ Sound(Doc(o), Served(o)) /\ Joined(Served(o), op)
         /\ ~ IsDelete(o) => /\ OnlyOf(o, Served(o))
                             /\ Served(o)[Len(Served(o))] = Piece(o)
<1>1. op[o] \in States /\ StandsAtEnd(o, op[o], content[Doc(o)])
  BY DEF Stored, QueueTypeOK, States
<1>2. CASE IsDelete(o)
  <2>1. Served(o) = << >>
    BY <1>2 DEF Served
  <2> QED
    BY <1>2, <2>1 DEF Sound, Joined
<1>3. CASE ~ IsDelete(o)
  <2>1. CleanOffset(o, op[o].offset) /\ op[o].limit \in Nat \ {0}
    BY <1>1, LimitsAreNumbers DEF StandsAtEnd, States
  <2>2. /\ Piece(o) \in Pieces /\ SoundPiece(Piece(o))
        /\ Piece(o).of = o /\ Piece(o).from = op[o].offset
    BY <1>3, <2>1, PieceIsSound
  <2>3. CASE op[o].offset = 0
    <3>1. Served(o) = <<Piece(o)>>
      BY <1>3, <2>3 DEF Served
    <3>2. Len(Served(o)) = 1 /\ DOMAIN Served(o) = {1} /\ Served(o)[1] = Piece(o)
      BY <3>1
    <3>3. Served(o) \in Seq(Pieces)
      BY <3>1, <2>2
    <3> QED
      BY <3>2, <3>3, <2>2, <2>3 DEF Sound, Joined, OnlyOf
  <2>4. CASE op[o].offset # 0
    <3> DEFINE old == content[Doc(o)]
               n == Len(old)
               now == Append(old, Piece(o))
    <3>1. Served(o) = now
      BY <1>3, <2>4 DEF Served
    <3>2. op[o].pc = "sending" /\ op[o].offset > 0
      BY <1>1, <2>4 DEF Active, States
    <3>3. OnlyOf(o, old) /\ (old[n].to = op[o].offset \/ (old[n].from = op[o].offset /\ op[o].lost))
      BY <1>1, <3>2 DEF StandsAtEnd
    <3>4. old \in Seq(Pieces) /\ Sound(Doc(o), old) /\ Joined(old, op)
      BY OpsAreNumbers DEF Stored, QueueTypeOK, Pieces
    <3> HIDE DEF old
    <3>5. n \in Nat /\ n > 0 /\ DOMAIN old = 1..n
      BY <3>3, <3>4 DEF OnlyOf
    <3>6. /\ now \in Seq(Pieces) /\ Len(now) = n + 1 /\ DOMAIN now = 1..(n + 1)
          /\ now[n + 1] = Piece(o) /\ \A i \in 1..n : now[i] = old[i]
      BY <3>4, <2>2
    <3> HIDE DEF now
    <3>7. Sound(Doc(o), now)
      BY <3>4, <3>5, <3>6, <2>2 DEF Sound
    <3>8. OnlyOf(o, now)
      BY <3>3, <3>5, <3>6, <2>2 DEF OnlyOf
    <3>9. Joined(now, op)
      <4>1. ASSUME NEW i \in 1..n
            PROVE  IF i = 1 THEN now[i].from = 0
                   ELSE /\ now[i].of = now[i - 1].of
                        /\ \/ now[i].from = now[i - 1].to
                           \/ now[i].from = now[i - 1].from /\ op[now[i].of].lost
        <5>1. now[i] = old[i] /\ (i # 1 => now[i - 1] = old[i - 1])
          BY <3>5, <3>6
        <5> QED
          BY <5>1, <3>4, <3>5 DEF Joined
      <4>2. /\ n + 1 # 1 /\ now[n + 1] = Piece(o) /\ (n + 1) - 1 = n
            /\ now[n] = old[n] /\ old[n].of = o
        BY <3>3, <3>5, <3>6 DEF OnlyOf
      <4>3. \A i \in 1..(n + 1) : i \in 1..n \/ i = n + 1
        BY <3>5
      <4> QED
        BY <4>1, <4>2, <4>3, <3>3, <3>6, <2>2 DEF Joined
    <3> QED
      BY <3>1, <3>6, <3>7, <3>8, <3>9
  <2> QED
    BY <2>3, <2>4
<1> QED
  BY <1>2, <1>3

(* An answer that was lost stays lost. *)
LEMMA JoinedStays ==
  ASSUME NEW pieces \in Seq(Pieces), NEW ops, Joined(pieces, op),
         \A p \in Ops : op[p].lost => ops[p].lost
  PROVE  Joined(pieces, ops)
<1>1. \A i \in DOMAIN pieces : pieces[i] \in Pieces
  OBVIOUS
<1>2. \A i \in DOMAIN pieces : pieces[i].of \in Ops
  BY <1>1 DEF Pieces
<1> QED
  BY <1>2 DEF Joined

(* An attempt, however it ends: the operation goes on as r, and its        *)
(* document holds the pieces.                                              *)
Ends(o, r, pieces) ==
  /\ r \in States /\ Attempted(o, r) /\ StandsAtEnd(o, r, pieces)
  /\ op[o].lost => r.lost
  /\ pieces \in Seq(Pieces) /\ Sound(Doc(o), pieces) /\ Joined(pieces, [op EXCEPT ![o] = r])
  /\ r.pc = "ok" => Whole(o, pieces)

LEMMA EndsKeepStored ==
  ASSUME NEW o \in Ops, Stored, Active(o), NEW r, NEW pieces, Ends(o, r, pieces),
         op' = [op EXCEPT ![o] = r], content' = [content EXCEPT ![Doc(o)] = pieces],
         tail' = tail, faults' \in 0..MaxFaults
  PROVE  Stored'
<1>1. op'[o] = r /\ \A p \in Ops : p # o => op'[p] = op[p]
  BY DEF Stored, QueueTypeOK
<1>2. Doc(o) \in Docs /\ content'[Doc(o)] = pieces
  BY OpsAreNumbers DEF Stored, QueueTypeOK
<1>3. \A d \in Docs : d # Doc(o) => content'[d] = content[d]
  BY DEF Stored, QueueTypeOK
<1>4. Chained'
  BY AttemptKeeps DEF Ends, Stored
<1>5. QueueTypeOK'
  <2>1. op' \in [Ops -> States]
    BY DEF Stored, QueueTypeOK, States, Ends
  <2>2. content' \in [Docs -> Seq(Pieces)]
    BY DEF Stored, QueueTypeOK, Pieces, Ends
  <2> QED
    BY <2>1, <2>2 DEF Stored, QueueTypeOK, States, Pieces
<1>6. ASSUME NEW d \in Docs PROVE (Sound(d, content[d]) /\ Joined(content[d], op))'
  <2>1. CASE d = Doc(o)
    BY <2>1, <1>2 DEF Ends, Sound
  <2>2. CASE d # Doc(o)
    <3>1. content'[d] = content[d] /\ content[d] \in Seq(Pieces)
      BY <2>2, <1>3 DEF Stored, QueueTypeOK, Pieces
    <3>2. Sound(d, content[d]) /\ Joined(content[d], op)
      BY DEF Stored
    <3>3. \A p \in Ops : op[p].lost => op'[p].lost
      BY <1>1 DEF Ends
    <3>4. Joined(content[d], op')
      BY <3>1, <3>2, <3>3, JoinedStays
    <3> QED
      BY <3>1, <3>2, <3>4 DEF Sound
  <2> QED
    BY <2>1, <2>2
<1>7. \A p \in Ops : p # o /\ Doc(p) = Doc(o) => ~ Active(p)
  <2> SUFFICES ASSUME NEW p \in Ops, p # o, Doc(p) = Doc(o), Active(p) PROVE FALSE
    OBVIOUS
  <2>1. Earlier(p, o) \/ Earlier(o, p)
    BY OpsAreNumbers DEF Earlier
  <2>2. Settled(p) \/ Settled(o)
    BY <2>1 DEF Stored, Chained, SettledBefore
  <2> QED
    BY <2>2 DEF Active, Settled
<1>8. ASSUME NEW p \in Ops PROVE StandsAtEnd(p, op[p], content[Doc(p)])'
  <2>1. CASE p = o
    BY <2>1, <1>1, <1>2 DEF Ends, StandsAtEnd, OnlyOf, CleanOffset
  <2>2. CASE p # o
    <3>1. op'[p] = op[p] /\ StandsAtEnd(p, op[p], content[Doc(p)])
      BY <2>2, <1>1 DEF Stored
    <3>2. Doc(p) = Doc(o) \/ content'[Doc(p)] = content[Doc(p)]
      BY <1>3, OpsAreNumbers
    <3> QED
      BY <3>1, <3>2, <2>2, <1>7 DEF StandsAtEnd, Active, OnlyOf, CleanOffset
  <2> QED
    BY <2>1, <2>2
<1>9. ASSUME NEW p \in Ops, (op[p].pc = "ok" /\ Newest(p))' PROVE Whole(p, content[Doc(p)])'
  <2>1. CASE p = o
    BY <2>1, <1>1, <1>2, <1>9 DEF Ends, Whole, OnlyOf
  <2>2. CASE p # o /\ Doc(p) = Doc(o)
    <3>1. op'[o].pc \notin {"new", "queued"}
      BY <1>1 DEF Ends, Attempted
    <3>2. ~ (o > p)
      BY <3>1, <2>2, <1>9 DEF Newest
    <3>3. Earlier(o, p)
      BY <3>2, <2>2, OpsAreNumbers DEF Earlier
    <3>4. op[p].pc = "ok"
      BY <2>2, <1>1, <1>9
    <3>5. Settled(o)
      BY <3>3, <3>4 DEF Stored, Chained, SettledBefore, Settled
    <3> QED
      BY <3>5 DEF Settled, Active
  <2>3. CASE p # o /\ Doc(p) # Doc(o)
    <3>1. op[p].pc = "ok"
      BY <2>3, <1>1, <1>9
    <3>2. \A q \in Ops : Doc(q) = Doc(p) => op'[q] = op[q]
      BY <2>3, <1>1
    <3>3. Newest(p)
      BY <3>2, <1>9 DEF Newest
    <3>4. Whole(p, content[Doc(p)])
      BY <3>1, <3>3 DEF Stored
    <3>5. content'[Doc(p)] = content[Doc(p)]
      BY <2>3, <1>3, OpsAreNumbers
    <3> QED
      BY <3>4, <3>5 DEF Whole, OnlyOf
  <2> QED
    BY <2>1, <2>2, <2>3
<1> QED
  BY <1>4, <1>5, <1>6, <1>8, <1>9 DEF Stored

LEMMA AcceptedEnds ==
  ASSUME NEW o \in Ops, Stored, Active(o)
  PROVE  Ends(o, Advanced(o), Served(o))
<1>1. op[o] \in States /\ op[o].pc = "sending" /\ StandsAtEnd(o, op[o], content[Doc(o)])
  BY DEF Stored, QueueTypeOK, States, Active
<1>2. /\ Served(o) \in Seq(Pieces) /\ Sound(Doc(o), Served(o)) /\ Joined(Served(o), op)
      /\ ~ IsDelete(o) => OnlyOf(o, Served(o)) /\ Served(o)[Len(Served(o))] = Piece(o)
  BY ServedIsSound
<1>3. CASE IsDelete(o) \/ Piece(o).to = Size(o)
  <2>1. Advanced(o) = [op[o] EXCEPT !.pc = "ok"]
    BY <1>3 DEF Advanced
  <2>2. /\ Advanced(o) \in States /\ Advanced(o).pc = "ok"
        /\ Advanced(o).offset = op[o].offset /\ Advanced(o).lost = op[o].lost
        /\ Attempted(o, Advanced(o))
    BY <1>1, <2>1 DEF States, Attempted, Fields
  <2>3. StandsAtEnd(o, Advanced(o), Served(o))
    BY <1>1, <2>2 DEF StandsAtEnd
  <2>4. Whole(o, Served(o))
    <3>1. IsDelete(o) => Served(o) = << >>
      BY DEF Served
    <3> QED
      BY <3>1, <1>2, <1>3 DEF Whole
  <2>5. Joined(Served(o), [op EXCEPT ![o] = Advanced(o)])
    <3>1. \A p \in Ops : op[p].lost => [op EXCEPT ![o] = Advanced(o)][p].lost
      BY <2>2 DEF Stored, QueueTypeOK
    <3> QED
      BY <3>1, <1>2, JoinedStays
  <2> QED
    BY <1>2, <2>2, <2>3, <2>4, <2>5 DEF Ends
<1>4. CASE ~ IsDelete(o) /\ Piece(o).to # Size(o)
  <2>1. Advanced(o) = [op[o] EXCEPT !.offset = Piece(o).to, !.tries = 0]
    BY <1>4 DEF Advanced
  <2>2. CleanOffset(o, Piece(o).to)
    <3>1. CleanOffset(o, op[o].offset) /\ op[o].limit \in Nat \ {0}
      BY <1>1, LimitsAreNumbers DEF StandsAtEnd, States
    <3> QED
      BY <3>1, <1>4, PieceIsSound
  <2>3. /\ Advanced(o) \in States /\ Advanced(o).pc = "sending"
        /\ Advanced(o).offset = Piece(o).to /\ Advanced(o).lost = op[o].lost
        /\ Attempted(o, Advanced(o))
    <3>1. Piece(o).to \in Nat /\ 0 \in 0..MaxRetries
      BY <2>2, LimitsAreNumbers DEF CleanOffset
    <3> QED
      BY <3>1, <1>1, <2>1 DEF States, Attempted, Fields
  <2>4. StandsAtEnd(o, Advanced(o), Served(o))
    BY <1>2, <1>4, <2>2, <2>3 DEF StandsAtEnd
  <2>5. Joined(Served(o), [op EXCEPT ![o] = Advanced(o)])
    <3>1. \A p \in Ops : op[p].lost => [op EXCEPT ![o] = Advanced(o)][p].lost
      BY <2>3 DEF Stored, QueueTypeOK
    <3> QED
      BY <3>1, <1>2, JoinedStays
  <2> QED
    BY <1>2, <2>3, <2>4, <2>5 DEF Ends
<1> QED
  BY <1>3, <1>4

(* A failure leaves the operation where it stands.  What the document      *)
(* holds is what it held, or nothing and the operation at its start, or    *)
(* the piece, after which it has failed or the answer was lost.            *)
FailedAs(o, r) ==
  /\ r \in States /\ Attempted(o, r) /\ r.pc # "ok" /\ r.offset = op[o].offset
  /\ op[o].lost => r.lost

LEMMA FailedEnds ==
  ASSUME NEW o \in Ops, Stored, Active(o), NEW r, FailedAs(o, r), NEW pieces,
         \/ pieces = content[Doc(o)]
         \/ pieces = << >> /\ op[o].offset = 0
         \/ pieces = Served(o) /\ (r.pc = "failed" \/ r.lost)
  PROVE  Ends(o, r, pieces)
<1>1. op[o] \in States /\ op[o].pc = "sending" /\ StandsAtEnd(o, op[o], content[Doc(o)])
  BY DEF Stored, QueueTypeOK, States, Active
<1>2. CleanOffset(o, r.offset) /\ r.pc \notin {"new", "queued"}
  BY <1>1 DEF FailedAs, StandsAtEnd, Attempted
<1>3. \A p \in Ops : op[p].lost => [op EXCEPT ![o] = r][p].lost
  BY DEF Stored, QueueTypeOK, FailedAs
<1>4. CASE pieces = content[Doc(o)]
  <2>1. pieces \in Seq(Pieces) /\ Sound(Doc(o), pieces) /\ Joined(pieces, op)
    BY <1>4, OpsAreNumbers DEF Stored, QueueTypeOK, Pieces
  <2>2. Joined(pieces, [op EXCEPT ![o] = r])
    BY <2>1, <1>3, JoinedStays
  <2>3. StandsAtEnd(o, r, pieces)
    BY <1>1, <1>2, <1>4 DEF StandsAtEnd, FailedAs
  <2> QED
    BY <2>1, <2>2, <2>3 DEF Ends, FailedAs
<1>5. CASE pieces = << >> /\ op[o].offset = 0
  <2>1. pieces \in Seq(Pieces) /\ Sound(Doc(o), pieces) /\ Joined(pieces, [op EXCEPT ![o] = r])
    BY <1>5 DEF Sound, Joined
  <2>2. StandsAtEnd(o, r, pieces)
    BY <1>2, <1>5 DEF StandsAtEnd, FailedAs
  <2> QED
    BY <2>1, <2>2 DEF Ends, FailedAs
<1>6. CASE pieces = Served(o) /\ (r.pc = "failed" \/ r.lost)
  <2>1. /\ pieces \in Seq(Pieces) /\ Sound(Doc(o), pieces) /\ Joined(pieces, op)
        /\ ~ IsDelete(o) => OnlyOf(o, pieces) /\ pieces[Len(pieces)] = Piece(o)
    BY <1>6, ServedIsSound
  <2>2. Joined(pieces, [op EXCEPT ![o] = r])
    BY <2>1, <1>3, JoinedStays
  <2>3. StandsAtEnd(o, r, pieces)
    <3>1. Piece(o).from = r.offset
      BY DEF Piece, FailedAs
    <3>2. r.offset > 0 => ~ IsDelete(o)
      BY <1>2, TextsAreTexts DEF CleanOffset, IsDelete
    <3> QED
      BY <3>1, <3>2, <2>1, <1>2, <1>6 DEF StandsAtEnd
  <2> QED
    BY <2>1, <2>2, <2>3 DEF Ends, FailedAs
<1> QED
  BY <1>4, <1>5, <1>6

LEMMA AttemptsEnd ==
  ASSUME NEW o \in Ops, Stored, Accepted(o) \/ OpFailed(o) \/ Shrunk(o) \/ Rejected(o)
  PROVE  Stored'
<1>1. Active(o) /\ tail' = tail
  BY DEF Accepted, OpFailed, Shrunk, Rejected
<1>2. op[o] \in States /\ op[o].pc = "sending" /\ faults \in 0..MaxFaults
  BY <1>1 DEF Stored, QueueTypeOK, States, Active
<1>3. faults' \in 0..MaxFaults
  <2>1. faults' = faults \/ (faults < MaxFaults /\ faults' = faults + 1)
    BY DEF Accepted, OpFailed, Shrunk, Rejected
  <2> QED
    BY <2>1, <1>2, LimitsAreNumbers
<1>4. content' = content => content' = [content EXCEPT ![Doc(o)] = content[Doc(o)]]
  BY DEF Stored, QueueTypeOK
<1>5. CASE Accepted(o)
  BY <1>1, <1>3, <1>5, AcceptedEnds, EndsKeepStored DEF Accepted, Holds
<1>6. CASE OpFailed(o)
  <2>1. FailedAs(o, AfterFailure(o))
    BY <1>2, LimitsAreNumbers DEF FailedAs, AfterFailure, States, Attempted, Fields
  <2>2. FailedAs(o, [AfterFailure(o) EXCEPT !.lost = TRUE])
        /\ [AfterFailure(o) EXCEPT !.lost = TRUE].lost
    BY <2>1 DEF FailedAs, States, Attempted, Fields
  <2>3. CASE Holds(o, Served(o)) /\ op' = [op EXCEPT ![o] = [AfterFailure(o) EXCEPT !.lost = TRUE]]
    <3>1. Ends(o, [AfterFailure(o) EXCEPT !.lost = TRUE], Served(o))
      BY <1>1, <2>2, FailedEnds
    <3> QED
      BY <3>1, <2>3, <1>1, <1>3, EndsKeepStored DEF Holds
  <2>4. CASE UNCHANGED content /\ op' = [op EXCEPT ![o] = AfterFailure(o)]
    <3>1. Ends(o, AfterFailure(o), content[Doc(o)])
      BY <1>1, <2>1, FailedEnds
    <3> QED
      BY <3>1, <2>4, <1>1, <1>3, <1>4, EndsKeepStored
  <2> QED
    BY <1>6, <2>3, <2>4 DEF OpFailed
<1>7. CASE Shrunk(o)
  <2>1. PICK limit \in 1..(op[o].limit - 1) :
          op' = [op EXCEPT ![o] = [op[o] EXCEPT !.limit = limit, !.tries = 0]]
    BY <1>7 DEF Shrunk
  <2> DEFINE r == [op[o] EXCEPT !.limit = limit, !.tries = 0]
  <2>2. limit \in 1..ChunkTokens
    BY <1>2, <2>1, LimitsAreNumbers DEF States
  <2>3. FailedAs(o, r)
    <3>1. /\ r.pc = "sending" /\ r.after = op[o].after /\ r.offset = op[o].offset
          /\ r.lost = op[o].lost /\ Fields \subseteq DOMAIN r
      BY <1>2 DEF States, Fields
    <3>2. r \in States
      <4>1. 0 \in 0..MaxRetries /\ limit \in 1..ChunkTokens
        BY <2>2, LimitsAreNumbers
      <4> QED
        BY <1>2, <4>1, CutSmallerIsState
    <3> QED
      BY <3>1, <3>2 DEF FailedAs, Attempted
  <2> HIDE DEF r
  <2>4. CASE UNCHANGED content
    <3>1. Ends(o, r, content[Doc(o)])
      BY <1>1, <2>3, FailedEnds
    <3> QED
      BY <3>1, <2>1, <2>4, <1>1, <1>3, <1>4, EndsKeepStored DEF r
  <2>5. CASE op[o].offset = 0 /\ Holds(o, << >>)
    <3>1. Ends(o, r, << >>)
      BY <1>1, <2>3, <2>5, FailedEnds
    <3> QED
      BY <3>1, <2>1, <2>5, <1>1, <1>3, EndsKeepStored DEF Holds, r
  <2> QED
    BY <1>7, <2>4, <2>5 DEF Shrunk
<1>8. CASE Rejected(o)
  <2> DEFINE r == [op[o] EXCEPT !.pc = "failed"]
  <2>1. op' = [op EXCEPT ![o] = r]
    BY <1>8 DEF Rejected
  <2>2. FailedAs(o, r) /\ r.pc = "failed"
    BY <1>2 DEF FailedAs, States, Attempted, Fields
  <2> HIDE DEF r
  <2>3. CASE UNCHANGED content
    <3>1. Ends(o, r, content[Doc(o)])
      BY <1>1, <2>2, FailedEnds
    <3> QED
      BY <3>1, <2>1, <2>3, <1>1, <1>3, <1>4, EndsKeepStored
  <2>4. CASE op[o].offset = 0 /\ Holds(o, << >>)
    <3>1. Ends(o, r, << >>)
      BY <1>1, <2>2, <2>4, FailedEnds
    <3> QED
      BY <3>1, <2>1, <2>4, <1>1, <1>3, EndsKeepStored DEF Holds
  <2>5. CASE Holds(o, Served(o))
    <3>1. Ends(o, r, Served(o))
      BY <1>1, <2>2, FailedEnds
    <3> QED
      BY <3>1, <2>1, <2>5, <1>1, <1>3, EndsKeepStored DEF Holds
  <2> QED
    BY <1>8, <2>3, <2>4, <2>5 DEF Rejected
<1> QED
  BY <1>5, <1>6, <1>7, <1>8

(* Steps that move the chain alone: what is held stays, and so does where  *)
(* each operation stands.                                                  *)
LEMMA ChainStepsKeepStored ==
  ASSUME Stored, Chained', op' \in [Ops -> States], content' = content, faults' = faults,
         \A o \in Ops : /\ op'[o].offset = op[o].offset /\ op'[o].lost = op[o].lost
                        /\ op'[o].pc = op[o].pc \/
                             (op[o].pc = "new" /\ op'[o].pc = "queued") \/
                             (op[o].pc = "queued" /\ op'[o].pc = "sending")
  PROVE  Stored'
<1>1. QueueTypeOK'
  <2>1. tail' \in [Docs -> {0} \cup Ops]
    BY DEF Chained, Shape
  <2> QED
    BY <2>1 DEF Stored, QueueTypeOK, States
<1>2. ASSUME NEW d \in Docs PROVE (Sound(d, content[d]) /\ Joined(content[d], op))'
  <2>1. content[d] \in Seq(Pieces) /\ Sound(d, content[d]) /\ Joined(content[d], op)
    BY DEF Stored, QueueTypeOK, Pieces
  <2>2. Joined(content[d], op')
    BY <2>1, JoinedStays
  <2> QED
    BY <2>1, <2>2 DEF Sound
<1>3. ASSUME NEW o \in Ops PROVE StandsAtEnd(o, op[o], content[Doc(o)])'
  <2>1. StandsAtEnd(o, op[o], content[Doc(o)])
    BY DEF Stored
  <2> QED
    BY <2>1 DEF StandsAtEnd, OnlyOf, CleanOffset
<1>4. ASSUME NEW o \in Ops, (op[o].pc = "ok" /\ Newest(o))' PROVE Whole(o, content[Doc(o)])'
  <2>1. op[o].pc = "ok"
    BY <1>4
  <2>2. \A p \in Ops : op'[p].pc \in {"new", "queued"} => op[p].pc \in {"new", "queued"}
    OBVIOUS
  <2>3. Newest(o)
    BY <2>2, <1>4 DEF Newest
  <2>4. Whole(o, content[Doc(o)])
    BY <2>1, <2>3 DEF Stored
  <2> QED
    BY <2>4 DEF Whole, OnlyOf
<1> QED
  BY <1>1, <1>2, <1>3, <1>4 DEF Stored

(* What is held is an inductive invariant of the queue. *)
THEOREM QueueIsStored == QueueSpec => []Stored
<1>1. QueueInit => Stored
  BY StoredInit
<1>2. Stored /\ [QueueNext]_queueVars => Stored'
  <2> SUFFICES ASSUME Stored, [QueueNext]_queueVars PROVE Stored'
    OBVIOUS
  <2>1. op \in [Ops -> States] /\ Chained
    BY DEF Stored, QueueTypeOK, States
  <2>2. CASE UNCHANGED queueVars
    <3>1. Chained'
      BY <2>1, <2>2 DEF queueVars, Chained, Shape, InOrder, AfterEarlier, AfterLatest,
                        SettledBefore, TailIsLast, TailIsReal, Settled, Active
    <3> QED
      BY <3>1, <2>1, <2>2, ChainStepsKeepStored DEF queueVars
  <2>3. ASSUME NEW o \in Ops, Enqueue(o) PROVE Stored'
    <3>1. op' = [op EXCEPT ![o] = [op[o] EXCEPT !.pc = "queued", !.after = tail[Doc(o)]]]
      BY <2>3 DEF Enqueue
    <3>2. tail[Doc(o)] \in {0} \cup Ops
      BY <2>1, OpsAreNumbers DEF Chained, Shape
    <3>3. [op[o] EXCEPT !.pc = "queued", !.after = tail[Doc(o)]] \in States
      <4>1. op[o] \in States
        BY <2>1
      <4> QED
        BY <4>1, <3>2 DEF States
    <3>4. op' \in [Ops -> States] /\ Chained'
      BY <2>1, <2>3, <3>1, <3>3, EnqueueKeeps
    <3> QED
      BY <2>1, <2>3, <3>1, <3>4, ChainStepsKeepStored DEF Enqueue, States
  <2>4. ASSUME NEW o \in Ops, Begin(o) PROVE Stored'
    <3>1. op' = [op EXCEPT ![o] = [op[o] EXCEPT !.pc = "sending"]]
      BY <2>4 DEF Begin
    <3>2. [op[o] EXCEPT !.pc = "sending"] \in States
      BY <2>1 DEF States
    <3>3. op' \in [Ops -> States] /\ Chained'
      BY <2>1, <2>4, <3>1, <3>2, BeginKeeps
    <3> QED
      BY <2>1, <2>4, <3>1, <3>3, ChainStepsKeepStored DEF Begin, States
  <2>5. ASSUME NEW o \in Ops, ForgetChain(o) PROVE Stored'
    <3>1. Chained'
      BY <2>1, <2>5, ForgetKeeps
    <3> QED
      BY <2>1, <2>5, <3>1, ChainStepsKeepStored DEF ForgetChain
  <2>6. ASSUME NEW o \in Ops, Accepted(o) \/ OpFailed(o) \/ Shrunk(o) \/ Rejected(o) PROVE Stored'
    BY <2>6, AttemptsEnd
  <2> QED
    BY <2>2, <2>3, <2>4, <2>5, <2>6 DEF QueueNext, Advances
<1> QED
  BY <1>1, <1>2, PTL DEF QueueSpec

(* Every operation keeps its fields, and the map and the documents hold    *)
(* operations and pieces of this queue.                                    *)
THEOREM QueueTypeCorrect == QueueSpec => []QueueTypeOK
<1>1. Stored => QueueTypeOK
  BY DEF Stored
<1> QED
  BY <1>1, QueueIsStored, PTL

(* Whatever fails, is retried, cut smaller or lost: a document is one text *)
(* from its start, without a gap.                                          *)
THEOREM ContentHasNoGap == QueueSpec => []NoGap
<1>1. Stored => NoGap
  BY DEF Stored, Joined, NoGap
<1> QED
  BY <1>1, QueueIsStored, PTL

(* No text, limit or boundary makes a chunk that is empty or ends between  *)
(* the halves of a pair.                                                   *)
THEOREM ChunksAreWhole == QueueSpec => []WholeCharacters
<1>1. Stored => WholeCharacters
  BY DEF Stored, Sound, SoundPiece, WholeCharacters
<1> QED
  BY <1>1, QueueIsStored, PTL

(* An ingestion that reports success, and that nothing has replaced, has   *)
(* left its whole text, and a deletion nothing.                            *)
THEOREM SuccessIsStored == QueueSpec => []SuccessMeansStored
<1>1. Stored => SuccessMeansStored
  BY DEF Stored, Newest, Whole, OnlyOf, SuccessMeansStored
<1> QED
  BY <1>1, QueueIsStored, PTL
=============================================================================
