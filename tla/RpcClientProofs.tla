--------------------------- MODULE RpcClientProofs ---------------------------
(***************************************************************************)
(* Proofs about RpcClient, for any number of calls, slots and nonces.      *)
(*                                                                         *)
(* The mutex is proved from the chain of promises: a call that has not     *)
(* settled owns an unreleased slot, and a call past the mutex has only     *)
(* released slots before it, so two calls past it would each find the      *)
(* other's slot released.  With one owner at a time, the nonce is either   *)
(* fresh, or carried by the one request on the wire.                       *)
(***************************************************************************)
EXTENDS RpcClient, TLAPS

(* The owned slots make the mutex exclusive. *)
LEMMA SlotsExclude ==
  ASSUME RpcTypeOK, SlotsOwned
  PROVE  OneAtATime
<1> SUFFICES ASSUME NEW c \in Calls, NEW d \in Calls,
                    pc[c] \in Holding, pc[d] \in Holding, c # d
             PROVE  FALSE
  BY DEF OneAtATime
<1>1. slot[c] \in Nat /\ slot[d] \in Nat /\ slot[c] # slot[d]
  BY DEF RpcTypeOK, SlotsOwned, Holding
<1>2. Turn(c) /\ Turn(d)
  BY DEF SlotsOwned
<1>3. slot[c] \notin released /\ slot[d] \notin released
  BY DEF SlotsOwned, Holding
<1>4. slot[c] \in 1..(nextSlot - 1) /\ slot[d] \in 1..(nextSlot - 1)
  BY DEF SlotsOwned, Holding
<1>5. CASE slot[c] < slot[d]
  BY <1>1, <1>2, <1>3, <1>4, <1>5 DEF Turn, RpcTypeOK
<1>6. CASE slot[d] < slot[c]
  BY <1>1, <1>2, <1>3, <1>4, <1>6 DEF Turn, RpcTypeOK
<1> QED
  BY <1>1, <1>5, <1>6

(* The type invariant is preserved by every step. *)
LEMMA TypePreserved ==
  ASSUME RpcTypeOK, SlotsOwned, NonceAccounted, RpcBoundsAssumption, [RpcNext]_rpcVars
  PROVE  RpcTypeOK'
<1> USE DEF RpcTypeOK, mutexVars, wireVars, daemonVars, Queued, Holding
<1>1. ASSUME NEW c \in Calls, Call(c) PROVE RpcTypeOK'
  BY <1>1 DEF Call, RpcBoundsAssumption
<1>2. ASSUME NEW c \in Calls, Abort(c) PROVE RpcTypeOK'
  BY <1>2 DEF Abort
<1>3. ASSUME NEW c \in Calls, TakeTurn(c) PROVE RpcTypeOK'
  BY <1>3 DEF TakeTurn, Freed, SlotsOwned
<1>4. ASSUME NEW c \in Calls, GiveUp(c) PROVE RpcTypeOK'
  BY <1>4 DEF GiveUp, Finish, SlotsOwned
<1>5. ASSUME NEW c \in Calls, Bootstrap(c) PROVE RpcTypeOK'
  BY <1>5 DEF Bootstrap, Finish, SlotsOwned
<1>6. ASSUME NEW c \in Calls, BootstrapEnds(c) PROVE RpcTypeOK'
  <2>1. PICK n \in {0, issued + 1}, ok \in BOOLEAN :
          /\ Issue(n)
          /\ valid' = valid \cup ({n} \ {0})
          /\ nonce' = n
          /\ IF ok /\ n # 0
               THEN pc' = [pc EXCEPT ![c] = "ready"] /\ UNCHANGED released
               ELSE Finish(c)
    BY <1>6 DEF BootstrapEnds
  <2>2. issued' \in Nat /\ issued' >= issued /\ n <= issued'
    BY <2>1 DEF Issue
  <2>3. released' \subseteq 1..(nextSlot - 1) /\ pc' \in [Calls -> {"idle"} \cup Queued \cup Holding]
    BY <1>6, <2>1, ZenonT(40) DEF BootstrapEnds, Finish, SlotsOwned
  <2> QED
    BY <1>6, <2>1, <2>2, <2>3 DEF BootstrapEnds
<1>7. ASSUME NEW c \in Calls, SendRequest(c) PROVE RpcTypeOK'
  <2>1. nonce \in 1..issued
    BY <1>7 DEF SendRequest, CanSend, NonceAccounted
  <2> QED
    BY <1>7, <2>1 DEF SendRequest, NoAnswer, Answers
<1>8. ASSUME NEW c \in Calls, SendFails(c) PROVE RpcTypeOK'
  <2>1. nonce' \in 0..issued
    BY <1>8 DEF SendFails, NonceAfterError
  <2>2. slot[c] \in 1..(nextSlot - 1)
    BY <1>8 DEF SendFails, CanSend, SlotsOwned
  <2> QED
    BY <1>8, <2>1, <2>2 DEF SendFails, Finish
<1>9. ASSUME NEW c \in Calls, Receive(c) PROVE RpcTypeOK'
  <2>1. nonce' \in 0..issued
    BY <1>9 DEF Receive, NonceAfterReply, NonceAccounted, Answers
  <2> QED
    BY <1>9, <2>1 DEF Receive, Finish, SlotsOwned
<1>10. ASSUME NEW c \in Calls, CallFails(c) PROVE RpcTypeOK'
  <2>1. nonce' \in 0..issued
    BY <1>10 DEF CallFails, NonceAfterError
  <2>2. slot[c] \in 1..(nextSlot - 1)
    BY <1>10 DEF CallFails, SlotsOwned
  <2> QED
    BY <1>10, <2>1, <2>2 DEF CallFails, Finish
<1>11. ASSUME NEW c \in Calls, DaemonAccepts(c) PROVE RpcTypeOK'
  <2>1. PICK n \in {0, issued + 1} :
          /\ Issue(n)
          /\ valid' = (valid \ {carried[c]}) \cup ({n} \ {0})
          /\ answer' = [answer EXCEPT ![c] = [kind |-> "ok", nonce |-> n]]
    BY <1>11 DEF DaemonAccepts
  <2>2. issued' \in Nat /\ issued' >= issued /\ n <= issued' /\ n \in Nat
    BY <2>1 DEF Issue
  <2>3. answer' \in [Calls -> Answers]
    BY <2>1, <2>2 DEF Answers
  <2>4. nonce' \in 0..issued' /\ carried' \in [Calls -> 0..issued']
    BY <1>11, <2>2 DEF DaemonAccepts
  <2>5. valid' \subseteq 1..issued'
    <3> SUFFICES ASSUME NEW x \in valid' PROVE x \in 1..issued'
      OBVIOUS
    <3>1. CASE x \in valid
      BY <2>2, <3>1
    <3>2. CASE x = n /\ n # 0
      BY <2>1, <2>2, <3>2
    <3> QED
      BY <2>1, <3>1, <3>2
  <2>6. dropped' \subseteq 1..issued' /\ spent' \subseteq 1..issued'
    BY <1>11, <2>2 DEF DaemonAccepts
  <2> QED
    BY <1>11, <2>2, <2>3, <2>4, <2>5, <2>6 DEF DaemonAccepts
<1>12. ASSUME NEW c \in Calls, DaemonRefuses(c) PROVE RpcTypeOK'
  BY <1>12 DEF DaemonRefuses, Answers
<1>13. CASE Close
  BY <1>13 DEF Close
<1>14. CASE DaemonForgets
  BY <1>14 DEF DaemonForgets, RpcBoundsAssumption
<1>15. CASE UNCHANGED rpcVars
  BY <1>15 DEF rpcVars
<1> QED
  BY <1>1, <1>2, <1>3, <1>4, <1>5, <1>6, <1>7, <1>8, <1>9, <1>10, <1>11, <1>12,
     <1>13, <1>14, <1>15 DEF RpcNext, ClientStep

(* The chain of promises stays owned, slot by slot. *)
LEMMA SlotsPreserved ==
  ASSUME RpcTypeOK, SlotsOwned, [RpcNext]_rpcVars
  PROVE  SlotsOwned'
<1> USE DEF Holding, Queued, mutexVars, wireVars, daemonVars
<1> DEFINE Kept == slot' = slot /\ nextSlot' = nextSlot /\ released' = released
<1>1. ASSUME Kept,
             \A c \in Calls : pc'[c] # "idle" => pc[c] # "idle",
             \A c \in Calls : pc'[c] \in Holding => pc[c] \in Holding \/ Turn(c)
      PROVE  SlotsOwned'
  BY <1>1 DEF SlotsOwned, Turn
<1>2. ASSUME NEW c \in Calls, pc[c] # "idle", Finish(c),
             slot' = slot, nextSlot' = nextSlot
      PROVE  SlotsOwned'
  <2>1. \A d \in Calls : pc'[d] # "idle" => d # c /\ pc'[d] = pc[d] /\ slot[d] # slot[c]
    BY <1>2 DEF Finish, RpcTypeOK, SlotsOwned
  <2> QED
    BY <1>2, <2>1 DEF Finish, SlotsOwned, Turn
<1>3. ASSUME NEW c \in Calls, Call(c) PROVE SlotsOwned'
  <2>1. \A d \in Calls : d # c => slot'[d] = slot[d] /\ pc'[d] = pc[d]
    BY <1>3 DEF Call, RpcTypeOK
  <2>2. slot'[c] = nextSlot /\ pc'[c] = "waiting" /\ nextSlot' = nextSlot + 1
    BY <1>3 DEF Call, RpcTypeOK
  <2>3. nextSlot \in Nat \ {0} /\ released' = released /\ nextSlot \notin released
    BY <1>3 DEF Call, RpcTypeOK
  <2>4. \A d \in Calls : d # c /\ pc[d] # "idle" => slot[d] < nextSlot
    BY <2>3 DEF SlotsOwned, RpcTypeOK
  <2> QED
    BY <2>1, <2>2, <2>3, <2>4 DEF SlotsOwned, Turn, RpcTypeOK
<1>4. ASSUME NEW c \in Calls, Abort(c) PROVE SlotsOwned'
  <2>1. Kept /\ \A d \in Calls : d # c => pc'[d] = pc[d]
    BY <1>4 DEF Abort, RpcTypeOK
  <2>2. pc[c] # "idle" /\ (pc'[c] \in Holding => pc[c] \in Holding)
    BY <1>4 DEF Abort, RpcTypeOK
  <2> QED
    BY <1>1, <2>1, <2>2
<1>5. ASSUME NEW c \in Calls, TakeTurn(c) PROVE SlotsOwned'
  <2>1. CASE pc[c] = "waiting"
    BY <1>1, <1>5, <2>1 DEF TakeTurn, RpcTypeOK
  <2>2. CASE pc[c] = "abandoned"
    BY <1>2, <1>5, <2>2 DEF TakeTurn, Finish, Freed
  <2> QED
    BY <1>5, <2>1, <2>2 DEF TakeTurn
<1>6. ASSUME NEW c \in Calls, GiveUp(c) PROVE SlotsOwned'
  BY <1>2, <1>6 DEF GiveUp
<1>7. ASSUME NEW c \in Calls, Bootstrap(c) PROVE SlotsOwned'
  <2>1. CASE Open
    BY <1>1, <1>7, <2>1 DEF Bootstrap, RpcTypeOK
  <2>2. CASE ~ Open
    BY <1>2, <1>7, <2>2 DEF Bootstrap
  <2> QED
    BY <2>1, <2>2
<1>8. ASSUME NEW c \in Calls, BootstrapEnds(c) PROVE SlotsOwned'
  <2>1. CASE pc' = [pc EXCEPT ![c] = "ready"] /\ UNCHANGED released
    BY <1>1, <1>8, <2>1 DEF BootstrapEnds, RpcTypeOK
  <2>2. CASE Finish(c)
    BY <1>2, <1>8, <2>2 DEF BootstrapEnds
  <2> QED
    BY <1>8, <2>1, <2>2 DEF BootstrapEnds
<1>9. ASSUME NEW c \in Calls, SendRequest(c) PROVE SlotsOwned'
  BY <1>1, <1>9 DEF SendRequest, CanSend, RpcTypeOK
<1>10. ASSUME NEW c \in Calls, SendFails(c) PROVE SlotsOwned'
  BY <1>2, <1>10 DEF SendFails, CanSend
<1>11. ASSUME NEW c \in Calls, Receive(c) PROVE SlotsOwned'
  BY <1>2, <1>11 DEF Receive
<1>12. ASSUME NEW c \in Calls, CallFails(c) PROVE SlotsOwned'
  BY <1>2, <1>12 DEF CallFails
<1>13. ASSUME pc' = pc, Kept PROVE SlotsOwned'
  BY <1>13 DEF SlotsOwned, Turn
<1>14. ASSUME NEW c \in Calls, DaemonAccepts(c) \/ DaemonRefuses(c) PROVE SlotsOwned'
  BY <1>13, <1>14 DEF DaemonAccepts, DaemonRefuses
<1>15. CASE Close \/ DaemonForgets \/ UNCHANGED rpcVars
  BY <1>13, <1>15 DEF Close, DaemonForgets, rpcVars
<1> QED
  BY <1>3, <1>4, <1>5, <1>6, <1>7, <1>8, <1>9, <1>10, <1>11, <1>12, <1>14, <1>15
     DEF RpcNext, ClientStep

(* The nonce stays accounted for, and refusals stay explained. *)
LEMMA NoncePreserved ==
  ASSUME RpcInvariant, [RpcNext]_rpcVars
  PROVE  NonceAccounted' /\ RefusedOnlyAfterLoss'
<1> DEFINE Goal == NonceAccounted' /\ RefusedOnlyAfterLoss'
<1> USE DEF mutexVars, wireVars, daemonVars
<1>1. RpcTypeOK /\ SlotsOwned /\ NonceAccounted /\ RefusedOnlyAfterLoss
  BY DEF RpcInvariant
<1>2. \A c, d \in Calls : pc[c] \in Holding /\ pc[d] \in Holding => c = d
  BY <1>1, SlotsExclude DEF OneAtATime
<1>3. 0 \notin spent /\ issued + 1 \notin spent /\ nonce \in Nat
  BY <1>1 DEF RpcTypeOK
\* A step that leaves the nonce, the wire and the daemon alone, and puts no
\* request on the wire.
<1>4. ASSUME nonce' = nonce, UNCHANGED wireVars, UNCHANGED daemonVars,
             \A c \in Calls : (pc'[c] = "sent") <=> (pc[c] = "sent"),
             \A c \in Calls : pc'[c] = "ready" => pc[c] = "ready"
      PROVE  Goal
  BY <1>1, <1>4 DEF NonceAccounted, RefusedOnlyAfterLoss
\* The owner leaves the lock with the nonce lost, or replaced by a fresh one.
<1>5. ASSUME NEW c \in Calls, pc[c] \in Holding, pc'[c] \in {"idle", "ready"},
             \A d \in Calls : d # c => pc'[d] = pc[d],
             UNCHANGED spent, nonce' \notin spent,
             nonce' # 0 => nonce' \in valid' \cup dropped',
             pc'[c] = "ready" => nonce' # 0
      PROVE  Goal
  <2>1. \A d \in Calls : pc'[d] # "sent" /\ (pc'[d] = "ready" => d = c)
    BY <1>2, <1>5 DEF Holding
  <2> QED
    BY <1>5, <2>1 DEF NonceAccounted, RefusedOnlyAfterLoss
<1>6. ASSUME NEW c \in Calls, Call(c) \/ Abort(c) PROVE Goal
  BY <1>1, <1>4, <1>6 DEF Call, Abort, RpcTypeOK
<1>7. ASSUME NEW c \in Calls, TakeTurn(c) PROVE Goal
  BY <1>1, <1>4, <1>7 DEF TakeTurn, Queued, RpcTypeOK
<1>8. ASSUME NEW c \in Calls, GiveUp(c) \/ Bootstrap(c) PROVE Goal
  BY <1>1, <1>4, <1>8 DEF GiveUp, Bootstrap, Finish, RpcTypeOK
<1>9. ASSUME NEW c \in Calls, BootstrapEnds(c) PROVE Goal
  <2>1. PICK n \in {0, issued + 1}, ok \in BOOLEAN :
          /\ valid' = valid \cup ({n} \ {0})
          /\ nonce' = n
          /\ IF ok /\ n # 0
               THEN pc' = [pc EXCEPT ![c] = "ready"] /\ UNCHANGED released
               ELSE Finish(c)
    BY <1>9 DEF BootstrapEnds
  <2>2. pc[c] \in Holding /\ UNCHANGED spent
    BY <1>9 DEF BootstrapEnds, Holding
  <2>3. nonce' \notin spent /\ (nonce' # 0 => nonce' \in valid')
    BY <1>3, <2>1
  <2>4. /\ pc'[c] \in {"idle", "ready"} /\ (pc'[c] = "ready" => nonce' # 0)
        /\ \A d \in Calls : d # c => pc'[d] = pc[d]
    BY <1>1, <2>1 DEF Finish, RpcTypeOK
  <2> QED
    BY <1>5, <2>2, <2>3, <2>4
<1>10. ASSUME NEW c \in Calls, SendRequest(c) PROVE Goal
  <2>1. pc[c] \in {"granted", "ready"} /\ nonce # 0
    BY <1>1, <1>10 DEF SendRequest, CanSend, NonceAccounted
  <2>2. \A d \in Calls : d # c => pc[d] \notin Holding
    BY <1>2, <2>1 DEF Holding
  <2>3. nonce \notin spent /\ nonce \in valid \cup dropped
    BY <1>1, <2>1, <2>2 DEF NonceAccounted, Holding
  <2>4. /\ pc'[c] = "sent" /\ carried'[c] = nonce /\ answer'[c] = NoAnswer
        /\ \A d \in Calls : d # c => pc'[d] = pc[d]
        /\ nonce' = nonce /\ spent' = spent \cup {nonce} /\ UNCHANGED daemonVars
    BY <1>1, <1>10 DEF SendRequest, RpcTypeOK
  <2>5. \A d \in Calls : pc'[d] \in {"sent", "ready"} => d = c
    BY <2>2, <2>4 DEF Holding
  <2> QED
    BY <2>1, <2>3, <2>4, <2>5 DEF NonceAccounted, RefusedOnlyAfterLoss, NoAnswer
<1>11. ASSUME NEW c \in Calls, SendFails(c) PROVE Goal
  <2>1. nonce' = 0 /\ pc'[c] = "idle" /\ pc[c] \in Holding /\ UNCHANGED spent
    BY <1>1, <1>11 DEF SendFails, CanSend, NonceAfterError, Finish, RpcTypeOK, Holding
  <2>2. \A d \in Calls : d # c => pc'[d] = pc[d]
    BY <1>1, <1>11 DEF SendFails, Finish, RpcTypeOK
  <2> QED
    BY <1>3, <1>5, <2>1, <2>2
<1>12. ASSUME NEW c \in Calls, Receive(c) PROVE Goal
  <2>1. pc'[c] = "idle" /\ pc[c] \in Holding /\ UNCHANGED <<spent, valid, dropped>>
    BY <1>1, <1>12 DEF Receive, Finish, RpcTypeOK, Holding
  <2>2. \A d \in Calls : d # c => pc'[d] = pc[d]
    BY <1>1, <1>12 DEF Receive, Finish, RpcTypeOK
  <2>3. nonce' \notin spent /\ (nonce' # 0 => nonce' \in valid \cup dropped)
    BY <1>1, <1>3, <1>12 DEF Receive, NonceAfterReply, NonceAccounted
  <2> QED
    BY <1>5, <2>1, <2>2, <2>3
<1>13. ASSUME NEW c \in Calls, CallFails(c) PROVE Goal
  <2>1. nonce' = 0 /\ pc'[c] = "idle" /\ pc[c] \in Holding /\ UNCHANGED spent
    BY <1>1, <1>13 DEF CallFails, NonceAfterError, Finish, RpcTypeOK, Holding
  <2>2. \A d \in Calls : d # c => pc'[d] = pc[d]
    BY <1>1, <1>13 DEF CallFails, Finish, RpcTypeOK
  <2> QED
    BY <1>3, <1>5, <2>1, <2>2
<1>14. ASSUME NEW c \in Calls, DaemonAccepts(c) PROVE Goal
  <2>1. PICK n \in {0, issued + 1} :
          /\ valid' = (valid \ {carried[c]}) \cup ({n} \ {0})
          /\ answer' = [answer EXCEPT ![c] = [kind |-> "ok", nonce |-> n]]
    BY <1>14 DEF DaemonAccepts
  <2>2. \A d \in Calls : pc[d] \in {"sent", "ready"} => d = c
    BY <1>2, <1>14 DEF DaemonAccepts, Holding
  <2>3. pc[c] = "sent" /\ UNCHANGED <<pc, nonce, carried, spent, dropped>>
    BY <1>14 DEF DaemonAccepts
  <2>4. answer'[c].kind = "ok" /\ answer'[c].nonce = n
    BY <1>1, <2>1 DEF RpcTypeOK
  <2>5. n # 0 => n \in valid' /\ n \notin spent
    BY <1>3, <2>1
  <2>6. nonce \in spent /\ nonce = carried[c]
    BY <1>1, <2>3 DEF NonceAccounted
  <2> QED
    BY <2>2, <2>3, <2>4, <2>5, <2>6 DEF NonceAccounted, RefusedOnlyAfterLoss
<1>15. ASSUME NEW c \in Calls, DaemonRefuses(c) PROVE Goal
  <2>1. \A d \in Calls : pc[d] \in {"sent", "ready"} => d = c
    BY <1>2, <1>15 DEF DaemonRefuses, Holding
  <2>2. pc[c] = "sent" /\ UNCHANGED <<pc, nonce, carried, spent, valid, dropped>>
    BY <1>15 DEF DaemonRefuses
  <2>3. answer'[c].kind = "refused" /\ answer'[c].nonce = 0
    BY <1>1, <1>15 DEF DaemonRefuses, RpcTypeOK
  <2>4. carried[c] \in dropped
    BY <1>1, <1>15 DEF DaemonRefuses, NonceAccounted
  <2> QED
    BY <1>1, <2>1, <2>2, <2>3, <2>4 DEF NonceAccounted, RefusedOnlyAfterLoss
<1>16. CASE Close \/ UNCHANGED rpcVars
  BY <1>4, <1>16 DEF Close, rpcVars
<1>17. CASE DaemonForgets
  BY <1>1, <1>17 DEF DaemonForgets, NonceAccounted, RefusedOnlyAfterLoss
<1> QED
  BY <1>6, <1>7, <1>8, <1>9, <1>10, <1>11, <1>12, <1>13, <1>14, <1>15, <1>16, <1>17
     DEF RpcNext, ClientStep

(* The invariant holds in every reachable state, whatever calls are        *)
(* aborted, fail or lose their response (createAuthInterceptor).           *)
THEOREM RpcInductive == RpcSpec => []RpcInvariant
<1>1. RpcInit => RpcInvariant
  <2> SUFFICES ASSUME RpcInit PROVE RpcInvariant
    OBVIOUS
  <2>1. /\ nonce \in 0..issued /\ issued \in Nat /\ valid \subseteq 1..issued
        /\ nextSlot \in 1..(MaxSlots + 1) /\ released \subseteq 1..(nextSlot - 1)
        /\ forgets \in 0..MaxForgets
    BY RpcBoundsAssumption DEF RpcInit
  <2>2. RpcTypeOK
    <3>1. answer \in [Calls -> Answers] /\ carried \in [Calls -> 0..issued]
      BY <2>1 DEF RpcInit, NoAnswer, Answers
    <3>2. pc \in [Calls -> {"idle"} \cup Queued \cup Holding]
      BY DEF RpcInit
    <3>3. slot \in [Calls -> Nat] /\ aborted \in [Calls -> BOOLEAN] /\ closed \in BOOLEAN
      BY DEF RpcInit
    <3>4. dropped \subseteq 1..issued /\ spent \subseteq 1..issued
      BY DEF RpcInit
    <3> QED
      BY <2>1, <3>1, <3>2, <3>3, <3>4 DEF RpcTypeOK
  <2>3. SlotsOwned /\ NonceAccounted /\ RefusedOnlyAfterLoss
    BY DEF RpcInit, SlotsOwned, NonceAccounted, RefusedOnlyAfterLoss, Holding
  <2> QED
    BY <2>2, <2>3 DEF RpcInvariant
<1>2. RpcInvariant /\ [RpcNext]_rpcVars => RpcInvariant'
  <2> SUFFICES ASSUME RpcInvariant, [RpcNext]_rpcVars PROVE RpcInvariant'
    OBVIOUS
  <2>1. RpcTypeOK'
    BY TypePreserved, RpcBoundsAssumption DEF RpcInvariant
  <2>2. SlotsOwned'
    BY SlotsPreserved DEF RpcInvariant
  <2>3. NonceAccounted' /\ RefusedOnlyAfterLoss'
    BY NoncePreserved
  <2> QED
    BY <2>1, <2>2, <2>3 DEF RpcInvariant
<1> QED
  BY <1>1, <1>2, PTL DEF RpcSpec

(* At most one authenticated call is past the mutex (createRpcMutex,       *)
(* acquireRpcLock), for any number of calls.                               *)
THEOREM MutexHolds == RpcSpec => []OneAtATime
<1>1. RpcInvariant => OneAtATime
  BY SlotsExclude DEF RpcInvariant
<1> QED
  BY <1>1, RpcInductive, PTL

(* No nonce is sent twice. *)
THEOREM NonceIsSingleUse == RpcSpec => NonceSentOnce
<1>1. RpcInvariant /\ [RpcNext]_rpcVars => [\A c \in Calls : SendRequest(c) => nonce \notin spent]_rpcVars
  <2> SUFFICES ASSUME RpcInvariant, NEW c \in Calls, SendRequest(c)
               PROVE  nonce \notin spent
    OBVIOUS
  <2>1. pc[c] \in {"granted", "ready"}
    BY DEF SendRequest, CanSend
  <2>2. \A d \in Calls : pc[d] # "sent"
    BY <2>1, SlotsExclude DEF RpcInvariant, OneAtATime, Holding
  <2> QED
    BY <2>2 DEF RpcInvariant, NonceAccounted
<1> QED
  BY <1>1, RpcInductive, PTL DEF RpcSpec, NonceSentOnce

(* A refusal is always the daemon's own forgetting. *)
THEOREM RefusalsAreExplained == RpcSpec => []RefusedOnlyAfterLoss
<1>1. RpcInvariant => RefusedOnlyAfterLoss
  BY DEF RpcInvariant
<1> QED
  BY <1>1, RpcInductive, PTL
=============================================================================
