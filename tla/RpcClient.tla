------------------------------ MODULE RpcClient ------------------------------
(***************************************************************************)
(* The gRPC client's authenticated calls: the nonce chain kept by          *)
(* createAuthInterceptor of src/libravdb-client.ts behind createRpcMutex   *)
(* and acquireRpcLock.                                                     *)
(*                                                                         *)
(* Every call but Health carries the nonce the daemon handed out with its  *)
(* last response, so calls go one at a time, in the order they were made.  *)
(* The mutex is a chain of promises: a call takes a slot at once and its   *)
(* turn comes when every earlier slot has been released.  A signal (the    *)
(* caller's, or the deadline the transport sets) may abort a call at any   *)
(* moment, and the client may be closed at any moment.  The daemon, which  *)
(* is not in the repository, accepts each nonce it issued once.            *)
(***************************************************************************)
EXTENDS Integers, FiniteSets

CONSTANTS
  Calls,       \* places that may have a call outstanding
  MaxSlots,    \* bound: calls made
  MaxNonces,   \* bound: nonces issued
  MaxForgets   \* bound: times the daemon forgets the nonces it issued

ASSUME RpcBoundsAssumption ==
  MaxSlots \in Nat /\ MaxNonces \in Nat /\ MaxForgets \in Nat

VARIABLES
  pc,          \* pc[c]: where call c is
  slot,        \* slot[c]: its place in the chain of promises
  aborted,     \* aborted[c]: its signal has fired
  nextSlot,    \* the slot the next lock() takes
  released,    \* the slots whose promise is resolved
  nonce,       \* nonceHex, 0 when it is undefined
  closed,      \* close() was called
  carried,     \* carried[c]: the nonce c's request was sent with
  answer,      \* answer[c]: what the daemon answered it
  issued,      \* the daemon: the latest nonce it issued
  valid,       \* the daemon: the nonces it would accept
  dropped,     \* history: nonces the daemon forgot unused
  spent,       \* history: nonces sent with a request
  forgets      \* bound: times the daemon forgot

mutexVars == <<slot, nextSlot, released>>
daemonVars == <<issued, valid, dropped, forgets>>
wireVars == <<carried, answer, spent>>
rpcVars == <<pc, aborted, nonce, closed, mutexVars, wireVars, daemonVars>>

NoAnswer == [kind |-> "none", nonce |-> 0]
Answers == [kind : {"none", "ok", "refused"}, nonce : Nat]

Queued == {"waiting", "abandoned"}
Holding == {"granted", "bootstrapping", "ready", "sent"}

(* The plugin runtime hands the client out after bootstrapHandshake, which *)
(* keeps the nonce of the Health response if there was one.                *)
RpcInit ==
  /\ pc = [c \in Calls |-> "idle"]
  /\ slot = [c \in Calls |-> 0] /\ nextSlot = 1 /\ released = {}
  /\ aborted = [c \in Calls |-> FALSE]
  /\ nonce \in {0, 1} /\ issued = nonce /\ valid = {nonce} \ {0}
  /\ closed = FALSE
  /\ carried = [c \in Calls |-> 0] /\ answer = [c \in Calls |-> NoAnswer]
  /\ dropped = {} /\ spent = {} /\ forgets = 0

-----------------------------------------------------------------------------
(* The mutex.                                                              *)

(* A call takes its slot in the stretch it is made in. *)
Call(c) ==
  /\ pc[c] = "idle" /\ ~ closed /\ nextSlot <= MaxSlots
  /\ pc' = [pc EXCEPT ![c] = "waiting"]
  /\ slot' = [slot EXCEPT ![c] = nextSlot]
  /\ nextSlot' = nextSlot + 1
  /\ aborted' = [aborted EXCEPT ![c] = FALSE]
  /\ UNCHANGED <<released, nonce, closed, wireVars, daemonVars>>

(* A waiting caller is told at once, but the slot stays in the chain. *)
Abort(c) ==
  /\ pc[c] \notin {"idle", "abandoned"} /\ ~ aborted[c]
  /\ aborted' = [aborted EXCEPT ![c] = TRUE]
  /\ pc' = [pc EXCEPT ![c] = IF @ = "waiting" THEN "abandoned" ELSE @]
  /\ UNCHANGED <<mutexVars, nonce, closed, wireVars, daemonVars>>

(* lock() resolves once the promises of the slots before it have. *)

Turn(c) == \A k \in 1..(slot[c] - 1) : k \in released

Finish(c) ==
  /\ pc' = [pc EXCEPT ![c] = "idle"]
  /\ released' = released \cup {slot[c]}

(* The slots freed when an abandoned slot's turn comes. *)
\* mutation: an aborted waiter never releases its slot
FreedNever(c) == {}

Freed(c) == {slot[c]}

TakeTurn(c) ==
  /\ pc[c] \in Queued /\ Turn(c)
  /\ \/ /\ pc[c] = "waiting"
        /\ pc' = [pc EXCEPT ![c] = "granted"]
        /\ UNCHANGED released
     \/ /\ pc[c] = "abandoned"
        /\ pc' = [pc EXCEPT ![c] = "idle"]
        /\ released' = released \cup Freed(c)
  /\ UNCHANGED <<slot, nextSlot, aborted, nonce, closed, wireVars, daemonVars>>

-----------------------------------------------------------------------------
(* The interceptor, inside the lock.                                       *)

(* What becomes of the nonce when the call throws, and when it returns. *)
\* mutation: a failed call leaves its nonce in place
NonceKeptOnError == nonce

NonceAfterError == 0

NonceAfterReply(reply) == reply.nonce

(* guardOpen, before Health and before the request is sent. *)

Open == ~ closed

(* The signal fired between the turn and here. *)
GiveUp(c) ==
  /\ pc[c] = "granted" /\ aborted[c]
  /\ Finish(c)
  /\ UNCHANGED <<slot, nextSlot, aborted, nonce, closed, wireVars, daemonVars>>

(* The nonce was lost: it is asked for inside the lock, by Health, which   *)
(* takes no slot.                                                          *)
Bootstrap(c) ==
  /\ pc[c] = "granted" /\ ~ aborted[c] /\ nonce = 0
  /\ \/ /\ Open
        /\ pc' = [pc EXCEPT ![c] = "bootstrapping"]
        /\ UNCHANGED released
     \/ /\ ~ Open
        /\ Finish(c)
  /\ UNCHANGED <<slot, nextSlot, aborted, nonce, closed, wireVars, daemonVars>>

Issue(n) ==
  /\ n \in {0, issued + 1} /\ n <= MaxNonces
  /\ issued' = IF n = 0 THEN issued ELSE n

(* Health ends.  Its header's nonce is kept even if it fails afterwards;   *)
(* without one the call fails.                                             *)
BootstrapEnds(c) ==
  /\ pc[c] = "bootstrapping"
  /\ \E n \in {0, issued + 1}, ok \in BOOLEAN :
       /\ Issue(n)
       /\ valid' = valid \cup ({n} \ {0})
       /\ nonce' = n
       /\ IF ok /\ n # 0
            THEN pc' = [pc EXCEPT ![c] = "ready"] /\ UNCHANGED released
            ELSE Finish(c)
  /\ UNCHANGED <<slot, nextSlot, aborted, closed, wireVars, dropped, forgets>>

CanSend(c) ==
  \/ pc[c] = "ready"
  \/ pc[c] = "granted" /\ ~ aborted[c] /\ nonce # 0

SendRequest(c) ==
  /\ CanSend(c) /\ Open
  /\ pc' = [pc EXCEPT ![c] = "sent"]
  /\ carried' = [carried EXCEPT ![c] = nonce]
  /\ answer' = [answer EXCEPT ![c] = NoAnswer]
  /\ spent' = spent \cup {nonce}
  /\ UNCHANGED <<mutexVars, aborted, nonce, closed, daemonVars>>

(* The request is not sent: the client is closed, or the transport finds   *)
(* the signal fired while the nonce was being restored.                    *)
SendFails(c) ==
  /\ CanSend(c) /\ (~ Open \/ aborted[c])
  /\ nonce' = NonceAfterError
  /\ Finish(c)
  /\ UNCHANGED <<slot, nextSlot, aborted, closed, wireVars, daemonVars>>

(* The response arrives, with or without the next nonce. *)
Receive(c) ==
  /\ pc[c] = "sent" /\ answer[c].kind = "ok"
  /\ nonce' = NonceAfterReply(answer[c])
  /\ Finish(c)
  /\ UNCHANGED <<slot, nextSlot, aborted, closed, wireVars, daemonVars>>

(* The call fails: refused, aborted, timed out, or its response lost. *)
CallFails(c) ==
  /\ pc[c] = "sent"
  /\ nonce' = NonceAfterError
  /\ Finish(c)
  /\ UNCHANGED <<slot, nextSlot, aborted, closed, wireVars, daemonVars>>

Close ==
  /\ ~ closed
  /\ closed' = TRUE
  /\ UNCHANGED <<pc, aborted, nonce, mutexVars, wireVars, daemonVars>>

-----------------------------------------------------------------------------
(* The daemon.                                                             *)

DaemonAccepts(c) ==
  /\ pc[c] = "sent" /\ answer[c].kind = "none" /\ carried[c] \in valid
  /\ \E n \in {0, issued + 1} :
       /\ Issue(n)
       /\ valid' = (valid \ {carried[c]}) \cup ({n} \ {0})
       /\ answer' = [answer EXCEPT ![c] = [kind |-> "ok", nonce |-> n]]
  /\ UNCHANGED <<pc, aborted, nonce, closed, mutexVars, carried, spent, dropped, forgets>>

DaemonRefuses(c) ==
  /\ pc[c] = "sent" /\ answer[c].kind = "none" /\ carried[c] \notin valid
  /\ answer' = [answer EXCEPT ![c] = [kind |-> "refused", nonce |-> 0]]
  /\ UNCHANGED <<pc, aborted, nonce, closed, mutexVars, carried, spent, daemonVars>>

(* It restarts, or its nonces expire. *)
DaemonForgets ==
  /\ valid # {} /\ forgets < MaxForgets
  /\ forgets' = forgets + 1
  /\ dropped' = dropped \cup valid
  /\ valid' = {}
  /\ UNCHANGED <<pc, aborted, nonce, closed, mutexVars, wireVars, issued>>

ClientStep(c) ==
  \/ TakeTurn(c) \/ GiveUp(c) \/ Bootstrap(c) \/ BootstrapEnds(c)
  \/ SendRequest(c) \/ SendFails(c) \/ Receive(c) \/ CallFails(c)

RpcNext ==
  \/ \E c \in Calls : Call(c) \/ Abort(c) \/ ClientStep(c)
                      \/ DaemonAccepts(c) \/ DaemonRefuses(c)
  \/ Close \/ DaemonForgets

(* Promise callbacks run, and the transport's deadline ends every request. *)
RpcFairness == \A c \in Calls : WF_rpcVars(ClientStep(c))

RpcSpec == RpcInit /\ [][RpcNext]_rpcVars /\ RpcFairness

-----------------------------------------------------------------------------
(* Properties.                                                             *)

RpcTypeOK ==
  /\ pc \in [Calls -> {"idle"} \cup Queued \cup Holding]
  /\ slot \in [Calls -> Nat] /\ nextSlot \in 1..(MaxSlots + 1)
  /\ released \subseteq 1..(nextSlot - 1)
  /\ aborted \in [Calls -> BOOLEAN] /\ closed \in BOOLEAN
  /\ nonce \in 0..issued /\ issued \in Nat
  /\ carried \in [Calls -> 0..issued] /\ answer \in [Calls -> Answers]
  /\ valid \subseteq 1..issued /\ dropped \subseteq 1..issued
  /\ spent \subseteq 1..issued /\ forgets \in 0..MaxForgets

(* Whatever calls are aborted while they wait, hold the lock or are on the *)
(* wire, at most one call is past the mutex: the nonce has one owner.      *)
OneAtATime ==
  \A c, d \in Calls : pc[c] \in Holding /\ pc[d] \in Holding => c = d

(* No nonce is sent twice, though a call may fail with its nonce consumed, *)
(* unconsumed, or replaced by one that never arrived.                      *)
NonceSentOnce ==
  [][\A c \in Calls : SendRequest(c) => nonce \notin spent]_rpcVars

(* A request is only refused over a nonce the daemon itself has forgotten: *)
(* the failure of one call never makes a later one fail.                   *)
RefusedOnlyAfterLoss ==
  \A c \in Calls :
    pc[c] = "sent" /\ answer[c].kind = "refused" => carried[c] \in dropped

(* Once the client is closed no call starts a request or a recovery. *)
ClosedSendsNothing ==
  [][closed => \A c \in Calls : pc'[c] \in {"bootstrapping", "sent"} => pc'[c] = pc[c]]_rpcVars

(* Every call returns its slot, so nothing waits for ever behind a call    *)
(* that was aborted or failed.                                             *)
EveryCallSettles == <>[](\A c \in Calls : pc[c] = "idle")

(* Why the chain of promises is a lock: a call that has not settled owns   *)
(* an unreleased slot of its own, and one past it has none before it.      *)
SlotsOwned ==
  /\ \A c \in Calls :
       pc[c] # "idle" => slot[c] \in 1..(nextSlot - 1) /\ slot[c] \notin released
  /\ \A c, d \in Calls :
       pc[c] # "idle" /\ pc[d] # "idle" /\ slot[c] = slot[d] => c = d
  /\ \A c \in Calls : pc[c] \in Holding => Turn(c)

(* Where the nonce is: at rest it is fresh, and a request under way is the *)
(* only one to have carried it.                                            *)
NonceAccounted ==
  /\ nonce \in spent => \E c \in Calls : pc[c] = "sent" /\ carried[c] = nonce
  /\ nonce # 0 /\ nonce \notin spent => nonce \in valid \cup dropped
  /\ \A c \in Calls :
       pc[c] = "sent" =>
         /\ nonce = carried[c] /\ carried[c] \in spent
         /\ answer[c].kind = "none" => carried[c] \in valid \cup dropped
         /\ answer[c].nonce # 0 =>
              /\ answer[c].nonce \in (valid \cup dropped) \ spent
              /\ answer[c].kind = "ok"
  /\ \A c \in Calls : pc[c] = "ready" => nonce # 0

RpcInvariant ==
  /\ RpcTypeOK
  /\ SlotsOwned
  /\ NonceAccounted
  /\ RefusedOnlyAfterLoss
=============================================================================
