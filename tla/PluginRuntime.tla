---------------------------- MODULE PluginRuntime ----------------------------
(***************************************************************************)
(* createPluginRuntime of src/plugin-runtime.ts: the clients of the plugin,*)
(* one per tenant, started on first use, shared, and drained, flushed and  *)
(* closed by one shutdown.                                                 *)
(*                                                                         *)
(* A caller names a session and, sometimes, the agent it belongs to; the   *)
(* agent decides the tenant.  Some host callbacks leave the agent out, so  *)
(* the runtime remembers the last one named for each session.  A session   *)
(* here belongs to one agent, and a tenant stands for that agent and for   *)
(* the tenants it may read.                                                *)
(***************************************************************************)
EXTENDS Integers, Sequences, FiniteSets

CONSTANTS
  Callers,       \* places that may have a getClient outstanding
  Sessions,
  Tenants,
  Owner,         \* Owner[s]: the tenant of session s's agent
  Default,       \* the tenant of a caller with no agent
  Tasks,         \* what may be registered with onShutdown
  MaxClients     \* bound: clients ever made

Ids == 1..MaxClients

ASSUME RuntimeAssumption ==
  /\ Owner \in [Sessions -> Tenants] /\ Default \in Tenants
  /\ MaxClients \in Nat

VARIABLES
  started,       \* started[t]: the client of tenant t, 0 if there is none
  clients,       \* clients[i]: the i-th client made
  made,          \* how many there are
  caller,        \* caller[c]: what caller c waits for
  bound,         \* sessionAgents: the sessions whose agent is known
  named,         \* history: sessions whose agent was ever named
  phase,         \* running, draining, flushing, done
  tasks,         \* shutdownTasks, in the order registered
  closing        \* the clients shutdown took out of the map

clientVars == <<started, clients, made, closing>>
runtimeVars == <<clientVars, caller, bound, named, phase, tasks>>

NoClient == [tenant |-> Default, state |-> "none", open |-> FALSE]
ClientRecords ==
  [tenant : Tenants, state : {"none", "starting", "ready", "failed"}, open : BOOLEAN]
IdleCaller == [pc |-> "idle", client |-> 0]
CallerRecords == [pc : {"idle", "waiting"}, client : 0..MaxClients]

RuntimeInit ==
  /\ started = [t \in Tenants |-> 0]
  /\ clients = [i \in Ids |-> NoClient] /\ made = 0
  /\ caller = [c \in Callers |-> IdleCaller]
  /\ bound = {} /\ named = {}
  /\ phase = "running" /\ tasks = << >> /\ closing = {}

Stopped == phase \in {"flushing", "done"}

-----------------------------------------------------------------------------
(* getClient and resolveWriteTenantKey.                                    *)

(* resolveScope: the agent named, or else the one remembered. *)
TenantOf(s, explicit) == IF explicit \/ s \in bound THEN Owner[s] ELSE Default

Remember(s, explicit) ==
  /\ bound' = IF explicit THEN bound \cup {s} ELSE bound
  /\ named' = IF explicit THEN named \cup {s} ELSE named

(* The pending or finished start-up a caller shares. *)

Shared(t) == started[t]

(* A caller joins its tenant's start-up, or begins one. *)
GetClient(c, s, explicit) ==
  LET t == TenantOf(s, explicit)
      i == Shared(t)
  IN  /\ caller[c].pc = "idle" /\ ~ Stopped
      /\ Remember(s, explicit)
      /\ \/ /\ i # 0
            /\ caller' = [caller EXCEPT ![c] =
                            [pc |-> IF clients[i].state = "ready" THEN "idle" ELSE "waiting",
                             client |-> i]]
            /\ UNCHANGED <<started, clients, made>>
         \/ /\ i = 0 /\ made < MaxClients
            /\ made' = made + 1
            /\ clients' = [clients EXCEPT ![made + 1] =
                             [tenant |-> t, state |-> "starting", open |-> TRUE]]
            /\ started' = [started EXCEPT ![t] = made + 1]
            /\ caller' = [caller EXCEPT ![c] = [pc |-> "waiting", client |-> made + 1]]
      /\ UNCHANGED <<closing, phase, tasks>>

(* resolveWriteTenantKey binds the session and starts nothing. *)
ResolveWriteTenantKey(s) ==
  /\ Remember(s, TRUE)
  /\ UNCHANGED <<clientVars, caller, phase, tasks>>

(* A compaction's signal cancels its own wait and not the start-up. *)
CancelWait(c) ==
  /\ caller[c].pc = "waiting"
  /\ caller' = [caller EXCEPT ![c] = IdleCaller]
  /\ UNCHANGED <<clientVars, bound, named, phase, tasks>>

WaitingFor(i) == {c \in Callers : caller[c].pc = "waiting" /\ caller[c].client = i}

(* Who is told that a start-up has ended. *)
\* mutation: a shutdown gives up on the callers of the start-ups it took
ToldUnlessStopped(i) == IF Stopped THEN {} ELSE WaitingFor(i)

Told(i) == WaitingFor(i)

Settle(i, got) ==
  caller' = [c \in Callers |->
    IF c \in Told(i) THEN [pc |-> "idle", client |-> got] ELSE caller[c]]

StartSucceeds(i) ==
  /\ clients[i].state = "starting"
  /\ clients' = [clients EXCEPT ![i].state = "ready"]
  /\ Settle(i, i)
  /\ UNCHANGED <<started, made, closing, bound, named, phase, tasks>>

(* What a failed start-up leaves of its client, and of started. *)
\* mutation: the client of a failed start-up is not closed
FailedLeftOpen == [state |-> "failed", open |-> TRUE]

Failed == [state |-> "failed", open |-> FALSE]

Forget(i) == [started EXCEPT ![clients[i].tenant] = 0]

StartFails(i) ==
  /\ clients[i].state = "starting"
  /\ clients' = [clients EXCEPT ![i].state = Failed.state, ![i].open = Failed.open]
  /\ started' = Forget(i)
  /\ Settle(i, 0)
  /\ UNCHANGED <<made, closing, bound, named, phase, tasks>>

-----------------------------------------------------------------------------
(* Shutdown.                                                               *)

(* A task registered once shutdown has begun is dropped. *)
OnShutdown(k) ==
  /\ phase = "running" /\ k \notin {tasks[j] : j \in 1..Len(tasks)}
  /\ tasks' = Append(tasks, k)
  /\ UNCHANGED <<clientVars, caller, bound, named, phase>>

(* What shutdown forgets at once. *)
\* mutation: the bindings go first instead of last
BindingsGone == {}

BindingsKept == bound

(* Every later call shares the first one's promise. *)
Shutdown ==
  /\ phase = "running"
  /\ phase' = "draining"
  /\ bound' = BindingsKept
  /\ UNCHANGED <<clientVars, caller, named, tasks>>

(* Tasks run one at a time, latest first; one that fails stops nothing. *)
\* mutation: a task that fails ends the drain
GoesOnIfOk(ok) == ok

GoesOn(ok) == TRUE

TaskEnds ==
  /\ phase = "draining" /\ tasks # << >>
  /\ \E ok \in BOOLEAN :
       IF GoesOn(ok)
         THEN tasks' = SubSeq(tasks, 1, Len(tasks) - 1) /\ UNCHANGED phase
         ELSE tasks' = << >> /\ phase' = "failed"
  /\ UNCHANGED <<clientVars, caller, bound, named>>

(* With every task over, no start-up can begin any more. *)

Drained == tasks = << >>

Stop ==
  /\ phase = "draining" /\ Drained
  /\ phase' = "flushing"
  /\ closing' = {started[t] : t \in Tenants} \ {0}
  /\ started' = [t \in Tenants |-> 0]
  /\ bound' = {}
  /\ UNCHANGED <<clients, made, caller, named, tasks>>

(* A client whose start-up is over is flushed, and closed in any case. *)
FlushEnds(i) ==
  /\ phase = "flushing" /\ i \in closing
  /\ clients[i].state = "ready" /\ clients[i].open
  /\ clients' = [clients EXCEPT ![i].open = FALSE]
  /\ UNCHANGED <<started, made, closing, caller, bound, named, phase, tasks>>

(* shutdown() resolves when every start-up it found has ended and been     *)
(* closed.                                                                 *)
Awaited(i) ==
  \/ clients[i].state = "starting"
  \/ clients[i].state = "ready" /\ clients[i].open

ShutdownEnds ==
  /\ phase = "flushing" /\ \A i \in closing : ~ Awaited(i)
  /\ phase' = "done"
  /\ UNCHANGED <<clientVars, caller, bound, named, tasks>>

Settling == TaskEnds \/ Stop \/ ShutdownEnds

RuntimeNext ==
  \/ \E c \in Callers, s \in Sessions, explicit \in BOOLEAN : GetClient(c, s, explicit)
  \/ \E s \in Sessions : ResolveWriteTenantKey(s)
  \/ \E c \in Callers : CancelWait(c)
  \/ \E i \in Ids : StartSucceeds(i) \/ StartFails(i) \/ FlushEnds(i)
  \/ \E k \in Tasks : OnShutdown(k)
  \/ Shutdown \/ Settling

(* The handshake and the flush have the transport's deadline, and the      *)
(* shutdown tasks end.                                                     *)
RuntimeFairness ==
  /\ \A i \in Ids : WF_runtimeVars(StartSucceeds(i) \/ StartFails(i)) /\ WF_runtimeVars(FlushEnds(i))
  /\ WF_runtimeVars(Settling)

RuntimeSpec == RuntimeInit /\ [][RuntimeNext]_runtimeVars /\ RuntimeFairness

-----------------------------------------------------------------------------
(* Properties.                                                             *)

RuntimeTypeOK ==
  /\ started \in [Tenants -> 0..made]
  /\ clients \in [Ids -> ClientRecords] /\ made \in 0..MaxClients
  /\ caller \in [Callers -> CallerRecords]
  /\ bound \subseteq Sessions /\ named \subseteq Sessions
  /\ phase \in {"running", "draining", "flushing", "done"}
  /\ tasks \in Seq(Tasks)

(* When shutdown() resolves every client ever made is closed: those whose  *)
(* start-up failed, was cancelled by its caller, or was still under way.   *)
NoClientLeaks == phase = "done" => \A i \in Ids : ~ clients[i].open

(* Callers of one tenant share one client, however its start-up ends and   *)
(* whenever they call.                                                     *)
OneClientPerTenant ==
  \A i, j \in Ids :
    clients[i].open /\ clients[j].open /\ clients[i].tenant = clients[j].tenant => i = j

(* A failed start-up is retried by the next caller. *)
NoPoisonedStartup ==
  \A t \in Tenants : started[t] # 0 => clients[started[t]].state # "failed"

(* No working client is closed while a shutdown task may still need it. *)
DrainBeforeClose ==
  [][\A i \in Ids :
       clients[i].state = "ready" /\ clients[i].open /\ ~ clients'[i].open => tasks = << >>]_runtimeVars

(* Once a session's agent was named, a call that leaves it out reaches     *)
(* that agent's tenant, until the last shutdown task is over.              *)
RoutedToOwner == ~ Stopped => \A s \in named : TenantOf(s, FALSE) = Owner[s]

(* Every getClient settles, and a shutdown that has begun completes. *)
EveryGetClientSettles == <>[](\A c \in Callers : caller[c].pc = "idle")
ShutdownCompletes == <>[](phase \in {"running", "done"})

(* Why nothing is left open: the map holds exactly the clients that are    *)
(* open, until shutdown takes them all out of it at once.                  *)
MapHoldsOpenClients ==
  /\ \A i \in Ids :
       /\ clients[i].state = "none" <=> i > made
       /\ clients[i].open => clients[i].state \in {"starting", "ready"}
       /\ clients[i].state = "starting" => clients[i].open
       /\ ~ Stopped /\ clients[i].open => started[clients[i].tenant] = i
       /\ Stopped /\ clients[i].open => i \in closing
       /\ phase = "done" => ~ clients[i].open
  /\ \A t \in Tenants :
       started[t] # 0 =>
         /\ ~ Stopped
         /\ clients[started[t]].tenant = t /\ clients[started[t]].open
  /\ closing \subseteq Ids

(* Clients are only flushed and closed once the tasks are over. *)
DrainedFirst == Stopped => tasks = << >>

RuntimeInvariant ==
  /\ RuntimeTypeOK
  /\ DrainedFirst
  /\ MapHoldsOpenClients
  /\ OneClientPerTenant
  /\ RoutedToOwner
=============================================================================
