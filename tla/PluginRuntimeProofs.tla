------------------------- MODULE PluginRuntimeProofs -------------------------
(***************************************************************************)
(* Proofs about PluginRuntime, for any callers, sessions and tenants.      *)
(*                                                                         *)
(* The map of started clients and the set shutdown took out of it hold     *)
(* between them exactly the open clients.  So a tenant has at most one     *)
(* open client, and once shutdown has awaited what it took, none is open.  *)
(***************************************************************************)
EXTENDS PluginRuntime, SequenceTheorems, TLAPS

(* Each step preserves the types. *)
LEMMA TypePreserved ==
  ASSUME RuntimeTypeOK, MapHoldsOpenClients, RuntimeAssumption, [RuntimeNext]_runtimeVars
  PROVE  RuntimeTypeOK'
<1> USE DEF RuntimeTypeOK, clientVars, RuntimeAssumption
<1>1. ASSUME NEW c \in Callers, NEW s \in Sessions, NEW explicit \in BOOLEAN,
             GetClient(c, s, explicit)
      PROVE  RuntimeTypeOK'
  <2> DEFINE t == TenantOf(s, explicit)
  <2>1. t \in Tenants
    BY DEF TenantOf
  <2>2. bound' \subseteq Sessions /\ named' \subseteq Sessions
    BY <1>1 DEF GetClient, Remember
  <2>3. CASE /\ Shared(t) # 0
             /\ caller' = [caller EXCEPT ![c] =
                  [pc |-> IF clients[Shared(t)].state = "ready" THEN "idle" ELSE "waiting",
                   client |-> Shared(t)]]
             /\ UNCHANGED <<started, clients, made>>
    <3>1. Shared(t) \in 0..MaxClients
      BY <2>1 DEF Shared
    <3>2. caller' \in [Callers -> CallerRecords]
      BY <2>3, <3>1 DEF CallerRecords
    <3> QED
      BY <1>1, <2>2, <2>3, <3>2 DEF GetClient
  <2>4. CASE /\ made < MaxClients
             /\ made' = made + 1
             /\ clients' = [clients EXCEPT ![made + 1] =
                              [tenant |-> t, state |-> "starting", open |-> TRUE]]
             /\ started' = [started EXCEPT ![t] = made + 1]
             /\ caller' = [caller EXCEPT ![c] = [pc |-> "waiting", client |-> made + 1]]
    <3>1. made' \in 0..MaxClients /\ made + 1 \in 0..MaxClients
      BY <2>4
    <3>2. started' \in [Tenants -> 0..made']
      BY <2>1, <2>4
    <3>3. clients' \in [Ids -> ClientRecords]
      BY <2>1, <2>4 DEF ClientRecords
    <3>4. caller' \in [Callers -> CallerRecords]
      BY <2>4, <3>1 DEF CallerRecords
    <3> QED
      BY <1>1, <2>2, <3>1, <3>2, <3>3, <3>4 DEF GetClient
  <2> QED
    BY <1>1, <2>3, <2>4 DEF GetClient
<1>2. ASSUME NEW s \in Sessions, ResolveWriteTenantKey(s) PROVE RuntimeTypeOK'
  BY <1>2 DEF ResolveWriteTenantKey, Remember
<1>3. ASSUME NEW c \in Callers, CancelWait(c) PROVE RuntimeTypeOK'
  BY <1>3 DEF CancelWait, IdleCaller, CallerRecords
<1>4. ASSUME NEW i \in Ids, StartSucceeds(i) PROVE RuntimeTypeOK'
  <2>1. clients' \in [Ids -> ClientRecords]
    BY <1>4 DEF StartSucceeds, ClientRecords
  <2>2. caller' \in [Callers -> CallerRecords]
    BY <1>4 DEF StartSucceeds, Settle, Ids, CallerRecords
  <2> QED
    BY <1>4, <2>1, <2>2 DEF StartSucceeds
<1>5. ASSUME NEW i \in Ids, StartFails(i) PROVE RuntimeTypeOK'
  <2>1. clients' \in [Ids -> ClientRecords]
    BY <1>5, ZenonT(40) DEF StartFails, Failed, ClientRecords
  <2>2. caller' \in [Callers -> CallerRecords]
    BY <1>5 DEF StartFails, Settle, CallerRecords
  <2>3. started' \in [Tenants -> 0..made]
    BY <1>5 DEF StartFails, Forget, ClientRecords
  <2> QED
    BY <1>5, <2>1, <2>2, <2>3 DEF StartFails
<1>6. ASSUME NEW i \in Ids, FlushEnds(i) PROVE RuntimeTypeOK'
  BY <1>6 DEF FlushEnds, ClientRecords
<1>7. ASSUME NEW k \in Tasks, OnShutdown(k) PROVE RuntimeTypeOK'
  BY <1>7 DEF OnShutdown
<1>8. ASSUME Shutdown PROVE RuntimeTypeOK'
  BY <1>8 DEF Shutdown, BindingsKept
<1>9. ASSUME TaskEnds PROVE RuntimeTypeOK'
  <2>1. tasks' = SubSeq(tasks, 1, Len(tasks) - 1) /\ UNCHANGED phase
    BY <1>9 DEF TaskEnds, GoesOn
  <2>2. tasks' \in Seq(Tasks)
    BY <2>1, SubSeqProperties
  <2> QED
    BY <1>9, <2>1, <2>2 DEF TaskEnds
<1>10. ASSUME Stop PROVE RuntimeTypeOK'
  BY <1>10 DEF Stop
<1>11. ASSUME ShutdownEnds PROVE RuntimeTypeOK'
  BY <1>11 DEF ShutdownEnds
<1>12. ASSUME UNCHANGED runtimeVars PROVE RuntimeTypeOK'
  BY <1>12 DEF runtimeVars
<1> QED
  BY <1>1, <1>2, <1>3, <1>4, <1>5, <1>6, <1>7, <1>8, <1>9, <1>10, <1>11, <1>12
     DEF RuntimeNext, Settling

(* The map and shutdown's set go on holding the open clients. *)
LEMMA MapPreserved ==
  ASSUME RuntimeTypeOK, MapHoldsOpenClients, RuntimeAssumption, [RuntimeNext]_runtimeVars
  PROVE  MapHoldsOpenClients'
<1> USE DEF RuntimeTypeOK, clientVars, RuntimeAssumption, MapHoldsOpenClients, Stopped, Ids
<1>1. ASSUME NEW c \in Callers, NEW s \in Sessions, NEW explicit \in BOOLEAN,
             GetClient(c, s, explicit)
      PROVE  MapHoldsOpenClients'
  <2> DEFINE t == TenantOf(s, explicit)
  <2>1. t \in Tenants
    BY DEF TenantOf
  <2>2. CASE UNCHANGED <<started, clients, made>>
    BY <1>1, <2>2 DEF GetClient
  <2>3. CASE /\ started[t] = 0 /\ made < MaxClients
             /\ made' = made + 1
             /\ clients' = [clients EXCEPT ![made + 1] =
                              [tenant |-> t, state |-> "starting", open |-> TRUE]]
             /\ started' = [started EXCEPT ![t] = made + 1]
    <3>1. ~ Stopped /\ phase' = phase /\ closing' = closing
      BY <1>1 DEF GetClient
    <3>2. \A i \in Ids : i # made + 1 => clients'[i] = clients[i]
      BY <2>3
    <3>3. clients'[made + 1] = [tenant |-> t, state |-> "starting", open |-> TRUE]
      BY <2>3
    <3>4. \A u \in Tenants : started'[u] = IF u = t THEN made + 1 ELSE started[u]
      BY <2>1, <2>3
    <3>5. \A i \in Ids : clients[i].tenant \in Tenants
      BY DEF ClientRecords
    <3>6. ASSUME NEW i \in Ids
          PROVE  /\ clients'[i].state = "none" <=> i > made'
                 /\ clients'[i].open => clients'[i].state \in {"starting", "ready"}
                 /\ clients'[i].state = "starting" => clients'[i].open
                 /\ clients'[i].open => started'[clients'[i].tenant] = i
      <4>1. CASE i = made + 1
        BY <2>1, <2>3, <3>3, <3>4, <4>1
      <4>2. CASE i # made + 1
        BY <2>1, <2>3, <3>1, <3>2, <3>4, <3>5, <4>2
      <4> QED
        BY <4>1, <4>2
    <3>7. ASSUME NEW u \in Tenants, started'[u] # 0
          PROVE  clients'[started'[u]].tenant = u /\ clients'[started'[u]].open
      <4>1. CASE u = t
        BY <2>3, <3>3, <3>4, <4>1
      <4>2. CASE u # t
        BY <2>3, <3>2, <3>4, <3>7, <4>2
      <4> QED
        BY <4>1, <4>2
    <3> QED
      BY <3>1, <3>6, <3>7
  <2> QED
    BY <1>1, <2>2, <2>3 DEF GetClient, Shared
<1>2. ASSUME NEW s \in Sessions, ResolveWriteTenantKey(s) PROVE MapHoldsOpenClients'
  BY <1>2 DEF ResolveWriteTenantKey
<1>3. ASSUME NEW c \in Callers, CancelWait(c) PROVE MapHoldsOpenClients'
  BY <1>3 DEF CancelWait
<1>4. ASSUME NEW i \in Ids, StartSucceeds(i) PROVE MapHoldsOpenClients'
  BY <1>4 DEF StartSucceeds, ClientRecords
<1>5. ASSUME NEW i \in Ids, StartFails(i) PROVE MapHoldsOpenClients'
  <2>1. \A j \in Ids :
          clients'[j] = IF j = i
                          THEN [tenant |-> clients[i].tenant, state |-> "failed", open |-> FALSE]
                          ELSE clients[j]
    <3>1. clients' = [clients EXCEPT ![i] =
                        [tenant |-> clients[i].tenant, state |-> "failed", open |-> FALSE]]
      BY <1>5 DEF StartFails, Failed, ClientRecords
    <3> QED
      BY <3>1
  <2>2. \A u \in Tenants : started'[u] = IF u = clients[i].tenant THEN 0 ELSE started[u]
    BY <1>5 DEF StartFails, Forget
  <2>3. clients[i].tenant \in Tenants /\ clients[i].open
    BY <1>5 DEF StartFails, ClientRecords
  <2>4. UNCHANGED <<made, closing, phase>>
    BY <1>5 DEF StartFails
  <2>5. \A j \in Ids : clients[j].tenant \in Tenants
    BY DEF ClientRecords
  <2>6. clients'[i].state = "failed" /\ ~ clients'[i].open /\ i <= made
    <3>1. clients[i] \in ClientRecords /\ clients[i].state = "starting"
      BY <1>5 DEF StartFails
    <3>2. i <= made
      BY <3>1
    <3> QED
      BY <2>1, <3>2
  <2>7. ASSUME NEW j \in Ids
        PROVE  /\ clients'[j].state = "none" <=> j > made'
               /\ clients'[j].open => clients'[j].state \in {"starting", "ready"}
               /\ clients'[j].state = "starting" => clients'[j].open
               /\ ~ Stopped' /\ clients'[j].open => started'[clients'[j].tenant] = j
               /\ Stopped' /\ clients'[j].open => j \in closing'
               /\ phase' = "done" => ~ clients'[j].open
    <3>1. CASE j = i
      BY <2>4, <2>6, <3>1
    <3>2. CASE j # i
      BY <2>1, <2>2, <2>3, <2>4, <2>5, <3>2
    <3> QED
      BY <3>1, <3>2
  <2>8. ASSUME NEW u \in Tenants, started'[u] # 0
        PROVE  /\ ~ Stopped'
               /\ clients'[started'[u]].tenant = u /\ clients'[started'[u]].open
    <3>1. u # clients[i].tenant /\ started'[u] = started[u]
      BY <2>2, <2>8
    <3>2. started[u] \in Ids /\ started[u] # i
      BY <2>8, <3>1
    <3> QED
      BY <2>1, <2>4, <2>8, <3>1, <3>2
  <2> QED
    BY <2>4, <2>7, <2>8
<1>6. ASSUME NEW i \in Ids, FlushEnds(i) PROVE MapHoldsOpenClients'
  BY <1>6 DEF FlushEnds, ClientRecords
<1>7. ASSUME NEW k \in Tasks, OnShutdown(k) PROVE MapHoldsOpenClients'
  BY <1>7 DEF OnShutdown
<1>8. ASSUME Shutdown PROVE MapHoldsOpenClients'
  BY <1>8 DEF Shutdown
<1>9. ASSUME TaskEnds PROVE MapHoldsOpenClients'
  BY <1>9 DEF TaskEnds, GoesOn
<1>10. ASSUME Stop PROVE MapHoldsOpenClients'
  <2>1. \A i \in Ids : clients[i].open => started[clients[i].tenant] = i /\ clients[i].tenant \in Tenants
    BY <1>10 DEF Stop, ClientRecords
  <2>2. \A i \in Ids : clients[i].open => i \in closing'
    BY <1>10, <2>1 DEF Stop
  <2>3. closing' \subseteq Ids
    BY <1>10 DEF Stop
  <2> QED
    BY <1>10, <2>2, <2>3 DEF Stop
<1>11. ASSUME ShutdownEnds PROVE MapHoldsOpenClients'
  <2>1. \A i \in Ids : ~ clients[i].open
    BY <1>11 DEF ShutdownEnds, Awaited
  <2> QED
    BY <1>11, <2>1 DEF ShutdownEnds
<1>12. ASSUME UNCHANGED runtimeVars PROVE MapHoldsOpenClients'
  BY <1>12 DEF runtimeVars
<1> QED
  BY <1>1, <1>2, <1>3, <1>4, <1>5, <1>6, <1>7, <1>8, <1>9, <1>10, <1>11, <1>12
     DEF RuntimeNext, Settling

(* While the map is in use it decides that a tenant has one open client;   *)
(* once shutdown has begun to close them none is opened.                   *)
LEMMA OneClientPreserved ==
  ASSUME RuntimeTypeOK, MapHoldsOpenClients, MapHoldsOpenClients', OneClientPerTenant,
         [RuntimeNext]_runtimeVars
  PROVE  OneClientPerTenant'
<1>1. CASE ~ Stopped'
  BY <1>1 DEF OneClientPerTenant, MapHoldsOpenClients
<1>2. CASE Stopped'
  <2>1. UNCHANGED clients \/ \E i \in Ids : StartSucceeds(i) \/ StartFails(i) \/ FlushEnds(i)
    <3>1. ASSUME NEW c \in Callers, NEW s \in Sessions, NEW explicit \in BOOLEAN
          PROVE  ~ GetClient(c, s, explicit)
      BY <1>2 DEF GetClient, Stopped
    <3> QED
      BY <3>1 DEF RuntimeNext, Settling, runtimeVars, clientVars, ResolveWriteTenantKey, CancelWait,
                  OnShutdown, Shutdown, TaskEnds, Stop, ShutdownEnds
  <2>2. ASSUME NEW j \in Ids
        PROVE  /\ clients'[j].open => clients[j].open
               /\ clients'[j].tenant = clients[j].tenant
    <3>1. ASSUME NEW i \in Ids, StartSucceeds(i)
          PROVE  clients'[j].open = clients[j].open /\ clients'[j].tenant = clients[j].tenant
      BY <3>1 DEF StartSucceeds, RuntimeTypeOK, ClientRecords
    <3>2. ASSUME NEW i \in Ids, StartFails(i)
          PROVE  /\ clients'[j].open => clients[j].open
                 /\ clients'[j].tenant = clients[j].tenant
      <4>1. /\ clients' = [clients EXCEPT ![i].state = "failed", ![i].open = FALSE]
            /\ clients \in [Ids -> ClientRecords]
        BY <3>2 DEF StartFails, Failed, RuntimeTypeOK
      <4>2. CASE i = j
        BY <4>1, <4>2 DEF ClientRecords
      <4>3. CASE i # j
        BY <4>1, <4>3
      <4> QED
        BY <4>2, <4>3
    <3>3. ASSUME NEW i \in Ids, FlushEnds(i)
          PROVE  /\ clients'[j].open => clients[j].open
                 /\ clients'[j].tenant = clients[j].tenant
      <4>1. /\ clients' = [clients EXCEPT ![i].open = FALSE]
            /\ clients \in [Ids -> ClientRecords]
        BY <3>3 DEF FlushEnds, RuntimeTypeOK
      <4>2. CASE i = j
        BY <4>1, <4>2 DEF ClientRecords
      <4>3. CASE i # j
        BY <4>1, <4>3
      <4> QED
        BY <4>2, <4>3
    <3> QED
      BY <2>1, <3>1, <3>2, <3>3
  <2> QED
    BY <2>2 DEF OneClientPerTenant
<1> QED
  BY <1>1, <1>2

(* A binding is kept until shutdown has seen its last task end. *)
LEMMA RoutingPreserved ==
  ASSUME RuntimeTypeOK, RoutedToOwner, [RuntimeNext]_runtimeVars
  PROVE  RoutedToOwner'
<1> SUFFICES ASSUME ~ Stopped', NEW s \in named'
             PROVE  TenantOf(s, FALSE)' = Owner[s]
  BY DEF RoutedToOwner
<1>1. ~ Stopped
  BY DEF RuntimeNext, Settling, runtimeVars, Stopped, GetClient, ResolveWriteTenantKey, CancelWait,
         StartSucceeds, StartFails, FlushEnds, OnShutdown, Shutdown, TaskEnds, GoesOn,
         Stop, ShutdownEnds
<1>2. bound \subseteq bound' /\ named' \subseteq named \cup bound'
  <2>1. CASE Stop \/ ShutdownEnds
    BY <2>1 DEF Stop, ShutdownEnds, Stopped
  <2>2. CASE ~ (Stop \/ ShutdownEnds)
    BY <2>2 DEF RuntimeNext, Settling, runtimeVars, GetClient, ResolveWriteTenantKey, Remember, CancelWait,
                StartSucceeds, StartFails, FlushEnds, OnShutdown, Shutdown, BindingsKept,
                TaskEnds
  <2> QED
    BY <2>1, <2>2
<1> QED
  BY <1>1, <1>2 DEF RoutedToOwner, TenantOf

(* Nothing is registered or run once the tasks are over. *)
LEMMA DrainedPreserved ==
  ASSUME DrainedFirst, [RuntimeNext]_runtimeVars
  PROVE  DrainedFirst'
BY DEF DrainedFirst, Stopped, RuntimeNext, Settling, runtimeVars, GetClient, ResolveWriteTenantKey,
       CancelWait, StartSucceeds, StartFails, FlushEnds, OnShutdown, Shutdown,
       TaskEnds, GoesOn, Stop, Drained, ShutdownEnds

(* The inductive invariant: types, the map against the open clients, one   *)
(* client per tenant, and routing by the remembered agent.                 *)
THEOREM RuntimeInductive == RuntimeSpec => []RuntimeInvariant
<1> USE RuntimeAssumption
<1>1. RuntimeInit => RuntimeInvariant
  <2> SUFFICES ASSUME RuntimeInit PROVE RuntimeInvariant
    OBVIOUS
  <2>1. RuntimeTypeOK
    BY DEF RuntimeInit, RuntimeTypeOK, RuntimeAssumption, NoClient, IdleCaller, ClientRecords, CallerRecords
  <2>2. MapHoldsOpenClients
    BY DEF RuntimeInit, MapHoldsOpenClients, NoClient, Ids, Stopped, RuntimeAssumption
  <2>3. OneClientPerTenant
    BY DEF RuntimeInit, OneClientPerTenant, NoClient
  <2>4. RoutedToOwner
    BY DEF RuntimeInit, RoutedToOwner
  <2>5. DrainedFirst
    BY DEF RuntimeInit, DrainedFirst
  <2> QED
    BY <2>1, <2>2, <2>3, <2>4, <2>5 DEF RuntimeInvariant
<1>2. RuntimeInvariant /\ [RuntimeNext]_runtimeVars => RuntimeInvariant'
  BY TypePreserved, DrainedPreserved, MapPreserved, OneClientPreserved, RoutingPreserved DEF RuntimeInvariant
<1> QED
  BY <1>1, <1>2, PTL DEF RuntimeSpec

(* When shutdown() has resolved no client is left open: none whose         *)
(* start-up failed, was abandoned by its caller, or was under way.         *)
THEOREM ShutdownClosesAll == RuntimeSpec => []NoClientLeaks
<1>1. RuntimeInvariant => NoClientLeaks
  BY DEF RuntimeInvariant, MapHoldsOpenClients, NoClientLeaks
<1> QED
  BY <1>1, RuntimeInductive, PTL

(* Callers of one tenant share one client. *)
THEOREM ClientsAreShared == RuntimeSpec => []OneClientPerTenant
<1>1. RuntimeInvariant => OneClientPerTenant
  BY DEF RuntimeInvariant
<1> QED
  BY <1>1, RuntimeInductive, PTL

(* A failed start-up does not stay in the map, so the next caller retries. *)
THEOREM StartupIsRetried == RuntimeSpec => []NoPoisonedStartup
<1>1. RuntimeInvariant => NoPoisonedStartup
  <2> SUFFICES ASSUME RuntimeInvariant, NEW t \in Tenants, started[t] # 0
               PROVE  clients[started[t]].state # "failed"
    BY DEF NoPoisonedStartup
  <2>1. started[t] \in Ids /\ clients[started[t]].open
    BY RuntimeAssumption
       DEF RuntimeInvariant, RuntimeTypeOK, MapHoldsOpenClients, Ids, RuntimeAssumption
  <2> QED
    BY <2>1 DEF RuntimeInvariant, MapHoldsOpenClients
<1> QED
  BY <1>1, RuntimeInductive, PTL

(* Until the last shutdown task has ended, a call that names only a        *)
(* session reaches the tenant of the agent once named for it.              *)
THEOREM RoutingIsKept == RuntimeSpec => []RoutedToOwner
<1>1. RuntimeInvariant => RoutedToOwner
  BY DEF RuntimeInvariant
<1> QED
  BY <1>1, RuntimeInductive, PTL

(* No working client is closed while a shutdown task has not ended. *)
THEOREM DrainComesFirst == RuntimeSpec => DrainBeforeClose
<1>1. RuntimeInvariant /\ [RuntimeNext]_runtimeVars =>
        [\A i \in Ids :
          clients[i].state = "ready" /\ clients[i].open /\ ~ clients'[i].open => tasks = << >>]_runtimeVars
  <2> SUFFICES ASSUME RuntimeInvariant, RuntimeNext, NEW i \in Ids,
                      clients[i].state = "ready", clients[i].open, ~ clients'[i].open
               PROVE  tasks = << >>
    OBVIOUS
  <2>1. Stopped
    <3> SUFFICES ASSUME ~ Stopped PROVE FALSE
      OBVIOUS
    <3>1. i <= made
      BY DEF RuntimeInvariant, RuntimeTypeOK, MapHoldsOpenClients, Ids
    <3>2. ASSUME NEW c \in Callers, NEW s \in Sessions, NEW explicit \in BOOLEAN,
                 GetClient(c, s, explicit)
          PROVE  clients'[i] = clients[i]
      <4>1. \/ clients' = clients
            \/ \E r : clients' = [clients EXCEPT ![made + 1] = r]
        BY <3>2 DEF GetClient
      <4>2. i # made + 1
        BY <3>1 DEF RuntimeInvariant, RuntimeTypeOK
      <4> QED
        BY <4>1, <4>2 DEF RuntimeInvariant, RuntimeTypeOK
    <3>3. ASSUME NEW j \in Ids, StartSucceeds(j) \/ StartFails(j)
          PROVE  clients'[i] = clients[i] \/ clients'[i].open
      BY <3>3 DEF StartSucceeds, StartFails, RuntimeInvariant, RuntimeTypeOK, ClientRecords
    <3> QED
      BY <3>2, <3>3 DEF RuntimeNext, Settling, runtimeVars, clientVars, Stopped, ResolveWriteTenantKey,
             CancelWait, FlushEnds, OnShutdown, Shutdown, TaskEnds, Stop, ShutdownEnds
  <2> QED
    BY <2>1 DEF RuntimeInvariant, DrainedFirst
<1> QED
  BY <1>1, RuntimeInductive, PTL DEF RuntimeSpec, DrainBeforeClose
=============================================================================
