----------------------------- MODULE MemoryTools -----------------------------
(***************************************************************************)
(* The memory tools of the agent (src/memory-tools.ts,                     *)
(* src/memory-runtime.ts, src/tools/memory-recall.ts): a search, guarded   *)
(* against repeating itself, that fans out over the tenants the agent may  *)
(* read, and the tools that follow the references it hands out.            *)
(*                                                                         *)
(* A record stands for its text.  A search matches every record of its     *)
(* collections; the scores are the records' own, and records of equal      *)
(* score come in any order.                                                *)
(***************************************************************************)
EXTENDS Integers, Sequences, FiniteSets, SequencesExt, FiniteSetsExt

CONSTANTS
  ToolScopes,        \* tool contexts: agent and session, with the agent's tenants
  NoSession, NoTenant,
  Records,       \* what the daemon holds; an unlabelled one lacks metadata
  CausesOf, ParentsOf,   \* the daemon's edges, from an identifier to others
  SearchQueries, \* what a search asks: corpus, k, least score, about dreams
  SearchSlots,   \* bound: searches under way at once
  MaxScopes,     \* TURN_SEARCH_MAX_KEYS
  DedupTtl,      \* TURN_SEARCH_DEDUP_TTL_MS
  MaxToolFaults  \* bound

VARIABLES
  keyed,         \* turnSearchKeys: its scopes, the first inserted first
  fresh,         \* turnSearchKeys: how long a scope's key for a query still blocks
  managers,      \* the memory search manager of a scope
  paths,         \* returnedSearchPaths of a scope's manager
  search,        \* the searches of the tool
  crossRecall,   \* cfg.crossSessionRecall
  toolFaults,
  answered,      \* history: the blocked searches answered since their key was set
  held           \* a reference the agent was given, and the record it was given for

toolVars == <<keyed, fresh, managers, paths, search, crossRecall,
              toolFaults, answered, held>>

NoSearch == [at |-> "idle"]
NoReference == [at |-> "none"]
Scoped(s) == s.session # NoSession

-----------------------------------------------------------------------------
(* References and tenants.                                                 *)

EncodeRecordReference(tenant, collection, id) ==
  [tenant |-> tenant, collection |-> collection, id |-> id]
NoCollection == <<"", NoSession>>
Memory == <<"memory", NoSession>>   \* where records without metadata seem to be
BareId(id) == EncodeRecordReference(NoTenant, NoCollection, id)

(* What a search result says of its record: the tenant of the request that *)
(* found it, and the collection its metadata names.                        *)
Stamped(tenant, r) ==
  [tenant |-> tenant, collection |-> IF r.labelled THEN r.collection ELSE Memory,
   id |-> r.id, score |-> r.score, of |-> r]

\* mutation: two tenants' records are told apart by collection and id only
SearchResultKeyOfId(h) == <<h.collection, h.id>>
SearchResultKey(h) == <<h.tenant, h.collection, h.id>>
SearchResultPath(h) == EncodeRecordReference(h.tenant, h.collection, h.id)

Access(s) == {s.primary} \cup ToSet(s.reads)

(* expandSummary: where a reference leads, NoTenant when it is refused. *)
TenantReached(s, ref) ==
  IF ref.tenant = NoTenant THEN s.primary
  ELSE IF ref.tenant \in Access(s) THEN ref.tenant ELSE NoTenant
RecordReached(s, ref) == <<TenantReached(s, ref), ref.id>>

(* An edge of an expanded record, and a parent of a described summary.     *)
\* mutation: the edges are handed out as the daemon named them
EdgeReferenceBare(ref, id) == BareId(id)
EdgeReference(ref, id) ==
  IF ref.tenant = NoTenant THEN BareId(id) ELSE EncodeRecordReference(ref.tenant, NoCollection, id)
SummaryReference(ref, id) ==
  IF ref.tenant = NoTenant THEN BareId(id)
  ELSE EncodeRecordReference(ref.tenant, ref.collection, id)

(* Tenants have names; a tenant's collection has one record of an          *)
(* identifier; what is asked and what is found is ranked by numbers.       *)
ASSUME ToolAssumption ==
  /\ DedupTtl \in Nat
  /\ \A s \in ToolScopes : NoTenant \notin Access(s) /\ s.reads \in Seq(Access(s))
  /\ IsFiniteSet(Records)
  /\ \A r \in Records : r.labelled \in BOOLEAN /\ r.score \in Int
  /\ \A r, other \in Records :
       r.tenant = other.tenant /\ r.collection = other.collection /\ r.id = other.id => r = other
  /\ \A q \in SearchQueries :
       q.corpus \in {"all", "memory", "sessions"} /\ q.k \in Nat /\ q.least \in Int

RecordsOf(tenant, id) == {r \in Records : r.tenant = tenant /\ r.id = id}

-----------------------------------------------------------------------------
(* What is searched, and what is found.                                    *)

Summaries(s) == <<"session_summary", s.session>>

(* resolveSearchCollections; the configured kind of session collection is  *)
(* the plain one.                                                          *)
SearchCollections(s, q) ==
  LET own == IF Scoped(s) THEN {<<"session", s.session>>} ELSE {}
      durable == {<<"user", NoSession>>, <<"global", NoSession>>}
  IN IF q.corpus = "sessions" THEN own
     ELSE IF ~ crossRecall THEN IF q.corpus = "all" THEN own ELSE {}
     ELSE IF q.corpus = "memory" THEN durable ELSE own \cup durable

DreamCollection(q) == crossRecall /\ q.dream /\ q.corpus # "sessions"

SearchRequest(tenant, collections) == [tenant |-> tenant, collections |-> collections]
DreamRequest(s) == SearchRequest(s.primary, {<<"dream", NoSession>>})

(* One collection is searched in the default tenant, several in each       *)
(* tenant of the access list.                                              *)
RequestsOf(s, q) ==
  LET collections == SearchCollections(s, q)
      tenants == IF Cardinality(collections) = 1 \/ s.reads = <<>>
                 THEN <<s.primary>> ELSE s.reads
  IN IF collections = {} THEN <<>>
     ELSE [i \in DOMAIN tenants |-> SearchRequest(tenants[i], collections)]

Matching(request) ==
  {r \in Records : r.tenant = request.tenant /\ r.collection \in request.collections}

(* The k best of some hits: every choice among those of equal score. *)
Best(k, hits) ==
  {some \in kSubset(IF Cardinality(hits) < k THEN Cardinality(hits) ELSE k, hits) :
     \A h \in some, other \in hits \ some : h.score >= other.score}

(* The hits that are new, of two that have one key the first. *)
FoundAdded(found, hits) ==
  found \cup {h \in hits : \A f \in found : SearchResultKey(f) # SearchResultKey(h)}

Holding(s, ref, r) == [held EXCEPT ![s] = [ref |-> ref, of |-> r]]

-----------------------------------------------------------------------------
ToolsInit ==
  /\ keyed = <<>> /\ fresh = [s \in ToolScopes |-> [q \in SearchQueries |-> 0]]
  /\ managers = [s \in ToolScopes |-> "none"] /\ paths = [s \in ToolScopes |-> {}]
  /\ search = [c \in SearchSlots |-> NoSearch]
  /\ crossRecall \in BOOLEAN /\ toolFaults = 0
  /\ answered = {} /\ held = [s \in ToolScopes |-> NoReference]

ToolFault == toolFaults < MaxToolFaults /\ toolFaults' = toolFaults + 1

(* isDuplicateSearch *)
Blocked(s, q) == Scoped(s) /\ s \in ToSet(keyed) /\ fresh[s][q] > 0

(* The search tool, up to its manager.  The oldest scope makes room. *)
Ask(c, s, q) ==
  /\ search[c].at \in {"idle", "answered"} /\ ~ Blocked(s, q)
  /\ LET grown == IF s \in ToSet(keyed) THEN keyed ELSE Append(keyed, s)
         dropped == IF Len(grown) > MaxScopes THEN {Head(grown)} ELSE {}
     IN IF Scoped(s)
        THEN /\ keyed' = IF dropped = {} THEN grown ELSE Tail(grown)
             /\ fresh' = [t \in ToolScopes |->
                  IF t \in dropped THEN [r \in SearchQueries |-> 0]
                  ELSE IF t = s THEN [fresh[s] EXCEPT ![q] = DedupTtl]
                  ELSE fresh[t]]
        ELSE UNCHANGED <<keyed, fresh>>
  /\ managers' = [managers EXCEPT ![s] = IF @ = "none" THEN "opening" ELSE @]
  /\ search' = [search EXCEPT ![c] = [at |-> "manager", scope |-> s, query |-> q]]
  /\ answered' = answered \ {<<s, q>>}
  /\ UNCHANGED <<paths, crossRecall, toolFaults, held>>

(* The get tool, for a scope that has no manager yet. *)
GetAsked(s) ==
  /\ managers[s] = "none" /\ managers' = [managers EXCEPT ![s] = "opening"]
  /\ UNCHANGED <<keyed, fresh, paths, search, crossRecall, toolFaults,
                 answered, held>>

(* A failed request produced no results to reuse; permit its retry. *)
\* mutation: the key of a failed search stays
RetryRefused(failed) == fresh
RetryPermitted(failed) ==
  [s \in ToolScopes |-> [q \in SearchQueries |->
     IF \E c \in failed : search[c].scope = s /\ search[c].query = q
     THEN 0 ELSE fresh[s][q]]]

SearchFails(failed) ==
  /\ fresh' = RetryPermitted(failed)
  /\ search' = [c \in SearchSlots |-> IF c \in failed THEN NoSearch ELSE search[c]]
  /\ UNCHANGED <<keyed, paths, crossRecall, answered, held>>

(* The status was read, or could not be, which a manager does not mind.    *)
ManagerOpened(s) ==
  /\ managers[s] = "opening" /\ ~ s.excluded
  /\ managers' = [managers EXCEPT ![s] = "open"]
  /\ UNCHANGED <<keyed, fresh, paths, search, crossRecall, toolFaults,
                 answered, held>>

(* An excluded agent: every search that waits for the manager fails, and   *)
(* the next one asks again.                                                *)
ManagerRefused(s) ==
  /\ managers[s] = "opening" /\ s.excluded
  /\ managers' = [managers EXCEPT ![s] = "none"]
  /\ SearchFails({c \in SearchSlots : search[c].at = "manager" /\ search[c].scope = s})
  /\ UNCHANGED toolFaults

(* The client of the scope, and the requests.  searchTextCollections takes *)
(* its access list here.                                                   *)
ClientFound(c) ==
  LET s == search[c].scope  q == search[c].query
      dream == DreamCollection(q)
  IN /\ search[c].at = "manager" /\ managers[s] = "open"
     /\ search' = [search EXCEPT ![c] =
          [at |-> "asking", scope |-> s, query |-> q,
           todo |-> RequestsOf(s, q), found |-> {}, ok |-> RequestsOf(s, q) = <<>>,
           dream |-> IF dream THEN "asked" ELSE "none", dreams |-> {}, reached |-> {}]]
     /\ UNCHANGED <<keyed, fresh, managers, paths, crossRecall, toolFaults,
                    answered, held>>

ClientUnavailable(c) ==
  /\ search[c].at = "manager" /\ managers[search[c].scope] = "open"
  /\ ToolFault /\ SearchFails({c}) /\ UNCHANGED managers

Requesting(c) == search[c].at = "asking" /\ search[c].todo # <<>>

RequestAnswered(c) ==
  /\ Requesting(c)
  /\ LET request == Head(search[c].todo)
     IN \E best \in Best(search[c].query.k, Matching(request)) :
          search' = [search EXCEPT
            ![c].found = FoundAdded(@, {Stamped(request.tenant, r) : r \in best}),
            ![c].todo = Tail(@), ![c].ok = TRUE, ![c].reached = @ \cup {request}]
  /\ UNCHANGED <<keyed, fresh, managers, paths, crossRecall, toolFaults,
                 answered, held>>

(* One tenant's failure leaves the others' results. *)
RequestFailed(c) ==
  /\ Requesting(c) /\ ToolFault
  /\ search' = [search EXCEPT ![c].todo = Tail(@)]
  /\ UNCHANGED <<keyed, fresh, managers, paths, crossRecall, answered, held>>

DreamsAnswered(c) ==
  /\ search[c].at = "asking" /\ search[c].dream = "asked"
  /\ LET request == DreamRequest(search[c].scope)
     IN \E best \in Best(search[c].query.k, Matching(request)) :
          search' = [search EXCEPT
            ![c].dreams = {Stamped(request.tenant, r) : r \in best},
            ![c].dream = "found", ![c].reached = @ \cup {request}]
  /\ UNCHANGED <<keyed, fresh, managers, paths, crossRecall, toolFaults,
                 answered, held>>

(* The dream request fails at once, the others when none is answered. *)
DreamsFailed(c) ==
  /\ search[c].at = "asking" /\ search[c].dream = "asked"
  /\ ToolFault /\ SearchFails({c}) /\ UNCHANGED managers
NoneAnswered(c) ==
  /\ search[c].at = "asking" /\ search[c].todo = <<>> /\ ~ search[c].ok
  /\ SearchFails({c}) /\ UNCHANGED <<managers, toolFaults>>

SourceOf(h) ==
  IF h.collection[1] = "session" THEN "sessions" ELSE "memory"

(* The results merged, cut to k and filtered, their paths remembered by    *)
(* the manager, and those of the corpus answered.                          *)
SearchAnswered(c) ==
  LET s == search[c].scope  q == search[c].query
  IN /\ search[c].at = "asking" /\ search[c].todo = <<>> /\ search[c].ok
     /\ search[c].dream # "asked"
     /\ \E top \in Best(q.k, search[c].found), taken \in BOOLEAN :
        \E merged \in Best(q.k, FoundAdded(top, search[c].dreams)) :
          LET results == {h \in merged : h.score >= q.least}
              shown == {h \in results : q.corpus \in {"all", SourceOf(h)}}
              returned == {[path |-> SearchResultPath(h), of |-> h.of] : h \in results}
          IN /\ paths' = [paths EXCEPT ![s] =
                  {p \in @ : \A r \in returned : r.path # p.path} \cup returned]
             /\ IF taken THEN \E h \in shown : held' = Holding(s, SearchResultPath(h), h.of)
                ELSE held' = held
             /\ search' = [search EXCEPT ![c] =
                  [at |-> "answered", scope |-> s, query |-> q,
                   reached |-> @.reached, shown |-> {h.of : h \in shown}]]
     /\ answered' = IF Blocked(s, q) THEN answered \cup {<<s, q>>} ELSE answered
     /\ UNCHANGED <<keyed, fresh, managers, crossRecall, toolFaults>>

(* readFile, for a scope's manager: the text last returned under the path. *)
Excerpt(s, path) == {p.of : p \in {p \in paths[s] : p.path = path}}

-----------------------------------------------------------------------------
(* The tools that hand out and follow references; the agent follows one at *)
(* a time.  An answer over its token limit, a refused reference and a      *)
(* failed request change nothing.                                          *)

Given(s, ref, r) ==
  /\ held' = Holding(s, ref, r)
  /\ UNCHANGED <<keyed, fresh, managers, paths, search, crossRecall, toolFaults, answered>>

(* The assembled context names a summary of the session. *)
SummarySeen(s) ==
  \E r \in Matching(SearchRequest(s.primary, {Summaries(s)})) : Given(s, BareId(r.id), r)

(* memory_grep: the summaries and the turns of the session, a turn kept in *)
(* two collections once, with its better score.                            *)
Grep(s) ==
  LET inside(collection) == Matching(SearchRequest(s.primary, {collection}))
      turns == inside(<<"session_raw", s.session>>) \cup inside(<<"session", s.session>>)
      once == {t \in turns : \A u \in turns \ {t} : u.id = t.id =>
                 u.score < t.score
                 \/ (u.score = t.score /\ t.collection[1] = "session_raw")}
  IN /\ Scoped(s)
     /\ \E r \in inside(Summaries(s)) \cup once :
          Given(s, EncodeRecordReference(s.primary, r.collection, r.id), r)

Reached(s) == RecordsOf(TenantReached(s, held[s].ref), held[s].ref.id)

(* memory_expand of a record: the edges of the record that is reached. *)
ExpandGraph(s) ==
  /\ held[s] # NoReference
  /\ \E from \in Reached(s) : \E id \in CausesOf[from.id] : \E r \in RecordsOf(from.tenant, id) :
       Given(s, EdgeReference(held[s].ref, id), r)

(* memory_describe of a summary: its parents and its source turns. *)
Describe(s) ==
  /\ held[s] # NoReference
  /\ held[s].ref.tenant = NoTenant \/ held[s].ref.collection[1] = "session_summary"
  /\ \E from \in {r \in Reached(s) : r.collection[1] = "session_summary"} :
       \/ \E id \in ParentsOf[from.id] : \E r \in RecordsOf(from.tenant, id) :
            Given(s, SummaryReference(held[s].ref, id), r)
       \/ \E id \in CausesOf[from.id] : \E r \in RecordsOf(from.tenant, id) :
            Given(s, EdgeReference(held[s].ref, id), r)

(* Time passes for every key. *)
ToolTimePasses ==
  /\ fresh' = [s \in ToolScopes |-> [q \in SearchQueries |->
                  IF fresh[s][q] > 0 THEN fresh[s][q] - 1 ELSE 0]]
  /\ answered' = {a \in answered : fresh'[a[1]][a[2]] > 0}
  /\ UNCHANGED <<keyed, managers, paths, search, crossRecall, toolFaults, held>>

ToolsNext ==
  \/ \E c \in SearchSlots :
       \/ \E s \in ToolScopes, q \in SearchQueries : Ask(c, s, q)
       \/ ClientFound(c) \/ ClientUnavailable(c)
       \/ RequestAnswered(c) \/ RequestFailed(c)
       \/ DreamsAnswered(c) \/ DreamsFailed(c) \/ NoneAnswered(c) \/ SearchAnswered(c)
  \/ \E s \in ToolScopes :
       \/ GetAsked(s) \/ ManagerOpened(s) \/ ManagerRefused(s)
       \/ SummarySeen(s) \/ Grep(s) \/ ExpandGraph(s) \/ Describe(s)
  \/ ToolTimePasses

ToolsSpec == ToolsInit /\ [][ToolsNext]_toolVars

-----------------------------------------------------------------------------
(* A search that is blocked, with the advice to use the previous results,  *)
(* has results: one of the same query and context is under way or was      *)
(* answered since the key that blocks it was set.                          *)
BlockedHasResults ==
  \A s \in ToolScopes, q \in SearchQueries : Blocked(s, q) =>
    \/ <<s, q>> \in answered
    \/ \E c \in SearchSlots :
         search[c].at \in {"manager", "asking"} /\ search[c].scope = s /\ search[c].query = q

(* An answer leaves out a record of a tenant that was reached only for k   *)
(* others at least as good: not because another tenant has a record of the *)
(* same collection and identifier, nor for a tenant that failed.           *)
BestAreAnswered ==
  \A c \in SearchSlots : search[c].at = "answered" =>
    LET reached == UNION {Matching(request) : request \in search[c].reached}
    IN \A r \in reached : r.labelled /\ r.score >= search[c].query.least =>
         \/ r \in search[c].shown
         \/ Cardinality({o \in reached \ {r} : o.score >= r.score}) >= search[c].query.k

(* Whichever tool handed out a reference and however many steps of the     *)
(* graph led to it, following it reaches the record it was given for, in   *)
(* the tenant where that was found, and an excerpt is of that record.      *)
ReferencesReachTheirRecord ==
  \A s \in ToolScopes : LET h == held[s] IN h # NoReference =>
    /\ RecordReached(s, h.ref) = <<h.of.tenant, h.of.id>>
    /\ h.of.labelled => Excerpt(s, h.ref) \subseteq {h.of}
=============================================================================
