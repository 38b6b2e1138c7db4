---------------------------- MODULE CourseCache ----------------------------
(***************************************************************************)
(* The Redis cache in front of the course detail and of the published        *)
(* catalog: cache.py, and its use in course_service.py and in                *)
(* mark_published_activity.  One course, and one page of the catalog.        *)
(*                                                                         *)
(* The content of the cache is a committed version of the course: its detail,*)
(* or whether the catalog lists it.  Time passes in ticks, which count down  *)
(* the TTLs and the cooldown of a process whose call to Redis failed.        *)
(***************************************************************************)
EXTENDS Naturals, Sequences, SequencesExt

CONSTANTS
    ApiSlots,         \* requests the API serves at once
    Publisher,        \* the publish activity
    Process,          \* the process of each slot: its client and its cooldown
    DetailTTL, CatalogTTL, Cooldown,   \* 60, 30 and 30 seconds, in ticks
    MaxRequestTicks,  \* how long a request lasts at most
    MaxWrites,        \* bound: PATCH and DELETE requests
    MaxFaults         \* bound: failed calls, rollbacks, crashes, Redis restarts

ASSUME TicksAssumption ==
    /\ {DetailTTL, CatalogTTL, Cooldown, MaxRequestTicks} \subseteq Nat \ {0}
    /\ {MaxWrites, MaxFaults} \subseteq Nat

Slots == ApiSlots \cup {Publisher}

VARIABLES
    log,       \* courses.status of every version committed so far
    age,       \* ticks since a version was superseded
    redis,     \* course:detail:*, course:catalog:version and the pages
    cool,      \* ticks a process still leaves Redis alone (_disabled_until)
    req,       \* the request of each slot
    writes,    \* writes started
    faults,
    lost,      \* Redis has lost its data, and the generation starts again
    published  \* the generation from which the catalog shows the course; 0: none
               \* or unknown, as Redis has lost its data

vars == <<log, age, redis, cool, req, writes, faults, lost, published>>

Versions    == 1 .. MaxWrites + 2
Generations == 0 .. MaxWrites + 1
MaxAge      == DetailTTL + CatalogTTL + MaxRequestTicks

Absent == [version |-> 0, left |-> 0]
Idle   == [pc |-> "idle", age |-> 0]

Empty == [detail |-> Absent, gen |-> 0, pages |-> [g \in Generations |-> Absent]]

Init ==
    /\ log = <<"draft">>
    /\ age = [v \in Versions |-> 0]
    /\ redis = Empty
    /\ cool = [p \in {Process[s] : s \in Slots} |-> 0]
    /\ req = [s \in Slots |-> Idle]
    /\ writes = 0
    /\ faults = 0
    /\ lost = FALSE
    /\ published = 0

Become(s, r)  == req' = [req EXCEPT ![s] = r]
Goto(s, pc)   == req' = [req EXCEPT ![s].pc = pc]
Finish(s)     == req' = [req EXCEPT ![s] = Idle]
Start(s, pc)  == req[s] = Idle /\ Become(s, [pc |-> pc, age |-> 0])

-----------------------------------------------------------------------------
(* cache.py: while its process is in the cooldown a call does nothing; a call *)
(* that fails, before or after Redis did its work, starts the cooldown.       *)

Enabled(s) == cool[Process[s]] = 0

Trips(s) ==
    /\ Enabled(s)
    /\ faults < MaxFaults
    /\ faults' = faults + 1
    /\ cool' = [cool EXCEPT ![Process[s]] = Cooldown]

\* get_json, get_int: the value found, or what stands for none.
Get(s, value, none, Then(_)) ==
    \/ Enabled(s)  /\ Then(value) /\ UNCHANGED <<redis, cool, faults>>
    \/ ~Enabled(s) /\ Then(none)  /\ UNCHANGED <<redis, cool, faults>>
    \/ Trips(s)    /\ Then(none)  /\ UNCHANGED redis

\* set_json, delete, bump.
Put(s, after) ==
    \/ Enabled(s)  /\ redis' = after /\ UNCHANGED <<cool, faults>>
    \/ ~Enabled(s) /\ UNCHANGED <<redis, cool, faults>>
    \/ Trips(s)    /\ redis' \in {redis, after}

\* Faulty variant: SET without an expiry; the entry stays.
NoExpiry(version, ttl) == [version |-> version, left |-> MaxAge + 1]

Entry(version, ttl) == [version |-> version, left |-> ttl]

Bumped == [redis EXCEPT !.gen = @ + 1]
Dropped == [redis EXCEPT !.detail = Absent]

-----------------------------------------------------------------------------
(* get_course_detail.                                                        *)

GetDetail(s) ==
    /\ Start(s, "detail")
    /\ UNCHANGED <<log, age, redis, cool, writes, faults, lost, published>>

ReadDetailCache(s) ==
    /\ req[s].pc = "detail"
    /\ Get(s, redis.detail, Absent,
           LAMBDA found : IF found # Absent THEN Finish(s) ELSE Goto(s, "load"))
    /\ UNCHANGED <<log, age, writes, lost, published>>

\* get_for_view; only a published course is stored.
LoadDetail(s) ==
    /\ req[s].pc = "load"
    /\ IF Last(log) = "published"
       THEN Become(s, [pc |-> "store", age |-> req[s].age, version |-> Len(log)])
       ELSE Finish(s)
    /\ UNCHANGED <<log, age, redis, cool, writes, faults, lost, published>>

StoreDetail(s) ==
    /\ req[s].pc = "store"
    /\ Put(s, [redis EXCEPT !.detail = Entry(req[s].version, DetailTTL)])
    /\ Finish(s)
    /\ UNCHANGED <<log, age, writes, lost, published>>

-----------------------------------------------------------------------------
(* list_catalog.                                                             *)

ListCatalog(s) ==
    /\ Start(s, "generation")
    /\ UNCHANGED <<log, age, redis, cool, writes, faults, lost, published>>

\* Without an answer the generation is 0.
ReadGeneration(s) ==
    /\ req[s].pc = "generation"
    /\ Get(s, redis.gen, 0,
           LAMBDA g : Become(s, [pc |-> "page", age |-> req[s].age, gen |-> g]))
    /\ UNCHANGED <<log, age, writes, lost, published>>

ReadPageCache(s) ==
    /\ req[s].pc = "page"
    /\ Get(s, redis.pages[req[s].gen], Absent,
           LAMBDA found : IF found # Absent THEN Finish(s) ELSE Goto(s, "list"))
    /\ UNCHANGED <<log, age, writes, lost, published>>

LoadPage(s) ==
    /\ req[s].pc = "list"
    /\ Become(s, [pc |-> "storePage", age |-> req[s].age, gen |-> req[s].gen,
                  version |-> Len(log)])
    /\ UNCHANGED <<log, age, redis, cool, writes, faults, lost, published>>

StorePage(s) ==
    /\ req[s].pc = "storePage"
    /\ Put(s, [redis EXCEPT !.pages[req[s].gen] = Entry(req[s].version, CatalogTTL)])
    /\ Finish(s)
    /\ UNCHANGED <<log, age, writes, lost, published>>

-----------------------------------------------------------------------------
(* update and soft_delete: the row is written and flushed, the cache is       *)
(* invalidated, and then get_db commits.                                     *)

HoldsRow(s) == req[s].pc \in {"drop", "bump", "commit"}

StartWrite(s) ==
    /\ writes < MaxWrites
    /\ \A u \in Slots : ~HoldsRow(u)
    /\ req[s] = Idle
    /\ \E archives \in BOOLEAN :
          Become(s, [pc |-> "drop", age |-> 0, archives |-> archives])
    /\ writes' = writes + 1
    /\ UNCHANGED <<log, age, redis, cool, faults, lost, published>>

DropDetail(s) ==
    /\ req[s].pc = "drop"
    /\ Put(s, Dropped)
    /\ Goto(s, "bump")
    /\ UNCHANGED <<log, age, writes, lost, published>>

BumpGeneration(s) ==
    /\ req[s].pc = "bump"
    /\ Put(s, Bumped)
    /\ Goto(s, "commit")
    /\ UNCHANGED <<log, age, writes, lost, published>>

Committed(status) == log' = Append(log, status)

CommitWrite(s) ==
    /\ req[s].pc = "commit"
    /\ Committed(IF req[s].archives THEN "archived" ELSE Last(log))
    /\ Finish(s)
    /\ UNCHANGED <<age, redis, cool, writes, faults, lost, published>>

RollbackWrite(s) ==
    /\ HoldsRow(s)
    /\ faults < MaxFaults /\ faults' = faults + 1
    /\ Finish(s)
    /\ UNCHANGED <<log, age, redis, cool, writes, lost, published>>

-----------------------------------------------------------------------------
(* mark_published_activity: the commit comes first.                          *)

PublishCommit ==
    /\ Last(log) = "draft"
    /\ \A u \in Slots : ~HoldsRow(u)
    /\ Start(Publisher, "publishDrop")
    /\ Committed("published")
    /\ UNCHANGED <<age, redis, cool, writes, faults, lost, published>>

PublishDrop ==
    /\ req[Publisher].pc = "publishDrop"
    /\ Put(Publisher, Dropped)
    /\ Goto(Publisher, "publishBump")
    /\ UNCHANGED <<log, age, writes, lost, published>>

\* Faulty variant: the detail is dropped, the generation stays.
ForgetsCatalog ==
    /\ req[Publisher].pc = "publishBump"
    /\ published' = redis.gen
    /\ Finish(Publisher)
    /\ UNCHANGED <<log, age, redis, cool, writes, faults, lost>>

PublishBump ==
    /\ req[Publisher].pc = "publishBump"
    /\ Put(Publisher, Bumped)
    /\ published' = IF redis' = Bumped /\ ~lost THEN redis'.gen ELSE published
    /\ Finish(Publisher)
    /\ UNCHANGED <<log, age, writes, lost>>

\* The worker stops between the commit and the invalidation; the retry finds the
\* course published and returns at once.
PublisherCrash ==
    /\ req[Publisher] # Idle
    /\ faults < MaxFaults /\ faults' = faults + 1
    /\ Finish(Publisher)
    /\ UNCHANGED <<log, age, redis, cool, writes, lost, published>>

-----------------------------------------------------------------------------

Less(n) == IF n = 0 THEN 0 ELSE n - 1
Older(entry) == IF entry.left <= 1 THEN Absent ELSE [entry EXCEPT !.left = @ - 1]

\* Time passes, but not for a request that has lasted MaxRequestTicks.
Tick ==
    /\ \A s \in Slots : req[s].age < MaxRequestTicks
    /\ req' = [s \in Slots |-> IF req[s] = Idle THEN Idle
                               ELSE [req[s] EXCEPT !.age = @ + 1]]
    /\ redis' = [redis EXCEPT !.detail = Older(@),
                              !.pages = [g \in Generations |-> Older(@[g])]]
    /\ cool' = [p \in DOMAIN cool |-> Less(cool[p])]
    /\ age' = [v \in Versions |->
                 IF v < Len(log) /\ age[v] <= MaxAge THEN age[v] + 1 ELSE age[v]]
    /\ UNCHANGED <<log, writes, faults, lost, published>>

\* Redis restarts without its data.
RedisRestart ==
    /\ faults < MaxFaults /\ faults' = faults + 1
    /\ redis' = Empty
    /\ lost' = TRUE /\ published' = 0
    /\ UNCHANGED <<log, age, cool, req, writes>>

Api(s) ==
    \/ GetDetail(s) \/ ReadDetailCache(s) \/ LoadDetail(s) \/ StoreDetail(s)
    \/ ListCatalog(s) \/ ReadGeneration(s) \/ ReadPageCache(s) \/ LoadPage(s)
    \/ StorePage(s)
    \/ StartWrite(s) \/ DropDetail(s) \/ BumpGeneration(s) \/ CommitWrite(s)
    \/ RollbackWrite(s)

Next ==
    \/ \E s \in ApiSlots : Api(s)
    \/ PublishCommit \/ PublishDrop \/ PublishBump \/ PublisherCrash
    \/ Tick \/ RedisRestart

Spec == Init /\ [][Next]_vars

-----------------------------------------------------------------------------
\* "stale up to its 30s TTL": what the cache holds was current at most one TTL
\* and the length of the request that stored it ago, although an invalidation
\* may fail, be skipped in a cooldown or come before the commit, and a reader may
\* store what it read before all of them (course_service.py:86-119, cache.py).
BoundedStaleness ==
    LET StaleWithin(entry, ttl) ==
            entry # Absent => age[entry.version] <= ttl + MaxRequestTicks
    IN /\ StaleWithin(redis.detail, DetailTTL)
       /\ \A g \in Generations : StaleWithin(redis.pages[g], CatalogTTL)

\* Once the publish activity has rolled the generation forward, no page of that
\* generation or a later one is without the course
\* (course_publish.py:140-144: "so it appears in the catalog immediately").  Not
\* so after Redis has lost its data: a page read before the publish may then be
\* stored under a generation that comes again.
PublishedAppears ==
    published > 0 =>
        \A g \in published .. MaxWrites + 1 :
            redis.pages[g] # Absent => log[redis.pages[g].version] # "draft"

-----------------------------------------------------------------------------
(* The inductive invariants of CourseCacheProofs.                            *)

Ages    == 0 .. MaxRequestTicks
Entries == [version : Nat, left : Nat]
Request ==
    [pc : {"idle", "detail", "load", "generation", "publishDrop", "publishBump"}, age : Ages]
    \cup [pc : {"store"}, age : Ages, version : Nat]
    \cup [pc : {"page", "list"}, age : Ages, gen : Nat]
    \cup [pc : {"storePage"}, age : Ages, gen : Nat, version : Nat]
    \cup [pc : {"drop", "bump", "commit"}, age : Ages, archives : BOOLEAN]

TypeOK ==
    /\ log \in Seq({"draft", "published", "archived"}) /\ Len(log) > 0
    /\ age \in [Versions -> Nat]
    /\ redis \in [detail : Entries, gen : Nat, pages : [Generations -> Entries]]
    /\ req \in [Slots -> Request]
    /\ writes \in 0 .. MaxWrites /\ published \in Nat /\ lost \in BOOLEAN

\* Transactions that write the course row exclude each other, and the log has
\* room for the one that is open and for the publish, which comes only once.
LogBounded ==
    /\ \A s, u \in Slots : HoldsRow(s) /\ HoldsRow(u) => s = u
    /\ Len(log) + (IF \E s \in Slots : HoldsRow(s) THEN 1 ELSE 0)
          + (IF log[Len(log)] = "draft" THEN 1 ELSE 0) <= writes + 2

\* A version ages only once it is superseded.  What a request has read is not
\* older than the request, and what the cache holds not than its age there and
\* the request that stored it.
AgesBounded ==
    LET YoungEnough(entry, ttl) ==
            entry # Absent =>
                /\ entry.version \in 1 .. Len(log)
                /\ age[entry.version] + entry.left <= ttl + MaxRequestTicks
    IN /\ \A v \in Versions : v >= Len(log) => age[v] = 0
       /\ \A s \in Slots : req[s].pc \in {"store", "storePage"} =>
             req[s].version \in 1 .. Len(log) /\ age[req[s].version] <= req[s].age
       /\ YoungEnough(redis.detail, DetailTTL)
       /\ \A g \in Generations : YoungEnough(redis.pages[g], CatalogTTL)

\* While Redis keeps its data no page and no request is ahead of the generation.
GenerationsBehind ==
    ~lost =>
        /\ \A s \in Slots : req[s].pc \in {"page", "list", "storePage"} => req[s].gen <= redis.gen
        /\ \A g \in Generations : g > redis.gen => redis.pages[g] = Absent

\* From the publish on every committed version is in the catalog, and from the
\* published generation on so is what a request is about to store.
PublishedStays ==
    /\ req[Publisher].pc \in {"publishDrop", "publishBump"} \/ published > 0 =>
          log[Len(log)] # "draft"
    /\ lost => published = 0
    /\ published > 0 =>
          \A s \in Slots : req[s].pc = "storePage" /\ req[s].gen >= published =>
              log[req[s].version] # "draft"
    /\ PublishedAppears

CacheInv == TypeOK /\ LogBounded /\ AgesBounded /\ GenerationsBehind /\ PublishedStays
=============================================================================
