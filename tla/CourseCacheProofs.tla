-------------------------- MODULE CourseCacheProofs --------------------------
(* Proofs about CourseCache, for any number of requests and processes, any    *)
(* TTLs and any number of writes and faults.                                 *)
EXTENDS CourseCache, TLAPS

\* What a slot of the API and the publish activity do but start or commit a
\* write: the slot s goes on to r, and to Redis it does at most one thing.
Step(s, r) ==
    /\ req' = [req EXCEPT ![s] = r]
    /\ UNCHANGED <<log, age, writes, lost>>
    /\ r.pc \in {"drop", "bump", "commit"} => HoldsRow(s)
    /\ r.pc \in {"store", "storePage"} => r.version = Len(log)
    /\ r.pc \in {"page", "list", "storePage"} =>
          \/ r.gen = redis.gen \/ r.gen = 0
          \/ req[s].pc \in {"page", "list"} /\ r.gen = req[s].gen
    /\ r.pc \in {"publishDrop", "publishBump"} =>
          s = Publisher /\ req[s].pc \in {"publishDrop", "publishBump"}

RedisStep(s) ==
    /\ redis' \in [detail : Entries, gen : Nat, pages : [Generations -> Entries]]
    /\ redis'.gen >= redis.gen
    /\ \/ redis'.detail \in {redis.detail, Absent}
       \/ req[s].pc = "store" /\ redis'.detail = Entry(req[s].version, DetailTTL)
    /\ \A g \in Generations :
          \/ redis'.pages[g] = redis.pages[g]
          \/ /\ req[s].pc = "storePage" /\ g = req[s].gen
             /\ redis'.pages[g] = Entry(req[s].version, CatalogTTL)
    /\ \/ published' = published
       \/ /\ s = Publisher /\ req[s].pc = "publishBump" /\ ~lost
          /\ redis'.gen = redis.gen + 1 /\ published' = redis'.gen

\* The assumption on the constants, one by one.
LEMMA Ticks ==
    /\ DetailTTL \in Nat \ {0} /\ CatalogTTL \in Nat \ {0}
    /\ MaxRequestTicks \in Nat \ {0} /\ MaxWrites \in Nat
  BY TicksAssumption

\* The log is not empty, and its last version is the latest.
LEMMA LastVersion ==
    ASSUME TypeOK
    PROVE  /\ Len(log) \in Nat \ {0} /\ Last(log) = log[Len(log)]
           /\ Last(log) \in {"draft", "published", "archived"}
           /\ LogBounded => Len(log) \in Versions
<1>1. Len(log) \in Nat \ {0} /\ Last(log) = log[Len(log)]
  BY DEF TypeOK, Last
<1>2. Last(log) \in {"draft", "published", "archived"}
  BY <1>1 DEF TypeOK
<1>3. ASSUME LogBounded PROVE Len(log) \in Versions
  <2>1. writes <= MaxWrites /\ writes \in Nat
    BY Ticks DEF TypeOK
  <2> DEFINE open == IF \E s \in Slots : HoldsRow(s) THEN 1 ELSE 0
             draft == IF log[Len(log)] = "draft" THEN 1 ELSE 0
  <2>2. open \in Nat /\ draft \in Nat /\ Len(log) + open + draft <= writes + 2
    BY <1>3 DEF LogBounded
  <2> HIDE DEF open, draft
  <2>3. Len(log) <= writes + 2
    BY <1>1, <2>1, <2>2
  <2> QED BY <1>1, <2>1, <2>3, Ticks DEF Versions
<1> QED BY <1>1, <1>2, <1>3

\* One slot goes on, the others stay.
LEMMA SlotStep ==
    ASSUME TypeOK, NEW s \in Slots, NEW r \in Request, req' = [req EXCEPT ![s] = r]
    PROVE  /\ req' \in [Slots -> Request] /\ req'[s] = r
           /\ \A u \in Slots \ {s} : req'[u] = req[u]
  BY DEF TypeOK

\* What the fields of a request are.
LEMMA RequestFields ==
    ASSUME NEW r \in Request
    PROVE  /\ r.age \in Ages
           /\ r.pc \in {"page", "list", "storePage"} => r.gen \in Nat
           /\ r.pc \in {"store", "storePage"} => r.version \in Nat
           /\ r.pc \in {"drop", "bump", "commit"} => r.archives \in BOOLEAN
  BY DEF Request

\* The steps of Step keep the invariant, whatever they do to Redis of RedisStep.
LEMMA StepKeeps ==
    ASSUME CacheInv, NEW s \in Slots, NEW r \in Request, Step(s, r), RedisStep(s)
    PROVE  CacheInv'
<1> USE DEF CacheInv
<1>1. /\ req' \in [Slots -> Request] /\ req'[s] = r
      /\ \A u \in Slots \ {s} : req'[u] = req[u]
      /\ UNCHANGED <<log, age, writes, lost>>
  BY SlotStep DEF Step
<1>2. /\ redis'.gen \in Nat /\ redis.gen \in Nat /\ redis'.gen >= redis.gen
      /\ \A u \in Slots : req[u] \in Request
      /\ Len(log) \in Versions /\ Len(log) \in Nat \ {0}
  BY LastVersion DEF RedisStep, TypeOK
<1>3. TypeOK'
  BY <1>1, <1>2 DEF TypeOK, RedisStep
<1>4. \A u \in Slots : HoldsRow(u)' => HoldsRow(u)
  BY <1>1 DEF Step, HoldsRow
<1>5. LogBounded'
  <2>1. \A u, v \in Slots : HoldsRow(u)' /\ HoldsRow(v)' => u = v
    BY <1>4 DEF LogBounded
  <2> DEFINE open == IF \E u \in Slots : HoldsRow(u) THEN 1 ELSE 0
             draft == IF log[Len(log)] = "draft" THEN 1 ELSE 0
  <2>2. open \in {0, 1} /\ open' \in {0, 1} /\ (open' = 1 => open = 1) /\ draft \in {0, 1}
    BY <1>4
  <2>3. Len(log) \in Nat /\ writes \in Nat
    BY <1>2, Ticks DEF TypeOK
  <2>4. Len(log) + open + draft <= writes + 2 /\ draft' = draft
    BY <1>1 DEF LogBounded
  <2>5. Len(log') + open' + draft' <= writes' + 2
    <3> HIDE DEF open, draft
    <3> QED BY <1>1, <2>2, <2>3, <2>4
  <2> QED BY <2>1, <2>5 DEF LogBounded
<1>6. AgesBounded'
  <2>1. \A v \in Versions : v >= Len(log') => age'[v] = 0
    BY <1>1 DEF AgesBounded
  <2>2. \A u \in Slots : req'[u].pc \in {"store", "storePage"} =>
            req'[u].version \in 1 .. Len(log') /\ age'[req'[u].version] <= req'[u].age
    <3>1. r.pc \in {"store", "storePage"} => r.version = Len(log) /\ age[Len(log)] = 0 /\ r.age >= 0
      BY <1>2, RequestFields DEF Step, AgesBounded, Ages
    <3> QED BY <1>1, <1>2, <3>1 DEF AgesBounded
  <2>3. ASSUME NEW ttl \in Nat, req[s].pc \in {"store", "storePage"}
        PROVE  /\ Entry(req[s].version, ttl).version \in 1 .. Len(log)
               /\ age[Entry(req[s].version, ttl).version] + Entry(req[s].version, ttl).left
                     <= ttl + MaxRequestTicks
    <3>1. req[s].version \in 1 .. Len(log) /\ age[req[s].version] <= req[s].age
      BY <2>3 DEF AgesBounded
    <3>2. req[s].age \in Nat /\ req[s].age <= MaxRequestTicks /\ age[req[s].version] \in Nat
      <4>1. req[s].version \in Versions
        BY <1>2, <3>1, Ticks DEF Versions
      <4>2. req[s].age \in Ages
        BY <1>2, RequestFields
      <4> QED BY <4>1, <4>2, Ticks DEF TypeOK, Ages
    <3> QED BY <3>1, <3>2, Ticks DEF Entry
  <2>4. redis'.detail # Absent =>
            /\ redis'.detail.version \in 1 .. Len(log')
            /\ age'[redis'.detail.version] + redis'.detail.left <= DetailTTL + MaxRequestTicks
    BY <1>1, <2>3, Ticks DEF AgesBounded, RedisStep
  <2>5. \A g \in Generations : redis'.pages[g] # Absent =>
            /\ redis'.pages[g].version \in 1 .. Len(log')
            /\ age'[redis'.pages[g].version] + redis'.pages[g].left <= CatalogTTL + MaxRequestTicks
    BY <1>1, <2>3, Ticks DEF AgesBounded, RedisStep
  <2> QED BY <2>1, <2>2, <2>4, <2>5 DEF AgesBounded
<1>7. GenerationsBehind'
  <2> SUFFICES ASSUME ~lost PROVE GenerationsBehind'
    BY <1>1 DEF GenerationsBehind
  <2>1. \A u \in Slots : req'[u].pc \in {"page", "list", "storePage"} => req'[u].gen <= redis'.gen
    <3>1. r.pc \in {"page", "list", "storePage"} => r.gen <= redis.gen
      BY <1>2 DEF Step, GenerationsBehind
    <3>2. \A u \in Slots : req'[u].pc \in {"page", "list", "storePage"} =>
              req'[u].gen <= redis.gen /\ req'[u].gen \in Nat
      BY <1>1, <1>2, <3>1, RequestFields DEF GenerationsBehind
    <3> QED BY <1>2, <3>2
  <2>2. \A g \in Generations : g > redis'.gen => redis'.pages[g] = Absent
    <3> SUFFICES ASSUME NEW g \in Generations, g > redis'.gen PROVE redis'.pages[g] = Absent
      OBVIOUS
    <3>1. g \in Nat /\ g > redis.gen
      BY <1>2, Ticks DEF Generations
    <3>2. ~ (req[s].pc = "storePage" /\ g = req[s].gen)
      BY <1>2, <3>1 DEF GenerationsBehind
    <3> QED BY <3>1, <3>2 DEF GenerationsBehind, RedisStep
  <2> QED BY <2>1, <2>2 DEF GenerationsBehind
<1>8. PublishedStays'
  <2>1. req'[Publisher].pc \in {"publishDrop", "publishBump"} \/ published' > 0 =>
            log'[Len(log')] # "draft"
    BY <1>1 DEF Step, RedisStep, PublishedStays, Slots
  <2>2. lost' => published' = 0
    BY <1>1 DEF RedisStep, PublishedStays
  <2>3. CASE published' = published
    <3>1. ASSUME published > 0, NEW u \in Slots, req'[u].pc = "storePage", req'[u].gen >= published
          PROVE  log[req'[u].version] # "draft"
      <4>1. CASE u = s
        BY <1>1, <3>1, <4>1 DEF Step, PublishedStays
      <4>2. CASE u # s
        BY <1>1, <3>1, <4>2 DEF PublishedStays
      <4> QED BY <4>1, <4>2
    <3>2. ASSUME published > 0, NEW g \in published .. MaxWrites + 1, redis'.pages[g] # Absent
          PROVE  log[redis'.pages[g].version] # "draft"
      <4>1. g \in Generations /\ g >= published
        BY <3>2, Ticks DEF TypeOK, Generations
      <4>2. CASE redis'.pages[g] = redis.pages[g]
        BY <3>2, <4>2 DEF PublishedStays, PublishedAppears
      <4>3. CASE /\ req[s].pc = "storePage" /\ g = req[s].gen
                 /\ redis'.pages[g] = Entry(req[s].version, CatalogTTL)
        BY <3>2, <4>1, <4>3 DEF PublishedStays, Entry
      <4> QED BY <4>1, <4>2, <4>3 DEF RedisStep
    <3> QED BY <1>1, <2>1, <2>2, <2>3, <3>1, <3>2 DEF PublishedStays, PublishedAppears
  <2>4. CASE ~lost /\ published' = redis.gen + 1 /\ redis'.gen = redis.gen + 1
    <3>1. ASSUME NEW u \in Slots, req'[u].pc = "storePage" PROVE ~ (req'[u].gen >= published')
      BY <1>1, <1>2, <1>7, <2>4, <3>1, RequestFields DEF GenerationsBehind, Step
    <3>2. ASSUME NEW g \in published' .. MaxWrites + 1 PROVE redis'.pages[g] = Absent
      <4>1. g \in Generations /\ g > redis.gen
        BY <1>2, <2>4, Ticks DEF Generations
      <4>2. ~ (req[s].pc = "storePage" /\ g = req[s].gen)
        BY <1>2, <2>4, <4>1 DEF GenerationsBehind
      <4> QED BY <2>4, <4>1, <4>2 DEF GenerationsBehind, RedisStep
    <3> QED BY <2>1, <2>2, <3>1, <3>2 DEF PublishedStays, PublishedAppears
  <2> QED BY <2>3, <2>4 DEF RedisStep
<1> QED BY <1>3, <1>5, <1>6, <1>7, <1>8

\* A step that leaves Redis alone does nothing to it that RedisStep forbids.
LEMMA QuietRedis ==
    ASSUME TypeOK, UNCHANGED <<redis, published>>, NEW s
    PROVE  RedisStep(s)
<1>1. redis.gen \in Nat
  BY DEF TypeOK
<1> QED BY <1>1 DEF RedisStep, TypeOK

\* The record of a slot that only goes on to another point.
LEMMA GotoRecord ==
    ASSUME TypeOK, NEW s \in Slots, NEW pc, [req[s] EXCEPT !.pc = pc] \in Request, Goto(s, pc)
    PROVE  req' = [req EXCEPT ![s] = [req[s] EXCEPT !.pc = pc]]
  BY DEF Goto

\* The requests that read the course detail.
LEMMA DetailKeeps ==
    ASSUME CacheInv, NEW s \in Slots,
           GetDetail(s) \/ ReadDetailCache(s) \/ LoadDetail(s) \/ StoreDetail(s)
    PROVE  CacheInv'
<1>0. TypeOK /\ req[s] \in Request /\ 0 \in Ages /\ req[s].age \in Ages
      /\ Len(log) \in Nat \ {0} /\ Idle \in Request /\ Idle.pc = "idle"
  BY LastVersion, Ticks, RequestFields DEF CacheInv, TypeOK, Ages, Idle, Request
<1>1. CASE GetDetail(s)
  <2> DEFINE r == [pc |-> "detail", age |-> 0]
  <2>1. r \in Request /\ r.pc = "detail"
    BY <1>0 DEF Request
  <2>2. Step(s, r)
    BY <1>1 DEF GetDetail, Start, Become, Step
  <2>3. RedisStep(s)
    BY <1>0, <1>1, QuietRedis DEF GetDetail
  <2> QED BY <2>1, <2>2, <2>3, StepKeeps
<1>2. CASE ReadDetailCache(s)
  <2>1. RedisStep(s)
    BY <1>0, <1>2, QuietRedis DEF ReadDetailCache, Get
  <2>2. req[s].pc = "detail" /\ UNCHANGED <<log, age, writes, lost>>
    BY <1>2 DEF ReadDetailCache
  <2>3. CASE Finish(s)
    <3>1. Step(s, Idle)
      BY <1>0, <2>2, <2>3 DEF Step, Finish
    <3> QED BY <1>0, <2>1, <3>1, StepKeeps
  <2>4. CASE Goto(s, "load")
    <3> DEFINE r == [req[s] EXCEPT !.pc = "load"]
    <3>1. r \in Request /\ r.pc = "load"
      BY <1>0, <2>2 DEF Request
    <3>2. Step(s, r)
      BY <1>0, <2>2, <2>4, <3>1 DEF Step, Goto
    <3> QED BY <2>1, <3>1, <3>2, StepKeeps
  <2> QED BY <1>2, <2>3, <2>4 DEF ReadDetailCache, Get
<1>3. CASE LoadDetail(s)
  <2>1. RedisStep(s)
    BY <1>0, <1>3, QuietRedis DEF LoadDetail
  <2>2. UNCHANGED <<log, age, writes, lost>>
    BY <1>3 DEF LoadDetail
  <2>3. CASE Finish(s)
    <3>1. Step(s, Idle)
      BY <1>0, <2>2, <2>3 DEF Step, Finish
    <3> QED BY <1>0, <2>1, <3>1, StepKeeps
  <2>4. CASE Become(s, [pc |-> "store", age |-> req[s].age, version |-> Len(log)])
    <3> DEFINE r == [pc |-> "store", age |-> req[s].age, version |-> Len(log)]
    <3>1. r \in Request /\ r.pc = "store" /\ r.version = Len(log)
      BY <1>0 DEF Request
    <3>2. Step(s, r)
      BY <2>2, <2>4 DEF Step, Become
    <3> QED BY <2>1, <3>1, <3>2, StepKeeps
  <2> QED BY <1>3, <2>3, <2>4 DEF LoadDetail
<1>4. CASE StoreDetail(s)
  <2> DEFINE stored == [redis EXCEPT !.detail = Entry(req[s].version, DetailTTL)]
  <2>1. req[s].pc = "store" /\ redis' \in {redis, stored} /\ UNCHANGED published
    BY <1>4 DEF StoreDetail, Put
  <2>2. /\ Entry(req[s].version, DetailTTL) \in Entries
        /\ redis \in [detail : Entries, gen : Nat, pages : [Generations -> Entries]]
    BY <1>0, <2>1, Ticks, RequestFields DEF Entry, Entries, TypeOK
  <2>3. /\ redis' \in [detail : Entries, gen : Nat, pages : [Generations -> Entries]]
        /\ redis'.gen = redis.gen /\ redis'.pages = redis.pages
        /\ redis'.detail \in {redis.detail, Entry(req[s].version, DetailTTL)}
    BY <2>1, <2>2
  <2>4. RedisStep(s)
    BY <2>1, <2>3 DEF RedisStep
  <2>5. Step(s, Idle)
    BY <1>0, <1>4 DEF Step, StoreDetail, Finish
  <2> QED BY <1>0, <2>4, <2>5, StepKeeps
<1> QED BY <1>1, <1>2, <1>3, <1>4

\* The requests that list the catalog.
LEMMA CatalogKeeps ==
    ASSUME CacheInv, NEW s \in Slots,
           \/ ListCatalog(s) \/ ReadGeneration(s) \/ ReadPageCache(s)
           \/ LoadPage(s) \/ StorePage(s)
    PROVE  CacheInv'
<1>0. TypeOK /\ req[s] \in Request /\ 0 \in Ages /\ req[s].age \in Ages /\ redis.gen \in Nat
      /\ Len(log) \in Nat \ {0} /\ Idle \in Request /\ Idle.pc = "idle"
      /\ (req[s].pc \in {"page", "list", "storePage"} => req[s].gen \in Nat)
  BY LastVersion, Ticks, RequestFields DEF CacheInv, TypeOK, Ages, Idle, Request
<1>1. CASE ListCatalog(s)
  <2> DEFINE r == [pc |-> "generation", age |-> 0]
  <2>1. r \in Request /\ r.pc = "generation"
    BY <1>0 DEF Request
  <2>2. Step(s, r)
    BY <1>1 DEF ListCatalog, Start, Become, Step
  <2>3. RedisStep(s)
    BY <1>0, <1>1, QuietRedis DEF ListCatalog
  <2> QED BY <2>1, <2>2, <2>3, StepKeeps
<1>2. CASE ReadGeneration(s)
  <2>1. RedisStep(s)
    BY <1>0, <1>2, QuietRedis DEF ReadGeneration, Get
  <2>2. PICK g \in {redis.gen, 0} : Become(s, [pc |-> "page", age |-> req[s].age, gen |-> g])
    BY <1>2 DEF ReadGeneration, Get
  <2> DEFINE r == [pc |-> "page", age |-> req[s].age, gen |-> g]
  <2>3. r \in Request /\ r.pc = "page" /\ r.gen = g
    BY <1>0 DEF Request
  <2>4. Step(s, r)
    BY <1>2, <2>2 DEF Step, Become, ReadGeneration
  <2> QED BY <2>1, <2>3, <2>4, StepKeeps
<1>3. CASE ReadPageCache(s)
  <2>1. RedisStep(s)
    BY <1>0, <1>3, QuietRedis DEF ReadPageCache, Get
  <2>2. req[s].pc = "page" /\ UNCHANGED <<log, age, writes, lost>>
    BY <1>3 DEF ReadPageCache
  <2>3. CASE Finish(s)
    <3>1. Step(s, Idle)
      BY <1>0, <2>2, <2>3 DEF Step, Finish
    <3> QED BY <1>0, <2>1, <3>1, StepKeeps
  <2>4. CASE Goto(s, "list")
    <3> DEFINE r == [req[s] EXCEPT !.pc = "list"]
    <3>1. r \in Request /\ r.pc = "list" /\ r.gen = req[s].gen
      BY <1>0, <2>2 DEF Request
    <3>2. Step(s, r)
      BY <1>0, <2>2, <2>4, <3>1 DEF Step, Goto
    <3> QED BY <2>1, <3>1, <3>2, StepKeeps
  <2> QED BY <1>3, <2>3, <2>4 DEF ReadPageCache, Get
<1>4. CASE LoadPage(s)
  <2>1. RedisStep(s)
    BY <1>0, <1>4, QuietRedis DEF LoadPage
  <2> DEFINE r == [pc |-> "storePage", age |-> req[s].age, gen |-> req[s].gen,
                   version |-> Len(log)]
  <2>2. r \in Request /\ r.pc = "storePage" /\ r.version = Len(log) /\ r.gen = req[s].gen
    BY <1>0, <1>4 DEF Request, LoadPage
  <2>3. Step(s, r)
    BY <1>4, <2>2 DEF Step, Become, LoadPage
  <2> QED BY <2>1, <2>2, <2>3, StepKeeps
<1>5. CASE StorePage(s)
  <2> DEFINE entry == Entry(req[s].version, CatalogTTL)
             stored == [redis EXCEPT !.pages[req[s].gen] = entry]
  <2>1. req[s].pc = "storePage" /\ redis' \in {redis, stored} /\ UNCHANGED published
    BY <1>5 DEF StorePage, Put
  <2>2. /\ entry \in Entries
        /\ redis \in [detail : Entries, gen : Nat, pages : [Generations -> Entries]]
    BY <1>0, <2>1, Ticks, RequestFields DEF Entry, Entries, TypeOK
  <2> HIDE DEF entry
  <2>3. /\ redis' \in [detail : Entries, gen : Nat, pages : [Generations -> Entries]]
        /\ redis'.gen = redis.gen /\ redis'.detail = redis.detail
        /\ \A g \in Generations : \/ redis'.pages[g] = redis.pages[g]
                                  \/ g = req[s].gen /\ redis'.pages[g] = entry
    <3> DEFINE pages == [redis.pages EXCEPT ![req[s].gen] = entry]
    <3>1. /\ pages \in [Generations -> Entries]
          /\ \A g \in Generations : pages[g] = IF g = req[s].gen THEN entry ELSE redis.pages[g]
      BY <2>2
    <3>2. stored = [redis EXCEPT !.pages = pages]
      OBVIOUS
    <3> HIDE DEF pages, stored
    <3>3. /\ stored \in [detail : Entries, gen : Nat, pages : [Generations -> Entries]]
          /\ stored.gen = redis.gen /\ stored.detail = redis.detail /\ stored.pages = pages
      BY <2>2, <3>1, <3>2
    <3>4. CASE redis' = redis
      BY <2>2, <3>4
    <3>5. CASE redis' = stored
      BY <3>1, <3>3, <3>5
    <3> QED BY <2>1, <3>4, <3>5
  <2>4. RedisStep(s)
    BY <1>0, <2>1, <2>3 DEF RedisStep, entry
  <2>5. Step(s, Idle)
    BY <1>0, <1>5 DEF Step, StorePage, Finish
  <2> QED BY <1>0, <2>4, <2>5, StepKeeps
<1> QED BY <1>1, <1>2, <1>3, <1>4, <1>5

\* Dropping the detail and rolling the generation forward, in a write as in the
\* publish activity: the generation grows, the pages stay.
LEMMA Invalidates ==
    ASSUME TypeOK, NEW s \in Slots,
           redis' \in {redis, Dropped} \/ redis' \in {redis, Bumped}
    PROVE  /\ redis' \in [detail : Entries, gen : Nat, pages : [Generations -> Entries]]
           /\ redis'.gen >= redis.gen /\ redis'.pages = redis.pages
           /\ redis'.detail \in {redis.detail, Absent}
           /\ redis' = Bumped => redis'.gen = redis.gen + 1
           /\ published' = published => RedisStep(s)
<1>1. /\ redis \in [detail : Entries, gen : Nat, pages : [Generations -> Entries]]
      /\ redis.gen \in Nat /\ Absent \in Entries
  BY DEF TypeOK, Absent, Entries
<1>2. /\ redis' \in [detail : Entries, gen : Nat, pages : [Generations -> Entries]]
      /\ redis'.gen >= redis.gen /\ redis'.pages = redis.pages
      /\ redis'.detail \in {redis.detail, Absent}
      /\ redis' = Bumped => redis'.gen = redis.gen + 1
  BY <1>1 DEF Dropped, Bumped
<1> QED BY <1>2 DEF RedisStep

\* The steps of a write up to its commit, and its rollback.
LEMMA WriteKeeps ==
    ASSUME CacheInv, NEW s \in Slots, DropDetail(s) \/ BumpGeneration(s) \/ RollbackWrite(s)
    PROVE  CacheInv'
<1>0. TypeOK /\ req[s] \in Request /\ Idle \in Request /\ Idle.pc = "idle"
  BY Ticks DEF CacheInv, TypeOK, Ages, Idle, Request
<1>1. CASE DropDetail(s) \/ BumpGeneration(s)
  <2>1. PICK pc \in {"bump", "commit"} : Goto(s, pc)
    BY <1>1 DEF DropDetail, BumpGeneration
  <2>2. req[s].pc \in {"drop", "bump"} /\ UNCHANGED <<log, age, writes, lost, published>>
    BY <1>1 DEF DropDetail, BumpGeneration
  <2> DEFINE r == [req[s] EXCEPT !.pc = pc]
  <2>3. r \in Request /\ r.pc = pc
    BY <1>0, <2>2 DEF Request
  <2>4. Step(s, r)
    BY <1>0, <2>1, <2>2, <2>3 DEF Step, Goto, HoldsRow
  <2>5. redis' \in {redis, Dropped} \/ redis' \in {redis, Bumped}
    BY <1>1 DEF DropDetail, BumpGeneration, Put
  <2>6. RedisStep(s)
    BY <1>0, <2>2, <2>5, Invalidates
  <2> QED BY <2>3, <2>4, <2>6, StepKeeps
<1>2. CASE RollbackWrite(s)
  <2>1. RedisStep(s)
    BY <1>0, <1>2, QuietRedis DEF RollbackWrite
  <2>2. Step(s, Idle)
    BY <1>0, <1>2 DEF Step, RollbackWrite, Finish
  <2> QED BY <1>0, <2>1, <2>2, StepKeeps
<1> QED BY <1>1, <1>2

\* The publish activity after its commit, and its crash.
LEMMA PublishKeeps ==
    ASSUME CacheInv, PublishDrop \/ PublishBump \/ PublisherCrash
    PROVE  CacheInv'
<1>0. /\ TypeOK /\ Publisher \in Slots /\ req[Publisher] \in Request
      /\ Idle \in Request /\ Idle.pc = "idle"
  BY Ticks DEF CacheInv, TypeOK, Ages, Idle, Request, Slots
<1>1. CASE PublishDrop
  <2> DEFINE r == [req[Publisher] EXCEPT !.pc = "publishBump"]
  <2>1. req[Publisher].pc = "publishDrop" /\ UNCHANGED <<log, age, writes, lost, published>>
    BY <1>1 DEF PublishDrop
  <2>2. r \in Request /\ r.pc = "publishBump"
    BY <1>0, <2>1 DEF Request
  <2>3. Step(Publisher, r)
    BY <1>0, <1>1, <2>1, <2>2 DEF Step, Goto, PublishDrop
  <2>4. redis' \in {redis, Dropped}
    BY <1>1 DEF PublishDrop, Put
  <2>5. RedisStep(Publisher)
    BY <1>0, <2>1, <2>4, Invalidates
  <2> QED BY <1>0, <2>2, <2>3, <2>5, StepKeeps
<1>2. CASE PublishBump
  <2>1. /\ redis' \in {redis, Bumped} /\ req[Publisher].pc = "publishBump"
        /\ published' = IF redis' = Bumped /\ ~lost THEN redis'.gen ELSE published
    BY <1>2 DEF PublishBump, Put
  <2>2. /\ redis' \in [detail : Entries, gen : Nat, pages : [Generations -> Entries]]
        /\ redis'.gen >= redis.gen /\ redis'.pages = redis.pages
        /\ redis'.detail \in {redis.detail, Absent}
        /\ redis' = Bumped => redis'.gen = redis.gen + 1
    BY <1>0, <2>1, Invalidates
  <2>3. RedisStep(Publisher)
    BY <2>1, <2>2 DEF RedisStep
  <2>4. Step(Publisher, Idle)
    BY <1>0, <1>2 DEF Step, PublishBump, Finish
  <2> QED BY <1>0, <2>3, <2>4, StepKeeps
<1>3. CASE PublisherCrash
  <2>1. RedisStep(Publisher)
    BY <1>0, <1>3, QuietRedis DEF PublisherCrash
  <2>2. Step(Publisher, Idle)
    BY <1>0, <1>3 DEF Step, PublisherCrash, Finish
  <2> QED BY <1>0, <2>1, <2>2, StepKeeps
<1> QED BY <1>1, <1>2, <1>3

\* A step that starts or commits a write or a publish: Redis stays, the slot s
\* goes on to r, which neither stores nor lists anything.
LEMMA RowStep ==
    ASSUME CacheInv, NEW s \in Slots, NEW r \in Request, req' = [req EXCEPT ![s] = r],
           r.pc \in {"idle", "drop", "publishDrop"},
           r.pc = "drop" => \A u \in Slots : ~HoldsRow(u),
           r.pc = "publishDrop" => s = Publisher /\ log' = Append(log, "published"),
           \/ log' = log
           \/ \E status \in {"published", "archived"} : log' = Append(log, status)
           \/ log' = Append(log, Last(log)),
           LogBounded', writes' \in 0 .. MaxWrites,
           UNCHANGED <<age, redis, lost, published>>
    PROVE  CacheInv'
<1> USE DEF CacheInv
<1>1. /\ req' \in [Slots -> Request] /\ req'[s] = r
      /\ \A u \in Slots \ {s} : req'[u] = req[u]
  BY SlotStep
<1>2. /\ Len(log) \in Nat \ {0} /\ Last(log) = log[Len(log)]
      /\ log \in Seq({"draft", "published", "archived"})
      /\ \A i \in 1 .. Len(log) : log[i] \in {"draft", "published", "archived"}
  BY LastVersion DEF TypeOK
<1>3. /\ log' \in Seq({"draft", "published", "archived"}) /\ Len(log') \in Nat \ {0}
      /\ Len(log') \in {Len(log), Len(log) + 1}
      /\ \A i \in 1 .. Len(log) : log'[i] = log[i]
      /\ log[Len(log)] # "draft" => log'[Len(log')] # "draft"
      /\ log' = Append(log, "published") => log'[Len(log')] # "draft"
  <2>1. ASSUME NEW status \in {"draft", "published", "archived"}, log' = Append(log, status)
        PROVE  /\ log' \in Seq({"draft", "published", "archived"})
               /\ Len(log') = Len(log) + 1 /\ log'[Len(log')] = status
               /\ \A i \in 1 .. Len(log) : log'[i] = log[i]
    BY <1>2, <2>1
  <2>2. CASE log' = log
    <3>1. log # Append(log, "published")
      BY <1>2
    <3> QED BY <1>2, <2>2, <3>1
  <2>3. CASE \E status \in {"published", "archived"} : log' = Append(log, status)
    <3>1. PICK status \in {"published", "archived"} : log' = Append(log, status)
      BY <2>3
    <3>2. Len(log') = Len(log) + 1 /\ log'[Len(log')] = status
      BY <2>1, <3>1
    <3> QED BY <1>2, <2>1, <3>1, <3>2
  <2>4. CASE log' = Append(log, Last(log))
    <3>1. Len(log') = Len(log) + 1 /\ log'[Len(log')] = log[Len(log)]
      BY <1>2, <2>1, <2>4
    <3>2. log' = Append(log, "published") => log'[Len(log')] = "published"
      BY <2>1
    <3> QED BY <1>2, <2>1, <2>4, <3>1, <3>2
  <2> QED BY <2>2, <2>3, <2>4
<1>4. TypeOK'
  BY <1>1, <1>3 DEF TypeOK
<1>5. AgesBounded'
  <2>1. \A v \in Versions : v >= Len(log') => v >= Len(log) /\ age'[v] = 0
    <3>1. \A v \in Versions : v \in Nat
      BY Ticks DEF Versions
    <3> QED BY <1>2, <1>3, <3>1 DEF AgesBounded
  <2>2. 1 .. Len(log) \subseteq 1 .. Len(log')
    BY <1>2, <1>3
  <2>3. \A u \in Slots : req'[u].pc \in {"store", "storePage"} =>
            req'[u].version \in 1 .. Len(log') /\ age'[req'[u].version] <= req'[u].age
    BY <1>1, <2>2 DEF AgesBounded
  <2>4. redis'.detail # Absent =>
            /\ redis'.detail.version \in 1 .. Len(log')
            /\ age'[redis'.detail.version] + redis'.detail.left <= DetailTTL + MaxRequestTicks
    BY <2>2 DEF AgesBounded
  <2>5. \A g \in Generations : redis'.pages[g] # Absent =>
            /\ redis'.pages[g].version \in 1 .. Len(log')
            /\ age'[redis'.pages[g].version] + redis'.pages[g].left <= CatalogTTL + MaxRequestTicks
    BY <2>2 DEF AgesBounded
  <2> QED BY <2>1, <2>3, <2>4, <2>5 DEF AgesBounded
<1>6. GenerationsBehind'
  BY <1>1 DEF GenerationsBehind
<1>7. PublishedStays'
  <2>1. req'[Publisher].pc \in {"publishDrop", "publishBump"} \/ published' > 0 =>
            log'[Len(log')] # "draft"
    BY <1>1, <1>3 DEF PublishedStays, Slots
  <2>2. ASSUME published > 0, NEW u \in Slots, req'[u].pc = "storePage", req'[u].gen >= published
        PROVE  log'[req'[u].version] # "draft"
    <3>1. req'[u] = req[u]
      BY <1>1, <2>2
    <3>2. req[u].version \in 1 .. Len(log) /\ log[req[u].version] # "draft"
      BY <2>2, <3>1 DEF PublishedStays, AgesBounded
    <3> QED BY <1>3, <3>1, <3>2
  <2>3. ASSUME published > 0, NEW g \in published .. MaxWrites + 1, redis.pages[g] # Absent
        PROVE  log'[redis.pages[g].version] # "draft"
    <3>1. g \in Generations
      BY <2>3, Ticks DEF TypeOK, Generations
    <3>2. redis.pages[g].version \in 1 .. Len(log) /\ log[redis.pages[g].version] # "draft"
      BY <2>3, <3>1 DEF PublishedStays, PublishedAppears, AgesBounded
    <3> QED BY <1>3, <3>2
  <2> QED BY <2>1, <2>2, <2>3 DEF PublishedStays, PublishedAppears
<1> QED BY <1>4, <1>5, <1>6, <1>7

\* The bound of the log, with its cases spelled out.
LEMMA LogRoom ==
    ASSUME TypeOK, LogBounded
    PROVE  /\ Len(log) \in Nat \ {0} /\ writes \in Nat
           /\ Len(log) <= writes + 2
           /\ (\E s \in Slots : HoldsRow(s)) => Len(log) + 1 <= writes + 2
           /\ log[Len(log)] = "draft" => Len(log) + 1 <= writes + 2
           /\ (\E s \in Slots : HoldsRow(s)) /\ log[Len(log)] = "draft" =>
                 Len(log) + 2 <= writes + 2
<1> DEFINE open == IF \E s \in Slots : HoldsRow(s) THEN 1 ELSE 0
           draft == IF log[Len(log)] = "draft" THEN 1 ELSE 0
<1>1. Len(log) \in Nat \ {0} /\ writes \in Nat
  BY LastVersion, Ticks DEF TypeOK
<1>2. /\ open \in {0, 1} /\ ((\E s \in Slots : HoldsRow(s)) => open = 1)
      /\ draft \in {0, 1} /\ (log[Len(log)] = "draft" => draft = 1)
      /\ Len(log) + open + draft <= writes + 2
  BY DEF LogBounded
<1> HIDE DEF open, draft
<1> QED BY <1>1, <1>2

\* A write starts: the row is locked, and there is room for one version more.
LEMMA StartKeeps ==
    ASSUME CacheInv, NEW s \in Slots, StartWrite(s)
    PROVE  CacheInv'
<1>0. TypeOK /\ LogBounded
  BY DEF CacheInv
<1>1. PICK archives \in BOOLEAN : Become(s, [pc |-> "drop", age |-> 0, archives |-> archives])
  BY DEF StartWrite
<1> DEFINE r == [pc |-> "drop", age |-> 0, archives |-> archives]
<1>2. r \in Request /\ r.pc = "drop"
  BY Ticks DEF Request, Ages
<1> HIDE DEF r
<1>3. req' = [req EXCEPT ![s] = r] /\ \A u \in Slots : ~HoldsRow(u)
      /\ writes' = writes + 1 /\ writes < MaxWrites
      /\ UNCHANGED <<log, age, redis, lost, published>>
  BY <1>1 DEF StartWrite, Become, r
<1>4. /\ req'[s] = r /\ \A u \in Slots \ {s} : req'[u] = req[u]
  BY <1>0, <1>2, <1>3, SlotStep
<1>5. writes' \in 0 .. MaxWrites
  BY <1>0, <1>3, Ticks, LogRoom
<1>6. LogBounded'
  <2>1. \A u \in Slots : HoldsRow(u)' => u = s
    BY <1>3, <1>4 DEF HoldsRow
  <2> DEFINE open == IF \E u \in Slots : HoldsRow(u) THEN 1 ELSE 0
             draft == IF log[Len(log)] = "draft" THEN 1 ELSE 0
  <2>2. open' \in {0, 1} /\ draft' = draft /\ draft \in {0, 1}
    BY <1>3
  <2>3. Len(log) + draft <= writes + 2 /\ Len(log) \in Nat /\ writes \in Nat
    BY <1>0, LogRoom
  <2>4. Len(log') + open' + draft' <= writes' + 2
    <3> HIDE DEF open, draft
    <3> QED BY <1>3, <2>2, <2>3
  <2> QED BY <2>1, <2>4 DEF LogBounded
<1> QED BY <1>2, <1>3, <1>5, <1>6, RowStep

\* A write or the publish activity commits.
LEMMA CommitKeeps ==
    ASSUME CacheInv, (\E s \in Slots : CommitWrite(s)) \/ PublishCommit
    PROVE  CacheInv'
<1>0. TypeOK /\ LogBounded /\ Len(log) \in Nat \ {0} /\ writes \in Nat
      /\ log \in Seq({"draft", "published", "archived"}) /\ Last(log) = log[Len(log)]
      /\ writes \in 0 .. MaxWrites
  BY LastVersion, LogRoom DEF CacheInv, TypeOK
<1>1. ASSUME NEW s \in Slots, CommitWrite(s) PROVE CacheInv'
  <2>1. Idle \in Request /\ Idle.pc = "idle"
    BY Ticks DEF Idle, Request, Ages
  <2>2. /\ HoldsRow(s) /\ req' = [req EXCEPT ![s] = Idle]
        /\ log' = Append(log, "archived") \/ log' = Append(log, Last(log))
        /\ UNCHANGED <<age, redis, writes, lost, published>>
    BY <1>1 DEF CommitWrite, Finish, Committed, HoldsRow
  <2>3. req'[s] = Idle /\ \A u \in Slots \ {s} : req'[u] = req[u]
    BY <1>0, <2>1, <2>2, SlotStep
  <2>4. \A u \in Slots : ~HoldsRow(u)'
    BY <1>0, <2>1, <2>2, <2>3 DEF HoldsRow, LogBounded
  <2>5. Len(log') = Len(log) + 1 /\ (log'[Len(log')] = "draft" => log[Len(log)] = "draft")
    BY <1>0, <2>2
  <2>6. LogBounded'
    <3> DEFINE draft == IF log[Len(log)] = "draft" THEN 1 ELSE 0
    <3>1. draft' \in {0, 1} /\ (draft' = 1 => log[Len(log)] = "draft")
      BY <2>5
    <3>2. Len(log') + draft' <= writes' + 2
      <4> HIDE DEF draft
      <4> QED BY <1>0, <2>2, <2>5, <3>1, LogRoom
    <3> QED BY <2>4, <3>2, <1>0, <2>5 DEF LogBounded
  <2> QED BY <1>0, <2>1, <2>2, <2>6, RowStep
<1>2. CASE PublishCommit
  <2> DEFINE r == [pc |-> "publishDrop", age |-> 0]
  <2>1. r \in Request /\ r.pc = "publishDrop" /\ Publisher \in Slots
    BY Ticks DEF Request, Ages, Slots
  <2> HIDE DEF r
  <2>2. /\ log[Len(log)] = "draft" /\ \A u \in Slots : ~HoldsRow(u)
        /\ req' = [req EXCEPT ![Publisher] = r] /\ log' = Append(log, "published")
        /\ UNCHANGED <<age, redis, writes, lost, published>>
    BY <1>0, <1>2 DEF PublishCommit, Start, Become, Committed, r
  <2>3. req'[Publisher] = r /\ \A u \in Slots \ {Publisher} : req'[u] = req[u]
    BY <1>0, <2>1, <2>2, SlotStep
  <2>4. \A u \in Slots : ~HoldsRow(u)'
    BY <2>1, <2>2, <2>3 DEF HoldsRow
  <2>5. Len(log') = Len(log) + 1 /\ log'[Len(log')] # "draft"
    BY <1>0, <2>2
  <2>6. LogBounded'
    <3>1. Len(log') <= writes' + 2
      BY <1>0, <2>2, <2>5, LogRoom
    <3> QED BY <1>0, <2>2, <2>4, <2>5, <3>1 DEF LogBounded
  <2> QED BY <1>0, <2>1, <2>2, <2>6, RowStep
<1> QED BY <1>1, <1>2

\* Redis restarts: nothing is cached, and nothing is known to be published.
LEMMA RestartKeeps ==
    ASSUME CacheInv, RedisRestart
    PROVE  CacheInv'
<1> USE DEF CacheInv
<1>1. redis' = Empty /\ lost' = TRUE /\ published' = 0 /\ UNCHANGED <<log, age, req, writes>>
  BY DEF RedisRestart
<1>2. Empty \in [detail : Entries, gen : Nat, pages : [Generations -> Entries]]
      /\ Empty.detail = Absent /\ \A g \in Generations : Empty.pages[g] = Absent
  BY DEF Empty, Entries, Absent
<1>3. TypeOK' /\ LogBounded'
  BY <1>1, <1>2 DEF TypeOK, LogBounded, HoldsRow
<1>4. AgesBounded'
  BY <1>1, <1>2 DEF AgesBounded
<1>5. GenerationsBehind' /\ PublishedStays'
  BY <1>1, <1>2 DEF GenerationsBehind, PublishedStays, PublishedAppears
<1> QED BY <1>3, <1>4, <1>5

\* A request a tick later.
LEMMA OlderRequest ==
    ASSUME NEW r \in Request, r.age < MaxRequestTicks
    PROVE  LET q == [r EXCEPT !.age = @ + 1]
           IN  /\ q \in Request /\ q.pc = r.pc /\ q.age = r.age + 1
               /\ r.pc \in {"page", "list", "storePage"} => q.gen = r.gen
               /\ r.pc \in {"store", "storePage"} => q.version = r.version
<1>1. r.age + 1 \in Ages
  BY RequestFields, Ticks DEF Ages
<1> QED BY <1>1 DEF Request

\* An entry a tick later is gone, or the same with a tick less left.
LEMMA OlderEntry ==
    ASSUME NEW entry \in Entries
    PROVE  /\ Older(entry) \in Entries
           /\ \/ Older(entry) = Absent
              \/ /\ entry # Absent /\ entry.left \in Nat
                 /\ Older(entry).version = entry.version
                 /\ Older(entry).left = entry.left - 1
  BY DEF Older, Entries, Absent

\* Time passes: whatever ages, the request that has read it or its entry in the
\* cache does too.
LEMMA TickKeeps ==
    ASSUME CacheInv, Tick
    PROVE  CacheInv'
<1> USE DEF CacheInv
<1>0. /\ Len(log) \in Nat \ {0} /\ Len(log) \in Versions
      /\ \A s \in Slots : req[s] \in Request /\ req[s].age < MaxRequestTicks
      /\ \A v \in 1 .. Len(log) : v \in Versions
      /\ \A v \in Versions : v \in Nat /\ age[v] \in Nat
  BY LastVersion, Ticks DEF TypeOK, Tick, Versions
<1>1. /\ UNCHANGED <<log, writes, lost, published>>
      /\ redis' = [redis EXCEPT !.detail = Older(@),
                                !.pages = [g \in Generations |-> Older(@[g])]]
  BY DEF Tick
<1>2. ASSUME NEW s \in Slots
      PROVE  /\ req'[s] \in Request /\ req'[s].pc = req[s].pc
             /\ req[s].pc # "idle" => req'[s].age = req[s].age + 1
             /\ req[s].pc \in {"page", "list", "storePage"} => req'[s].gen = req[s].gen
             /\ req[s].pc \in {"store", "storePage"} => req'[s].version = req[s].version
  <2>1. req'[s] = IF req[s] = Idle THEN Idle ELSE [req[s] EXCEPT !.age = @ + 1]
    BY DEF Tick
  <2>2. CASE req[s] = Idle
    BY <1>0, <2>1, <2>2 DEF Idle
  <2>3. CASE req[s] # Idle
    BY <1>0, <2>1, <2>3, OlderRequest
  <2> QED BY <2>2, <2>3
<1>3. /\ age' \in [Versions -> Nat]
      /\ \A v \in Versions : /\ v >= Len(log) => age'[v] = age[v]
                            /\ age'[v] <= age[v] + 1
  BY <1>0 DEF Tick, TypeOK
<1>4. /\ redis' \in [detail : Entries, gen : Nat, pages : [Generations -> Entries]]
      /\ redis'.gen = redis.gen /\ redis'.detail = Older(redis.detail)
      /\ \A g \in Generations : redis'.pages[g] = Older(redis.pages[g])
      /\ redis.detail \in Entries /\ \A g \in Generations : redis.pages[g] \in Entries
  <2> DEFINE pages == [g \in Generations |-> Older(redis.pages[g])]
  <2>1. redis \in [detail : Entries, gen : Nat, pages : [Generations -> Entries]]
    BY DEF TypeOK
  <2>2. Older(redis.detail) \in Entries /\ pages \in [Generations -> Entries]
    BY <2>1, OlderEntry
  <2>3. redis' = [redis EXCEPT !.detail = Older(redis.detail), !.pages = pages]
    BY <1>1
  <2>4. \A g \in Generations : pages[g] = Older(redis.pages[g])
    OBVIOUS
  <2> HIDE DEF pages
  <2> QED BY <2>1, <2>2, <2>3, <2>4
<1>5. TypeOK'
  <2>1. req' \in [Slots -> Request]
    BY <1>2 DEF Tick
  <2> QED BY <1>1, <1>3, <1>4, <2>1 DEF TypeOK
<1>6. LogBounded'
  <2>1. \A s \in Slots : HoldsRow(s)' <=> HoldsRow(s)
    BY <1>2 DEF HoldsRow
  <2> QED BY <1>1, <2>1 DEF LogBounded
<1>7. AgesBounded'
  <2>1. \A v \in Versions : v >= Len(log') => age'[v] = 0
    BY <1>1, <1>3 DEF AgesBounded
  <2>2. ASSUME NEW s \in Slots, req'[s].pc \in {"store", "storePage"}
        PROVE  req'[s].version \in 1 .. Len(log') /\ age'[req'[s].version] <= req'[s].age
    <3>1. /\ req[s].version \in 1 .. Len(log) /\ age[req[s].version] <= req[s].age
          /\ req'[s].version = req[s].version /\ req'[s].age = req[s].age + 1
      BY <1>2, <2>2 DEF AgesBounded
    <3>2. req[s].age \in Nat /\ req[s].version \in Versions
      BY <1>0, <3>1, RequestFields, Ticks DEF Ages
    <3>3. age'[req[s].version] <= age[req[s].version] + 1 /\ age[req[s].version] \in Nat
          /\ age'[req[s].version] \in Nat
      BY <1>0, <1>3, <3>2
    <3> QED BY <1>1, <3>1, <3>2, <3>3
  <2>3. ASSUME NEW entry \in Entries, NEW ttl \in Nat, Older(entry) # Absent,
               entry # Absent => /\ entry.version \in 1 .. Len(log)
                                 /\ age[entry.version] + entry.left <= ttl + MaxRequestTicks
        PROVE  /\ Older(entry).version \in 1 .. Len(log)
               /\ age'[Older(entry).version] + Older(entry).left <= ttl + MaxRequestTicks
    <3>1. /\ entry # Absent /\ entry.left \in Nat
          /\ Older(entry).version = entry.version /\ Older(entry).left = entry.left - 1
      BY <2>3, OlderEntry
    <3>2. entry.version \in Versions /\ entry.version \in 1 .. Len(log)
      BY <1>0, <2>3, <3>1
    <3>3. age'[entry.version] <= age[entry.version] + 1 /\ age[entry.version] \in Nat
          /\ age'[entry.version] \in Nat
      BY <1>0, <1>3, <3>2
    <3> QED BY <2>3, <3>1, <3>2, <3>3, Ticks
  <2>4. redis'.detail # Absent =>
            /\ redis'.detail.version \in 1 .. Len(log')
            /\ age'[redis'.detail.version] + redis'.detail.left <= DetailTTL + MaxRequestTicks
    BY <1>1, <1>4, <2>3, Ticks DEF AgesBounded
  <2>5. \A g \in Generations : redis'.pages[g] # Absent =>
            /\ redis'.pages[g].version \in 1 .. Len(log')
            /\ age'[redis'.pages[g].version] + redis'.pages[g].left <= CatalogTTL + MaxRequestTicks
    BY <1>1, <1>4, <2>3, Ticks DEF AgesBounded
  <2> QED BY <2>1, <2>2, <2>4, <2>5 DEF AgesBounded
<1>8. Older(Absent) = Absent
  BY DEF Older, Absent
<1>9. GenerationsBehind'
  BY <1>1, <1>2, <1>4, <1>8 DEF GenerationsBehind
<1>10. PublishedStays'
  <2>1. ASSUME published > 0, NEW g \in published .. MaxWrites + 1, redis'.pages[g] # Absent
        PROVE  log[redis'.pages[g].version] # "draft"
    <3>1. g \in Generations
      BY <2>1, Ticks DEF TypeOK, Generations
    <3>2. redis'.pages[g].version = redis.pages[g].version /\ redis.pages[g] # Absent
      BY <1>4, <2>1, <3>1, OlderEntry
    <3> QED BY <2>1, <3>2 DEF PublishedStays, PublishedAppears
  <2>2. \A s \in Slots : req'[s].pc = "storePage" =>
            req[s].pc = "storePage" /\ req'[s].gen = req[s].gen /\ req'[s].version = req[s].version
    BY <1>2
  <2> QED BY <1>1, <1>2, <2>1, <2>2 DEF PublishedStays, PublishedAppears, Slots
<1> QED BY <1>5, <1>6, <1>7, <1>9, <1>10

\* The initial states satisfy the invariant.
LEMMA CacheInit == Init => CacheInv
<1> SUFFICES ASSUME Init PROVE CacheInv
  OBVIOUS
<1>1. /\ log = <<"draft">> /\ Len(log) = 1 /\ log[1] = "draft" /\ writes = 0 /\ published = 0
      /\ redis = Empty /\ lost = FALSE
      /\ \A s \in Slots : req[s] = Idle
  BY DEF Init
<1>2. Empty \in [detail : Entries, gen : Nat, pages : [Generations -> Entries]]
      /\ Empty.detail = Absent /\ \A g \in Generations : Empty.pages[g] = Absent
  BY DEF Empty, Entries, Absent
<1>3. Idle \in Request /\ Idle.pc = "idle"
  BY Ticks DEF Idle, Request, Ages
<1>4. TypeOK
  <2>1. <<"draft">> \in Seq({"draft", "published", "archived"})
    OBVIOUS
  <2>2. age \in [Versions -> Nat]
    BY DEF Init
  <2>3. req = [s \in Slots |-> Idle]
    BY DEF Init
  <2>4. req \in [Slots -> Request]
    BY <1>3, <2>3
  <2>5. writes \in 0 .. MaxWrites /\ published \in Nat /\ lost \in BOOLEAN
    <3>1. MaxWrites \in Nat
      BY Ticks
    <3>2. 0 \in 0 .. MaxWrites
      BY <3>1
    <3> QED BY <1>1, <3>2
  <2>6. log \in Seq({"draft", "published", "archived"}) /\ Len(log) > 0
    BY <1>1, <2>1
  <2>7. redis \in [detail : Entries, gen : Nat, pages : [Generations -> Entries]]
    BY <1>1, <1>2
  <2> QED BY <2>2, <2>4, <2>5, <2>6, <2>7 DEF TypeOK
<1>5. LogBounded
  BY <1>1, <1>3 DEF LogBounded, HoldsRow
<1>6. AgesBounded
  BY <1>1, <1>2, <1>3 DEF Init, AgesBounded
<1>7. GenerationsBehind /\ PublishedStays
  BY <1>1, <1>2, <1>3 DEF GenerationsBehind, PublishedStays, PublishedAppears, Slots
<1> QED BY <1>4, <1>5, <1>6, <1>7 DEF CacheInv

\* Every step keeps it.
LEMMA CacheNext == CacheInv /\ [Next]_vars => CacheInv'
<1> SUFFICES ASSUME CacheInv, [Next]_vars PROVE CacheInv'
  OBVIOUS
<1>1. ASSUME NEW s \in ApiSlots, Api(s) PROVE CacheInv'
  <2>1. s \in Slots
    BY DEF Slots
  <2> QED BY <1>1, <2>1, DetailKeeps, CatalogKeeps, WriteKeeps, StartKeeps, CommitKeeps DEF Api
<1>2. CASE UNCHANGED vars
  <2>1. UNCHANGED <<log, age, redis, req, writes, lost, published>>
    BY <1>2 DEF vars
  <2> QED BY <2>1 DEF CacheInv, TypeOK, LogBounded, HoldsRow, AgesBounded, GenerationsBehind,
                      PublishedStays, PublishedAppears
<1> QED BY <1>1, <1>2, PublishKeeps, CommitKeeps, TickKeeps, RestartKeeps DEF Next

\* The invariant holds in every reachable state.
THEOREM CacheInvariance == Spec => []CacheInv
<1> QED BY CacheInit, CacheNext, PTL DEF Spec

\* What the cache holds is stale by one TTL and one request at most, however its
\* invalidation fails, is skipped in a cooldown or overtaken by a slow reader.
THEOREM StalenessIsBounded == Spec => []BoundedStaleness
<1>1. CacheInv => BoundedStaleness
  <2> SUFFICES ASSUME CacheInv PROVE BoundedStaleness
    OBVIOUS
  <2>1. ASSUME NEW entry \in Entries, NEW ttl \in Nat, entry.version \in 1 .. Len(log),
               age[entry.version] + entry.left <= ttl + MaxRequestTicks
        PROVE  age[entry.version] <= ttl + MaxRequestTicks
    <3>1. Len(log) \in Versions
      BY LastVersion DEF CacheInv
    <3>2. entry.version \in Versions
      BY <2>1, <3>1, Ticks DEF Versions
    <3>3. age[entry.version] \in Nat /\ entry.left \in Nat
      BY <3>2 DEF CacheInv, TypeOK, Entries
    <3> QED BY <2>1, <3>3, Ticks
  <2>2. redis.detail \in Entries /\ \A g \in Generations : redis.pages[g] \in Entries
    BY DEF CacheInv, TypeOK
  <2> QED BY <2>1, <2>2, Ticks DEF CacheInv, AgesBounded, BoundedStaleness
<1> QED BY <1>1, CacheInvariance, PTL

\* Once the publish activity has rolled the generation forward, every page of it
\* or of a later one lists the course, whatever was read before and stored after.
THEOREM PublishedIsListed == Spec => []PublishedAppears
<1>1. CacheInv => PublishedAppears
  BY DEF CacheInv, PublishedStays
<1> QED BY <1>1, CacheInvariance, PTL
=============================================================================
