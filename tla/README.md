# A TLA+ model of be-dashboard-mp

`be-dashboard-mp` is the analytics service behind a sales dashboard: a Go
process (fiber) that answers eight POST/GET endpoints from one Postgres table,
`marts_ecommerce`, which an ETL refreshes every day. Most of its own logic is
in how it avoids asking Postgres: two caches, a coalescing of concurrent
loaders, and a webhook that empties the caches after a refresh. The rest
builds SQL, fans queries out over a connection pool and puts the rows together.

These modules state what that code does when requests, expiries, failures,
restarts and refreshes interleave, and what can be relied on. `PROJECT.json`
maps each definition to the lines it was translated from.

## 1. Inventory

| Part | Source | State it keeps | Operations | Modules |
|---|---|---|---|---|
| L1 cache | `database/cache.go` SimpleCache | a map key -> (value, expiresAt), a lock | Get, SetWithTTL, Invalidate, janitor | ReadThrough, StalenessClock |
| Read-through | `database/cache.go` CachedTTL, `queries/cache_layer.go` | `sfGroup`, the flights | L1, L2, loader, the two stores | ReadThrough, Coalescing, CacheContract, Contract |
| L2 cache and its health | `database/redis.go` | `RedisClient`, `redisAlive`; Redis itself, SETs on their way to it | InitRedis, redisHealthLoop, GET, SET, SCAN + DEL | RedisLink, Startup, ReadThrough |
| Invalidation webhook | `handlers/health.go`, `cache.go`, `redis.go` | of each call: its place in the scan, a batch of keys | InvalidateAll, RedisInvalidatePrefix | ReadThrough, Invalidation |
| Selections and keys | `models/analytics.go`, `queries/metrik.go` | - | Clean, cleanMulti, cacheKey, the key of the options | Filters |
| SQL filters | `queries/metrik.go` | the counter, text and arguments being built | buildFilterClausesExt, the logistics search, the scoped options | Filters |
| Compared periods | `queries/metrik.go` | - | shiftToPrevMonth, getPreviousMonthRange, getPeriodRanges | Periods |
| Column introspection | `queries/metrik.go` | `martsColumnCache`, a lock | getMartsColumns, pickStatusColumn, pickGeoColumn | MartsColumns |
| Sales dashboard | `queries/sales_performance.go` | per call: WaitGroup, mutex, ten variables; shared: the connection pool | eight goroutines, second queries, fallbacks; breakdowns, provinces | FanOut, Reports |
| Dropdown options | `queries/metrik.go` | the same, seven lists | seven goroutines | FanOut |
| Boot and seeding | `main.go`, `database/seeder.go`, `database/postgres.go` | the users table | InitDB, InitRedis, SeedUsers, then serving | SeedUsers, RedisLink, Startup |
| Daily summary | `queries/metrik.go` GetRingkasanHarian | per call: total, channels, two stores | three queries one after the other | Reports |
| Other loaders (metrics, trend, ranking, logistics, leaderboard) | `queries/*.go` | - | one query each | their periods, filters and columns only |
| Geography | `queries/geo_standardization.go` | lookup tables | resolveProvinsi | Reports (the lookups; tables as constants) |
| Routes, middleware, login, health | `main.go`, `handlers/*.go` | - | - | not modelled |

How they interact: a route parses and normalises the filter, derives a cache
key from it, and calls CachedTTL with a loader. CachedTTL tries L1, then Redis
if it is thought available, then joins or leads a flight for the key; the leader
runs the loader (which builds its SQL with the filters, the periods and the
columns, and may fan out over the pool), stores the answer in both caches and
lands. The health loop flips the flag that every Redis call reads first. The
webhook empties L1 and then deletes the Redis keys of the seven families. The
ETL changes the table at any time and calls the webhook afterwards; nothing keeps
two calls of it from overlapping. At boot an instance connects to Postgres (or
exits), tries Redis once, seeds the users and then serves. Several instances
share one Postgres and one Redis, each with an L1 of its own.

What is hard in it:

- *two critical sections where one is meant*: `Get` checks and deletes apart;
  CachedTTL misses before the flight and does not look again inside it;
- *stale writes*: a loader, or a hit in Redis, that is under way when the caches
  are emptied puts an old answer back; so does a SET that reaches Redis after its
  client gave up on it, or a loader of another process;
- *ignored failures*: DEL, SCAN, SET, rows.Err, a section of a dashboard, the
  introspection; each leaves a state that lasts;
- *shared limits*: goroutines of several calls over one pool of connections;
- *queries without a transaction*: a refresh comes between two queries whose
  results are shown together;
- *several instances* and restarts against one database, without transactions;
- *names that are nearly the same*: padded, capital, with or without a prefix,
  and keys that are formatted from them;
- *boundaries*: ends of months, the last batch of a scan, placeholder numbers, the
  eighth row of a breakdown, a sum that is not positive.

`PROJECT.json` lists each of these under `hazards`, at its line, with the
properties that cover it or the reason why none does yet.

## 2. Modules and the code they model

**ReadThrough** is the core. State: `warehouse` (the version of the table),
`l1`/`expired` (SimpleCache.store and which entries are past expiresAt), `l2`
(Redis), `wire` (SETs on their way to it), `redis` (client and flag: nil, down,
up), `flight` (sfGroup), `pc`, `key`, `held` of each request goroutine, and
`ivPos`, `ivScan`, `ivBatch` of each running InvalidateAll. One action per critical section or call of CachedTTL:

| Action | Code |
|---|---|
| L1Hit, L1Miss, L1Evict | SimpleCache.Get, its two critical sections (cache.go:34-48) |
| L2Hit, L2Miss | RedisGetJSON; an error is a miss (cache.go:123, redis.go:136-150) |
| Fill | SetWithTTL of what Redis had (cache.go:124) |
| Lead, Follow | sfGroup.Do (cache.go:128) |
| Load, LoadFail, SetL1, SetL2 | the function the flight runs (cache.go:129-135, redis.go:152-166) |
| Land | Do returns, for the leader and everyone who waited |
| InvalidateL1, ScanOpen, ScanVisit, ScanClose, InvalidateReturn | InvalidateAll, RedisInvalidatePrefix with its batches |
| LateSet | a SET the client gave up on (redis.go:163) is applied, or lost |
| PeerSet | a loader of another process has read the warehouse and will set the key |
| L1Expire, L2Expire, Janitor, HealthCheck, Refresh, Restart | the clock, redisHealthLoop, the ETL, a crash |

A payload is abstracted to the version of the warehouse its loader read (for a
loader with several queries, the oldest of them). Expiry is a step that may
happen at any moment, which allows more than any TTL does. A failed GET or DEL
is a step without effect on Redis; a failed SET has none, or has it later, for the
client retries and its timeout does not call the command back. Of another process
only what it does to the shared Redis is seen.

**Invalidation** extends it with history, for each call of the webhook:
`mark` is the version when it began, `quiet` the keys nothing has interfered with
since (no value of the key in a goroutine's hands or on its way to Redis when L1
was emptied, no hit in Redis before the deletion, no failed or skipped DEL).
`floor` is the version below which no copy of a key may exist after an
invalidation returned, `due` the floor a request met on arrival. What the webhook
does *not* achieve is thereby explicit.

**Coalescing** extends it with one history variable, for the claim of
cache.go:102-103. **CacheContract** is what the cache promises with no caches
in it: a set of copies per key, each made of the data as it was at that moment,
and answers that are copies or errors. **Contract** instantiates it with the
refinement mapping: a copy is an L1 entry, a Redis entry, a SET on its way or a
value in hand.

**StalenessClock** is one key with the clock ReadThrough leaves out: each entry
has the age of its data and the time it has left, and `Tick` moves them all.
Counting from events instead of from the epoch keeps the state space finite
without a bound on time. Several processes (`Instances`) have an L1 each and one
Redis; `wire` is as in ReadThrough. It leaves out the flights, failures and
invalidations, none of which makes an answer older; any number of loaders may
run. `Hold` bounds how long a goroutine keeps a value before it stores it, `Delay`
how late a SET may arrive; without such bounds no age could be promised.

**RedisLink** has the server, the client, the flag, the loop between its ping
and its store, and requests between the gate and their call: the link
that ReadThrough reduces to one variable. **SeedUsers** has instances that each
run InitDB and SeedUsers statement by statement against one database. CREATE
TABLE IF NOT EXISTS is two steps, as in Postgres. Several instances are what
`render.yaml` (autoDeploy starts the new one beside the old), `railway.json`
(restart on failure) and the probe of HandleHealth ("load balancer / probe k8s")
provide for. A statement under way when its session is lost may still be carried
out, at any later time: `wire` holds those, and `Land` carries one out. `trouble`
is a history variable: whether a statement has failed or an instance has died so
far.

**Startup** composes the two in main's order: InitDB, InitRedis, SeedUsers,
serving. It looks at the link of one instance, which exists from its InitRedis to
its death, and lets only an instance that serves have requests.

**FanOut** has several concurrent calls of the two loaders that start
goroutines: the WaitGroup, the pool, each goroutine's place and which of its
queries it is at, its result and the answer, with refreshes of the table between
any two queries. `from` records what a section shows (its rows, the word that
there are none, a total) and the version each of these was read from.
Sections with one query are interchangeable ("plain"), except that those by place
(`Geo`) may first have to ask for the columns of the table; hero products and the
new-product series have their second and third queries and their fallbacks. Rows
are abstracted to which query they are from.

**MartsColumns** has the cached map and requests that each make several picks,
every one of which looks the map up again. The introspection is asked for a table
*name*, in whatever schema, and answers in lower case: `Own` are the columns of the
table the SQL will find, `Others` those of its namesakes, each with a flag for
capitals. So what is listed (`Listed`) is not what an unquoted name in the SQL
finds (`Usable`). `lost` is a history variable: whether an introspection has
failed or lost rows so far.

**Reports** has what three loaders compute from their rows, which come one at a
time, in any order the query allows: the bars of a breakdown and its "Lainnya", the
omset per province, and the daily summary with its three queries. `marts` is what
each group of rows of the table adds up to, one group for each name *as it is
stored*: with or without spaces around it, in capitals, blank; the SQL that trims
and groups them is an operator per query. Channels are stored in as many ways: they
are grouped by the name as stored and shown trimmed, and the filter compares the
stored name in lower case but not trimmed, so it misses the padded ones (`Matches`).
`left` is a history variable: the channels the HAVING of their query left out. Place names are a name and whether a
prefix or a dash has to come off it; the tables of geo_standardization.go are
constants. Amounts are integers: the rounding of float64 is left out.

**Periods** and **Filters** are algorithms: the operators are the code's
functions, under the code's names. In Periods the state only walks through the
inputs. In Filters it follows one request: the values sent for a column, the
normalised values that go into the key, and the query being built from them. A
value is a word with its place in the alphabet, maybe capitalised, maybe padded;
the LIKE patterns of the channel are words like the others. `Written` says which
parts a name is made of, for the key of the options, where `%v` puts spaces
between the values of a list and within them alike, and brackets around the list.

Operators marked "Seeded fault" are not used by any specification. Each is a
plausible bug in the operator that follows it; `PROJECT.json` (`mutants`) says
which property detects it when it takes that operator's place.

## 3. Runs

Each cfg is named after its run. "k" is thousand states, "M" a million.

| Run | Instance | States | Shows |
|---|---|---|---|
| Contract | 2 requests, 1 key, 1 webhook, batch of 1, 1 refresh, all faults, other processes | 140 k | errors never cached; one loader per key; no waiter without a flight; ReadThrough implements CacheContract; every request answered, the webhook returns |
| Invalidation_quiet | 2 requests, 1 key, 2 webhooks, batch of 2, all faults, other processes, symmetry | 2.5 M | what overlapping invalidations achieve for keys they are not raced on |
| StalenessClock_age | 2 requests on 2 instances, TTL 2, Hold 1, Delay 1 | 4.0 M | age at most 2 TTL + 2 Hold + Delay |
| FanOut | 1 dashboard and 1 options call, 1 plain section each, by place in the dashboard, pool of 2, 1 refresh | 256 k | the counts are right, answers are complete, nothing is shown beside rows of another version, both calls return |
| Startup | 3 instances, 4 users, 1 request of one instance | 403 k | one seeder; users in order; a partial table stays but for the INSERT under way; all users there if there is no trouble; no use of Redis without a client; marked down and up in the end; every instance comes to serve |
| Reports | 5 groups of rows, 5 amounts or none each, 2 bars, 1 refresh to one of 3 contents, failures | 9.5 M | breakdowns, provinces and channels add up; the stores shown are the extremes |
| MartsColumns | 3 requests, 2 picks, 4 columns listed, another table of that name | 3.3 M | whatever is lost, only a namesake's columns or capitals make the SQL fail; one best pick for all until something is lost; a stored map is final |
| Periods_calendar | the years 2000, 2023, 2024, 2100; up to 3 months | 112 k | the compared periods fit each other |
| Filters | 3 columns, 3 words, one of them two, blank, semua; up to 2 values each, 8 callers | 705 k | keys are the words selected, arguments the words of the key, placeholders the arguments; when two keys of the options may agree |

Three more runs find what a comment of the repository says to be untrue
(`findings`), the first two with two requests, one key and no failure at all:

- *Invalidation_emptied*: a loader under way stores the old answer after the
  webhook, which health.go:28 says empties both caches.
- *Coalescing_once*: two concurrent requests for a key both run the loader,
  against cache.go:102-103.
- *StalenessClock_one_ttl*: an answer is nearly two TTLs old, against the table
  of TTLs in cache_layer.go:21-24.

None of them is a wrong answer by itself: the second costs a query, the others
serve old data for longer than the comments suggest. The same goes for
`SimpleCache.Get`, which deletes an expired entry without looking again
(cache.go:41-45) and may so delete one that was stored anew in between: the
action L1Evict does that, and the contract allows it, for it promises nothing of
how long a copy is kept.

What the summation properties of Reports say is exactly what the code keeps, and
it is less than one might expect. A breakdown sums to its rows unless the rest
beyond the seventh bar is not positive, which the code drops, quantities included
(sales_performance.go:72). The channels a filter is for sum to the total of the
summary exactly, once the ones left out (nothing sold and nothing before, or
returns) are added, and only when no refresh came between the two queries and no row was lost
in reading them: otherwise they need not, and nothing in the code makes them. Two
spellings of a channel are two rows that look the same, and a filter finds one of
them. And a summary shows no store of least growth
when it has the name of the one of most growth, which two spellings of a name can
do, for they are two groups (metrik.go:591, 623). In the same way `OptionsKeyTells`
says that two selections share an options key only when a name among them has a
space, a bracket or a bar in it.

### Bounds, and why they are enough

Two requests on one key give a leader and a follower, or one that arrives
before, after or behind the other: that deletes its fresh entry, copies from
Redis what the other is about to overwrite, leads a second flight. Every hazard
of the cache takes two goroutines and the webhook; a third request would only do
what one of the two can do, for each starts again when it has been answered. Two
webhooks overlap in every way two calls can; `wire` holds any SET of any version.
Keys interact only through the batch of an invalidation: with a batch of 1 a full
batch is flushed within the scan (Contract), with a batch of 2 the rest of it
after the scan (Invalidation_quiet); several keys, families and any batch size
are the proofs' part. One refresh (`MaxRefresh = 1`) gives an old and a new
version, and staleness properties compare only two.

StalenessClock has no bound on time: ages stay below the one it proves, and TTL 2
with Hold and Delay 1 makes every order of expiry, copying, storing and late
arrival happen. The dashboard has a section of each kind, and a pool smaller than
the number of goroutines makes them queue, across the two calls too. Three
instances give a winner, a loser and one that boots much later. One request is
enough beside them: a request reads the client and the flag and may mark Redis
down, and what it does next depends on its own call alone, so a second adds no
state of the link that one does not reach by calling again.

Three columns are one with a value before and one
behind it; a counter that goes wrong goes wrong with the first of them. Two values
out of "a", "a b" and "b" are what it takes for two lists to be written alike. Two
bars (`TopN`) and five groups leave a tail of up to three, with and without a
"Lainnya" among the bars and in the tail, in capitals or not; the five amounts
have each sign, a month before with and without sales, and equal growth. After a
refresh all groups are alike, with sales, with returns or not there at all, which
is enough to differ from before in each way `ChannelsAddUp` tells apart. Four listed
columns are one that is only a namesake's, one in capitals, one of both tables and
one of the table alone. The proofs (below) have none of these bounds.

A state of Periods ends when its input is complete, so that cfg turns the
deadlock check off; the others never stop, or stutter when they are `Finished`.

### Fairness

ReadThrough: a goroutine that can run is run, every Redis call has a timeout
(500 ms, 5 s for a scan), the warehouse answers or fails each query; so each
request's steps and the webhook's are weakly fair. Nothing is assumed of clients,
of the clock, of the ETL, of Redis's health or of crashes. FanOut: goroutines are
scheduled and a query with a connection ends; nobody may count on a query to
fail. Because the goroutines of a call ask for connections at the same time,
fairness is per goroutine; database/sql serves those who wait in order.
Startup: each instance runs and the database answers; the ticker of the health
loop ticks, the ping is answered or times out, and calls end.

## 4. Proofs

TLAPS checks, for any requests, keys, calls, sections, instances, TTLs, columns,
words, groups of rows and so on within the named assumptions of each module
(finite sets where something is counted, None and Err different from data):

- **CacheProofs**, of the core. `TypeOK` is inductive. `SingleFlight` and
  `NoLostWaiter` follow from one inductive conjunction: the flight of a key is
  registered exactly while its leader leads. The lemma `NoFlightTouched` covers
  all steps that leave flights and places alone. `KeepsThePromise` is the
  refinement: each step of ReadThrough is a step of CacheContract or leaves its
  copies and answers alone (a Load is a Copy, a hit or a landing an Answer, what
  expires or is deleted shrinks the copies); besides the types it needs only
  that errors are in hand where a loader may fail.
  `NoStaleCopy` is not inductive: while an invalidation
  runs, an old copy may still be in Redis, and whether it will be deleted depends
  on how far the scan has come. `PurgeInvariant` adds that on a quiet key
  everything but a Redis entry still pending is as new as the mark, and that
  promises only grow. The key lemma, `CopyStep`, says a value is only ever copied
  from somewhere that was already new enough. `FreshReplies` follows with the
  floor a request met.
- **TimeProofs**. Of the clock, `EntriesExpire` is the inductive part, with a bound
  for each L1, for Redis, for a SET on its way and for a value in hand: each bounds
  the age an entry will have when it expires, which the passing of time does not
  change. `AgeBounded` follows. Of the calendar: shiftToPrevMonth is Postgres's month
  subtraction (`ShiftIsMinusMonth`), which is monotone; so the paired day lies
  between the shifted ends, for every period of every year. `RankingCovers` is about
  the whole months around them.
- **FanOutProofs**: cardinalities of the goroutines under way, with one lemma
  for what a single goroutine's move does to each count; completeness then
  follows because a WaitGroup at zero leaves nobody under way. `RowsOfOneVersion`
  needs to know what a section at its second query shows: either nothing, or the
  word that there are no rows (`Progress`), so only such a word can stand beside a later total;
  `OptionsNeverNull` because a list, once assigned, is only replaced by a list.
- **SeedUsersProofs** is about Startup: a step of the composition is a step of
  SeedUsers or leaves it alone (`StartupSeeds`), so what is proved of SeedUsers
  carries over; the link has an invariant of its own (`LinkStep`), and moves only as ReadThrough's
  `redis` does (`LinkMovesUpAndDown`). The rows are
  always the first few users, and whoever is past the first INSERT inserts exactly
  the next one; so two cannot be, for the second would have met a duplicate. Of the
  statements still on their way (`wire`): whoever sent the INSERT of a user had
  inserted those before (`WireInOrder`), and nothing on its way is ahead of an
  instance that is seeding (`Progress`); so it lands in order, or where there is a
  user already.
- **MartsColumnsProofs**: maps are parts of what is listed, hence so are the picks
  (`PicksListed`); what is listed and cannot be used is a namesake's or in capitals
  (`ListedNames`), which is all that can make the SQL fail. Until something is lost the
  maps are the whole list, hence the picks the best.
- **FoldLemmas** has no theorem of the code; FiltersProofs and ReportsProofs rest on
  it. The induction theorems of the library take an operator as their parameter,
  which the provers cannot instantiate; here induction is over a *set* of numbers, of
  sequences or of the parts of a finite set (`Induction`, `SeqInduction`,
  `SetInduction`), which they can. With it the recursive functions inside the folds
  of the community modules are shown to exist and to be the only ones, so a left fold
  is what its step makes of each further element (`LeftLaws`), and a sum over a
  finite set (`Total`) can be taken apart, regrouped by a function of its elements
  (`TotalFibres`) and compared with the sum along a sequence (`SumLeft`).
- **FiltersProofs**: `PlaceholdersBound` and `KeyIsTheQuery` are parts of one
  inductive invariant (`FilterInv`): the n-th placeholder has the number of the n-th
  argument behind the caller's own, and the counter has that of the next. `KeyIsTheQuery` needs that the second
  cleaning changes nothing (`CleanTwice`): what Clean returns is trimmed, distinct
  and none of it blank, and cleanMulti keeps such a list as it is. `SameWordsSameKey`
  follows from Clean being ordered and made of the same words (`OneOrder`: there is
  only one such list). `OptionsKeyTells` is inductive with the types: a key is made of
  words (`KeyOfWords`); two plain pairs with one key agree on where the first list
  ends, for the bracket that ends the shorter would be taken for a word of the longer
  (`NoLonger`), then on their lengths, then word by word.
- **ReportsProofs**, for any groups, amounts, tables of names and number of bars, and
  any order of the rows. `GrowthExtremes`: while rows are compared, top and bottom are
  extremes of those seen and are one store unless one grew more; growth is compared by
  cross-multiplication, which is transitive because the month before is positive
  (`Scaled`). `ProvincesAddUp`: each row is added to the one entry its names resolve
  to, and an entry is made for no other reason (`ProvinsiInv`); a regrouped sum over
  the rows then is what the entries hold. `ChannelsAddUp`: when the query runs, its
  groups partition what was sold by the name as stored, and the filter takes or leaves
  a whole group (`KanalGroupsTyped`); so the groups of the channels selected, listed
  or left out, sum to what the filter lets through, which the total was (`AddUp`,
  `Apart`); the rows read and to be read stay that set (`ChannelInv`). `BreakdownAddsUp`: the rows
  scanned have names of their own (`BarInv`), cutting a list in two keeps its sum, and
  merging the tail into one bar moves its sum there (`MergedKeepsSums`).

Every invariant and action property of the runs is proved, except the liveness
properties. Model-checked only: liveness (`EveryRequestAnswered`,
`InvalidationReturns`, `EveryCallReturns`, `EveryUserSeeded`, `StopsCalling`,
`ComesBack`, `ServesAnyway`), for which fairness and ENABLED are out of the
prover's reach. What Postgres returns for each query is modelled, and so
an assumption of every proof.

## 5. Not modelled, and limits

- A Redis entry that no longer unmarshals (redis.go:149), which counts as a hit and
  serves a zero value: payloads are versions here, and have no format of their own
  that a deployment could change.
- The mixture of versions *between* the sections of a dashboard: it happens, nothing
  prevents it or says it does not, and no property could hold. Within a section,
  rows and all that stands beside them are of one version (`RowsOfOneVersion`); but an
  *empty* list of hero products may stand beside a total of a later version, in
  which there may have been some (sales_performance.go:239-256). Between the total
  and the channels of a summary `ChannelsAddUp` states what it takes.
- What the other loaders compute: it is arithmetic in their SQL (shares, ranks,
  growth, the series of new products, cities), with no state and no order of steps
  to get wrong. The rounding of float64. The wording of all SQL.
- JSON and SHA-1 of the cache keys; the regular expressions of the geography and the
  contents of its tables, which are data to be tested.
- Routes, middleware, login, the health endpoint, ensureIndexes, response models:
  stateless, or configuration of libraries.
- Payloads of other processes are loaded from the same table; a different version
  of the program beside this one is not modelled.

## 6. Plan

Order: the cache first, then what surrounds it, each module with its hazards, runs
and proofs.

1. Done: ReadThrough with overlapping webhooks, late SETs and other processes;
   Invalidation, Coalescing, CacheContract and its refinement, checked and proved;
   StalenessClock with several processes; FanOut with refreshes; RedisLink and
   SeedUsers, composed in Startup; Reports; MartsColumns, Periods, Filters; and the
   proofs of section 4, which state every safety property the passing runs check.
2. Next modules: entries of Redis with a format, so that an old one may fail to
   unmarshal; the new-product series with its codes.
3. Next proofs: RedisLink as a refinement of ReadThrough's `redis`, beyond the moves
   of the link; what `resolveProvinsi` returns, from properties of its tables.
