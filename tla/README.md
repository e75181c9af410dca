# A verification project for gurted/google.co

google.co is a search engine for the GURT network, written in Rust: a server
(`gurtd`) that accepts site submissions, crawls the submitted domains, indexes
their pages with Tantivy, and answers searches over its own protocol. These TLA+
modules model its stateful parts; TLC checks them on small instances, and TLAPS
proves the most important results for every value of the constants.
`PROJECT.json` maps every definition to the lines it models.

## The system

| Part | State | Operations | Talks to |
|---|---|---|---|
| Server connection (`gurtd/src/main.rs`, `gurt-api/src/http_like.rs`, `handshake.rs`) | read buffer, scan position, body | handshake, TLS upgrade, `read_request`, reply loop | router |
| Router, search API (`router/api.rs`, `search/mod.rs`) | hot query cache | `handle_search`; `HotQueryCache::get`, `put` | index engine |
| Submissions (`router/api.rs`) | rate limiter's queues | `handle_add_site`, `IpRateLimiter::allow` | database (spawned upsert), indexing queue |
| Indexing queue (`indexing/mod.rs`) | `in_flight`, sender, channel, worker thread | `enqueue`, `ensure_worker`, `run_worker` | crawl |
| Crawl (`indexing/mod.rs`, `fetch.rs`) | the job's pages and step | `process_domain`, `index_single_url` | DNS resolver, remote sites, index engine, database |
| DNS resolver (`indexing/dns.rs`) | cache with TTL | `resolve_via_gurt_dns` | DNS service |
| Index engine (`gurt-index/src/tantivy.rs`) | documents added, committed, visible | `add`, `commit`, `refresh`, `search` | disk |
| Domain storage (`storage/mod.rs`) | rows with a status | upsert, list pending, set status | PostgreSQL |
| Bootstrap (`startup.rs`) | list of pending domains | `bootstrap_resume` | storage, indexing queue |
| Database pool (`gurt-db/src/lib.rs`) | two OnceCells | `init`, `get_pool`, retries, migrations | PostgreSQL |
| Result ranking (`router/search_utils.rs`, `search/mod.rs`) | none | rescoring, `merge_topk`, `gather_with_timeout` | |
| Queries (`gurt-query/src/lib.rs`, `search/mod.rs`, `tantivy.rs`) | none | `parse_query`, `normalize_key`, `analyze_terms` | hot cache, index engine |
| Pages (`indexing/mod.rs`, `fetch.rs`, `crawler/pipeline.rs`, `render.rs`, `sitemap.rs`) | recrawl queue | `collect_candidate_urls`, `index_single_url`, `process_fetched_document`, `render_once` | index engine |
| Host scheduler (`crawler/scheduler.rs`) | semaphores, politeness gates | `acquire`, `acquire_polite` | (tests only so far) |
| Crawler client, robots.txt (`crawler/client.rs`, `robots.rs`) | none | `fetch_with_retries`, `read_response_like`; `parse`, `is_allowed`, `crawl_delay` | (tests only so far) |
| Links (`link/mod.rs`) | authority store | `extract_links`, scores | (tests only so far) |
| UI, TLS setup, macros, no-op engine, benchmark | none | | |

What is hard in it: handlers run concurrently on a multi-threaded runtime and
share locks that are released between steps; one crawl thread serves everybody,
may die, and is never replaced; a submission reaches the database and the
crawler by two routes nobody orders; the process may stop anywhere and resumes
from the database alone; timeouts, clocks read outside of locks and caches
with TTLs decide what is answered.

What makes each part correct is stated by its properties below; the hazards
they are aimed at are listed, with their lines, in `PROJECT.json`.

## The modules

`IndexingQueue` models `enqueue_domain` step by step: every caller passes the
locks of `in_flight` and of the sender one after the other (`Call`, `Coalesce`,
`Claim`, `ReuseWorker`, `SpawnWorker`, `Send`, `SendFails`, `Cleanup`), and the
worker thread receives, crawls and releases (`Recv`, `Finish`). A panic drops
the channel (`WorkerPanics`), a failed spawn poisons the sender's lock
(`CallerPanics`). The history variable `lost` holds the domains a panic leaves in
`in_flight`. `CrawlSlots` is what the queue promises without all that: one slot
per domain, which is claimed, queued, crawled and freed; `slotView` maps one to
the other.

`DomainLifecycle` extends the queue with the rows, the index and the bootstrap
task: its actions conjoin the queue's (`Submit` with `Call`, `StartCrawl` with
`Recv`, `EndCrawl` with `Finish`). A spawned upsert is a counter of tasks yet to
run; `process_domain` is the variable `step`; `backlog` is the set of rows that
bootstrap has read, taken in the order of their insertion; the index keeps counts of
documents per URL, added, committed and visible. `Crash` loses what is in memory
and starts bootstrap again. `leftOut` records why a pending row may stay
pending. Constants switch the faults (`MayPanic`, `DbMayFail`, `IndexMayFail`)
and the index on disk (`Durable`). A page from another host that a sitemap may
name counts as one of the domain's own.

`SearchApi` models the cache for one key: content is the time of the refresh it
shows. `IpRateLimiter` models one address. `HostScheduler` keeps time as ages and
countdowns that stop at `MaxDelay`, so that its state space is finite without
a last tick. `DnsResolver` has all zones over its names; its variable `network`
says whether requests are reliable, may fail, or are answered by a server whose
zone changes all the time. `DbPool` has `main()` and other callers of
`get_pool()`; the variables `EagerInit` and `MigrateOnStart` are the
configuration, chosen at the start.

`Framing` has what server and clients share: where a head ends, whether it is
well formed and what length it announces. Bytes are letters: line ends, text, a
content-length, a close header. `Connection` extends it with the server's
incremental reader and keep-alive loop, `ResponseReader` with the two clients'
readers as functions of the chunks their reads return.

The pure functions have a module per question, on sequences of the pieces that
the code tells apart:

- `ShardSearch`: `merge_topk` and `gather_with_timeout`;
- `Robots`: parsing of robots.txt into groups, and lookup;
- `QueryKeys`: a search string's terms and filters, the key of its answer in the
  hot cache, the tokens it looks up, and those a page is indexed under;
- `CrawlerClient`: an attempt's steps, what each outcome makes of it, and which
  failures are tried again;
- `Candidates`: the entries of a sitemap, the limit of pages, the list of a crawl;
- `PagePipeline`: a response's way through `index_single_url`,
  `process_fetched_document` and `render_once` to its document;
- `Links`: `extract_links`.

Each is checked against a reference that says what the result should be
without the algorithm; it stands with the property in `MCAlgorithms`, or in the
module. No module has a RECURSIVE operator.

The `MC*` modules add symmetry sets and inputs, and the `.cfg` files constants;
`MCAlgorithms` enumerates the inputs of the pure functions and computes each
result in one step. Definitions that follow a comment "Mutant" are bugs the code
might have had; no specification uses them, and each property is known to fail
under one of them.

## What the runs show

| Run | Properties | Bounds |
|---|---|---|
| `MCIndexingQueue` | `InFlightIsHeld`, `OneHolder`, `StuckOnlyByPanic`, `ImplementsSlots`, `EnqueueReturns`, `ImplementsFairSlots` | 3 callers, 3 domains: two may collide while a third is queued; panics |
| `MCDomainLifecycle` | `PendingAccounted`, `ReadyIsSearchable`, `StatusOnlyAdvances` | 2 domains, faults of database and threads, bootstrap limit 1 (of 2 rows), 1 crash, index on disk |
| `MCLifecycleLive` | `QueuedPendingServed`, `AcceptedIsServed`, `RestartServesPending`, `CrawlEnds` | 1 domain of 2 pages, 2 handlers, faults of database and index, 1 crash, index in memory |
| `MCLifecycleMarked` | `MarkedReliably` is refuted | 1 domain, 1 handler, no faults |
| `MCHostScheduler` | `PermitsConserved`, `GateKeepsDelay`, `EveryCallIsServed` | 3 tasks, 2 hosts with 1 permit each, 2 global permits, delays to 2 ticks |
| `MCIpRateLimiter` | `QueueCoversWindow`, `WindowBound`, `RefusalJustified` | 3 calls, 2 per window of 3 ticks, 9 ticks |
| `MCSearchApi` | `AnswerIsRecent` | 2 handlers, TTL 2, 6 ticks |
| `MCAlgorithms` | `MergesTheBest`, `PromptShardsKept`, `GatherIsBounded`, `BodyIsWhatWasSent`, `RobotsObeyed`, `KeysTellQueries`, `WordsFindPages`, `FetchSettles`, `CandidatesAreListed`, `PageIsIndexed`, `LinksAreFound` | see below |
| `MCConnection` | `ChunksDoNotMatter`, `NothingLeftOver` | limit 9 bytes; 2 requests with any head of at most 4 bytes before its end and four longer ones |
| `MCDnsResolver` | `ResolvesRight`, `CacheIsRight`, `ResolutionEnds` | 3 names and depth 2: chains too long and cycles exist; 3 kinds of network |
| `MCDbPool` | `OkMeansReady`, `MigratesOnce`, `PoolIsForGood`, `StartupDecides` | main and 2 others, 2 attempts, 2 outages, all 4 configurations |
| `MCDbPoolLazy` | `StartupProceeds` is refuted | main alone, 1 outage |

`MCAlgorithms` enumerates:

- all merges of 3 sorted lists of at most 2 items with 3 scores, and k to 4;
- all delays to 7 ticks and panics of 3 shards with a timeout of 2;
- all prefixes of responses with 6 heads and at most 3 bytes of body, cut into
  chunks in every way, with at most one late chunk and each way to end, against
  a limit of 8 bytes that cuts through them;
- all robots.txt of at most 4 lines, enough for two groups with a rule each in
  any order, over four agents (two of them ours, one of these longer), two
  lengths of pattern, empty and unmatched patterns, and delays;
- searches of at most 2 of 31 tokens, or 3 of 9: words in both cases and outside
  ASCII, stop words, marks, both filters with empty, quoted, half-quoted and
  repeated values, terms that look like a filter, and terms and values with the
  separator U+001F of the key in them. Keys are compared between all pairs;
- fetches of 2 attempts with at most 2 steps each that do not go well, and of 3
  with at most one: every failure before and after every other;
- sitemaps of at most 4 entries, cut off anywhere, of 5 spellings of 4 addresses
  on both sides of the root's, two of them equal, and blank ones, with a limit
  of 3 pages; and all failures of the fetch;
- pages of at most 5 of 9 pieces, with every kind of answer for the short ones;
- pages of at most 3 of 14 fragments with and without links: href attributes,
  others whose values start with gurt:// or contain the text href, names that end
  in href, and the text href alone; and one of 6 ends, two of them within quotes.

The bounds are the smallest at which the case in question happens: two actors
for a race, a third for a bystander; one domain or page more than the limit;
a chain longer than the depth; time past the window and the TTL. Limits on
the code's numbers (`MaxAttempts`, TTLs, message sizes) are scaled down and keep
their order. `CHECK_DEADLOCK FALSE` is set where the modelled thing ends: a
function has returned, a connection is closed, a process has exited, a clock is
at its last tick. The queue, the lifecycle, the scheduler and the resolver go on
for ever, and there TLC also checks that they never stop. The type invariants
are theorems and no run's properties.

The findings quote what the repository says. Two runs each refute a statement of it:

- `MCLifecycleMarked`: a crawl that ends before the spawned upsert updates no row,
  and the row stays pending although "mark domain as ready in DB reliably".
- `MCDbPoolLazy`: in lazy mode the server still exits when the database is down,
  because `main()` asks for the pool at once.

The other side of the first is `PendingAccounted`, which lists all ways in which
a pending row can be forgotten.

Four more are exceptions in the properties of `MCAlgorithms`: each of these says
what is left when the code's deviation is set aside, and without its exception
TLC refutes it at once.

- `RobotsObeyed`: the comments at `robots.rs:23` and `:99` name `*` as the fallback,
  and line 117 takes the first group of the file. After `User-agent: bing` and
  `Disallow: /a` our agent is refused `/a`, though nobody named it or `*`. The
  property claims nothing of the path where neither we nor `*` are named; the theorem
  `OthersRulesObeyed` says what the code does there.
- `RobotsObeyed`: the comment at `robots.rs:7` has rules grouped by user-agent token,
  but `current_agents` is never emptied (line 47), so an agent also gets the rules
  of all groups after its own: after `User-agent: *`, `Allow: /a`, `User-agent: bing`
  and `Disallow: /ab` everybody is refused `/ab`. The property lets the rules of
  our own groups decide only if a stray rule is not as long as their longest, and
  likewise for the delay.
- `KeysTellQueries`: `normalize_key` joins with U+001F what it does not escape, and
  `%1F` in a URL puts U+001F in a term, at which `split_whitespace` does not cut.
  The one term of `gurt%1Fsite=gurt` has the key of `gurt site:gurt`, with other
  tokens and another filter, and the hot cache answers one with the other's
  answer. A term `site=gurt` alone has the key of `site:gurt`. Searches with
  the separator or such a term in them are excepted; `SeparatorReadsAsFilter` proves
  the clash for any words.
- `LinksAreFound`: the comment at `link/mod.rs:3` speaks of `<a ... href=...>`, and the
  code takes the next `=` after any text href, so `data-href="gurt://x"` gives a
  link and so does the `src` of an image after the bare word href. The property has the
  values that the code does look at: those before whose `=` that text stands.

Other differences between what is said and what is done, which the models have
as the code does it:

- `add` is documented as "add/replace" (`gurt-index/src/lib.rs:33`) and only adds:
  a recrawl multiplies the documents of a page.
- The crawl-delay spaces the passes of a host's gate (`GateKeepsDelay`) and not
  the grants: a call held up at the permits is granted right before the next.
- A shard that is too late is kept when an earlier one was waited for; what holds
  is `PromptShardsKept`.
- Of a response without content-length the page fetch takes what comes before
  the stream falls idle, and the crawler's client takes no body.
- The filters of a search are parsed and are part of the cache key, and the engine
  ignores them.
- The API takes the last `q` of its parameters, the page `/search` (`ui.rs`) the
  first, and that page goes past the hot cache. A cached answer's `query` is
  spelled as its first asker spelled it.
- A search's words are folded to lower case within ASCII only, the index's
  everywhere: a search with other capitals finds nothing (`WordsFindPages`).
- The crawler's client sets up TLS before the handshake, the server after it;
  the client ignores failed writes (`let _ =` before the `?`) and reads without
  a timeout (`FetchSettles`). The crawl does not use it.
- No caller of `process_fetched_document` outside tests simulates a cost, so the
  recrawl queue never fills; what is drained from it is only logged.
- Entries that repeat a page use up the limit of pages (`CandidatesAreListed`).
- A script that is not closed takes the rest of its page with it, and titles
  within scripts are titles (`PageIsIndexed`).
- `extract_links` panics on a page that ends within quotes (`LinksAreFound`); only
  tests call it.

## Fairness

Threads and tasks that can run are scheduled (weak fairness of each one's
steps). A crawl's steps end: a fetch is bounded by `GURT_FETCH_TIMEOUT_MS`, the
attempts to mark the row by `MAX_ATTEMPTS`; a database statement has no timeout in
the code and is assumed to answer or fail. Tokio's mutexes and semaphores serve
their waiters in order, so a waiter among others is served (strong fairness of
each task's steps in `HostScheduler`, and in `DbPool` for the cells); a holder of
permits gives them back, as a fetch has a timeout. A DNS request has a timeout.
Nothing is assumed of clients, of crashes, or of the database coming up.

## What is proved

`DomainLifecycleProofs`, first of the queue alone, for any sets of domains and
callers:

- `QueueTypes`: the type invariant;
- `InFlightHeldAlways`, `OneHolderAlways`: both invariants of the queue. Neither is
  inductive alone: that a claim finds nobody else answering for the domain
  follows from `InFlightIsHeld`, and that a release leaves nobody behind from
  `OneHolder`; their conjunction with the types is inductive;
- `StuckOnlyByPanics`: by that invariant what is stuck in `in_flight` is `lost`, which
  only panics enlarge;
- `QueueImplementsSlots`: each step of the queue is a step of `CrawlSlots` or leaves
  the slots alone, from that invariant.

Then of the lifecycle, for any domains, handlers, pages and bounds. Each action
is a step of the queue, leaves it alone or restarts it, so the queue's inductive
invariant holds here too:

- `PendingAlwaysAccounted`: `PendingAccounted` speaks of pending rows only and is
  not inductive. It needs that a row about to be inserted is held as well
  (`InsertedHeld`: the crawl may be over before the upsert), that a crawl at its
  end has marked its row or given up (`CrawlDone`), and that bootstrap calls
  nobody before it has read its list (`BootIdle`);
- `ReadyAlwaysSearchable`, under `SoundIndex` (the index is durable, does not fail
  and counts at least one copy): the root page of the crawl under way has come
  as far as the crawl's step (`RootCarried`);
- `StatusAdvances`; and `LifecycleTypes`, where that `submitted` lists every known row
  once takes the cardinality of the known rows.

`IpRateLimiterProofs`, for any calls, rate, window and slack not above it:

- `QueueAlwaysCovers`, `WindowAlwaysBounds`, `RefusalsJustified`, `LimiterTypes`: the
  queue is a suffix of the accepted timestamps, and those before it have left
  the window as seen from the clock (`QueueIsSuffix`); timestamps are in order up
  to `Slack` (`AlmostSorted`), since a call waits no longer than that
  (`NowIsRecent`). The bounds count places: a bijection between queue and suffix,
  and intervals. That pruning has a last step needs a smallest rest, taken from
  the well-foundedness of strict inclusion between finite sets.

`HostSchedulerProofs`, for any tasks, hosts, limits and delays:

- `GatesKeepDelays`: who is past a gate's lock holds the gate and sleeps until its
  delay is over (`DelayIsKept`); the types and this are inductive;
- `PermitsAlwaysConserved`, `SchedulerTypes`: by the cardinality of the sets of
  holders.

`DnsResolverProofs`, for any names, addresses, zones and depth:

- `CacheAlwaysRight`, `AlwaysResolvesRight`: while the zone stands still, entries lead
  where the chain of their name leads (`CacheLeads`), the name asked about was
  come to from the first (`Came`), nothing else leads on from there
  (`NoOtherWay`), and a result leads from the first name (`ResultLeads`). For a
  server that answers anything both properties claim nothing.
- `ResolverTypes`.

`DbPoolProofs`, for any callers and attempts:

- `OkIsReady`, `MigrationsRunOnce`, `PoolStays`, `PoolTypes`: who connects for the cell
  holds its lock (`CellIsLocked`), who is past it has seen it filled
  (`PastTheCell`), `main()` is not within `init()` and `get_pool()` at once
  (`MainInOrder`), and nobody migrates after it was done (`OneMigration`).

`SearchApiProofs`, for any handlers, TTL and latency:

- `SearchTypes`: the type invariant, with the order of an entry's two times;
- `AnswersAreRecent`: `AnswerIsRecent`, from an invariant that bounds the age of what a
  handler holds by `Latency` when it puts it, and of an entry by `Latency` at its
  insertion.

`ConnectionProofs`, for any heads, limit, chunk size and number of requests:

- `ConnectionTypes`: that the scan is resumed within the limit and the head lies
  within the buffer is part of the types;
- `ChunksNeverMatter`, `NothingIsLeftOver`: neither is inductive. The invariant `CInv`
  says for each stage which bytes of the message the buffer holds and which are
  still on the wire (`Greeting`, `Upgrading`, `ReadingHead`, `ReadingBody`); that a
  scan resumed three bytes before the end of the last one misses no end of a
  head is `ScanMissesNothing`. Both rest on `ClientAssumption`: what a client
  sends before a body is one head, with no second end of a head in it.

`AlgorithmsProofs`, about the pure functions. Each theorem says of the runs of
`MCAlgorithms` what a lemma says of all inputs:

| Theorem | Lemma | The argument |
|---|---|---|
| `PromptAlwaysKept`, `GatherAlwaysBounded` | `GatherKeepsPrompt` | after n awaits the clock shows at most n timeouts, and every prompt shard among the n is kept |
| `MergeAlwaysBest` | `MergesBest` | what the heap has given so far is a front of every list, in order, and holds each item before any that is left (`Merged`) |
| `FetchAlwaysSettles` | `FetchesSettle` | the first attempt that is not tried again decides (`DecidingAttempt`) |
| `BodyAlwaysWhatWasSent` | `StreamsRead` | what is read at any time is a front of what was sent, whose head ends at the same place or not at all (`HeadOfPrefix`) |
| `RobotsAlwaysObeyed` | `ObeysGroups` | after n lines each group holds the rules since the first line that named its agent, up to n (`ParsedTo`); the lookups then take the best of finite sequences (`RuleDecides`, `BestGroupIs`), so that all rules from there on decide (`LinesObeyed`); those of other groups change nothing if they are shorter or earlier (`ShorterRules`, `EarlierDelays`) |
| `KeysAlwaysTell` | `KeysTell` | a key's parts end where its separators are (`JoinedIs`), so parts without a separator can be told apart (`JoinedTells`), and a part tells what it stands for (`PartTells`), unless a term looks like a filter |
| `WordsAlwaysFind` | `WordsFind` | folding commutes with the forming of terms (`LoweredText`) |
| `PageAlwaysIndexed` | `PagesIndexed` | what is shown from a place on is all up to the next script and what is shown after that (`ShownIs`); the n-th of a set of places is the one of rank n (`PickedIs`) |
| `CandidatesAlwaysListed` | `CandidatesListed` | a complete entry is read to its end (`EntryParsed`), and at the first that is not complete nothing is found (`RestStops`) |
| `LinksAlwaysFound` | `LinksFound` | what a page gives from a part on is the part's links if its value is read, and what it gives from the next part on; it is read if the text href stands in it before its `=` or was left over before it (`SeekFirst`, `SeekPast`, `PartRead`); the end, or a quote left open in it, decides the rest (`EndRead`) |

`LinksFound` is about pages put together from any number of parts, each either text
without `=` or one attribute of any name with its value (`IsPart`), with an end that
may stop within an attribute. Each part's link is that of its value, also for
attributes that are not href; whether it is read depends on what stood before. The
fragments of `MCAlgorithms` are such parts (`FragmentsAre`, `PagesLinked`).

Two theorems state deviations of the code for inputs of any size: `OthersRulesObeyed`,
that a robots.txt without `*` and without us is obeyed all the same, and
`SeparatorReadsAsFilter`, that a term with the separator has the key of a filter.

The library's induction takes an operator as a parameter, which no installed
prover can give it. Here induction is over a set: `LeastOf`, from the
well-foundedness of the naturals, gives `UpTo`, by which a set of numbers up to N
that has 0 and with each number the next has them all. `RecursionExists` gives
from it that a function defined by its first value and its steps exists, so that
the recursive functions of the model have the values they are defined to have.
This reaches functions that follow a sequence from its start, and by `JumpsExist`
those whose value at a place is given by their value at a later one.

The proofs rest on the modules' named assumptions only, and TLC evaluates these
in every run. Beside those of the components, which say what their constants
are, the bounds of `MCAlgorithms` are numbers, and so is `MaxMessage`.

Every invariant and action property of the runs that pass is stated by a theorem.
Only model-checked are the liveness properties and the fair refinement, which are
beyond this prover.

## What is not modelled

- The timeouts of `fetch_gurt` one by one: each only makes the page fail.
- `fetch_sitemap_urls` and `prioritize_with_sitemap`, which only tests use: the
  first is a fetch followed by `ParseSitemap`, the second compares strings.
- Scores: BM25 and storage are Tantivy's; rescoring, PageRank and authority are
  floating-point arithmetic, out of TLC's reach. The merge has whole numbers.
- The router and the UI: stateless dispatch, static pages and formatting. TLS
  setup: loading of files. Macros: generated code. The no-op engine: no state.
  The benchmark: a measuring tool.
- `GURT_BOOTSTRAP_ENABLED=0`, which leaves pending rows until they are submitted again.
- A head that announces nearly 2^64 bytes: in `http_like.rs:91` the sum with the
  head's end would overflow. Lengths in `Connection` are small numbers.
- Clients that send a request before the answer to the last one: bytes read
  ahead of a request without body are dropped, and none of the repository's
  clients does it.
- The cache over more than one key: entries of different keys share nothing but
  the map, and `QueryKeys` says which searches share one. Neither this map nor
  the limiter's map of addresses is ever pruned of keys nobody asks for again;
  the models have one key, and no bound is claimed.

## Order of work

The queue and its abstract specification came first, then the lifecycle that
composes it with storage, index and bootstrap, the smaller components and the
pure functions; proofs followed the same order, those of `Connection` and of the
pure functions last. What could be added is a composition of `SearchApi` with
the lifecycle's index.
