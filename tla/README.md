# pacPrism in TLA+

This directory specifies pacPrism, an HTTP server that is at once a read-through cache for a Debian
mirror and an in-memory registry of nodes. The specifications are checked with TLC on small
instances, and the main safety properties are proved with TLAPS for all sizes. `PROJECT.json` lists
every run, theorem, mutant, hazard and the source lines behind every definition.

Paths below are relative to the repository root.

## The system

One process, one thread, one `boost::asio::io_context`. `ServerTrans` accepts connections and reads
requests; every request is routed (`Router`) within the handler of the read, either to the registry
(`DHT_operation`) or to the cache (`FileCache`); the response is written asynchronously. A cache
miss is fetched from the upstream **synchronously, inside the handler**, retries and backoff sleeps
included, so nothing else runs meanwhile.

| component | state | operations | interacts with |
|---|---|---|---|
| `DHT_operation` (`src/node/dht`) | nine containers in memory | `verify_entry`, `store_entry`, `query_node_ids_by_shard_id`, `clean_by_expiry_time`; `clean_by_liveness` is empty, `entry_builder` undefined | called by `Router` |
| `FileCache` (`src/console/io`) | the cache directory | `get_or_fetch`, `..._with_range`, `..._with_conditional`, `fetch_from_upstream` | called by `Router`; upstream mirror; file system |
| `Router` (`src/network/router`) | none | `global_router`, node API, plain clients | called by `ServerTrans` |
| `Validator` (`src/node/validator`) | none | classification by two headers (signatures always accepted); SHA-256, which nothing calls | called by `Router` |
| `ServerTrans` (`src/network/transmission`) | acceptor, one socket per connection, owned by handlers | accept, read, write, keep-alive | calls `Router` |
| `ClientTrans` | none | a stub | nobody |
| `Config` (`src/console/io`) | key/value map, read once | getters | used by `FileCache`, `main` |
| `main` | signal handler | start, `io_context::stop` | all |
| `PackageParser` (`src/node/package`) | none | `parse` | nobody but tests |
| command line `Parser`, `Banner` | port, path | `parse`, `print` | `main` |

What is hard here, and what makes each component correct:

* **Registry.** Nine containers are kept in step by hand. Correct: they all describe the same map
  from node to its latest advertisement, after every sequence of stores, replacements and sweeps,
  and in the middle of a sweep. Hard: shared addresses, replaced advertisements, equal and stale
  generations, a clock that jumps, the list a sweep collects before it changes its source.
* **Cache.** Correct: what is put into the cache is what the upstream served for some target of that
  file, whole, and failures are not cached. Hard: several targets can name one file, every step of a
  fetch can fail, the process can die between two of them, files are filled under their final name,
  bodies are read from disk long after their handler has returned, one path can be a directory of
  another.
* **Node API.** Correct: an answer tells the state of the registry when it is given, a 201 means
  that the node is registered from now on, and only a node changes anything. Hard: entries that come
  late, twice or out of order and are acknowledged all the same, a sweep that forgets what it
  removed, a restart that forgets everything, targets that can be spelled in several ways.
* **Responses for files.** Correct: ranges are exact, parts fit together, a 304 confirms what the
  client has. Hard: sizes that wrap around, empty files, numbers after a minus sign, local time
  labelled GMT, validators that are computed anew each time.
* **Server.** Correct: each socket has exactly one operation outstanding, responses arrive in the
  order of the requests, nobody who waits is forgotten, the accept chain goes on. Hard: resets and
  half-closed connections at every moment, pipelining, descriptor exhaustion, exceptions that no
  handler catches, a thread that is in the router while connections, resets and signals arrive.

## Modules

| module | models | extends / instantiates |
|---|---|---|
| `NodeRegistry` | what the registry promises: a map from node id to advertisement; an atomic sweep | |
| `DhtIndex` | `DHT_operation`: the nine containers, `store_entry`, `remove_entry`, both passes of `clean_by_expiry_time` | instantiates `NodeRegistry` under a refinement mapping |
| `NodeApi` | `Validator::validate_request`, `Router::global_router` and `node_response_router` over the registry; restarts | extends `DhtIndex` |
| `ReadThroughCache` | what the cache promises: a map from the path of a cache file to a version, filled at once and for good, for all targets of that path | |
| `FileCache` | `fetch_from_upstream` step by step, the three entry points, the plain half of `Router`, the reading of bodies | instantiates `ReadThroughCache` under a refinement mapping |
| `FileResponse` | what is answered for a cached file: ranges, dates, ETags, 200/206/304; a client that resumes and revalidates | |
| `HttpSessions` | what the server promises each client: requests taken up and answered one by one, in order | |
| `HttpServer` | `ServerTrans`, the thread it shares with the router, and the exits of `main` | instantiates `HttpSessions` under a refinement mapping |
| `DhtIndexProofs`, `NodeApiProofs`, `FileCacheProofs`, `FileResponseProofs`, `HttpServerProofs` | theorems | their module, TLAPS (`NodeApiProofs` also `DhtIndexProofs`, `FileCacheProofs` also `BackoffProofs`) |
| `BackoffProofs` | induction over the naturals without operator parameters, and what follows of the recursive function `Shifted` | extends `FileCache` |
| `MCDhtIndex`, `MCNodeApi`, `MCFileCache`, `MCFileResponse`, `MCHttpServer` | finite instances for TLC | their module |

How state and actions correspond to the code:

* `DhtIndex`. `dht` is a record with one field per container; an `unordered_map` is a total function
  that is `Absent` where the key is missing, and `operator[]`'s insertion of a default value is
  explicit (`SetAt`, and `EmptyId` in `AddressesAfterRemoval`). `Insert` and `Remove` are the bodies
  of `store_entry` and `remove_entry`; `Store` is one whole handler. `CleanByExpiryTime` is the
  first pass of the sweep, `RemoveExpired` one iteration of the second; `sweep` holds the list
  between them, and no other handler runs while it is not empty. A shard is its id, since
  `store_entry` drops the package list.
* `NodeApi`. A request is what the router can tell apart: which of the two headers it has, its
  method, and its target as prefix, `word` (the operation), `mark` (what follows it) and `text`.
  Every branch of `node_response_router` is one action and one step; only `clean/expiry` takes more,
  through the actions of `DhtIndex`, with `handling` the request that is being handled. Any request
  of `Sent` may come at any time, any number of times: delayed, repeated and overtaken
  advertisements need no network of their own. `Restart` is the end of the process, however it comes
  about, with the next start. `heard`, `cleaned` and `since` are history variables: what has been
  acknowledged.
* `FileCache`. `job` is the handler inside `fetch_from_upstream`; its actions are an attempt's
  outcomes (`AttemptThrows`: a `system_error`, with retry and backoff; `AttemptRejected`: a 4xx, or
  any other status, which throws the exception that is *not* retried; `AttemptStalls`;
  `ParentIsFile`, `CannotOpen`, `OpenCacheFile`), the writes, and the return (`AnswerFetched`,
  `AnswerFailed`, `NullResponse`). A hit is one step (`ServeCached`). `Targets` are what requests
  ask for, each a URL of the upstream; `CachePath` is `get_cache_path`, which joins the target to
  the cache directory as it is: targets with `//`, `/./` or `/../` are other spellings of one path,
  and a target may name a file outside the directory. So `disk` is all that targets can name, with
  whatever tree of whole files was there at the start (`Existing`), and what the upstream serves is
  by target. `disk` maps a path to a missing file, a directory, or a file with the version it came
  from and the number of pieces written. `PartlyMade` is what `create_directories` leaves when it
  fails, or is killed, half-way. `LookupThrows` is the exception of `is_cached` (a name that is too
  long, a directory that may not be searched), which nothing catches before `main`. Sizes, ranges
  and validators are abstracted: a file has `Pieces` pieces, a range request asks for everything
  from piece 1, a conditional request may or may not match. `ProcessDies` loses everything but
  `disk`. `HangUp` is any early end of a body. `Shifted` is `1 << retry`, as a recursive function.
  `CacheView` is the version of every path that has a file, the unfinished one of a job included;
  `ClientView` forgets how far a handler or a body has come.
* `FileResponse`. `Start`, `End` and `Valid` are `parse_range_header` over a `size_t` that counts
  modulo `W`; a number is what `stoull` makes of it. `Readings` are the seconds that one conversion
  of a modification time can give, as it goes through two `now()` calls; `LastModified` and
  `ParseHttpDate` are `localtime_r` and `mktime` by what they add and subtract. `copy` is a client's
  copy byte by byte, each with the version it came from; its fields `origin` and `replaced` are
  history. A handler is one step here: that one body is of one version, and what failing fetches do,
  is in `FileCache`. `SeekCounts` is TRUE for versions of Boost whose `file_body` subtracts the
  position of the seek from its size; the run has it TRUE, and all its properties hold for FALSE
  too.
* `HttpServer`. A step is the completion of one asynchronous operation with all its handler does,
  except that a read's handler takes two: `ReadRequest` enters the router and `RouterReturns` leaves
  it, and until then the thread is not `Free` and no other handler runs, the signal's included. How
  the router comes to its answer is the subject of `NodeApi`, `FileCache` and `FileResponse`; what
  matters here is that it returns, or returns the null pointer of `FileCache!NullResponse`, or
  throws (`RouterThrows`: `is_cached`, or `dump` on text that is not UTF-8), either of which ends
  the process. `AcceptFails` needs no connection in the queue, since the descriptor is taken before
  one is looked for. `ops` is what is outstanding on a socket, `inbox` the requests in flight or in
  the kernel's buffer. `Unread` is the flat_buffer that dies with its handler: whatever it took
  beyond the request is lost, and a request lost in part leaves garbage behind. `ReadError` has the
  two outcomes of `remote_endpoint()` on a reset socket: it throws (Linux), which ends `main`, or
  not. `SessionView` is what a client can know: the numbers of `inbox` are what is `pending`, the
  request in the router or in a response that is being written is `current`. Garbage, descriptors,
  `ops` and the thread are not in it.

## Runs

Every module's `Faulty...` operators are the mutants of `PROJECT.json`: one per property, each a
plausible slip that the run's property detects.

| run | bounds | what it shows |
|---|---|---|
| `dht_index` | 3 nodes, one named by the empty string (which `operator[]` also produces), 2 addresses, 1 shard, 2 generations, 2 times | all containers agree at every step, iterations of a sweep included (`IndexConsistent`, `ShardIndexExact`, `IpForward`, `SweepExact`), and implement `NodeRegistry` (`ImplementsRegistry`) |
| `dht_phantom_address` | 2 nodes, 2 addresses, 1 shard | **violated**: `remove_entry` leaves an address with an empty id behind |
| `node_api` | 2 nodes, 1 address, 1 shard, 2 generations, 2 times; a `store` of every entry, every operation in every spelling, method and text, every kind of stranger | a node is registered exactly if it was acknowledged since it last left, under its highest generation (`NewestHeard`); answers are exact (`AnswersExact`); what a `clean/expiry` leaves (`CleanedUpTo`); a node's entry is replaced only by a newer one of a POST with both headers, and removed only by a sweep that finds it expired, or by a restart (`ChangesAuthorised`) |
| `file_cache` | 2 clients, paths `d`, `d/f` and `d/f/g` in every state they can be in at the start, 3 targets (two spellings of `d/f`), 2 pieces, 2 versions, 3 attempts, every fault | bodies are of one version (`BodiesIntact`), failures leave no file (`FailureNotCached`), cached files never change (`CachedNeverChanges`) |
| `file_cache_live` | 2 clients, two targets of the path `d/f`, the directory `d`, 2 pieces, 2 versions, 2 attempts, without stalls, write errors and kills | every 200 offers the complete file; a client loses its connection before its answer only if a lookup throws or the fetch for a conditional request has failed (`LostForCause`; with kills a step of it could be a kill, so the run has none); every request leaves its handler; the cache implements `ReadThroughCache` (`ImplementsReadThrough`) |
| `file_cache_truncated` | kills and write errors | **violated**: a truncated file is served as complete |
| `file_cache_server_error` | 3 attempts, upstream errors | **violated**: a 5xx is not retried |
| `file_cache_null` | network errors | **violated**: a conditional request ends in a null response |
| `file_cache_stall` | a silent upstream | **violated**: a request never leaves its handler |
| `http_server` | 2 clients, one descriptor, 3 and 1 requests per connection, every fault | one operation per socket, responses in order, the process ends only by a signal, out of the router, or by the read of a reset connection (`EndsForCause`), nobody who waits is forgotten, the accept chain ends only by a failed accept, a signal ends the process (`SignalStops`), every client sees a session of `HttpSessions` (`ImplementsSessions`) |
| `file_response` | 4 versions of 3, 3, 0 and 1 bytes, `W` = 4, every `Range` header; 4 modification times around both changes of daylight saving, two of them at the edge of a second; an offset of -2 | a 206 is the part that was asked for (`RangeExact`), parts fit together (`CopiesIntact`), a 304 confirms nothing newer than what the client has (`ConfirmedCopies`) and is not withheld (`UnchangedConfirmed`) |
| `range_length` | the same | **violated**: the `Content-Length` of a 206 is not the length of its range |

The properties of `file_cache` and `file_cache_live` need at most two clients at once (a reader and
a fetcher of the same path, or of a path that is its directory), two versions to tell bodies and
targets apart, two targets of one path so that one is served what was fetched for the other, and two
attempts so that one is not the last (`file_cache` has three, as the configuration does); three
nested paths let a file, a directory made for it and a directory above both exist at once. For
`dht_index`, `remove_entry` touches one node and, through an address or a shard, one other at a
time: three nodes at two addresses give every sharing and every order of leaving, with a third that
is not involved; two generations and two times give every order of the comparisons. A second shard
would only repeat the first, as no definition relates two shards. `node_api` needs two nodes so that
one can change while the other is asked about. For `http_server`, three requests let one be skipped
between two answered ones, and one descriptor for two clients makes an accept fail and lets it be
seen that the chain never recovers. In `file_response`, with two bits for a `size_t`, sizes from 0
to the largest number, and every number, sign and malformed text at either end of a range, each
comparison of `parse_range_header` meets all its boundaries, its wrap-arounds included.

The clients and versions of `FileCache`, and the addresses and shards of `DhtIndex`, are
interchangeable (no definition names one), so symmetry is used in the runs of these two modules that
check no liveness. `CHECK_DEADLOCK FALSE` is set only for `http_server`, whose process may exit.

### Fairness

* `FileCache`: weak fairness of the attempt's and the return's steps (the thread runs;
  `AttemptStalls` is not fair, so a run with the fault may go silent), strong fairness of each
  waiting client's handler (the io_context serves completed reads in order, while the thread is busy
  again and again). Nothing obliges a client to read, or the upstream to publish.
* `NodeApi`: none; its properties are safety properties.
* `HttpServer`: strong fairness of the signal's handler and of `Serve(c)` for every client: whenever
  the thread comes back from the router again and again, a connection on which something is to be
  done (accept, read, return from the router, write) comes forward in the end, since io_context runs
  handlers in the order of completion. Two things are assumed beyond the code: a client takes its
  response or resets (no timer would end the wait otherwise), and the router returns or throws
  (`file_cache_stall` shows how a silent upstream keeps it from that).

## Disagreements between code and documentation

Each of the six violated runs is a finding in `PROJECT.json`, with the sentence it contradicts. Met
while modelling, and without a run of their own:

* `clean_by_expiry_time` is called only by a client's POST; `README.md:41` says "Automatic expiry
  cleanup" and `docs/CURRENT_STATUS.md:50` "Automated expired node removal". In the model, too, an
  expired entry may stay forever: that `ChangesAuthorised` holds says that nothing but a POST or a
  restart ever removes one.
* Two live nodes may share an address; it resolves to the one that stored last, and to nobody once
  that one has left (`docs/dht_operation.md:192`, "Bidirectional mappings").
* A shard whose holders have left is answered with an empty set (`docs/dht_operation.md:98`,
  "`nullptr` if no nodes contain the shard").
* `If-Range` is never read, so a resumed download of a file that was deleted and fetched anew mixes
  versions; `CopiesIntact` excludes exactly this case.
* `README.md:35` and `docs/CURRENT_STATUS.md:25` have "3 attempts, exponential backoff: 1s, 2s, 4s".
  The code does not sleep after its last attempt, so three attempts sleep 1 and 2 seconds and never
  4: `ThreeAttemptsThreeSeconds` proves it.
* A target is joined to the cache directory as it is (`io.cpp:161-168`), so one that is spelled
  differently, and is another file to the upstream, can be answered from a file that was fetched for
  the first, or that was there before; "Fetches files from upstream and returns them directly"
  (`README.md:31`) holds only of a target whose path no other names.
* `response_builder` calls the router without a try block (`transmission.cpp:80`): a lookup that
  throws, or a text that is not UTF-8 in an answer, ends the server. The "Error handling with
  retries" of `README.md:35` covers the fetch alone.

## Proofs

| theorem | for every | says |
|---|---|---|
| `DhtIndexProofs!TypeCorrect`, `IndexesAgree`, `QueriesExact`, `AddressesForward`, `SweepsExact` | set of nodes, addresses, shards, integer timestamps | the invariants of `dht_index` |
| `DhtIndexProofs!Refinement` | the same | `Spec => Registry!Spec`: the containers are the map, a sweep takes effect at once |
| `DhtIndexProofs!AddressesBothWays`, `NoPhantomWhenApart` | the same, as long as no two nodes are registered under one address | the two address maps are inverse to each other; no address outlives its node |
| `FileCacheProofs!TypeCorrect`, `BodiesStayIntact`, `FailuresNotCached`, `CacheImmutable` | number of clients, paths, pieces, versions, attempts; any faults | `TypeOK`, `BodiesIntact`, `FailureNotCached` and `CachedNeverChanges` |
| `FileCacheProofs!BackoffIsExact`, `NetworkFailureIsFinal`, `ThreeAttemptsThreeSeconds` | the same; the last with three attempts | at every attempt the handler has slept one second less than the next power of two; a fetch that fails for the network has made all attempts and slept 2^(attempts-1) - 1 seconds; with three attempts that is 3 |
| `FileCacheProofs!BackoffFitsInt` | the same, at most 32 attempts | `1 << retry` does not overflow |
| `FileCacheProofs!CompleteUnlessKilled` | the same, with neither write errors nor kills (`Sober`) | `CompleteWhenServed` |
| `FileCacheProofs!NobodyStranded`, `LostOnlyForCause` | the same; any faults | a client is being fetched for exactly while it is the job's; `LostForCause`: who has asked goes without an answer only by a kill, a lookup that throws, or a failed fetch for a conditional request |
| `FileCacheProofs!Implementation` | the same, without write errors (`DiskWorks`), kills and exceptions allowed, any map from targets to paths | `ImplementsReadThrough`: a fetch is a step of the map when it opens its file, whatever else fails |
| `NodeApiProofs!ApiTypeCorrect`, `AcknowledgedIsRegistered`, `AnswersAreExact`, `CleansAreComplete`, `OnlyNodesChange` | set of nodes, addresses, shards, timestamps, requests | the safety properties of `node_api` |
| `NodeApiProofs!PromiseThroughHttp` | the same | every step is a step of `NodeRegistry`, or a restart that empties it, or invisible |
| `FileResponseProofs!TypeCorrect`, `RangesAreExact`, `ResumedCopiesAreIntact`, `ConfirmationsAreFresh`, `UnchangedIsConfirmed` | sizes, width of `size_t`, modification times, time zone, daylight saving | all properties of `file_response` |
| `FileResponseProofs!ResponsesAreFramed` | the same, as long as the size of a body counts from its seek (`SeekCounts`) | the length of every response is the number of bytes that follow |
| `FileResponseProofs!LengthIsRangeOfRest` | the same, `SeekCounts` or not | the length of a 206 is that of its range exactly if the range runs to the end of the file (and begins at 0, where the seek does not count) |
| `HttpServerProofs!TypeCorrect`, `OneOperationEach`, `InOrder`, `EndsOnlyForCause` | number of clients, requests, descriptors; any faults | the safety properties of `http_server` |
| `HttpServerProofs!WaitersAreServed` | the same | for a connected client that waits, having sent nothing ahead, there is always one operation, and it will answer its next request or end its session |
| `HttpServerProofs!Implementation` | the same | `ImplementsSessions`: every step of the server is one step of one client's session, the end of all, or invisible |

Assumptions are those named in the modules: timestamps are integers, `Absent`, `Missing`, `Dir` and
`NoJob` are no values of the types they are added to (`Missing` no version either), at least one
piece per file, natural bounds; every target has a path; the relation `Above` of paths is
irreflexive and transitive; a file is smaller than `W`; modification times lie after 1970.

*`DhtIndex`.* The inductive invariant is the conjunction of the named parts `SameNodes`,
`OnePairPerNode`, `HoldersExact`, `AddressesCurrent` and `SweepExact` with the type. None is
inductive alone: `remove_entry` finds the pair to erase through `idToExpiry` and the shards through
`idToShards`, so the erasures are exact only if these agree with what is erased. `Remove` and
`Insert` are treated in two lemmas each (types; what every map holds after), and the two handlers
that combine them follow from the lemmas. The refinement needs the invariant for `SweepExact`: only
then is the set of nodes swept so far plus those still in the list the set expired at the time the
sweep began. `AddressesBothWays` adds `MapsInverse` to it: with the maps inverse, `remove_entry`
erases exactly the address of the node, and a node that joins finds its address free. The hypothesis
is about the state after each step, so a node may take over an address once it is free. Its
contrapositive says what it takes to see the run `dht_phantom_address`: two nodes at one address,
and nothing less.

*`FileCache`.* `BodiesIntact` is inductive only together with `JobInv`: before it opens the file the
running handler's path has no file, and while it writes nobody is reading that path. That holds
since a client reads only what is a regular file, the handler started because its path was not one,
and no other handler runs meanwhile. Nothing in this asks which target a path was named by, or
whether the file was there at the start. `CompleteWhenServed` without faults adds that a file is
whole unless it is the job's own. The retries have an invariant of their own, `RetryInv`: what the
handler has slept is one less than the next power of two, and `retry` stays below the number of
attempts until the handler has its result. That `Shifted` obeys its recursion has to be proved
first, which `BackoffProofs` does without the library's induction theorems (their parameter is an
operator): a set of naturals that holds 0 and every successor is all of them, since the least number
outside would have a predecessor inside. Applied to the set of all bounds up to which a function
that doubles exists, it gives the function and that two of them agree. `Shifted` is unbounded where
the code's `int` is not; `BackoffFitsInt` shows that this makes no difference up to 32 attempts. The
refinement needs that a failed fetch leaves no file (`FailureNotCached`), so that a refused client
asked for what is not in the map, and `BodiesIntact`, so that every piece has the version in the
map; `NotForDisk` and `ReadersServed` add that a fetch fails for no other reason and that a reader
was not refused. The map does not promise that bodies are whole: a kill may leave a short file,
which is then served for good. `NobodyStranded` is the converse of what `JobInv` says of the job's
client, kept because a handler begins only when none runs; and `LostOnlyForCause` gives what else
than the finding `HandlersRespond` can cost a client its answer.

*`NodeApi`.* Its steps are steps of `DhtIndex` or leave it alone, so the invariant of
`DhtIndexProofs` is kept and its lemmas on `Remove` and `Insert` say what changes. `HandlingInv`
relates the sweep to the request: while a `clean/expiry` is handled the list is all that is still
expired, and at other times it is empty. So nothing is expired when the list is empty, which is
`CleanedUpTo` at that moment; later only an acknowledged entry can bring an expired node back.
`PromiseThroughHttp` takes the refinement of `DhtIndex` step by step, as a restart is no step of it.

*`FileResponse`.* `CopiesIntact` alone is not inductive: `CopyFits` says what an unfinished copy
holds (a beginning of one version) and that without a deletion the file is still the one it came
from. `ConfirmedCopies` uses that every reading of a time is within a second of it, and summer time
within an hour. For the lengths `ReplyShaped` says that every response is one of three kinds, all
made by known operators from a size and a header; so what holds of the operators for every size and
header holds of every response. Outside its range a 206 still sends what it announces, and the
client stays in step with the server.

*`HttpServer`.* `ResponsesInOrder` needs to know where the unanswered requests are: the numbers in
`inbox` increase, all exceed the one being answered, which exceeds all answered ones; and for a
client that never sent ahead there is at most one, and its number is the next. A request counts as
being answered from the moment it enters the router. The refinement needs the same facts: the
earliest number pending is the head of `inbox`, so that the request that enters the router is the
one `HttpSessions` takes up, and what the `flat_buffer` loses is a beginning of what is left; and
`OneOperation`, so that a handler finds the socket in the state that the session says.
`WaitersAreServed` needs `AllHeld`: a request that a client sent without sending ahead, and that is
not answered, is in the socket or in the handler, never in a `flat_buffer` that is gone. Every
handler keeps it, since each of its returns either starts the next operation or closes the socket.
With `OneOperation` and the numbers above, that leaves one operation, and it is about this request.

Model-checked only: the liveness properties `RequestsHandled`, `RequestsAnswered`,
`ConnectionsAccepted` and `SignalStops`, since they rest on fairness and so on `ENABLED`, which is
beyond the prover (what `RequestsAnswered` and `RequestsHandled` need of the states, that nobody who
waits is forgotten, is proved: `WaitersAreServed`, `NobodyStranded`); the violated properties of the
findings, which no theorem could state. Every other property of a passing run is stated by a
theorem.

## Not modelled, and why

* Parsing of headers, JSON, configuration and command line; how `plain_response_router` cuts the
  path out of a query string; names of months in dates; the body of messages.
* `PackageParser` is called by nobody and keeps no state.
* The 8 MB limit of the response parser is the fault `network` at every attempt; sizes of upstream
  files are not modelled.
* `1 << retry` overflows for `max_retries > 32` (`BackoffFitsInt`); 31 backoffs take decades.
* What changes the cache directory besides the server; symbolic links.
* `Validator::calculate_sha256`/`verify_sha256` are called by nobody.
* `ClientTrans`, `clean_by_liveness`, `entry_builder` have no behaviour yet.

## Plan

Done: all modules above with their proofs. Callers of `NodeApi` are arbitrary, so a module for the
delivery of advertisements would add nothing to it. What is left, by importance:

1. `FileCache` as the router of `HttpServer`, in place of the step that returns: the composition of
   both state spaces is too large for one run as it stands.
2. `PackageName`: `PackageParser::parse` over short sequences of character classes, once something
   calls it.
