# TLA+ models of the EDITO publishing toolkit backend (EPT)

EPT is a FastAPI service that helps EDITO users to prepare, validate, convert
and publish STAC metadata and data.  These modules specify the parts of it that
have state, concurrency and failure, check them with TLC on small instances, and
prove with TLAPS what can be proved for instances of any size.

Source paths below are relative to `src/ept/`, documentation to `src/docs/`.
`PROJECT.json` maps every definition to the lines it models.

## 1. The system

A single uvicorn worker runs one asyncio event loop.  Feature routes run on it;
what blocks runs in threads (`asyncio.to_thread`, Starlette's `run_in_threadpool`).
Between two awaits a handler is alone; at every await everything else may move.
State outlives a request in five places only: the run registry, the owner state
file, the S3 session cache, the monitoring store with its counters, and what EPT
writes to S3.

| Component | State | Operations | Talks to |
| --- | --- | --- | --- |
| **Job runner** `features/job_runner` | `RunManager._runs` (status, times, result, task), tasks, the thread pool's queue | submit, list, get, cancel; prune at each submission; `_execute` | the operations it runs, the default executor |
| **STAC traversal and validation** `features/validate_stac`, `infrastructure/formats/stac/read.py` | per run: queue, visited, skipped, the batch in flight, nodes by URL, child edges | root fetch, version gate, batches of gathered requests, validation in a thread, report | STAC servers; runs inside the job runner |
| **ARCO conversion of STAC items** `features/arco_stac_item` | per run: the Item read, plans, results, taken keys; on S3: outputs and Items | plan, convert asset by asset, name and add results, write the Item | S3, the converters, upload; runs inside the job runner, in a thread |
| **Owner binding, authentication, S3 sessions** `api/owner_binding.py`, `api/auth.py`, `api/dependencies.py`, `infrastructure/services/edito_auth.py` | the state file, `_s3_sessions`, the JWKS cache | password and refresh grants, bearer validation, claim, session store and look-up | Keycloak, MinIO STS; guards every protected route |
| **Monitoring** `infrastructure/utils/monitoring.py`, `api/app.py`, `features/monitoring` | log queue, listener thread, SQLite store, request counters | emit with pruning, search, status, request start and end, lifespan start and stop | every component logs through it |
| **S3 upload** `features/upload_s3`, `infrastructure/storage` | none between requests; objects on S3 | check and put, stream from HTTP with retries, copy a prefix, list, delete | S3, HTTP sources |
| **Publish, remove, job status** `features/publish_stac`, `remove_stac`, `get_publish_job` | none; a job at the EDITO ingest API | submit, remove, fetch a job and its events page by page | EDITO data API |
| **Catalog and collection trees, search** `features/stac_catalog_tree`, `stac_collection_tree`, `stac_find`, `stac_get`, `get_my_catalogs` | per request: the tree under construction | expand a hierarchy, export, search | EDITO STAC API |
| **Data format conversion** `features/nc_to_zarr`, `gdb_to_parquet`, `shp_to_parquet`, `infrastructure/formats` | local work directories, outputs on S3 | read, encode, clear and fill a store, put files | S3, xarray, zarr, geopandas |
| **Builders and metadata conversion** `features/stac_build_*`, `iso_to_stac_item`, `netcdf_to_stac`, `zarr_to_stac` | none | map one document to another | - |
| **Assembly and errors** `core`, `api/errors.py`, `api/routes.py` | the feature registry, fixed at start-up | register, import, map exceptions to problem documents | - |

### What is hard, and what makes each part correct

*Job runner.*  A run's task, the thread it waits for, the requests that cancel
it and the submissions that prune it interleave at every await.  Correct means:
every submitted run ends, once, and with a status nobody overwrites; a cancelled
run never succeeds; only ended runs are forgotten, the oldest first; a DELETE is
answered within its wait; no worker and no queue entry leaks.

*Validation.*  A catalog is a graph with cycles, shared children, pages, broken
and foreign objects, fetched in concurrent batches under limits.  Correct means:
each URL is fetched at most once and only on the catalog's host; a run stays
within its limits and ends; it covers what it should; and the report is a tree
that holds all that was found, says so when it was cut, and is refused when the
catalog is of another version.

*ARCO conversion.*  A run makes dozens of requests, may fail at each, is
repeated by its user, and may overlap with another run on the same Item.
Correct means: an Item names only finished outputs, keeps the assets that are
not the run's to replace, holds no output twice, and nothing is overwritten
unless asked for.

*Owner binding.*  The first logins of several users race; writing the state file
may fail; the service restarts.  Correct means: one user is served as long as
the file is there, he is never locked out, nobody is served by an unclaimed
instance, and S3 sessions are held for users that were served only.

*Trees.*  Dozens of documents are read and written one by one, each may fail,
and one route reads what the other has written, perhaps while it writes.
Correct means: a finished tree's links lead to what they name, its extents cover
its items, nothing that was found is left out, and nothing is replaced unasked.

*Find.*  Chains of requests to an API that fails, loops, and calls things by ids
and by names.  Correct means: what is not found is not there, a dead catalog
costs its own subtree only, and every request is answered.

*Monitoring.*  A listener thread, requests that search while it writes, a store
that fails, stops and crashes.  Correct means: the store holds the newest records
and its counts are true, what is shown is there to stay, and what was logged is
handled also when the process stops.

*Publish.*  Submissions are not idempotent and their answer may be lost; keys of
the realm are cached; logs grow while they are read page by page.  Correct means:
one request makes one job at most, the links lead a reader through the whole log,
and a good token is not blamed for Keycloak's failures, but where section 5 says so.

*Uploads, conversions, builders.*  Existence checks before puts, attempts after
partial transfers, folders that are written in part, several requests at once.
Correct means: an answer says what is in the bucket, what was there is not
overwritten unasked, and nothing is delivered before all is converted.

## 2. The modules

    RunLifecycle   <--implements--  RunManager  --->  RunManagerProofs
                                        ^--- MCRunManager
    StacPayloads   --->  StacValidation  --->  MCStacValidation
                             |--------------------+
    ThrottledRead  --->  MCThrottledRead          +-->  StacReadProofs
        |-----------------------------------------+
    StacFind       --->  MCStacFind               |
        |-----------------------------------------+
    ArcoItem       --->  MCArcoItem,       ArcoItemProofs
    InstanceAccess --->  MCInstanceAccess, InstanceAccessProofs
    StacTreeBuild  --->  StacTrees  --->  MCStacTrees
    Monitoring     --->  MCMonitoring,     MonitoringProofs
    Publishing     --->  MCPublishing,     PublishingProofs
    Uploads  --->  VectorConversion  --+
        |--------> StacBuilders -------+-->  StorageRequests  --->  MCUploads
                                                   +--->  StorageRequestsProofs
    Lists          --->  StacPayloads, StacFind, ArcoItem, VectorConversion,
                         RankTheorems
    RankTheorems   --->  RunManagerProofs, StacReadProofs, MonitoringProofs,
                         ArcoItemProofs, StorageRequestsProofs

### RunLifecycle, RunManager

`RunLifecycle` is what a client may rely on: a run is absent, queued, running,
stopping, ended or forgotten, and these are the ways from one to the next.

`RunManager` is the code.  One step is an uninterrupted stretch of the event
loop, one act of a worker thread, or one completion from outside:

| Module | Code |
| --- | --- |
| `Submit`, `Pruned` | `submit_run`, `RunManager.submit`, `_prune` (both in one stretch) |
| `Start`, `Resume`, `Advance`, `Await`, `Leave`, `End`, `Record` | `_execute`, and the runner it awaits up to its next await, its `finally` block included |
| `DropUnstarted` | a task cancelled before its first step: its coroutine is never entered |
| `CancelQueued`, `CancelRunning`, `Acknowledge`, `GiveUp` | the DELETE handler and `RunManager.cancel`, before and after its wait |
| `Wake`, `Interrupt`, `DropCall`, `TakeCall`, `FinishIO`, `FinishCall`, `Deliver` | asyncio's task and future semantics, and the default `ThreadPoolExecutor` (external) |

An operation is the sequence of awaits of its runner, each an event-loop future
or a pool call, and whether it has a client to close: `arco.stac-item` is one
pool call, `stac.validate` an I/O and a pool call with a client.  A run's result
and error text are left out: nothing depends on them.

### StacPayloads, StacValidation

`StacPayloads` is what `fetch_stac_objects` makes of an answer and what the two
`discover` functions (static catalogs, STAC APIs) put into the queue: data only.
`StacValidation` is the traversal with the service around it.  `_bfs_batches` is
an async generator that is suspended at its `yield` while the service validates
the batch, so a step is: a request of the batch is answered (`Answer`), the
gathered batch is yielded and gated (`Yield`), or the thread's nodes are
accumulated and the generator takes the next batch (`Validated`, which is
`Accumulate` and `Fill`).  The loop that pops the queue into a batch is said by
what it pops: `Eligible` entries are of the host and the first of their URL,
`TakenBefore` counts those ahead of an entry, and an entry is `LookedAt` as long
as that leaves room in the batch and under the cap.  The servers' answers are a
function `web` chosen at the start, so an instance quantifies over catalogs.
Which rules an object breaks is abstracted to whether it breaks any
(`sound`), its version to whether it is the latest.

### ThrottledRead

What `StacValidation` takes as one answer: any number of `read_stac` calls that
share the slots of a traversal (`Enter`, `End`), each with its attempts.  `Look`
is `_guarded_get` before a GET (is the URL public, and of the host that is
meant?), `Redirected` the redirects it follows by hand, `Throttled` and
`Unreachable` what is tried again after `Wait`, `Answered` what is final, `Wake`
the next attempt, which starts from the first URL.  `Tick` is a second, for the
sleeper and for the server that asked for it (`rest`).  DNS answers anew at each
look.

### ArcoItem

Runs of `arco.stac-item` as threads that interleave between any two requests to
S3.  `Read` reads the Item and plans; `Convert` starts an asset's conversion;
`Clear`, `Verify`, `Create`, `Fill` are the writing of a Zarr store, `Check` and
`Put` that of a file; `StartAdding`, `Add`, `StartWriting`, `Write` are the end
of `_run`.  `Fail` may happen at any of them and `Truncate` while an upload is
copied; neither cleans up, as the code does not.  A store has two halves,
metadata and chunks, so that two runs which fill it at once leave a mixture; an
output remembers which source its halves were made of, which is how the
properties tell a complete output from a broken one.  A key is a name and the
numbers after it, because `_stale_generated_keys` takes them apart; `SafeName`
says what `safe_export_name` makes of a name, which may be another key of the
Item, with or without a number.

### InstanceAccess

Password grants, refresh grants and bearer requests (listing buckets stands for
them, it also looks up an S3 session) up to their answer.  `Answered` and
`LegFails` are what a handler awaits; `Pass`, `Reject`, `StartClaim` are
`check_owner` on the loop.  It does not await, but it is not one step: between
the temporary file and its replacement the service may stop (`Restart`) and the
operator may delete the file (`Lose`), so a claim is `StartClaim` and `Claim` or
`ClaimFails`, and `loop` keeps the other handlers out meanwhile.  `Misread` is a
read error on an intact file, which the code treats as an unclaimed instance.

### StacTreeBuild, StacTrees

`StacTreeBuild` is what is made of documents: paths and relative links, unions
of keywords, providers, licenses and extents, derived collections and catalogs,
the claims of collections on loose items, and the layout of a whole tree with
its links.  It is data only, of `stac_collection_tree`, `stac_catalog_tree` and
`infrastructure/formats/stac/{fetch,collection,catalog}.py`.  `StacTrees` is the
two routes on the storage: one thread per request, a step per document read
(`Read`, `ReadFails`), the check, and a step per file written (`Write`,
`WriteFails`).  A document keeps what the builders look at: type, id, title,
validity, links, keywords, providers, licenses and an extent: a box on one axis,
which may cross the antimeridian, a datetime, a start and an end.

### StacFind

One request, since none shares anything with another.  `Exact`, `Filter`,
`List`, `EndResolve`, `Retry`, `Scan` and `Mine` are the GETs of the six primitives
and of `get_my_catalogs`, in the order in which the functions send them;
`Fetch` and `Arrive` are the gathered fetches of a level of catalogs behind the
semaphore.  A GET fails, or is answered with a text, as a step of its own kind,
and what the code does with that is modelled too.  Texts are the sets of the
fragments they contain, so that "contains" is membership.  What is kept of a list
(a page, the items that match, the links that are new) is said by its indices.
The listing that resolves names has a page size of its own (`ResolveLimit`, 100 in
the code).  Keys of properties have a case (`Lower`).
`FindAssumption` asks of an API that the text of a collection contains its id, as
`_collection_text` has it, and that an item belongs to a collection that is listed.

### Monitoring

`Log` gives a record its time and `Enqueue` puts it into the queue, which are
two steps because threads overtake each other between them.  `Handle` is a turn
of the listener: file, then insertion, deletion and commit of the store;
`HandleFails` ends the listener at any of the statements.  `Enter` and `Leave`
are the middleware, `Search`, `Measure` and `ReadDropped` the three reads of the
logs route.  `Shutdown`, `StopListening` and `Exit` are the end of the lifespan,
`Crash` and `Start` take it down and up again on the database that is left.
What is committed (`disk`) and what the connection sees (`rows`) are apart.

### Publishing

A request arrives, is admitted (`authenticate` with the cached keys, the owner,
the inputs), is sent once, and is answered with what came back or did not.
`cached` outlives requests; `LookUp` is what PyJWT makes of it, of a certs endpoint
that does not answer, that answers with something else than a key set (which the
library may keep) or with no JSON.  The publishing service is external: it makes jobs,
writes events, pages them, and may refuse, lose an acknowledgement, or send
something else than JSON.  A caller who follows links does so with the very link
EPT has rewritten, which is what the property about links is about.

### Uploads, VectorConversion, StacBuilders, StorageRequests

`Uploads` is `upload_s3` over `put_to_s3`, `_put_s3_url` and the listing of HTTP
stores: `Start` tells the way (file, folder, URL, store), `Check` and `Put` are
apart as they are in the code, `Open` and `Copy` stream a URL, `ListPage` lists.
`NotFound` is what an attempt that finds nothing leads to: the next attempt, the
listing, or the answer.  `VectorConversion` adds the conversions of geodatabases
and shapefiles (download, convert layer by layer, deliver or write a directory),
`StacBuilders` the exports of the three builders, and `StorageRequests` composes
all three over one bucket, so that any of them meets any other there.

### Lists

Python's comprehensions and sorted lists by index (`Nth`, `Picked`, `InOrder`):
the assets of an Item that are kept, the entries of the queue that make a batch,
the layers of a conversion that are asked for, the files of a directory in their
order.  Said so, and not by filters and
sorts that recurse, they can be reasoned about.

## 3. What TLC checks

Every passing run explores its instance completely.

| Run | Instance | States | Shows |
| --- | --- | --- | --- |
| `runner_prune` | 3 runs, 1 caller, 1 worker, 3 clock values, cap 2 | 85,000 | what a submission forgets, that it is the oldest, and that it leaves room |
| `runner_live` | 2 runs of both operations, 2 callers, fairness | 26,000 | `Consistent`: no run without a task that will end it, no lost wake-up, the pool agrees with the tasks, what a DELETE may see; refinement of `RunLifecycle`; every run ends; a cancelled run stops |
| `stac_validation` | some 14,000 pairs of a catalog or API of up to 6 URLs and a request | 98,000 | fetched once, on one host, within limits; coverage; the report is a tree with all in it, says when it was cut, and loses only what was replaced; termination |
| `throttled_read` | 2 reads of 2 and 3 attempts, 1 slot, 4 URLs of 3 hosts | 182,000 | how often and what a read asks, when it gives up; every read ends |
| `arco_item` | 2 runs, 4 Items of 2 or 3 assets, 24 requests | 2.0 million | Items name finished outputs, made of their sources; keep assets, replace their own; overwrite only if asked |
| `arco_originals_doc` | 1 Item | - | violation, section 5 |
| `instance_access` | 2 users, 2 requests, 3 clock values | 790,000, up to symmetry | one owner, never rejected, served only when bound, sessions owned |
| `trees` | 2 threads, 3 requests out of 19, one fault | 1.5 million, up to symmetry | trees are sound and complete, also those made of trees; nothing replaced unasked |
| `find` | several thousand pairs of an API and a request, 2 faults | 156,000 | the walk and the searches are complete, a dead catalog costs its subtree only; every request is answered |
| `monitoring` | 2 threads, 3 records, a store of 2, one query, one fault | 509,000 | counts are right, searches are true, records are handled |
| `publishing` | 2 callers, 14 requests, 4 tokens, one fault | 207,000 | jobs are asked for, links lead on, good tokens are not blamed, reads end |
| `uploads` | 2 requests out of 32 kinds, 3 keys, one fault | 517,000 | answers are true, existing objects kept, conversion before delivery, uploads end |

Some properties are conjunctions of named parts (`Consistent`,
`TraversalIsBounded`, `ReportIsSound`, `Coverage`, `TreeIsSound`, ...): each part
has its own comment, and TLC checks them all.

### Bounds, and why they are enough

*Runner.*  One worker makes a waiting call reach every state next to a busy one;
a third run makes the queue and the prune order matter; two callers tell own
from foreign runs.  Times are compared only, so one tick beyond `Retention`
separates stale from fresh: three clock values with a retention of one.
`MaxRuns` and `MaxClock` bound what would grow without end and are guards of
`Submit` and `Tick`.  `runner_prune` has the clock and the third run,
`runner_live` the second caller and the second operation: the prune looks at
ended runs and their times only, cancellation at no times, and RunManagerProofs
has both for any number of each.

*Validation.*  Three levels with a page show every kind of depth and parent
there is; a queue with more entries than `max_concurrency = 2` takes several
batches; `max_objects` of 2, 3 and 9 cut early, late and never.  The catalogs
include cycles, two parents, self links that name another object, junk features,
foreign links, broken and outdated objects, and a later page that links higher up
than the longer way by which the URL was reached first.

*Throttled reads.*  One slot for two reads makes one wait while the other sleeps;
three attempts have a first, a middle and a last.  `MaxHops = 1` where the code
has 10, `MaxWait = 3` where it has 30, and a server's wish of 0, 2 and 5 seconds:
below, beside and above the back-off and the longest wait.  Of the URLs two are
of one host, one is an address of its own, and one is not well-formed.

*ARCO.*  Two runs are enough for every race on an object or an Item, and for a
repeat after a success or a failure.  The Items have a source of several layers,
assets named like generated ones, two files of one name, and keys that are not safe:
one becomes the key of another asset, one a numbered key.

*Access.*  Two users and two requests race for the claim; a clock of three
values outlives a session of lifetime 1.  Users and requests are symmetric, the
properties name none, and no liveness is checked there, so `SYMMETRY` is sound.

*Trees.*  Three requests are enough for one that writes, one that reads what it
wrote, and one that disturbs either (`MaxRequests`), with one failing read or
write (`MaxFaults`).  The sources have items of a safe and an unsafe name, in and
outside their collection's folder, in folders whose names become the same, open, hidden and missing extents, a box
across the antimeridian, a nested catalog and a file that is no JSON.  Threads are interchangeable, `SYMMETRY` is used and no
liveness checked.

*Find.*  Two pages of at most three entries show every kind of end of a listing; with
`ResolveLimit = 2` names can be resolved within the pages where items cannot be
listed, and the reverse.
`MaxPages`, `MaxDepth` and `MaxFetches` are 2, 3 and 2 where the code has
50, 5 and 8, so that each is reached.  The trees of catalogs hold a cycle, a
shared child, a dead link, a foreign link, and one level more than the walk goes.

*Monitoring.*  A store of two rows with three records prunes; `MaxFaults = 1` is
a failing statement or a crash, after which the process starts again with a full
database.  `MaxTime` lets two records come in another order than they were made.

*Publishing.*  Logs of up to three events are read in pages of one, from their
start or from a cursor, which takes more links than there were events at the
start; two keys, one of which Keycloak takes back.  The one fault may be an odd answer of the certs endpoint.  `MaxAsked`, `MaxEvents` and `MaxFaults` are bounds.

*Uploads.*  Three keys are a target and two members of it, listed in pages of
two; two attempts where the code has three tell a first from a last one; with
`MaxFaults = 1` one of all failures there are happens anywhere.

### Fairness

`LoopFairness`: the event loop runs ready tasks and its timers fire.
`NetworkFairness`: HTTP operations end, since the clients have timeouts.
`PoolFairness`: threads end what they are given; the code cannot promise that of
an xarray conversion, so it is a hypothesis of `EveryRunEnds` and is not
assumed by `CancelStops`.  `StacValidation`'s `FairSpec` assumes that requests
are answered or time out and that the validating thread ends, `StacFind` that
its GETs are answered or fail, `Publishing` that a call is answered or fails and
its caller follows its links, and that cached keys get old (`Proceed`, `Follow`,
`Forget`: PyJWKClient keeps them for a limited time; nobody has to ask, to refuse,
or to write events), `ThrottledRead` that a look-up and a GET end and timers
fire, `Monitoring` that the listener thread is scheduled
and a join returns (not that anybody logs), `StorageRequests` that a thread goes
on with its own request (not that anything fails).  `ArcoItem`,
`InstanceAccess` and `StacTrees` claim no liveness.

## 4. What TLAPS proves

From the assumptions on the constants only (`ConstantsAssumption` of each module,
`ReadAssumption` of `ThrottledRead`, `FindAssumption` of `StacFind`): any number of
runs, callers, workers, operations, users, requests, records, servers, events, Items and assets, any catalog, and any cap, retention,
lifetime, depth, page size and number of attempts.  Each component has one inductive invariant
(`Inv`, `AllReadsInv` of the reads, `FindInv` of finding), which TLC has confirmed on the run's instance, a lemma per action, and
`Invariance`; the theorems about the runs' properties follow from it.

**RankTheorems.**  "The k newest" and "the k-th" are said through the number of
elements that come before one.  `PlaceBijection` proves that this number is a
bijection from a finite, strictly ordered set to 0 .. n - 1, by the pigeonhole
principle, and `FirstPlaces` that as many elements as one asks for come first.
Sorted lists and comprehensions (`Lists`) pick by the same number: `NthOf`,
`PickedEntries` and `InOrderEntries` say what is in them.  The prune of the runs,
the page of a search, the assets of an Item and the layers of a conversion rest
on these.

**RunManagerProofs.**  The safety invariants are not inductive: that a task is
alive does not follow from itself, but from how status, phase, `asked` and the
cancelled exception of a run constrain each other, and a call in the queue is
that of one task only if the queue has no duplicates and agrees with `job`.
`Inv` is therefore the type invariant with those facts about each task, the
queue and the DELETE waiters.  `TypeCorrect`, `RunsStayAlive`,
`WakeupsAreNotLost`, `PoolStaysConsistent` and `DeletesAnswer` follow, the last
four together as `StaysConsistent`, and `RunnerImplementsLifecycle` uses it to
map every step of the code to a step of `RunLifecycle` or to a stutter.  The
invariant for instance says that an awaited result is discarded when its run is
asked to stop: without it, a step from "stopping" to "succeeded" would have to
be excluded state by state.  `PrunesKeepTheNewest` and `SubmissionsCap`, together
`PruningIsFair`, are about the one step that forgets: `Before` is a strict order
of the ended runs, so the runs in the first places are the ones to go, and there
are exactly as many of them as the cap asks for.

**InstanceAccessProofs.**  `OneOwner` becomes inductive as `OwnersInv`: whoever
was served since the file was last lost is in the file, and while a request
claims nobody has been served.  That needs `RequestInv`, which says that the one
that claims has the loop to itself and all its legs answered.  `ServeKeeps` is
the step they share.  The theorems are `TypeCorrect`, `OwnerIsOne`,
`SessionsStayOwned`, `OwnerIsServed` and `ServedAreBound`, together
`InstanceStaysOwned` and `OnlyOwnerIsServed`.

**StacReadProofs.**  *One read.*  `GetsInv` bounds the GETs of a read by the attempt
it is in and the redirects it has followed, `RestInv` says that a server which
asked for a rest is still being waited for as long as the sleeper sleeps (what is
left of the one is no more than what is left of the other), and `TargetInv` that
the URL at hand was looked at.  `ReadsStayRight` follows, and `ReadTypeCorrect`
with the number of attempts in it.

*The traversal*, over every web of answers: cycles, shared and foreign links, pages
that lead to themselves.  What was asked for is the root and what was visited,
once each (`AskedInv`).  What waits in the queue, is being fetched or is validated
has its parent among the nodes or, in the queue only, among the objects that are
about to be nodes (`ParentInv`): a batch is taken from the queue only when the one
before it has become nodes.  What was answered was looked at (`GateInv`), and has
left a node if it was one object (`NodeInv`).  Until the root is validated the
queue and the tree are empty (`RootInv`), which is why it comes first; from there
on every node but the first hangs below an earlier one (`TreeInv`), and the report
is a walk from the first.  `TreeInv` is about catalogs whose objects have URLs of
their own so far, and that is inductive since nodes never outnumber the objects
that were validated.  `Filled` is what the loop that fills a batch does, from
`PickedEntries` and a count of the entries ahead; `NodesOfBatch`, `EdgesOfBatch`
and `RootOfBatch` are what the service makes of one; `Flattened` (lists of lists)
and `AllReported` (the walk) unfold two recursive functions, by their least
counterexample.  The theorems are `TypeCorrect`, `TraversalStaysBounded` and
`ReportStaysSound`.

*Finding*, over every API, paging, tree of catalogs and choice of failing GETs.
`ListedOf` says that the pages which were listed are the first ones of the listing,
so a listing that ends before the limit is complete (`ListingTurns`,
`ListingEnds`).  `ResolvedOf` is the two-sided invariant of the resolution: what was
resolved is meant, and what is meant was resolved or has a name that is still to
be; at its end a search for the resolved ids offers exactly `MeantItems`
(`OfferedIsMeant`).  `ExactInv` remembers across the resolution that the first search
had nothing to show, which is what an empty answer claims without asking again.
The walk is compared with `Within`, the paths within so many links of the root over
the catalogs that could be fetched: but a fetch that fails changes that set while
the walk is under way.  `Walked` is inductive all the same, because a level is
disjoint from what was walked before (except for the root, whose failure ends the
walk), so a failure takes away only what would have been linked to from this level
on (`WithinAgrees`, by the least depth that differs); and a walk that ends early
does so because nothing new is linked to, when deeper levels add nothing either
(`WithinIsClosed`).  `NewLinks` and `PathsAppended` are what the loop over the links
of a level keeps.  The theorems are `FindTypeCorrect` and `FindStaysComplete`.

**MonitoringProofs.**  A record has one place: on its way, in the queue, or in one
row of the store and of its database (`NumberInv`).  The store never holds more
than its capacity, agrees with the database as long as no statement has failed,
holds the latest of what came to it, and `dropped` counts the rest (`StoreInv`);
`CountInv` is the same for the counters of the requests.  A page is as long as
its query and the number of matches say, matches, is sorted, and tells no size
that is below what matched (`PageInv`); `SeenIsKept` follows a record that was
shown from there on.  `TypeCorrect`, `CountsStayRight` and `SearchesStayTrue`
follow; that the page holds the right records is that it is the first places of
what matches.

**PublishingProofs.**  Requests have ids of their own (`IdsApart`), and for an id
there is at most one job, none before it is sent, and one once it is acknowledged
(`JobsInv`, `MadeFor`): that is why one is made at most once, whatever is lost.
For the links the invariant is about the caller who follows them: what it has got
is the log from its first event on, up to the cursor of its next link (`Reads`),
and an answer under way goes on from there (`PageLeadsOn`), whatever is added,
because logs only grow at their end and in order (`LogsInv`).  That a good token
is blamed only after an answer that was no key set holds when the answer is made
and of it ever after (`Answered`), as a cache that is no key set is of such an
answer.
The theorems are `TypeCorrect`, `JobsStayAskedFor`, `LinksKeepLeadingOn` and
`GoodTokensStayUnblamed`.

**ArcoItemProofs.**  `OwnStep` says what a step of one run leaves of the others,
so every action is looked at for its own run only (`OthersKeep`).  Per run, `Inv`
says: what is delivered belongs to the conversion at hand (`StageInv`); no asset
is converted twice (`PlansInv`); a result has the key its conversion declares
until it is added, and one that fits its location ever after (`ResultInv`); the
taken keys are those of the Item (`ItemInv`).  From "fits its location" follows
that an asset which points at an output of the run has a stale key, hence
`ReplaceInv`; from the distinct keys that `UniqueKey` hands out (there is a free
number, since there are more numbers than keys) follows `KeepInv`, which counts
the assets as they are added.  `AloneInv` is what a run finds when nobody
disturbs it: each result is there and complete, unless a later one of the same
run has taken its place.  The theorems are `TypeCorrect`,
`ResultsStayDelivered`, `AssetsStayKept` and the action property
`OverwritesStayAsked`.

**StorageRequestsProofs.**  All requests that write the bucket, in one invariant.
What a job has uploaded and what is left of it are its targets, in order, at any
stage of any attempt (`JobInv`); what it has uploaded is in the bucket, whole
unless another request has overwritten it (`WholeInv`); and what of the bucket is
its own is uploaded, or is the target at hand, which a failed attempt may have left whole or, of a URL,
in part (`OwnInv`).  `LooksInv` remembers across the gap between the look and
the put: what is about to be put without leave to overwrite was absent when the
request came, as nothing is ever deleted.  `ConversionInv` says that layers have
files of their own, one more with every `Convert`, and that all are there before
the first is delivered.  `OthersKeep` is what a step of one request leaves of the
invariant of the others, whose objects it may replace but not remove, so every
action is looked at for its own request.  The theorems are `TypeCorrect`,
`AnswersStayTrue`, `ConversionsDeliverAll` and the action property
`ExistingIsKept`.

**Only model-checked.**  Liveness (`RunsEnd`, `Terminates`, `EveryFindAnswers`,
`ReadsEnd`, `RecordsAreHandled`, `EveryReadEnds`, `EveryUploadEnds`): TLAPS has
no
reasoning about ENABLED.  `Coverage`, which bounds what is fetched from both sides.  The two sides differ,
and have to: the queue is not in the order of the depths, because a page has the
depth of the first page and is fetched later, so a URL may be reached at the depth
limit first, keep that depth, and lose what is below it although a later page
links to it from higher up.  A catalog of the instance does that.  The properties of
`StacTrees`: the trees it builds are folds and recursive functions over nested
documents, and what those compute for every input needs induction over data, which
the installed provers cannot do.

## 5. Where the code and its documentation disagree

One of them is a run that TLC must find violated.

* `arco_originals_doc`: an asset whose key is `parquet` or `zarr` is replaced by
  its own conversion; `features/arco-stac-item.md:65` says originals are kept.

TLC has found the following ones in the same models.  They have no run of their own:
the property that is named holds, and says exactly where the code departs.

* Two items whose paths become the same once their segments are made safe
  (`i 2/item.json` and `i-2/item.json`, `infrastructure/formats/stac/catalog.py:150`),
  or of one file name outside their collection's folder, are exported to one path,
  and the second replaces the first; `stac_catalog_tree/service.py:20` calls the
  written tree complete.  `ExportIsComplete` has the condition.
* The extent of a collection does not cover an item that has a start and an end
  beside its datetime (`stac_collection_tree/service.py:408`), an open side of a
  preview's invalid item, or boxes of which some cross the antimeridian;
  `features/create-collection-tree.md:3` calls it the union of the items' bboxes and
  datetimes.  `ExtentCoversItems` leaves out just these.
* An `upload` of an asset whose key is not safe (`my data`) adds an asset `my-data`
  and leaves the source as it is (`arco_stac_item/service.py:223`);
  `features/arco-stac-item.md:64` says that it re-points its own source asset key.
  `KeepsAssets` says both.
* A certs endpoint of Keycloak that answers with a JSON which is no key set makes good
  tokens `invalid_bearer_token` (`edito_auth.py:355`), for as long as the answer is
  cached; one that answers with no JSON is a 500.  A test of it
  (`tests/infrastructure/test_edito_auth.py:332`) calls a failing fetch of the keys
  distinct from an invalid token.  `GoodTokensAreNotBlamed` has the condition.
* Cancelling a run that is in a thread ends it at once while the thread works
  on; `features/job-runner.md:86` says the step finishes first.
* A traversal cut at `max_objects` carries no warning when pages were among the
  URLs visited; `features/validate-stac.md:67` promises it.  `ReportIsSound`
  has the condition under which it holds.
* Of two invalid objects with one URL in a batch, one is lost from the report, and
  so is what hangs below itself by such a URL; `features/validate-stac.md:116` says
  every finding is there.  `OnlyReplacedAreLost` says that nothing else is lost.
* Two NetCDF assets with one file name share a store, and both results claim it
  (`arco_stac_item/models.py:183`); `DeliversResults` has the condition `Apart`.
* Cached S3 sessions outlive the STS sessions they hold: their time is counted
  from the end of the login (`edito_auth.py:283` says they expire together).
* `find_catalog` says that only a failing root fails the walk
  (`stac_find/service.py:211`); a catalog that is answered with something else than
  JSON, anywhere, is a 500.  `EveryFindAnswers` says that nothing else fails it.
* `find_properties` says that keys compare exactly (`stac_find/service.py:313`), and
  lower-cases those that are asked for (line 323): a key with an upper-case letter is
  never found, and of two that differ in their case the last one counts.
  `ScanIsComplete` has the condition.
* The store keeps DEBUG records that the log file, being on `LOG_LEVEL`, never
  gets; `features/monitoring.md` says that the complete history is in the file.
* An object that another request writes between `put_to_s3`'s check and its put
  is replaced, and both are told that they completed; `features/upload-s3.md`
  says that existing objects make it fail.  `KeepsExisting` is about the objects
  that were there when the request came.
* With S3 output the files of a vector conversion are listed by name, its layers
  as they were asked for; `gdb_to_parquet/models.py` says they correspond.

Observed while modelling:

* *Validation.*  A root that yields no object (a `/collections` listing, an empty
  FeatureCollection) is an `IndexError` (`validate_stac/service.py:193`); a
  FeatureCollection as root reports its first feature only; a report whose
  nodes are below themselves is a `RecursionError`.  The model ends these runs
  as "crashed".  `read_stac_api` describes depths that match static catalogs,
  but with `max_depth=1` it visits no collection; a collection that is reached
  by a static link at the depth limit first loses its items.  The version gate
  refuses whatever is not the latest version, also a newer one.  Comments speak
  of validation overlapping with fetching; the generator is suspended meanwhile.
* *ARCO.*  With `overwrite`, a user's own asset `data-2` is deleted when `data`
  is uploaded.  In place and without `overwrite`, a run fails only after every
  conversion, and leaves their outputs, on which a retry then fails.
  Overlapping runs lose updates of the Item, and two overwriting runs may leave
  a mixed store although one of them reported success; a cancelled run's thread
  overlaps with its retry in just this way.  `_resolve_bucket` validates the
  token, with its JWKS request, on the event loop.
* *Trees.*  Of a collection that is found twice the items of the second source
  are dropped; inline `collections` with a target are noted but not exported
  (`stac_catalog_tree/models.py:36` says they are); inline `catalogs` with a
  target are a preview only; the slug of an unsafe file name loses its `.json`,
  so that a later `source_prefix` does not see the file; an export in place
  drops links of items that an export elsewhere keeps; an export that failed
  half-way is refused by its own `catalog.json` when it is repeated without
  `overwrite`; relative links that are kept are not rewritten.
* *Find.*  The API's own scientific filter looks at `sci:doi` and `sci:citation`
  of the item only, the fallback reads only the first page; listings end
  silently after 50 pages, those that resolve names after 50 pages of 100 whatever
  the request's limit is; a link back to the root fetches it again.
* *Monitoring.*  An SQLite error in `emit` ends the listener thread, and with it
  the console and the log file, while the queue grows without end.  A row whose
  commit fails is shown, and gone after a restart.  `dropped` starts again at 0.
  DNS look-ups share the default executor with conversions
  (`infrastructure/utils/urlguard.py:41`).
* *Publishing.*  A failing fetch of the keys empties the cache, so that tokens
  whose key was known are answered 503.  A lost acknowledgement is a 502 and the
  job is there.  Redirects and 401 of the publishing service are passed on.  One
  malformed summary fails the whole list.
* *Uploads.*  A copy that is interrupted may leave a truncated object, or, when the
  answer to its last request is lost, a whole one, on which its own next attempt and
  its repetition are refused.  `overwrite` leaves stale
  members.  Any failure of a listing is "does not exist".  A put whose
  acknowledgement is lost leaves the object of a failed request.  A folder that
  failed half-way is refused by its own files.  Two builders that edit one
  object lose one update.  An overlay with `extra_fields` adds a member of that
  name.  A bad archive is a 500 for geodatabases and a 400 for shapefiles.  A
  crash leaves `workspace/<uuid>`.

## 6. Not modelled

Contents of documents, arrays and tables; wording of errors; wall-clock times of
requests; GET handlers that only read.  Signatures and clock leeway of tokens.
Several worker processes: the code names its assumption of one
(`owner_binding.py:125`), and the models make it too.  HTTP retries inside
`search_stac_api` are one request that is answered or fails; those inside
`read_stac` are so in the traversal, and steps of their own in `ThrottledRead`.
Metadata conversion and application assembly are stateless mappings; the
metadata of NetCDF and Zarr sources is read by xarray, and a model of it would
be one of that library.  The rendering and the redaction of log records, and the
rotation of their file.  A request that is cancelled between its start and its
end in the middleware (it would stay counted as active).  A hint that matches a
collection without an id.  Two conversions to one local directory.

A restart forgets all runs, and a run whose thread goes on after its
cancellation is forgotten with it; there is no recovery code to model.  Runs are
pruned only by submissions (`manager.py:28`): nothing holds of the cap between
two.  An API whose landing page is a FeatureCollection (`Rooted` excludes it: the
code would take its first feature for the root).  A read error of an intact owner file counts as an unclaimed instance,
which the code states as its choice (`owner_binding.py:98`) and
`InstanceAccess` models as `Misread`.

## 7. Plan

What is left to do.

1. `StacTrees` is model-checked only.  As in the queue of the traversal and the
   listings of `StacFind`, its lists can be said by the indices of what they keep
   (`Lists`), and what is about the order of its steps (`NothingReplacedUnasked`,
   the type invariant) be proved.
2. A composition of `ThrottledRead` with `StacValidation`, where an answer is the
   end of a read.
