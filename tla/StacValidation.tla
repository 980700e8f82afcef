--------------------------- MODULE StacValidation ---------------------------
(***************************************************************************)
(* One run of EPT's STAC validation (ept/features/validate_stac): the      *)
(* breadth-first traversal of collect_stac_tree and read_stac_api, which   *)
(* is suspended while the service validates what it yielded, and the       *)
(* report the service assembles.                                           *)
(*                                                                         *)
(* A step is an uninterrupted stretch of the event loop: a request is      *)
(* answered, a gathered batch is yielded and handed to a thread, or the    *)
(* thread's nodes are accumulated and the next batch is requested.         *)
(***************************************************************************)
EXTENDS StacPayloads

CONSTANTS
  Root,            \* stac_url
  SameHost,        \* the URLs on its host
  Webs,            \* what the servers may answer: functions from Urls to Payloads
  Requests,        \* request bodies: validate_children, max_depth, max_objects
  max_concurrency  \* MAX_CONCURRENCY

\* What is one object is found at its own URL, and so is an API's landing page.
Rooted(w) ==
  /\ \A u \in Urls : w[u].kind = "object" => w[u].objects[1].url = u
  /\ is_stac_api_catalog(w[Root]) => w[Root].kind = "object"

ASSUME ConstantsAssumption ==
  /\ Root \in SameHost /\ SameHost \subseteq Urls /\ None \notin Urls
  /\ DefaultItems \in [Urls -> Urls] /\ DefaultListing \in Urls
  /\ Webs \subseteq [Urls -> Payloads] /\ \A w \in Webs : Rooted(w)
  /\ Requests \subseteq
       [validate_children : BOOLEAN, max_depth : Nat \ {0}, max_objects : Nat \ {0}]
  /\ max_concurrency \in Nat \ {0}

VARIABLES
  web,        \* the servers' answers in this run
  request,    \* the request being served
  stage,      \* fetch, thread, or how the run ended: done, refused, crashed
  queue,      \* entries to visit
  visited,    \* URLs taken from the queue
  skipped,    \* URLs of other hosts
  batch,      \* the entries being fetched, in order
  pending,    \* the URLs of the batch that are not answered yet
  yielded,    \* the objects the thread validates
  made,       \* the nodes it made, in order: whether each is invalid
  nodes,      \* nodes_by_url
  children,   \* the child edges, as pairs of nodes
  root_node,  \* 0 for None
  limited,    \* whether the report has the traversal_limit warning
  asked       \* history: how often each URL was requested

traversal == <<queue, visited, skipped, batch>>
report    == <<made, nodes, children, root_node, limited>>
vars      == <<web, request, stage, traversal, pending, yielded, report, asked>>

Ended == {"done", "refused", "crashed"}
N     == Len(made)

TypeOK ==
  /\ web \in Webs /\ request \in Requests
  /\ stage \in {"fetch", "thread"} \cup Ended
  /\ queue \in Seq(QueueEntry) /\ batch \in Seq(QueueEntry)
  /\ yielded \in Seq(CollectedObject)
  /\ visited \subseteq Urls /\ skipped \subseteq Urls
  /\ pending \subseteq {e.url : e \in ToSet(batch)}
  /\ made \in Seq(BOOLEAN)
  /\ DOMAIN nodes \subseteq Urls /\ \A u \in DOMAIN nodes : nodes[u] \in 1 .. N
  /\ children \in Seq((1 .. N) \X (1 .. N)) /\ root_node \in 0 .. N
  /\ limited \in BOOLEAN
  /\ asked \in [Urls -> Nat]

\* The root is requested on its own, before the traversal's mode is known.
Init ==
  /\ web \in Webs /\ request \in Requests
  /\ stage = "fetch"
  /\ queue = <<>> /\ visited = {} /\ skipped = {}
  /\ batch = <<Entry(Root, 0, None, None)>> /\ pending = {Root}
  /\ yielded = <<>>
  /\ made = <<>> /\ nodes = <<>> /\ children = <<>>
  /\ root_node = 0 /\ limited = FALSE
  /\ asked = [u \in Urls |-> IF u = Root THEN 1 ELSE 0]

RootBatch == N = 0

\* What at most k steps lead to from S.
Reachable(S, Step(_), k) ==
  LET go[i \in 0 .. k] == IF i = 0 THEN S
                          ELSE LET before == go[i - 1]
                               IN  before \cup UNION {Step(u) : u \in before}
  IN  go[k]

-----------------------------------------------------------------------------
(* fetch_stac_objects, gathered                                            *)

\* Mutant: a request that fails is never given up.
AnswerReadable(u) ==
  /\ stage = "fetch"
  /\ u \in pending
  /\ web[u].kind # "broken"
  /\ pending' = pending \ {u}
  /\ UNCHANGED <<web, request, stage, traversal, yielded, report, asked>>

\* A request of the batch is answered, or its last retry fails.
Answer(u) ==
  /\ stage = "fetch"
  /\ u \in pending
  /\ pending' = pending \ {u}
  /\ UNCHANGED <<web, request, stage, traversal, yielded, report, asked>>

-----------------------------------------------------------------------------
(* _bfs_batches, up to its yield, and the service up to its next await     *)

Objs(e) == Fetched(e, web[e.url])

Discover(e) ==
  IF web[e.url].kind = "broken" THEN <<>>
  ELSE IF is_stac_api_catalog(web[Root]) THEN DiscoverApi(e, web[e.url], request.max_depth)
       ELSE DiscoverStatic(e, web[e.url], request.max_depth)

\* The children a gathered batch adds to the queue.  (The root's are added when
\* the generator is resumed.)
Discovered ==
  IF RootBatch THEN <<>>
  ELSE Without(FlattenSeq([i \in DOMAIN batch |-> Discover(batch[i])]), visited \cup skipped)

\* What the service does with a batch before it validates it: an unreadable root
\* or an outdated object ends the run, and batch[0] of a root that yields no
\* object is an IndexError.
Gate(objs) ==
  IF RootBatch /\ objs = <<>> THEN "crashed"
  ELSE IF RootBatch /\ objs[1].error THEN "refused"
  ELSE IF \E o \in ToSet(objs) : ~o.latest THEN "refused"
  ELSE "thread"

\* The last request of the batch is answered: its objects are yielded, and a
\* thread starts to validate them.
Yield ==
  /\ stage = "fetch"
  /\ pending = {}
  /\ LET objs == FlattenSeq([i \in DOMAIN batch |-> Objs(batch[i])])
     IN  /\ yielded' = objs
         /\ stage' = Gate(objs)
  /\ queue' = queue \o Discovered
  /\ UNCHANGED <<web, request, visited, skipped, batch, pending, report, asked>>

-----------------------------------------------------------------------------
(* The service's loop body after the thread                                *)

\* Mutant: the nodes of a batch are counted from one too many.
BatchNodesShifted(objs) ==
  [u \in {o.url : o \in ToSet(objs)} |->
     N + 1 + Max({i \in DOMAIN objs : objs[i].url = u})]

\* validate_batch: the later of two nodes with one URL replaces the other.
BatchNodes(objs) ==
  [u \in {o.url : o \in ToSet(objs)} |->
     N + Max({i \in DOMAIN objs : objs[i].url = u})]

\* Every object is attached to the node its parent's URL names now.
Edges(objs) ==
  LET attached == Picked(objs, {i \in DOMAIN objs : objs[i].parent \in DOMAIN nodes'})
  IN  [i \in DOMAIN attached |-> <<nodes'[attached[i].parent], nodes'[attached[i].url]>>]

\* The objects of depth 0.
Roots(objs) == Picked(objs, {i \in DOMAIN objs : objs[i].depth = 0})

Accumulate ==
  /\ made' = made \o [i \in DOMAIN yielded |-> yielded[i].invalid]
  /\ nodes' = LET new == BatchNodes(yielded)
              IN  [u \in DOMAIN new \cup DOMAIN nodes |->
                     IF u \in DOMAIN new THEN new[u] ELSE nodes[u]]
  /\ children' = children \o Edges(yielded)
  /\ root_node' = IF Roots(yielded) # <<>> THEN nodes'[Roots(yielded)[1].url] ELSE root_node

-----------------------------------------------------------------------------
(* _bfs_batches, resumed after its yield                                   *)

\* What the queue starts with once the root is validated, and what the next batch
\* is taken from.
Seeds ==
  IF ~request.validate_children THEN <<>>
  ELSE IF is_stac_api_catalog(web[Root]) THEN ApiSeeds(yielded[1], web[Root])
       ELSE StaticSeeds(yielded[1], Root)
Line == IF RootBatch THEN Seeds ELSE queue

\* What is visited before that.  The API traversal knows the root by its object's
\* URL, the static one by the URL of the request.
Seen ==
  IF ~RootBatch THEN visited
  ELSE {IF is_stac_api_catalog(web[Root]) THEN yielded[1].url ELSE Root}

\* The entries that can be visited in their turn: of the catalog's host, and the
\* first of their URL.
Eligible ==
  {i \in DOMAIN Line :
     /\ Line[i].url \in SameHost \ Seen
     /\ \A j \in 1 .. i - 1 : Line[j].url # Line[i].url}

TakenBefore(i) == Cardinality({j \in Eligible : j < i})

\* Mutant: the cap is looked at once per batch.
LookedAtLate ==
  {i \in DOMAIN Line :
     TakenBefore(i) < max_concurrency /\ Cardinality(Seen) < request.max_objects}

\* The entries that are popped: once the batch is full or the cap is reached, what
\* is left stays in the queue.
LookedAt ==
  {i \in DOMAIN Line :
     /\ TakenBefore(i) < max_concurrency
     /\ Cardinality(Seen) + TakenBefore(i) < request.max_objects}

Taken == Eligible \cap LookedAt

\* The loop that fills a batch.
Fill ==
  /\ batch'   = Picked(Line, Taken)
  /\ queue'   = Picked(Line, DOMAIN Line \ LookedAt)
  /\ visited' = Seen \cup {Line[i].url : i \in Taken}
  /\ skipped' = skipped \cup ({Line[i].url : i \in LookedAt} \ (SameHost \cup Seen))

LimitReached == Cardinality(DOMAIN nodes') >= request.max_objects

\* The report is written by recursion over the children, which fails on a node
\* that is below itself.
Endless ==
  LET Below(S) == Reachable({e[2] : e \in {e \in ToSet(children') : e[1] \in S}},
                            LAMBDA k : {e[2] : e \in {e \in ToSet(children') : e[1] = k}},
                            Len(made'))
  IN  \E k \in {root_node'} \cup Below({root_node'}) : k \in Below({k})

\* The thread is done: its nodes are accumulated, and the generator requests the
\* next batch or is exhausted.
Validated ==
  /\ stage = "thread"
  /\ Accumulate
  /\ Fill
  /\ pending' = {e.url : e \in ToSet(batch')}
  /\ asked' = [u \in Urls |->
                 asked[u] + Cardinality({i \in DOMAIN batch' : batch'[i].url = u})]
  /\ limited' = (batch' = <<>> /\ LimitReached)
  /\ stage' = IF batch' # <<>> THEN "fetch" ELSE IF Endless THEN "crashed" ELSE "done"
  /\ yielded' = <<>>
  /\ UNCHANGED <<web, request>>

-----------------------------------------------------------------------------

Next == (\E u \in Urls : Answer(u)) \/ Yield \/ Validated

Spec == Init /\ [][Next]_vars

\* Every request is answered or times out, the event loop runs, and so does the
\* thread.
FairSpec == /\ Spec
            /\ \A u \in Urls : WF_vars(Answer(u))
            /\ WF_vars(Yield) /\ WF_vars(Validated)

-----------------------------------------------------------------------------
(* Properties                                                              *)

\* No URL is requested twice in a run, whatever links to it, how often and
\* from where: cycles, several parents, next pages of several pages.
FetchedOnce == \A u \in Urls : asked[u] <= 1

\* A run requests nothing of another host than the catalog's.
SameHostOnly == \A u \in Urls : asked[u] > 0 => u \in SameHost

\* A run requests no more URLs than max_objects, and not more than
\* max_concurrency at once.
WithinLimits ==
  /\ Cardinality({u \in Urls : asked[u] > 0}) <= request.max_objects
  /\ Cardinality(pending) <= max_concurrency

\* A traversal (_bfs_batches) asks the catalog's server for what it may, and once.
TraversalIsBounded == FetchedOnce /\ SameHostOnly /\ WithinLimits

\* Whatever is waiting to be fetched, is being fetched or is being validated
\* has a parent that is a node of the tree by the time it is attached: nothing
\* is dropped from the tree for want of its parent.
ParentsKnown ==
  \A x \in ToSet(queue) \cup ToSet(batch) \cup ToSet(yielded) :
    \/ x.parent = None /\ x.depth = 0
    \/ x.parent \in DOMAIN nodes \cup {o.url : o \in ToSet(yielded)}

\* A run that ends with a report has seen no object of another STAC version,
\* and could read its root.
OnlyCurrentReported ==
  stage = "done" =>
    \A u \in Urls : asked[u] > 0 =>
      /\ \A o \in ToSet(web[u].objects) : o.latest
      /\ u = Root => web[u].kind # "broken"

\* The nodes the report is made of.
Reported ==
  Reachable({root_node}, LAMBDA k : {e[2] : e \in {e \in ToSet(children) : e[1] = k}}, N)

\* With a root that is one object and objects that have URLs of their own, the
\* report is a tree: it holds every object that was validated, once.
ReportIsTree ==
  stage = "done" /\ web[Root].kind = "object" /\ Cardinality(DOMAIN nodes) = N =>
    /\ Reported = 1 .. N
    /\ Len(children) = N - 1

\* The traversal was cut: an entry is left that could have been visited.
Cut == \E e \in ToSet(queue) : e.url \in SameHost \ visited

\* A cut traversal of a catalog whose every URL is one object is reported.
CutIsReported ==
  stage = "done" /\ Cut /\ (\A u \in visited : web[u].kind \in {"object", "broken"})
    => limited

\* A report is given for a catalog that may have one, holds all that was validated, and
\* says when there is more.
ReportIsSound == ParentsKnown /\ OnlyCurrentReported /\ ReportIsTree /\ CutIsReported

-----------------------------------------------------------------------------
(* What a traversal should cover, from the shape of the catalog alone      *)

IsApi == is_stac_api_catalog(web[Root])

\* The URLs one level below u, and those beside it: its next pages, and the
\* collections an API lists there.  Of the root only its links are followed.
Under(u) ==
  UNION {ToSet(o.links)
         \cup (IF u = Root \/ o.type # "collection" THEN {}
              ELSE IF IsApi THEN {items_url(o, web[u])} ELSE {web[u].items} \ {None})
           : o \in {o \in ToSet(web[u].objects) : o.type # "junk"}}
NextOf(u)  == IF u = Root \/ web[u].kind = "broken" THEN {} ELSE ToSet(web[u].next)
Beside(u)  == NextOf(u) \cup (IF IsApi /\ u # Root /\ web[u].kind # "broken"
                             THEN ToSet(web[u].entries) ELSE {})
TopListing == IF IsApi THEN ToSet(collections_endpoint_urls(web[Root])) ELSE {}

\* What Step leads to from U on the catalog's host.
Closure(U, Step(_)) == Reachable(U \cap SameHost, LAMBDA u : Step(u) \cap SameHost, Cardinality(Urls))
Pages(U)  == Closure(U, NextOf)

\* The URLs at most depth levels below the root, and those that at most that many
\* requests lead to, one after the other.
Near(depth) ==
  {Root} \cup Reachable(Closure(Under(Root) \cup TopListing, Beside),
                        LAMBDA u : Closure(Under(u), Beside), depth - 1)
Soon(depth) ==
  {Root} \cup Reachable((Under(Root) \cup TopListing) \cap SameHost,
                        LAMBDA u : (Under(u) \cup Beside(u)) \cap SameHost, depth - 1)

BelowCap ==
  /\ stage = "done" /\ web[Root].kind = "object" /\ request.validate_children
  /\ Cardinality(visited) < request.max_objects

\* A traversal that ends below its cap has fetched nothing more than max_depth
\* levels below the root, and all that max_depth requests lead to, with every
\* page of it.  The two differ by what hangs on a later page: a page keeps its
\* level but waits for its turn, so that its links may come after longer ways to
\* the same URL, whose depth then counts.
LevelsAreCovered ==
  BelowCap => /\ visited \subseteq Near(request.max_depth)
              /\ Pages(Soon(request.max_depth)) \subseteq visited

\* The collections an API lists, on every page of its listing, and the pages of
\* the items of each.
Listings    == Pages(TopListing)
Collections == UNION {ToSet(web[l].entries) : l \in Listings} \cap SameHost
ItemsOf(c)  == IF web[c].items # None THEN web[c].items ELSE DefaultItems[c]
ItemPages   == Pages({ItemsOf(c) : c \in {c \in Collections :
                        \E o \in ToSet(web[c].objects) : o.type = "collection"}})

\* An API as its standard has it, without static links: listings, collections and
\* pages of items are different URLs, each of its kind.
Regular ==
  /\ \A u \in Urls : \A o \in ToSet(web[u].objects) : o.links = <<>>
  /\ Root \notin Listings \cup Collections \cup ItemPages
  /\ Listings \cap Collections = {} /\ (Listings \cup Collections) \cap ItemPages = {}
  /\ \A l \in Listings : web[l].kind \in {"listing", "broken"}
  /\ \A c \in Collections : web[c].kind \in {"object", "broken"} /\ NextOf(c) = {}
  /\ \A i \in ItemPages : /\ web[i].kind \in {"page", "broken"}
                          /\ \A o \in ToSet(web[i].objects) : o.type # "collection"
  /\ \A u \in Urls : web[u].kind # "listing" => web[u].entries = <<>>

\* A traversal of such an API that ends below its cap has fetched every listed
\* collection and every page of its items, if it may go down to the items.
ApiCoverage ==
  BelowCap /\ IsApi /\ Regular /\ request.max_depth >= 2
    => visited = {Root} \cup Listings \cup Collections \cup ItemPages

\* The nodes that k hangs below.
Above(k) ==
  LET ParentsOf(j) == {e[1] : e \in {e \in ToSet(children) : e[2] = j}}
  IN  Reachable(ParentsOf(k), ParentsOf, N)

\* The nodes that hang below themselves, which objects do that name another one's URL.
Looped == {j \in 1 .. N : j \in Above(j)}

\* Of what was validated the report leaves out only the nodes that a later object with
\* their URL has replaced, and what hangs below itself (_validate keeps nodes by URL).
OnlyReplacedAreLost ==
  stage = "done" /\ web[Root].kind = "object" =>
    \A k \in (1 .. N) \ Reported : k \notin Range(nodes) \/ ({k} \cup Above(k)) \cap Looped # {}

\* What is fetched and reported depends on the catalog, and not on the order of its
\* answers: of any catalog all that is near enough, of a regular API exactly what it
\* lists, and of what is found nothing gets lost but what was replaced.
Coverage == LevelsAreCovered /\ ApiCoverage /\ OnlyReplacedAreLost

\* Every run ends.
Terminates == <>(stage \in Ended)

=============================================================================
