------------------------------ MODULE StacFind ------------------------------
(***************************************************************************)
(* Finding things in the EDITO STAC API (ept/features/stac_find and        *)
(* get_my_catalogs, over the client of                                     *)
(* ept/infrastructure/services/editostacapi.py).                           *)
(*                                                                         *)
(* A request shares nothing with any other, so the module follows one.     *)
(* Most of them are a chain of GETs, each sent when the one before is      *)
(* answered: a search by exact ids, the listing of all collections to      *)
(* resolve what was asked for by name, a second search, a scan of all      *)
(* pages.  Finding catalogs walks a tree of them, level by level, several  *)
(* fetches at once.  Every GET may fail, or be answered with a text.       *)
(*                                                                         *)
(* Texts are sets of the fragments they contain:                           *)
(*   collection  [id, words]                                               *)
(*   item        [id, collection, words, assets, properties, cited,        *)
(*                published]: assets and properties are texts by key,      *)
(*                cited are the DOI and citation of the item itself,       *)
(*                published those of its publications                      *)
(* The properties that are asked for are the pairs [key, value] of a       *)
(* dictionary, in its order.                                               *)
(***************************************************************************)
EXTENDS Lists, SequencesExt, Functions

CONSTANTS
  Unset,        \* an argument that is not given
  ProjectsRoot, \* _PROJECTS_ROOT
  Relative,     \* _relative: the path of an href below the API's base URL
  Resource,     \* the resource behind a path: get_json strips its leading slash
  Lower,        \* str.lower of a property key
  Queries,      \* what may be asked
  Sites,        \* what the API may hold
  MaxPages,     \* _MAX_PAGES
  ResolveLimit, \* the page size of the listing that resolves names: find_collection's own
  MaxDepth,     \* _MAX_CATALOG_DEPTH
  MaxFetches,   \* _CATALOG_FETCH_CONCURRENCY
  MaxFaults     \* bound: GETs that go wrong

Names(collections) == {collections[i].id : i \in DOMAIN collections}

\* Lists are lists.  A collection's text contains its id, and every item belongs to a
\* collection of the API.
WellformedSite(w) ==
  /\ w.collections \in Seq(ToSet(w.collections)) /\ w.items \in Seq(ToSet(w.items))
  /\ w.loops \in BOOLEAN
  /\ \A c \in ToSet(w.collections) : c.id \in c.words
  /\ \A i \in ToSet(w.items) : i.collection \in Names(w.collections) /\ "id" \in DOMAIN i
  /\ \A path \in DOMAIN w.catalogs : w.catalogs[path] \in Seq(ToSet(w.catalogs[path]))

ASSUME FindAssumption ==
  /\ {MaxPages, MaxDepth, MaxFetches, ResolveLimit} \subseteq Nat \ {0} /\ MaxFaults \in Nat /\ Unset \notin Nat
  /\ \A w \in Sites : WellformedSite(w)
  /\ \A q \in Queries :
       /\ q.find \in {"items", "scientific", "assets", "properties", "collections", "catalogs", "mine"}
       /\ q.collections \in Seq(ToSet(q.collections)) /\ q.limit \in Nat \ {0}
       /\ q.match \in Seq(ToSet(q.match))
       /\ \A j, k \in DOMAIN q.match : q.match[j].key = q.match[k].key => j = k

VARIABLES
  site,      \* what the API holds
  query,
  phase,     \* what is being asked of the API
  page,      \* the page of the listing or scan that is asked for, Unset when there is no next one
  turn,      \* how many pages have been asked for
  hints,     \* the collections that are still to be resolved
  resolved,  \* the ones that have been
  got,       \* the collections or items of the listing or scan
  unknown,   \* the exact search has failed with a 404
  level,     \* of the walk: how deep it is,
  frontier,  \*   the paths of this level,
  flying,    \*   which of them are being fetched,
  results,   \*   what the others returned,
  seen,      \*   the paths that were linked to,
  catalogs,  \*   and the links that were collected
  answer,
  failed,    \* history: the paths of the walk that could not be fetched
  faults

listing  == <<page, turn, got>>
chain    == <<hints, resolved, unknown>>
walk     == <<level, frontier, flying, results, seen, catalogs, failed>>
findVars == <<site, query, phase, listing, chain, walk, answer, faults>>

-----------------------------------------------------------------------------
(* The API                                                                 *)

\* The n-th page of a listing; the `next` link of a faulty last page leads to the first.
PageOf(all, n, size) ==
  [status |-> 200,
   list |-> Picked(all, {k \in DOMAIN all : (n - 1) * size < k /\ k <= n * size}),
   next |-> IF n * size < Len(all) THEN n + 1 ELSE IF site.loops THEN 1 ELSE Unset]

Refusal(status) == [status |-> status, list |-> <<>>, next |-> Unset]

Known(within) == ToSet(within) \cap Names(site.collections)

\* What a search is for: the items of these collections, or of all, with these needles.
Offered(within, needles) ==
  Picked(site.items, {k \in DOMAIN site.items :
                        /\ within = <<>> \/ site.items[k].collection \in Known(within)
                        /\ needles \subseteq site.items[k].cited})

\* GET /search: ids that are not there make it a 404, all of them or any one.
Search(within, size, n, needles) ==
  IF within # <<>> /\ (Known(within) = {} \/ (site.strict /\ Known(within) # ToSet(within)))
  THEN Refusal(404)
  ELSE PageOf(Offered(within, needles), n, size)

Needles(q) == {q.doi, q.citation} \ {Unset}

\* With a filter on what the API may not have indexed.
Filtered(q) ==
  IF site.filters THEN Search(q.collections, q.limit, 1, Needles(q))
  ELSE Refusal(400)

Catalog(path) ==
  IF Resource[path] \in DOMAIN site.catalogs THEN [status |-> 200, list |-> site.catalogs[Resource[path]]]
  ELSE Refusal(404)

Unavailable == 0    \* no answer at all: EditoStacApiUnavailableError
Text        == 299  \* a success whose body is no JSON: get_json returns the text

\* How get_json may end: with the answer, a text, no answer, or a status of its own.
Outcomes(proper) ==
  {proper} \cup (IF faults < MaxFaults THEN {Refusal(Text), Refusal(Unavailable), Refusal(500)} ELSE {})

Charge(outcome, proper) == faults' = IF outcome = proper THEN faults ELSE faults + 1

-----------------------------------------------------------------------------
(* The request                                                             *)

FindInit ==
  /\ site \in Sites
  /\ query \in Queries
  /\ phase = "start"
  /\ page = 1 /\ turn = 0 /\ got = <<>>
  /\ hints = <<>> /\ resolved = <<>> /\ unknown = FALSE
  /\ level = 1 /\ frontier = <<ProjectsRoot>> /\ flying = {} /\ results = <<>>
  /\ seen = {} /\ catalogs = <<>> /\ failed = {}
  /\ answer = [status |-> Unset, found |-> <<>>]
  /\ faults = 0

Respond(status, found) ==
  /\ phase' = "done"
  /\ answer' = [status |-> status, found |-> found]

\* An upstream error keeps its status; no answer is a 502, and a text makes the
\* feature raise.
Raise(outcome) ==
  Respond(CASE outcome.status = Text -> 500 [] outcome.status = Unavailable -> 502
            [] OTHER -> outcome.status, <<>>)

Ask(next) == phase' = next /\ UNCHANGED answer

BeginListing == page' = 1 /\ turn' = 0 /\ got' = <<>>

\* The route's first call.
Start ==
  /\ phase = "start"
  /\ Ask(CASE query.find = "items" -> "exact"
           [] query.find = "scientific" -> "filter"
           [] query.find \in {"assets", "properties"} /\ query.collections # <<>> -> "resolve"
           [] query.find \in {"assets", "properties"} /\ query.collections = <<>> -> "scan"
           [] query.find = "collections" -> "list"
           [] query.find = "catalogs" -> "walk"
           [] query.find = "mine" -> "mine")
  /\ hints' = query.collections
  /\ UNCHANGED <<site, query, listing, resolved, unknown, walk, faults>>

Matches(q, words) == q = Unset \/ q \in words

\* The assets of an item that match; only these are shown.
Shown(item, q) == [item EXCEPT !.assets = Restrict(@, {key \in DOMAIN item.assets : Matches(q, item.assets[key])})]

\* Of the keys that are the same in lower case only the last one is kept.
Overwritten(match, k) == \E j \in DOMAIN match : j > k /\ Lower[match[j].key] = Lower[match[k].key]

Has(item, key, value) == key \in DOMAIN item.properties /\ value \in item.properties[key]

\* Every value in the text of its key.  The keys that are asked for are put in lower
\* case, the ones of the item are not.
HasProperties(item, match) ==
  \A k \in DOMAIN match : Overwritten(match, k) \/ Has(item, Lower[match[k].key], match[k].value)

IsScientific(item, q) == Needles(q) \subseteq (item.cited \cup item.published)

Fits(item, q) ==
  CASE q.find = "items" -> Matches(q.q, item.words)
    [] q.find = "scientific" -> IsScientific(item, q)
    [] q.find = "assets" -> \E key \in DOMAIN item.assets : Matches(q.q, item.assets[key])
    [] q.find = "properties" -> HasProperties(item, q.match)

\* What of the items that were found is answered.
Selected(q, items) ==
  LET kept == Picked(items, {k \in DOMAIN items : Fits(items[k], q)})
  IN IF q.find = "assets" THEN [k \in DOMAIN kept |-> Shown(kept[k], q.q)] ELSE kept

\* find_item searches before it filters; the fallback of find_item_scientific asks it
\* for everything and filters the result.
Narrowed(q, items) == IF q.find = "scientific" THEN items ELSE Selected(q, items)

\* _search_items_or_404, then find_item.
Exact ==
  /\ phase = "exact"
  /\ LET proper == Search(query.collections, query.limit, 1, {})
     IN \E outcome \in Outcomes(proper) :
          /\ Charge(outcome, proper)
          /\ LET features == Narrowed(query, outcome.list)
             IN CASE /\ outcome.status \in {200, 404} /\ features = <<>>
                     /\ query.collections # <<>> ->
                       /\ Ask("resolve") /\ BeginListing
                       /\ unknown' = (outcome.status = 404)
                  [] outcome.status = 200 /\ (features # <<>> \/ query.collections = <<>>) ->
                       Respond(200, Selected(query, outcome.list)) /\ UNCHANGED <<listing, unknown>>
                  [] outcome.status # 200 /\ (outcome.status # 404 \/ query.collections = <<>>) ->
                       Raise(outcome) /\ UNCHANGED <<listing, unknown>>
  /\ UNCHANGED <<site, query, hints, resolved, walk>>

\* find_item_scientific: whatever status the API answers, the items are scanned here.
Filter ==
  /\ phase = "filter"
  /\ \E outcome \in Outcomes(Filtered(query)) :
       /\ Charge(outcome, Filtered(query))
       /\ CASE outcome.status = 200 -> Respond(200, outcome.list)
            [] outcome.status \in {Text, Unavailable} -> Raise(outcome)
            [] OTHER -> Ask("exact")
  /\ UNCHANGED <<site, query, listing, chain, walk>>

-----------------------------------------------------------------------------
(* Listings                                                                *)

\* The loop over the pages goes on.
Turning == turn < MaxPages /\ page # Unset

\* One page of find_collection or _search_all_items.
Turn(proper) ==
  /\ Turning
  /\ \E outcome \in Outcomes(proper) :
       /\ Charge(outcome, proper)
       /\ IF outcome.status = 200
          THEN /\ got' = got \o outcome.list
               /\ page' = outcome.next
               /\ turn' = turn + 1
               /\ UNCHANGED <<phase, answer>>
          ELSE Raise(outcome) /\ UNCHANGED listing

\* The names are resolved by find_collection without the limit of the request.
CollectionLimit == IF phase = "resolve" THEN ResolveLimit ELSE query.limit

CollectionPage == IF page = Unset THEN Refusal(404) ELSE PageOf(site.collections, page, CollectionLimit)

List ==
  /\ phase \in {"list", "resolve"}
  /\ Turn(CollectionPage)
  /\ UNCHANGED <<site, query, chain, walk>>

Listed(q) == Picked(got, {k \in DOMAIN got : Matches(q, got[k].words)})

Ids(collections) == [i \in DOMAIN collections |-> collections[i].id]

Distinct(s) == Picked(s, {k \in DOMAIN s : \A j \in 1 .. k - 1 : s[j] # s[k]})

EndList ==
  /\ phase = "list" /\ ~Turning
  /\ Respond(200, Listed(query.q))
  /\ UNCHANGED <<site, query, listing, chain, walk, faults>>

\* Mutant: a name that matches nothing is dropped.
MatchedOnly(hint) == Ids(Listed(hint))

\* A name that matches nothing may be an exact id all the same.
Meant(hint) == IF Listed(hint) = <<>> THEN <<hint>> ELSE Ids(Listed(hint))

\* What follows the resolution of the names: the second search of find_item when they
\* stand for anything else, or the scan.
Proceed(ids) ==
  CASE query.find \in {"assets", "properties"} -> Ask("scan")
    [] query.find \in {"items", "scientific"} /\ ~(Len(ids) = Len(query.collections)
                                                     /\ ToSet(ids) = ToSet(query.collections)) -> Ask("retry")
    [] OTHER -> Respond(IF unknown THEN 404 ELSE 200, <<>>)

EndResolve ==
  /\ phase = "resolve" /\ ~Turning
  /\ BeginListing
  /\ hints' = Tail(hints)
  /\ resolved' = Distinct(resolved \o Meant(Head(hints)))
  /\ IF Len(hints) > 1 THEN UNCHANGED <<phase, answer>> ELSE Proceed(resolved')
  /\ UNCHANGED <<site, query, unknown, walk, faults>>

Retry ==
  /\ phase = "retry"
  /\ LET proper == Search(resolved, query.limit, 1, {})
     IN \E outcome \in Outcomes(proper) :
          /\ Charge(outcome, proper)
          /\ IF outcome.status = 200 THEN Respond(200, Selected(query, outcome.list)) ELSE Raise(outcome)
  /\ UNCHANGED <<site, query, listing, chain, walk>>

ItemPage == IF page = Unset THEN Refusal(404) ELSE Search(resolved, query.limit, page, {})

Scan ==
  /\ phase = "scan"
  /\ Turn(ItemPage)
  /\ UNCHANGED <<site, query, chain, walk>>

EndScan ==
  /\ phase = "scan" /\ ~Turning
  /\ Respond(200, Selected(query, got))
  /\ UNCHANGED <<site, query, listing, chain, walk, faults>>

\* get_my_catalogs: an answer that is no list of catalogs is a 502.
Mine ==
  /\ phase = "mine"
  /\ LET proper == [Refusal(200) EXCEPT !.list = site.owned]
     IN \E outcome \in Outcomes(proper) :
          /\ Charge(outcome, proper)
          /\ CASE outcome.status = 200 -> Respond(200, Picked(outcome.list, {k \in DOMAIN outcome.list : outcome.list[k].project}))
               [] outcome.status = Text -> Respond(502, <<>>)
               [] OTHER -> Raise(outcome)
  /\ UNCHANGED <<site, query, listing, chain, walk>>

-----------------------------------------------------------------------------
(* The walk over the catalogs                                              *)

\* Mutant: nothing limits the fetches of a level.
FetchAll(i) ==
  /\ phase = "walk"
  /\ i \in (DOMAIN frontier \ DOMAIN results) \ flying
  /\ flying' = flying \cup {i}
  /\ UNCHANGED <<site, query, phase, listing, chain, level, frontier, results, seen, catalogs, failed,
                 answer, faults>>

\* The semaphore lets a fetch begin.
Fetch(i) ==
  /\ phase = "walk"
  /\ i \in (DOMAIN frontier \ DOMAIN results) \ flying
  /\ Cardinality(flying) < MaxFetches
  /\ flying' = flying \cup {i}
  /\ UNCHANGED <<site, query, phase, listing, chain, level, frontier, results, seen, catalogs, failed,
                 answer, faults>>

\* Mutant: a fetch that fails does not let another one begin.
HeldBack(i, outcome) == IF outcome.status = 200 THEN flying \ {i} ELSE flying

Released(i, outcome) == flying \ {i}

Arrive(i) ==
  /\ i \in flying /\ i \notin DOMAIN results
  /\ \E outcome \in Outcomes(Catalog(frontier[i])) :
       /\ Charge(outcome, Catalog(frontier[i]))
       /\ results' = [k \in DOMAIN results \cup {i} |-> IF k = i THEN outcome ELSE results[k]]
       /\ failed' = IF outcome.status = 200 THEN failed ELSE failed \cup {frontier[i]}
       /\ flying' = Released(i, outcome)
  /\ UNCHANGED <<site, query, phase, listing, chain, level, frontier, seen, catalogs, answer>>

\* The child links that lead to paths no link has led to before, each once.
New(links) ==
  Picked(links, {k \in DOMAIN links :
                   /\ links[k].rel = "child" /\ Relative[links[k].href] \notin seen
                   /\ \A j \in 1 .. k - 1 : links[j].rel = "child" =>
                        Relative[links[j].href] # Relative[links[k].href]})

Paths(links) == [k \in DOMAIN links |-> Relative[links[k].href]]

\* The links of a level, in the order of its frontier.
LevelLinks == FlattenSeq([i \in DOMAIN frontier |-> results[i].list])

\* What ends the walk: the root cannot be fetched, or some result has no links to read,
\* whichever comes first.
Fatal(i) == results[i].status = Text \/ (results[i].status # 200 /\ frontier[i] = ProjectsRoot)

\* Once all of a level is there.
EndLevel ==
  /\ phase = "walk" /\ DOMAIN results = DOMAIN frontier
  /\ LET new == New(LevelLinks)
         fatal == {i \in DOMAIN frontier : Fatal(i)}
         first == CHOOSE i \in fatal : \A j \in fatal : i <= j
         all == catalogs \o new
     IN IF fatal # {} THEN Raise(results[first]) /\ UNCHANGED <<walk>>
        ELSE /\ catalogs' = all
             /\ seen' = seen \cup ToSet(Paths(new))
             /\ flying' = {}
             /\ UNCHANGED failed
             /\ IF new = <<>> \/ level = MaxDepth
                THEN /\ Respond(200, Picked(all, {k \in DOMAIN all : Matches(query.q, all[k].words)}))
                     /\ UNCHANGED <<level, frontier, results>>
                ELSE /\ level' = level + 1
                     /\ frontier' = Paths(new)
                     /\ results' = <<>>
                     /\ UNCHANGED <<phase, answer>>
  /\ UNCHANGED <<site, query, listing, chain, faults>>

FindNext ==
  \/ Start \/ Exact \/ Filter \/ List \/ EndList \/ EndResolve \/ Retry \/ Scan \/ EndScan \/ Mine
  \/ \E i \in DOMAIN frontier : Fetch(i) \/ Arrive(i)
  \/ EndLevel

\* httpx gives up on a GET after its timeout, so every GET ends.
FindSpec == FindInit /\ [][FindNext]_findVars /\ WF_findVars(FindNext)

-----------------------------------------------------------------------------
(* Properties                                                              *)

Phases == {"start", "exact", "filter", "list", "resolve", "retry", "scan", "mine", "walk", "done"}

\* The kinds of things; the semaphore's limit; and a request that has an answer has ended.
FindTypeOK ==
  /\ phase \in Phases /\ (phase = "done" <=> answer.status # Unset)
  /\ turn \in 0..MaxPages /\ level \in 1..MaxDepth /\ faults \in 0..MaxFaults
  /\ phase = "resolve" => hints # <<>>
  /\ flying \subseteq DOMAIN frontier /\ Cardinality(flying) <= MaxFetches
  /\ DOMAIN results \subseteq DOMAIN frontier
  /\ phase = "done" => answer.status \in {200, 400, 404, 500, 502}

Found(kinds) == answer.status = 200 /\ query.find \in kinds

\* Where the links of a catalog lead, unless it is one of those that are gone.
Children(api, gone, path) ==
  IF path \in gone \/ Resource[path] \notin DOMAIN api THEN {}
  ELSE {Relative[l.href] : l \in {k \in ToSet(api[Resource[path]]) : k.rel = "child"}}

Below(api, gone, paths) == UNION {Children(api, gone, p) : p \in paths}

\* The paths within a number of links of the root, over catalogs that could be fetched.
Within(api, gone) ==
  LET within[n \in 0 .. MaxDepth] ==
        IF n = 0 THEN {ProjectsRoot} ELSE within[n - 1] \cup Below(api, gone, within[n - 1])
  IN within

\* The walk (find_catalog) collects exactly one link to every path that is linked to
\* within its depth, whatever unreachable subtrees it has skipped and in whatever order
\* its fetches were answered.
WalkIsComplete ==
  Found({"catalogs"}) =>
    /\ IsInjective(Paths(catalogs))
    /\ ToSet(Paths(catalogs)) =
         Below(site.catalogs, failed, Within(site.catalogs, failed)[MaxDepth - 1])

PageCount(n, size) == (n + size - 1) \div size

\* Whether a listing ends before the loop over its pages gives up.
Listable(n, size) == ~site.loops /\ PageCount(n, size) <= MaxPages

\* Whether the names can be resolved, if there are any, and the items be scanned.
Resolvable == query.collections = <<>> \/ Listable(Len(site.collections), ResolveLimit)
Scannable  == Resolvable /\ Listable(Len(site.items), query.limit)

\* The collections a name stands for (_resolve_collections).
Named(hint) ==
  LET matching == {c \in ToSet(site.collections) : Matches(hint, c.words)}
  IN IF matching = {} THEN {hint} ELSE {c.id : c \in matching}

\* The collections that are meant by names, or all of them.
Meaning(hinted) ==
  {c \in Names(site.collections) : hinted = <<>> \/ \E h \in ToSet(hinted) : c \in Named(h)}

AskedFor(item) == item.collection \in Meaning(query.collections)

ById(items) == {i.id : i \in items}

\* Every pair, under its key as it stands.
HasExactly(item, match) == \A k \in DOMAIN match : Has(item, match[k].key, match[k].value)

InLowerCase(match) == \A k \in DOMAIN match : Lower[match[k].key] = match[k].key

Wanted ==
  {i \in ToSet(site.items) :
     AskedFor(i) /\ IF query.find = "properties" THEN HasExactly(i, query.match) ELSE Fits(i, query)}

\* find_asset and find_properties answer with all items of the collections the names
\* stand for that have such an asset or exactly such properties, and with no others; only
\* listings that do not end within their pages cost them items.  Properties are found
\* only if they are asked for in lower case, although find_properties says that keys
\* compare exactly.
ScanIsComplete ==
  (Found({"assets", "properties"}) /\ (query.find = "properties" => InLowerCase(query.match))) =>
    /\ ById(ToSet(answer.found)) \subseteq ById(Wanted)
    /\ Scannable => ById(ToSet(answer.found)) = ById(Wanted)

\* The items of the collections that are meant.
MeantItems ==
  Picked(site.items, {k \in DOMAIN site.items : site.items[k].collection \in Meaning(query.collections)})

\* find_item answers with nothing only if neither the ids as they were given nor the
\* collections they stand for have anything to offer on the first page.
NoFalseEmpty ==
  (Found({"items"}) /\ answer.found = <<>> /\ Resolvable) =>
    /\ Selected(query, Search(query.collections, query.limit, 1, {}).list) = <<>>
    /\ Selected(query, PageOf(MeantItems, 1, query.limit).list) = <<>>

\* find_item_scientific: every item answered carries the DOI and the citation, whether
\* the API has filtered, refused to, or been asked again for resolved names.
ScientificMatches ==
  Found({"scientific"}) => \A i \in ToSet(answer.found) : IsScientific(i, query)

\* What a walk is given up for: its root, or an answer that is no JSON, wherever it is
\* from.  A catalog that cannot be fetched costs what is below it only.
WalkIsLost ==
  \E i \in DOMAIN results : results[i].status = Text \/ (frontier[i] = ProjectsRoot /\ ProjectsRoot \in failed)

\* Every request is answered, also when the pages of the API lead to one another for
\* ever and its catalogs contain each other; and a walk is answered with its catalogs,
\* unless it is lost (find_catalog).
EveryFindAnswers ==
  /\ <>(phase = "done")
  /\ [](phase = "done" /\ query.find = "catalogs" => answer.status = 200 \/ WalkIsLost)

\* The walk and the searches of items, assets and properties leave out nothing they were
\* asked for, and add nothing else.
FindIsComplete == WalkIsComplete /\ ScanIsComplete /\ NoFalseEmpty /\ ScientificMatches

=============================================================================
