------------------------------ MODULE StacTrees ------------------------------
(***************************************************************************)
(* The two routes of EPT that write STAC trees                             *)
(* (POST /v1/stac/collections/tree and /v1/stac/catalogs/tree), on the     *)
(* storage they read from and write to.                                    *)
(*                                                                         *)
(* A request runs in a thread of the pool.  It reads its sources one       *)
(* document after the other, builds the whole tree, looks once at what is  *)
(* there already, and then writes file by file.  Another request may come  *)
(* between any two of these, and every read and write may fail.  What one  *)
(* of them writes another may read: the catalog route takes the trees of   *)
(* the collection route by their prefix.                                   *)
(***************************************************************************)
EXTENDS StacTreeBuild

CONSTANTS
  Threads,    \* threads that serve requests
  Requests,   \* what may be asked of them
  Stored,     \* the documents there are at first, by path
  JsonNames,  \* the file names that end with .json
  MaxRequests,\* bound: requests that are served
  MaxFaults   \* bound: reads and writes that fail

ASSUME ConstantsAssumption ==
  /\ MaxRequests \in Nat /\ MaxFaults \in Nat
  /\ {CollectionFile, CatalogFile} \subseteq JsonNames
  /\ \A q \in Requests : q.route \in {"collection", "catalog"}
  \* The schema of STAC items.
  /\ \A f \in DOMAIN Stored : Stored[f] # None /\ Stored[f].type = "Feature" /\ Stored[f].valid
                               => ~HalfOpen(Stored[f].extent)
  /\ \A q \in Requests : \A i \in DOMAIN q.inline :
       q.inline[i].type = "Feature" /\ q.inline[i].valid => ~HalfOpen(q.inline[i].extent)

VARIABLES
  files,      \* the documents in storage; None is a file that is no JSON
  at,         \* where each thread is
  request,    \* what it was asked
  todo,       \* the documents it still has to read
  found,      \* what it has read: files, scopes and catalogs
  tree,       \* what it has built
  written,    \* how many files of that it has written
  answer,     \* the status of its response
  disturbed,  \* history: the threads that saw another one write since they began
  served,     \* bound: requests so far
  faults      \* bound: failures so far

thread == <<at, request, todo, found, tree, written, answer>>
vars   == <<files, thread, disturbed, served, faults>>

Nothing == [files |-> <<>>, scopes |-> <<>>, catalogs |-> <<>>]

Init ==
  /\ files = Stored
  /\ at = [t \in Threads |-> "idle"]
  /\ request = [t \in Threads |-> None]
  /\ todo = [t \in Threads |-> <<>>]
  /\ found = [t \in Threads |-> Nothing]
  /\ tree = [t \in Threads |-> <<>>]
  /\ written = [t \in Threads |-> 0]
  /\ answer = [t \in Threads |-> None]
  /\ disturbed = {}
  /\ served = 0
  /\ faults = 0

GoTo(t, stage) == at' = [at EXCEPT ![t] = stage]

\* The route's response; the services' exceptions are mapped to these.
Answer(t, status) ==
  /\ GoTo(t, "idle")
  /\ answer' = [answer EXCEPT ![t] = status]

-----------------------------------------------------------------------------
(* Requests                                                                *)

\* The fields of CreateCollectionTreeRequest; inline and links are its items.
CollectionRequest(q) ==
  /\ q.route = "collection" /\ q.catalogs = <<>> /\ q.catalog_links = <<>>
  /\ \A i \in DOMAIN q.inline : q.inline[i].type = "Feature"
  /\ q.base # None => q.base.type = "Collection"

\* The fields of CreateCatalogTreeRequest; inline and links are its collections.
CatalogRequest(q) ==
  /\ q.route = "catalog"
  /\ \A i \in DOMAIN q.inline : q.inline[i].type = "Collection"
  /\ \A i \in DOMAIN q.catalogs : q.catalogs[i].type = "Catalog"
  /\ q.base # None => q.base.type \in {"Catalog", "Collection"}

\* validate_sources_and_export of both request models; anything else is a 422.
Acceptable(q) ==
  /\ CollectionRequest(q) \/ CatalogRequest(q)
  /\ IF q.prefix # None
     THEN /\ q.inline \o q.catalogs = <<>> /\ q.links \o q.catalog_links = <<>>
          /\ q.route = "catalog" <=> q.target # None
     ELSE q.inline \o q.catalogs # <<>> \/ q.links \o q.catalog_links # <<>> \/ q.base # None

Exports(q) ==
  \/ q.prefix # None
  \/ q.target # None /\ (q.route = "collection" \/ q.links \o q.catalog_links # <<>>)

Destination(q) == IF q.target # None THEN q.target ELSE q.prefix

\* _list_json, and the listing of read_prefix_items.
Listing(prefix) ==
  SetToSeq({f \in DOMAIN files : IsStrictPrefix(prefix, f) /\ Last(f) \in JsonNames})

Entry(as, place, path) == [as |-> as, at |-> place, path |-> path]

\* The items a fetched collection links to, and the collections of a catalog.
ItemAgenda(collection, place) ==
  LET hrefs == Hrefs(collection, {"item"})
  IN [i \in DOMAIN hrefs |-> Entry("member", Resolved(place, hrefs[i]),
                                   HrefRelativePath(place, Resolved(place, hrefs[i])))]

ChildAgenda(catalog, place) ==
  LET hrefs == Distinct(Hrefs(catalog, {"collection", "child"}))
  IN [i \in DOMAIN hrefs |-> Entry("collection", Resolved(place, hrefs[i]), <<>>)]

Agenda(q) ==
  IF q.prefix # None
  THEN LET listed == Listing(q.prefix)
       IN [i \in DOMAIN listed |->
             Entry("file", listed[i], SubSeq(listed[i], Len(q.prefix) + 1, Len(listed[i])))]
  ELSE [i \in DOMAIN q.links |->
          Entry(IF q.route = "collection" THEN "item" ELSE "collection", q.links[i], <<>>)]
       \o FlattenSeq([i \in DOMAIN q.catalogs |-> ChildAgenda(q.catalogs[i], <<"inline">>)])
       \o [i \in DOMAIN q.catalog_links |-> Entry("catalog", q.catalog_links[i], <<>>)]

Sourced(documents) == [i \in DOMAIN documents |-> [path |-> <<>>, from |-> <<>>, document |-> documents[i]]]

\* A thread of the pool takes a request.  A local prefix that does not exist is a 404.
Start(t) ==
  /\ at[t] = "idle" /\ served < MaxRequests
  /\ served' = served + 1
  /\ disturbed' = disturbed \ {t}
  /\ \E q \in {r \in Requests : Acceptable(r)} :
       /\ request' = [request EXCEPT ![t] = q]
       /\ todo' = [todo EXCEPT ![t] = Agenda(q)]
       /\ found' = [found EXCEPT ![t] =
            [Nothing EXCEPT !.files = IF q.route = "collection" THEN Sourced(q.inline) ELSE <<>>,
                            !.catalogs = q.catalogs]]
       /\ tree' = [tree EXCEPT ![t] = <<>>]
       /\ written' = [written EXCEPT ![t] = 0]
       /\ IF q.local /\ q.prefix # None /\ \A f \in DOMAIN files : ~IsPrefix(q.prefix, f)
          THEN Answer(t, 404)
          ELSE GoTo(t, "read") /\ answer' = [answer EXCEPT ![t] = None]
  /\ UNCHANGED <<files, faults>>

-----------------------------------------------------------------------------
(* Gathering the sources                                                   *)

\* What is kept of a document d that was read for entry e; the rest is skipped
\* with a warning.
Wanted(q, e, d) ==
  CASE e.as = "file" -> q.route = "catalog" \/ d.type = "Feature"
    [] e.as = "item" -> d.type = "Feature"
    [] e.as = "member" -> d.type = "Feature" /\ d.valid
    [] e.as = "collection" -> d.type = "Collection" /\ d.valid
    [] e.as = "catalog" -> d.type = "Catalog" /\ d.valid

\* read_prefix_items raises for an invalid item instead of skipping it.
Rejected(q, e, d) == q.route = "collection" /\ e.as = "file" /\ d.type = "Feature" /\ ~d.valid

Readable(place) == place \in DOMAIN files /\ files[place] # None

Reading(t) == at[t] = "read" /\ todo[t] # <<>>

Taken(f, e, d) ==
  LET source == [path |-> e.path, from |-> e.at, document |-> d]
  IN CASE e.as \in {"file", "item"} -> [f EXCEPT !.files = Append(@, source)]
       [] e.as = "member" ->
            [f EXCEPT !.scopes[Len(f.scopes)].items = Append(@, source)]
       [] e.as = "collection" ->
            [f EXCEPT !.scopes = Append(@, [at |-> e.at, collection |-> d, items |-> <<>>])]
       [] e.as = "catalog" -> [f EXCEPT !.catalogs = Append(@, d)]

Read(t) ==
  /\ Reading(t)
  /\ LET e == Head(todo[t])
         d == files[e.at]
     IN /\ Readable(e.at) /\ Wanted(request[t], e, d) /\ ~Rejected(request[t], e, d)
        /\ found' = [found EXCEPT ![t] = Taken(@, e, d)]
        /\ todo' = [todo EXCEPT ![t] =
             (CASE e.as = "collection" -> ItemAgenda(d, e.at)
                [] e.as = "catalog" -> ChildAgenda(d, e.at)
                [] OTHER -> <<>>) \o Tail(@)]
  /\ UNCHANGED <<files, at, request, tree, written, answer, disturbed, served, faults>>

\* A document that is missing, is no JSON, or is of no use here.
Skip(t) ==
  /\ Reading(t)
  /\ LET e == Head(todo[t])
     IN Readable(e.at) => ~Wanted(request[t], e, files[e.at])
  /\ todo' = [todo EXCEPT ![t] = Tail(@)]
  /\ UNCHANGED <<files, at, request, found, tree, written, answer, disturbed, served, faults>>

\* A document that could not be read this time.
Miss(t) ==
  /\ Reading(t) /\ faults < MaxFaults
  /\ faults' = faults + 1
  /\ todo' = [todo EXCEPT ![t] = Tail(@)]
  /\ UNCHANGED <<files, at, request, found, tree, written, answer, disturbed, served>>

Reject(t) ==
  /\ Reading(t)
  /\ Readable(Head(todo[t]).at)
  /\ Rejected(request[t], Head(todo[t]), files[Head(todo[t]).at])
  /\ Answer(t, 400)
  /\ UNCHANGED <<files, request, todo, found, tree, written, disturbed, served, faults>>

-----------------------------------------------------------------------------
(* Building and exporting                                                  *)

Documents(sources) == [i \in DOMAIN sources |-> sources[i].document]
Collections(scopes) == [i \in DOMAIN scopes |-> scopes[i].collection]

Scopes(t) == IF request[t].prefix # None THEN PrefixScopes(found[t].files) ELSE found[t].scopes

Base(t) ==
  IF request[t].base = None /\ found[t].catalogs # <<>> THEN found[t].catalogs[1] ELSE request[t].base

\* What is only shown is no file.
Preview(document) == <<[path |-> <<>>, document |-> document]>>

\* create_collection_tree from its second step: the tree, None if it is refused.
BuiltCollection(t) ==
  LET q     == request[t]
      items == Documents(found[t].files)
  IN IF \/ items = <<>> /\ (q.prefix # None \/ (q.links # <<>> /\ q.base = None))
        \/ ProposedId(q, q.base, items) = None
        \/ Exports(q) /\ \E i \in DOMAIN items : ~items[i].valid
        \/ Exports(q) /\ q.prefix = None /\ ~Nameable(items)
     THEN None
     ELSE IF q.prefix # None THEN InPlaceTree(DerivedCollection(q, items), found[t].files)
     ELSE IF Exports(q) THEN CollectionTree(DerivedCollection(q, items), items)
     ELSE Preview(DerivedCollection(q, items))

\* create_catalog_tree from its second step.
BuiltCatalog(t) ==
  LET q       == request[t]
      scopes  == Combined(Scopes(t))
      sources == q.inline \o Collections(scopes)
      catalog == DerivedCatalog(q, Base(t), sources)
  IN IF \/ q.prefix # None /\ MisplacedCollection(found[t].files)
        \/ Ambiguous(Scopes(t))
        \/ catalog.id = None
        \/ Exports(q) /\ (~Nameable(Collections(scopes)) \/ ~AllValid(CatalogTree(catalog, scopes)))
     THEN None
     ELSE IF Exports(q) THEN CatalogTree(catalog, scopes)
     ELSE Preview(catalog)

Built(t) == IF request[t].route = "collection" THEN BuiltCollection(t) ELSE BuiltCatalog(t)

\* The whole tree is built and validated before anything is written.
Build(t) ==
  /\ at[t] = "read" /\ todo[t] = <<>>
  /\ IF Built(t) = None THEN Answer(t, 400) /\ UNCHANGED tree
     ELSE /\ tree' = [tree EXCEPT ![t] = Built(t)]
          /\ IF Exports(request[t]) THEN GoTo(t, "check") /\ UNCHANGED answer ELSE Answer(t, 200)
  /\ UNCHANGED <<files, request, todo, found, written, disturbed, served, faults>>

\* Mutant: only the root of the tree is guarded.
RootGuarded(q, path) == Len(path) = 1

\* The files that are not replaced without overwrite.
Guarded(q, path) ==
  IF q.route = "catalog" THEN Last(path) \in {CatalogFile, CollectionFile}
  ELSE q.prefix = None \/ path = <<CollectionFile>>

Place(t, i) == Destination(request[t]) \o tree[t][i].path

\* The files are looked for one after the other; as none is ever removed, what is
\* not there when the last was looked for was not there when the first was.
Check(t) ==
  /\ at[t] = "check"
  /\ IF /\ ~request[t].overwrite
        /\ \E i \in DOMAIN tree[t] : Guarded(request[t], tree[t][i].path) /\ Place(t, i) \in DOMAIN files
     THEN Answer(t, 409)
     ELSE GoTo(t, "write") /\ UNCHANGED answer
  /\ UNCHANGED <<files, request, todo, found, tree, written, disturbed, served, faults>>

Store(place, document) ==
  files' = [f \in DOMAIN files \cup {place} |-> IF f = place THEN document ELSE files[f]]

\* Mutant: each file is looked for when its turn comes.
WriteIfAbsent(t) ==
  /\ at[t] = "write"
  /\ IF Place(t, written[t] + 1) \in DOMAIN files /\ ~request[t].overwrite
     THEN Answer(t, 409) /\ UNCHANGED <<files, written, disturbed>>
     ELSE /\ Store(Place(t, written[t] + 1), tree[t][written[t] + 1].document)
          /\ written' = [written EXCEPT ![t] = @ + 1]
          /\ disturbed' = disturbed \cup (Threads \ {t})
          /\ IF written[t] + 1 = Len(tree[t]) THEN Answer(t, 200) ELSE UNCHANGED <<at, answer>>
  /\ UNCHANGED <<request, todo, found, tree, served, faults>>

Write(t) ==
  /\ at[t] = "write"
  /\ Store(Place(t, written[t] + 1), tree[t][written[t] + 1].document)
  /\ written' = [written EXCEPT ![t] = @ + 1]
  /\ disturbed' = disturbed \cup (Threads \ {t})
  /\ IF written[t] + 1 = Len(tree[t]) THEN Answer(t, 200) ELSE UNCHANGED <<at, answer>>
  /\ UNCHANGED <<request, todo, found, tree, served, faults>>

\* Storage fails.  A local file that is cut off has lost what it held.
Fail(t) ==
  /\ at[t] \in {"check", "write"} /\ faults < MaxFaults
  /\ faults' = faults + 1
  /\ Answer(t, 500)
  /\ \/ UNCHANGED <<files, disturbed>>
     \/ /\ at[t] = "write" /\ request[t].local
        /\ Store(Place(t, written[t] + 1), None)
        /\ disturbed' = disturbed \cup (Threads \ {t})
  /\ UNCHANGED <<request, todo, found, tree, written, served>>

Next == \E t \in Threads : Start(t) \/ Read(t) \/ Skip(t) \/ Miss(t) \/ Reject(t) \/ Build(t)
                           \/ Check(t) \/ Write(t) \/ Fail(t)

Spec == Init /\ [][Next]_vars

-----------------------------------------------------------------------------
(* Properties                                                              *)

Stages == {"idle", "read", "check", "write"}

Type(t) ==
  /\ at[t] \in Stages
  /\ answer[t] \in {None, 200, 400, 404, 409, 500}
  /\ written[t] \in 0..Len(tree[t])
  /\ at[t] # "read" => todo[t] = <<>> \/ answer[t] \in {400, 404}

\* The kinds of things, how far a thread is with its tree, and that no request is
\* refused (create_collection_tree, create_catalog_tree) once a file is written.
TypeOK ==
  /\ \A t \in Threads : Type(t)
  /\ \A f \in DOMAIN files : files[f] # None => files[f].type \in {"Catalog", "Collection", "Feature"}
  /\ \A t \in Threads : answer[t] \in {400, 404, 409} => written[t] = 0
  /\ served \in 0..MaxRequests /\ faults \in 0..MaxFaults

\* The threads whose tree is as they left it.
Exported == {t \in Threads \ disturbed : answer[t] = 200 /\ Exports(request[t])}

\* What the link of a document of the type leads to, in an exported tree.
LinkedType(root, rel) ==
  CASE rel = "root" -> root
    [] rel = "item" -> "Feature"
    [] rel \in {"child", "collection"} -> "Collection"
    [] rel = "parent" -> None

TreeRels(type) ==
  CASE type = "Catalog" -> {"root", "child"}
    [] type = "Collection" -> {"root", "parent", "item"}
    [] type = "Feature" -> {"root", "parent", "collection"}

Leads(place, link, root) ==
  LET there == Resolved(place, link.href)
  IN Readable(there) /\ (LinkedType(root, link.rel) # None => files[there].type = LinkedType(root, link.rel))

\* An exported tree is self-contained: every link between its objects, as
\* collection_tree_payloads, export_into_source_prefix and catalog_tree_payloads
\* wire them, leads to an object of the right kind, and every item to the
\* collection it names.
TreeIsSelfContained ==
  \A t \in Exported : \A i \in DOMAIN tree[t] :
    LET place == Place(t, i)
        d     == files[place]
    IN /\ Readable(place)
       /\ \A k \in DOMAIN d.links : d.links[k].rel \in TreeRels(d.type) =>
            Leads(place, d.links[k], tree[t][1].document.type)
       /\ \A k \in DOMAIN d.links : d.type = "Feature" /\ d.links[k].rel = "collection" =>
            files[Resolved(place, d.links[k].href)].id = d.collection

\* The documents the object at a place links to.
LinkedFrom(place, rel) ==
  {Resolved(place, h) : h \in Range(Hrefs(files[place], {rel}))}

SameItem(d, item) == d.type = "Feature" /\ d.id = item.id /\ d.extent = item.extent

\* The items of scope s that no later one of s is written over: their paths differ
\* after safe_export_name too, and are not that of the collection itself.
Unreplaced(s) == {k \in DOMAIN s.items :
  /\ SafePath(s.items[k].path) # <<CollectionFile>>
  /\ \A l \in DOMAIN s.items : l > k => SafePath(s.items[l].path) # SafePath(s.items[k].path)}

\* The collection scope s is in the catalog at root, with those items K of it.
ScopeIsIn(root, s, K) ==
  \E place \in LinkedFrom(root, "child") :
    /\ files[place].id = s.collection.id
    /\ \A k \in K : \E f \in LinkedFrom(place, "item") : SameItem(files[f], s.items[k].document)

\* The collections a catalog was exported from, each as it was reached first.
ExportedScopes(t) == IF request[t].route = "catalog" THEN Range(Combined(found[t].scopes)) ELSE {}

\* An exported catalog has every collection that was fetched for it, as it was
\* reached first (_combine_sources), and every item of it (_collection_scope) but
\* those whose path becomes that of a later one: `i 2/item.json` and `i-2/item.json`.
TreeIsComplete ==
  \A t \in Exported : \A s \in ExportedScopes(t) :
    ScopeIsIn(Destination(request[t]) \o <<CatalogFile>>, s, Unreplaced(s))

\* No other item below the folder dir is exported to the path that file g is.
OwnPath(dir, g) == \A h \in DOMAIN files :
  (/\ h # g /\ IsPrefix(dir, h) /\ Last(h) \in JsonNames
   /\ Readable(h) /\ files[h].type = "Feature")
    => SafePath(SubSeq(h, Len(dir) + 1, Len(h))) # SafePath(SubSeq(g, Len(dir) + 1, Len(g)))

\* What the collection route has written the catalog route finds again by its
\* prefix (_read_collection_prefix): when all was read, every valid item below a
\* collection's folder is in the new catalog, under that collection, unless another
\* one is exported to the same path.
PrefixIsExported ==
  \A t \in Exported : (request[t].route = "catalog" /\ request[t].prefix # None /\ faults = 0) =>
    \A f, g \in DOMAIN files :
      LET prefix == request[t].prefix
      IN (/\ IsPrefix(prefix, f) /\ Readable(f) /\ files[f].type = "Collection"
          /\ IsPrefix(Dir(f), g) /\ Last(g) \in JsonNames /\ Readable(g)
          /\ files[g].type = "Feature" /\ files[g].valid /\ OwnPath(Dir(f), g))
         => \E place \in LinkedFrom(Destination(request[t]) \o <<CatalogFile>>, "child") :
              /\ files[place].id = files[f].id
              /\ \E h \in LinkedFrom(place, "item") :
                   SameItem(files[h], files[g]) /\ files[h].collection = files[f].id

\* _write_files: without overwrite, no root or collection that is there is replaced,
\* nor an item by the collection route, unless another request has written meanwhile.
NothingReplacedUnasked ==
  [][\A t \in Threads :
       (Write(t) /\ t \notin disturbed /\ ~request[t].overwrite
        /\ Place(t, written[t] + 1) \in DOMAIN files)
       => ~(Last(Place(t, written[t] + 1)) \in {CatalogFile, CollectionFile})
          /\ (request[t].route = "catalog" \/ request[t].prefix # None)]_vars

\* Whether the extent of a collection covers an item's box and times.
CoversBox(extent, e) ==
  IF e.box[1] <= e.box[2] /\ extent.box[1] <= extent.box[2]
  THEN extent.box[1] <= e.box[1] /\ e.box[2] <= extent.box[2]
  ELSE extent.box = e.box \/ extent.box = World

Since(extent, time) == extent.from = None \/ (time # None /\ extent.from <= time)
Until(extent, time) == extent.to = None \/ (time # None /\ time <= extent.to)

CoversTime(extent, e) ==
  /\ e.datetime # None => Since(extent, e.datetime) /\ Until(extent, e.datetime)
  /\ (e.from # None \/ e.to # None) => Since(extent, e.from) /\ Until(extent, e.to)

\* The items a collection was made of, once it is answered: those its links lead to,
\* or of a preview those that were given and read.
ItemsOf(t) ==
  IF Exports(request[t])
  THEN {files[f].extent : f \in LinkedFrom(Destination(request[t]) \o <<CollectionFile>>, "item")}
  ELSE {found[t].files[i].document.extent : i \in DOMAIN found[t].files}

ExtentIn(t) ==
  IF Exports(request[t]) THEN files[Destination(request[t]) \o <<CollectionFile>>].extent
  ELSE tree[t][1].document.extent

Collected ==
  {t \in Threads : /\ answer[t] = 200 /\ request[t].route = "collection"
                   /\ Exports(request[t]) => t \in Exported}

\* What _extent leaves out: the start and end of an item that has a datetime as well
\* (_item_interval), an open side that another item closes (_union_interval, only in
\* previews, as an invalid item has one), and boxes across the antimeridian.
Crossing(e) == e.box # None /\ e.box[1] > e.box[2]
LeftOut(e) == e.datetime # None /\ (e.from # None \/ e.to # None)

\* The extent a collection declares covers every item it was made of, but for just
\* that, and no item with an open side is ever exported.
ExtentCoversItems ==
  \A t \in Collected : \A e \in ItemsOf(t) :
    /\ e.box # None /\ (\A d \in ItemsOf(t) : ~Crossing(d)) => CoversBox(ExtentIn(t), e)
    /\ ~LeftOut(e) /\ ~HalfOpen(e) => CoversTime(ExtentIn(t), e)
    /\ LeftOut(e) => CoversTime(ExtentIn(t), [e EXCEPT !.from = None, !.to = None])
    /\ HalfOpen(e) => /\ ~Exports(request[t])
                      /\ e.from # None => Since(ExtentIn(t), e.from)
                      /\ e.to # None => Until(ExtentIn(t), e.to)

\* What is exported is one whole: its links lead to what they name, and its extent
\* covers what they lead to.
TreeIsSound == TreeIsSelfContained /\ ExtentCoversItems

\* What was given to an export, or was exported before it, is in the export.
ExportIsComplete == TreeIsComplete /\ PrefixIsExported

=============================================================================
