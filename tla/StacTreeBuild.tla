---------------------------- MODULE StacTreeBuild ----------------------------
(***************************************************************************)
(* How EPT builds the objects of a STAC tree: the metadata it derives for  *)
(* a new collection or catalog, the folder and file each object gets, and  *)
(* the links between them (ept/features/stac_collection_tree,              *)
(* stac_catalog_tree, ept/infrastructure/formats/stac/collection.py and    *)
(* catalog.py).  Nothing here has a state: StacTrees reads the sources and *)
(* writes what this module builds.                                         *)
(*                                                                         *)
(* A path is the sequence of its segments.  An href is a relative one:     *)
(* [up, down] climbs up folders and descends along down; an absolute one   *)
(* climbs to the top.  A document is a STAC object:                        *)
(*   type, id, title   as in the JSON                                      *)
(*   valid             whether it passes its schema                        *)
(*   links             its links [rel, href], in order                     *)
(*   collection        of an item, the id of its collection                *)
(*   keywords, providers   sequences; a provider is [key, role], its key   *)
(*                     standing for name and url                           *)
(*   license, licenses of an item, what it says of its license; of a       *)
(*                     collection the license and the ones listed          *)
(*   extent            [box, datetime, from, to]: box is <<low, high>>, on *)
(*                     one axis, from high to low across the antimeridian; *)
(*                     each part may be None, and a collection's datetime  *)
(*                     is                                                  *)
(***************************************************************************)
EXTENDS Integers, SequencesExt, FiniteSetsExt, Functions

CONSTANTS
  None,      \* JSON null
  SafeName,  \* safe_export_name: a file name for an id or a path segment
  World      \* the box around everything

CollectionFile == "collection.json"
CatalogFile    == "catalog.json"

Open == [box |-> None, datetime |-> None, from |-> None, to |-> None]

\* An item that has a start or an end, and neither the other nor a datetime.
HalfOpen(e) == e.datetime = None /\ (e.from = None) # (e.to = None)

-----------------------------------------------------------------------------
(* Paths                                                                   *)

Dir(path) == Front(path)

\* An href against the object at path: posixpath.join and normpath.
Resolved(path, href) == SubSeq(Dir(path), 1, Len(Dir(path)) - href.up) \o href.down

\* posixpath.relpath
RelativeTo(path, dir) ==
  LET shared == Max({n \in 0..Len(dir) :
                       n <= Len(path) /\ SubSeq(path, 1, n) = SubSeq(dir, 1, n)})
  IN [up |-> Len(dir) - shared, down |-> SubSeq(path, shared + 1, Len(path))]

\* Where a fetched item goes below its collection: the path it has there, or its
\* file name when it lies elsewhere.
HrefRelativePath(collection, item) ==
  IF Dir(collection) # <<>> /\ IsPrefix(Dir(collection), item)
  THEN SubSeq(item, Len(collection), Len(item))
  ELSE <<Last(item)>>

Link(rel, href) == [rel |-> rel, href |-> href]

Hrefs(document, rels) ==
  LET links == SelectSeq(document.links, LAMBDA l : l.rel \in rels)
  IN [i \in DOMAIN links |-> links[i].href]

\* dict.fromkeys: the first of each, in order.
Distinct(s) == FoldLeft(LAMBDA seen, x : IF Contains(seen, x) THEN seen ELSE Append(seen, x), <<>>, s)

-----------------------------------------------------------------------------
(* Derivation                                                              *)

\* The base, when there is one, comes before the sources.
WithBase(base, sources) == (IF base = None THEN <<>> ELSE <<base>>) \o sources

All(documents, field) == FlattenSeq([i \in DOMAIN documents |-> documents[i][field]])

Keywords(base, sources) == Distinct(All(WithBase(base, sources), "keywords"))

\* The base's providers are kept as they are, and win over the sources'.
Providers(base, sources) ==
  FoldLeft(LAMBDA kept, p : IF \E i \in DOMAIN kept : kept[i].key = p.key THEN kept ELSE Append(kept, p),
           IF base = None THEN <<>> ELSE base.providers,
           All(sources, "providers"))

Licenses(items) == Distinct(All(items, "licenses"))

\* A license is shared when it is the only one the items name.
License(base, items) ==
  IF base # None /\ base.license # None THEN base.license
  ELSE IF Len(Licenses(items)) = 1 THEN Licenses(items)[1]
  ELSE "other"

\* _item_interval: an item's datetime, when it has one, hides its start and its end.
Interval(item) ==
  LET e == item.extent
  IN IF e.datetime # None THEN [from |-> e.datetime, to |-> e.datetime] ELSE [from |-> e.from, to |-> e.to]

\* One side of the items' intervals, as far as they have it.
Side(items, side) == {Interval(items[i])[side] : i \in DOMAIN items} \ {None}

Boxes(items) == {items[i].extent.box : i \in DOMAIN items} \ {None}

\* _union_interval: an open side of an interval does not count.
UnionInterval(items) ==
  LET starts == Side(items, "from")
      ends   == Side(items, "to")
  IN [from |-> IF starts = {} THEN None ELSE Min(starts), to |-> IF ends = {} THEN None ELSE Max(ends)]

UnionBox(items) ==
  LET boxes == Boxes(items)
  IN IF boxes = {} THEN World ELSE <<Min({b[1] : b \in boxes}), Max({b[2] : b \in boxes})>>

\* The union of the items' boxes and intervals; without any of them the base's
\* extent, then the whole world.
ExtentOf(base, items) ==
  IF Boxes(items) # {} \/ \E side \in {"from", "to"} : Side(items, side) # {}
  THEN [box |-> UnionBox(items), datetime |-> None, from |-> UnionInterval(items).from, to |-> UnionInterval(items).to]
  ELSE IF base # None THEN base.extent ELSE [Open EXCEPT !.box = World]

Title(q, base) == IF q.title # None THEN q.title ELSE IF base # None THEN base.title ELSE None

\* The slug of the title; of a collection without one, that of its first item's id.
Slug(q, base, items) ==
  IF Title(q, base) # None THEN SafeName[Title(q, base)]
  ELSE IF q.route = "collection" /\ items # <<>> THEN SafeName[items[1].id]
  ELSE q.route

\* _propose_id: None when the request names no id and the token no user.
ProposedId(q, base, items) ==
  IF q.id # None THEN q.id
  ELSE IF base # None THEN base.id \o "-" \o Slug(q, base, items)
  ELSE IF q.user # None THEN q.user \o "-" \o Slug(q, base, items)
  ELSE None

DerivedCollection(q, items) ==
  [type |-> "Collection", id |-> ProposedId(q, q.base, items), title |-> Title(q, q.base),
   valid |-> TRUE, links |-> <<>>, collection |-> None,
   keywords |-> Keywords(q.base, items), providers |-> Providers(q.base, items),
   license |-> License(q.base, items),
   licenses |-> IF Len(Licenses(items)) > 1 THEN Licenses(items) ELSE <<>>,
   extent |-> ExtentOf(q.base, items)]

\* base is the request's, or else the first catalog source.
DerivedCatalog(q, base, collections) ==
  [type |-> "Catalog", id |-> ProposedId(q, base, collections), title |-> Title(q, base),
   valid |-> TRUE, links |-> <<>>, collection |-> None,
   keywords |-> Keywords(base, collections), providers |-> Providers(base, collections),
   license |-> None, licenses |-> <<>>, extent |-> Open]

-----------------------------------------------------------------------------
(* Layout: a tree is a sequence of [path, document], its root first        *)

Kept(document, dropped) == SelectSeq(document.links, LAMBDA l : l.rel \notin dropped)

TopRels == {"root", "parent", "item", "self", "child"}
ItemRels == {"root", "parent", "collection", "self"}

ItemLinks(rels) == [i \in DOMAIN rels |-> Link("item", [up |-> 0, down |-> rels[i]])]

\* An item's place in a tree: its collection, and the way to it and to the root.
Placed(item, id, kept, root, collection) ==
  [item EXCEPT !.collection = id,
               !.links = kept \o <<Link("root", root), Link("parent", collection),
                                   Link("collection", collection)>>]

\* collection_tree_payloads: every item under <id>/<id>.json.
CollectionTree(collection, items) ==
  LET name == [i \in DOMAIN items |-> SafeName[items[i].id]]
      rel  == [i \in DOMAIN items |-> <<name[i], name[i] \o ".json">>]
      back == [up |-> 1, down |-> <<CollectionFile>>]
  IN <<[path |-> <<CollectionFile>>,
        document |-> [collection EXCEPT !.links = Kept(collection, TopRels)
                        \o <<Link("root", [up |-> 0, down |-> <<CollectionFile>>])>> \o ItemLinks(rel)]]>>
     \o [i \in DOMAIN items |->
           [path |-> rel[i],
            document |-> Placed(items[i], collection.id, Kept(items[i], ItemRels), back, back)]]

\* Mutant: every item points at a collection in its own folder.
SameFolder(path) == [up |-> 0, down |-> <<CollectionFile>>]

\* _relative_collection_href: up to the prefix, where collection.json is.
WayBack(path) == [up |-> Len(Dir(path)), down |-> <<CollectionFile>>]

\* export_into_source_prefix: the items stay where they are, and lose every other link.
InPlaceTree(collection, files) ==
  <<[path |-> <<CollectionFile>>,
     document |-> [collection EXCEPT !.links =
       <<Link("root", [up |-> 0, down |-> <<CollectionFile>>])>>
       \o ItemLinks([i \in DOMAIN files |-> files[i].path])]]>>
  \o [i \in DOMAIN files |->
        [path |-> files[i].path,
         document |-> Placed(files[i].document, collection.id, <<>>,
                             WayBack(files[i].path), WayBack(files[i].path))]]

SafePath(path) == [i \in DOMAIN path |-> SafeName[path[i]]]

\* One scope [collection, items] of a catalog, items being [path, document].
ScopeTree(scope) ==
  LET dir  == SafeName[scope.collection.id]
      rel  == [i \in DOMAIN scope.items |-> SafePath(scope.items[i].path)]
      at   == [i \in DOMAIN rel |-> <<dir>> \o rel[i]]
      here == <<dir, CollectionFile>>
      root == [up |-> 1, down |-> <<CatalogFile>>]
  IN <<[path |-> here,
        document |-> [scope.collection EXCEPT !.links =
            Kept(scope.collection, TopRels) \o <<Link("root", root), Link("parent", root)>> \o ItemLinks(rel)]]>>
     \o [i \in DOMAIN rel |->
           [path |-> at[i],
            document |-> Placed(scope.items[i].document, scope.collection.id,
                                Kept(scope.items[i].document, ItemRels),
                                RelativeTo(<<CatalogFile>>, Dir(at[i])), RelativeTo(here, Dir(at[i])))]]

\* catalog_tree_payloads
CatalogTree(catalog, scopes) ==
  <<[path |-> <<CatalogFile>>,
     document |-> [catalog EXCEPT !.links =
       <<Link("root", [up |-> 0, down |-> <<CatalogFile>>])>>
       \o [i \in DOMAIN scopes |->
             Link("child", [up |-> 0, down |-> <<SafeName[scopes[i].collection.id], CollectionFile>>])]]]>>
  \o FlattenSeq([i \in DOMAIN scopes |-> ScopeTree(scopes[i])])

\* _require_unique, _dirnames and the names of collection_tree_payloads: no two
\* objects of one folder may get the same name.
Nameable(documents) == IsInjective([i \in DOMAIN documents |-> SafeName[documents[i].id]])

AllValid(tree) == \A i \in DOMAIN tree : tree[i].document.valid

-----------------------------------------------------------------------------
(* Combining the sources of a catalog                                      *)

Ambiguous(scopes) ==
  \E i, j \in DOMAIN scopes : /\ scopes[i].collection.id = scopes[j].collection.id
                              /\ scopes[i].collection # scopes[j].collection

\* _combine_sources: of a collection that is reached more than once, the first.
Combined(scopes) ==
  FoldLeft(LAMBDA kept, s : IF \E i \in DOMAIN kept : kept[i].collection.id = s.collection.id
                            THEN kept ELSE Append(kept, s), <<>>, scopes)

CollectionDirs(files) == {Dir(files[i].path) : i \in {j \in DOMAIN files : files[j].document.type = "Collection"}}

\* _read_collection_prefix refuses a collection outside a folder, two in one
\* folder, and one folder inside another; and a prefix without any.
MisplacedCollection(files) ==
  LET dirs == CollectionDirs(files)
  IN \/ dirs = {} \/ <<>> \in dirs
     \/ \E d, e \in dirs : IsStrictPrefix(d, e)
     \/ \E i, j \in DOMAIN files :
          /\ files[i].document.type = "Collection" /\ files[j].document.type = "Collection"
          /\ Dir(files[i].path) = Dir(files[j].path)
          /\ files[i].document.id # files[j].document.id

\* Mutant: only the items in the collection's own folder are its items.
ClaimsDirectly(dir, file) == Dir(file.path) = dir /\ file.document.type = "Feature" /\ file.document.valid

\* A collection's items are the valid ones anywhere below its folder.
Claims(dir, file) == IsPrefix(dir, file.path) /\ file.document.type = "Feature" /\ file.document.valid

\* What _read_collection_prefix makes of the files it could parse.
PrefixScopes(files) ==
  LET dirs == SetToSeq(CollectionDirs(files))
      CollectionOf(d) == (CHOOSE f \in Range(files) : f.document.type = "Collection" /\ Dir(f.path) = d).document
      ItemsOf(d) == LET found == SelectSeq(files, LAMBDA f : Claims(d, f))
                    IN [i \in DOMAIN found |->
                          [path |-> SubSeq(found[i].path, Len(d) + 1, Len(found[i].path)),
                           document |-> found[i].document]]
  IN [i \in DOMAIN dirs |-> [collection |-> CollectionOf(dirs[i]), items |-> ItemsOf(dirs[i])]]

=============================================================================
