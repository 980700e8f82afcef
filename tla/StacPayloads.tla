---------------------------- MODULE StacPayloads ----------------------------
(***************************************************************************)
(* What a STAC server answers, and what                                    *)
(* ept/infrastructure/formats/stac/read.py makes of it: the objects a      *)
(* payload holds, and the queue entries its links lead to.                 *)
(*                                                                         *)
(* A payload is a record:                                                  *)
(*   kind     "object"   one STAC object, whose URL is the fetched URL     *)
(*            "page"     a FeatureCollection                               *)
(*            "listing"  a page of a STAC API's /collections               *)
(*            "broken"   not fetched after every retry, or not a JSON dict *)
(*   objects  the object, or the features of the page                      *)
(*   entries  the URLs of the listing's collections                        *)
(*   next     its rel="next" links                                         *)
(*   items    its rel="items" link, or None                                *)
(*   data     its rel="data" links                                         *)
(*   api      whether it names the conformance classes of a STAC API       *)
(* An object has a URL (of a feature: its self link), a type, whether its  *)
(* schema and assets are in order, whether it declares the latest STAC     *)
(* version, and its child and item links.  A feature of type "junk" is not *)
(* a JSON object, and has no URL.                                          *)
(***************************************************************************)
EXTENDS Lists, SequencesExt

CONSTANTS
  Urls,           \* the URLs of a catalog and of its surroundings
  None,           \* no URL, no type
  DefaultItems,   \* {url}/items, of every URL
  DefaultListing  \* {root}/collections

Types == {"catalog", "collection", "item", "junk", None}

Objects == [url : Urls \cup {None}, type : Types, sound : BOOLEAN, latest : BOOLEAN,
            links : Seq(Urls)]

\* An object that is not junk has a URL, its link's or one the reader makes for it.
WellformedObject(o) == IF o.type = "junk" THEN o.url = None /\ o.latest ELSE o.url \in Urls

Payloads ==
  {p \in [kind : {"object", "page", "listing", "broken"}, objects : Seq(Objects),
          entries : Seq(Urls), next : Seq(Urls), items : Urls \cup {None},
          data : Seq(Urls), api : BOOLEAN] :
     /\ \A o \in ToSet(p.objects) : WellformedObject(o)
     /\ p.kind = "object" => Len(p.objects) = 1 /\ p.objects[1].type # "junk"
     /\ p.kind \in {"listing", "broken"} => p.objects = <<>>}

QueueEntry == [url : Urls, depth : Nat, ptype : Types, parent : Urls \cup {None}]

\* What is fetched of an entry; error is whether there is a fetch_error.
CollectedObject ==
  [url : Urls, type : Types, parent : Urls \cup {None}, depth : Nat, links : Seq(Urls),
   error : BOOLEAN, latest : BOOLEAN, invalid : BOOLEAN]

Entry(u, d, t, p) == [url |-> u, depth |-> d, ptype |-> t, parent |-> p]

Entries(us, d, t, p) == [i \in DOMAIN us |-> Entry(us[i], d, t, p)]

-----------------------------------------------------------------------------
(* fetch_stac_objects                                                      *)

\* EDITO's rules on where an object may be.
Misplaced(type, ptype) ==
  \/ type = "item" /\ ptype # "collection"
  \/ type = "collection" /\ ptype = "collection"

\* An object that could not be fetched or parsed, at the URL that was fetched.
Failure(e) ==
  [url |-> e.url, type |-> None, parent |-> e.parent, depth |-> e.depth,
   links |-> <<>>, error |-> TRUE, invalid |-> TRUE, latest |-> TRUE]

Collected(e, o) ==
  IF o.type = "junk" THEN Failure(e)
  ELSE [url |-> o.url, type |-> o.type, parent |-> e.parent, depth |-> e.depth,
        links |-> o.links, error |-> FALSE, latest |-> o.latest,
        invalid |-> ~o.sound \/ Misplaced(o.type, e.ptype)]

\* The objects that come of entry e when the server answers it with p.
Fetched(e, p) ==
  IF p.kind = "broken" THEN <<Failure(e)>>
  ELSE [i \in DOMAIN p.objects |-> Collected(e, p.objects[i])]

-----------------------------------------------------------------------------
(* Link extraction, and the two discover() closures                        *)

static_children(o) == Entries(o.links, o.depth + 1, o.type, o.url)

\* Mutant: a next page is put one level deeper.
NextLevel(e, p) == Entries(p.next, e.depth + 1, e.ptype, e.parent)

\* Mutant: a next page becomes a child of its page.
NextOfPage(e, p) == Entries(p.next, e.depth, e.ptype, e.url)

\* A next page is a sibling of its page.
NextPages(e, p) == Entries(p.next, e.depth, e.ptype, e.parent)

\* What collect_stac_tree finds behind one object of a static catalog.
BehindStatic(o, p) ==
  IF o.error THEN <<>>
  ELSE static_children(o)
       \o (IF o.type = "collection" /\ p.items # None
           THEN <<Entry(p.items, o.depth + 1, o.type, o.url)>> ELSE <<>>)

\* The items endpoint of a collection.
items_url(o, p) == IF p.items # None THEN p.items ELSE DefaultItems[o.url]

\* What read_stac_api finds behind one object: a collection's items endpoint
\* first, then its static links.
BehindApi(o, p, e) ==
  IF o.error THEN <<>>
  ELSE (IF o.type = "collection"
        THEN <<Entry(items_url(o, p), e.depth + 1, "collection", o.url)>> ELSE <<>>)
       \o static_children(o)

\* discover() of collect_stac_tree.
DiscoverStatic(e, p, max_depth) ==
  NextPages(e, p)
  \o (IF e.depth >= max_depth THEN <<>>
      ELSE FlattenSeq([i \in DOMAIN Fetched(e, p) |-> BehindStatic(Fetched(e, p)[i], p)]))

\* discover() of read_stac_api.  A listed collection keeps the depth and the
\* parent of its listing page.
DiscoverApi(e, p, max_depth) ==
  NextPages(e, p)
  \o (IF e.depth >= max_depth THEN <<>>
      ELSE Entries(p.entries, e.depth, e.ptype, e.parent)
           \o FlattenSeq([i \in DOMAIN Fetched(e, p) |-> BehindApi(Fetched(e, p)[i], p, e)]))

\* What makes a catalog an API.
is_stac_api_catalog(p) == p.api \/ p.data # <<>>

\* The listings of an API's collections.
collections_endpoint_urls(p) == IF p.data # <<>> THEN p.data ELSE <<DefaultListing>>

\* The entries whose URL is not in U.
Without(entries, U) == Picked(entries, {i \in DOMAIN entries : entries[i].url \notin U})

\* The entries read_stac_api starts from: the collections endpoint and the static
\* links of the root object o.
ApiSeeds(o, p) ==
  Entries(collections_endpoint_urls(p), 1, "catalog", o.url)
  \o Without(static_children(o), {o.url})

\* The entries collect_stac_tree starts from, in a static catalog.
StaticSeeds(o, root_url) ==
  Without(static_children(o), {root_url})

=============================================================================
