-------------------------- MODULE MCStacValidation --------------------------
(* Catalogs for TLC: a static one, r with children a and b and an items page *)
(* p, and a STAC API, r with listings a and b, collection c and its items    *)
(* page p.  f is the URL of a feature, x is on another host.                 *)
EXTENDS StacValidation

CONSTANTS r, a, b, c, p, f, x

Object(u, t, links) ==
  [url |-> u, type |-> t, sound |-> TRUE, latest |-> TRUE, links |-> links]

Nothing ==
  [kind |-> "broken", objects |-> <<>>, entries |-> <<>>, next |-> <<>>,
   items |-> None, data |-> <<>>, api |-> FALSE]

One(o)          == [Nothing EXCEPT !.kind = "object", !.objects = <<o>>]
Collection(o, i) == [One(o) EXCEPT !.items = i]
Page(os, nexts) == [Nothing EXCEPT !.kind = "page", !.objects = os, !.next = nexts]
Listing(cs, nexts) == [Nothing EXCEPT !.kind = "listing", !.entries = cs, !.next = nexts]
Api(links, data) == [One(Object(r, "catalog", links)) EXCEPT !.api = TRUE, !.data = data]

Links(S) == {SetToSeq(T) : T \in SUBSET S}
Unsound(o)  == [o EXCEPT !.sound = FALSE]
Outdated(o) == [o EXCEPT !.latest = FALSE]
Item(u)     == Object(u, "item", <<>>)
Junk        == Object(None, "junk", <<>>)

StaticWebs ==
  {[u \in Urls |-> CASE u = r -> wr [] u = a -> wa [] u = b -> wb [] u = p -> wp
                     [] OTHER -> Nothing] :
     wr \in {One(Object(r, "catalog", l)) : l \in Links({a, b, x})},
     wa \in {Collection(Object(a, "collection", l), p) : l \in Links({r, b})}
            \cup {One(Object(a, "catalog", l)) : l \in Links({b, x})} \cup {Nothing},
     wb \in {One(Item(b)), One(Unsound(Item(b))), One(Outdated(Item(b))),
             Collection(Object(b, "collection", <<a>>), p)},
     wp \in {Page(<<Item(f)>>, <<b>>), Page(<<Item(f), Item(b)>>, <<b>>),
             Page(<<Item(f), Junk>>, <<p>>), Page(<<Junk, Junk>>, <<>>), Page(<<>>, <<x>>)}}

RootWebs == {[u \in Urls |-> IF u = r THEN wr ELSE Nothing] :
  wr \in {Nothing, Page(<<Item(f), Unsound(Item(b))>>, <<a>>), Page(<<>>, <<>>),
          Listing(<<a>>, <<>>)}}

\* Two items pages that each hold a feature with the self link of collection a.
TangledWeb ==
  [u \in Urls |->
     CASE u = r -> One(Object(r, "catalog", <<a, b>>))
       [] u = a -> Collection(Object(a, "collection", <<>>), p)
       [] u = b -> Collection(Object(b, "collection", <<>>), f)
       [] u \in {p, f} -> Page(<<Item(a)>>, <<>>)
       [] OTHER -> Nothing]

\* A page that follows a holds a catalog c, which links to f, two levels below the root;
\* it waits for its turn, in which b has linked to it from one level below.
LatePage ==
  [u \in Urls |->
     CASE u = r -> One(Object(r, "catalog", <<b, a>>))
       [] u = a -> Page(<<>>, <<p>>)
       [] u = b -> One(Object(b, "catalog", <<p>>))
       [] u = p -> Page(<<Object(c, "catalog", <<f>>)>>, <<>>)
       [] u = f -> One(Item(f))
       [] OTHER -> Nothing]

\* The same in an API: collection c is on the second page of its listing, and
\* below catalog b, to which the root links.
LateListing ==
  [u \in Urls |->
     CASE u = r -> Api(<<b>>, <<a>>)
       [] u = a -> Listing(<<>>, <<f>>)
       [] u = f -> Listing(<<c>>, <<>>)
       [] u = b -> One(Object(b, "catalog", <<c>>))
       [] u = c -> Collection(Object(c, "collection", <<>>), p)
       [] u = p -> Page(<<Item(x)>>, <<>>)
       [] OTHER -> Nothing]

CatalogWebs == StaticWebs \cup RootWebs \cup {TangledWeb, LatePage, LateListing}

ApiWebs ==
  {[u \in Urls |-> CASE u = r -> wr [] u = a -> wa [] u = b -> wb [] u = c -> wc
                     [] u = p -> wp [] OTHER -> Nothing] :
     wr \in {Api(<<>>, <<a>>), Api(<<>>, <<>>), Api(<<c>>, <<a>>)},
     wa \in {Listing(<<>>, <<b>>), Listing(<<c>>, <<>>), Listing(<<c, x>>, <<b>>), Nothing},
     wb \in {Listing(<<c>>, <<>>), Listing(<<>>, <<a, x>>), One(Object(b, "catalog", <<c>>))},
     wc \in {Collection(Object(c, "collection", <<>>), i) : i \in {None, p}}
            \cup {Collection(Object(c, "collection", <<f>>), p), Nothing},
     wp \in {Page(<<Item(f)>>, <<>>), Page(<<Item(f), Item(x)>>, <<b>>),
             Page(<<Item(c)>>, <<p>>), Nothing}}

\* An items page with two features that are no JSON objects.
JunkWebs ==
  {[u \in Urls |->
     CASE u = r -> One(Object(r, "catalog", <<a>>))
       [] u = a -> Collection(Object(a, "collection", <<>>), p)
       [] u = p -> Page(<<Junk, Junk>>, <<>>)
       [] OTHER -> Nothing]}

AllWebs == CatalogWebs \cup ApiWebs

SmallRequests ==
  [validate_children : {TRUE}, max_depth : {1, 2}, max_objects : {2, 3, 9}]
  \cup {[validate_children |-> FALSE, max_depth |-> 1, max_objects |-> 9]}

ItemsEndpoints == [u \in Urls |-> IF u = c THEN p ELSE x]

=============================================================================
