----------------------------- MODULE MCStacTrees -----------------------------
(* Sources for TLC: a catalog "src" with a nested one and a collection of   *)
(* two items, in folders whose names are the same once they are made safe,  *)
(* and a third item in a subfolder that only a walk of the prefix finds;    *)
(* a collection "beta" whose items lie elsewhere, both in files called      *)
(* item.json; and a folder of loose items.                                  *)
EXTENDS StacTrees, TLC

CONSTANTS t1, t2

Doc(type, id, links) ==
  [type |-> type, id |-> id, title |-> None, valid |-> TRUE, links |-> links, collection |-> None,
   keywords |-> <<>>, providers |-> <<>>, license |-> None, licenses |-> <<>>, extent |-> Open]

Item(id, box, datetime, from, to) ==
  [Doc("Feature", id, <<>>) EXCEPT !.extent = [box |-> box, datetime |-> datetime, from |-> from, to |-> to],
                                   !.keywords = <<"sea", id>>, !.licenses = <<"MIT">>]

Down(path) == [up |-> 0, down |-> path]
Up(path)   == [up |-> 1, down |-> path]

\* i4 has all three times, i6 lies across the antimeridian, and i5 is open and invalid.
i1 == Item("i1", <<0, 2>>, 1, None, None)
i2 == Item("i 2", <<3, 5>>, None, 2, 4)
i3 == [Item("i3", None, None, 3, 5) EXCEPT !.links = <<Link("self", Up(<<"x">>)), Link("license", Up(<<"x">>))>>]
i4 == [Item("i4", <<1, 1>>, 6, 4, 8) EXCEPT !.licenses = <<"CC0">>, !.providers = <<[key |-> "p", role |-> "host"]>>]
i6 == Item("i6", <<170, -170>>, 2, None, None)
i5 == [Item("i-2", <<1, 1>>, None, 5, None) EXCEPT !.valid = FALSE]

alpha == [Doc("Collection", "alpha", <<Link("root", Up(<<"catalog.json">>)),
                Link("item", Down(<<"i 2", "item.json">>)),
                Link("item", Down(<<"i-2", "item.json">>))>>)
            EXCEPT !.keywords = <<"coast">>,
                   !.extent = [box |-> <<0, 9>>, datetime |-> None, from |-> 1, to |-> None]]
beta  == Doc("Collection", "beta", <<Link("item", Up(<<"pool", "a", "item.json">>)),
                                     Link("item", Up(<<"pool", "b", "item.json">>))>>)
src   == [Doc("Catalog", "src", <<Link("child", Down(<<"alpha", "collection.json">>)),
                                  Link("child", Down(<<"nested", "catalog.json">>))>>)
            EXCEPT !.title = "coast", !.providers = <<[key |-> "p", role |-> "maker"]>>]

Sources ==
     (<<"src", "catalog.json">> :> src)
  @@ (<<"src", "nested", "catalog.json">> :> Doc("Catalog", "nested", <<>>))
  @@ (<<"src", "alpha", "collection.json">> :> alpha)
  @@ (<<"src", "alpha", "i 2", "item.json">> :> i2)
  @@ (<<"src", "alpha", "i-2", "item.json">> :> i6)
  @@ (<<"src", "alpha", "sub", "i1.json">> :> i1)
  @@ (<<"beta", "collection.json">> :> beta)
  @@ (<<"pool", "a", "item.json">> :> i3)
  @@ (<<"pool", "b", "item.json">> :> i4)
  @@ (<<"loose", "i3.json">> :> i3)
  @@ (<<"loose", "sub", "i4.json">> :> i4)
  @@ (<<"loose", "note.json">> :> None)
  @@ (<<"odd", "i5.json">> :> i5)

Names == {"i1", "i 2", "i3", "i4", "i-2", "i6", "alpha", "beta", "gamma", "src", "coast", "sub", "item.json",
          "me-coast", "me-i1", "me-i3", "me-i4", "alpha-i4", "me-catalog", "me-collection", "alpha-i1", "alpha-i3", "alpha-collection"}
Json == {"collection.json", "catalog.json", "item.json", "i1.json", "i-2.json", "i3.json", "i4.json", "i5.json", "note.json"}
Safe == [n \in Names \cup Json |-> IF n = "i 2" THEN "i-2" ELSE n]

Ask(route) ==
  [route |-> route, inline |-> <<>>, catalogs |-> <<>>, links |-> <<>>, catalog_links |-> <<>>,
   prefix |-> None, base |-> None, id |-> None, title |-> None, user |-> "me", target |-> None,
   local |-> FALSE, overwrite |-> FALSE]

\* Metadata only, of every pair of items, with and without a base.
Previews ==
  {[Ask("collection") EXCEPT !.inline = s, !.base = b] :
     s \in {<<i1, i6>>, <<i3, i4>>, <<i2, i5>>}, b \in {None, alpha}}
  \cup {[Ask("catalog") EXCEPT !.inline = <<alpha>>, !.catalogs = <<src>>, !.target = <<"out">>],
        [Ask("catalog") EXCEPT !.links = <<<<"beta", "none.json">>>>, !.user = None]}

Gamma == [Ask("collection") EXCEPT !.target = <<"work", "gamma">>, !.id = "gamma"]
Loose == [Ask("collection") EXCEPT !.prefix = <<"loose">>, !.title = "coast"]
Out   == [Ask("catalog") EXCEPT !.target = <<"out">>, !.title = "coast"]

Exporting ==
  { [Gamma EXCEPT !.inline = <<i1, i2>>],
    [Gamma EXCEPT !.inline = <<i3>>, !.links = <<<<"src", "alpha", "i 2", "item.json">>>>, !.overwrite = TRUE, !.local = TRUE],
    [Gamma EXCEPT !.inline = <<i2, i5>>],
    Loose, [Loose EXCEPT !.overwrite = TRUE], [Loose EXCEPT !.prefix = <<"odd">>],
    [Out EXCEPT !.prefix = <<"work">>, !.local = TRUE],
    [Out EXCEPT !.prefix = <<"work">>, !.overwrite = TRUE],
    [Out EXCEPT !.prefix = <<"src">>],
    [Out EXCEPT !.prefix = <<"work">>, !.target = <<"work">>],
    [Out EXCEPT !.prefix = <<"loose">>, !.title = None],
    [Out EXCEPT !.links = <<<<"beta", "collection.json">>, <<"src", "alpha", "collection.json">>>>,
                !.catalog_links = <<<<"src", "catalog.json">>>>, !.title = None, !.overwrite = TRUE] }

ManyRequests == Previews \cup Exporting

Same == Permutations(Threads)

Everything == <<-180, 180>>

=============================================================================
