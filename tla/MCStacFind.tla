----------------------------- MODULE MCStacFind -----------------------------
(***************************************************************************)
(* Small APIs and requests for StacFind.                                   *)
(***************************************************************************)
EXTENDS StacFind

MCProjectsRoot == "/catalogs/projects"
Projects == "catalogs/projects"

\* Hrefs below the API's base URL start with "api:"; one leads elsewhere.
MCRelative ==
  [h \in {"api:" \o p : p \in {Projects, "a", "b", "c", "d"}} \cup {"elsewhere"} |->
     CASE h = "api:" \o Projects -> Projects [] h = "api:a" -> "a" [] h = "api:b" -> "b"
       [] h = "api:c" -> "c" [] h = "api:d" -> "d" [] h = "elsewhere" -> "elsewhere"]
MCResource ==
  [p \in {MCProjectsRoot, Projects, "a", "b", "c", "d", "elsewhere"} |-> IF p = MCProjectsRoot THEN Projects ELSE p]
MCLower == [k \in {"platform", "gridSize", "gridsize"} |-> IF k = "gridSize" THEN "gridsize" ELSE k]

Child(href) == [rel |-> "child", href |-> href, words |-> {href}]
Other(href) == [rel |-> "parent", href |-> href, words |-> {href}]

Trees ==
  { \* a back link to the root, a shared child, a dead link and a foreign one
    (Projects :> <<Child("api:a"), Other("api:d"), Child("api:b"), Child("elsewhere")>>)
      @@ ("a" :> <<Child("api:c"), Child("api:" \o Projects)>>) @@ ("b" :> <<Child("api:c"), Child("api:b")>>)
      @@ ("c" :> <<Child("api:d"), Child("api:a")>>),
    \* deeper than the walk goes
    (Projects :> <<Child("api:a"), Child("api:a")>>) @@ ("a" :> <<Child("api:b")>>)
      @@ ("b" :> <<Child("api:c"), Child("api:a")>>) @@ ("c" :> <<Child("api:d")>>) @@ ("d" :> <<>>),
    <<>> }

Collection(id, words) == [id |-> id, words |-> words \cup {id}]
Item(id, collection, words, key, published) ==
  [id |-> id, collection |-> collection, words |-> words,
   assets |-> ("data" :> words) @@ ("thumb" :> {"png"}), properties |-> (key :> words),
   cited |-> IF published THEN {} ELSE {"doi"}, published |-> IF published THEN {"doi", "cite"} ELSE {}]

\* The name "sst" is the id of one collection and a part of two.
C1 == Collection("sst", {"warm"})
C2 == Collection("sst-m", {"sst"})
C3 == Collection("ice", {"warm"})
\* With these the names are no longer resolved within MaxPages.
C4 == Collection("oil", {"cold"})
C5 == Collection("sst-d", {"sst", "warm"})
I1 == Item("i1", "sst-m", {"x"}, "platform", FALSE)
I2 == Item("i2", "ice", {"x", "y"}, "gridSize", TRUE)
I3 == Item("i3", "sst-m", {"y"}, "platform", TRUE)
I4 == Item("i4", "sst-m", {"x"}, "gridsize", FALSE)
I5 == Item("i5", "sst-d", {"x", "y"}, "platform", FALSE)

MCSites ==
  {[catalogs |-> t, collections |-> api[1], items |-> api[2], loops |-> l, strict |-> s, filters |-> f,
    owned |-> <<[id |-> "projects/p", project |-> TRUE], [id |-> "other", project |-> FALSE]>>] :
     t \in Trees, l \in BOOLEAN, s \in BOOLEAN, f \in BOOLEAN,
     api \in {<<<<C1, C2, C3>>, <<I1, I2, I3, I4>>>>, <<<<C1, C2, C3>>, <<I2>>>>, <<<<C1, C2, C3, C4, C5>>, <<I1, I5>>>>}}

R(find) == [find |-> find, q |-> Unset, collections |-> <<>>, limit |-> 2, doi |-> Unset, citation |-> Unset,
            match |-> <<>>]

Hints == {<<>>, <<"sst">>, <<"warm">>, <<"zzz">>, <<"ice", "sst">>, <<"sst", "zzz">>}

Pair(key, value) == [key |-> key, value |-> value]

\* One key, two keys, and two that are the same in lower case.
Matching ==
  {<<Pair(k, v)>> : k \in {"platform", "gridSize", "gridsize"}, v \in {"x", "y"}}
  \cup {<<Pair("gridSize", "y"), Pair("gridsize", "x")>>, <<Pair("platform", "x"), Pair("gridsize", "x")>>}

MCQueries ==
  {[R("items") EXCEPT !.q = q, !.collections = h, !.limit = n] : q \in {Unset, "x", "y"}, h \in Hints, n \in {1, 2}}
  \cup {[R("scientific") EXCEPT !.doi = d, !.citation = c, !.collections = h] :
          d \in {Unset, "doi"}, c \in {"cite"}, h \in Hints}
  \cup {[R("scientific") EXCEPT !.doi = "doi"]}
  \cup {[R("assets") EXCEPT !.q = q, !.collections = h, !.limit = n] : q \in {"x", "png"}, h \in Hints, n \in {1, 2}}
  \cup {[R("properties") EXCEPT !.match = m, !.collections = h] : m \in Matching, h \in Hints}
  \cup {[R("collections") EXCEPT !.q = q, !.limit = n] : q \in {Unset, "warm"}, n \in {1, 2}}
  \cup {[R("catalogs") EXCEPT !.q = q] : q \in {Unset, "api:c"}}
  \cup {R("mine")}

=============================================================================
