---------------------------- MODULE ArcoItemProofs ----------------------------
(***************************************************************************)
(* Theorems about ArcoItem: what Items name, which assets they keep, and   *)
(* what is overwritten, for any number of runs, Items, assets and layers.  *)
(***************************************************************************)
EXTENDS ArcoItem, RankTheorems

-----------------------------------------------------------------------------
(* The inductive invariant                                                 *)

Documents == [Uris -> Seq(Assets) \cup {None}]
Contents == [meta : Sources \cup {None}, data : Sources \cup {None}]
Planned == [key : Keys, href : Sources \cup Locations, conversion : Conversions]
Deliveries == [location : Locations, source : Sources]
Outcomes == [source_asset_key : Keys, feature : Conversions, target_uri : Locations, source : Sources,
             asset_key : Keys]

\* The kinds of things, in full.
Types ==
  /\ documents \in Documents
  /\ DOMAIN objects \subseteq Locations /\ objects \in [DOMAIN objects -> Contents]
  /\ request \in [Runs -> Requests] /\ at \in [Runs -> Stages]
  /\ item \in [Runs -> Seq(Assets)] /\ read \in [Runs -> Seq(Assets)]
  /\ plans \in [Runs -> Seq(Planned)] /\ outputs \in [Runs -> Seq(Deliveries)]
  /\ results \in [Runs -> Seq(Outcomes)] /\ added \in [Runs -> Nat]
  /\ taken \in [Runs -> SUBSET Keys] /\ alone \in [Runs -> BOOLEAN]
  /\ delivered \subseteq Locations

Delivering == {"clear", "verify", "create", "fill", "check", "put"}
Adding == {"add", "write", "done"}

\* Where the outputs of a conversion go.
Fits(l, conversion, key) ==
  IF conversion = "upload" THEN l[1] = "copy" /\ l[2] = Safe(key)
  ELSE l[1] = IF conversion = "nc-to-zarr" THEN "store" ELSE "file"

\* The keys of the assets that point there: the one a conversion declares, or a
\* number of it.
Base(l) == IF l[1] = "copy" THEN l[2] ELSE <<IF l[1] = "store" THEN "zarr" ELSE "parquet", <<>>>>
KeyFits(key, l) == key = Base(l) \/ \E i \in Nat : key = Numbered(Base(l), i)

UniqueKeys(assets) == \A i, j \in DOMAIN assets : assets[i].key = assets[j].key => i = j

\* What an Item may name, and under which key.
Sound(assets) ==
  /\ UniqueKeys(assets)
  /\ \A i \in DOMAIN assets : assets[i].href \in Sources \cup delivered
  /\ \A i \in DOMAIN assets : assets[i].href \in Locations => KeyFits(assets[i].key, assets[i].href)

DocumentsInv == \A u \in Uris : documents[u] # None => Sound(documents[u])

\* What a run is about to deliver is of the conversion at hand.
StageInv(r) ==
  /\ added[r] <= Len(results[r])
  /\ at[r] = "idle" => results[r] = <<>>
  /\ at[r] \notin Adding \cup {"failed"} => added[r] = 0 /\ item[r] = read[r]
  /\ at[r] \in {"write", "done"} => added[r] = Len(results[r])
  /\ at[r] \in {"clear", "verify"} => request[r].overwrite
  /\ at[r] \in Delivering =>
       /\ plans[r] # <<>> /\ outputs[r] # <<>>
       /\ Head(plans[r]).conversion = "upload" => Len(outputs[r]) = 1
       /\ \A i \in DOMAIN outputs[r] :
            Fits(outputs[r][i].location, Head(plans[r]).conversion, Head(plans[r]).key)

ItemInv(r) == Sound(item[r]) /\ UniqueKeys(read[r]) /\ taken[r] = KeysOf(item[r])

\* No asset is converted twice.
PlansInv(r) ==
  /\ \A i \in DOMAIN plans[r] : plans[r][i].key \in KeysOf(read[r])
  /\ \A i, j \in DOMAIN plans[r] : plans[r][i].key = plans[r][j].key => i = j
  /\ \A j \in DOMAIN results[r] : results[r][j].source_asset_key \in KeysOf(read[r])
  /\ \A j \in DOMAIN results[r] : results[r][j].feature = "upload" =>
       /\ \A i \in DOMAIN plans[r] : plans[r][i].key # results[r][j].source_asset_key
       /\ \A k \in DOMAIN results[r] :
            results[r][k].feature = "upload" /\ results[r][k].source_asset_key = results[r][j].source_asset_key
              => j = k

\* What is known of a result, before and after it is added.
ResultInv(r, j) ==
  LET res == results[r][j]
  IN /\ res.target_uri \in delivered /\ Fits(res.target_uri, res.feature, res.source_asset_key)
     /\ KeyFits(res.asset_key, res.target_uri)
     /\ j > added[r] \/ Repoints(res) =>
          res.asset_key = DeclaredKey(res.feature, res.source_asset_key)

\* A run that may not overwrite has added what it has converted, and nothing is lost.
KeepInv(r) ==
  ~request[r].overwrite /\ at[r] \in Adding /\ NoNamesake(r) =>
    /\ \A i \in DOMAIN read[r] :
         /\ read[r][i].key \in KeysOf(item[r])
         /\ \/ In(read[r][i], item[r])
            \/ \E j \in 1 .. added[r] : /\ Repoints(results[r][j])
                                        /\ results[r][j].asset_key = read[r][i].key
    /\ \A j \in 1 .. added[r] :
         /\ In([key |-> results[r][j].asset_key, href |-> results[r][j].target_uri], item[r])
         /\ ~Repoints(results[r][j]) => results[r][j].asset_key \notin KeysOf(read[r])
    /\ Len(item[r]) =
         Len(read[r]) + Cardinality({j \in 1 .. added[r] : ~Repoints(results[r][j])})

\* What an overwriting run has still to add is not in the Item; what it has added is there once.
ReplaceInv(r) ==
  request[r].overwrite /\ at[r] \in Adding /\ Apart(r) =>
    \A j \in DOMAIN results[r] :
      /\ j > added[r] => \A i \in DOMAIN item[r] : item[r][i].href # results[r][j].target_uri
      /\ \A i, k \in DOMAIN item[r] :
           item[r][i].href = results[r][j].target_uri /\ item[r][k].href = results[r][j].target_uri => i = k

\* What a result names is there, complete, unless a later one has taken its place, or
\* is about to.
Intact(r, j) ==
  \/ /\ Exists(results[r][j].target_uri)
     /\ objects[results[r][j].target_uri] = Object(results[r][j].source, results[r][j].source)
  \/ \E k \in DOMAIN results[r] : k > j /\ results[r][k].target_uri = results[r][j].target_uri
  \/ at[r] \in {"verify", "create", "fill"} /\ Head(outputs[r]).location = results[r][j].target_uri

\* A run that is at work alone finds what it has left.
AloneInv(r) ==
  alone[r] /\ r \in Active =>
    /\ Active = {r}
    /\ at[r] = "fill" => LET out == Head(outputs[r])
                         IN Exists(out.location) /\ objects[out.location] = Object(out.source, None)
    /\ at[r] = "put" /\ ~request[r].overwrite => ~Exists(Head(outputs[r]).location)
    /\ at[r] = "write" /\ ~request[r].overwrite => documents[request[r].target_uri] = None
    /\ \A j \in DOMAIN results[r] : Intact(r, j)

RunInv(r) ==
  /\ StageInv(r) /\ ItemInv(r) /\ PlansInv(r)
  /\ \A j \in DOMAIN results[r] : ResultInv(r, j)
  /\ KeepInv(r) /\ ReplaceInv(r) /\ AloneInv(r)

Inv == Types /\ DocumentsInv /\ \A r \in Runs : RunInv(r)

-----------------------------------------------------------------------------
(* The assets of an Item                                                   *)

LEMMA KeysAreFinite ==
  ASSUME NEW assets \in Seq(Assets)
  PROVE  KeysOf(assets) \in SUBSET Keys /\ IsFiniteSet(KeysOf(assets))
<1> DEFINE D == DOMAIN assets
           f == [i \in D |-> assets[i].key]
<1>1. IsFiniteSet(D)
  BY Indices
<1>2. \A i \in D : assets[i] \in Assets
  OBVIOUS
<1>3. f \in Surjection(D, KeysOf(assets))
  <2> HIDE DEF D
  <2>1. KeysOf(assets) = {assets[i].key : i \in D}
    BY DEF KeysOf, D
  <2> QED  BY <2>1 DEF Surjection
<1> HIDE DEF D, f
<1>4. IsFiniteSet(KeysOf(assets))
  BY <1>1, <1>3, FS_Surjection
<1>5. KeysOf(assets) \in SUBSET Keys
  BY <1>2 DEF KeysOf, D, Assets
<1> QED  BY <1>4, <1>5

\* A numbered key is a key, and tells the key and the number it is made of.
LEMMA NumberedIs ==
  ASSUME NEW key \in Keys, NEW i \in Nat
  PROVE  LET k == Numbered(key, i)
         IN  /\ k \in Keys /\ k[1] = key[1] /\ k # key
             /\ k[2] # <<>> /\ k[2][Len(k[2])] = i
<1> DEFINE s == key[2]
           t == Append(s, i)
<1>1. key[1] \in Names /\ s \in Seq(Nat) /\ key = <<key[1], s>>
  BY DEF Keys
<1> HIDE DEF s
<1>2. t \in Seq(Nat) /\ Len(t) = Len(s) + 1 /\ Len(s) \in Nat /\ t[Len(s) + 1] = i
  BY <1>1
<1> HIDE DEF t
<1>3. t # <<>> /\ t # s
  BY <1>2
<1>4. Numbered(key, i) = <<key[1], t>>
  BY DEF Numbered, s, t
<1>5. <<key[1], t>> # key
  BY <1>1, <1>3
<1>6. <<key[1], t>> \in Keys /\ t[Len(t)] = i
  BY <1>1, <1>2 DEF Keys
<1> QED  BY <1>3, <1>4, <1>5, <1>6

\* A key that is made safe is a key.
LEMMA SafeType ==
  ASSUME NEW key \in Keys
  PROVE  Safe(key) \in Keys
<1>1. key[1] \in Names /\ key[2] \in Seq(Nat) /\ SafeName[key[1]] \in Keys
  BY ConstantsAssumption DEF Keys
<1>2. SafeName[key[1]][1] \in Names /\ SafeName[key[1]][2] \in Seq(Nat)
  BY <1>1 DEF Keys
<1>3. SafeName[key[1]][2] \o key[2] \in Seq(Nat)
  BY <1>1, <1>2
<1> QED  BY <1>2, <1>3 DEF Safe, Keys

\* Of the numbers that are tried for a key one is free: there are more than keys.
LEMMA NumberIsFree ==
  ASSUME NEW key \in Keys, NEW keys, IsFiniteSet(keys)
  PROVE  \E i \in 2 .. Cardinality(keys) + 2 : Numbered(key, i) \notin keys
<1> DEFINE n == Cardinality(keys)
           T == 2 .. n + 2
           f == [i \in T |-> Numbered(key, i)]
<1>1. n \in Nat
  BY FS_CardinalityType
<1>2. IsFiniteSet(T) /\ Cardinality(T) = n + 1
  <2> HIDE DEF n
  <2> QED  BY <1>1, FS_Interval
<1> SUFFICES ASSUME \A i \in T : Numbered(key, i) \in keys PROVE FALSE
  OBVIOUS
<1>3. f \in [T -> keys]
  OBVIOUS
<1>4. Cardinality(keys) < Cardinality(T)
  BY <1>1, <1>2
<1>a. T \subseteq Nat
  BY <1>1
<1> HIDE DEF T, n
<1>5. PICK i \in T, j \in T : i # j /\ f[i] = f[j]
  <2> HIDE DEF f
  <2> QED  BY <1>2, <1>3, <1>4, FS_PigeonHole
<1>6. Numbered(key, i) = Numbered(key, j) /\ i \in Nat /\ j \in Nat
  BY <1>5, <1>a
<1> QED  BY <1>5, <1>6, NumberedIs

\* _unique_asset_key: the declared key or a number of it, a free one unless the asset
\* itself has it.
LEMMA UniqueKeyIsFree ==
  ASSUME NEW key \in Keys, NEW source, NEW keys, IsFiniteSet(keys)
  PROVE  LET k == UniqueKey(key, source, keys)
         IN  /\ k \in Keys /\ (k = key \/ \E i \in Nat : k = Numbered(key, i))
             /\ k \in keys => k = key /\ key = source
             /\ key = source => k = key
             /\ k = key \/ k \notin keys
<1>1. CASE key \notin keys \/ key = source
  BY <1>1 DEF UniqueKey
<1>2. CASE ~(key \notin keys \/ key = source)
  <2> DEFINE I == {i \in 2 .. Cardinality(keys) + 2 : Numbered(key, i) \notin keys}
             n == Nth(1, I)
  <2>1. Cardinality(keys) \in Nat
    BY FS_CardinalityType
  <2>2. I \in SUBSET Int /\ IsFiniteSet(I)
    <3> DEFINE c == Cardinality(keys) + 2
    <3>1. c \in Nat
      BY <2>1
    <3> HIDE DEF c
    <3>2. IsFiniteSet(2 .. c)
      BY <3>1, FS_Interval
    <3>3. I \in SUBSET (2 .. c)
      BY DEF c
    <3> HIDE DEF I
    <3>4. IsFiniteSet(I)
      BY <3>2, <3>3, FS_Subset
    <3> QED  BY <3>1, <3>3, <3>4
  <2>3. I # {}
    BY NumberIsFree
  <2>4. 1 \in 1 .. Cardinality(I)
    <3> HIDE DEF I
    <3>1. Cardinality(I) \in Nat /\ Cardinality(I) # 0
      BY <2>2, <2>3, FS_CardinalityType, FS_EmptySet
    <3> QED  BY <3>1
  <2>5. n \in I
    <3> HIDE DEF I
    <3> QED  BY <2>2, <2>4, NthOf
  <2>6. n \in Nat /\ Numbered(key, n) \notin keys
    <3> HIDE DEF n
    <3> QED  BY <2>1, <2>5
  <2>7. UniqueKey(key, source, keys) = Numbered(key, n)
    BY <1>2 DEF UniqueKey
  <2>8. Numbered(key, n) \in Keys
    <3> HIDE DEF n
    <3> QED  BY <2>6, NumberedIs
  <2> HIDE DEF n
  <2> QED  BY <1>2, <2>6, <2>7, <2>8
<1> QED  BY <1>1, <1>2

Entry(key, href) == [key |-> key, href |-> href]

\* item["assets"][key] = href: the other entries stay in their places.
LEMMA AssignEntries ==
  ASSUME NEW assets \in Seq(Assets), NEW key \in Keys, NEW href \in Sources \cup Locations
  PROVE  LET new == Assign(assets, key, href)
         IN  /\ new \in Seq(Assets) /\ KeysOf(new) = KeysOf(assets) \cup {key}
             /\ \A i \in DOMAIN new : new[i] = Entry(key, href) \/ (i \in DOMAIN assets /\ new[i] = assets[i])
             /\ \A i \in DOMAIN assets : i \in DOMAIN new /\ new[i].key = assets[i].key
             /\ \A i \in DOMAIN assets : assets[i].key # key => new[i] = assets[i]
             /\ \E i \in DOMAIN new : new[i] = Entry(key, href)
             /\ Len(new) = IF key \in KeysOf(assets) THEN Len(assets) ELSE Len(assets) + 1
             /\ UniqueKeys(assets) => UniqueKeys(new)
<1> DEFINE new == Assign(assets, key, href)
           e == Entry(key, href)
           n == Len(assets)
<1>1. e \in Assets /\ e.key = key
  BY DEF Entry, Assets
<1>2. n \in Nat /\ DOMAIN assets = 1 .. n /\ \A i \in 1 .. n : assets[i] \in Assets
  OBVIOUS
<1>3. CASE key \in KeysOf(assets)
  <2>1. new = [i \in 1 .. n |-> IF assets[i].key = key THEN e ELSE assets[i]]
    BY <1>2, <1>3 DEF Assign, Entry
  <2> HIDE DEF new, e, n
  <2>2. new \in Seq(Assets) /\ Len(new) = n /\ DOMAIN new = 1 .. n
    BY <1>1, <1>2, <2>1
  <2>3. \A i \in 1 .. n : new[i] = IF assets[i].key = key THEN e ELSE assets[i]
    BY <2>1
  <2>4. PICK i \in 1 .. n : assets[i].key = key
    BY <1>2, <1>3 DEF KeysOf
  <2>5. \A j \in 1 .. n : new[j].key = assets[j].key
    BY <1>1, <2>3
  <2>6. KeysOf(new) = KeysOf(assets) \cup {key}
    BY <1>2, <1>3, <2>2, <2>5 DEF KeysOf
  <2>7. UniqueKeys(assets) => UniqueKeys(new)
    BY <1>2, <2>2, <2>5 DEF UniqueKeys
  <2> QED  BY <1>2, <1>3, <2>2, <2>3, <2>4, <2>5, <2>6, <2>7 DEF new, e, n
<1>4. CASE key \notin KeysOf(assets)
  <2>1. new = Append(assets, e)
    BY <1>4 DEF Assign, Entry
  <2> HIDE DEF new, e
  <2>2. /\ new \in Seq(Assets) /\ Len(new) = n + 1 /\ DOMAIN new = 1 .. n + 1
        /\ \A i \in 1 .. n : new[i] = assets[i]
        /\ new[n + 1] = e
    BY <1>1, <2>1
  <2> HIDE DEF n
  <2>3. \A i \in 1 .. n : i \in 1 .. n + 1
    BY <1>2
  <2>4. \A i \in 1 .. n + 1 : i \in 1 .. n \/ i = n + 1
    BY <1>2
  <2>5. n + 1 \in 1 .. n + 1
    BY <1>2
  <2>6. \A i \in 1 .. n : assets[i].key # key
    BY <1>2, <1>4 DEF KeysOf
  <2>7. KeysOf(new) = KeysOf(assets) \cup {key}
    <3>1. ASSUME NEW k \in KeysOf(new) PROVE k \in KeysOf(assets) \cup {key}
      <4>1. PICK i \in 1 .. n + 1 : k = new[i].key
        BY <2>2 DEF KeysOf
      <4> QED  BY <1>1, <1>2, <2>2, <2>4, <4>1 DEF KeysOf
    <3>2. ASSUME NEW k \in KeysOf(assets) PROVE k \in KeysOf(new)
      <4>1. PICK i \in 1 .. n : k = assets[i].key
        BY <1>2 DEF KeysOf
      <4> QED  BY <2>2, <2>3, <4>1 DEF KeysOf
    <3>3. key \in KeysOf(new)
      BY <1>1, <2>2, <2>5 DEF KeysOf
    <3> QED  BY <3>1, <3>2, <3>3
  <2>8. UniqueKeys(assets) => UniqueKeys(new)
    BY <1>1, <1>2, <2>2, <2>4, <2>6 DEF UniqueKeys
  <2> QED  BY <1>2, <1>4, <2>2, <2>3, <2>4, <2>5, <2>7, <2>8 DEF new, e, n
<1> QED  BY <1>3, <1>4

-----------------------------------------------------------------------------
(* What a run plans and where it delivers                                  *)

\* Every location says what it is of: a store's and a file's key, a copy's conversion.
LEMMA LocationParts ==
  ASSUME NEW l \in Locations
  PROVE  /\ l[1] \in {"store", "file", "copy"} /\ l[2] \in Keys
         /\ l[1] = "copy" => l[3] \in Conversions \cup {None}
         /\ l \notin Sources
BY ConstantsAssumption DEF Locations

\* Auto-detection and the explicit mappings name conversions.
LEMMA DetectionType ==
  ASSUME NEW href \in Sources \cup Locations
  PROVE  DetectedAs(href) \in Conversions \cup {None}
<1>1. CASE href \in Sources
  BY <1>1, ConstantsAssumption DEF DetectedAs
<1>2. CASE href \notin Sources
  BY <1>2, LocationParts DEF DetectedAs
<1> QED  BY <1>1, <1>2

LEMMA RequestParts ==
  ASSUME NEW req \in Requests
  PROVE  /\ req.source_uri \in Uris /\ req.target_uri \in Uris /\ req.overwrite \in BOOLEAN
         /\ req.conversions \in Seq([pattern : Keys \cup Sources, conversion : Conversions])
BY ConstantsAssumption

LEMMA ChoiceType ==
  ASSUME NEW a \in Assets, NEW req \in Requests
  PROVE  Choice(a, req) \in Conversions \cup {None}
<1> DEFINE I == Explicit(a, req)
           T == [pattern : Keys \cup Sources, conversion : Conversions]
<1>1. req.conversions \in Seq(T) /\ I \in SUBSET (DOMAIN req.conversions)
  BY RequestParts DEF Explicit
<1>2. \A i \in I : req.conversions[i].conversion \in Conversions
  <2>1. \A i \in DOMAIN req.conversions : req.conversions[i] \in T
    <3> HIDE DEF I, T
    <3> QED  BY <1>1
  <2> HIDE DEF I
  <2> QED  BY <1>1, <2>1
<1>3. I # {} => Nth(1, I) \in I
  <2> HIDE DEF I, T
  <2>1. I \in SUBSET Int /\ IsFiniteSet(I)
    BY <1>1, Indices
  <2>2. I # {} => Cardinality(I) \in Nat /\ Cardinality(I) # 0
    BY <2>1, FS_CardinalityType, FS_EmptySet
  <2>3. I # {} => 1 \in 1 .. Cardinality(I)
    BY <2>2
  <2> QED  BY <2>1, <2>3, NthOf
<1>4. DetectedAs(a.href) \in Conversions \cup {None}
  BY DetectionType DEF Assets
<1> HIDE DEF T
<1> QED  BY <1>2, <1>3, <1>4 DEF Choice

\* plan_conversions: what is planned are assets of the Item, each once.
LEMMA PlansAre ==
  ASSUME NEW assets \in Seq(Assets), NEW req \in Requests
  PROVE  LET p == Plans(assets, req)
         IN  /\ p \in Seq(Planned)
             /\ \A i \in DOMAIN p : p[i].key \in KeysOf(assets)
             /\ UniqueKeys(assets) => \A i, j \in DOMAIN p : p[i].key = p[j].key => i = j
<1> DEFINE D == DOMAIN assets
           T == [key : Keys, href : Sources \cup Locations, conversion : Conversions \cup {None}]
           s == [i \in D |-> [key |-> assets[i].key, href |-> assets[i].href,
                              conversion |-> Choice(assets[i], req)]]
           I == {i \in D : Choice(assets[i], req) # None}
           p == Picked(s, I)
<1>1. /\ Len(assets) \in Nat /\ D = 1 .. Len(assets)
      /\ \A i \in D : assets[i] \in Assets
  OBVIOUS
<1> HIDE DEF D
<1>2. \A i \in D : Choice(assets[i], req) \in Conversions \cup {None}
  BY <1>1, ChoiceType
<1>3. \A i \in D : s[i] \in T
  BY <1>1, <1>2 DEF Assets
<1>4. \A i \in D : s[i].key = assets[i].key
  OBVIOUS
<1>5. \A i \in I : s[i] \in Planned
  BY <1>1, <1>2 DEF Assets, Planned
<1>6. I \in SUBSET D
  OBVIOUS
<1>7. DOMAIN s = D
  OBVIOUS
<1> HIDE DEF s, T, I
<1>8. s \in Seq(T)
  BY <1>1, <1>3, <1>7 DEF s
<1>9. /\ p \in Seq(T)
      /\ \A k \in DOMAIN p : Nth(k, I) \in I /\ p[k] = s[Nth(k, I)]
      /\ \A k, l \in DOMAIN p : Nth(k, I) = Nth(l, I) => k = l
  BY <1>6, <1>7, <1>8, PickedEntries
<1>10. p = Plans(assets, req)
  BY DEF Plans, s, I, D
<1> HIDE DEF p
<1>11. \A k \in DOMAIN p : p[k] \in Planned
  BY <1>5, <1>9
<1>12. p \in Seq(Planned)
  BY <1>9, <1>11
<1>13. \A k \in DOMAIN p : p[k].key = assets[Nth(k, I)].key /\ Nth(k, I) \in D
  BY <1>4, <1>6, <1>9
<1>14. \A k \in DOMAIN p : p[k].key \in KeysOf(assets)
  BY <1>13 DEF KeysOf, D
<1>15. ASSUME UniqueKeys(assets), NEW i \in DOMAIN p, NEW j \in DOMAIN p, p[i].key = p[j].key PROVE i = j
  <2>1. Nth(i, I) = Nth(j, I)
    BY <1>13, <1>15 DEF UniqueKeys, D
  <2> QED  BY <1>9, <2>1
<1> QED  BY <1>10, <1>12, <1>14, <1>15

\* The outputs of a conversion are where they are of it, and an upload has one.
LEMMA TargetsAre ==
  ASSUME NEW p \in Planned, NEW source \in Sources
  PROVE  LET t == Targets(p, source)
         IN  /\ t \in Seq(Locations) /\ Len(t) > 0
             /\ p.conversion = "upload" => Len(t) = 1
             /\ \A i \in DOMAIN t : Fits(t[i], p.conversion, p.key)
<1>1. /\ p.key \in Keys /\ Safe(p.key) \in Keys /\ p.href \in Sources \cup Locations
      /\ p.conversion \in {"nc-to-zarr", "gdb-to-parquet", "shp-to-parquet", "upload"}
  BY SafeType DEF Planned, Conversions
<1>2. CASE p.conversion = "nc-to-zarr"
  <2> DEFINE name == IF p.href \in Sources THEN FileName[p.href] ELSE p.href[2]
             l == <<"store", name>>
  <2>1. name \in Keys
    BY <1>1, ConstantsAssumption, LocationParts
  <2> HIDE DEF name
  <2>2. l \in Locations /\ l[1] = "store"
    BY <2>1 DEF Locations
  <2>3. Targets(p, source) = <<l>>
    BY <1>2 DEF Targets, name
  <2> HIDE DEF l
  <2> QED  BY <1>2, <2>2, <2>3 DEF Fits
<1>3. CASE p.conversion = "upload"
  <2> DEFINE c == IF p.href \in Sources THEN HostedAs[p.href] ELSE DetectedAs(p.href)
             l == <<"copy", Safe(p.key), c>>
  <2>1. c \in Conversions \cup {None}
    BY <1>1, ConstantsAssumption, DetectionType
  <2> HIDE DEF c
  <2>2. l \in Locations /\ l[1] = "copy" /\ l[2] = Safe(p.key)
    BY <1>1, <2>1 DEF Locations
  <2>3. Targets(p, source) = <<l>>
    BY <1>3 DEF Targets, c
  <2> HIDE DEF l
  <2> QED  BY <1>3, <2>2, <2>3 DEF Fits
<1>4. CASE p.conversion \in {"gdb-to-parquet", "shp-to-parquet"}
  <2> DEFINE n == Layers[source]
             t == [i \in 1 .. n |-> <<"file", Safe(p.key), i>>]
  <2>1. n \in Nat \ {0}
    BY ConstantsAssumption
  <2> HIDE DEF n
  <2>2. \A i \in 1 .. n : <<"file", Safe(p.key), i>> \in Locations /\ <<"file", Safe(p.key), i>>[1] = "file"
    BY <1>1, <2>1 DEF Locations
  <2>3. t \in Seq(Locations) /\ Len(t) = n /\ DOMAIN t = 1 .. n
    BY <2>1, <2>2
  <2>4. \A i \in 1 .. n : t[i][1] = "file"
    BY <2>2
  <2>5. Targets(p, source) = t
    BY <1>4 DEF Targets, n
  <2> HIDE DEF t
  <2> QED  BY <1>4, <2>1, <2>3, <2>4, <2>5 DEF Fits
<1> QED  BY <1>1, <1>2, <1>3, <1>4

\* The key a conversion declares is one an asset of its outputs may have.
LEMMA DeclaredFits ==
  ASSUME NEW l \in Locations, NEW conversion \in Conversions, NEW key \in Keys, Fits(l, conversion, key)
  PROVE  /\ DeclaredKey(conversion, key) \in Keys /\ KeyFits(DeclaredKey(conversion, key), l)
         /\ l[1] = "copy" <=> conversion = "upload"
<1>1. l[1] \in {"store", "file", "copy"}
  BY LocationParts
<1>2. CASE conversion = "upload"
  BY <1>2, SafeType DEF DeclaredKey, Fits, KeyFits, Base
<1>5. <<"zarr", <<>>>> \in Keys /\ <<"parquet", <<>>>> \in Keys
  <2>1. "zarr" \in Names /\ "parquet" \in Names
    BY ConstantsAssumption
  <2>2. <<>> \in Seq(Nat)
    OBVIOUS
  <2> QED  BY <2>1, <2>2 DEF Keys
<1>3. CASE conversion = "nc-to-zarr"
  BY <1>3, <1>5 DEF DeclaredKey, Fits, KeyFits, Base, Format
<1>4. CASE conversion \in {"gdb-to-parquet", "shp-to-parquet"}
  BY <1>4, <1>5 DEF DeclaredKey, Fits, KeyFits, Base, Format
<1> QED  BY <1>2, <1>3, <1>4 DEF Conversions

\* It is the one that fits, and so does a number of it.
LEMMA DeclaredIsBase ==
  ASSUME NEW l \in Locations, NEW conversion \in Conversions, NEW key, Fits(l, conversion, key)
  PROVE  DeclaredKey(conversion, key) = Base(l)
<1>1. CASE conversion = "upload"
  BY <1>1 DEF DeclaredKey, Fits, Base
<1>2. CASE conversion \in {"nc-to-zarr", "gdb-to-parquet", "shp-to-parquet"}
  BY <1>2 DEF DeclaredKey, Fits, Base, Format
<1> QED  BY <1>1, <1>2 DEF Conversions

\* What is read of an asset is a source, or nothing.
LEMMA ContentType ==
  ASSUME Types, NEW href \in Sources \cup Locations
  PROVE  Content(href) \in Sources \cup {None}
<1>1. CASE href \in Sources
  BY <1>1 DEF Content
<1>2. CASE href \notin Sources /\ href \in DOMAIN objects
  <2>1. objects[href] \in Contents
    BY <1>2 DEF Types
  <2>2. objects[href].data \in Sources \cup {None}
    BY <2>1 DEF Contents
  <2> QED  BY <1>2, <2>2 DEF Content, Exists
<1>3. CASE href \notin Sources /\ href \notin DOMAIN objects
  BY <1>3 DEF Content, Exists
<1> QED  BY <1>1, <1>2, <1>3

-----------------------------------------------------------------------------
(* What a step of one run leaves of the others                             *)

\* A run changes what is its own, and what is stored only while it is at work.
OwnStep(r) ==
  /\ request' = request /\ delivered \subseteq delivered'
  /\ \A s \in Runs \ {r} :
       /\ at'[s] = at[s] /\ item'[s] = item[s] /\ plans'[s] = plans[s] /\ outputs'[s] = outputs[s]
       /\ results'[s] = results[s] /\ added'[s] = added[s] /\ taken'[s] = taken[s]
       /\ read'[s] = read[s]
       /\ alone'[s] => alone[s]
  /\ \/ r \in Active
     \/ /\ documents' = documents /\ objects' = objects
        /\ \A s \in Runs \ {r} : alone'[s] /\ s \in Active => r \notin Active'

\* What a step of r is to preserve.
Preserved(r) == Types' /\ DocumentsInv' /\ OwnStep(r) /\ RunInv(r)'

LEMMA SoundGrows ==
  ASSUME NEW assets, Sound(assets), delivered \subseteq delivered'
  PROVE  Sound(assets)'
BY DEF Sound, UniqueKeys

\* Who is at work, when one run moves.
LEMMA ActiveMoves ==
  ASSUME NEW r \in Runs, OwnStep(r)
  PROVE  Active' = (Active \ {r}) \cup {s \in {r} : at'[r] \notin {"idle", "done", "failed"}}
BY DEF OwnStep, Active

LEMMA OthersAlone ==
  ASSUME NEW r \in Runs, NEW s \in Runs, s # r, OwnStep(r), AloneInv(s)
  PROVE  AloneInv(s)'
<1> SUFFICES ASSUME alone'[s], s \in Active' PROVE AloneInv(s)'
  BY DEF AloneInv
<1>1. /\ at'[s] = at[s] /\ outputs'[s] = outputs[s] /\ results'[s] = results[s]
      /\ alone[s] /\ request' = request
  BY DEF OwnStep
<1>2. s \in Active
  BY <1>1 DEF Active
<1>3. Active = {s}
  BY <1>1, <1>2 DEF AloneInv
<1>4. /\ documents' = documents /\ objects' = objects /\ r \notin Active'
  BY <1>2, <1>3 DEF OwnStep
<1>5. Active' = {s}
  BY <1>3, <1>4, ActiveMoves
<1>6. \A j \in DOMAIN results[s] : Intact(s, j)'
  BY <1>1, <1>2, <1>4 DEF AloneInv, Intact, Exists, Object
<1> QED  BY <1>1, <1>2, <1>4, <1>5, <1>6 DEF AloneInv, Exists, Object

LEMMA OthersKeep ==
  ASSUME NEW r \in Runs, NEW s \in Runs, s # r, OwnStep(r), RunInv(s)
  PROVE  RunInv(s)'
<1>1. /\ at'[s] = at[s] /\ item'[s] = item[s] /\ plans'[s] = plans[s] /\ outputs'[s] = outputs[s]
      /\ results'[s] = results[s] /\ added'[s] = added[s] /\ taken'[s] = taken[s]
      /\ read'[s] = read[s] /\ request' = request /\ delivered \subseteq delivered'
  BY DEF OwnStep
<1>2. StageInv(s)'
  BY <1>1 DEF RunInv, StageInv
<1>3. ItemInv(s)'
  BY <1>1, SoundGrows DEF RunInv, ItemInv
<1>4. PlansInv(s)'
  BY <1>1 DEF RunInv, PlansInv
<1>5. \A j \in DOMAIN results'[s] : ResultInv(s, j)'
  BY <1>1 DEF RunInv, ResultInv, Repoints
<1>6. KeepInv(s)'
  BY <1>1 DEF RunInv, KeepInv, NoNamesake, Repoints
<1>7. ReplaceInv(s)'
  BY <1>1 DEF RunInv, ReplaceInv, Apart
<1>8. AloneInv(s)'
  BY OthersAlone DEF RunInv
<1> QED  BY <1>2, <1>3, <1>4, <1>5, <1>6, <1>7, <1>8 DEF RunInv

-----------------------------------------------------------------------------
(* Steps that leave a run's plans, results and Item alone                  *)

Moves(r, stage) ==
  /\ at' = [at EXCEPT ![r] = stage]
  /\ UNCHANGED <<request, item, plans, results, added, taken, read, alone, delivered>>

Over == {"idle", "done", "failed"}

LEMMA MoveOn ==
  ASSUME Inv, NEW r \in Runs, NEW stage \in Stages, Moves(r, stage),
         \A s \in Runs \ {r} : outputs'[s] = outputs[s],
         r \in Active \/ (stage \in Over /\ UNCHANGED <<documents, objects>>),
         stage \in Adding => at[r] \in Adding
  PROVE  /\ OwnStep(r) /\ at'[r] = stage /\ at' \in [Runs -> Stages]
         /\ ItemInv(r)' /\ PlansInv(r)' /\ (\A j \in DOMAIN results[r] : ResultInv(r, j)')
         /\ KeepInv(r)' /\ ReplaceInv(r)'
<1>1. /\ request' = request /\ item' = item /\ plans' = plans /\ results' = results /\ added' = added
      /\ taken' = taken /\ read' = read /\ alone' = alone /\ delivered' = delivered
      /\ at' = [at EXCEPT ![r] = stage]
  BY DEF Moves
<1>2. at \in [Runs -> Stages]
  BY DEF Inv, Types
<1>3. /\ at'[r] = stage /\ at' \in [Runs -> Stages]
      /\ \A s \in Runs \ {r} : at'[s] = at[s]
  BY <1>1, <1>2
<1>4. r \in Active \/ (documents' = documents /\ objects' = objects /\ r \notin Active')
  BY <1>3 DEF Active, Over
<1>5. OwnStep(r)
  BY <1>1, <1>3, <1>4 DEF OwnStep
<1>6. RunInv(r)
  BY DEF Inv
<1>7. ItemInv(r)'
  BY <1>1, <1>6 DEF RunInv, ItemInv, Sound, UniqueKeys
<1>8. PlansInv(r)'
  BY <1>1, <1>6 DEF RunInv, PlansInv
<1>9. \A j \in DOMAIN results[r] : ResultInv(r, j)'
  BY <1>1, <1>6 DEF RunInv, ResultInv, Repoints
<1>10. KeepInv(r)'
  BY <1>1, <1>3, <1>6 DEF RunInv, KeepInv, NoNamesake, Repoints
<1>11. ReplaceInv(r)'
  BY <1>1, <1>3, <1>6 DEF RunInv, ReplaceInv, Apart
<1> QED  BY <1>3, <1>5, <1>7, <1>8, <1>9, <1>10, <1>11

\* The kinds of what such a step leaves alone.
LEMMA MoveTypes ==
  ASSUME Types, NEW r \in Runs, NEW stage \in Stages, Moves(r, stage), outputs' = outputs,
         documents' \in Documents, DOMAIN objects' \subseteq Locations,
         objects' \in [DOMAIN objects' -> Contents]
  PROVE  Types'
<1>1. at' \in [Runs -> Stages]
  BY DEF Types, Moves
<1> QED  BY <1>1 DEF Types, Moves

\* Nothing is asked of a run that has ended.
LEMMA EndedAlone ==
  ASSUME NEW r \in Runs, at'[r] \in Over
  PROVE  AloneInv(r)'
BY DEF AloneInv, Active, Over

\* A run at work alone stays alone.
LEMMA StillAlone ==
  ASSUME NEW r \in Runs, OwnStep(r), r \in Active, Active = {r}
  PROVE  r \in Active' => Active' = {r}
BY ActiveMoves

LEMMA DocumentsGrow ==
  ASSUME DocumentsInv, documents' = documents, delivered \subseteq delivered'
  PROVE  DocumentsInv'
BY SoundGrows DEF DocumentsInv

LEMMA FailPreserves ==
  ASSUME Inv, NEW r \in Runs, Fail(r)
  PROVE  Preserved(r)
<1>1. Moves(r, "failed") /\ UNCHANGED <<documents, objects, outputs>>
  BY DEF Fail, GoTo, Moves
<1>2. "failed" \in Stages /\ "failed" \in Over /\ "failed" \notin Adding
  BY DEF Stages, Over, Adding
<1>3. /\ OwnStep(r) /\ at'[r] = "failed"
      /\ ItemInv(r)' /\ PlansInv(r)' /\ (\A j \in DOMAIN results[r] : ResultInv(r, j)')
      /\ KeepInv(r)' /\ ReplaceInv(r)'
  BY <1>1, <1>2, MoveOn
<1>4. StageInv(r)'
  BY <1>1, <1>3 DEF Inv, RunInv, StageInv, Moves, Adding, Delivering
<1>5. AloneInv(r)'
  BY <1>2, <1>3, EndedAlone
<1>6. Types'
  BY <1>1, <1>2, MoveTypes DEF Inv, Types
<1>7. DocumentsInv'
  BY <1>1, DocumentsGrow DEF Inv, Moves
<1> QED  BY <1>1, <1>3, <1>4, <1>5, <1>6, <1>7 DEF Preserved, RunInv, Moves

-----------------------------------------------------------------------------
(* Steps of a conversion, up to its last                                   *)

\* What is stored at a location, and what stays.
LEMMA StoredIs ==
  ASSUME Types, NEW l \in Locations, NEW o \in Contents, objects' = Stored(l, o)
  PROVE  /\ DOMAIN objects' = DOMAIN objects \cup {l} /\ DOMAIN objects' \subseteq Locations
         /\ objects' \in [DOMAIN objects' -> Contents] /\ objects'[l] = o
         /\ \A m \in DOMAIN objects : m # l => objects'[m] = objects[m]
<1>1. DOMAIN objects \subseteq Locations /\ objects \in [DOMAIN objects -> Contents]
  BY DEF Types
<1>2. DOMAIN objects' = DOMAIN objects \cup {l}
  BY DEF Stored
<1>3. /\ objects'[l] = o
      /\ \A m \in DOMAIN objects : m # l => objects'[m] = objects[m]
  BY DEF Stored
<1>4. \A m \in DOMAIN objects' : objects'[m] \in Contents
  BY <1>1, <1>2, <1>3
<1>5. objects' = [m \in DOMAIN objects' |-> objects'[m]]
  BY DEF Stored
<1>6. objects' \in [DOMAIN objects' -> Contents]
  BY <1>4, <1>5
<1> QED  BY <1>1, <1>2, <1>3, <1>6

\* The first of a run's outputs, and the conversion it is of.
LEMMA AtHand ==
  ASSUME Inv, NEW r \in Runs, at[r] \in Delivering
  PROVE  /\ r \in Active /\ plans[r] # <<>> /\ outputs[r] # <<>>
         /\ Head(plans[r]) \in Planned /\ Head(outputs[r]) \in Deliveries
         /\ Fits(Head(outputs[r]).location, Head(plans[r]).conversion, Head(plans[r]).key)
<1>1. plans[r] \in Seq(Planned) /\ outputs[r] \in Seq(Deliveries)
  BY DEF Inv, Types
<1>2. /\ plans[r] # <<>> /\ outputs[r] # <<>>
      /\ \A i \in DOMAIN outputs[r] :
           Fits(outputs[r][i].location, Head(plans[r]).conversion, Head(plans[r]).key)
  BY DEF Inv, RunInv, StageInv
<1>3. Head(plans[r]) \in Planned
  BY <1>1, <1>2
<1>4. Head(outputs[r]) \in Deliveries /\ 1 \in DOMAIN outputs[r] /\ Head(outputs[r]) = outputs[r][1]
  BY <1>1, <1>2
<1>5. r \in Active
  BY DEF Active, Delivering
<1> QED  BY <1>2, <1>3, <1>4, <1>5

\* The steps to which an output is delivered, until it has failed.
DeliversOn(r, stage) ==
  /\ at[r] \in Delivering /\ stage \in Delivering \cup {"failed"}
  /\ stage \in {"clear", "verify"} => request[r].overwrite
  /\ Moves(r, stage) /\ UNCHANGED <<documents, outputs>>
  /\ DOMAIN objects' \subseteq Locations /\ objects' \in [DOMAIN objects' -> Contents]

LEMMA DeliversOnPreserves ==
  ASSUME Inv, NEW r \in Runs, NEW stage, DeliversOn(r, stage), AloneInv(r)'
  PROVE  Preserved(r)
<1>1. /\ at[r] \in Delivering /\ Moves(r, stage) /\ UNCHANGED <<documents, outputs>>
      /\ stage \in Stages /\ stage \notin Adding /\ stage \in Delivering \cup {"failed"}
      /\ stage \in {"clear", "verify"} => request[r].overwrite
  BY DEF DeliversOn, Stages, Adding, Delivering
<1>2. r \in Active
  BY <1>1, AtHand
<1>3. /\ OwnStep(r) /\ at'[r] = stage
      /\ ItemInv(r)' /\ PlansInv(r)' /\ (\A j \in DOMAIN results[r] : ResultInv(r, j)')
      /\ KeepInv(r)' /\ ReplaceInv(r)'
  BY <1>1, <1>2, MoveOn
<1>4. StageInv(r)'
  <2>1. /\ request' = request /\ item' = item /\ plans' = plans /\ results' = results
        /\ added' = added /\ read' = read /\ outputs' = outputs
    BY <1>1 DEF Moves
  <2>2. StageInv(r) /\ at[r] \notin Adding \cup {"failed"} /\ stage # "idle" /\ stage \notin Adding
    BY <1>1 DEF Inv, RunInv, Adding, Delivering
  <2> QED  BY <1>1, <1>3, <2>1, <2>2 DEF StageInv, Adding
<1>5. Types'
  BY <1>1, MoveTypes DEF Inv, Types, DeliversOn
<1>6. DocumentsInv'
  BY <1>1, DocumentsGrow DEF Inv, Moves
<1> QED  BY <1>1, <1>3, <1>4, <1>5, <1>6 DEF Preserved, RunInv, Moves

\* An output that is not at hand stays as it is.
LEMMA IntactStays ==
  ASSUME Inv, NEW r \in Runs, NEW stage, DeliversOn(r, stage),
         NEW j \in DOMAIN results[r], Intact(r, j),
         stage \in {"verify", "create", "fill"} \/ (stage \in {"check", "put"} /\ at[r] \in {"check", "put"}),
         stage \in {"check", "put"} => objects' = objects,
         \A l \in DOMAIN objects : l # Head(outputs[r]).location =>
           l \in DOMAIN objects' /\ objects'[l] = objects[l]
  PROVE  Intact(r, j)'
<1>1. /\ results' = results /\ outputs' = outputs /\ at' = [at EXCEPT ![r] = stage]
      /\ at \in [Runs -> Stages]
  BY DEF DeliversOn, Moves, Inv, Types
<1>2. at'[r] = stage
  BY <1>1
<1>3. CASE stage \in {"verify", "create", "fill"}
  BY <1>1, <1>2, <1>3 DEF Intact, Exists, Object
<1>4. CASE stage \in {"check", "put"} /\ at[r] \in {"check", "put"}
  BY <1>1, <1>2, <1>4 DEF Intact, Exists, Object
<1> QED  BY <1>3, <1>4

LEMMA ClearPreserves ==
  ASSUME Inv, NEW r \in Runs, Clear(r)
  PROVE  Preserved(r)
<1> DEFINE l == Head(outputs[r]).location
<1>1. /\ at[r] = "clear" /\ Moves(r, "verify") /\ UNCHANGED <<documents, outputs>>
      /\ objects' = [m \in DOMAIN objects \ {l} |-> objects[m]]
  BY DEF Clear, GoTo, Moves
<1> HIDE DEF l
<1>2. DOMAIN objects \subseteq Locations /\ objects \in [DOMAIN objects -> Contents]
  BY DEF Inv, Types
<1>3. /\ DOMAIN objects' = DOMAIN objects \ {l} /\ objects' \in [DOMAIN objects' -> Contents]
      /\ \A m \in DOMAIN objects : m # l => m \in DOMAIN objects' /\ objects'[m] = objects[m]
  BY <1>1, <1>2
<1>4. request[r].overwrite
  BY <1>1 DEF Inv, RunInv, StageInv
<1>5. DeliversOn(r, "verify")
  BY <1>1, <1>2, <1>3, <1>4 DEF DeliversOn, Delivering
<1>6. AloneInv(r)'
  <2> SUFFICES ASSUME alone'[r] PROVE AloneInv(r)'
    BY DEF AloneInv
  <2>1. OwnStep(r) /\ at'[r] = "verify" /\ r \in Active /\ results' = results
    BY <1>1, AtHand, MoveOn DEF Delivering, Stages, Adding, Moves
  <2>2. Active = {r} /\ \A j \in DOMAIN results[r] : Intact(r, j)
    BY <1>1, <2>1 DEF Inv, RunInv, AloneInv, Moves
  <2>3. r \in Active' => Active' = {r}
    BY <2>1, <2>2, StillAlone
  <2>4. \A j \in DOMAIN results[r] : Intact(r, j)'
    BY <1>3, <1>5, <2>2, IntactStays DEF l
  <2> QED  BY <2>1, <2>3, <2>4 DEF AloneInv
<1> QED  BY <1>5, <1>6, DeliversOnPreserves

LEMMA VerifyPreserves ==
  ASSUME Inv, NEW r \in Runs, Verify(r)
  PROVE  Preserved(r)
<1> DEFINE stage == IF Exists(Head(outputs[r]).location) THEN "failed" ELSE "create"
<1>1. at[r] = "verify" /\ Moves(r, stage) /\ UNCHANGED <<documents, outputs, objects>>
  BY DEF Verify, GoTo, Moves
<1>2. stage \in {"failed", "create"}
  OBVIOUS
<1> HIDE DEF stage
<1>3. DeliversOn(r, stage)
  BY <1>1, <1>2 DEF DeliversOn, Delivering, Inv, Types
<1>4. AloneInv(r)'
  <2> SUFFICES ASSUME alone'[r], stage = "create" PROVE AloneInv(r)'
    <3>1. at'[r] = stage
      BY <1>1 DEF Moves, Inv, Types
    <3> QED  BY <1>2, <3>1, EndedAlone DEF AloneInv, Over
  <2>1. OwnStep(r) /\ at'[r] = "create" /\ r \in Active /\ results' = results
    BY <1>1, AtHand, MoveOn DEF Delivering, Stages, Adding, Moves
  <2>2. Active = {r} /\ \A j \in DOMAIN results[r] : Intact(r, j)
    BY <1>1, <2>1 DEF Inv, RunInv, AloneInv, Moves
  <2>3. r \in Active' => Active' = {r}
    BY <2>1, <2>2, StillAlone
  <2>4. \A j \in DOMAIN results[r] : Intact(r, j)'
    BY <1>1, <1>3, <2>2, IntactStays
  <2> QED  BY <2>1, <2>3, <2>4 DEF AloneInv
<1> QED  BY <1>3, <1>4, DeliversOnPreserves

\* The metadata of a store are there before its chunks.
LEMMA ObjectType ==
  ASSUME NEW meta \in Sources \cup {None}, NEW data \in Sources \cup {None}
  PROVE  Object(meta, data) \in Contents
BY DEF Object, Contents

LEMMA CreatePreserves ==
  ASSUME Inv, NEW r \in Runs, Create(r)
  PROVE  Preserved(r)
<1> DEFINE out == Head(outputs[r])
           o == Object(out.source, None)
<1>1. at[r] = "create" /\ at[r] \in Delivering
  BY DEF Create, Delivering
<1>2. out.location \in Locations /\ out.source \in Sources /\ r \in Active
  BY <1>1, AtHand DEF Deliveries
<1>3. CASE Exists(out.location)
  <2>1. Moves(r, "failed") /\ UNCHANGED <<documents, outputs, objects>>
    BY <1>3 DEF Create, GoTo, Moves
  <2>2. DeliversOn(r, "failed")
    BY <1>1, <2>1 DEF DeliversOn, Delivering, Inv, Types
  <2>3. at'[r] = "failed"
    BY <2>1 DEF Moves, Inv, Types
  <2> QED  BY <2>2, <2>3, EndedAlone, DeliversOnPreserves DEF Over
<1>4. CASE ~Exists(out.location)
  <2>1. Moves(r, "fill") /\ UNCHANGED <<documents, outputs>> /\ objects' = Stored(out.location, o)
    BY <1>4 DEF Create, GoTo, Moves
  <2> HIDE DEF out
  <2>2. o \in Contents
    BY <1>2, ObjectType
  <2> HIDE DEF o
  <2>3. /\ DOMAIN objects' = DOMAIN objects \cup {out.location} /\ DOMAIN objects' \subseteq Locations
        /\ objects' \in [DOMAIN objects' -> Contents] /\ objects'[out.location] = o
        /\ \A m \in DOMAIN objects : m # out.location => objects'[m] = objects[m]
    BY <1>2, <2>1, <2>2, StoredIs DEF Inv
  <2>4. DeliversOn(r, "fill")
    BY <1>1, <2>1, <2>3 DEF DeliversOn, Delivering
  <2>5. AloneInv(r)'
    <3> SUFFICES ASSUME alone'[r] PROVE AloneInv(r)'
      BY DEF AloneInv
    <3>1. OwnStep(r) /\ at'[r] = "fill" /\ results' = results /\ outputs' = outputs
      BY <1>1, <1>2, <2>1, MoveOn DEF Delivering, Stages, Adding, Moves
    <3>2. Active = {r} /\ \A j \in DOMAIN results[r] : Intact(r, j)
      BY <1>2, <2>1 DEF Inv, RunInv, AloneInv, Moves
    <3>3. r \in Active' => Active' = {r}
      BY <1>2, <3>1, <3>2, StillAlone
    <3>4. \A j \in DOMAIN results[r] : Intact(r, j)'
      BY <2>3, <2>4, <3>2, IntactStays DEF out
    <3>5. out' = out
      BY <3>1 DEF out
    <3>6. Exists(out.location)' /\ objects'[out'.location] = Object(out'.source, None)
      BY <2>3, <3>5 DEF Exists, o
    <3> QED  BY <3>1, <3>3, <3>4, <3>5, <3>6 DEF AloneInv, Exists, out
  <2> QED  BY <2>4, <2>5, DeliversOnPreserves
<1> QED  BY <1>3, <1>4

LEMMA CheckPreserves ==
  ASSUME Inv, NEW r \in Runs, Check(r)
  PROVE  Preserved(r)
<1> DEFINE there == Exists(Head(outputs[r]).location)
           stage == IF there THEN "failed" ELSE "put"
<1>1. at[r] = "check" /\ Moves(r, stage) /\ UNCHANGED <<documents, outputs, objects>>
  BY DEF Check, GoTo, Moves
<1>2. stage \in {"failed", "put"} /\ (stage = "put" => ~there)
  OBVIOUS
<1> HIDE DEF stage
<1>3. DeliversOn(r, stage)
  BY <1>1, <1>2 DEF DeliversOn, Delivering, Inv, Types
<1>4. AloneInv(r)'
  <2> SUFFICES ASSUME alone'[r], stage = "put" PROVE AloneInv(r)'
    <3>1. at'[r] = stage
      BY <1>1 DEF Moves, Inv, Types
    <3> QED  BY <1>2, <3>1, EndedAlone DEF AloneInv, Over
  <2>1. OwnStep(r) /\ at'[r] = "put" /\ r \in Active /\ results' = results
    BY <1>1, AtHand, MoveOn DEF Delivering, Stages, Adding, Moves
  <2>2. Active = {r} /\ \A j \in DOMAIN results[r] : Intact(r, j)
    BY <1>1, <2>1 DEF Inv, RunInv, AloneInv, Moves
  <2>3. r \in Active' => Active' = {r}
    BY <2>1, <2>2, StillAlone
  <2>4. \A j \in DOMAIN results[r] : Intact(r, j)'
    BY <1>1, <1>3, <2>2, IntactStays
  <2>5. ~Exists(Head(outputs[r]).location)'
    BY <1>1, <1>2 DEF Exists, there
  <2> QED  BY <2>1, <2>3, <2>4, <2>5 DEF AloneInv, Exists
<1> QED  BY <1>3, <1>4, DeliversOnPreserves

LEMMA TruncatePreserves ==
  ASSUME Inv, NEW r \in Runs, Truncate(r)
  PROVE  Preserved(r)
<1> DEFINE out == Head(outputs[r])
           o == Object(out.source, None)
<1>1. at[r] = "put" /\ at[r] \in Delivering
  BY DEF Truncate, Delivering
<1>2. out.location \in Locations /\ out.source \in Sources
  BY <1>1, AtHand DEF Deliveries
<1>3. Moves(r, "failed") /\ UNCHANGED <<documents, outputs>> /\ objects' = Stored(out.location, o)
  BY DEF Truncate, GoTo, Moves
<1> HIDE DEF out
<1>4. o \in Contents
  BY <1>2, ObjectType
<1> HIDE DEF o
<1>5. DOMAIN objects' \subseteq Locations /\ objects' \in [DOMAIN objects' -> Contents]
  BY <1>2, <1>3, <1>4, StoredIs DEF Inv
<1>6. DeliversOn(r, "failed")
  BY <1>1, <1>3, <1>5 DEF DeliversOn, Delivering
<1>7. at'[r] = "failed"
  BY <1>3 DEF Moves, Inv, Types
<1> QED  BY <1>6, <1>7, EndedAlone, DeliversOnPreserves DEF Over

-----------------------------------------------------------------------------
(* The next conversion                                                     *)

LEMMA ConvertPreserves ==
  ASSUME Inv, NEW r \in Runs, Convert(r)
  PROVE  Preserved(r)
<1> DEFINE p == Head(plans[r])
           source == Content(p.href)
           t == Targets(p, source)
           outs == [i \in DOMAIN t |-> [location |-> t[i], source |-> source]]
           stage == Delivery(p.conversion, request[r].overwrite)
<1>1. /\ at[r] = "convert" /\ plans[r] # <<>> /\ source # None
      /\ outputs' = [outputs EXCEPT ![r] = outs] /\ Moves(r, stage) /\ UNCHANGED <<documents, objects>>
  BY DEF Convert, GoTo, Moves
<1>2. p \in Planned
  BY <1>1 DEF Inv, Types
<1>3. source \in Sources
  BY <1>1, <1>2, ContentType DEF Inv, Planned
<1>4. /\ t \in Seq(Locations) /\ Len(t) > 0 /\ (p.conversion = "upload" => Len(t) = 1)
      /\ \A i \in DOMAIN t : Fits(t[i], p.conversion, p.key)
  BY <1>2, <1>3, TargetsAre
<1>5. /\ stage \in {"clear", "create", "put", "check"}
      /\ stage = "clear" => request[r].overwrite
      /\ stage = "put" => request[r].overwrite
  BY DEF Delivery
<1> HIDE DEF source, t, stage
<1>6. /\ outs \in Seq(Deliveries) /\ Len(outs) = Len(t) /\ DOMAIN outs = DOMAIN t
      /\ \A i \in DOMAIN outs : outs[i].location = t[i]
  <2>1. /\ Len(t) \in Nat /\ DOMAIN t = 1 .. Len(t)
        /\ \A i \in DOMAIN t : t[i] \in Locations
    BY <1>4
  <2>2. \A i \in DOMAIN t : [location |-> t[i], source |-> source] \in Deliveries
    BY <1>3, <2>1 DEF Deliveries
  <2>3. outs \in Seq(Deliveries) /\ DOMAIN outs = 1 .. Len(t)
    BY <2>1, <2>2
  <2> QED  BY <2>1, <2>3
<1> HIDE DEF outs, p
<1>7. /\ outputs \in [Runs -> Seq(Deliveries)] /\ at \in [Runs -> Stages]
  BY DEF Inv, Types
<1>8. /\ outputs' \in [Runs -> Seq(Deliveries)] /\ outputs'[r] = outs
      /\ \A s \in Runs \ {r} : outputs'[s] = outputs[s]
  BY <1>1, <1>6, <1>7
<1>9. r \in Active /\ stage \in Stages /\ stage \notin Adding /\ stage \in Delivering
  BY <1>1, <1>5 DEF Active, Stages, Adding, Delivering
<1>10. /\ OwnStep(r) /\ at'[r] = stage /\ at' \in [Runs -> Stages]
       /\ ItemInv(r)' /\ PlansInv(r)' /\ (\A j \in DOMAIN results[r] : ResultInv(r, j)')
       /\ KeepInv(r)' /\ ReplaceInv(r)'
  BY <1>1, <1>8, <1>9, MoveOn
<1>11. /\ request' = request /\ item' = item /\ plans' = plans /\ results' = results
       /\ added' = added /\ read' = read /\ taken' = taken /\ alone' = alone /\ delivered' = delivered
  BY <1>1 DEF Moves
<1>12. StageInv(r)'
  <2>1. added[r] <= Len(results[r]) /\ added[r] = 0 /\ item[r] = read[r]
    BY <1>1 DEF Inv, RunInv, StageInv, Adding
  <2>2. outs # <<>>
    BY <1>4, <1>6
  <2>3. Head(plans'[r]) = p /\ plans'[r] # <<>>
    BY <1>1, <1>11 DEF p
  <2>4. \A i \in DOMAIN outs : Fits(outs[i].location, p.conversion, p.key)
    BY <1>4, <1>6
  <2> QED  BY <1>4, <1>5, <1>6, <1>8, <1>9, <1>10, <1>11, <2>1, <2>2, <2>3, <2>4
           DEF StageInv, Adding
<1>13. AloneInv(r)'
  <2> SUFFICES ASSUME alone'[r] PROVE AloneInv(r)'
    BY DEF AloneInv
  <2>1. Active = {r} /\ \A j \in DOMAIN results[r] : Intact(r, j)
    BY <1>9, <1>11 DEF Inv, RunInv, AloneInv
  <2>2. r \in Active' => Active' = {r}
    BY <1>9, <1>10, <2>1, StillAlone
  <2>3. \A j \in DOMAIN results[r] : Intact(r, j)'
    BY <1>1, <1>11, <2>1 DEF Intact, Exists, Object
  <2> QED  BY <1>5, <1>10, <1>11, <2>2, <2>3 DEF AloneInv
<1>14. Types'
  BY <1>1, <1>8, <1>10, <1>11 DEF Inv, Types
<1>15. DocumentsInv'
  BY <1>1, <1>11, DocumentsGrow DEF Inv
<1> QED  BY <1>10, <1>11, <1>12, <1>13, <1>14, <1>15 DEF Preserved, RunInv

-----------------------------------------------------------------------------
(* The delivery of an output                                               *)

\* What a delivery appends to a run's results.
LEMMA ResultIs ==
  ASSUME NEW p \in Planned, NEW out \in Deliveries, Fits(out.location, p.conversion, p.key)
  PROVE  LET new == Result(p, out)
         IN  /\ new \in Outcomes
             /\ new.target_uri = out.location /\ new.source = out.source
             /\ new.feature = p.conversion /\ new.source_asset_key = p.key
             /\ new.asset_key = DeclaredKey(new.feature, new.source_asset_key)
             /\ KeyFits(new.asset_key, new.target_uri)
<1>1. /\ p.key \in Keys /\ p.conversion \in Conversions /\ out.location \in Locations /\ out.source \in Sources
  BY DEF Planned, Deliveries
<1>2. DeclaredKey(p.conversion, p.key) \in Keys /\ KeyFits(DeclaredKey(p.conversion, p.key), out.location)
  BY <1>1, DeclaredFits
<1> QED  BY <1>1, <1>2 DEF Result, Outcomes

LEMMA Appended ==
  ASSUME NEW T, NEW s \in Seq(T), NEW e \in T
  PROVE  /\ Append(s, e) \in Seq(T) /\ DOMAIN Append(s, e) = DOMAIN s \cup {Len(s) + 1}
         /\ Len(s) + 1 \notin DOMAIN s /\ Append(s, e)[Len(s) + 1] = e
         /\ \A i \in DOMAIN s : i < Len(s) + 1 /\ Append(s, e)[i] = s[i]
<1>1. Len(s) \in Nat /\ DOMAIN s = 1 .. Len(s)
  OBVIOUS
<1> QED  BY <1>1

LEMMA Tailed ==
  ASSUME NEW T, NEW s \in Seq(T), s # <<>>
  PROVE  /\ Tail(s) \in Seq(T) /\ DOMAIN s = 1 .. Len(s) /\ Len(s) \in Nat \ {0} /\ Head(s) = s[1] /\ 1 \in DOMAIN s
         /\ Len(Tail(s)) = Len(s) - 1
         /\ \A i \in DOMAIN Tail(s) : i + 1 \in DOMAIN s /\ i + 1 # 1 /\ Tail(s)[i] = s[i + 1]
         /\ \A i, j \in DOMAIN Tail(s) : i + 1 = j + 1 => i = j
<1>1. Len(s) \in Nat \ {0} /\ DOMAIN s = 1 .. Len(s) /\ Tail(s) \in Seq(T)
  OBVIOUS
<1>2. Len(Tail(s)) = Len(s) - 1 /\ DOMAIN Tail(s) = 1 .. Len(s) - 1
  OBVIOUS
<1>3. \A i \in 1 .. Len(s) - 1 : Tail(s)[i] = s[i + 1]
  OBVIOUS
<1>4. \A i \in 1 .. Len(s) - 1 : i \in Int /\ i + 1 \in 1 .. Len(s) /\ i + 1 # 1
  BY <1>1
<1>5. Head(s) = s[1] /\ 1 \in DOMAIN s
  BY <1>1
<1> QED  BY <1>1, <1>2, <1>3, <1>4, <1>5

\* An output was put at its location, or a store's chunks were.
Delivers(r) ==
  LET out == Head(outputs[r])
  IN  /\ at[r] \in {"fill", "put"} /\ Deliver(r)
      /\ delivered' = delivered \cup {out.location}
      /\ DOMAIN objects' \subseteq Locations /\ objects' \in [DOMAIN objects' -> Contents]
      /\ \A m \in DOMAIN objects : m # out.location => m \in DOMAIN objects' /\ objects'[m] = objects[m]
      /\ out.location \in DOMAIN objects'
      /\ alone[r] => objects'[out.location] = Object(out.source, out.source)

LEMMA DeliversStep ==
  ASSUME Inv, NEW r \in Runs, Delivers(r)
  PROVE  LET p == Head(plans[r])
             out == Head(outputs[r])
         IN  /\ p \in Planned /\ out \in Deliveries /\ Fits(out.location, p.conversion, p.key)
             /\ results[r] \in Seq(Outcomes) /\ results'[r] = Append(results[r], Result(p, out))
             /\ results' \in [Runs -> Seq(Outcomes)]
             /\ outputs' \in [Runs -> Seq(Deliveries)] /\ outputs'[r] = Tail(outputs[r])
             /\ plans' \in [Runs -> Seq(Planned)] /\ at' \in [Runs -> Stages]
             /\ \/ Len(outputs[r]) = 1 /\ plans'[r] = Tail(plans[r]) /\ at'[r] = "convert"
                \/ /\ Len(outputs[r]) # 1 /\ plans'[r] = plans[r]
                   /\ at'[r] = Delivery(p.conversion, request[r].overwrite)
             /\ OwnStep(r) /\ r \in Active /\ plans[r] \in Seq(Planned) /\ outputs[r] \in Seq(Deliveries)
             /\ plans[r] # <<>> /\ outputs[r] # <<>>
<1> DEFINE p == Head(plans[r])
           out == Head(outputs[r])
           new == Result(p, out)
           stage == Delivery(p.conversion, request[r].overwrite)
<1>1. at[r] \in Delivering /\ Deliver(r) /\ delivered \subseteq delivered'
  BY DEF Delivers, Delivering
<1>2. /\ r \in Active /\ plans[r] # <<>> /\ outputs[r] # <<>>
      /\ p \in Planned /\ out \in Deliveries /\ Fits(out.location, p.conversion, p.key)
  BY <1>1, AtHand
<1>3. new \in Outcomes
  BY <1>2, ResultIs
<1>4. /\ results \in [Runs -> Seq(Outcomes)] /\ outputs \in [Runs -> Seq(Deliveries)]
      /\ plans \in [Runs -> Seq(Planned)] /\ at \in [Runs -> Stages]
  BY DEF Inv, Types
<1>5. /\ results[r] \in Seq(Outcomes) /\ outputs[r] \in Seq(Deliveries) /\ plans[r] \in Seq(Planned)
  BY <1>4
<1>6. Tail(outputs[r]) \in Seq(Deliveries) /\ Tail(plans[r]) \in Seq(Planned)
  BY <1>2, <1>5
<1>7. stage \in Stages /\ "convert" \in Stages
  BY DEF Delivery, Stages
<1>8. /\ results' = [results EXCEPT ![r] = Append(results[r], new)]
      /\ outputs' = [outputs EXCEPT ![r] = Tail(outputs[r])]
      /\ UNCHANGED <<documents, request, item, added, taken, read, alone>>
      /\ \/ /\ Len(outputs[r]) = 1 /\ plans' = [plans EXCEPT ![r] = Tail(plans[r])]
            /\ at' = [at EXCEPT ![r] = "convert"]
         \/ Len(outputs[r]) # 1 /\ plans' = plans /\ at' = [at EXCEPT ![r] = stage]
  BY <1>1 DEF Deliver, GoTo
<1> HIDE DEF new, stage, p, out
<1>9. Append(results[r], new) \in Seq(Outcomes)
  BY <1>3, <1>5
<1>10. /\ results' \in [Runs -> Seq(Outcomes)] /\ results'[r] = Append(results[r], new)
       /\ \A s \in Runs \ {r} : results'[s] = results[s]
  BY <1>4, <1>8, <1>9
<1>11. /\ outputs' \in [Runs -> Seq(Deliveries)] /\ outputs'[r] = Tail(outputs[r])
       /\ \A s \in Runs \ {r} : outputs'[s] = outputs[s]
  BY <1>4, <1>6, <1>8
<1>12. /\ plans' \in [Runs -> Seq(Planned)] /\ at' \in [Runs -> Stages]
       /\ \A s \in Runs \ {r} : plans'[s] = plans[s] /\ at'[s] = at[s]
       /\ \/ Len(outputs[r]) = 1 /\ plans'[r] = Tail(plans[r]) /\ at'[r] = "convert"
          \/ Len(outputs[r]) # 1 /\ plans'[r] = plans[r] /\ at'[r] = stage
  <2>1. CASE /\ Len(outputs[r]) = 1 /\ plans' = [plans EXCEPT ![r] = Tail(plans[r])]
             /\ at' = [at EXCEPT ![r] = "convert"]
    BY <1>4, <1>6, <1>7, <2>1
  <2>2. CASE Len(outputs[r]) # 1 /\ plans' = plans /\ at' = [at EXCEPT ![r] = stage]
    BY <1>4, <1>7, <2>2
  <2> QED  BY <1>8, <2>1, <2>2
<1>13. OwnStep(r)
  BY <1>1, <1>2, <1>8, <1>10, <1>11, <1>12 DEF OwnStep
<1> QED  BY <1>2, <1>5, <1>10, <1>11, <1>12, <1>13 DEF new, stage, p, out

LEMMA DeliversPlans ==
  ASSUME Inv, NEW r \in Runs, Delivers(r)
  PROVE  PlansInv(r)'
<1> DEFINE p == Head(plans[r])
           out == Head(outputs[r])
           new == Result(p, out)
           ps == plans[r]
           ps1 == plans'[r]
           rs == results[r]
           rs1 == results'[r]
           n == Len(rs) + 1
<1>1. /\ p \in Planned /\ out \in Deliveries /\ Fits(out.location, p.conversion, p.key)
      /\ rs \in Seq(Outcomes) /\ rs1 = Append(rs, new) /\ ps \in Seq(Planned) /\ ps # <<>>
      /\ \/ Len(outputs[r]) = 1 /\ ps1 = Tail(ps)
         \/ Len(outputs[r]) # 1 /\ ps1 = ps
  BY DeliversStep
<1>2. /\ new \in Outcomes /\ new.feature = p.conversion /\ new.source_asset_key = p.key
  BY <1>1, ResultIs
<1>3. PlansInv(r) /\ read' = read
  BY DEF Inv, RunInv, Delivers, Deliver
<1>4. p.conversion = "upload" => Len(outputs[r]) = 1
  BY DEF Inv, RunInv, StageInv, Delivers, Delivering
<1>5. /\ DOMAIN rs1 = DOMAIN rs \cup {n} /\ n \notin DOMAIN rs /\ rs1[n] = new
      /\ \A i \in DOMAIN rs : rs1[i] = rs[i]
  BY <1>1, <1>2, Appended
<1>6. p = ps[1] /\ 1 \in DOMAIN ps
  BY <1>1
<1>7. /\ \A i \in DOMAIN Tail(ps) : i + 1 \in DOMAIN ps /\ i + 1 # 1 /\ Tail(ps)[i] = ps[i + 1]
      /\ \A i, j \in DOMAIN Tail(ps) : i + 1 = j + 1 => i = j
  BY <1>1, Tailed
<1>8. /\ \A i \in DOMAIN ps : ps[i].key \in KeysOf(read[r])
      /\ \A i, j \in DOMAIN ps : ps[i].key = ps[j].key => i = j
      /\ \A j \in DOMAIN rs : rs[j].source_asset_key \in KeysOf(read[r])
      /\ \A j \in DOMAIN rs : rs[j].feature = "upload" =>
           /\ \A i \in DOMAIN ps : ps[i].key # rs[j].source_asset_key
           /\ \A k \in DOMAIN rs :
                rs[k].feature = "upload" /\ rs[k].source_asset_key = rs[j].source_asset_key => j = k
  BY <1>3 DEF PlansInv
<1> HIDE DEF p, out, new, ps, ps1, rs, rs1, n
<1>9. /\ \A i \in DOMAIN ps1 : \E k \in DOMAIN ps : ps1[i] = ps[k] /\ (p.conversion = "upload" => k # 1)
      /\ \A i, j \in DOMAIN ps1 : ps1[i].key = ps1[j].key => i = j
  <2>1. CASE ps1 = Tail(ps)
    BY <1>7, <1>8, <2>1
  <2>2. CASE ps1 = ps /\ p.conversion # "upload"
    BY <1>8, <2>2
  <2> QED  BY <1>1, <1>4, <2>1, <2>2
<1>10. \A i \in DOMAIN ps1 : ps1[i].key \in KeysOf(read[r])
  BY <1>8, <1>9
<1>11. \A j \in DOMAIN rs1 : rs1[j].source_asset_key \in KeysOf(read[r])
  BY <1>2, <1>5, <1>6, <1>8
<1>12. ASSUME NEW j \in DOMAIN rs1, rs1[j].feature = "upload"
       PROVE  /\ \A i \in DOMAIN ps1 : ps1[i].key # rs1[j].source_asset_key
              /\ \A k \in DOMAIN rs1 :
                   rs1[k].feature = "upload" /\ rs1[k].source_asset_key = rs1[j].source_asset_key => j = k
  <2>1. CASE j \in DOMAIN rs
    <3>1. rs[j].feature = "upload" /\ rs1[j] = rs[j]
      BY <1>5, <1>12, <2>1
    <3>2. \A i \in DOMAIN ps : ps[i].key # rs[j].source_asset_key
      BY <1>8, <2>1, <3>1
    <3>3. new.source_asset_key # rs[j].source_asset_key
      BY <1>2, <1>6, <3>2
    <3> QED  BY <1>5, <1>8, <1>9, <2>1, <3>1, <3>2, <3>3
  <2>2. CASE j = n
    <3>1. p.conversion = "upload" /\ rs1[j] = new
      BY <1>2, <1>5, <1>12, <2>2
    <3>2. \A k \in DOMAIN ps : k # 1 => ps[k].key # p.key
      BY <1>6, <1>8
    <3>3. \A k \in DOMAIN rs : rs[k].feature = "upload" => rs[k].source_asset_key # p.key
      BY <1>6, <1>8
    <3> QED  BY <1>2, <1>5, <1>9, <2>2, <3>1, <3>2, <3>3
  <2> QED  BY <1>5, <2>1, <2>2
<1> QED  BY <1>3, <1>9, <1>10, <1>11, <1>12 DEF PlansInv, ps1, rs1

LEMMA DeliversStage ==
  ASSUME Inv, NEW r \in Runs, Delivers(r)
  PROVE  StageInv(r)'
<1> DEFINE p == Head(plans[r])
           os == outputs[r]
           os1 == outputs'[r]
           rs == results[r]
<1>1. /\ p \in Planned /\ rs \in Seq(Outcomes) /\ results'[r] = Append(rs, Result(p, Head(os)))
      /\ os \in Seq(Deliveries) /\ os # <<>> /\ os1 = Tail(os) /\ plans[r] # <<>>
      /\ \/ Len(os) = 1 /\ at'[r] = "convert"
         \/ /\ Len(os) # 1 /\ plans'[r] = plans[r]
            /\ at'[r] = Delivery(p.conversion, request[r].overwrite)
  BY DeliversStep
<1>2. /\ added' = added /\ item' = item /\ read' = read /\ request' = request
      /\ at[r] \in Delivering /\ at[r] \notin Adding \cup {"failed"}
  BY DEF Delivers, Deliver, Delivering, Adding
<1>3. /\ added[r] = 0 /\ item[r] = read[r]
      /\ p.conversion = "upload" => Len(os) = 1
      /\ \A i \in DOMAIN os : Fits(os[i].location, p.conversion, p.key)
  BY <1>2 DEF Inv, RunInv, StageInv
<1>4. Len(results'[r]) \in Nat
  BY <1>1
<1>5. /\ at'[r] \in {"convert", "clear", "create", "check", "put"}
      /\ at'[r] = "clear" => request[r].overwrite
      /\ at'[r] # "convert" => Len(os) # 1 /\ plans'[r] = plans[r]
  BY <1>1 DEF Delivery
<1>6. /\ Len(os) # 1 => os1 # <<>>
      /\ \A i \in DOMAIN os1 : i + 1 \in DOMAIN os /\ os1[i] = os[i + 1]
  <2>1. /\ Len(os) \in Nat \ {0} /\ Len(os1) = Len(os) - 1
        /\ \A i \in DOMAIN os1 : i + 1 \in DOMAIN os /\ os1[i] = os[i + 1]
    BY <1>1, Tailed
  <2>2. os1 = <<>> => Len(os1) = 0
    OBVIOUS
  <2> HIDE DEF os, os1
  <2> QED  BY <2>1, <2>2
<1> HIDE DEF os, os1, rs
<1>7. \A i \in DOMAIN os1 : Fits(os1[i].location, p.conversion, p.key)
  BY <1>3, <1>6
<1>8. added'[r] = 0 /\ item'[r] = read'[r] /\ added'[r] <= Len(results'[r])
  BY <1>2, <1>3, <1>4
<1> HIDE DEF p
<1>9. at'[r] # "convert" => Head(plans'[r]) = p /\ plans'[r] # <<>> /\ p.conversion # "upload" /\ os1 # <<>>
  BY <1>1, <1>3, <1>5, <1>6 DEF p
<1> QED  BY <1>2, <1>5, <1>7, <1>8, <1>9 DEF StageInv, Delivering, Adding, os1

LEMMA DeliversResult ==
  ASSUME Inv, NEW r \in Runs, Delivers(r)
  PROVE  (\A j \in DOMAIN results'[r] : ResultInv(r, j)') /\ AloneInv(r)'
<1> DEFINE p == Head(plans[r])
           out == Head(outputs[r])
           new == Result(p, out)
           rs == results[r]
           rs1 == results'[r]
           n == Len(rs) + 1
<1>1. /\ p \in Planned /\ out \in Deliveries /\ Fits(out.location, p.conversion, p.key)
      /\ rs \in Seq(Outcomes) /\ rs1 = Append(rs, new) /\ OwnStep(r) /\ r \in Active
      /\ at'[r] = "convert" \/ at'[r] = Delivery(p.conversion, request[r].overwrite)
  BY DeliversStep
<1>2. /\ new \in Outcomes /\ new.target_uri = out.location /\ new.source = out.source
      /\ new.feature = p.conversion /\ new.source_asset_key = p.key
      /\ new.asset_key = DeclaredKey(new.feature, new.source_asset_key)
      /\ KeyFits(new.asset_key, new.target_uri)
  BY <1>1, ResultIs
<1>3. /\ DOMAIN rs1 = DOMAIN rs \cup {n} /\ n \notin DOMAIN rs /\ rs1[n] = new
      /\ \A i \in DOMAIN rs : i < n /\ rs1[i] = rs[i]
  BY <1>1, <1>2, Appended
<1>4. /\ request' = request /\ added' = added /\ alone' = alone /\ delivered' = delivered \cup {out.location}
  BY DEF Delivers, Deliver
<1>5. /\ out.location \in DOMAIN objects'
      /\ \A m \in DOMAIN objects : m # out.location => m \in DOMAIN objects' /\ objects'[m] = objects[m]
      /\ alone[r] => objects'[out.location] = Object(out.source, out.source)
  BY DEF Delivers
<1>6. RunInv(r) /\ at[r] \in {"fill", "put"}
  BY DEF Inv, Delivers
<1> HIDE DEF p, out, new, rs, rs1, n
<1>7. \A j \in DOMAIN rs1 : ResultInv(r, j)'
  <2>1. \A j \in DOMAIN rs : ResultInv(r, j)'
    BY <1>3, <1>4, <1>6 DEF RunInv, ResultInv, rs, rs1
  <2>2. ASSUME NEW j, j = n PROVE ResultInv(r, j)'
    BY <1>1, <1>2, <1>3, <1>4, <2>2 DEF ResultInv, Repoints, rs1
  <2>3. ASSUME NEW j \in DOMAIN rs1 PROVE ResultInv(r, j)'
    BY <1>3, <2>1, <2>2
  <2> QED  BY <2>3
<1>8. AloneInv(r)'
  <2> SUFFICES ASSUME alone'[r] PROVE AloneInv(r)'
    BY DEF AloneInv
  <2>1. Active = {r} /\ \A j \in DOMAIN rs : Intact(r, j)
    BY <1>1, <1>4, <1>6 DEF RunInv, AloneInv, rs
  <2>2. r \in Active' => Active' = {r}
    BY <1>1, <2>1, StillAlone
  <2>3. at'[r] \notin {"fill", "write"} /\ (at'[r] = "put" => request'[r].overwrite)
    BY <1>1, <1>4 DEF Delivery
  <2>4. ASSUME NEW j, j = n PROVE Intact(r, j)'
    BY <1>2, <1>3, <1>4, <1>5, <2>4 DEF Intact, Exists, Object, rs1
  <2>5. ASSUME NEW j \in DOMAIN rs PROVE Intact(r, j)'
    <3>1. rs1[j] = rs[j] /\ j < n /\ n \in DOMAIN rs1
      BY <1>3
    <3>2. CASE rs[j].target_uri = out.location
      <4>1. rs1[n].target_uri = rs1[j].target_uri /\ n > j
        BY <1>2, <1>3, <3>1, <3>2
      <4> QED  BY <3>1, <4>1 DEF Intact, rs1
    <3>3. CASE rs[j].target_uri # out.location
      <4>1. \/ /\ Exists(rs[j].target_uri)
               /\ objects[rs[j].target_uri] = Object(rs[j].source, rs[j].source)
            \/ \E k \in DOMAIN rs : k > j /\ rs[k].target_uri = rs[j].target_uri
        BY <2>1, <3>3 DEF Intact, rs, out
      <4>2. \/ /\ rs1[j].target_uri \in DOMAIN objects'
               /\ objects'[rs1[j].target_uri] = Object(rs1[j].source, rs1[j].source)
            \/ \E k \in DOMAIN rs1 : k > j /\ rs1[k].target_uri = rs1[j].target_uri
        BY <1>3, <1>5, <3>1, <3>3, <4>1 DEF Exists
      <4> QED  BY <4>2 DEF Intact, Exists, Object, rs1
    <3> QED  BY <3>2, <3>3
  <2>6. ASSUME NEW j \in DOMAIN rs1 PROVE Intact(r, j)'
    BY <1>3, <2>4, <2>5
  <2> QED  BY <2>2, <2>3, <2>6 DEF AloneInv, rs1
<1> QED  BY <1>7, <1>8 DEF rs1

LEMMA DeliversPreserves ==
  ASSUME Inv, NEW r \in Runs, Delivers(r)
  PROVE  Preserved(r)
<1>1. /\ documents' = documents /\ request' = request /\ item' = item /\ added' = added
      /\ taken' = taken /\ read' = read /\ alone' = alone
      /\ delivered' = delivered \cup {Head(outputs[r]).location}
      /\ DOMAIN objects' \subseteq Locations /\ objects' \in [DOMAIN objects' -> Contents]
  BY DEF Delivers, Deliver
<1>2. /\ OwnStep(r) /\ Head(outputs[r]) \in Deliveries
      /\ results' \in [Runs -> Seq(Outcomes)] /\ outputs' \in [Runs -> Seq(Deliveries)]
      /\ plans' \in [Runs -> Seq(Planned)] /\ at' \in [Runs -> Stages]
      /\ at'[r] = "convert" \/ at'[r] = Delivery(Head(plans[r]).conversion, request[r].overwrite)
  BY DeliversStep
<1>3. at'[r] \notin Adding
  BY <1>2 DEF Delivery, Adding
<1>4. Head(outputs[r]).location \in Locations
  BY <1>2 DEF Deliveries
<1>5. Types'
  BY <1>1, <1>2, <1>4 DEF Inv, Types
<1>6. DocumentsInv'
  BY <1>1, DocumentsGrow DEF Inv
<1>7. ItemInv(r)'
  BY <1>1, SoundGrows DEF Inv, RunInv, ItemInv
<1>8. KeepInv(r)' /\ ReplaceInv(r)'
  BY <1>3 DEF KeepInv, ReplaceInv
<1> QED  BY <1>2, <1>5, <1>6, <1>7, <1>8, DeliversStage, DeliversPlans, DeliversResult
         DEF Preserved, RunInv

LEMMA FillPreserves ==
  ASSUME Inv, NEW r \in Runs, Fill(r)
  PROVE  Preserved(r)
<1> DEFINE out == Head(outputs[r])
           meta == IF Exists(out.location) THEN objects[out.location].meta ELSE None
           o == Object(meta, out.source)
<1>1. /\ at[r] = "fill" /\ objects' = Stored(out.location, o)
      /\ delivered' = delivered \cup {out.location} /\ Deliver(r)
  BY DEF Fill
<1>2. at[r] \in Delivering
  BY <1>1 DEF Delivering
<1>3. out.location \in Locations /\ out.source \in Sources /\ r \in Active
  BY <1>2, AtHand DEF Deliveries
<1>4. alone[r] => meta = out.source
  <2>1. alone[r] => Exists(out.location) /\ objects[out.location] = Object(out.source, None)
    BY <1>1, <1>3 DEF Inv, RunInv, AloneInv
  <2> HIDE DEF out
  <2> QED  BY <2>1 DEF Object
<1> HIDE DEF out
<1>5. meta \in Sources \cup {None}
  BY DEF Inv, Types, Contents, Exists
<1> HIDE DEF meta
<1>6. o \in Contents
  BY <1>3, <1>5, ObjectType
<1>7. alone[r] => o = Object(out.source, out.source)
  BY <1>4
<1> HIDE DEF o
<1>8. /\ DOMAIN objects' = DOMAIN objects \cup {out.location} /\ DOMAIN objects' \subseteq Locations
       /\ objects' \in [DOMAIN objects' -> Contents] /\ objects'[out.location] = o
       /\ \A m \in DOMAIN objects : m # out.location => objects'[m] = objects[m]
  <2>1. objects' = Stored(out.location, o) /\ Types
    BY <1>1 DEF Inv
  <2> QED  BY <1>3, <1>6, <2>1, StoredIs
<1>9. Delivers(r)
  BY <1>1, <1>7, <1>8 DEF Delivers, out
<1> QED  BY <1>9, DeliversPreserves

LEMMA PutPreserves ==
  ASSUME Inv, NEW r \in Runs, Put(r)
  PROVE  Preserved(r)
<1> DEFINE out == Head(outputs[r])
           o == Object(out.source, out.source)
<1>1. /\ at[r] = "put" /\ objects' = Stored(out.location, o)
      /\ delivered' = delivered \cup {out.location} /\ Deliver(r)
  BY DEF Put
<1>2. at[r] \in Delivering
  BY <1>1 DEF Delivering
<1>3. out.location \in Locations /\ out.source \in Sources
  BY <1>2, AtHand DEF Deliveries
<1> HIDE DEF out
<1>4. o \in Contents
  BY <1>3, ObjectType
<1>5. /\ DOMAIN objects' = DOMAIN objects \cup {out.location} /\ DOMAIN objects' \subseteq Locations
       /\ objects' \in [DOMAIN objects' -> Contents] /\ objects'[out.location] = o
       /\ \A m \in DOMAIN objects : m # out.location => objects'[m] = objects[m]
  BY <1>1, <1>3, <1>4, StoredIs DEF Inv
<1>6. Delivers(r)
  BY <1>1, <1>5 DEF Delivers, out, o
<1> QED  BY <1>6, DeliversPreserves

-----------------------------------------------------------------------------
(* The Item is read, and written                                           *)

LEMMA ReadPreserves ==
  ASSUME Inv, NEW r \in Runs, Read(r)
  PROVE  Preserved(r)
<1> DEFINE assets == documents[request[r].source_uri]
           p == Plans(assets, request[r])
<1>1. request[r] \in Requests /\ request[r].source_uri \in Uris
  BY RequestParts DEF Inv, Types
<1>2. assets \in Seq(Assets) /\ Sound(assets)
  BY <1>1 DEF Read, Inv, Types, Documents, DocumentsInv
<1>3. /\ p \in Seq(Planned) /\ \A i \in DOMAIN p : p[i].key \in KeysOf(assets)
      /\ \A i, j \in DOMAIN p : p[i].key = p[j].key => i = j
  BY <1>1, <1>2, PlansAre DEF Sound
<1>4. KeysOf(assets) \in SUBSET Keys
  BY <1>2, KeysAreFinite
<1>5. /\ at[r] = "idle" /\ at' = [at EXCEPT ![r] = "convert"]
      /\ item' = [item EXCEPT ![r] = assets] /\ read' = [read EXCEPT ![r] = assets]
      /\ plans' = [plans EXCEPT ![r] = p] /\ taken' = [taken EXCEPT ![r] = KeysOf(assets)]
      /\ alone' = [s \in Runs |-> alone[s] /\ (IF s = r THEN Active = {} ELSE s \notin Active)]
      /\ UNCHANGED <<documents, objects, request, outputs, results, added, delivered>>
  BY DEF Read, GoTo
<1> HIDE DEF p, assets
<1>6. /\ at \in [Runs -> Stages] /\ item \in [Runs -> Seq(Assets)] /\ read \in [Runs -> Seq(Assets)]
      /\ plans \in [Runs -> Seq(Planned)] /\ taken \in [Runs -> SUBSET Keys] /\ alone \in [Runs -> BOOLEAN]
  BY DEF Inv, Types
<1>7. /\ at' \in [Runs -> Stages] /\ at'[r] = "convert" /\ \A s \in Runs \ {r} : at'[s] = at[s]
  BY <1>5, <1>6 DEF Stages
<1>8. /\ item' \in [Runs -> Seq(Assets)] /\ item'[r] = assets /\ \A s \in Runs \ {r} : item'[s] = item[s]
  BY <1>2, <1>5, <1>6
<1>9. /\ read' \in [Runs -> Seq(Assets)] /\ read'[r] = assets /\ \A s \in Runs \ {r} : read'[s] = read[s]
  BY <1>2, <1>5, <1>6
<1>10. /\ plans' \in [Runs -> Seq(Planned)] /\ plans'[r] = p /\ \A s \in Runs \ {r} : plans'[s] = plans[s]
  BY <1>3, <1>5, <1>6
<1>11. /\ taken' \in [Runs -> SUBSET Keys] /\ taken'[r] = KeysOf(assets)
       /\ \A s \in Runs \ {r} : taken'[s] = taken[s]
  BY <1>4, <1>5, <1>6
<1>12. alone' \in [Runs -> BOOLEAN]
  <2>1. \A s \in Runs : (alone[s] /\ (IF s = r THEN Active = {} ELSE s \notin Active)) \in BOOLEAN
    OBVIOUS
  <2> QED  BY <1>5, <2>1
<1>13. /\ alone'[r] => Active = {}
       /\ \A s \in Runs \ {r} : alone'[s] => alone[s] /\ s \notin Active
  BY <1>5
<1>14. OwnStep(r)
  BY <1>5, <1>7, <1>8, <1>9, <1>10, <1>11, <1>13 DEF OwnStep
<1>15. StageInv(r) /\ added[r] = 0 /\ results[r] = <<>>
  BY <1>5 DEF Inv, RunInv, StageInv, Adding
<1>16. results'[r] = <<>> /\ DOMAIN results'[r] = {}
  BY <1>5, <1>15
<1>17. StageInv(r)'
  BY <1>5, <1>7, <1>8, <1>9, <1>15 DEF StageInv, Adding, Delivering
<1>18. ItemInv(r)'
  BY <1>2, <1>5, <1>8, <1>9, <1>11 DEF ItemInv, Sound, UniqueKeys
<1>19. PlansInv(r)'
  BY <1>3, <1>9, <1>10, <1>16 DEF PlansInv
<1>20. \A j \in DOMAIN results'[r] : ResultInv(r, j)'
  BY <1>16
<1>21. KeepInv(r)' /\ ReplaceInv(r)'
  BY <1>7 DEF KeepInv, ReplaceInv, Adding
<1>22. AloneInv(r)'
  <2>1. alone'[r] => Active' \subseteq {r}
    BY <1>13, <1>14, ActiveMoves
  <2>2. r \in Active' => r \in Active'
    OBVIOUS
  <2> QED  BY <1>7, <1>16, <2>1 DEF AloneInv
<1>23. Types'
  BY <1>5, <1>7, <1>8, <1>9, <1>10, <1>11, <1>12 DEF Inv, Types
<1>24. DocumentsInv'
  BY <1>5, DocumentsGrow DEF Inv
<1> QED  BY <1>14, <1>17, <1>18, <1>19, <1>20, <1>21, <1>22, <1>23, <1>24 DEF Preserved, RunInv

\* Results that are added are still what and where they were.
LEMMA StartWritingPreserves ==
  ASSUME Inv, NEW r \in Runs, StartWriting(r)
  PROVE  Preserved(r)
<1> DEFINE refused == ~request[r].overwrite /\ documents[request[r].target_uri] # None
           stage == IF refused THEN "failed" ELSE "write"
<1>1. /\ at[r] = "add" /\ added[r] = Len(results[r]) /\ Moves(r, stage)
      /\ UNCHANGED <<documents, objects, outputs>>
  BY DEF StartWriting, GoTo, Moves
<1>2. stage \in {"failed", "write"} /\ (stage = "write" => ~refused)
  OBVIOUS
<1> HIDE DEF stage
<1>3. /\ stage \in Stages /\ at[r] \in Adding /\ r \in Active
  BY <1>1, <1>2 DEF Stages, Adding, Active
<1>4. /\ OwnStep(r) /\ at'[r] = stage
      /\ ItemInv(r)' /\ PlansInv(r)' /\ (\A j \in DOMAIN results[r] : ResultInv(r, j)')
      /\ KeepInv(r)' /\ ReplaceInv(r)'
  BY <1>1, <1>3, MoveOn
<1>5. /\ request' = request /\ results' = results /\ added' = added /\ alone' = alone
      /\ delivered' = delivered /\ outputs' = outputs /\ objects' = objects /\ documents' = documents
  BY <1>1 DEF Moves
<1>6. StageInv(r)'
  BY <1>1, <1>2, <1>4, <1>5 DEF Inv, RunInv, StageInv, Adding, Delivering
<1>7. AloneInv(r)'
  <2> SUFFICES ASSUME alone'[r], stage = "write" PROVE AloneInv(r)'
    BY <1>2, <1>4, EndedAlone DEF AloneInv, Over
  <2>1. Active = {r} /\ \A j \in DOMAIN results[r] : Intact(r, j)
    BY <1>3, <1>5 DEF Inv, RunInv, AloneInv
  <2>2. r \in Active' => Active' = {r}
    BY <1>3, <1>4, <2>1, StillAlone
  <2>3. \A j \in DOMAIN results[r] : Intact(r, j)'
    BY <1>1, <1>5, <2>1 DEF Intact, Exists, Object
  <2> QED  BY <1>2, <1>4, <1>5, <2>2, <2>3 DEF AloneInv
<1>8. Types'
  BY <1>1, <1>3, MoveTypes DEF Inv, Types
<1>9. DocumentsInv'
  BY <1>5, DocumentsGrow DEF Inv
<1> QED  BY <1>4, <1>5, <1>6, <1>7, <1>8, <1>9 DEF Preserved, RunInv

LEMMA WritePreserves ==
  ASSUME Inv, NEW r \in Runs, Write(r)
  PROVE  Preserved(r)
<1> DEFINE u == request[r].target_uri
<1>1. /\ at[r] = "write" /\ Moves(r, "done") /\ UNCHANGED <<objects, outputs>>
      /\ documents' = [documents EXCEPT ![u] = item[r]]
  BY DEF Write, GoTo, Moves
<1>2. "done" \in Stages /\ at[r] \in Adding /\ r \in Active /\ "done" \in Over
  BY <1>1 DEF Stages, Adding, Active, Over
<1>3. /\ OwnStep(r) /\ at'[r] = "done"
      /\ ItemInv(r)' /\ PlansInv(r)' /\ (\A j \in DOMAIN results[r] : ResultInv(r, j)')
      /\ KeepInv(r)' /\ ReplaceInv(r)'
  BY <1>1, <1>2, MoveOn
<1>4. StageInv(r)'
  BY <1>1, <1>3 DEF Inv, RunInv, StageInv, Moves, Adding, Delivering
<1>5. AloneInv(r)'
  BY <1>2, <1>3, EndedAlone
<1>6. u \in Uris /\ item[r] \in Seq(Assets) /\ documents \in Documents
  BY RequestParts DEF Inv, Types
<1>7. documents' \in Documents
  <2> HIDE DEF u
  <2> QED  BY <1>1, <1>6 DEF Documents
<1>8. Types'
  BY <1>1, <1>2, <1>7, MoveTypes DEF Inv, Types
<1>9. DocumentsInv'
  <2> HIDE DEF u
  <2>1. delivered' = delivered /\ Sound(item[r])
    BY <1>1 DEF Moves, Inv, RunInv, ItemInv
  <2>2. Sound(item[r])'
    BY <1>1, <2>1, SoundGrows DEF Moves, Sound
  <2>3. ASSUME NEW v \in Uris, documents'[v] # None PROVE Sound(documents[v])'
    <3>1. CASE v = u
      <4>1. documents'[v] = item[r]
        BY <1>1, <1>6, <3>1 DEF Documents
      <4> QED  BY <2>1, <4>1 DEF Sound
    <3>2. CASE v # u
      <4>1. documents'[v] = documents[v]
        BY <1>1, <1>6, <3>2 DEF Documents
      <4> QED  BY <2>1, <2>3, <4>1 DEF Sound, Inv, DocumentsInv
    <3> QED  BY <3>1, <3>2
  <2> QED  BY <2>3 DEF DocumentsInv
<1> QED  BY <1>1, <1>3, <1>4, <1>5, <1>8, <1>9 DEF Preserved, RunInv, Moves

-----------------------------------------------------------------------------
(* The stale assets of an overwritten Item                                 *)

\* An asset that points at the output of a conversion has a key that makes it stale.
LEMMA StaleIfSame ==
  ASSUME NEW assets \in Seq(Assets), NEW rs \in Seq(Outcomes), NEW i \in DOMAIN assets, NEW j \in DOMAIN rs,
         KeyFits(assets[i].key, rs[j].target_uri), Fits(rs[j].target_uri, rs[j].feature, rs[j].source_asset_key),
         rs[j].asset_key = DeclaredKey(rs[j].feature, rs[j].source_asset_key)
  PROVE  assets[i].key \in Stale(assets, rs)
<1> DEFINE key == assets[i].key
           res == rs[j]
           l == res.target_uri
<1>1. key \in Keys /\ key \in KeysOf(assets)
  <2>1. assets[i] \in Assets
    OBVIOUS
  <2> QED  BY <2>1 DEF Assets, KeysOf
<1>2. res \in Outcomes
  OBVIOUS
<1>3. res.asset_key \in AssetKeys(rs)
  BY DEF AssetKeys
<1> HIDE DEF key, res, l
<1>4. l \in Locations /\ l[1] \in {"store", "file", "copy"}
  BY <1>2, LocationParts DEF Outcomes, l
<1>5. /\ Fits(l, res.feature, res.source_asset_key) /\ KeyFits(key, l)
      /\ res.asset_key = DeclaredKey(res.feature, res.source_asset_key)
      /\ res.feature \in Conversions
  BY <1>2 DEF key, res, l, Outcomes
<1>6. res.asset_key = Base(l) /\ res.asset_key \in Keys
  BY <1>2, <1>4, <1>5, DeclaredIsBase DEF Outcomes
<1>7. CASE key = Base(l)
  BY <1>1, <1>3, <1>6, <1>7 DEF Stale, key
<1>8. ASSUME NEW i1 \in Nat, key = Numbered(Base(l), i1) PROVE key \in Stale(assets, rs)
  <2>1. key = Numbered(res.asset_key, i1) /\ key[2] # <<>> /\ key[2][Len(key[2])] = i1
    BY <1>6, <1>8, NumberedIs
  <2> QED  BY <1>1, <1>3, <2>1 DEF Stale
<1> QED  BY <1>5, <1>7, <1>8 DEF KeyFits, key

\* What is kept of an Item's assets when the stale ones are deleted.
LEMMA DeletedAssets ==
  ASSUME NEW assets \in Seq(Assets), NEW stale, UniqueKeys(assets)
  PROVE  LET kept == Picked(assets, {i \in DOMAIN assets : assets[i].key \notin stale})
         IN  /\ kept \in Seq(Assets) /\ UniqueKeys(kept) /\ KeysOf(kept) = KeysOf(assets) \ stale
             /\ \A k \in DOMAIN kept : \E i \in DOMAIN assets : kept[k] = assets[i] /\ assets[i].key \notin stale
<1> DEFINE I == {i \in DOMAIN assets : assets[i].key \notin stale}
           kept == Picked(assets, I)
<1>1. \A i \in I : i \in DOMAIN assets /\ assets[i].key \notin stale
  OBVIOUS
<1>2. \A i \in DOMAIN assets : assets[i].key \notin stale => i \in I
  OBVIOUS
<1> HIDE DEF I
<1>3. /\ kept \in Seq(Assets)
      /\ \A k \in DOMAIN kept : Nth(k, I) \in I /\ kept[k] = assets[Nth(k, I)]
      /\ \A k, l \in DOMAIN kept : Nth(k, I) = Nth(l, I) => k = l
      /\ \A i \in I : \E k \in DOMAIN kept : kept[k] = assets[i]
  BY <1>1, PickedEntries
<1> HIDE DEF kept
<1>4. UniqueKeys(kept)
  <2> SUFFICES ASSUME NEW k \in DOMAIN kept, NEW l \in DOMAIN kept, kept[k].key = kept[l].key PROVE k = l
    BY DEF UniqueKeys
  <2>1. Nth(k, I) = Nth(l, I)
    BY <1>1, <1>3 DEF UniqueKeys
  <2> QED  BY <1>3, <2>1
<1>5. \A k \in DOMAIN kept : \E i \in DOMAIN assets : kept[k] = assets[i] /\ assets[i].key \notin stale
  BY <1>1, <1>3
<1>6. KeysOf(kept) = KeysOf(assets) \ stale
  <2>1. ASSUME NEW key \in KeysOf(kept) PROVE key \in KeysOf(assets) \ stale
    <3>1. PICK k \in DOMAIN kept : key = kept[k].key
      BY DEF KeysOf
    <3> QED  BY <1>5, <3>1 DEF KeysOf
  <2>2. ASSUME NEW key \in KeysOf(assets) \ stale PROVE key \in KeysOf(kept)
    <3>1. PICK i \in DOMAIN assets : key = assets[i].key
      BY DEF KeysOf
    <3>2. PICK k \in DOMAIN kept : kept[k] = assets[i]
      BY <1>2, <1>3, <3>1
    <3> QED  BY <3>1, <3>2 DEF KeysOf
  <2> QED  BY <2>1, <2>2
<1> QED  BY <1>3, <1>4, <1>5, <1>6 DEF kept, I

LEMMA StartAddingPreserves ==
  ASSUME Inv, NEW r \in Runs, StartAdding(r)
  PROVE  Preserved(r)
<1> DEFINE rs == results[r]
           old == item[r]
           new == item'[r]
           stale == Stale(old, rs)
<1>1. /\ at[r] = "convert" /\ at' = [at EXCEPT ![r] = "add"]
      /\ UNCHANGED <<documents, objects, request, plans, outputs, results, added, read, alone, delivered>>
      /\ IF request[r].overwrite
         THEN /\ item' = [item EXCEPT ![r] = Picked(old, {i \in DOMAIN old : old[i].key \notin stale})]
              /\ taken' = [taken EXCEPT ![r] = taken[r] \ stale]
         ELSE item' = item /\ taken' = taken
  BY DEF StartAdding, GoTo
<1>2. /\ at \in [Runs -> Stages] /\ item \in [Runs -> Seq(Assets)] /\ taken \in [Runs -> SUBSET Keys]
      /\ rs \in Seq(Outcomes) /\ old \in Seq(Assets) /\ taken[r] \in SUBSET Keys
  BY DEF Inv, Types
<1>3. /\ RunInv(r) /\ added[r] = 0 /\ old = read[r] /\ UniqueKeys(old) /\ taken[r] = KeysOf(old) /\ Sound(old)
      /\ r \in Active
  BY <1>1 DEF Inv, RunInv, StageInv, ItemInv, Adding, Sound, Active
<1> HIDE DEF stale
<1>4. /\ at' \in [Runs -> Stages] /\ at'[r] = "add" /\ \A s \in Runs \ {r} : at'[s] = at[s]
  BY <1>1, <1>2 DEF Stages
<1>5. /\ item' \in [Runs -> Seq(Assets)] /\ taken' \in [Runs -> SUBSET Keys]
      /\ \A s \in Runs \ {r} : item'[s] = item[s] /\ taken'[s] = taken[s]
      /\ UniqueKeys(new) /\ taken'[r] = KeysOf(new)
      /\ request[r].overwrite =>
           \A k \in DOMAIN new : \E i \in DOMAIN old : new[k] = old[i] /\ old[i].key \notin stale
      /\ ~request[r].overwrite => new = old
  <2>1. CASE request[r].overwrite
    <3> DEFINE kept == Picked(old, {i \in DOMAIN old : old[i].key \notin stale})
    <3>1. /\ kept \in Seq(Assets) /\ UniqueKeys(kept) /\ KeysOf(kept) = KeysOf(old) \ stale
          /\ \A k \in DOMAIN kept : \E i \in DOMAIN old : kept[k] = old[i] /\ old[i].key \notin stale
      BY <1>2, <1>3, DeletedAssets
    <3>2. item' = [item EXCEPT ![r] = kept] /\ taken' = [taken EXCEPT ![r] = taken[r] \ stale]
      BY <1>1, <2>1
    <3> HIDE DEF kept, old
    <3>3. item' \in [Runs -> Seq(Assets)] /\ item'[r] = kept /\ \A s \in Runs \ {r} : item'[s] = item[s]
      BY <1>2, <3>1, <3>2
    <3>4. /\ taken' \in [Runs -> SUBSET Keys] /\ taken'[r] = taken[r] \ stale
          /\ \A s \in Runs \ {r} : taken'[s] = taken[s]
      BY <1>2, <3>2
    <3> QED  BY <1>3, <2>1, <3>1, <3>3, <3>4
  <2>2. CASE ~request[r].overwrite
    BY <1>1, <1>2, <1>3, <2>2
  <2> QED  BY <2>1, <2>2
<1>6. /\ documents' = documents /\ objects' = objects /\ request' = request /\ plans' = plans
      /\ outputs' = outputs /\ results' = results /\ added' = added /\ read' = read /\ alone' = alone
      /\ delivered' = delivered
  BY <1>1
<1>7. OwnStep(r)
  BY <1>3, <1>4, <1>5, <1>6 DEF OwnStep
<1>8. StageInv(r)'
  BY <1>3, <1>4, <1>6 DEF RunInv, StageInv, Adding, Delivering
<1>9. \A k \in DOMAIN new : \E i \in DOMAIN old : new[k] = old[i]
  BY <1>5
<1>10. ItemInv(r)'
  <2>1. \A k \in DOMAIN new : /\ new[k].href \in Sources \cup delivered
                              /\ new[k].href \in Locations => KeyFits(new[k].key, new[k].href)
    BY <1>3, <1>9 DEF Sound
  <2> QED  BY <1>3, <1>5, <1>6, <2>1 DEF ItemInv, Sound, UniqueKeys
<1>11. PlansInv(r)'
  BY <1>3, <1>6 DEF RunInv, PlansInv
<1>12. \A j \in DOMAIN results'[r] : ResultInv(r, j)'
  BY <1>3, <1>6 DEF RunInv, ResultInv, Repoints
<1>13. KeepInv(r)'
  <2> SUFFICES ASSUME ~request[r].overwrite PROVE KeepInv(r)'
    BY <1>6 DEF KeepInv
  <2>1. new = read[r] /\ Len(new) \in Nat
    BY <1>2, <1>3, <1>5
  <2>2. {j \in 1 .. added[r] : ~Repoints(rs[j])} = {}
    BY <1>3
  <2>3. Cardinality({j \in 1 .. added[r] : ~Repoints(rs[j])}) = 0
    BY <2>2, FS_EmptySet
  <2>4. \A j \in 1 .. added[r] : FALSE
    BY <1>3
  <2>5. \A i \in DOMAIN read[r] : read[r][i].key \in KeysOf(new) /\ In(read[r][i], new)
    BY <2>1 DEF KeysOf, In
  <2>6. Len(new) = Len(read[r]) + Cardinality({j \in 1 .. added[r] : ~Repoints(rs[j])})
    BY <2>1, <2>3
  <2> QED  BY <1>6, <2>4, <2>5, <2>6 DEF KeepInv, Repoints
<1>14. ReplaceInv(r)'
  <2> SUFFICES ASSUME request[r].overwrite,
                      NEW j \in DOMAIN rs, NEW k \in DOMAIN new, new[k].href = rs[j].target_uri
               PROVE  FALSE
    BY <1>6 DEF ReplaceInv
  <2>1. PICK i \in DOMAIN old : new[k] = old[i] /\ old[i].key \notin stale
    BY <1>5
  <2>2. rs[j].target_uri \in Locations
    <3>1. rs[j] \in Outcomes
      BY <1>2
    <3> QED  BY <3>1 DEF Outcomes
  <2>3. KeyFits(old[i].key, rs[j].target_uri)
    BY <1>3, <2>1, <2>2 DEF Sound
  <2>4. j > added[r]
    BY <1>2, <1>3
  <2>5. /\ Fits(rs[j].target_uri, rs[j].feature, rs[j].source_asset_key)
        /\ rs[j].asset_key = DeclaredKey(rs[j].feature, rs[j].source_asset_key)
    BY <1>3, <2>4 DEF RunInv, ResultInv, Repoints
  <2>6. old[i].key \in stale
    BY <1>2, <2>3, <2>5, StaleIfSame DEF stale
  <2> QED  BY <2>1, <2>6
<1>15. AloneInv(r)'
  <2> SUFFICES ASSUME alone'[r] PROVE AloneInv(r)'
    BY DEF AloneInv
  <2>1. Active = {r} /\ \A j \in DOMAIN results[r] : Intact(r, j)
    BY <1>3, <1>6 DEF RunInv, AloneInv
  <2>2. r \in Active' => Active' = {r}
    BY <1>3, <1>7, <2>1, StillAlone
  <2>3. \A j \in DOMAIN results[r] : Intact(r, j)'
    BY <1>1, <1>6, <2>1 DEF Intact, Exists, Object
  <2> QED  BY <1>4, <1>6, <2>2, <2>3 DEF AloneInv
<1>16. Types'
  BY <1>4, <1>5, <1>6 DEF Inv, Types
<1>17. DocumentsInv'
  BY <1>6, DocumentsGrow DEF Inv
<1> QED  BY <1>7, <1>8, <1>10, <1>11, <1>12, <1>13, <1>14, <1>15, <1>16, <1>17 DEF Preserved, RunInv

-----------------------------------------------------------------------------
(* One result is added to the Item                                         *)

\* What one turn of the loop does: the result at hand, the key it gets, the Item's
\* assets before and after.
AddStep(r, res, key, old, new) ==
  LET n == added[r] + 1
      rs == results[r]
  IN  /\ n \in DOMAIN rs /\ n \in Nat /\ res = rs[n] /\ res \in Outcomes /\ key \in Keys
      /\ old = item[r] /\ old \in Seq(Assets) /\ new = Assign(old, key, res.target_uri)
      /\ (key = res.asset_key \/ \E i \in Nat : key = Numbered(res.asset_key, i)) /\ (key \in taken[r] => key = res.asset_key /\ key = res.source_asset_key)
      /\ (res.asset_key = res.source_asset_key => key = res.asset_key)
      /\ DOMAIN results'[r] = DOMAIN rs /\ Len(results'[r]) = Len(rs)
      /\ \A j \in DOMAIN rs :
           /\ results'[r][j].target_uri = rs[j].target_uri /\ results'[r][j].source = rs[j].source
           /\ results'[r][j].feature = rs[j].feature
           /\ results'[r][j].source_asset_key = rs[j].source_asset_key
           /\ j # n => results'[r][j] = rs[j]
      /\ results'[r][n].asset_key = key
      /\ item'[r] = new /\ taken'[r] = taken[r] \cup {key} /\ added'[r] = n
      /\ at'[r] = "add" /\ at[r] = "add" /\ read' = read /\ request' = request /\ plans' = plans
      /\ outputs' = outputs /\ objects' = objects /\ documents' = documents /\ alone' = alone
      /\ delivered' = delivered

LEMMA RekeyedIs ==
  ASSUME NEW res \in Outcomes, NEW key \in Keys
  PROVE  LET new == Rekeyed(res, key)
         IN  /\ new \in Outcomes /\ new.asset_key = key /\ new.target_uri = res.target_uri
             /\ new.source = res.source /\ new.feature = res.feature
             /\ new.source_asset_key = res.source_asset_key
BY DEF Rekeyed, Outcomes

LEMMA AddIs ==
  ASSUME Inv, NEW r \in Runs, Add(r)
  PROVE  /\ \E res, key, old, new : AddStep(r, res, key, old, new)
         /\ OwnStep(r) /\ r \in Active /\ Types'
<1> DEFINE rs == results[r]
           n == added[r] + 1
           res == rs[n]
           key == UniqueKey(res.asset_key, res.source_asset_key, taken[r])
           old == item[r]
           new == Assign(old, key, res.target_uri)
           res1 == Rekeyed(res, key)
           rs1 == [rs EXCEPT ![n] = res1]
<1>1. /\ at[r] = "add" /\ added[r] < Len(rs)
      /\ results' = [results EXCEPT ![r] = rs1] /\ taken' = [taken EXCEPT ![r] = taken[r] \cup {key}]
      /\ item' = [item EXCEPT ![r] = new] /\ added' = [added EXCEPT ![r] = n]
      /\ UNCHANGED <<documents, objects, request, at, plans, outputs, read, alone, delivered>>
  BY DEF Add
<1>2. /\ results \in [Runs -> Seq(Outcomes)] /\ taken \in [Runs -> SUBSET Keys] /\ item \in [Runs -> Seq(Assets)]
      /\ added \in [Runs -> Nat]
  BY DEF Inv, Types
<1>3. rs \in Seq(Outcomes) /\ old \in Seq(Assets) /\ taken[r] \in SUBSET Keys /\ added[r] \in Nat
  BY <1>2
<1>4. n \in Nat /\ n \in DOMAIN rs
  BY <1>1, <1>3
<1> HIDE DEF n
<1>5. res \in Outcomes
  BY <1>3, <1>4
<1>6. taken[r] = KeysOf(old) /\ IsFiniteSet(taken[r])
  BY <1>3, KeysAreFinite DEF Inv, RunInv, ItemInv
<1>7. /\ res.asset_key \in Keys /\ res.target_uri \in Locations
  BY <1>5 DEF Outcomes
<1> HIDE DEF res
<1>8. /\ key \in Keys /\ (key = res.asset_key \/ \E i \in Nat : key = Numbered(res.asset_key, i))
      /\ key \in taken[r] => key = res.asset_key /\ key = res.source_asset_key
      /\ res.asset_key = res.source_asset_key => key = res.asset_key
  BY <1>6, <1>7, UniqueKeyIsFree
<1> HIDE DEF key
<1>9. new \in Seq(Assets)
  BY <1>3, <1>7, <1>8, AssignEntries
<1>10. /\ res1 \in Outcomes /\ res1.asset_key = key /\ res1.target_uri = res.target_uri
       /\ res1.source = res.source /\ res1.feature = res.feature
       /\ res1.source_asset_key = res.source_asset_key
  BY <1>5, <1>8, RekeyedIs
<1> HIDE DEF new, res1, old, rs
<1>11. /\ rs1 \in Seq(Outcomes) /\ DOMAIN rs1 = DOMAIN rs /\ Len(rs1) = Len(rs) /\ rs1[n] = res1
       /\ \A j \in DOMAIN rs : j # n => rs1[j] = rs[j]
  BY <1>3, <1>4, <1>10
<1> HIDE DEF rs1
<1>12. /\ results' \in [Runs -> Seq(Outcomes)] /\ results'[r] = rs1
       /\ \A s \in Runs \ {r} : results'[s] = results[s]
  BY <1>1, <1>2, <1>11
<1>13. /\ taken' \in [Runs -> SUBSET Keys] /\ taken'[r] = taken[r] \cup {key}
       /\ \A s \in Runs \ {r} : taken'[s] = taken[s]
  BY <1>1, <1>2, <1>3, <1>8
<1>14. /\ item' \in [Runs -> Seq(Assets)] /\ item'[r] = new
       /\ \A s \in Runs \ {r} : item'[s] = item[s]
  BY <1>1, <1>2, <1>9
<1>15. /\ added' \in [Runs -> Nat] /\ added'[r] = n /\ \A s \in Runs \ {r} : added'[s] = added[s]
  BY <1>1, <1>2, <1>4
<1>16. r \in Active
  BY <1>1 DEF Active
<1>17. OwnStep(r)
  BY <1>1, <1>12, <1>13, <1>14, <1>15, <1>16 DEF OwnStep
<1>18. Types'
  BY <1>1, <1>12, <1>13, <1>14, <1>15 DEF Inv, Types
<1>19. \A j \in DOMAIN rs :
         /\ rs1[j].target_uri = rs[j].target_uri /\ rs1[j].source = rs[j].source
         /\ rs1[j].feature = rs[j].feature /\ rs1[j].source_asset_key = rs[j].source_asset_key
         /\ j # n => rs1[j] = rs[j]
  BY <1>10, <1>11 DEF res
<1>20. AddStep(r, res, key, old, new)
  <2>1. n = added[r] + 1 /\ rs = results[r] /\ res = rs[n] /\ old = item[r] /\ new = Assign(old, key, res.target_uri)
    BY DEF n, rs, res, old, new
  <2> QED  BY <1>1, <1>3, <1>4, <1>5, <1>8, <1>10, <1>11, <1>12, <1>13, <1>14, <1>15, <1>19, <2>1 DEF AddStep
<1> QED  BY <1>16, <1>17, <1>18, <1>20

\* What the turn does to the Item's assets.
LEMMA AddedAssets ==
  ASSUME Inv, NEW r \in Runs, NEW res, NEW key, NEW old, NEW new, AddStep(r, res, key, old, new)
  PROVE  /\ new \in Seq(Assets) /\ KeysOf(new) = KeysOf(old) \cup {key}
         /\ \A i \in DOMAIN new : \/ new[i] = Entry(key, res.target_uri)
                                  \/ i \in DOMAIN old /\ new[i] = old[i]
         /\ \A i \in DOMAIN old : i \in DOMAIN new /\ (old[i].key # key => new[i] = old[i])
         /\ \E i \in DOMAIN new : new[i] = Entry(key, res.target_uri)
         /\ Len(new) = IF key \in KeysOf(old) THEN Len(old) ELSE Len(old) + 1
         /\ Sound(old) /\ UniqueKeys(new) /\ taken[r] = KeysOf(old) /\ Len(old) \in Nat
<1>1. /\ old = item[r] /\ old \in Seq(Assets) /\ new = Assign(old, key, res.target_uri)
      /\ key \in Keys /\ res \in Outcomes
  BY DEF AddStep
<1>2. res.target_uri \in Sources \cup Locations
  BY <1>1 DEF Outcomes
<1>3. Sound(old) /\ taken[r] = KeysOf(old)
  BY <1>1 DEF Inv, RunInv, ItemInv
<1>4. Len(old) \in Nat
  BY <1>1
<1> QED  BY <1>1, <1>2, <1>3, <1>4, AssignEntries DEF Sound

\* What is known of the result at hand.
LEMMA AddedResult ==
  ASSUME Inv, NEW r \in Runs, NEW res, NEW key, NEW old, NEW new, AddStep(r, res, key, old, new)
  PROVE  /\ res.target_uri \in delivered /\ res.target_uri \in Locations
         /\ Fits(res.target_uri, res.feature, res.source_asset_key)
         /\ res.asset_key = DeclaredKey(res.feature, res.source_asset_key)
         /\ KeyFits(key, res.target_uri)
         /\ Repoints(res) => key = res.source_asset_key /\ key = res.asset_key
<1>1. /\ added[r] + 1 \in DOMAIN results[r] /\ added[r] + 1 \in Nat /\ res = results[r][added[r] + 1]
      /\ res \in Outcomes
      /\ key = res.asset_key \/ \E i \in Nat : key = Numbered(res.asset_key, i)
      /\ res.asset_key = res.source_asset_key => key = res.asset_key
  BY DEF AddStep
<1>2. ResultInv(r, added[r] + 1) /\ added[r] \in Nat
  BY <1>1 DEF Inv, RunInv, Types
<1>3. added[r] + 1 > added[r]
  BY <1>2
<1>4. /\ res.target_uri \in delivered /\ Fits(res.target_uri, res.feature, res.source_asset_key)
      /\ KeyFits(res.asset_key, res.target_uri)
      /\ res.asset_key = DeclaredKey(res.feature, res.source_asset_key)
  BY <1>1, <1>2, <1>3 DEF ResultInv
<1>5. /\ res.target_uri \in Locations /\ res.feature \in Conversions /\ res.source_asset_key \in Keys
  BY <1>1 DEF Outcomes
<1>6. Repoints(res) => key = res.source_asset_key /\ key = res.asset_key
  BY <1>1, <1>4 DEF DeclaredKey, Repoints
<1>7. res.asset_key = Base(res.target_uri)
  BY <1>4, <1>5, DeclaredIsBase
<1>8. KeyFits(key, res.target_uri)
  BY <1>1, <1>7 DEF KeyFits
<1> QED  BY <1>4, <1>5, <1>6, <1>8

LEMMA AddKeepsItemSound ==
  ASSUME Inv, NEW r \in Runs, NEW res, NEW key, NEW old, NEW new, AddStep(r, res, key, old, new)
  PROVE  StageInv(r)' /\ ItemInv(r)' /\ PlansInv(r)' /\ \A j \in DOMAIN results'[r] : ResultInv(r, j)'
<1> DEFINE n == added[r] + 1
           rs == results[r]
           rs1 == results'[r]
<1>1. /\ n \in DOMAIN rs /\ n \in Nat /\ DOMAIN rs1 = DOMAIN rs /\ Len(rs1) = Len(rs) /\ res = rs[n]
      /\ \A j \in DOMAIN rs :
           /\ rs1[j].target_uri = rs[j].target_uri /\ rs1[j].source = rs[j].source
           /\ rs1[j].feature = rs[j].feature /\ rs1[j].source_asset_key = rs[j].source_asset_key
           /\ j # n => rs1[j] = rs[j]
      /\ rs1[n].asset_key = key
  BY DEF AddStep
<1>2. /\ item'[r] = new /\ taken'[r] = taken[r] \cup {key} /\ added'[r] = n
      /\ at'[r] = "add" /\ at[r] = "add" /\ read' = read /\ request' = request /\ plans' = plans
      /\ delivered' = delivered
  BY DEF AddStep
<1>3. RunInv(r) /\ rs \in Seq(Outcomes)
  BY DEF Inv, Types
<1>4. /\ new \in Seq(Assets) /\ KeysOf(new) = KeysOf(old) \cup {key}
      /\ \A i \in DOMAIN new : \/ new[i] = Entry(key, res.target_uri)
                               \/ i \in DOMAIN old /\ new[i] = old[i]
      /\ Sound(old) /\ UniqueKeys(new) /\ taken[r] = KeysOf(old)
  BY AddedAssets
<1>5. /\ res.target_uri \in delivered /\ res.target_uri \in Locations
      /\ Fits(res.target_uri, res.feature, res.source_asset_key)
      /\ res.asset_key = DeclaredKey(res.feature, res.source_asset_key)
      /\ KeyFits(key, res.target_uri)
      /\ Repoints(res) => key = res.source_asset_key /\ key = res.asset_key
  BY AddedResult
<1>6. n <= Len(rs1)
  BY <1>1, <1>3
<1>7. \A j \in DOMAIN rs : j \in Nat /\ (j > n => j > added[r])
  <2>1. added[r] \in Nat
    BY DEF Inv, Types
  <2> QED  BY <1>3, <2>1
<1>8. ~(n > n)
  BY <1>1
<1> HIDE DEF n, rs, rs1
<1>9. StageInv(r)'
  BY <1>2, <1>6 DEF StageInv, Adding, Delivering, rs1
<1>10. ItemInv(r)'
  <2>1. \A i \in DOMAIN new : /\ new[i].href \in Sources \cup delivered
                              /\ new[i].href \in Locations => KeyFits(new[i].key, new[i].href)
    BY <1>4, <1>5 DEF Sound, Entry
  <2>2. UniqueKeys(read[r])
    BY <1>3 DEF RunInv, ItemInv
  <2> QED  BY <1>2, <1>4, <2>1, <2>2 DEF ItemInv, Sound, UniqueKeys
<1>11. PlansInv(r)'
  BY <1>1, <1>2, <1>3 DEF RunInv, PlansInv, rs, rs1
<1>12. ASSUME NEW j \in DOMAIN results'[r] PROVE ResultInv(r, j)'
  <2>1. j \in DOMAIN rs
    BY <1>1 DEF rs1
  <2>2. CASE j = n
    BY <1>1, <1>2, <1>5, <1>8, <2>1, <2>2 DEF ResultInv, Repoints, rs1
  <2>3. CASE j # n
    <3>1. rs1[j] = rs[j] /\ ResultInv(r, j)
      BY <1>1, <1>3, <2>1, <2>3 DEF RunInv, rs
    <3> QED  BY <1>2, <1>7, <2>1, <3>1 DEF ResultInv, Repoints, rs, rs1
  <2> QED  BY <2>2, <2>3
<1> QED  BY <1>9, <1>10, <1>11, <1>12

LEMMA AddReplaces ==
  ASSUME Inv, NEW r \in Runs, NEW res, NEW key, NEW old, NEW new, AddStep(r, res, key, old, new)
  PROVE  ReplaceInv(r)'
<1> DEFINE n == added[r] + 1
           rs == results[r]
           rs1 == results'[r]
<1>1. /\ n \in DOMAIN rs /\ n \in Nat /\ DOMAIN rs1 = DOMAIN rs /\ res = rs[n]
      /\ \A j \in DOMAIN rs : rs1[j].target_uri = rs[j].target_uri
      /\ item'[r] = new /\ old = item[r] /\ added'[r] = n /\ at[r] = "add" /\ request' = request
  BY DEF AddStep
<1>2. /\ \A i \in DOMAIN new : \/ new[i] = Entry(key, res.target_uri)
                               \/ i \in DOMAIN old /\ new[i] = old[i]
      /\ UniqueKeys(new)
  BY AddedAssets
<1>3. \A j \in DOMAIN rs : j \in Nat /\ (j > n => j > added[r] /\ j # n) /\ n > added[r]
  <2>1. rs \in Seq(Outcomes) /\ added[r] \in Nat
    BY DEF Inv, Types
  <2> QED  BY <2>1
<1> HIDE DEF n, rs, rs1
<1> SUFFICES ASSUME request[r].overwrite, Apart(r)',
                    NEW j \in DOMAIN rs
             PROVE  /\ j > n => \A i \in DOMAIN new : new[i].href # rs[j].target_uri
                    /\ \A i, k \in DOMAIN new :
                         new[i].href = rs[j].target_uri /\ new[k].href = rs[j].target_uri => i = k
  BY <1>1 DEF ReplaceInv, rs1
<1>4. \A i, k \in DOMAIN rs : rs[i].target_uri = rs[k].target_uri => i = k
  BY <1>1 DEF Apart, rs1
<1>5. /\ j > added[r] => \A i \in DOMAIN old : old[i].href # rs[j].target_uri
      /\ \A i, k \in DOMAIN old :
           old[i].href = rs[j].target_uri /\ old[k].href = rs[j].target_uri => i = k
  <2>1. Apart(r)
    BY <1>4 DEF Apart, rs
  <2>2. ReplaceInv(r)
    BY DEF Inv, RunInv
  <2> QED  BY <1>1, <2>1, <2>2 DEF ReplaceInv, Adding, rs
<1>6. CASE j = n
  <2>1. \A i \in DOMAIN new : new[i].href = res.target_uri => new[i] = Entry(key, res.target_uri)
    BY <1>1, <1>2, <1>3, <1>5, <1>6
  <2>2. \A i \in DOMAIN new : new[i].href = res.target_uri => new[i].key = key
    BY <2>1 DEF Entry
  <2>3. \A i, k \in DOMAIN new : new[i].href = res.target_uri /\ new[k].href = res.target_uri => i = k
    BY <1>2, <2>2 DEF UniqueKeys
  <2>4. ~(j > n)
    BY <1>1, <1>6
  <2> QED  BY <1>1, <1>6, <2>3, <2>4
<1>7. CASE j # n
  <2>1. res.target_uri # rs[j].target_uri
    BY <1>1, <1>4, <1>7
  <2>2. \A i \in DOMAIN new : new[i].href = rs[j].target_uri => i \in DOMAIN old /\ new[i] = old[i]
    BY <1>2, <2>1 DEF Entry
  <2> QED  BY <1>3, <1>5, <2>2
<1> QED  BY <1>6, <1>7

LEMMA AddKeeps ==
  ASSUME Inv, NEW r \in Runs, NEW res, NEW key, NEW old, NEW new, AddStep(r, res, key, old, new)
  PROVE  KeepInv(r)'
<1> DEFINE n == added[r] + 1
           rs == results[r]
           rs1 == results'[r]
           was == read[r]
<1>1. /\ n \in DOMAIN rs /\ n \in Nat /\ DOMAIN rs1 = DOMAIN rs /\ res = rs[n]
      /\ \A j \in DOMAIN rs :
           /\ rs1[j].target_uri = rs[j].target_uri
           /\ rs1[j].feature = rs[j].feature /\ rs1[j].source_asset_key = rs[j].source_asset_key
           /\ j # n => rs1[j] = rs[j]
      /\ rs1[n].asset_key = key
      /\ item'[r] = new /\ old = item[r] /\ added'[r] = n /\ at[r] = "add" /\ request' = request /\ read' = read
      /\ key \in taken[r] => key = res.asset_key /\ key = res.source_asset_key
  BY DEF AddStep
<1>2. /\ KeysOf(new) = KeysOf(old) \cup {key} /\ taken[r] = KeysOf(old) /\ Len(old) \in Nat
      /\ \A i \in DOMAIN old : i \in DOMAIN new /\ (old[i].key # key => new[i] = old[i])
      /\ \E i \in DOMAIN new : new[i] = Entry(key, res.target_uri)
      /\ Len(new) = IF key \in KeysOf(old) THEN Len(old) ELSE Len(old) + 1
  BY AddedAssets
<1>3. /\ res.asset_key = DeclaredKey(res.feature, res.source_asset_key)
      /\ Repoints(res) => key = res.source_asset_key /\ key = res.asset_key
  BY AddedResult
<1>4. /\ added[r] \in Nat /\ n > 0 /\ n - 1 = added[r]
      /\ \A j \in 1 .. n : j \in 1 .. added[r] \/ j = n
      /\ \A j \in 1 .. added[r] : j \in 1 .. n /\ j # n
      /\ \A j \in 1 .. n : j \in DOMAIN rs
  <2>1. rs \in Seq(Outcomes) /\ added[r] \in Nat
    BY DEF Inv, Types
  <2> QED  BY <1>1, <2>1
<1>5. RunInv(r)
  BY DEF Inv
<1> HIDE DEF n, rs, rs1, was
<1> SUFFICES ASSUME ~request[r].overwrite, NoNamesake(r)'
             PROVE  /\ \A i \in DOMAIN was :
                         /\ was[i].key \in KeysOf(new)
                         /\ \/ In(was[i], new)
                            \/ \E j \in 1 .. n : Repoints(rs1[j]) /\ rs1[j].asset_key = was[i].key
                    /\ \A j \in 1 .. n :
                         /\ In(Entry(rs1[j].asset_key, rs1[j].target_uri), new)
                         /\ ~Repoints(rs1[j]) => rs1[j].asset_key \notin KeysOf(was)
                    /\ Len(new) = Len(was) + Cardinality({j \in 1 .. n : ~Repoints(rs1[j])})
  BY <1>1 DEF KeepInv, Entry, Repoints, rs1, was
<1>6. \A j \in DOMAIN rs : \/ rs[j].feature = "upload"
                           \/ rs[j].source_asset_key # <<Format(rs[j].feature), <<>>>>
  BY <1>1 DEF NoNamesake, rs1
<1>7. /\ \A i \in DOMAIN was :
           /\ was[i].key \in KeysOf(old)
           /\ \/ In(was[i], old)
              \/ \E j \in 1 .. added[r] : Repoints(rs[j]) /\ rs[j].asset_key = was[i].key
      /\ \A j \in 1 .. added[r] :
           /\ In(Entry(rs[j].asset_key, rs[j].target_uri), old)
           /\ ~Repoints(rs[j]) => rs[j].asset_key \notin KeysOf(was)
      /\ Len(old) = Len(was) + Cardinality({j \in 1 .. added[r] : ~Repoints(rs[j])})
  <2>1. NoNamesake(r)
    BY <1>6 DEF NoNamesake, rs
  <2> QED  BY <1>1, <1>5, <2>1 DEF RunInv, KeepInv, Adding, Entry, rs, was
<1>8. \A k \in KeysOf(was) : k \in KeysOf(old)
  BY <1>7 DEF KeysOf
<1>9. Repoints(res) => key \in KeysOf(was) /\ key \in KeysOf(old)
  BY <1>1, <1>3, <1>5, <1>8 DEF RunInv, PlansInv, Repoints, rs, was
<1>10. ~Repoints(res) => key \notin KeysOf(old)
  BY <1>1, <1>2, <1>3, <1>6 DEF DeclaredKey, Repoints
\* What is in the Item stays there, but for an asset with this key.
<1>11. ASSUME NEW e, In(e, old), e.key # key PROVE In(e, new)
  BY <1>2, <1>11 DEF In
<1>12. /\ \A j \in 1 .. added[r] : rs1[j] = rs[j] /\ j \in DOMAIN rs
       /\ Repoints(rs1[n]) <=> Repoints(res)
  BY <1>1, <1>4 DEF Repoints
<1>13. In(Entry(key, res.target_uri), new)
  BY <1>2 DEF In
<1>14. ASSUME NEW i \in DOMAIN was
       PROVE  /\ was[i].key \in KeysOf(new)
              /\ \/ In(was[i], new)
                 \/ \E j \in 1 .. n : Repoints(rs1[j]) /\ rs1[j].asset_key = was[i].key
  <2>1. was[i].key \in KeysOf(new)
    BY <1>2, <1>7
  <2>2. CASE \E j \in 1 .. added[r] : Repoints(rs[j]) /\ rs[j].asset_key = was[i].key
    BY <1>4, <1>12, <2>1, <2>2
  <2>3. CASE In(was[i], old) /\ was[i].key # key
    BY <1>11, <2>1, <2>3
  <2>4. CASE was[i].key = key
    <3>1. Repoints(res)
      BY <1>7, <1>10, <2>4
    <3>2. n \in 1 .. n /\ Repoints(rs1[n]) /\ rs1[n].asset_key = was[i].key
      BY <1>1, <1>4, <1>12, <2>4, <3>1
    <3> QED  BY <2>1, <3>2
  <2> QED  BY <1>7, <2>2, <2>3, <2>4
<1>15. ASSUME NEW j \in 1 .. n
       PROVE  /\ In(Entry(rs1[j].asset_key, rs1[j].target_uri), new)
              /\ ~Repoints(rs1[j]) => rs1[j].asset_key \notin KeysOf(was)
  <2>1. CASE j = n
    <3>1. /\ rs1[j].asset_key = key /\ rs1[j].target_uri = res.target_uri
          /\ Repoints(rs1[j]) <=> Repoints(res)
      BY <1>1, <1>12, <2>1
    <3> QED  BY <1>8, <1>10, <1>13, <3>1
  <2>2. CASE j \in 1 .. added[r]
    <3>1. /\ rs1[j] = rs[j] /\ j \in DOMAIN rs /\ j # n
          /\ In(Entry(rs[j].asset_key, rs[j].target_uri), old)
          /\ ~Repoints(rs[j]) => rs[j].asset_key \notin KeysOf(was)
      BY <1>4, <1>7, <1>12, <2>2
    <3>2. rs[j].asset_key # key
      <4>1. CASE ~Repoints(res)
        <5>1. rs[j].asset_key \in KeysOf(old)
          BY <3>1 DEF In, Entry, KeysOf
        <5> QED  BY <1>10, <4>1, <5>1
      <4>2. CASE Repoints(res) /\ ~Repoints(rs[j])
        BY <1>9, <3>1, <4>2
      <4>3. CASE Repoints(res) /\ Repoints(rs[j])
        <5>1. rs[j].source_asset_key # res.source_asset_key
          BY <1>1, <1>5, <3>1, <4>3 DEF RunInv, PlansInv, Repoints, rs
        <5>2. rs[j].asset_key = rs[j].source_asset_key
          BY <1>5, <3>1, <4>3 DEF RunInv, ResultInv, DeclaredKey, Repoints, rs
        <5> QED  BY <1>3, <4>3, <5>1, <5>2
      <4> QED  BY <4>1, <4>2, <4>3
    <3>3. In(Entry(rs[j].asset_key, rs[j].target_uri), new)
      BY <1>11, <3>1, <3>2 DEF Entry
    <3> QED  BY <3>1, <3>3
  <2> QED  BY <1>4, <2>1, <2>2
<1>16. Len(new) = Len(was) + Cardinality({j \in 1 .. n : ~Repoints(rs1[j])})
  <2> DEFINE A == {j \in 1 .. added[r] : ~Repoints(rs[j])}
             B == {j \in 1 .. n : ~Repoints(rs1[j])}
  <2>1. /\ Repoints(res) => B = A
        /\ ~Repoints(res) => B = A \cup {n}
    BY <1>1, <1>4, <1>12
  <2>2. n \notin A
    BY <1>4
  <2>3. IsFiniteSet(A)
    <3>1. IsFiniteSet(1 .. added[r])
      BY <1>4, FS_Interval
    <3>2. A \in SUBSET (1 .. added[r])
      OBVIOUS
    <3> HIDE DEF A
    <3> QED  BY <3>1, <3>2, FS_Subset
  <2>4. Len(old) = Len(was) + Cardinality(A)
    BY <1>7
  <2> HIDE DEF A, B
  <2>5. Cardinality(A) \in Nat /\ Cardinality(A \cup {n}) = Cardinality(A) + 1
    BY <2>2, <2>3, FS_AddElement, FS_CardinalityType
  <2>6. Len(new) = IF Repoints(res) THEN Len(old) ELSE Len(old) + 1
    BY <1>2, <1>9, <1>10
  <2>7. Len(was) \in Nat
    BY DEF Inv, Types, was
  <2>8. Len(new) = Len(was) + Cardinality(B)
    <3>1. Cardinality(B) = IF Repoints(res) THEN Cardinality(A) ELSE Cardinality(A) + 1
      BY <2>1, <2>5
    <3> QED  BY <2>4, <2>5, <2>6, <2>7, <3>1
  <2> QED  BY <2>8 DEF B
<1> QED  BY <1>14, <1>15, <1>16

LEMMA AddPreserves ==
  ASSUME Inv, NEW r \in Runs, Add(r)
  PROVE  Preserved(r)
<1>1. PICK res, key, old, new : AddStep(r, res, key, old, new)
  BY AddIs
<1>2. OwnStep(r) /\ r \in Active /\ Types'
  BY AddIs
<1>3. /\ StageInv(r)' /\ ItemInv(r)' /\ PlansInv(r)' /\ (\A j \in DOMAIN results'[r] : ResultInv(r, j)')
      /\ ReplaceInv(r)' /\ KeepInv(r)'
  BY <1>1, AddKeepsItemSound, AddReplaces, AddKeeps
<1>4. /\ DOMAIN results'[r] = DOMAIN results[r]
      /\ \A j \in DOMAIN results[r] : /\ results'[r][j].target_uri = results[r][j].target_uri
                                      /\ results'[r][j].source = results[r][j].source
      /\ at'[r] = "add" /\ at[r] = "add" /\ objects' = objects /\ documents' = documents
      /\ alone' = alone /\ delivered' = delivered
  BY <1>1 DEF AddStep
<1>5. AloneInv(r)'
  <2> SUFFICES ASSUME alone'[r] PROVE AloneInv(r)'
    BY DEF AloneInv
  <2>1. Active = {r} /\ \A j \in DOMAIN results[r] : Intact(r, j)
    BY <1>2, <1>4 DEF Inv, RunInv, AloneInv
  <2>2. r \in Active' => Active' = {r}
    BY <1>2, <2>1, StillAlone
  <2>3. \A j \in DOMAIN results'[r] : Intact(r, j)'
    BY <1>4, <2>1 DEF Intact, Exists, Object
  <2> QED  BY <1>4, <2>2, <2>3 DEF AloneInv
<1>6. DocumentsInv'
  BY <1>4, DocumentsGrow DEF Inv
<1> QED  BY <1>2, <1>3, <1>5, <1>6 DEF Preserved, RunInv

-----------------------------------------------------------------------------
(* The invariant                                                           *)

\* An Item as it is at first names sources only, each asset once.
LEMMA FirstItems ==
  ASSUME NEW f \in Items, NEW u \in Uris, f[u] # None
  PROVE  f[u] \in Seq(Assets) /\ Sound(f[u])
<1> DEFINE Plain == [key : Keys, href : Sources]
           s == f[u]
<1>1. Items \subseteq [Uris -> Seq(Plain) \cup {None}]
  BY ConstantsAssumption
<1>2. s \in Seq(Plain) /\ UniqueKeys(s)
  <2>1. s \in Seq(Plain)
    <3> HIDE DEF Plain
    <3> QED  BY <1>1
  <2>2. \A i, j \in DOMAIN f[u] : f[u][i].key = f[u][j].key => i = j
    BY ConstantsAssumption
  <2> QED  BY <2>1, <2>2 DEF UniqueKeys
<1> HIDE DEF s
<1>3. \A i \in DOMAIN s : s[i] \in Plain
  <2> HIDE DEF Plain
  <2> QED  BY <1>2
<1>4. \A i \in DOMAIN s : s[i] \in Assets /\ s[i].href \in Sources
  BY <1>3 DEF Assets
<1>5. s \in Seq(Assets)
  <2> HIDE DEF Plain
  <2> QED  BY <1>2, <1>4
<1>6. Sound(s)
  BY <1>2, <1>4, ConstantsAssumption DEF Sound
<1> QED  BY <1>5, <1>6 DEF s

LEMMA InitInv == Init => Inv
<1> SUFFICES ASSUME Init PROVE Inv
  OBVIOUS
<1>1. /\ documents \in Items /\ objects = [l \in {} |-> None] /\ request \in [Runs -> Requests]
      /\ at = [r \in Runs |-> "idle"] /\ item = [r \in Runs |-> <<>>] /\ plans = [r \in Runs |-> <<>>]
      /\ outputs = [r \in Runs |-> <<>>] /\ results = [r \in Runs |-> <<>>]
      /\ added = [r \in Runs |-> 0] /\ taken = [r \in Runs |-> {}] /\ read = [r \in Runs |-> <<>>]
      /\ alone = [r \in Runs |-> TRUE] /\ delivered = {}
  BY DEF Init
<1>2. documents \in Documents
  <2> DEFINE Plain == [key : Keys, href : Sources]
  <2>1. documents \in [Uris -> Seq(Plain) \cup {None}]
    BY <1>1, ConstantsAssumption
  <2> HIDE DEF Plain
  <2>2. \A u \in Uris : documents[u] \in Seq(Assets) \cup {None}
    BY <1>1, FirstItems
  <2> QED  BY <2>1, <2>2 DEF Documents
<1>3. Types
  <2>1. /\ <<>> \in Seq(Assets) /\ <<>> \in Seq(Planned) /\ <<>> \in Seq(Deliveries) /\ <<>> \in Seq(Outcomes)
        /\ "idle" \in Stages
    BY DEF Stages
  <2>2. DOMAIN objects = {} /\ objects \in [DOMAIN objects -> Contents]
    BY <1>1
  <2> QED  BY <1>1, <1>2, <2>1, <2>2 DEF Types
<1>4. DocumentsInv
  BY <1>1, FirstItems DEF DocumentsInv
<1>5. ASSUME NEW r \in Runs PROVE RunInv(r)
  <2>1. /\ at[r] = "idle" /\ item[r] = <<>> /\ plans[r] = <<>> /\ results[r] = <<>> /\ added[r] = 0
        /\ taken[r] = {} /\ read[r] = <<>>
    BY <1>1
  <2>2. DOMAIN results[r] = {} /\ DOMAIN item[r] = {} /\ DOMAIN plans[r] = {} /\ DOMAIN read[r] = {}
        /\ Len(results[r]) = 0
    BY <2>1
  <2>3. StageInv(r)
    BY <2>1, <2>2 DEF StageInv, Adding, Delivering
  <2>4. ItemInv(r)
    BY <2>1, <2>2 DEF ItemInv, Sound, UniqueKeys, KeysOf
  <2>5. PlansInv(r)
    BY <2>2 DEF PlansInv
  <2>6. KeepInv(r) /\ ReplaceInv(r) /\ AloneInv(r)
    BY <2>1 DEF KeepInv, ReplaceInv, AloneInv, Adding, Active
  <2> QED  BY <2>2, <2>3, <2>4, <2>5, <2>6 DEF RunInv
<1> QED  BY <1>3, <1>4, <1>5 DEF Inv

LEMMA StepPreserves ==
  ASSUME Inv, NEW r \in Runs,
         \/ Read(r)
         \/ Convert(r) \/ Clear(r) \/ Verify(r) \/ Create(r) \/ Fill(r) \/ Check(r) \/ Put(r)
         \/ StartAdding(r) \/ Add(r) \/ StartWriting(r) \/ Write(r)
         \/ Truncate(r) \/ Fail(r)
  PROVE  Preserved(r)
BY ReadPreserves, ConvertPreserves, ClearPreserves, VerifyPreserves, CreatePreserves, FillPreserves,
   CheckPreserves, PutPreserves, StartAddingPreserves, AddPreserves, StartWritingPreserves,
   WritePreserves, TruncatePreserves, FailPreserves

LEMMA NextInv == Inv /\ [Next]_vars => Inv'
<1> SUFFICES ASSUME Inv, [Next]_vars PROVE Inv'
  OBVIOUS
<1>1. CASE UNCHANGED vars
  <2>1. UNCHANGED <<documents, objects, request, at, item, plans, outputs, results, added, taken,
                    read, alone, delivered>>
    BY <1>1 DEF vars, thread
  <2>2. Types' /\ DocumentsInv'
    BY <2>1 DEF Inv, Types, DocumentsInv, Sound, UniqueKeys
  <2>3. ASSUME NEW r \in Runs PROVE RunInv(r)'
    <3>1. RunInv(r)
      BY DEF Inv
    <3>2. StageInv(r)' /\ ItemInv(r)' /\ PlansInv(r)'
      BY <2>1, <3>1 DEF RunInv, StageInv, ItemInv, PlansInv, Sound, UniqueKeys
    <3>3. \A j \in DOMAIN results'[r] : ResultInv(r, j)'
      BY <2>1, <3>1 DEF RunInv, ResultInv, Repoints
    <3>4. KeepInv(r)' /\ ReplaceInv(r)'
      BY <2>1, <3>1 DEF RunInv, KeepInv, ReplaceInv, NoNamesake, Apart, Repoints
    <3>5. AloneInv(r)'
      BY <2>1, <3>1 DEF RunInv, AloneInv, Active, Intact, Exists, Object
    <3> QED  BY <3>2, <3>3, <3>4, <3>5 DEF RunInv
  <2> QED  BY <2>2, <2>3 DEF Inv
<1>2. CASE Next
  <2>1. PICK r \in Runs : Preserved(r)
    BY <1>2, StepPreserves DEF Next
  <2>2. Types' /\ DocumentsInv' /\ OwnStep(r) /\ RunInv(r)'
    BY <2>1 DEF Preserved
  <2>3. ASSUME NEW s \in Runs PROVE RunInv(s)'
    <3>1. RunInv(s)
      BY DEF Inv
    <3> QED  BY <2>2, <3>1, OthersKeep
  <2> QED  BY <2>2, <2>3 DEF Inv
<1> QED  BY <1>1, <1>2

THEOREM Invariance == Spec => []Inv
BY InitInv, NextInv, PTL DEF Spec

\* The variables have their types, at every stage of every run.
THEOREM TypeCorrect == Spec => []TypeOK
<1>1. Inv => TypeOK
  <2> SUFFICES ASSUME Inv PROVE TypeOK
    OBVIOUS
  <2>1. \A r \in Runs : added[r] <= Len(results[r])
    BY DEF Inv, RunInv, StageInv
  <2>2. \A l \in DOMAIN objects : objects[l] \in [meta : Sources \cup {None}, data : Sources \cup {None}]
    BY DEF Inv, Types, Contents
  <2> QED  BY <2>1, <2>2 DEF Inv, Types, TypeOK, Documents, Planned, Deliveries, Outcomes
<1> QED  BY <1>1, Invariance, PTL

-----------------------------------------------------------------------------
(* What an Item names                                                      *)

\* However runs overlap and fail, an Item names only what some run has delivered
\* (NamesOnlyDelivered); and what a run at work alone is about to write into it
\* (_add_results, _write_item) is there, complete and made of its source.
THEOREM ResultsStayDelivered == Spec => []ResultsAreDelivered
<1>1. Inv => NamesOnlyDelivered
  BY DEF Inv, DocumentsInv, Sound, NamesOnlyDelivered
<1>2. Inv => DeliversResults
  <2> SUFFICES ASSUME Inv, NEW r \in Runs, alone[r], at[r] \in {"add", "write"}, Apart(r),
                      NEW j \in DOMAIN results[r]
               PROVE  /\ Exists(results[r][j].target_uri)
                      /\ Content(results[r][j].target_uri) = results[r][j].source
    BY DEF DeliversResults
  <2> DEFINE res == results[r][j]
             l == res.target_uri
  <2>1. res.target_uri \in Locations
    <3>1. results[r] \in Seq(Outcomes)
      BY DEF Inv, Types
    <3>2. results[r][j] \in Outcomes
      BY <3>1
    <3> QED  BY <3>2 DEF Outcomes
  <2>2. Intact(r, j) /\ r \in Active
    BY DEF Inv, RunInv, AloneInv, Active
  <2>3. \A k \in DOMAIN results[r] : results[r][k].target_uri = l => k = j
    BY DEF Apart
  <2>4. j \in Nat
    <3>1. results[r] \in Seq(Outcomes)
      BY DEF Inv, Types
    <3> QED  BY <3>1
  <2>5. ~\E k \in DOMAIN results[r] : k > j /\ results[r][k].target_uri = l
    <3>1. ~(j > j)
      BY <2>4
    <3> QED  BY <2>3, <3>1
  <2>6. at[r] \notin {"verify", "create", "fill"}
    OBVIOUS
  <2>7. Exists(l) /\ objects[l] = Object(res.source, res.source)
    BY <2>2, <2>5, <2>6 DEF Intact
  <2>8. l \notin Sources
    BY <2>1, LocationParts
  <2> HIDE DEF l
  <2>9. Content(l) = res.source
    BY <2>7, <2>8 DEF Content, Object
  <2> QED  BY <2>7, <2>9 DEF l
<1>3. Inv => ResultsAreDelivered
  BY <1>1, <1>2 DEF ResultsAreDelivered
<1> QED  BY <1>3, Invariance, PTL

\* A run that may not overwrite leaves what it has read in the Item and adds every
\* result under a key of its own (_unique_asset_key), unless an asset is converted into
\* a namesake; a run that overwrites has no output in the Item twice
\* (_delete_stale_assets), however often it was converted before.
THEOREM AssetsStayKept == Spec => []AssetsAreKept
<1>1. ASSUME Inv, NEW r \in Runs, at[r] \in {"write", "done"}
      PROVE  at[r] \in Adding /\ 1 .. added[r] = DOMAIN results[r]
  <2>1. results[r] \in Seq(Outcomes) /\ added[r] = Len(results[r])
    BY <1>1 DEF Inv, Types, RunInv, StageInv
  <2> QED  BY <1>1, <2>1 DEF Adding
<1>2. Inv => KeepsAssets
  <2> SUFFICES ASSUME Inv, NEW r \in Runs, ~request[r].overwrite, at[r] \in {"write", "done"}, NoNamesake(r)
               PROVE  /\ \A i \in DOMAIN read[r] :
                           \/ In(read[r][i], item[r])
                           \/ \E j \in DOMAIN results[r] : /\ Repoints(results[r][j])
                                                           /\ results[r][j].asset_key = read[r][i].key
                      /\ \A j \in DOMAIN results[r] :
                           In([key |-> results[r][j].asset_key, href |-> results[r][j].target_uri], item[r])
                      /\ \A j \in DOMAIN results[r] :
                           Repoints(results[r][j]) <=> results[r][j].asset_key = results[r][j].source_asset_key
                      /\ Len(item[r]) = Len(read[r])
                           + Cardinality({j \in DOMAIN results[r] : ~Repoints(results[r][j])})
    BY DEF KeepsAssets
  <2>1. at[r] \in Adding /\ 1 .. added[r] = DOMAIN results[r]
    BY <1>1
  <2>2. KeepInv(r)
    BY DEF Inv, RunInv
  <2>3. ASSUME NEW j \in DOMAIN results[r]
        PROVE  Repoints(results[r][j]) <=> results[r][j].asset_key = results[r][j].source_asset_key
    <3>1. ResultInv(r, j) /\ PlansInv(r)
      BY DEF Inv, RunInv
    <3>2. CASE Repoints(results[r][j])
      BY <3>1, <3>2 DEF ResultInv, DeclaredKey, Repoints
    <3>3. CASE ~Repoints(results[r][j])
      <4>1. results[r][j].asset_key \notin KeysOf(read[r])
        BY <2>1, <2>2, <3>3 DEF KeepInv
      <4>2. results[r][j].source_asset_key \in KeysOf(read[r])
        BY <3>1 DEF PlansInv
      <4> QED  BY <3>3, <4>1, <4>2
    <3> QED  BY <3>2, <3>3
  <2> QED  BY <2>1, <2>2, <2>3 DEF KeepInv
<1>3. Inv => ReplacesOutputs
  <2> SUFFICES ASSUME Inv, NEW r \in Runs, request[r].overwrite, at[r] \in {"write", "done"}, Apart(r)
               PROVE  \A j \in DOMAIN results[r] : \A i, k \in DOMAIN item[r] :
                        item[r][i].href = results[r][j].target_uri /\ item[r][k].href = results[r][j].target_uri
                          => i = k
    BY DEF ReplacesOutputs
  <2>1. at[r] \in Adding
    BY <1>1
  <2>2. ReplaceInv(r)
    BY DEF Inv, RunInv
  <2> QED  BY <2>1, <2>2 DEF ReplaceInv
<1>4. Inv => AssetsAreKept
  BY <1>2, <1>3 DEF AssetsAreKept
<1> QED  BY <1>4, Invariance, PTL

-----------------------------------------------------------------------------
(* What is overwritten                                                     *)

\* What a step of a run changes of what is stored, when the run is alone and may not
\* overwrite.
OverwritesNothing ==
  /\ \A u \in Uris : documents[u] # None => documents'[u] = documents[u]
  /\ \A l \in DOMAIN objects : Content(l) # None => l \in DOMAIN objects' /\ objects'[l] = objects[l]

\* A store that is being written, or a location that is free, is not complete.
LEMMA StoringOverwritesNothing ==
  ASSUME Types, NEW l \in Locations, NEW o,
         UNCHANGED documents, objects' = Stored(l, o), Exists(l) => Content(l) = None
  PROVE  OverwritesNothing
<1>1. \A m \in DOMAIN objects : m \in DOMAIN objects' /\ (m # l => objects'[m] = objects[m])
  BY DEF Stored
<1>2. \A m \in DOMAIN objects : Content(m) # None => m # l
  BY DEF Exists
<1> QED  BY <1>1, <1>2 DEF OverwritesNothing

LEMMA StepOverwritesNothing ==
  ASSUME Inv, NEW r \in Runs, alone[r], ~request[r].overwrite,
         \/ Read(r)
         \/ Convert(r) \/ Clear(r) \/ Verify(r) \/ Create(r) \/ Fill(r) \/ Check(r) \/ Put(r)
         \/ StartAdding(r) \/ Add(r) \/ StartWriting(r) \/ Write(r)
         \/ Truncate(r) \/ Fail(r)
  PROVE  OverwritesNothing
<1> DEFINE out == Head(outputs[r])
           l == out.location
<1>1. CASE UNCHANGED <<documents, objects>>
  BY <1>1 DEF OverwritesNothing
<1>2. CASE Read(r) \/ Convert(r) \/ Verify(r) \/ Check(r) \/ StartAdding(r) \/ Add(r) \/ StartWriting(r) \/ Fail(r)
  <2>1. UNCHANGED <<documents, objects>>
    BY <1>2 DEF Read, Convert, Verify, Check, StartAdding, Add, StartWriting, Fail
  <2> QED  BY <1>1, <2>1
<1>3. CASE Clear(r)
  BY <1>3 DEF Clear, Inv, RunInv, StageInv
<1>4. at[r] \in Delivering => l \in Locations /\ out.source \in Sources /\ r \in Active
  BY AtHand DEF Deliveries
<1>5. r \in Active => AloneInv(r)
  BY DEF Inv, RunInv
<1>6. l \in Locations => l \notin Sources
  BY LocationParts
<1>7. CASE Create(r)
  <2>1. UNCHANGED documents /\ at[r] \in Delivering
    BY <1>7 DEF Create, Delivering
  <2>2. CASE Exists(l)
    BY <1>1, <1>7, <2>1, <2>2 DEF Create
  <2>3. CASE ~Exists(l)
    <3>1. objects' = Stored(l, Object(out.source, None))
      BY <1>7, <2>3 DEF Create
    <3> QED  BY <1>4, <2>1, <2>3, <3>1, StoringOverwritesNothing DEF Inv
  <2> QED  BY <2>2, <2>3
<1>8. CASE Fill(r)
  <2> DEFINE meta == IF Exists(l) THEN objects[l].meta ELSE None
  <2>1. at[r] \in Delivering /\ at[r] = "fill" /\ UNCHANGED documents
    BY <1>8 DEF Fill, Delivering, Deliver
  <2>2. objects' = Stored(l, Object(meta, out.source))
    BY <1>8 DEF Fill
  <2> HIDE DEF meta
  <2>3. objects[l] = Object(out.source, None)
    BY <1>4, <1>5, <2>1 DEF AloneInv
  <2>4. Content(l) = None
    <3> HIDE DEF l, out
    <3>1. l \notin Sources /\ out.source # None
      BY <1>4, <1>6, <2>1, ConstantsAssumption
    <3>2. objects[l].meta = out.source /\ objects[l].data = None
      BY <2>3 DEF Object
    <3> QED  BY <3>1, <3>2 DEF Content
  <2> HIDE DEF l
  <2> QED  BY <1>4, <2>1, <2>2, <2>4, StoringOverwritesNothing DEF Inv
<1>9. CASE Put(r) \/ Truncate(r)
  <2>1. at[r] \in Delivering /\ at[r] = "put" /\ UNCHANGED documents
    BY <1>9 DEF Put, Truncate, Delivering, Deliver
  <2>2. \E o : objects' = Stored(l, o)
    BY <1>9 DEF Put, Truncate
  <2>3. ~Exists(l)
    BY <1>4, <1>5, <2>1 DEF AloneInv
  <2> HIDE DEF l
  <2> QED  BY <1>4, <2>1, <2>2, <2>3, StoringOverwritesNothing DEF Inv
<1>10. CASE Write(r)
  <2> DEFINE u == request[r].target_uri
  <2>1. /\ at[r] = "write" /\ r \in Active /\ UNCHANGED objects
        /\ documents' = [documents EXCEPT ![u] = item[r]]
    BY <1>10 DEF Write, Active
  <2>2. documents[u] = None
    BY <1>5, <2>1 DEF AloneInv
  <2>3. documents \in Documents
    BY DEF Inv, Types
  <2> HIDE DEF u
  <2>4. \A v \in Uris : v # u => documents'[v] = documents[v]
    BY <2>1, <2>3 DEF Documents
  <2> QED  BY <2>1, <2>2, <2>4 DEF OverwritesNothing
<1> QED  BY <1>2, <1>3, <1>7, <1>8, <1>9, <1>10

\* A run that may not overwrite, at work alone, replaces no Item (_write_item) and no
\* complete output (to_zarr in mode "w-", put_to_s3), whatever failed runs have left.
THEOREM OverwritesStayAsked == Spec => OverwritesOnlyIfAsked
<1>1. ASSUME Inv, [Next]_vars
      PROVE  [\A r \in Runs : alone[r] /\ ~request[r].overwrite /\ at'[r] # at[r] =>
               /\ \A u \in Uris : documents[u] # None => documents'[u] = documents[u]
               /\ \A l \in DOMAIN objects :
                    Content(l) # None => l \in DOMAIN objects' /\ objects'[l] = objects[l]]_vars
  <2> SUFFICES ASSUME Next, NEW r \in Runs, alone[r], ~request[r].overwrite, at'[r] # at[r]
               PROVE  OverwritesNothing
    BY <1>1 DEF OverwritesNothing
  <2>1. PICK s \in Runs :
          \/ Read(s)
          \/ Convert(s) \/ Clear(s) \/ Verify(s) \/ Create(s) \/ Fill(s) \/ Check(s) \/ Put(s)
          \/ StartAdding(s) \/ Add(s) \/ StartWriting(s) \/ Write(s)
          \/ Truncate(s) \/ Fail(s)
    BY DEF Next
  <2>2. OwnStep(s)
    BY <1>1, <2>1, StepPreserves DEF Preserved
  <2>3. s = r
    BY <2>2 DEF OwnStep
  <2> QED  BY <1>1, <2>1, <2>3, StepOverwritesNothing
<1> QED  BY <1>1, Invariance, PTL DEF Spec, OverwritesOnlyIfAsked

=============================================================================
