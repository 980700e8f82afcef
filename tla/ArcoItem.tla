------------------------------ MODULE ArcoItem ------------------------------
(***************************************************************************)
(* EPT's ARCO conversion of STAC Items (ept/features/arco_stac_item), on   *)
(* the S3 storage its conversions deliver to.                              *)
(*                                                                         *)
(* A run reads an Item, converts its assets one after the other, adds the  *)
(* outputs to its copy of the Item, and writes that back.  It is a thread  *)
(* of its own: between any two of its requests to S3 every other run may   *)
(* work on the same Item and the same outputs, and it may fail at any of   *)
(* them.  A restart of the service is every run failing at once.           *)
(*                                                                         *)
(* An asset is [key, href].  A key is <<name, numbers>>: "zarr-2" has the  *)
(* number 2, and most keys none.  An href is a source outside the target   *)
(* prefix, or the location of an output:                                   *)
(*   <<"store", name>>    a Zarr store, named after the file it is made of *)
(*   <<"file", key, i>>   the GeoParquet file of an asset's i-th layer     *)
(*   <<"copy", key, c>>   a hosted copy, whose suffix is detected as c     *)
(* where key is the asset's key, made safe.                                *)
(***************************************************************************)
EXTENDS Integers, Sequences, FiniteSets, Lists

CONSTANTS
  Names,       \* asset names
  Sources,     \* hrefs outside the target prefix
  None,        \* no conversion, no document
  SafeName,    \* the key that is made of a name (safe_export_name), safe in S3
  Detected,    \* the conversion auto-detection finds for a source
  HostedAs,    \* the one it finds for a copy of the source, by its suffix
  FileName,    \* the file name of a source, without a NetCDF suffix
  Layers,      \* how many GeoParquet files are made of a source
  Uris,        \* where Item documents are
  Items,       \* the documents there may be at first
  Runs,        \* runs of arco.stac-item
  Requests     \* what they may ask for

Conversions == {"nc-to-zarr", "gdb-to-parquet", "shp-to-parquet", "upload"}

Keys == Names \X Seq(Nat)

Locations == ({"store"} \X Keys) \cup ({"file"} \X Keys \X Nat)
             \cup ({"copy"} \X Keys \X (Conversions \cup {None}))

Assets == [key : Keys, href : Sources \cup Locations]

ASSUME ConstantsAssumption ==
  /\ {"zarr", "parquet"} \subseteq Names
  /\ Sources \cap Locations = {} /\ None \notin Sources \cup Conversions
  /\ SafeName \in [Names -> Keys]
  /\ \A n \in Names : SafeName[SafeName[n][1]] = <<SafeName[n][1], <<>>>>
  /\ Detected \in [Sources -> Conversions \cup {None}]
  /\ HostedAs \in [Sources -> Conversions \cup {None}]
  /\ FileName \in [Sources -> Keys]
  /\ Layers \in [Sources -> Nat \ {0}]
  /\ Items \subseteq [Uris -> Seq([key : Keys, href : Sources]) \cup {None}]
  /\ \A f \in Items, u \in Uris : f[u] # None =>
       \A i, j \in DOMAIN f[u] : f[u][i].key = f[u][j].key => i = j
  /\ Requests \subseteq
       [source_uri : Uris, target_uri : Uris, overwrite : BOOLEAN,
        conversions : Seq([pattern : Keys \cup Sources, conversion : Conversions]),
        output_format : SUBSET {"zarr", "parquet"}]

VARIABLES
  documents,  \* the assets of the Item at each URI
  objects,    \* the outputs there are: the source of each one's two halves
  request,    \* the request of each run
  at,         \* where the run is
  item,       \* the assets of its copy of the Item, in order
  plans,      \* what it still has to convert
  outputs,    \* what the conversion at hand has still to deliver
  results,    \* the ArcoConversionResults
  added,      \* how many of them are in its copy of the Item
  taken,      \* the asset keys that are taken there
  read,       \* history: the assets it has read
  alone,      \* history: whether no other run was at work meanwhile
  delivered   \* history: the outputs some run has written to their end

thread == <<at, item, plans, outputs, results, added, taken>>
vars   == <<documents, objects, request, thread, read, alone, delivered>>

\* objects, after object was stored at location l.
Stored(l, object) ==
  [m \in DOMAIN objects \cup {l} |-> IF m = l THEN object ELSE objects[m]]

KeysOf(assets) == {assets[i].key : i \in DOMAIN assets}

Stages == {"idle", "convert", "clear", "verify", "create", "fill", "check", "put",
           "add", "exists", "write", "done", "failed"}
Active == {r \in Runs : at[r] \notin {"idle", "done", "failed"}}

Init ==
  /\ documents \in Items
  /\ objects = [l \in {} |-> None]
  /\ request \in [Runs -> Requests]
  /\ at = [r \in Runs |-> "idle"]
  /\ item = [r \in Runs |-> <<>>]
  /\ plans = [r \in Runs |-> <<>>]
  /\ outputs = [r \in Runs |-> <<>>]
  /\ results = [r \in Runs |-> <<>>]
  /\ added = [r \in Runs |-> 0]
  /\ taken = [r \in Runs |-> {}]
  /\ read = [r \in Runs |-> <<>>]
  /\ alone = [r \in Runs |-> TRUE]
  /\ delivered = {}

GoTo(r, stage) == at' = [at EXCEPT ![r] = stage]

-----------------------------------------------------------------------------
(* Planning                                                                *)

\* The explicit mappings of an asset, by its key or by its href; the first counts.
Explicit(a, req) ==
  {i \in DOMAIN req.conversions : req.conversions[i].pattern \in {a.key, a.href}}

DetectedAs(href) ==
  IF href \in Sources THEN Detected[href]
  ELSE IF href[1] = "copy" THEN href[3] ELSE None

Format(conversion) ==
  IF conversion = "nc-to-zarr" THEN "zarr"
  ELSE IF conversion \in {"gdb-to-parquet", "shp-to-parquet"} THEN "parquet" ELSE None

\* Only what is detected is filtered by the request's output_format.
Choice(a, req) ==
  IF Explicit(a, req) # {} THEN req.conversions[Nth(1, Explicit(a, req))].conversion
  ELSE IF req.output_format # {} /\ Format(DetectedAs(a.href)) \notin req.output_format
  THEN None
  ELSE DetectedAs(a.href)

\* Mutant: what needs no conversion is planned too.
PlansAll(assets, req) ==
  [i \in DOMAIN assets |-> [key |-> assets[i].key, href |-> assets[i].href,
                           conversion |-> Choice(assets[i], req)]]

Plans(assets, req) ==
  Picked([i \in DOMAIN assets |-> [key |-> assets[i].key, href |-> assets[i].href,
                                 conversion |-> Choice(assets[i], req)]],
       {i \in DOMAIN assets : Choice(assets[i], req) # None})

\* The Item is read, and every other run at work overlaps with this one.
Read(r) ==
  /\ at[r] = "idle"
  /\ documents[request[r].source_uri] # None
  /\ LET assets == documents[request[r].source_uri]
     IN  /\ item' = [item EXCEPT ![r] = assets]
         /\ read' = [read EXCEPT ![r] = assets]
         /\ plans' = [plans EXCEPT ![r] = Plans(assets, request[r])]
         /\ taken' = [taken EXCEPT ![r] = KeysOf(assets)]
  /\ GoTo(r, "convert")
  /\ alone' = [s \in Runs |-> alone[s] /\ (IF s = r THEN Active = {} ELSE s \notin Active)]
  /\ UNCHANGED <<documents, objects, request, outputs, results, added, delivered>>

-----------------------------------------------------------------------------
(* Conversions, and what they do on S3                                     *)

Exists(l) == l \in DOMAIN objects

Object(meta, data) == [meta |-> meta, data |-> data]

\* A source can be read, and so can an output that is complete; None otherwise.
Content(href) ==
  IF href \in Sources THEN href
  ELSE IF Exists(href) /\ objects[href].meta = objects[href].data THEN objects[href].data
  ELSE None

\* _safe_name: a slug in the place of what is unsafe; numbers stay.
Safe(k) == <<SafeName[k[1]][1], SafeName[k[1]][2] \o k[2]>>

\* The outputs of a conversion.  A store is named after its source's file, a
\* GeoParquet file and a copy after the asset, so far as its key is safe.
Targets(p, source) ==
  IF p.conversion = "nc-to-zarr"
  THEN << <<"store", IF p.href \in Sources THEN FileName[p.href] ELSE p.href[2]>> >>
  ELSE IF p.conversion = "upload"
  THEN << <<"copy", Safe(p.key), IF p.href \in Sources THEN HostedAs[p.href] ELSE DetectedAs(p.href)>> >>
  ELSE [i \in 1 .. Layers[source] |-> <<"file", Safe(p.key), i>>]

\* Mutant: overwrite is not passed on, and the conversions default to it.
DeliveryAlways(conversion, overwrite) ==
  IF conversion = "nc-to-zarr" THEN "clear" ELSE "put"

\* A Zarr store is cleared or must not be there; a file and a copy are put, if
\* nothing is in their place or it may be overwritten.
Delivery(conversion, overwrite) ==
  IF conversion = "nc-to-zarr" THEN (IF overwrite THEN "clear" ELSE "create")
  ELSE IF overwrite THEN "put" ELSE "check"

Convert(r) ==
  /\ at[r] = "convert"
  /\ plans[r] # <<>>
  /\ LET p == Head(plans[r])
         source == Content(p.href)
     IN  /\ source # None
         /\ outputs' = [outputs EXCEPT ![r] =
              [i \in DOMAIN Targets(p, source) |->
                 [location |-> Targets(p, source)[i], source |-> source]]]
         /\ GoTo(r, Delivery(p.conversion, request[r].overwrite))
  /\ UNCHANGED <<documents, objects, request, item, plans, results, added, taken,
                 read, alone, delivered>>

\* _delete_s3_prefix_objects: delete what is there, ...
Clear(r) ==
  /\ at[r] = "clear"
  /\ objects' = [l \in DOMAIN objects \ {Head(outputs[r]).location} |-> objects[l]]
  /\ GoTo(r, "verify")
  /\ UNCHANGED <<documents, request, item, plans, outputs, results, added, taken,
                 read, alone, delivered>>

\* ... and list again; what another run has written since makes this one fail.
Verify(r) ==
  /\ at[r] = "verify"
  /\ GoTo(r, IF Exists(Head(outputs[r]).location) THEN "failed" ELSE "create")
  /\ UNCHANGED <<documents, objects, request, item, plans, outputs, results, added,
                 taken, read, alone, delivered>>

\* to_zarr in mode "w-" writes the metadata of a store that is not there yet ...
Create(r) ==
  LET out == Head(outputs[r])
  IN  /\ at[r] = "create"
      /\ IF Exists(out.location)
         THEN GoTo(r, "failed") /\ UNCHANGED objects
         ELSE /\ GoTo(r, "fill")
              /\ objects' = Stored(out.location, Object(out.source, None))
      /\ UNCHANGED <<documents, request, item, plans, outputs, results, added, taken,
                     read, alone, delivered>>

\* The asset key a conversion of the asset with key k declares.
DeclaredKey(conversion, k) ==
  IF conversion = "upload" THEN Safe(k) ELSE <<Format(conversion), <<>>>>

Result(p, out) ==
  [source_asset_key |-> p.key, feature |-> p.conversion, target_uri |-> out.location,
   source |-> out.source, asset_key |-> DeclaredKey(p.conversion, p.key)]

\* An output is delivered, then the next one of the conversion, or the next
\* conversion.
Deliver(r) ==
  /\ results' = [results EXCEPT ![r] =
                   Append(@, Result(Head(plans[r]), Head(outputs[r])))]
  /\ outputs' = [outputs EXCEPT ![r] = Tail(@)]
  /\ IF Len(outputs[r]) = 1
     THEN plans' = [plans EXCEPT ![r] = Tail(@)] /\ GoTo(r, "convert")
     ELSE /\ UNCHANGED plans
          /\ GoTo(r, Delivery(Head(plans[r]).conversion, request[r].overwrite))
  /\ UNCHANGED <<documents, request, item, added, taken, read, alone>>

\* ... and its chunks, whatever has become of the metadata.
Fill(r) ==
  LET out == Head(outputs[r])
      meta == IF Exists(out.location) THEN objects[out.location].meta ELSE None
  IN  /\ at[r] = "fill"
      /\ objects' = Stored(out.location, Object(meta, out.source))
      /\ delivered' = delivered \cup {out.location}
      /\ Deliver(r)

\* put_to_s3: a HEAD request, unless it may overwrite, ...
Check(r) ==
  /\ at[r] = "check"
  /\ GoTo(r, IF Exists(Head(outputs[r]).location) THEN "failed" ELSE "put")
  /\ UNCHANGED <<documents, objects, request, item, plans, outputs, results, added,
                 taken, read, alone, delivered>>

\* ... and the object, all at once.
Put(r) ==
  LET out == Head(outputs[r])
  IN  /\ at[r] = "put"
      /\ objects' = Stored(out.location, Object(out.source, out.source))
      /\ delivered' = delivered \cup {out.location}
      /\ Deliver(r)

-----------------------------------------------------------------------------
(* The updated Item                                                        *)

AssetKeys(rs) == {rs[i].asset_key : i \in DOMAIN rs}

\* f"{key}-{n}".
Numbered(k, n) == <<k[1], Append(k[2], n)>>

\* The keys a previous run is taken to have generated: those of this run's
\* results, and their numbered variants.
Stale(assets, rs) ==
  {k \in KeysOf(assets) :
     \E b \in AssetKeys(rs) : k = b \/ (k[2] # <<>> /\ k = Numbered(b, k[2][Len(k[2])]))}

\* Every conversion is done.  An overwriting run deletes the stale assets.
StartAdding(r) ==
  /\ at[r] = "convert"
  /\ plans[r] = <<>>
  /\ IF request[r].overwrite
     THEN LET stale == Stale(item[r], results[r])
          IN  /\ item' = [item EXCEPT ![r] = Picked(@, {i \in DOMAIN @ : @[i].key \notin stale})]
              /\ taken' = [taken EXCEPT ![r] = @ \ stale]
     ELSE UNCHANGED <<item, taken>>
  /\ GoTo(r, "add")
  /\ UNCHANGED <<documents, objects, request, plans, outputs, results, added,
                 read, alone, delivered>>

\* Mutant: only one number is tried.
UniqueKeyOnce(key, source_key, keys) ==
  IF key \notin keys \/ key = source_key THEN key ELSE Numbered(key, 2)

\* The declared key, numbered if it is taken; an upload keeps its own.
UniqueKey(key, source_key, keys) ==
  IF key \notin keys \/ key = source_key THEN key
  ELSE Numbered(key, Nth(1, {i \in 2 .. Cardinality(keys) + 2 : Numbered(key, i) \notin keys}))

\* item["assets"][key] = href: in the place of the key, or at the end.
Assign(assets, key, href) ==
  IF key \in KeysOf(assets)
  THEN [i \in DOMAIN assets |->
          IF assets[i].key = key THEN [key |-> key, href |-> href] ELSE assets[i]]
  ELSE Append(assets, [key |-> key, href |-> href])

Rekeyed(res, key) == [res EXCEPT !.asset_key = key]

\* One turn of the loop over the results.
Add(r) ==
  /\ at[r] = "add"
  /\ added[r] < Len(results[r])
  /\ LET res == results[r][added[r] + 1]
         key == UniqueKey(res.asset_key, res.source_asset_key, taken[r])
     IN  /\ results' = [results EXCEPT ![r] = [@ EXCEPT ![added[r] + 1] = Rekeyed(res, key)]]
         /\ taken' = [taken EXCEPT ![r] = @ \cup {key}]
         /\ item' = [item EXCEPT ![r] = Assign(@, key, res.target_uri)]
  /\ added' = [added EXCEPT ![r] = @ + 1]
  /\ UNCHANGED <<documents, objects, request, at, plans, outputs, read, alone, delivered>>

\* _write_item: nothing may be in the Item's place, unless it may be overwritten.
StartWriting(r) ==
  /\ at[r] = "add"
  /\ added[r] = Len(results[r])
  /\ GoTo(r, IF ~request[r].overwrite /\ documents[request[r].target_uri] # None
             THEN "failed" ELSE "write")
  /\ UNCHANGED <<documents, objects, request, item, plans, outputs, results, added,
                 taken, read, alone, delivered>>

Write(r) ==
  /\ at[r] = "write"
  /\ documents' = [documents EXCEPT ![request[r].target_uri] = item[r]]
  /\ GoTo(r, "done")
  /\ UNCHANGED <<objects, request, item, plans, outputs, results, added, taken,
                 read, alone, delivered>>

\* Mutant: nobody notices that the source broke off.
TruncateUnnoticed(r) ==
  LET out == Head(outputs[r])
  IN  /\ at[r] = "put"
      /\ Head(plans[r]).conversion = "upload"
      /\ objects' = Stored(out.location, Object(out.source, None))
      /\ delivered' = delivered \cup {out.location}
      /\ Deliver(r)

\* The HTTP source of an upload breaks off: closing the target commits what was
\* copied so far.
Truncate(r) ==
  LET out == Head(outputs[r])
  IN  /\ at[r] = "put"
      /\ Head(plans[r]).conversion = "upload"
      /\ objects' = Stored(out.location, Object(out.source, None))
      /\ GoTo(r, "failed")
      /\ UNCHANGED <<documents, request, item, plans, outputs, results, added, taken,
                     read, alone, delivered>>

\* Whatever a run waits for may fail, and nothing is cleaned up after it.
Fail(r) ==
  /\ at[r] \notin {"done", "failed"}
  /\ GoTo(r, "failed")
  /\ UNCHANGED <<documents, objects, request, item, plans, outputs, results, added,
                 taken, read, alone, delivered>>

-----------------------------------------------------------------------------

Next ==
  \E r \in Runs :
    \/ Read(r)
    \/ Convert(r) \/ Clear(r) \/ Verify(r) \/ Create(r) \/ Fill(r) \/ Check(r) \/ Put(r)
    \/ StartAdding(r) \/ Add(r) \/ StartWriting(r) \/ Write(r)
    \/ Truncate(r) \/ Fail(r)

Spec == Init /\ [][Next]_vars

-----------------------------------------------------------------------------
(* Properties                                                              *)

In(x, s) == \E i \in DOMAIN s : s[i] = x

\* The results of a run are at different locations.
Apart(r) == \A i, j \in DOMAIN results[r] :
  results[r][i].target_uri = results[r][j].target_uri => i = j

TypeOK ==
  /\ documents \in [Uris -> Seq(Assets) \cup {None}]
  /\ DOMAIN objects \subseteq Locations
  /\ \A l \in DOMAIN objects :
       objects[l] \in [meta : Sources \cup {None}, data : Sources \cup {None}]
  /\ request \in [Runs -> Requests]
  /\ at \in [Runs -> Stages]
  /\ item \in [Runs -> Seq(Assets)] /\ read \in [Runs -> Seq(Assets)]
  /\ plans \in [Runs -> Seq([key : Keys, href : Sources \cup Locations,
                             conversion : Conversions])]
  /\ outputs \in [Runs -> Seq([location : Locations, source : Sources])]
  /\ results \in [Runs -> Seq([source_asset_key : Keys, feature : Conversions,
                               target_uri : Locations, source : Sources,
                               asset_key : Keys])]
  /\ added \in [Runs -> Nat] /\ \A r \in Runs : added[r] <= Len(results[r])
  /\ taken \in [Runs -> SUBSET Keys]
  /\ alone \in [Runs -> BOOLEAN]
  /\ delivered \subseteq Locations

\* However runs overlap, fail and are repeated, an Item only ever names outputs
\* that some run has written to their end: a run that fails half-way leaves
\* outputs, and never an Item that points at them.
NamesOnlyDelivered ==
  \A u \in Uris : documents[u] # None =>
    \A i \in DOMAIN documents[u] : documents[u][i].href \in Sources \cup delivered

\* No asset is converted into one with its own key.
NoNamesake(r) == \A j \in DOMAIN results[r] :
  \/ results[r][j].feature = "upload"
  \/ results[r][j].source_asset_key # <<Format(results[r][j].feature), <<>>>>

\* An upload whose asset has a safe key takes the place of the asset.
Repoints(res) ==
  res.feature = "upload" /\ Safe(res.source_asset_key) = res.source_asset_key

\* A run that may not overwrite adds its results to the Item under keys of their
\* own and leaves what it has read in place, but for the assets it uploaded, if
\* no asset is converted into a namesake.  An upload takes the place of its asset
\* if the asset's key is safe, and is an asset of its own if it is not.
KeepsAssets ==
  \A r \in Runs : ~request[r].overwrite /\ at[r] \in {"write", "done"} /\ NoNamesake(r) =>
    /\ \A i \in DOMAIN read[r] :
         \/ In(read[r][i], item[r])
         \/ \E j \in DOMAIN results[r] :
              /\ Repoints(results[r][j])
              /\ results[r][j].asset_key = read[r][i].key
    /\ \A j \in DOMAIN results[r] :
         In([key |-> results[r][j].asset_key, href |-> results[r][j].target_uri], item[r])
    /\ \A j \in DOMAIN results[r] :
         Repoints(results[r][j]) <=> results[r][j].asset_key = results[r][j].source_asset_key
    /\ Len(item[r]) =
         Len(read[r]) + Cardinality({j \in DOMAIN results[r] : ~Repoints(results[r][j])})

\* An overwriting run replaces what earlier runs have added for its outputs: none
\* of them is in the Item twice, however often the Item was converted before.
ReplacesOutputs ==
  \A r \in Runs : request[r].overwrite /\ at[r] \in {"write", "done"} /\ Apart(r) =>
    \A j \in DOMAIN results[r] : \A i, k \in DOMAIN item[r] :
      item[r][i].href = results[r][j].target_uri /\ item[r][k].href = results[r][j].target_uri
        => i = k

\* A run that may not overwrite, and does not overlap with another, replaces no
\* Item and no complete output, whatever failed runs have left behind.
OverwritesOnlyIfAsked ==
  [][\A r \in Runs : alone[r] /\ ~request[r].overwrite /\ at'[r] # at[r] =>
       /\ \A u \in Uris : documents[u] # None => documents'[u] = documents[u]
       /\ \A l \in DOMAIN objects :
            Content(l) # None => l \in DOMAIN objects' /\ objects'[l] = objects[l]]_vars

\* When a run has not overlapped with another, and its results are at different
\* locations, what it is about to write into the Item is there, complete and
\* made of the asset the result names.
DeliversResults ==
  \A r \in Runs : alone[r] /\ at[r] \in {"add", "write"} /\ Apart(r) =>
    \A j \in DOMAIN results[r] :
      /\ Exists(results[r][j].target_uri)
      /\ Content(results[r][j].target_uri) = results[r][j].source

\* docs/features/arco-stac-item.md: "The original non-upload assets keep their
\* original hrefs."
OriginalsKept ==
  \A r \in Runs : at[r] \in {"write", "done"} =>
    \A i \in DOMAIN read[r] :
      \/ read[r][i].href \notin Sources
      \/ \E j \in DOMAIN results[r] : /\ results[r][j].feature = "upload"
                                     /\ results[r][j].source_asset_key = read[r][i].key
      \/ In(read[r][i], item[r])

\* What a run writes into an Item are results that are there.
ResultsAreDelivered == NamesOnlyDelivered /\ DeliversResults

\* A conversion adds to the assets of an Item (_add_results): it keeps what is not
\* its own to replace, and replaces what is.
AssetsAreKept == KeepsAssets /\ ReplacesOutputs

=============================================================================
