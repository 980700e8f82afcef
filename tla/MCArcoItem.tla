----------------------------- MODULE MCArcoItem -----------------------------
(* Items for TLC, of three assets at most: NetCDF files nc and nc2, which    *)
(* are both called data.nc, a file geodatabase gdb and an archive zip.  The  *)
(* names "data!" and "zarr 2" are not safe.                                  *)
EXTENDS ArcoItem, TLC

CONSTANTS nc, nc2, gdb, zip, here, there, r1, r2

Key(name) == <<name, <<>>>>
Asset(key, href) == [key |-> key, href |-> href]

SafeNameOf ==
  ("data!" :> Key("data")) @@ ("zarr 2" :> <<"zarr", <<2>>>>) @@ [n \in Names |-> Key(n)]

DetectedHere == (nc :> "nc-to-zarr") @@ (nc2 :> "nc-to-zarr") @@ (gdb :> "gdb-to-parquet")
                @@ (zip :> None)
SuffixOf     == (nc :> "nc-to-zarr") @@ (nc2 :> "nc-to-zarr") @@ (gdb :> None) @@ (zip :> None)
FileNameOf   == (nc :> Key("data")) @@ (nc2 :> Key("data")) @@ (gdb :> Key("grid")) @@ (zip :> Key("grid"))
LayersOf     == (nc :> 1) @@ (nc2 :> 1) @@ (gdb :> 2) @@ (zip :> 1)

Document(assets) == (here :> assets) @@ (there :> None)

Simple == << Asset(Key("data"), nc), Asset(Key("grid"), gdb) >>
Named  == << Asset(Key("parquet"), gdb), Asset(<<"zarr", <<2>>>>, nc), Asset(Key("zarr"), zip) >>
Twins  == << Asset(Key("data"), nc), Asset(<<"data", <<2>>>>, nc2) >>

Unsafe == << Asset(Key("data!"), zip), Asset(Key("data"), nc), Asset(Key("zarr 2"), gdb) >>

ManyItems == {Document(Simple), Document(Named), Document(Twins), Document(Unsafe)}

Mapped(pattern, conversion) == [pattern |-> pattern, conversion |-> conversion]
Mappings == { <<>>,
              << Mapped(Key("data"), "upload"), Mapped(zip, "shp-to-parquet") >>,
              << Mapped(Key("zarr"), "upload"), Mapped(Key("data!"), "upload"),
                 Mapped(Key("zarr 2"), "upload") >> }

SomeRequests ==
  {[source_uri |-> s, target_uri |-> t, overwrite |-> o, conversions |-> c,
    output_format |-> f] :
     s \in {here}, t \in {here, there}, o \in BOOLEAN, c \in Mappings, f \in {{}, {"zarr"}}}

\* One Item for the run that checks a statement of the documentation.
OneNamed == {Document(Named)}
Plain    == {[source_uri |-> here, target_uri |-> there, overwrite |-> o,
              conversions |-> <<>>, output_format |-> {}] : o \in BOOLEAN}
Careful  == {q \in Plain : ~q.overwrite}

=============================================================================
