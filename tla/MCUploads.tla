------------------------------ MODULE MCUploads ------------------------------
(***************************************************************************)
(* Two requests for the same target, with three keys, and the sources that *)
(* differ for Uploads, VectorConversion and StacBuilders.                  *)
(***************************************************************************)
EXTENDS StorageRequests

CONSTANTS r1, r2

MCRequests == {r1, r2}
MCBuckets == {{}, {2}}

Input(source, members, single, overwrite) ==
  [source |-> source, bucket |-> TRUE, recursive |-> TRUE, overwrite |-> overwrite,
   members |-> members, single |-> single]

\* The listing of a store may name the store itself.
MCInputs ==
  {Input("file", <<0>>, FALSE, FALSE), Input("missing", <<>>, FALSE, FALSE), Input("folder", <<>>, FALSE, FALSE),
   [Input("folder", <<1, 2>>, FALSE, FALSE) EXCEPT !.recursive = FALSE],
   [Input("file", <<0>>, FALSE, FALSE) EXCEPT !.bucket = FALSE],
   Input("url", <<>>, FALSE, FALSE)}
  \cup {Input("folder", <<1, 2>>, FALSE, o) : o \in BOOLEAN}
  \cup {Input("url", <<>>, TRUE, o) : o \in BOOLEAN}
  \cup {Input("url", <<0, 1, 2>>, FALSE, o) : o \in BOOLEAN}

\* Layers 1 and 2 have names of their own, the third one gets that of the second.
MCLayers == 1..3
MCOutputName == <<1, 2, 2>>

Conv(format, available, layers, local, overwrite) ==
  [bucket |-> ~local, overwrite |-> overwrite, local |-> local, format |-> format, place |-> "file",
   zip |-> TRUE, content |-> "layers", available |-> available, layers |-> layers]

Remote(c) == [c EXCEPT !.place = "remote"]

MCConversions ==
  {Conv("gdb", <<1, 2>>, <<2, 1>>, l, o) : l \in BOOLEAN, o \in BOOLEAN}
  \cup {Remote(Conv("shp", <<2, 1>>, None, l, FALSE)) : l \in BOOLEAN}
  \cup {Conv("shp", <<1, 2, 3>>, <<3, 2>>, TRUE, TRUE), Conv("gdb", <<1, 2>>, <<2, 2>>, FALSE, FALSE),
        Conv("gdb", <<1, 2>>, <<3>>, FALSE, FALSE), Conv("gdb", <<>>, None, FALSE, FALSE),
        [Conv("gdb", <<>>, None, FALSE, FALSE) EXCEPT !.place = "archive", !.content = "missing"],
        [Remote(Conv("gdb", <<>>, None, FALSE, FALSE)) EXCEPT !.content = "corrupt"],
        [Remote(Conv("shp", <<>>, None, FALSE, FALSE)) EXCEPT !.zip = FALSE],
        [Conv("shp", <<>>, None, FALSE, FALSE) EXCEPT !.content = "other"],
        [Conv("shp", <<1>>, None, FALSE, FALSE) EXCEPT !.bucket = FALSE]}

Object(base, valid, target, overwrite) ==
  [base |-> base, valid |-> valid, bucket |-> TRUE, target |-> target, overwrite |-> overwrite, members |-> <<>>]
MCBuilds ==
  {Object("url", FALSE, TRUE, FALSE), Object("fields", TRUE, FALSE, FALSE), Object("json", TRUE, TRUE, FALSE),
   Object("url", TRUE, TRUE, TRUE), [Object("json", TRUE, TRUE, FALSE) EXCEPT !.bucket = FALSE]}

=============================================================================
