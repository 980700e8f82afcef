-------------------------- MODULE VectorConversion --------------------------
(***************************************************************************)
(* The conversion of geodatabases and shapefiles to GeoParquet             *)
(* (ept/features/{gdb,shp}_to_parquet), beside the uploads of Uploads.     *)
(*                                                                         *)
(* A request stages its source in a workspace of its own and converts all  *)
(* of the selected layers, one file each, before it delivers the first: to *)
(* the bucket, like the files of a folder, or to a directory on the EPT    *)
(* filesystem, which is removed and written anew.                          *)
(***************************************************************************)
EXTENDS Uploads, Lists

CONSTANTS
  Layers,      \* of sources, numbered in the order of their names
  OutputName,  \* the key of each after sanitization: two layers may get the same one
  Conversions  \* [bucket, overwrite, local, format, place, zip, content, available, layers]

ASSUME ConversionAssumption ==
  /\ OutputName \in [Layers -> Keys \ {0}] /\ Layers \subseteq Nat
  /\ Conversions \subseteq
       [bucket : BOOLEAN, overwrite : BOOLEAN, local : BOOLEAN, format : {"gdb", "shp"},
        place : {"file", "archive", "remote"}, zip : BOOLEAN,
        content : {"missing", "corrupt", "other", "layers"},
        available : Seq(Layers), layers : {None} \cup (Seq(Layers) \ {<<>>})]
  /\ None \notin [conversion : Conversions, overwrite : BOOLEAN, members : Seq(Keys)]

VARIABLES
  staged,    \* the keys whose files each request has converted
  directory  \* the local target of each request: None, or who wrote the files in it

convVars == <<staged, directory>>

Old == [by |-> Earlier, files |-> {1}]

ConvInit ==
  /\ staged = [r \in Requests |-> {}]
  /\ \E d \in {None, Old} : directory = [r \in Requests |-> d]

-----------------------------------------------------------------------------
(* The selection                                                           *)

\* gdb: the layers as they are asked for, or all; shp: the asked for among the files.
Selected(c) ==
  IF c.layers = None THEN c.available
  ELSE IF c.format = "gdb" THEN c.layers
  ELSE Picked(c.available, {n \in DOMAIN c.available : c.available[n] \in ToSet(c.layers)})

Selectable(c) ==
  c.available # <<>> /\ (c.layers # None => ToSet(c.layers) \subseteq ToSet(c.available))

\* The files of the layers, in the order of the layers.
Named(c) == [n \in 1..Len(Selected(c)) |-> OutputName[Selected(c)[n]]]

Outputs(c) == ToSet(Named(c))

\* _upload_outputs_to_s3: sorted(output_dir.iterdir())
Delivered(j, keys) == Work(j, "local", InOrder(keys))

\* Why there is nothing to convert, if so: a zip has exactly one geodatabase, or at
\* least one shapefile, and both have the layers that are asked for.
Unusable(c) ==
  IF c.content = "missing" THEN (IF c.place = "archive" THEN "not_found" ELSE "invalid")
  ELSE IF c.content = "corrupt" THEN (IF c.format = "gdb" THEN "failed" ELSE "invalid")
  ELSE IF c.content = "other" \/ ~Selectable(c) THEN "invalid"
  ELSE None

Opened(j, c) ==
  IF Unusable(c) # None THEN Answered(j, Unusable(c)) ELSE [j EXCEPT !.at = "convert", !.attempt = 1]

BeginConversion(c) ==
  LET j == [Idle EXCEPT !.way = IF c.local THEN "directory" ELSE "local"] IN
  IF (~c.local /\ ~c.bucket) \/ (c.place = "remote" /\ c.format = "shp" /\ ~c.zip) THEN Answered(j, "invalid")
  ELSE IF c.place = "remote" THEN [j EXCEPT !.at = "download"]
  ELSE Opened(j, c)

-----------------------------------------------------------------------------
(* Requests                                                                *)

\* What it will put is known once its layers are selected.
StartConversion(r) ==
  /\ \E c \in Conversions :
       Arrive(r, [conversion |-> c, overwrite |-> c.overwrite, members |-> InOrder(Outputs(c))],
              BeginConversion(c))
  /\ UNCHANGED <<staged, directory>>

\* download_url starts again after a broken connection, and gives up on an error status.
Download(r) ==
  /\ At(r, "download") /\ Becomes(r, Opened(job[r], input[r].conversion))
  /\ UNCHANGED <<objects, input, there, faults, staged, directory>>

DownloadFails(r) ==
  /\ At(r, "download") /\ Fault
  /\ \/ job[r].attempt < Attempts /\ Becomes(r, [job[r] EXCEPT !.attempt = @ + 1])
     \/ Becomes(r, Answered(job[r], "failed"))
  /\ UNCHANGED <<objects, input, there, staged, directory>>

\* Mutant: of two layers with one name the second replaces the first.
ConvertOver(r) ==
  /\ At(r, "convert")
  /\ staged' = [staged EXCEPT ![r] = Outputs(input[r].conversion)]
  /\ Becomes(r, IF input[r].conversion.local THEN [job[r] EXCEPT !.at = "deliver"]
                ELSE Delivered(job[r], Outputs(input[r].conversion)))
  /\ UNCHANGED <<objects, input, there, faults, directory>>

\* The next layer; two that get the same name are refused.
Convert(r) ==
  LET done == Cardinality(staged[r])
      key  == Named(input[r].conversion)[done + 1]
  IN /\ At(r, "convert")
     /\ staged' = [staged EXCEPT ![r] = @ \cup {key}]
     /\ Becomes(r, IF key \in staged[r] THEN Answered(job[r], "invalid")
                   ELSE IF done + 1 < Len(Selected(input[r].conversion)) THEN job[r]
                   ELSE IF input[r].conversion.local THEN [job[r] EXCEPT !.at = "deliver"]
                   ELSE Delivered(job[r], staged'[r]))
     /\ UNCHANGED <<objects, input, there, faults, directory>>

\* A layer turns out to be unreadable, or to clash with the geometry's column.
ConvertFails(r) ==
  /\ At(r, "convert") /\ Fault
  /\ \E answer \in {"invalid", "failed"} : Becomes(r, Answered(job[r], answer))
  /\ UNCHANGED <<objects, input, there, staged, directory>>

\* _write_local_output: what is there is removed before the new files are copied.
Deliver(r) ==
  /\ At(r, "deliver")
  /\ IF directory[r] # None /\ ~input[r].overwrite
       THEN Becomes(r, Answered(job[r], "exists")) /\ UNCHANGED directory
       ELSE Becomes(r, [job[r] EXCEPT !.at = "write"]) /\ directory' = [directory EXCEPT ![r] = None]
  /\ UNCHANGED <<objects, input, there, faults, staged>>

Write(r) ==
  /\ At(r, "write")
  /\ directory' = [directory EXCEPT ![r] = [by |-> r, files |-> staged[r]]]
  /\ Becomes(r, Answered([job[r] EXCEPT !.uploaded = Named(input[r].conversion)], "completed"))
  /\ UNCHANGED <<objects, input, there, faults, staged>>

\* copytree copies what it can, and EPT may go down over it.
WriteFails(r) ==
  /\ At(r, "write") /\ Fault
  /\ \E files \in SUBSET staged[r] : directory' = [directory EXCEPT ![r] = [by |-> r, files |-> files]]
  /\ \/ Becomes(r, Answered(job[r], "failed"))
     \/ Becomes(r, [job[r] EXCEPT !.at = "cut"])
  /\ UNCHANGED <<objects, input, there, staged>>

Conversion(r) ==
  \/ StartConversion(r) \/ Download(r) \/ DownloadFails(r) \/ Convert(r) \/ ConvertFails(r)
  \/ Deliver(r) \/ Write(r) \/ WriteFails(r)

-----------------------------------------------------------------------------
(* Properties                                                              *)

Converting(r) == input[r] # None /\ "conversion" \in DOMAIN input[r]

\* Whatever a conversion changes, in the bucket or in its directory, it changes when
\* all of the selected layers have a file of their own: a layer that is missing,
\* unreadable or of a name that is taken costs nothing that was there.  A directory
\* changes only if it may, and after an answer of success it holds the files and no
\* others (gdb_to_parquet, shp_to_parquet, _write_local_output).
ConvertedBeforeDelivered ==
  \A r \in Requests : Converting(r) =>
    LET changed == Own(r) # {} \/ (directory[r] # None /\ directory[r].by = r)
    IN /\ changed \/ job[r].answer = "completed" =>
            /\ staged[r] = Outputs(input[r].conversion)
            /\ Cardinality(staged[r]) = Len(Selected(input[r].conversion))
       /\ job[r].answer \in {"invalid", "not_found"} => ~changed \/ job[r].todo # <<>>
       /\ job[r].way = "directory" /\ job[r].answer = "completed" =>
            directory[r] = [by |-> r, files |-> Outputs(input[r].conversion)]

=============================================================================
