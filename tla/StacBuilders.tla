---------------------------- MODULE StacBuilders ----------------------------
(***************************************************************************)
(* The builders of single STAC objects                                     *)
(* (ept/features/stac_build_{item,collection,catalog}), beside Uploads.    *)
(*                                                                         *)
(* An object is built from fields, or from a base that is given or         *)
(* fetched, and is returned; with a target it is also written there, under *)
(* one key, after one look whether there is something.                     *)
(***************************************************************************)
EXTENDS Uploads

CONSTANT
  Builds  \* [base, valid, bucket, target, overwrite, members |-> <<>>]

ASSUME BuildsAssumption ==
  Builds \subseteq [base : {"fields", "json", "url"}, valid : BOOLEAN, bucket : BOOLEAN, target : BOOLEAN,
                    overwrite : BOOLEAN, members : {<<>>}]

\* build_item, build_collection, build_catalog: first the object, then its place.
Built(j, b) ==
  IF ~b.valid \/ (b.target /\ ~b.bucket) THEN Answered(j, "invalid")
  ELSE IF b.target THEN Work(j, "export", <<0>>) ELSE Work(j, "preview", <<>>)

BeginBuild(b) == IF b.base = "url" THEN [Idle EXCEPT !.at = "fetch"] ELSE Built(Idle, b)

StartBuild(r) == \E b \in Builds : Arrive(r, b, BeginBuild(b))

\* resolve_base.
Fetch(r) ==
  /\ At(r, "fetch") /\ Becomes(r, Built(job[r], input[r]))
  /\ UNCHANGED <<objects, input, there, faults>>

FetchFails(r) ==
  /\ At(r, "fetch") /\ Fault
  /\ \E answer \in {"invalid", "failed"} : Becomes(r, Answered(job[r], answer))
  /\ UNCHANGED <<objects, input, there>>

\* _export looks and puts once, like Check and Put; a look that fails is a failure.
ExportFails(r) ==
  /\ job[r].way = "export" /\ At(r, "check") /\ ~input[r].overwrite /\ Fault
  /\ Becomes(r, Answered(job[r], "failed"))
  /\ UNCHANGED <<objects, input, there>>

Build(r) == StartBuild(r) \/ Fetch(r) \/ FetchFails(r) \/ ExportFails(r)
=============================================================================
