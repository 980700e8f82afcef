-------------------------- MODULE StorageRequests --------------------------
(***************************************************************************)
(* All requests that write the bucket of a user in one process: uploads,   *)
(* conversions and builders, which know of each other only what they find  *)
(* there.                                                                  *)
(***************************************************************************)
EXTENDS VectorConversion, StacBuilders

allVars == <<vars, convVars>>

Step(r) ==
  \/ (Proceeds(r) \/ Fetch(r)) /\ UNCHANGED convVars
  \/ Download(r) \/ Convert(r) \/ Deliver(r) \/ Write(r)

Upload(r) == Start(r) \/ Proceeds(r) \/ Trouble(r)

Init == BucketInit /\ ConvInit

Next ==
  \/ Restart /\ UNCHANGED convVars
  \/ \E r \in Requests :
       \/ (Upload(r) \/ Build(r)) /\ UNCHANGED convVars
       \/ Conversion(r)

\* A thread runs on until its request is answered; the failures need no fairness.
Spec == Init /\ [][Next]_allVars /\ \A r \in Requests : WF_allVars(Step(r))
=============================================================================
