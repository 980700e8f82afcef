---------------------------- MODULE RunLifecycle ----------------------------
(***************************************************************************)
(* What the job runner promises about one run: it is queued, it runs, it   *)
(* ends once, and it is forgotten only after it ended.  A run that was     *)
(* asked to stop while running ("stopping") may still fail, but it can no  *)
(* longer succeed.  Nothing here knows of tasks, futures or threads; see   *)
(* RunManager for the code, which implements this specification.           *)
(***************************************************************************)
CONSTANT Runs

VARIABLE life

Ended  == {"succeeded", "failed", "cancelled"}
Stages == {"absent", "queued", "running", "stopping", "forgotten"} \cup Ended

TypeOK == life \in [Runs -> Stages]

Init == life = [r \in Runs |-> "absent"]

Become(r, stage) == life' = [life EXCEPT ![r] = stage]

\* A submission adds one run and may forget ended ones, all in one step.
Submit(r) ==
  /\ life[r] = "absent"
  /\ \E gone \in SUBSET {s \in Runs : life[s] \in Ended} :
       life' = [s \in Runs |-> IF s = r THEN "queued"
                               ELSE IF s \in gone THEN "forgotten"
                               ELSE life[s]]

Start(r) == life[r] = "queued" /\ Become(r, "running")

Stop(r) == life[r] = "running" /\ Become(r, "stopping")

Succeed(r) == life[r] \in {"queued", "running"} /\ Become(r, "succeeded")

Fail(r) == life[r] \in {"queued", "running", "stopping"} /\ Become(r, "failed")

Cancel(r) == life[r] \in {"queued", "stopping"} /\ Become(r, "cancelled")

Next == \E r \in Runs : \/ Submit(r) \/ Start(r) \/ Stop(r)
                        \/ Succeed(r) \/ Fail(r) \/ Cancel(r)

Spec == Init /\ [][Next]_life

=============================================================================
