------------------------------- MODULE Uploads -------------------------------
(***************************************************************************)
(* Uploads to the object store (ept/features/upload_s3 over                *)
(* ept/infrastructure/storage/s3.py).                                      *)
(*                                                                         *)
(* Each request runs in a thread of its own and writes its targets one by  *)
(* one: it looks whether there is an object, and then puts one, with no    *)
(* lock and no condition in between, and nothing that it has written is    *)
(* taken back when it fails.  A URL is first copied as one object, several *)
(* times if it is not found, and then as a store, by the listing of its    *)
(* members.                                                                *)
(***************************************************************************)
EXTENDS Integers, Sequences, FiniteSets, SequencesExt

CONSTANTS
  None,
  Requests,
  Earlier,     \* who wrote what was there before all requests
  LastKey,     \* keys are the target itself, 0, and 1..LastKey below it, in their order
  Inputs,      \* [source, bucket, recursive, overwrite, members, single]
  Buckets,     \* the sets of keys that there may be before all requests
  PageSize,    \* of the listing of a store
  Attempts,    \* S3_PUT_ATTEMPTS and S3_UPLOAD_HTTP_ATTEMPTS
  MaxFaults    \* bound: failures of the store, of a source, of EPT itself

ASSUME ConstantsAssumption ==
  /\ LastKey \in Nat /\ PageSize \in Nat \ {0} /\ Attempts \in Nat \ {0} /\ MaxFaults \in Nat
  /\ Buckets \subseteq SUBSET (0..LastKey)
  /\ Earlier \notin Requests /\ None \notin [by : Requests \cup {Earlier}, whole : BOOLEAN]
  /\ None \notin {"completed", "invalid", "not_found", "exists", "failed"}
  /\ Inputs \subseteq [source : {"missing", "file", "folder", "url"}, bucket : BOOLEAN, recursive : BOOLEAN,
                        overwrite : BOOLEAN, members : Seq(0..LastKey), single : BOOLEAN]

Keys == 0..LastKey

VARIABLES
  objects, \* of the bucket: who wrote each, and whether it is whole
  input,   \* what each request asks for
  there,   \* the keys that existed when it arrived
  job,     \* its progress and its answer
  faults   \* bound

vars == <<objects, input, there, job, faults>>

Idle == [at |-> "idle", way |-> None, todo |-> <<>>, uploaded |-> <<>>, attempt |-> 1, listed |-> 0, answer |-> None]

Present == {k \in Keys : objects[k] # None}

BucketInit ==
  /\ \E b \in Buckets :
       objects = [k \in Keys |-> IF k \in b THEN [by |-> Earlier, whole |-> TRUE] ELSE None]
  /\ input = [r \in Requests |-> None] /\ there = [r \in Requests |-> {}]
  /\ job = [r \in Requests |-> Idle] /\ faults = 0

-----------------------------------------------------------------------------
(* What each step does to a job                                            *)

Answered(j, answer) == [j EXCEPT !.at = "done", !.answer = answer]

\* The targets are put in the order of the list: an empty one is complete.
Work(j, way, targets) ==
  IF targets = <<>> THEN Answered([j EXCEPT !.way = way], "completed")
  ELSE [j EXCEPT !.at = "check", !.way = way, !.todo = targets, !.attempt = 1]

Advance(j) ==
  LET k == Head(j.todo) IN
  Work([j EXCEPT !.uploaded = Append(@, k), !.todo = <<>>], j.way, Tail(j.todo))

\* Mutant: the attempts are not counted.
NotFoundYet(j) == IF j.way = "member" THEN Answered(j, "not_found") ELSE [j EXCEPT !.at = "check"]

\* _put_s3_url_with_retries and _upload_http_source: a source that is not found is
\* tried again, check included, and at last listed.  A member is tried once.
NotFound(j) ==
  IF j.way = "member" THEN Answered(j, "not_found")
  ELSE IF j.attempt < Attempts THEN [j EXCEPT !.at = "check", !.attempt = @ + 1]
  ELSE [j EXCEPT !.at = "list"]

\* What the way of a job makes it write; the list is made before the first put.
Targets(i, way) == IF way \in {"single", "export"} THEN <<0>> ELSE i.members

Begin(i) ==
  IF ~i.bucket \/ (i.source = "folder" /\ ~i.recursive) THEN Answered(Idle, "invalid")
  ELSE IF i.source = "url" THEN Work(Idle, "single", <<0>>)
  ELSE IF i.source = "missing" THEN Answered(Idle, "not_found")
  ELSE Work(Idle, "local", i.members)

\* The ways that write what EPT has at hand, not a URL.
Direct == {"local", "export"}

At(r, place) == job[r].at = place
Becomes(r, j) == job' = [job EXCEPT ![r] = j]
Writes(r, k, whole) == objects' = [objects EXCEPT ![k] = [by |-> r, whole |-> whole]]
Fault == faults < MaxFaults /\ faults' = faults + 1

-----------------------------------------------------------------------------
(* Requests                                                                *)

Arrive(r, i, j) ==
  /\ At(r, "idle")
  /\ input' = [input EXCEPT ![r] = i]
  /\ there' = [there EXCEPT ![r] = Present]
  /\ Becomes(r, j)
  /\ UNCHANGED <<objects, faults>>

Start(r) == \E i \in Inputs : Arrive(r, i, Begin(i))

\* S3 also answers for a prefix: the target exists as soon as something lies below it.
Exists(k) == objects[k] # None \/ (k = 0 /\ Present # {})

\* Mutant: whether the target exists is asked before the first attempt only.
CheckOnce(r) ==
  /\ At(r, "check")
  /\ Becomes(r, IF ~input[r].overwrite /\ job[r].uploaded = <<>> /\ Exists(Head(job[r].todo))
                THEN Answered(job[r], "exists")
                ELSE [job[r] EXCEPT !.at = IF job[r].way \in Direct THEN "put" ELSE "open"])
  /\ UNCHANGED <<objects, input, there, faults>>

Check(r) ==
  /\ At(r, "check")
  /\ Becomes(r, IF ~input[r].overwrite /\ Exists(Head(job[r].todo))
                THEN Answered(job[r], "exists")
                ELSE [job[r] EXCEPT !.at = IF job[r].way \in Direct THEN "put" ELSE "open"])
  /\ UNCHANGED <<objects, input, there, faults>>

\* _target_exists: what may not be read counts as there, other failures are passed on.
CheckFails(r) ==
  /\ At(r, "check") /\ job[r].way # "export" /\ ~input[r].overwrite /\ Fault
  /\ \E answer \in {"exists", "failed"} : Becomes(r, Answered(job[r], answer))
  /\ UNCHANGED <<objects, input, there>>

\* One local file.
Put(r) ==
  /\ At(r, "put")
  /\ Writes(r, Head(job[r].todo), TRUE)
  /\ Becomes(r, Advance(job[r]))
  /\ UNCHANGED <<input, there, faults>>

\* Mutant: a file whose put fails is left out.
PutSkips(r) ==
  /\ At(r, "put") /\ Fault
  /\ \E landed \in BOOLEAN :
       IF landed THEN Writes(r, Head(job[r].todo), TRUE) ELSE UNCHANGED objects
  /\ Becomes(r, Work(job[r], job[r].way, Tail(job[r].todo)))
  /\ UNCHANGED <<input, there>>

\* A severed put is tried again without looking; s3fs leaves nothing of it, unless
\* only the answer to the last part was lost.  A file may have vanished since the
\* list was made, and other failures end the request.
PutFails(r) ==
  /\ At(r, "put") /\ Fault
  /\ \E landed \in BOOLEAN, why \in {"severed", "failed", "not_found"} :
       /\ why = "not_found" => ~landed
       /\ why = "severed" => job[r].attempt < Attempts /\ job[r].way = "local"
       /\ IF landed THEN Writes(r, Head(job[r].todo), TRUE) ELSE UNCHANGED objects
       /\ Becomes(r, IF why = "severed" THEN [job[r] EXCEPT !.attempt = @ + 1] ELSE Answered(job[r], why))
  /\ UNCHANGED <<input, there>>

\* The URL of a store is no object, its members are.
Open(r) ==
  /\ At(r, "open")
  /\ Becomes(r, IF job[r].way = "member" \/ input[r].single
                THEN [job[r] EXCEPT !.at = "copy"] ELSE NotFound(job[r]))
  /\ UNCHANGED <<objects, input, there, faults>>

OpenFails(r) ==
  /\ At(r, "open") /\ Fault
  /\ \/ Becomes(r, NotFound(job[r]))
     \/ Becomes(r, Answered(job[r], "failed"))
  /\ UNCHANGED <<objects, input, there>>

Copy(r) ==
  /\ At(r, "copy")
  /\ Writes(r, Head(job[r].todo), TRUE)
  /\ Becomes(r, Advance(job[r]))
  /\ UNCHANGED <<input, there, faults>>

\* A source that breaks off, whose target may be closed on what has come so far; or
\* a target that is closed on all of it, and the answer to that is lost.
CopyBreaks(r) ==
  /\ At(r, "copy") /\ Fault
  /\ \/ \E whole \in BOOLEAN : Writes(r, Head(job[r].todo), whole)
     \/ UNCHANGED objects
  /\ \/ Becomes(r, NotFound(job[r]))
     \/ Becomes(r, Answered(job[r], "failed"))
  /\ UNCHANGED <<input, there>>

\* Mutant: the members on the first page of the listing are the store.
FirstPage(r) ==
  /\ At(r, "list")
  /\ Becomes(r, IF input[r].members = <<>> THEN Answered(job[r], "not_found")
                ELSE Work(job[r], "member", SubSeq(input[r].members, 1, PageSize)))
  /\ UNCHANGED <<objects, input, there, faults>>

\* _list_s3_prefix_keys, a page at a time: nothing is uploaded before the last one.
ListPage(r) ==
  LET members == input[r].members
      listed == job[r].listed + PageSize
  IN /\ At(r, "list")
     /\ Becomes(r, CASE members = <<>> -> Answered(job[r], "not_found")
                     [] listed < Len(members) -> [job[r] EXCEPT !.listed = listed]
                     [] OTHER -> Work([job[r] EXCEPT !.todo = <<>>], "member", members))
     /\ UNCHANGED <<objects, input, there, faults>>

\* Any failure, on any page, is an empty listing.
ListFails(r) ==
  /\ At(r, "list") /\ Fault
  /\ Becomes(r, Answered(job[r], "not_found"))
  /\ UNCHANGED <<objects, input, there>>

\* EPT goes down: the connections break, an unfinished put leaves nothing.
Restart ==
  /\ Fault
  /\ job' = [r \in Requests |-> IF job[r].at \in {"idle", "done"} THEN job[r] ELSE [job[r] EXCEPT !.at = "cut"]]
  /\ \E r \in Requests : job'[r] # job[r]
  /\ UNCHANGED <<objects, input, there>>

-----------------------------------------------------------------------------
Proceeds(r) == Check(r) \/ Put(r) \/ Open(r) \/ Copy(r) \/ ListPage(r)
Trouble(r) == CheckFails(r) \/ PutFails(r) \/ OpenFails(r) \/ CopyBreaks(r) \/ ListFails(r)

-----------------------------------------------------------------------------
(* Properties                                                              *)

Own(r) == {k \in Keys : objects[k] # None /\ objects[k].by = r}

\* Types; what is done and what is left are the list of the way that is taken.
TypeOK ==
  /\ objects \in [Keys -> {None} \cup [by : Requests \cup {Earlier}, whole : BOOLEAN]]
  /\ there \in [Requests -> SUBSET Keys]
  /\ faults \in 0..MaxFaults
  /\ \A r \in Requests :
       /\ job[r].at \in {"idle", "check", "put", "open", "copy", "list", "fetch", "download", "convert", "deliver",
                        "write", "done", "cut"}
       /\ job[r].attempt \in 1..Attempts
       /\ job[r].todo # <<>> /\ ~At(r, "list") =>
            job[r].uploaded \o job[r].todo = Targets(input[r], job[r].way)

\* A request that may not overwrite never writes a key that there was when it came,
\* however many attempts, members and other requests lie between its checks and
\* its puts (put_to_s3, _put_s3_url, the attempts around them).
KeepsExisting ==
  [][\A r \in Requests, k \in Keys :
       objects'[k] # objects[k] /\ objects'[k].by = r /\ ~input[r].overwrite => k \notin there[r]]_objects

\* A request that is answered as completed has reported every target of its source,
\* in order, and each has an object, whole if it is the request's own
\* (upload_to_s3, _upload_http_source).
CompletedIsWhole ==
  \A r \in Requests : job[r].answer = "completed" /\ job[r].way # "directory" =>
    /\ job[r].uploaded = Targets(input[r], job[r].way)
    /\ \A k \in ToSet(job[r].uploaded) : objects[k] # None /\ (objects[k].by = r => objects[k].whole)

\* What a request leaves, whatever ended it, are whole objects in the order of its
\* list, and of the target after them perhaps something: a whole object whose write
\* is not known to have succeeded or, of a URL only, a piece of one.  When a URL turns
\* out to be a store, that may be left of the URL itself.  An invalid request leaves
\* nothing (put_to_s3, _put_s3_url, _upload_http_source).
LeavesAPrefix ==
  \A r \in Requests :
    /\ \A k \in Own(r) :
         \/ k \in ToSet(job[r].uploaded) /\ objects[k].whole
         \/ job[r].todo # <<>> /\ k = Head(job[r].todo) /\ (~objects[k].whole => job[r].way \notin Direct)
         \/ k = 0 /\ job[r].way \notin Direct
    /\ job[r].answer = "invalid" => Own(r) = {}

\* What a request is answered agrees with what it has left.
AnswersAreTrue == CompletedIsWhole /\ LeavesAPrefix

\* Every request that has come is answered, unless EPT goes down (time-bounded
\* attempts, a finite list, and the sock_read and read timeouts).
EveryUploadEnds == \A r \in Requests : ~At(r, "idle") ~> job[r].at \in {"done", "cut"}

=============================================================================
