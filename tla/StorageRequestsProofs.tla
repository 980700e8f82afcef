------------------------ MODULE StorageRequestsProofs ------------------------
(***************************************************************************)
(* Theorems about the requests that write a bucket: what they overwrite,   *)
(* report and leave, for any number of requests, keys, layers and faults.  *)
(***************************************************************************)
EXTENDS StorageRequests, RankTheorems

-----------------------------------------------------------------------------
(* The inductive invariant                                                 *)

Stages == {"idle", "check", "put", "open", "copy", "list", "fetch", "download", "convert", "deliver",
           "write", "done", "cut"}
Before == {"idle", "fetch", "download", "convert", "deliver", "write"}
Writing == {"check", "put", "open", "copy", "list"}
Ways == {"single", "member", "local", "export"}
AllWays == Ways \cup {"preview", "directory", None}
Refusals == {"invalid", "not_found", "exists", "failed"}
Answers == Refusals \cup {"completed", None}

Jobs == [at : Stages, way : AllWays, todo : Seq(Keys), uploaded : Seq(Keys), attempt : 1 .. Attempts,
         listed : Nat, answer : Answers]
Stored == [by : Requests \cup {Earlier}, whole : BOOLEAN]
Converted == {[conversion |-> c, overwrite |-> c.overwrite, members |-> InOrder(Outputs(c))] : c \in Conversions}

\* The kinds of things, in full.
Types ==
  /\ objects \in [Keys -> {None} \cup Stored]
  /\ input \in [Requests -> {None} \cup Inputs \cup Builds \cup Converted]
  /\ there \in [Requests -> SUBSET Keys]
  /\ faults \in 0 .. MaxFaults
  /\ job \in [Requests -> Jobs]
  /\ staged \in [Requests -> SUBSET Keys]
  /\ directory \in [Requests -> {None} \cup [by : Requests \cup {Earlier}, files : SUBSET Nat]]

\* What is done and what is left of a job make up its targets.
JobInv(j, i) ==
  /\ j.answer # None => j.at = "done"
  /\ j.at \in Before => j.todo = <<>> /\ j.uploaded = <<>>
  /\ j.at \in Writing => j.todo # <<>> /\ j.way \in Ways
  /\ j.at = "put" => j.way \in Direct
  /\ j.at \in {"open", "copy"} => j.way \notin Direct
  /\ j.at = "list" => j.way = "single"
  /\ j.todo # <<>> => j.uploaded \o j.todo = Targets(i, j.way)
  /\ j.todo # <<>> /\ j.way = "single" => j.uploaded = <<>> /\ j.todo = << 0 >>
  /\ j.way = "directory" => j.todo = <<>>
  /\ j.answer = "completed" => j.todo = <<>> /\ (j.way # "directory" => j.uploaded = Targets(i, j.way))

\* The next target of a job.
Upcoming(j, k) == j.todo # <<>> /\ k = Head(j.todo)

\* What is found there when it looks is there when it puts, too.
LooksInv(r) ==
  /\ there[r] \subseteq Present
  /\ job[r].at \in {"put", "open", "copy"} /\ ~input[r].overwrite => Head(job[r].todo) \notin there[r]

WholeInv(r) ==
  job[r].way # "directory" =>
    \A k \in ToSet(job[r].uploaded) :
      objects[k] # None /\ (objects[k].by = r => objects[k].whole \/ Upcoming(job[r], k))

OwnInv(r) ==
  /\ job[r].at \in Before \/ job[r].answer = "invalid" \/ job[r].way = "directory" => Own(r) = {}
  /\ \A k \in Own(r) :
       \/ k \in ToSet(job[r].uploaded) /\ objects[k].whole
       \/ Upcoming(job[r], k) /\ (~objects[k].whole => job[r].way \notin Direct)
       \/ k = 0 /\ job[r].way \notin Direct

\* A conversion has delivered to its directory.
Wrote(r) == directory[r] # None /\ directory[r].by = r

AllStaged(r) ==
  LET c == input[r].conversion
  IN  staged[r] = Outputs(c) /\ Cardinality(staged[r]) = Len(Selected(c))

\* The first n layers have files of their own.
StagedTo(r, n) ==
  /\ staged[r] = {Named(input[r].conversion)[m] : m \in 1 .. n}
  /\ IsFiniteSet(staged[r]) /\ Cardinality(staged[r]) = n

ConversionInv(r) ==
  LET c == input[r].conversion
  IN  /\ job[r].way = IF c.local THEN "directory" ELSE "local"
      /\ job[r].at = "download" => staged[r] = {}
      /\ job[r].at = "convert" => \E n \in 0 .. Len(Selected(c)) - 1 : StagedTo(r, n)
      /\ job[r].at \in Writing \cup {"deliver", "write"} \/ Own(r) # {} \/ Wrote(r) \/ job[r].answer = "completed"
           => AllStaged(r)
      /\ job[r].at \in {"deliver", "write"} => job[r].way = "directory"
      /\ Wrote(r) => job[r].way = "directory" /\ job[r].at \in {"done", "cut"}
      /\ job[r].answer \in {"invalid", "not_found"} => (Own(r) = {} /\ ~Wrote(r)) \/ job[r].todo # <<>>
      /\ job[r].way = "directory" /\ job[r].answer = "completed" =>
           directory[r] = [by |-> r, files |-> Outputs(c)]

PlaceInv(r) ==
  /\ job[r].at \in {"download", "convert", "deliver", "write"} => Converting(r)
  /\ job[r].at = "fetch" => input[r] \in Builds
  /\ job[r].todo # <<>> /\ job[r].way \in {"single", "member"} => input[r] \in Inputs
  /\ job[r].at = "idle" => staged[r] = {} /\ ~Wrote(r)
  /\ Converting(r) => ConversionInv(r)

RunInv(r) == JobInv(job[r], input[r]) /\ LooksInv(r) /\ WholeInv(r) /\ OwnInv(r) /\ PlaceInv(r)

Inv == Types /\ \A r \in Requests : RunInv(r)

-----------------------------------------------------------------------------
(* Sequences                                                               *)

LEMMA KeysAreKeys == LastKey \in Nat /\ 0 \in Keys /\ Keys \subseteq Nat
BY ConstantsAssumption DEF Keys

\* Taking the next target leaves the list what it is.
LEMMA Moved ==
  ASSUME NEW u \in Seq(Keys), NEW t \in Seq(Keys), t # <<>>
  PROVE  /\ Head(t) \in Keys /\ Tail(t) \in Seq(Keys) /\ Append(u, Head(t)) \in Seq(Keys)
         /\ Append(u, Head(t)) \o Tail(t) = u \o t
         /\ Tail(t) = <<>> => Append(u, Head(t)) = u \o t
         /\ <<>> \o t = t
<1>1. Append(u, Head(t)) \o Tail(t) = u \o t
  OBVIOUS
<1>2. Append(u, Head(t)) \o <<>> = Append(u, Head(t))
  OBVIOUS
<1>3. Head(t) \in Keys /\ Tail(t) \in Seq(Keys) /\ Append(u, Head(t)) \in Seq(Keys) /\ <<>> \o t = t
  OBVIOUS
<1> QED  BY <1>1, <1>2, <1>3

LEMMA AppendedSet ==
  ASSUME NEW u \in Seq(Keys), NEW k \in Keys
  PROVE  ToSet(Append(u, k)) = ToSet(u) \cup {k}
<1> DEFINE n == Len(u)
           v == Append(u, k)
<1>1. n \in Nat /\ DOMAIN u = 1 .. n /\ DOMAIN v = 1 .. n + 1
  OBVIOUS
<1>2. v[n + 1] = k /\ \A i \in 1 .. n : v[i] = u[i]
  OBVIOUS
<1> HIDE DEF n, v
<1>3. ToSet(v) = {v[i] : i \in 1 .. n + 1} /\ ToSet(u) = {u[i] : i \in 1 .. n}
  BY <1>1 DEF ToSet
<1>4. 1 .. n + 1 = (1 .. n) \cup {n + 1}
  BY <1>1
<1> QED  BY <1>2, <1>3, <1>4 DEF v

LEMMA EmptySet ==
  ToSet(<<>>) = {}
BY DEF ToSet

\* The target itself is a list of one.
LEMMA OneTarget ==
  << 0 >> \in Seq(Keys) /\ << 0 >> # <<>> /\ Head(<< 0 >>) = 0 /\ Tail(<< 0 >>) = <<>>
BY KeysAreKeys

LEMMA NoneIsApart ==
  /\ \A o \in Stored : o # None
  /\ \A answer \in Refusals \cup {"completed"} : answer # None
BY ConstantsAssumption DEF Stored, Refusals

-----------------------------------------------------------------------------
(* Jobs                                                                    *)

\* A list of targets is a job, or done when it is empty.
LEMMA WorkKeeps ==
  ASSUME NEW j \in Jobs, NEW i, NEW way \in Ways \cup {"preview"}, NEW targets \in Seq(Keys),
         j.answer = None, targets # <<>> => way \in Ways, j.todo = <<>>,
         j.uploaded \o targets = Targets(i, way),
         way = "single" /\ targets # <<>> => j.uploaded = <<>> /\ targets = << 0 >>
  PROVE  LET w == Work(j, way, targets)
         IN  /\ w \in Jobs /\ JobInv(w, i)
             /\ w.uploaded = j.uploaded /\ w.way = way /\ w.todo = targets
             /\ IF targets = <<>> THEN w.at = "done" /\ w.answer = "completed"
                                  ELSE w.at = "check" /\ w.answer = None
<1>1. CASE targets = <<>>
  <2>1. Work(j, way, targets) = [j EXCEPT !.way = way, !.at = "done", !.answer = "completed"]
    BY <1>1 DEF Work, Answered, Jobs
  <2>2. j.uploaded = Targets(i, way)
    <3>1. j.uploaded \in Seq(Keys)
      BY DEF Jobs
    <3>2. j.uploaded \o <<>> = j.uploaded
      BY <3>1
    <3> QED  BY <1>1, <3>2
  <2> DEFINE w == [j EXCEPT !.way = way, !.at = "done", !.answer = "completed"]
  <2>3. /\ w \in Jobs /\ w.at = "done" /\ w.way = way /\ w.todo = j.todo /\ w.uploaded = j.uploaded
        /\ w.answer = "completed"
    <3>1. "done" \in Stages /\ way \in AllWays /\ "completed" \in Answers
      BY DEF Stages, AllWays, Answers
    <3> QED  BY <3>1 DEF Jobs
  <2> HIDE DEF w
  <2>4. JobInv(w, i)
    BY <2>2, <2>3 DEF JobInv, Before, Writing, Ways
  <2> QED  BY <1>1, <2>1, <2>3, <2>4 DEF w
<1>2. CASE targets # <<>>
  <2> DEFINE w == [j EXCEPT !.at = "check", !.way = way, !.todo = targets, !.attempt = 1]
  <2>1. Work(j, way, targets) = w
    BY <1>2 DEF Work
  <2>2. /\ w \in Jobs /\ w.at = "check" /\ w.way = way /\ w.todo = targets /\ w.uploaded = j.uploaded
        /\ w.answer = None
    <3>1. "check" \in Stages /\ way \in AllWays /\ 1 \in 1 .. Attempts
      BY <1>2, ConstantsAssumption DEF Stages, AllWays
    <3> QED  BY <3>1 DEF Jobs
  <2> HIDE DEF w
  <2>3. JobInv(w, i)
    BY <1>2, <2>2, NoneIsApart DEF JobInv, Before, Writing, Ways
  <2> QED  BY <1>2, <2>1, <2>2, <2>3
<1> QED  BY <1>1, <1>2

\* A refusal or a failure ends a job where it is.
LEMMA AnsweredKeeps ==
  ASSUME NEW j \in Jobs, NEW i, JobInv(j, i), NEW answer \in Refusals
  PROVE  LET w == Answered(j, answer)
         IN  /\ w \in Jobs /\ JobInv(w, i)
             /\ w.at = "done" /\ w.answer = answer
             /\ w.uploaded = j.uploaded /\ w.way = j.way /\ w.todo = j.todo
<1> DEFINE w == [j EXCEPT !.at = "done", !.answer = answer]
<1>1. Answered(j, answer) = w
  BY DEF Answered
<1>2. /\ w \in Jobs /\ w.at = "done" /\ w.way = j.way /\ w.todo = j.todo /\ w.uploaded = j.uploaded
      /\ w.answer = answer
  <2>1. "done" \in Stages /\ answer \in Answers
    BY DEF Stages, Answers
  <2> QED  BY <2>1 DEF Jobs
<1> HIDE DEF w
<1>3. JobInv(w, i)
  BY <1>2 DEF JobInv, Before, Writing, Refusals
<1> QED  BY <1>1, <1>2, <1>3

\* The next stage of a job that has targets left.
LEMMA StageKeeps ==
  ASSUME NEW j \in Jobs, NEW i, JobInv(j, i), j.at \in Writing,
         NEW w \in Jobs, w.at \in Writing \cup {"cut"},
         w.uploaded = j.uploaded, w.way = j.way, w.todo = j.todo, w.answer = j.answer,
         w.at = "put" => j.way \in Direct, w.at \in {"open", "copy"} => j.way \notin Direct,
         w.at = "list" => j.way = "single"
  PROVE  JobInv(w, i) /\ w.answer = None
<1>1. j.answer = None
  BY DEF JobInv, Writing
<1>2. JobInv(w, i)
  BY <1>1, NoneIsApart DEF JobInv, Before, Writing
<1> QED  BY <1>1, <1>2

\* What is written is done, and the rest is left.
LEMMA AdvanceKeeps ==
  ASSUME NEW j \in Jobs, NEW i, JobInv(j, i), j.at \in Writing
  PROVE  LET w == Advance(j)
         IN  /\ w \in Jobs /\ JobInv(w, i)
             /\ j.todo \in Seq(Keys) /\ j.todo # <<>> /\ Head(j.todo) \in Keys
             /\ w.at \in {"check", "done"} /\ w.answer \in {None, "completed"}
             /\ w.uploaded = Append(j.uploaded, Head(j.todo)) /\ w.way = j.way
             /\ w.at = "check" => w.answer = None
<1>1. j.todo \in Seq(Keys) /\ j.todo # <<>> /\ j.uploaded \in Seq(Keys) /\ j.way \in Ways /\ j.answer = None
  BY DEF JobInv, Writing, Jobs
<1> DEFINE k == Head(j.todo)
           v == [j EXCEPT !.uploaded = Append(@, k), !.todo = <<>>]
<1>2. /\ k \in Keys /\ Tail(j.todo) \in Seq(Keys) /\ Append(j.uploaded, k) \in Seq(Keys)
      /\ Append(j.uploaded, k) \o Tail(j.todo) = j.uploaded \o j.todo
  BY <1>1, Moved
<1>3. j.uploaded \o j.todo = Targets(i, j.way)
  BY <1>1 DEF JobInv
<1>4. j.way = "single" => Tail(j.todo) = <<>>
  BY <1>1, OneTarget DEF JobInv
<1>5. /\ v \in Jobs /\ v.way = j.way /\ v.todo = <<>> /\ v.uploaded = Append(j.uploaded, k)
      /\ v.answer = None
  <2> HIDE DEF k
  <2>1. <<>> \in Seq(Keys)
    OBVIOUS
  <2> QED  BY <1>1, <1>2, <2>1 DEF Jobs
<1>6. Advance(j) = Work(v, j.way, Tail(j.todo))
  BY DEF Advance
<1> DEFINE rest == Tail(j.todo)
<1>7. rest \in Seq(Keys) /\ v.uploaded \o rest = Targets(i, j.way)
  BY <1>2, <1>3, <1>5
<1>8. /\ v.answer = None /\ j.way \in Ways /\ v.todo = <<>>
      /\ j.way = "single" /\ rest # <<>> => v.uploaded = <<>> /\ rest = << 0 >>
  BY <1>1, <1>4, <1>5
<1> HIDE DEF v, k, rest
<1>9. /\ Advance(j) \in Jobs /\ JobInv(Advance(j), i)
      /\ Advance(j).uploaded = v.uploaded /\ Advance(j).way = j.way
      /\ IF Tail(j.todo) = <<>> THEN Advance(j).at = "done" /\ Advance(j).answer = "completed"
                                ELSE Advance(j).at = "check" /\ Advance(j).answer = None
  <2>1. Advance(j) = Work(v, j.way, rest)
    BY <1>6 DEF rest
  <2>2. j.way \in Ways \cup {"preview"} /\ (rest # <<>> => j.way \in Ways) /\ v \in Jobs
    BY <1>5, <1>8
  <2>3. LET w == Work(v, j.way, rest)
        IN  /\ w \in Jobs /\ JobInv(w, i) /\ w.uploaded = v.uploaded /\ w.way = j.way
            /\ IF rest = <<>> THEN w.at = "done" /\ w.answer = "completed"
                              ELSE w.at = "check" /\ w.answer = None
    BY <1>7, <1>8, <2>2, WorkKeeps
  <2> QED  BY <2>1, <2>3 DEF rest
<1> QED  BY <1>1, <1>2, <1>5, <1>9 DEF k

\* A source that is not found is tried again, or listed, or ends the job.
LEMMA NotFoundKeeps ==
  ASSUME NEW j \in Jobs, NEW i, JobInv(j, i), j.at \in {"open", "copy"}
  PROVE  LET w == NotFound(j)
         IN  /\ w \in Jobs /\ JobInv(w, i)
             /\ \/ w.at \in {"check", "list"} /\ w.answer = None
                \/ w.at = "done" /\ w.answer = "not_found"
             /\ w.uploaded = j.uploaded /\ w.way = j.way /\ w.todo = j.todo
<1>1. j.at \in Writing /\ j.way \in {"single", "member"} /\ j.attempt \in 1 .. Attempts /\ j.listed \in Nat
  BY DEF JobInv, Writing, Ways, Direct, Jobs
<1>2. CASE j.way = "member"
  <2>1. NotFound(j) = Answered(j, "not_found") /\ "not_found" \in Refusals
    BY <1>2 DEF NotFound, Refusals
  <2> QED  BY <2>1, AnsweredKeeps
<1>3. CASE j.way # "member" /\ j.attempt < Attempts
  <2>1. j.attempt + 1 \in 1 .. Attempts
    BY <1>1, <1>3, ConstantsAssumption
  <2>2. NotFound(j) = [j EXCEPT !.at = "check", !.attempt = j.attempt + 1, !.listed = j.listed]
    BY <1>3 DEF NotFound, Jobs
  <2>3. "check" \in Writing /\ "check" \in Stages
    BY DEF Writing, Stages
  <2>4. /\ NotFound(j) \in Jobs /\ NotFound(j).at = "check"
        /\ NotFound(j).uploaded = j.uploaded /\ NotFound(j).way = j.way
        /\ NotFound(j).todo = j.todo /\ NotFound(j).answer = j.answer
    BY <1>1, <2>1, <2>2, <2>3 DEF Jobs
  <2> QED  BY <1>1, <2>3, <2>4, StageKeeps
<1>4. CASE j.way # "member" /\ ~(j.attempt < Attempts)
  <2>1. NotFound(j) = [j EXCEPT !.at = "list", !.attempt = j.attempt, !.listed = j.listed]
    BY <1>4 DEF NotFound, Jobs
  <2>2. "list" \in Writing /\ "list" \in Stages /\ j.way = "single"
    BY <1>1, <1>4 DEF Writing, Stages
  <2>3. /\ NotFound(j) \in Jobs /\ NotFound(j).at = "list"
        /\ NotFound(j).uploaded = j.uploaded /\ NotFound(j).way = j.way
        /\ NotFound(j).todo = j.todo /\ NotFound(j).answer = j.answer
    BY <1>1, <2>1, <2>2 DEF Jobs
  <2> QED  BY <1>1, <2>2, <2>3, StageKeeps
<1> QED  BY <1>2, <1>3, <1>4

-----------------------------------------------------------------------------
(* What a step leaves                                                      *)

\* A step that is none of q's: it keeps what is its own, and objects are replaced by
\* those of others.
Undisturbed(q) ==
  /\ input'[q] = input[q] /\ there'[q] = there[q] /\ job'[q] = job[q]
  /\ staged'[q] = staged[q] /\ directory'[q] = directory[q]
  /\ \A k \in Keys : objects'[k] = objects[k] \/ (objects'[k] # None /\ objects'[k].by # q)

\* A step of r.
OwnStep(r) == \A q \in Requests \ {r} : Undisturbed(q)

LEMMA OthersKeep ==
  ASSUME Types, NEW q \in Requests, Undisturbed(q), RunInv(q)
  PROVE  RunInv(q)'
<1>1. /\ input'[q] = input[q] /\ there'[q] = there[q] /\ job'[q] = job[q]
      /\ staged'[q] = staged[q] /\ directory'[q] = directory[q]
  BY DEF Undisturbed
<1>2. \A k \in Keys : objects[k] # None => objects'[k] # None
  BY DEF Undisturbed
<1>3. \A k \in Keys : objects'[k] # None /\ objects'[k].by = q => objects'[k] = objects[k]
  BY DEF Undisturbed
<1>4. Own(q)' \subseteq Own(q) /\ \A k \in Own(q)' : objects'[k] = objects[k]
  BY <1>3 DEF Own
<1>5. JobInv(job[q], input[q])'
  <2>1. JobInv(job'[q], input'[q])
    BY <1>1 DEF RunInv
  <2> QED  BY <2>1
<1>6. LooksInv(q)'
  <2>1. Present \subseteq Present'
    BY <1>2 DEF Present
  <2> QED  BY <1>1, <2>1 DEF RunInv, LooksInv
<1>7. WholeInv(q)'
  <2>1. job[q].way # "directory" => \A k \in ToSet(job[q].uploaded) : k \in Keys
    <3>1. job[q].uploaded \in Seq(Keys)
      BY DEF Types, Jobs
    <3> QED  BY <3>1 DEF ToSet
  <2> QED  BY <1>1, <1>2, <1>3, <2>1 DEF RunInv, WholeInv, Upcoming
<1>8. OwnInv(q)'
  BY <1>1, <1>4 DEF RunInv, OwnInv, Upcoming
<1>9. PlaceInv(q)'
  <2>1. Own(q)' # {} => Own(q) # {}
    BY <1>4
  <2>2. (Wrote(q)' <=> Wrote(q)) /\ (AllStaged(q)' <=> AllStaged(q)) /\ (Converting(q)' <=> Converting(q))
    BY <1>1 DEF Wrote, AllStaged, Converting
  <2>3. \A n : StagedTo(q, n)' <=> StagedTo(q, n)
    BY <1>1 DEF StagedTo
  <2>4. Converting(q) => ConversionInv(q)'
    <3>1. Converting(q) => ConversionInv(q)
      BY DEF RunInv, PlaceInv
    <3> QED  BY <1>1, <2>1, <2>2, <2>3, <3>1 DEF ConversionInv
  <2> QED  BY <1>1, <2>2, <2>4 DEF RunInv, PlaceInv
<1> QED  BY <1>5, <1>6, <1>7, <1>8, <1>9 DEF RunInv

\* Nothing is written, and the job goes on with the targets it has, or ends.
LEMMA SameTargets ==
  ASSUME Types, NEW r \in Requests, RunInv(r),
         objects' = objects, there'[r] = there[r], input'[r] = input[r],
         job'[r].way = job[r].way, job'[r].todo = job[r].todo, job'[r].uploaded = job[r].uploaded,
         job'[r].at \in Before => job[r].at \in Before,
         job'[r].answer = "invalid" => Own(r) = {},
         job'[r].at \in {"put", "open", "copy"} /\ ~input[r].overwrite => Head(job[r].todo) \notin there[r]
  PROVE  LooksInv(r)' /\ WholeInv(r)' /\ OwnInv(r)'
<1>1. Own(r)' = Own(r) /\ Present' = Present
  BY DEF Own, Present
<1>2. LooksInv(r)'
  BY <1>1 DEF RunInv, LooksInv
<1>3. WholeInv(r)'
  BY DEF RunInv, WholeInv, Upcoming
<1>4. OwnInv(r)'
  BY <1>1 DEF RunInv, OwnInv, Upcoming
<1> QED  BY <1>2, <1>3, <1>4

\* A request that has written nothing yet gets its targets, or goes on without.
LEMMA FirstTargets ==
  ASSUME NEW r \in Requests, Own(r) = {}, objects' = objects, there'[r] \subseteq Present,
         job'[r].at \notin {"put", "open", "copy"},
         job'[r].uploaded = <<>> \/ job'[r].way = "directory"
  PROVE  LooksInv(r)' /\ WholeInv(r)' /\ OwnInv(r)'
<1>1. Own(r)' = {} /\ Present' = Present
  BY DEF Own, Present
<1> QED  BY <1>1, EmptySet DEF LooksInv, WholeInv, OwnInv

\* A conversion that delivers to the bucket has converted all of its layers.
LEMMA DeliveryKeepsPlace ==
  ASSUME NEW r \in Requests, RunInv(r), job[r].at \in Writing,
         input'[r] = input[r], staged'[r] = staged[r], directory'[r] = directory[r],
         job'[r].at \in Writing \cup {"done", "cut"},
         IF job[r].way = "single" THEN job'[r].way \in {"single", "member"} ELSE job'[r].way = job[r].way,
         job'[r].answer \in {"invalid", "not_found"} => job'[r].todo # <<>>
  PROVE  PlaceInv(r)'
<1>1. /\ job[r].way \in Ways
      /\ job'[r].at \notin Before
  BY DEF RunInv, JobInv, Before, Writing
<1>2. (Wrote(r)' <=> Wrote(r)) /\ (AllStaged(r)' <=> AllStaged(r)) /\ (Converting(r)' <=> Converting(r))
  BY DEF Wrote, AllStaged, Converting
<1>3. ASSUME Converting(r) PROVE ConversionInv(r)'
  <2>1. ConversionInv(r)
    BY <1>3 DEF RunInv, PlaceInv
  <2>2. job[r].way = "local" /\ ~input[r].conversion.local
    BY <1>1, <2>1 DEF ConversionInv, Ways
  <2>3. job'[r].way = "local"
    BY <2>2 DEF Direct
  <2>4. AllStaged(r) /\ ~Wrote(r)
    BY <2>1, <2>2 DEF ConversionInv
  <2> QED  BY <1>1, <1>2, <2>2, <2>3, <2>4 DEF ConversionInv, Before
<1>4. job'[r].way \in {"single", "member"} => input[r] \in Inputs
  BY DEF RunInv, PlaceInv, JobInv
<1> QED  BY <1>1, <1>2, <1>3, <1>4 DEF PlaceInv, Before

\* A request that ends where it is keeps what it has staged and delivered.
LEMMA EndKeepsPlace ==
  ASSUME Types, NEW r \in Requests, RunInv(r), objects' = objects,
         input'[r] = input[r], staged'[r] = staged[r], directory'[r] = directory[r],
         job'[r].at \in {"done", "cut"}, job'[r].way = job[r].way, job'[r].todo = job[r].todo,
         job'[r].answer # "completed", job[r].at \notin {"idle", "done", "cut"}
  PROVE  PlaceInv(r)'
<1>1. Own(r)' = Own(r)
  BY DEF Own
<1>2. (Wrote(r)' <=> Wrote(r)) /\ (AllStaged(r)' <=> AllStaged(r)) /\ (Converting(r)' <=> Converting(r))
  BY DEF Wrote, AllStaged, Converting
<1>3. ASSUME Converting(r) PROVE ConversionInv(r)'
  <2>1. ConversionInv(r) /\ ~Wrote(r)
    BY <1>3 DEF RunInv, PlaceInv, ConversionInv
  <2>2. job[r].todo # <<>> \/ Own(r) = {}
    <3>1. job[r].at \in Writing \cup Before
      BY DEF Types, Jobs, Stages, Writing, Before
    <3> QED  BY <3>1 DEF RunInv, JobInv, OwnInv
  <2> QED  BY <1>1, <1>2, <2>1, <2>2 DEF ConversionInv, Writing
<1> QED  BY <1>2, <1>3 DEF PlaceInv, RunInv

-----------------------------------------------------------------------------
(* Steps of one request                                                    *)

LEMMA FaultsAreBounded ==
  ASSUME Types, Fault \/ faults' = faults
  PROVE  faults' \in 0 .. MaxFaults
BY ConstantsAssumption DEF Types, Fault

\* A step that touches nothing but its job.
LEMMA JobStep ==
  ASSUME Types, NEW r \in Requests, NEW w \in Jobs, Becomes(r, w), faults' \in 0 .. MaxFaults,
         UNCHANGED <<objects, input, there, staged, directory>>
  PROVE  Types' /\ OwnStep(r) /\ job'[r] = w
<1>1. job' = [job EXCEPT ![r] = w] /\ job \in [Requests -> Jobs]
  BY DEF Becomes, Types
<1>2. job' \in [Requests -> Jobs] /\ job'[r] = w /\ \A q \in Requests \ {r} : job'[q] = job[q]
  BY <1>1
<1> QED  BY <1>2 DEF Types, OwnStep, Undisturbed

\* A step that writes a key, too.
LEMMA WriteStep ==
  ASSUME Types, NEW r \in Requests, NEW w \in Jobs, Becomes(r, w), faults' \in 0 .. MaxFaults,
         NEW k \in Keys, NEW whole \in BOOLEAN, Writes(r, k, whole),
         UNCHANGED <<input, there, staged, directory>>
  PROVE  /\ Types' /\ OwnStep(r) /\ job'[r] = w
         /\ objects'[k] = [by |-> r, whole |-> whole] /\ objects'[k] # None
         /\ \A l \in Keys \ {k} : objects'[l] = objects[l]
<1> DEFINE o == [by |-> r, whole |-> whole]
<1>1. o \in Stored /\ o # None /\ o.by = r
  <2>1. o \in Stored /\ o.by = r
    BY DEF Stored
  <2> QED  BY <2>1, NoneIsApart
<1>2. job' = [job EXCEPT ![r] = w] /\ job \in [Requests -> Jobs]
  BY DEF Becomes, Types
<1>3. job' \in [Requests -> Jobs] /\ job'[r] = w /\ \A q \in Requests \ {r} : job'[q] = job[q]
  BY <1>2
<1>4. objects' = [objects EXCEPT ![k] = o] /\ objects \in [Keys -> {None} \cup Stored]
  BY DEF Writes, Types
<1> HIDE DEF o
<1>5. /\ objects' \in [Keys -> {None} \cup Stored] /\ objects'[k] = o
      /\ \A l \in Keys \ {k} : objects'[l] = objects[l]
  BY <1>1, <1>4
<1>6. Types' /\ OwnStep(r)
  BY <1>1, <1>3, <1>5 DEF Types, OwnStep, Undisturbed
<1> QED  BY <1>1, <1>3, <1>5, <1>6 DEF o

\* It is enough to look at the one that steps.
LEMMA OwnStepKeeps ==
  ASSUME Inv, NEW r \in Requests, OwnStep(r), Types', RunInv(r)'
  PROVE  Inv'
<1>1. ASSUME NEW q \in Requests PROVE RunInv(q)'
  <2>1. CASE q = r
    BY <2>1
  <2>2. CASE q # r
    BY <2>2, OthersKeep DEF Inv, OwnStep
  <2> QED  BY <2>1, <2>2
<1> QED  BY <1>1 DEF Inv

\* A writing job goes on with its targets, or ends.
LEMMA GoesOn ==
  ASSUME Inv, NEW r \in Requests, job[r].at \in Writing,
         NEW w \in Jobs, JobInv(w, input[r]), Becomes(r, w), faults' \in 0 .. MaxFaults,
         UNCHANGED <<objects, input, there, staged, directory>>,
         w.at \in Writing \cup {"done", "cut"}, w.answer # "invalid",
         w.way = job[r].way, w.todo = job[r].todo, w.uploaded = job[r].uploaded,
         w.at \in {"put", "open", "copy"} /\ ~input[r].overwrite => Head(job[r].todo) \notin there[r]
  PROVE  Inv'
<1>1. Types /\ RunInv(r)
  BY DEF Inv
<1>2. Types' /\ OwnStep(r) /\ job'[r] = w
  BY <1>1, JobStep
<1>3. w.at \notin Before /\ job[r].todo # <<>>
  BY <1>1 DEF Before, Writing, RunInv, JobInv
<1>4. LooksInv(r)' /\ WholeInv(r)' /\ OwnInv(r)'
  BY <1>1, <1>2, <1>3, SameTargets
<1>5. PlaceInv(r)'
  BY <1>1, <1>2, <1>3, DeliveryKeepsPlace
<1>6. JobInv(job[r], input[r])'
  <2>1. JobInv(job'[r], input'[r])
    BY <1>2
  <2> QED  BY <2>1
<1> QED  BY <1>2, <1>4, <1>5, <1>6, OwnStepKeeps DEF RunInv

\* A job ends where it is.
LEMMA Ends ==
  ASSUME Inv, NEW r \in Requests, job[r].at \notin {"idle", "done", "cut"},
         NEW answer \in Refusals, Becomes(r, Answered(job[r], answer)), faults' \in 0 .. MaxFaults,
         UNCHANGED <<objects, input, there, staged, directory>>,
         answer = "invalid" => job[r].at \in Before
  PROVE  Inv'
<1>1. Types /\ RunInv(r) /\ job[r] \in Jobs
  BY DEF Inv, Types
<1> DEFINE w == Answered(job[r], answer)
<1>2. /\ w \in Jobs /\ JobInv(w, input[r]) /\ w.at = "done" /\ w.answer = answer
      /\ w.uploaded = job[r].uploaded /\ w.way = job[r].way /\ w.todo = job[r].todo
  BY <1>1, AnsweredKeeps DEF RunInv
<1> HIDE DEF w
<1>3. Types' /\ OwnStep(r) /\ job'[r] = w
  BY <1>1, <1>2, JobStep DEF w
<1>4. answer = "invalid" => Own(r) = {}
  BY <1>1 DEF RunInv, OwnInv
<1>5. LooksInv(r)' /\ WholeInv(r)' /\ OwnInv(r)'
  BY <1>1, <1>2, <1>3, <1>4, SameTargets DEF Before
<1>6. PlaceInv(r)'
  BY <1>1, <1>2, <1>3, EndKeepsPlace DEF Refusals
<1>7. JobInv(job[r], input[r])'
  <2>1. JobInv(job'[r], input'[r])
    BY <1>2, <1>3
  <2> QED  BY <2>1
<1> QED  BY <1>3, <1>5, <1>6, <1>7, OwnStepKeeps DEF RunInv

-----------------------------------------------------------------------------
(* Requests that come                                                      *)

LEMMA IdleJob ==
  /\ Idle \in Jobs /\ \A i : JobInv(Idle, i)
  /\ Idle.at = "idle" /\ Idle.way = None /\ Idle.todo = <<>> /\ Idle.uploaded = <<>> /\ Idle.answer = None
  /\ Idle.attempt = 1 /\ Idle.listed = 0
<1>1. "idle" \in Stages /\ None \in AllWays /\ None \in Answers /\ 1 \in 1 .. Attempts
  BY ConstantsAssumption DEF Stages, AllWays, Answers
<1>2. <<>> \in Seq(Keys)
  OBVIOUS
<1>3. Idle \in Jobs
  BY <1>1, <1>2 DEF Idle, Jobs
<1>4. /\ Idle.at = "idle" /\ Idle.way = None /\ Idle.todo = <<>> /\ Idle.uploaded = <<>> /\ Idle.answer = None
      /\ Idle.attempt = 1 /\ Idle.listed = 0
  BY DEF Idle
<1>5. \A i : JobInv(Idle, i)
  BY <1>4, NoneIsApart DEF JobInv, Before, Writing
<1> QED  BY <1>3, <1>4, <1>5

\* A request is refused, or gets its targets, before it has written anything.
LEMMA Refused ==
  ASSUME NEW j \in Jobs, NEW i, JobInv(j, i), j.uploaded = <<>>, NEW answer \in Refusals
  PROVE  LET w == Answered(j, answer)
         IN  w \in Jobs /\ JobInv(w, i) /\ w.uploaded = <<>> /\ w.at = "done" /\ w.answer = answer
             /\ w.way = j.way /\ w.todo = j.todo
BY AnsweredKeeps

LEMMA Targeted ==
  ASSUME NEW j \in Jobs, j.answer = None, j.todo = <<>>, j.uploaded = <<>>,
         NEW i, NEW way \in Ways \cup {"preview"}, NEW targets \in Seq(Keys), targets = Targets(i, way),
         targets # <<>> => way \in Ways
  PROVE  LET w == Work(j, way, targets)
         IN  w \in Jobs /\ JobInv(w, i) /\ w.uploaded = <<>> /\ w.at \in {"check", "done"}
             /\ w.answer \in {None, "completed"} /\ w.way = way /\ w.todo = targets
<1>1. j.uploaded \o targets = Targets(i, way)
  OBVIOUS
<1>2. way = "single" => targets = << 0 >>
  BY DEF Targets
<1> QED  BY <1>1, <1>2, WorkKeeps

\* Only the input of a conversion says so.
LEMMA InputKinds ==
  /\ \A i \in Inputs : "conversion" \notin DOMAIN i /\ i.members \in Seq(Keys)
  /\ \A b \in Builds : "conversion" \notin DOMAIN b /\ b.members = <<>>
  /\ \A i \in Converted : \E c \in Conversions :
       i.conversion = c /\ i.members = InOrder(Outputs(c)) /\ i.overwrite = c.overwrite
<1>1. ASSUME NEW i \in Inputs PROVE "conversion" \notin DOMAIN i /\ i.members \in Seq(Keys)
  <2>1. i \in [source : {"missing", "file", "folder", "url"}, bucket : BOOLEAN, recursive : BOOLEAN,
               overwrite : BOOLEAN, members : Seq(0..LastKey), single : BOOLEAN]
    BY ConstantsAssumption
  <2> QED  BY <2>1 DEF Keys
<1>2. ASSUME NEW b \in Builds PROVE "conversion" \notin DOMAIN b /\ b.members = <<>>
  <2>1. b \in [base : {"fields", "json", "url"}, valid : BOOLEAN, bucket : BOOLEAN, target : BOOLEAN,
               overwrite : BOOLEAN, members : {<<>>}]
    BY BuildsAssumption
  <2> QED  BY <2>1
<1> QED  BY <1>1, <1>2 DEF Converted

LEMMA ArrivalKeeps ==
  ASSUME Inv, NEW r \in Requests, NEW i \in Inputs \cup Builds \cup Converted, NEW j \in Jobs,
         JobInv(j, i), j.uploaded = <<>>, j.at \notin {"put", "open", "copy"},
         Arrive(r, i, j), UNCHANGED <<staged, directory>>,
         input'[r] = i /\ job'[r] = j => PlaceInv(r)'
  PROVE  Inv'
<1>1. /\ job[r].at = "idle" /\ input' = [input EXCEPT ![r] = i] /\ there' = [there EXCEPT ![r] = Present]
      /\ job' = [job EXCEPT ![r] = j] /\ objects' = objects /\ faults' = faults
  BY DEF Arrive, At, Becomes
<1>2. Types /\ RunInv(r)
  BY DEF Inv
<1>3. Present \in SUBSET Keys
  BY DEF Present
<1>4. /\ input'[r] = i /\ there'[r] = Present /\ job'[r] = j
      /\ \A q \in Requests \ {r} : input'[q] = input[q] /\ there'[q] = there[q] /\ job'[q] = job[q]
  BY <1>1, <1>2 DEF Types
<1>5. Types'
  <2>1. input' \in [Requests -> {None} \cup Inputs \cup Builds \cup Converted]
    BY <1>1, <1>2 DEF Types
  <2>2. there' \in [Requests -> SUBSET Keys] /\ job' \in [Requests -> Jobs]
    BY <1>1, <1>2, <1>3 DEF Types
  <2> QED  BY <1>1, <1>2, <2>1, <2>2 DEF Types
<1>6. OwnStep(r)
  BY <1>1, <1>4 DEF OwnStep, Undisturbed
<1>7. Own(r) = {}
  BY <1>1, <1>2 DEF RunInv, OwnInv, Before
<1>8. LooksInv(r)' /\ WholeInv(r)' /\ OwnInv(r)'
  BY <1>1, <1>4, <1>7, FirstTargets
<1>9. JobInv(job[r], input[r])'
  <2>1. JobInv(job'[r], input'[r])
    BY <1>4
  <2> QED  BY <2>1
<1> QED  BY <1>4, <1>5, <1>6, <1>8, <1>9, OwnStepKeeps DEF RunInv

\* An upload is none of a conversion.
LEMMA StartKeeps ==
  ASSUME Inv, NEW r \in Requests, Start(r), UNCHANGED convVars
  PROVE  Inv'
<1>1. PICK i \in Inputs : Arrive(r, i, Begin(i))
  BY DEF Start
<1>2. "conversion" \notin DOMAIN i /\ i.members \in Seq(Keys)
  BY InputKinds
<1> DEFINE j == Begin(i)
<1>3. j \in Jobs /\ JobInv(j, i) /\ j.uploaded = <<>> /\ j.at \in {"check", "done"}
  <2>1. \A answer \in {"invalid", "not_found"} :
          LET w == Answered(Idle, answer)
          IN  w \in Jobs /\ JobInv(w, i) /\ w.uploaded = <<>> /\ w.at = "done"
    <3>1. {"invalid", "not_found"} \subseteq Refusals
      BY DEF Refusals
    <3>2. Idle \in Jobs /\ JobInv(Idle, i) /\ Idle.uploaded = <<>>
      BY IdleJob
    <3> QED  BY <3>1, <3>2, IdleJob, Refused
  <2>2. LET w == Work(Idle, "single", << 0 >>)
        IN  w \in Jobs /\ JobInv(w, i) /\ w.uploaded = <<>> /\ w.at \in {"check", "done"}
    <3> DEFINE t == << 0 >>
    <3>1. Targets(i, "single") = t /\ "single" \in Ways /\ t \in Seq(Keys)
      BY OneTarget DEF Targets, Ways
    <3> HIDE DEF t
    <3>2. LET w == Work(Idle, "single", t)
          IN  w \in Jobs /\ JobInv(w, i) /\ w.uploaded = <<>> /\ w.at \in {"check", "done"}
      BY <3>1, IdleJob, Targeted
    <3> QED  BY <3>2 DEF t
  <2>3. LET w == Work(Idle, "local", i.members)
        IN  w \in Jobs /\ JobInv(w, i) /\ w.uploaded = <<>> /\ w.at \in {"check", "done"}
    <3>1. Targets(i, "local") = i.members /\ "local" \in Ways
      BY DEF Targets, Ways
    <3> QED  BY <1>2, <3>1, IdleJob, Targeted
  <2> QED  BY <2>1, <2>2, <2>3 DEF Begin
<1> HIDE DEF j
<1>4. ASSUME input'[r] = i, job'[r] = j PROVE PlaceInv(r)'
  BY <1>2, <1>3, <1>4 DEF PlaceInv, Converting
<1> QED  BY <1>1, <1>3, <1>4, ArrivalKeeps DEF convVars, j

-----------------------------------------------------------------------------
(* Uploads                                                                 *)

\* What is not there when it looks was not there when it came.
LEMMA CheckKeeps ==
  ASSUME Inv, NEW r \in Requests, Check(r), UNCHANGED convVars
  PROVE  Inv'
<1>1. /\ Types /\ RunInv(r) /\ job[r] \in Jobs /\ job[r].at = "check" /\ job[r].at \in Writing
      /\ faults' \in 0 .. MaxFaults
  BY FaultsAreBounded DEF Check, At, Inv, Types, Writing
<1>2. job[r].todo # <<>> /\ job[r].todo \in Seq(Keys) /\ job[r].way \in Ways /\ job[r].answer = None
  BY <1>1 DEF RunInv, JobInv, Jobs
<1>3. CASE ~input[r].overwrite /\ Exists(Head(job[r].todo))
  <2>1. Becomes(r, Answered(job[r], "exists")) /\ "exists" \in Refusals
    BY <1>3 DEF Check, Refusals
  <2> QED  BY <1>1, <2>1, Ends DEF Check, convVars
<1>4. CASE ~(~input[r].overwrite /\ Exists(Head(job[r].todo)))
  <2> DEFINE w == [job[r] EXCEPT !.at = IF job[r].way \in Direct THEN "put" ELSE "open"]
  <2>1. Becomes(r, w)
    BY <1>4 DEF Check
  <2>2. w.at = (IF job[r].way \in Direct THEN "put" ELSE "open") /\ w \in Jobs
    BY <1>1 DEF Jobs, Stages
  <2>3. w.way = job[r].way /\ w.todo = job[r].todo /\ w.uploaded = job[r].uploaded /\ w.answer = None
    BY <1>1, <1>2 DEF Jobs
  <2> HIDE DEF w
  <2>4. JobInv(w, input[r])
    BY <1>1, <1>2, <2>2, <2>3, StageKeeps DEF RunInv, Writing
  <2>5. ~input[r].overwrite => Head(job[r].todo) \notin there[r]
    <3>1. SUFFICES ASSUME ~input[r].overwrite PROVE Head(job[r].todo) \notin there[r]
      OBVIOUS
    <3>2. objects[Head(job[r].todo)] = None
      BY <1>4, <3>1 DEF Exists
    <3> QED  BY <1>1, <3>2 DEF RunInv, LooksInv, Present
  <2>6. w.at \in Writing /\ w.answer # "invalid"
    BY <2>2, <2>3, NoneIsApart DEF Writing, Refusals
  <2> QED  BY <1>1, <2>1, <2>2, <2>3, <2>4, <2>5, <2>6, GoesOn DEF Check, convVars
<1> QED  BY <1>3, <1>4

LEMMA CheckFailsKeeps ==
  ASSUME Inv, NEW r \in Requests, CheckFails(r) \/ ExportFails(r), UNCHANGED convVars
  PROVE  Inv'
<1>1. /\ job[r].at = "check" /\ faults' \in 0 .. MaxFaults
      /\ UNCHANGED <<objects, input, there, staged, directory>>
  BY FaultsAreBounded DEF CheckFails, ExportFails, At, Inv, convVars
<1>2. PICK answer \in {"exists", "failed"} : Becomes(r, Answered(job[r], answer))
  BY DEF CheckFails, ExportFails
<1>3. answer \in Refusals /\ answer # "invalid"
  BY DEF Refusals
<1> QED  BY <1>1, <1>2, <1>3, Ends

LEMMA OpenKeeps ==
  ASSUME Inv, NEW r \in Requests, Open(r) \/ OpenFails(r), UNCHANGED convVars
  PROVE  Inv'
<1>1. /\ Types /\ RunInv(r) /\ job[r] \in Jobs /\ job[r].at = "open" /\ job[r].at \in Writing
      /\ faults' \in 0 .. MaxFaults
      /\ UNCHANGED <<objects, input, there, staged, directory>>
  BY FaultsAreBounded DEF Open, OpenFails, At, Inv, Types, Writing, convVars
<1>2. job[r].way \notin Direct /\ job[r].answer = None
  BY <1>1 DEF RunInv, JobInv
<1>3. CASE Becomes(r, [job[r] EXCEPT !.at = "copy"])
  <2> DEFINE w == [job[r] EXCEPT !.at = "copy"]
  <2>1. w.at = "copy" /\ w \in Jobs
    BY <1>1 DEF Jobs, Stages
  <2>2. w.way = job[r].way /\ w.todo = job[r].todo /\ w.uploaded = job[r].uploaded /\ w.answer = None
    BY <1>1, <1>2 DEF Jobs
  <2> HIDE DEF w
  <2>3. JobInv(w, input[r]) /\ w.at \in Writing
    BY <1>1, <1>2, <2>1, <2>2, StageKeeps DEF RunInv, Writing
  <2>4. ~input[r].overwrite => Head(job[r].todo) \notin there[r]
    BY <1>1 DEF RunInv, LooksInv
  <2>5. w.answer # "invalid"
    BY <2>2, NoneIsApart DEF Refusals
  <2> QED  BY <1>1, <1>3, <2>1, <2>2, <2>3, <2>4, <2>5, GoesOn DEF w
<1>4. CASE Becomes(r, NotFound(job[r]))
  <2> DEFINE w == NotFound(job[r])
  <2>1. /\ w \in Jobs /\ JobInv(w, input[r]) /\ w.answer # "invalid"
        /\ w.at \in {"check", "list", "done"}
        /\ w.uploaded = job[r].uploaded /\ w.way = job[r].way /\ w.todo = job[r].todo
    BY <1>1, NotFoundKeeps, NoneIsApart DEF RunInv, Refusals
  <2> HIDE DEF w
  <2> QED  BY <1>1, <1>4, <2>1, GoesOn DEF w, Writing
<1>5. CASE Becomes(r, Answered(job[r], "failed"))
  BY <1>1, <1>5, Ends DEF Refusals
<1> QED  BY <1>3, <1>4, <1>5 DEF Open, OpenFails

\* A target that is written is the next of those that are uploaded.
LEMMA PutKeeps ==
  ASSUME Inv, NEW r \in Requests, Put(r) \/ Copy(r), UNCHANGED convVars
  PROVE  Inv'
<1> DEFINE j == job[r]
           w == Advance(j)
           k == Head(j.todo)
<1>1. /\ Types /\ RunInv(r) /\ j \in Jobs /\ j.at \in {"put", "copy"} /\ j.at \in Writing
      /\ faults' \in 0 .. MaxFaults /\ UNCHANGED <<input, there, staged, directory>>
      /\ Writes(r, k, TRUE) /\ Becomes(r, w)
  BY FaultsAreBounded DEF Put, Copy, At, Inv, Types, Writing, convVars
<1> HIDE DEF j
<1>2. /\ w \in Jobs /\ JobInv(w, input[r])
      /\ j.todo \in Seq(Keys) /\ j.todo # <<>> /\ k \in Keys /\ j.uploaded \in Seq(Keys)
      /\ w.at \in {"check", "done"} /\ w.answer \in {None, "completed"}
      /\ w.uploaded = Append(j.uploaded, k) /\ w.way = j.way
      /\ j.way \in Ways
  <2>1. JobInv(j, input[r])
    BY <1>1 DEF j, RunInv
  <2>2. j.uploaded \in Seq(Keys) /\ j.way \in Ways
    BY <1>1, <2>1 DEF JobInv, Jobs
  <2> QED  BY <1>1, <2>1, <2>2, AdvanceKeeps
<1> HIDE DEF w, k
<1>3. /\ Types' /\ OwnStep(r) /\ job'[r] = w
      /\ objects'[k] = [by |-> r, whole |-> TRUE] /\ objects'[k] # None
      /\ \A l \in Keys \ {k} : objects'[l] = objects[l]
  BY <1>1, <1>2, WriteStep
<1>4. ToSet(w.uploaded) = ToSet(j.uploaded) \cup {k} /\ ToSet(j.uploaded) \subseteq Keys
  <2>1. ToSet(j.uploaded) \subseteq Keys
    BY <1>2 DEF ToSet
  <2> QED  BY <1>2, <2>1, AppendedSet
<1>5. w.at \notin Before /\ w.at \notin {"put", "open", "copy"} /\ w.answer \notin {"invalid", "not_found"}
  BY <1>2, NoneIsApart DEF Before, Refusals
<1>6. j.way # "directory"
  BY <1>2 DEF Ways
<1>7. LooksInv(r)'
  <2>1. Present \subseteq Present'
    BY <1>3 DEF Present
  <2> QED  BY <1>1, <1>3, <1>5, <2>1 DEF RunInv, LooksInv
<1>8. WholeInv(r)'
  <2>1. ASSUME NEW l \in ToSet(w.uploaded)
        PROVE  objects'[l] # None /\ (objects'[l].by = r => objects'[l].whole)
    <3>1. CASE l = k
      BY <1>3, <3>1
    <3>2. CASE l # k
      <4>1. l \in ToSet(j.uploaded) /\ objects'[l] = objects[l]
        BY <1>3, <1>4, <3>2
      <4> QED  BY <1>1, <1>6, <3>2, <4>1 DEF RunInv, WholeInv, Upcoming, j, k
    <3> QED  BY <3>1, <3>2
  <2> QED  BY <1>3, <2>1 DEF WholeInv
<1>9. OwnInv(r)'
  <2>1. ASSUME NEW l \in Own(r)'
        PROVE  \/ l \in ToSet(w.uploaded) /\ objects'[l].whole
               \/ l = 0 /\ w.way \notin Direct
    <3>1. CASE l = k
      BY <1>3, <1>4, <3>1
    <3>2. CASE l # k
      <4>1. l \in Own(r) /\ objects'[l] = objects[l]
        BY <1>3, <3>2 DEF Own
      <4>2. \/ l \in ToSet(j.uploaded) /\ objects[l].whole
            \/ l = 0 /\ j.way \notin Direct
        BY <1>1, <3>2, <4>1 DEF RunInv, OwnInv, Upcoming, j, k
      <4> QED  BY <1>2, <1>4, <4>1, <4>2
    <3> QED  BY <3>1, <3>2
  <2> QED  BY <1>2, <1>3, <1>5, <1>6, <2>1 DEF OwnInv
<1>10. PlaceInv(r)'
  BY <1>1, <1>2, <1>3, <1>5, DeliveryKeepsPlace DEF j, Writing
<1>11. JobInv(job[r], input[r])'
  <2>1. JobInv(job'[r], input'[r])
    BY <1>1, <1>2, <1>3
  <2> QED  BY <2>1
<1> QED  BY <1>3, <1>7, <1>8, <1>9, <1>10, <1>11, OwnStepKeeps DEF RunInv

\* What a failure leaves of a target is of the one that is next.
LEMMA Leaves ==
  ASSUME Inv, NEW r \in Requests, job[r].at \in {"put", "copy"},
         NEW w \in Jobs, JobInv(w, input[r]), Becomes(r, w), faults' \in 0 .. MaxFaults,
         NEW whole \in BOOLEAN, Writes(r, Head(job[r].todo), whole), ~whole => job[r].way \notin Direct,
         UNCHANGED <<input, there, staged, directory>>,
         w.at \in {"check", "put", "list", "done"}, w.answer # "invalid",
         w.way = job[r].way, w.todo = job[r].todo, w.uploaded = job[r].uploaded
  PROVE  Inv'
<1> DEFINE j == job[r]
           k == Head(j.todo)
<1>1. Types /\ RunInv(r) /\ j \in Jobs /\ j.at \in Writing
  BY DEF Inv, Types, Writing
<1>2. j.todo \in Seq(Keys) /\ j.todo # <<>> /\ k \in Keys /\ j.uploaded \in Seq(Keys) /\ j.way \in Ways
  <2> HIDE DEF j
  <2>1. j.todo \in Seq(Keys) /\ j.todo # <<>> /\ j.uploaded \in Seq(Keys) /\ j.way \in Ways
    BY <1>1 DEF j, RunInv, JobInv, Jobs
  <2> QED  BY <2>1, Moved
<1> HIDE DEF j, k
<1>3. /\ Types' /\ OwnStep(r) /\ job'[r] = w
      /\ objects'[k] = [by |-> r, whole |-> whole] /\ objects'[k] # None
      /\ \A l \in Keys \ {k} : objects'[l] = objects[l]
  BY <1>1, <1>2, WriteStep DEF j, k
<1>4. ToSet(j.uploaded) \subseteq Keys /\ Upcoming(w, k)
  BY <1>2 DEF ToSet, Upcoming, j, k
<1>5. w.at \notin Before /\ j.way # "directory" /\ w.way = j.way /\ w.uploaded = j.uploaded /\ w.todo # <<>>
  BY <1>2 DEF Before, Ways, j
<1>6. LooksInv(r)'
  <2>1. Present \subseteq Present'
    BY <1>3 DEF Present
  <2>2. ~input[r].overwrite => k \notin there[r]
    BY <1>1 DEF RunInv, LooksInv, j, k
  <2> QED  BY <1>1, <1>3, <2>1, <2>2 DEF RunInv, LooksInv, j, k
<1>7. WholeInv(r)'
  <2>1. ASSUME NEW l \in ToSet(j.uploaded)
        PROVE  objects'[l] # None /\ (objects'[l].by = r => objects'[l].whole \/ Upcoming(w, l))
    <3>1. CASE l = k
      BY <1>3, <1>4, <3>1
    <3>2. CASE l # k
      <4>1. objects'[l] = objects[l]
        BY <1>3, <1>4, <3>2
      <4> QED  BY <1>1, <1>5, <3>2, <4>1 DEF RunInv, WholeInv, Upcoming, j, k
    <3> QED  BY <3>1, <3>2
  <2> QED  BY <1>3, <1>5, <2>1 DEF WholeInv
<1>8. OwnInv(r)'
  <2>1. ASSUME NEW l \in Own(r)'
        PROVE  \/ l \in ToSet(j.uploaded) /\ objects'[l].whole
               \/ Upcoming(w, l) /\ (~objects'[l].whole => w.way \notin Direct)
               \/ l = 0 /\ w.way \notin Direct
    <3>1. CASE l = k
      BY <1>3, <1>4, <1>5, <3>1 DEF j
    <3>2. CASE l # k
      <4>1. l \in Own(r) /\ objects'[l] = objects[l]
        BY <1>3, <3>2 DEF Own
      <4> QED  BY <1>1, <1>5, <3>2, <4>1 DEF RunInv, OwnInv, Upcoming, j, k
    <3> QED  BY <3>1, <3>2
  <2> QED  BY <1>3, <1>5, <2>1 DEF OwnInv
<1>9. PlaceInv(r)'
  BY <1>1, <1>3, <1>5, DeliveryKeepsPlace DEF j, Writing
<1>10. JobInv(job[r], input[r])'
  <2>1. JobInv(job'[r], input'[r])
    BY <1>3
  <2> QED  BY <2>1
<1> QED  BY <1>3, <1>6, <1>7, <1>8, <1>9, <1>10, OwnStepKeeps DEF RunInv

\* A severed put is tried again, other failures end the request.
LEMMA PutFailsKeeps ==
  ASSUME Inv, NEW r \in Requests, PutFails(r), UNCHANGED convVars
  PROVE  Inv'
<1> DEFINE j == job[r]
<1>1. /\ Types /\ RunInv(r) /\ j \in Jobs /\ j.at = "put" /\ j.at \in Writing
      /\ faults' \in 0 .. MaxFaults /\ UNCHANGED <<input, there, staged, directory>>
  BY FaultsAreBounded DEF PutFails, At, Inv, Types, Writing, convVars
<1>2. PICK landed \in BOOLEAN, why \in {"severed", "failed", "not_found"} :
        /\ why = "severed" => j.attempt < Attempts /\ j.way = "local"
        /\ IF landed THEN Writes(r, Head(j.todo), TRUE) ELSE UNCHANGED objects
        /\ Becomes(r, IF why = "severed" THEN [j EXCEPT !.attempt = @ + 1] ELSE Answered(j, why))
  BY DEF PutFails
<1> DEFINE w == IF why = "severed" THEN [j EXCEPT !.attempt = @ + 1] ELSE Answered(j, why)
<1>3. /\ w \in Jobs /\ JobInv(w, input[r]) /\ w.at \in {"put", "done"} /\ w.answer # "invalid"
      /\ w.way = j.way /\ w.todo = j.todo /\ w.uploaded = j.uploaded
  <2>1. CASE why = "severed"
    <3> DEFINE v == [j EXCEPT !.attempt = @ + 1]
    <3>1. j.attempt + 1 \in 1 .. Attempts
      BY <1>1, <1>2, <2>1, ConstantsAssumption DEF Jobs
    <3>2. /\ v \in Jobs /\ v.at = "put" /\ v.way = j.way /\ v.todo = j.todo /\ v.uploaded = j.uploaded
          /\ v.answer = j.answer
      BY <1>1, <3>1 DEF Jobs
    <3> HIDE DEF v
    <3>3. JobInv(v, input[r]) /\ v.answer = None
      BY <1>1, <3>2, StageKeeps DEF RunInv, JobInv, Writing
    <3> QED  BY <2>1, <3>2, <3>3, NoneIsApart DEF v, Refusals
  <2>2. CASE why # "severed"
    <3>1. why \in Refusals /\ why # "invalid"
      BY <2>2 DEF Refusals
    <3>2. w = Answered(j, why)
      BY <2>2
    <3> HIDE DEF w, j
    <3>3. j \in Jobs /\ JobInv(j, input[r])
      BY <1>1 DEF RunInv, j
    <3> QED  BY <3>1, <3>2, <3>3, AnsweredKeeps
  <2> QED  BY <2>1, <2>2
<1>4. Becomes(r, w)
  BY <1>2
<1> HIDE DEF w
<1>5. CASE landed
  <2>1. j.way \in Direct
    BY <1>1 DEF RunInv, JobInv
  <2> QED  BY <1>1, <1>2, <1>3, <1>4, <1>5, <2>1, Leaves
<1>6. CASE ~landed
  <2>1. ~input[r].overwrite => Head(j.todo) \notin there[r]
    BY <1>1 DEF RunInv, LooksInv
  <2> QED  BY <1>1, <1>2, <1>3, <1>4, <1>6, <2>1, GoesOn DEF Writing
<1> QED  BY <1>5, <1>6

LEMMA CopyBreaksKeeps ==
  ASSUME Inv, NEW r \in Requests, CopyBreaks(r), UNCHANGED convVars
  PROVE  Inv'
<1>1. /\ Types /\ RunInv(r) /\ job[r] \in Jobs /\ job[r].at = "copy" /\ job[r].at \in Writing
      /\ faults' \in 0 .. MaxFaults /\ UNCHANGED <<input, there, staged, directory>>
      /\ (\E whole \in BOOLEAN : Writes(r, Head(job[r].todo), whole)) \/ UNCHANGED objects
  BY FaultsAreBounded DEF CopyBreaks, At, Inv, Types, Writing, convVars
<1>2. PICK w \in {NotFound(job[r]), Answered(job[r], "failed")} : Becomes(r, w)
  BY DEF CopyBreaks
<1>3. /\ w \in Jobs /\ JobInv(w, input[r]) /\ w.at \in {"check", "list", "done"} /\ w.answer # "invalid"
      /\ w.way = job[r].way /\ w.todo = job[r].todo /\ w.uploaded = job[r].uploaded
  <2>1. CASE w = NotFound(job[r])
    BY <1>1, <2>1, NotFoundKeeps, NoneIsApart DEF RunInv, Refusals
  <2>2. CASE w = Answered(job[r], "failed")
    BY <1>1, <2>2, AnsweredKeeps DEF RunInv, Refusals
  <2> QED  BY <1>2, <2>1, <2>2
<1>4. CASE \E whole \in BOOLEAN : Writes(r, Head(job[r].todo), whole)
  <2>1. PICK whole \in BOOLEAN : Writes(r, Head(job[r].todo), whole)
    BY <1>4
  <2>2. job[r].way \notin Direct
    BY <1>1 DEF RunInv, JobInv
  <2> QED  BY <1>1, <1>2, <1>3, <2>1, <2>2, Leaves
<1>5. CASE UNCHANGED objects
  BY <1>1, <1>2, <1>3, <1>5, GoesOn DEF Writing
<1> QED  BY <1>1, <1>4, <1>5

\* A store becomes the list of its members when it has been listed to the end.
LEMMA ListPageKeeps ==
  ASSUME Inv, NEW r \in Requests, ListPage(r) \/ ListFails(r), UNCHANGED convVars
  PROVE  Inv'
<1> DEFINE j == job[r]
           members == input[r].members
<1>1. /\ Types /\ RunInv(r) /\ j \in Jobs /\ j.at = "list" /\ j.at \in Writing
      /\ faults' \in 0 .. MaxFaults /\ UNCHANGED <<objects, input, there, staged, directory>>
  BY FaultsAreBounded DEF ListPage, ListFails, At, Inv, Types, Writing, convVars
<1>2. j.way = "single" /\ j.todo = << 0 >> /\ j.uploaded = <<>> /\ j.answer = None /\ j.listed \in Nat
  BY <1>1 DEF RunInv, JobInv, Writing, Jobs
<1>3. CASE Becomes(r, Answered(j, "not_found"))
  BY <1>1, <1>3, Ends DEF Refusals
<1>4. CASE Becomes(r, [j EXCEPT !.listed = j.listed + PageSize])
  <2> DEFINE w == [j EXCEPT !.listed = j.listed + PageSize]
  <2>1. j.listed + PageSize \in Nat
    BY <1>2, ConstantsAssumption
  <2>2. /\ w \in Jobs /\ w.at = "list" /\ w.way = j.way /\ w.todo = j.todo /\ w.uploaded = j.uploaded
        /\ w.answer = None
    BY <1>1, <1>2, <2>1 DEF Jobs
  <2> HIDE DEF w
  <2>3. JobInv(w, input[r])
    BY <1>1, <1>2, <2>2, StageKeeps DEF RunInv
  <2> QED  BY <1>1, <1>4, <2>2, <2>3, GoesOn, NoneIsApart DEF w, Refusals, Writing
<1>5. CASE Becomes(r, Work([j EXCEPT !.todo = <<>>], "member", members)) /\ members # <<>>
  <2> DEFINE v == [j EXCEPT !.todo = <<>>]
             w == Work(v, "member", members)
  <2>1. v \in Jobs /\ v.answer = None /\ v.todo = <<>> /\ v.uploaded = <<>>
    <3>1. <<>> \in Seq(Keys)
      OBVIOUS
    <3> QED  BY <1>1, <1>2, <3>1 DEF Jobs
  <2>2. members \in Seq(Keys)
    <3>1. input[r] \in Inputs
      BY <1>1, <1>2 DEF RunInv, PlaceInv
    <3> QED  BY <3>1, InputKinds
  <2>3. Targets(input[r], "member") = members /\ "member" \in Ways
    BY DEF Targets, Ways
  <2> HIDE DEF v, members
  <2>4. /\ w \in Jobs /\ JobInv(w, input[r]) /\ w.uploaded = <<>> /\ w.way = "member"
        /\ w.at = "check" /\ w.answer = None /\ w.todo # <<>>
    <3>1. v.uploaded \o members = Targets(input[r], "member")
      BY <2>1, <2>2, <2>3
    <3> QED  BY <1>5, <2>1, <2>2, <2>3, <3>1, WorkKeeps
  <2> HIDE DEF w
  <2>5. Types' /\ OwnStep(r) /\ job'[r] = w
    BY <1>1, <1>5, <2>4, JobStep DEF w, v, members
  <2>6. LooksInv(r)'
    BY <1>1, <2>4, <2>5 DEF RunInv, LooksInv, Present
  <2>7. WholeInv(r)'
    BY <2>4, <2>5, EmptySet DEF WholeInv
  <2>8. OwnInv(r)'
    <3>1. ASSUME NEW k \in Own(r)' PROVE k = 0 /\ w.way \notin Direct
      <4>1. k \in Own(r) /\ objects'[k] = objects[k]
        BY <1>1 DEF Own
      <4>2. Upcoming(j, k) => k = 0
        BY <1>2, OneTarget DEF Upcoming
      <4>3. j.way \notin Direct /\ ToSet(j.uploaded) = {}
        BY <1>2, EmptySet DEF Direct
      <4> QED  BY <1>1, <2>4, <4>1, <4>2, <4>3 DEF RunInv, OwnInv, Direct
    <3> QED  BY <2>4, <2>5, <3>1, NoneIsApart DEF OwnInv, Before, Refusals
  <2>9. PlaceInv(r)'
    BY <1>1, <1>2, <2>4, <2>5, DeliveryKeepsPlace DEF Writing, Direct
  <2>10. JobInv(job[r], input[r])'
    <3>1. JobInv(job'[r], input'[r])
      BY <1>1, <2>4, <2>5
    <3> QED  BY <3>1
  <2> QED  BY <2>5, <2>6, <2>7, <2>8, <2>9, <2>10, OwnStepKeeps DEF RunInv
<1> QED  BY <1>3, <1>4, <1>5 DEF ListPage, ListFails

\* A restart cuts off what is not done.
LEMMA RestartKeeps ==
  ASSUME Inv, Restart, UNCHANGED convVars
  PROVE  Inv'
<1>1. /\ Types /\ faults' \in 0 .. MaxFaults /\ UNCHANGED <<objects, input, there, staged, directory>>
  BY FaultsAreBounded DEF Restart, Inv, convVars
<1> DEFINE w(r) == IF job[r].at \in {"idle", "done"} THEN job[r] ELSE [job[r] EXCEPT !.at = "cut"]
<1>2. job' = [r \in Requests |-> w(r)]
  BY DEF Restart
<1>3. \A r \in Requests : job[r] \in Jobs
  BY <1>1 DEF Types
<1>4. ASSUME NEW r \in Requests
      PROVE  /\ w(r) \in Jobs /\ w(r).way = job[r].way /\ w(r).todo = job[r].todo
             /\ w(r).uploaded = job[r].uploaded /\ w(r).answer = job[r].answer
             /\ w(r).at = IF job[r].at \in {"idle", "done"} THEN job[r].at ELSE "cut"
  BY <1>3 DEF Jobs, Stages
<1>5. \A r \in Requests : job'[r] = w(r)
  BY <1>2
<1>6. Types'
  BY <1>1, <1>2, <1>4 DEF Types
<1> HIDE DEF w
<1>7. ASSUME NEW r \in Requests PROVE RunInv(r)'
  <2>1. RunInv(r)
    BY DEF Inv
  <2>2. CASE job[r].at \in {"idle", "done"}
    <3>1. Undisturbed(r)
      BY <1>1, <1>5, <2>2 DEF Undisturbed, w
    <3> QED  BY <1>1, <2>1, <3>1, OthersKeep
  <2>3. CASE job[r].at = "cut"
    <3>1. [job[r] EXCEPT !.at = "cut"] = job[r]
      BY <1>3, <2>3 DEF Jobs
    <3>2. Undisturbed(r)
      BY <1>1, <1>5, <2>3, <3>1 DEF Undisturbed, w
    <3> QED  BY <1>1, <2>1, <3>2, OthersKeep
  <2>4. CASE job[r].at \notin {"idle", "done", "cut"}
    <3>1. job[r].answer = None /\ w(r).at = "cut" /\ w(r).answer = None
      BY <1>4, <2>1, <2>4 DEF RunInv, JobInv
    <3>2. LooksInv(r)' /\ WholeInv(r)' /\ OwnInv(r)'
      BY <1>1, <1>4, <1>5, <2>1, <3>1, SameTargets, NoneIsApart DEF Before, Refusals
    <3>3. PlaceInv(r)'
      BY <1>1, <1>4, <1>5, <2>1, <2>4, <3>1, EndKeepsPlace, NoneIsApart
    <3>4. JobInv(w(r), input[r])
      BY <1>4, <2>1, <3>1, NoneIsApart DEF RunInv, JobInv, Before, Writing
    <3>5. JobInv(job[r], input[r])'
      <4>1. JobInv(job'[r], input'[r])
        BY <1>1, <1>5, <3>4
      <4> QED  BY <4>1
    <3> QED  BY <3>2, <3>3, <3>5 DEF RunInv
  <2> QED  BY <2>2, <2>3, <2>4
<1> QED  BY <1>6, <1>7 DEF Inv

-----------------------------------------------------------------------------
(* Builders                                                                *)

LEMMA BuiltKeeps ==
  ASSUME NEW j \in Jobs, NEW b \in Builds, JobInv(j, b), j.answer = None, j.todo = <<>>, j.uploaded = <<>>
  PROVE  LET w == Built(j, b)
         IN  w \in Jobs /\ JobInv(w, b) /\ w.uploaded = <<>> /\ w.at \in {"check", "done"}
             /\ (w.todo # <<>> => w.way = "export")
<1>1. CASE Built(j, b) = Answered(j, "invalid")
  BY <1>1, Refused DEF Refusals
<1>2. CASE Built(j, b) = Work(j, "export", << 0 >>)
  <2> DEFINE t == << 0 >>
  <2>1. Targets(b, "export") = t /\ "export" \in Ways /\ t \in Seq(Keys)
    BY OneTarget DEF Targets, Ways
  <2> HIDE DEF t
  <2>2. LET w == Work(j, "export", t)
        IN  w \in Jobs /\ JobInv(w, b) /\ w.uploaded = <<>> /\ w.at \in {"check", "done"} /\ w.way = "export"
    BY <2>1, Targeted
  <2> QED  BY <1>2, <2>2 DEF t
<1>3. CASE Built(j, b) = Work(j, "preview", <<>>)
  <2> DEFINE t == <<>>
  <2>1. /\ Targets(b, "preview") = t /\ t \in Seq(Keys) /\ "preview" \in Ways \cup {"preview"}
        /\ t # <<>> => "preview" \in Ways
    BY InputKinds DEF Targets
  <2> HIDE DEF t
  <2>2. LET w == Work(j, "preview", t)
        IN  w \in Jobs /\ JobInv(w, b) /\ w.uploaded = <<>> /\ w.at \in {"check", "done"} /\ w.todo = t
    BY <2>1, Targeted
  <2> QED  BY <1>3, <2>2 DEF t
<1> QED  BY <1>1, <1>2, <1>3 DEF Built

LEMMA StartBuildKeeps ==
  ASSUME Inv, NEW r \in Requests, StartBuild(r), UNCHANGED convVars
  PROVE  Inv'
<1>1. PICK b \in Builds : Arrive(r, b, BeginBuild(b))
  BY DEF StartBuild
<1> DEFINE j == BeginBuild(b)
<1>2. /\ j \in Jobs /\ JobInv(j, b) /\ j.uploaded = <<>> /\ j.at \in {"check", "done", "fetch"}
      /\ (j.todo # <<>> => j.way = "export")
  <2>1. CASE b.base = "url"
    <3> DEFINE v == [Idle EXCEPT !.at = "fetch"]
    <3>1. /\ v \in Jobs /\ v.at = "fetch" /\ v.way = None /\ v.todo = <<>> /\ v.uploaded = <<>>
          /\ v.answer = None
      BY IdleJob DEF Jobs, Stages
    <3>2. j = v
      BY <2>1 DEF BeginBuild
    <3> HIDE DEF v, j
    <3>3. JobInv(v, b)
      BY <3>1, NoneIsApart DEF JobInv, Before, Writing
    <3> QED  BY <3>1, <3>2, <3>3
  <2>2. CASE b.base # "url"
    <3>1. j = Built(Idle, b)
      BY <2>2 DEF BeginBuild
    <3> HIDE DEF j
    <3> QED  BY <3>1, IdleJob, BuiltKeeps
  <2> QED  BY <2>1, <2>2
<1> HIDE DEF j
<1>3. ASSUME input'[r] = b, job'[r] = j PROVE PlaceInv(r)'
  BY <1>2, <1>3, InputKinds DEF PlaceInv, Converting
<1> QED  BY <1>1, <1>2, <1>3, ArrivalKeeps DEF convVars, j

\* The base has come: the object is built.
LEMMA FetchKeeps ==
  ASSUME Inv, NEW r \in Requests, Fetch(r), UNCHANGED convVars
  PROVE  Inv'
<1> DEFINE w == Built(job[r], input[r])
<1>1. /\ Types /\ RunInv(r) /\ job[r] \in Jobs /\ job[r].at = "fetch" /\ job[r].at \in Before
      /\ faults' \in 0 .. MaxFaults /\ UNCHANGED <<objects, input, there, staged, directory>>
      /\ Becomes(r, w)
  BY FaultsAreBounded DEF Fetch, At, Inv, Types, Before, convVars
<1>2. job[r].todo = <<>> /\ job[r].uploaded = <<>> /\ job[r].answer = None /\ input[r] \in Builds
  BY <1>1 DEF RunInv, JobInv, PlaceInv
<1>3. /\ w \in Jobs /\ JobInv(w, input[r]) /\ w.uploaded = <<>> /\ w.at \in {"check", "done"}
      /\ (w.todo # <<>> => w.way = "export")
  BY <1>1, <1>2, BuiltKeeps DEF RunInv
<1> HIDE DEF w
<1>4. Types' /\ OwnStep(r) /\ job'[r] = w
  BY <1>1, <1>3, JobStep
<1>5. Own(r) = {} /\ there'[r] \subseteq Present
  BY <1>1 DEF RunInv, OwnInv, LooksInv
<1>6. LooksInv(r)' /\ WholeInv(r)' /\ OwnInv(r)'
  BY <1>1, <1>3, <1>4, <1>5, FirstTargets
<1>7. PlaceInv(r)'
  BY <1>1, <1>2, <1>3, <1>4, InputKinds DEF RunInv, PlaceInv, Converting
<1>8. JobInv(job[r], input[r])'
  <2>1. JobInv(job'[r], input'[r])
    BY <1>1, <1>3, <1>4
  <2> QED  BY <2>1
<1> QED  BY <1>4, <1>6, <1>7, <1>8, OwnStepKeeps DEF RunInv

\* A failure before anything is written.
LEMMA EarlyFailureKeeps ==
  ASSUME Inv, NEW r \in Requests, (FetchFails(r) /\ UNCHANGED convVars) \/ ConvertFails(r)
  PROVE  Inv'
<1>1. /\ job[r].at \in {"fetch", "convert"} /\ faults' \in 0 .. MaxFaults
      /\ UNCHANGED <<objects, input, there, staged, directory>>
  BY FaultsAreBounded DEF FetchFails, ConvertFails, At, Inv, convVars
<1>2. PICK answer \in {"invalid", "failed"} : Becomes(r, Answered(job[r], answer))
  BY DEF FetchFails, ConvertFails
<1> QED  BY <1>1, <1>2, Ends DEF Refusals, Before

-----------------------------------------------------------------------------
(* The layers of a conversion                                              *)

LEMMA LayersAreNamed ==
  ASSUME NEW c \in Conversions
  PROVE  /\ Selected(c) \in Seq(Layers) /\ Len(Selected(c)) \in Nat
         /\ Named(c) \in Seq(Keys)
         /\ \A m \in 1 .. Len(Selected(c)) : Named(c)[m] \in Keys
         /\ Outputs(c) = {Named(c)[m] : m \in 1 .. Len(Selected(c))}
         /\ Outputs(c) \in SUBSET Keys /\ InOrder(Outputs(c)) \in Seq(Keys)
<1>1. c.available \in Seq(Layers) /\ (c.layers # None => c.layers \in Seq(Layers))
  BY ConversionAssumption
<1>2. Selected(c) \in Seq(Layers)
  <2> DEFINE I == {n \in DOMAIN c.available : c.available[n] \in ToSet(c.layers)}
  <2>1. I \in SUBSET (DOMAIN c.available)
    OBVIOUS
  <2>2. Selected(c) \in {c.available, c.layers, Picked(c.available, I)}
        /\ (Selected(c) = c.layers => c.layers # None \/ c.layers = c.available \/ c.layers = Picked(c.available, I))
    BY DEF Selected
  <2> HIDE DEF I
  <2>3. Picked(c.available, I) \in Seq(Layers)
    BY <1>1, <2>1, PickedEntries
  <2> QED  BY <1>1, <2>2, <2>3
<1> DEFINE n == Len(Selected(c))
<1>3. n \in Nat /\ \A m \in 1 .. n : Selected(c)[m] \in Layers
  BY <1>2
<1>4. \A l \in Layers : OutputName[l] \in Keys
  BY ConversionAssumption
<1>5. Named(c) = [m \in 1 .. n |-> OutputName[Selected(c)[m]]]
  BY DEF Named
<1> HIDE DEF n
<1>6. Named(c) \in Seq(Keys) /\ DOMAIN Named(c) = 1 .. n /\ \A m \in 1 .. n : Named(c)[m] \in Keys
  BY <1>3, <1>4, <1>5
<1>7. Outputs(c) = {Named(c)[m] : m \in 1 .. n}
  BY <1>6 DEF Outputs, ToSet
<1>8. Outputs(c) \in SUBSET Keys
  BY <1>6, <1>7
<1>9. IsFiniteSet(Keys)
  BY KeysAreKeys, FS_Interval DEF Keys
<1>10. IsFiniteSet(Outputs(c))
  BY <1>8, <1>9, FS_Subset
<1>11. Outputs(c) \in SUBSET Int
  <2>1. \A k \in Keys : k \in Int
    BY DEF Keys
  <2> QED  BY <1>8, <2>1
<1>12. InOrder(Outputs(c)) \in Seq(Keys)
  BY <1>8, <1>10, <1>11, InOrderEntries
<1> QED  BY <1>2, <1>3, <1>6, <1>7, <1>8, <1>12 DEF n

\* What can be converted has a layer.
LEMMA UsableHasLayers ==
  ASSUME NEW c \in Conversions, Unusable(c) = None
  PROVE  0 < Len(Selected(c))
<1>1. c.available \in Seq(Layers) /\ (c.layers # None => c.layers \in Seq(Layers) \ {<<>>})
  BY ConversionAssumption
<1>2. Selectable(c)
  BY ConstantsAssumption DEF Unusable
<1>3. CASE c.layers = None
  BY <1>1, <1>2, <1>3 DEF Selectable, Selected
<1>4. CASE c.layers # None /\ c.format = "gdb"
  BY <1>1, <1>4 DEF Selected
<1>5. CASE c.layers # None /\ c.format # "gdb"
  <2> DEFINE I == {n \in DOMAIN c.available : c.available[n] \in ToSet(c.layers)}
  <2>1. Selected(c) = Picked(c.available, I)
    BY <1>5 DEF Selected
  <2>2. c.layers[1] \in ToSet(c.layers)
    BY <1>1, <1>5 DEF ToSet
  <2>3. c.layers[1] \in ToSet(c.available)
    BY <1>2, <1>5, <2>2 DEF Selectable
  <2>4. PICK i \in DOMAIN c.available : c.available[i] = c.layers[1]
    BY <2>3 DEF ToSet
  <2>5. i \in I /\ I \in SUBSET (DOMAIN c.available)
    BY <2>2, <2>4
  <2> HIDE DEF I
  <2>6. Picked(c.available, I) \in Seq(Layers) /\ \E k \in DOMAIN Picked(c.available, I) : TRUE
    BY <1>1, <2>5, PickedEntries
  <2> QED  BY <2>1, <2>6
<1> QED  BY <1>3, <1>4, <1>5

LEMMA ConvertingInput ==
  ASSUME Types, NEW r \in Requests, Converting(r)
  PROVE  /\ input[r] \in Converted /\ input[r].conversion \in Conversions
         /\ input[r].members = InOrder(Outputs(input[r].conversion))
<1>1. input[r] \in Converted
  BY InputKinds DEF Types, Converting
<1> QED  BY <1>1, InputKinds

\* What is opened is refused, or has layers to convert.
LEMMA OpenedKeeps ==
  ASSUME NEW j \in Jobs, NEW i, NEW c \in Conversions, JobInv(j, i),
         j.uploaded = <<>>, j.todo = <<>>, j.answer = None
  PROVE  LET w == Opened(j, c)
         IN  /\ w \in Jobs /\ JobInv(w, i) /\ w.uploaded = <<>> /\ w.todo = <<>> /\ w.way = j.way
             /\ \/ w.at = "done" /\ w.answer \in Refusals
                \/ w.at = "convert" /\ w.answer = None /\ 0 < Len(Selected(c))
<1>1. CASE Unusable(c) # None
  <2>1. Unusable(c) \in Refusals
    BY <1>1 DEF Unusable, Refusals
  <2>2. Opened(j, c) = Answered(j, Unusable(c))
    BY <1>1 DEF Opened
  <2> QED  BY <2>1, <2>2, Refused
<1>2. CASE Unusable(c) = None
  <2> DEFINE w == [j EXCEPT !.at = "convert", !.attempt = 1]
  <2>1. Opened(j, c) = w
    BY <1>2 DEF Opened
  <2>2. "convert" \in Stages /\ 1 \in 1 .. Attempts
    BY ConstantsAssumption DEF Stages
  <2>3. /\ w \in Jobs /\ w.at = "convert" /\ w.way = j.way /\ w.todo = <<>> /\ w.uploaded = <<>>
        /\ w.answer = None
    BY <2>2 DEF Jobs
  <2> HIDE DEF w
  <2>4. JobInv(w, i)
    BY <2>3, NoneIsApart DEF JobInv, Before, Writing
  <2> QED  BY <1>2, <2>1, <2>3, <2>4, UsableHasLayers
<1> QED  BY <1>1, <1>2

\* Before the first layer is converted there is nothing.
LEMMA NothingYet ==
  ASSUME NEW r \in Requests, Own(r)' = {}, ~Wrote(r)', staged'[r] = {},
         job'[r].way = IF input'[r].conversion.local THEN "directory" ELSE "local",
         \/ job'[r].at = "done" /\ job'[r].answer \in Refusals
         \/ job'[r].at = "download" /\ job'[r].answer = None
         \/ job'[r].at = "convert" /\ job'[r].answer = None /\ 0 < Len(Selected(input'[r].conversion)),
         input'[r].conversion \in Conversions
  PROVE  ConversionInv(r)'
<1>1. job'[r].answer # "completed" /\ job'[r].at \notin Writing \cup {"deliver", "write"}
  BY NoneIsApart DEF Refusals, Writing
<1>2. ASSUME job'[r].at = "convert"
      PROVE  \E n \in 0 .. Len(Selected(input'[r].conversion)) - 1 : StagedTo(r, n)'
  <2>1. 0 \in 0 .. Len(Selected(input'[r].conversion)) - 1
    BY <1>2, LayersAreNamed, NoneIsApart DEF Refusals
  <2>2. {Named(input'[r].conversion)[m] : m \in 1 .. 0} = {}
    OBVIOUS
  <2>3. StagedTo(r, 0)'
    BY <2>2, FS_EmptySet DEF StagedTo
  <2> QED  BY <2>1, <2>3
<1> QED  BY <1>1, <1>2 DEF ConversionInv

LEMMA StartConversionKeeps ==
  ASSUME Inv, NEW r \in Requests, StartConversion(r)
  PROVE  Inv'
<1>1. PICK c \in Conversions :
        Arrive(r, [conversion |-> c, overwrite |-> c.overwrite, members |-> InOrder(Outputs(c))],
               BeginConversion(c))
  BY DEF StartConversion
<1> DEFINE i == [conversion |-> c, overwrite |-> c.overwrite, members |-> InOrder(Outputs(c))]
           j == [Idle EXCEPT !.way = IF c.local THEN "directory" ELSE "local"]
           w == BeginConversion(c)
<1>2. i \in Converted /\ i.conversion = c /\ i # None /\ "conversion" \in DOMAIN i
  <2>1. i \in Converted /\ i.conversion = c /\ "conversion" \in DOMAIN i
    BY DEF Converted
  <2>2. i \in [conversion : Conversions, overwrite : BOOLEAN, members : Seq(Keys)]
    <3>1. InOrder(Outputs(c)) \in Seq(Keys) /\ c.overwrite \in BOOLEAN
      BY LayersAreNamed, ConversionAssumption
    <3> QED  BY <3>1
  <2>3. i # None
    BY <2>2, ConversionAssumption
  <2> QED  BY <2>1, <2>3
<1>3. /\ j \in Jobs /\ JobInv(j, i) /\ j.way = (IF c.local THEN "directory" ELSE "local")
      /\ j.at = "idle" /\ j.uploaded = <<>> /\ j.todo = <<>> /\ j.answer = None
  <2>1. {"directory", "local"} \subseteq AllWays
    BY DEF AllWays, Ways
  <2>2. /\ j \in Jobs /\ j.way = (IF c.local THEN "directory" ELSE "local")
        /\ j.at = "idle" /\ j.uploaded = <<>> /\ j.todo = <<>> /\ j.answer = None
    BY <2>1, IdleJob DEF Jobs
  <2> HIDE DEF j
  <2>3. JobInv(j, i)
    BY <2>2, NoneIsApart DEF JobInv, Before, Writing
  <2> QED  BY <2>2, <2>3
<1> HIDE DEF j
<1>4. /\ w \in Jobs /\ JobInv(w, i) /\ w.uploaded = <<>> /\ w.todo = <<>> /\ w.way = j.way
      /\ \/ w.at = "done" /\ w.answer \in Refusals
         \/ w.at = "download" /\ w.answer = None
         \/ w.at = "convert" /\ w.answer = None /\ 0 < Len(Selected(c))
  <2>1. CASE w = Answered(j, "invalid")
    BY <1>3, <2>1, Refused DEF Refusals
  <2>2. CASE w = [j EXCEPT !.at = "download"]
    <3> DEFINE v == [j EXCEPT !.at = "download"]
    <3>1. "download" \in Stages
      BY DEF Stages
    <3>2. /\ v \in Jobs /\ v.at = "download" /\ v.way = j.way /\ v.todo = <<>> /\ v.uploaded = <<>>
          /\ v.answer = None
      BY <1>3, <3>1 DEF Jobs
    <3> HIDE DEF v
    <3>3. JobInv(v, i)
      BY <3>2, NoneIsApart DEF JobInv, Before, Writing
    <3> QED  BY <2>2, <3>2, <3>3 DEF v
  <2>3. CASE w = Opened(j, c)
    BY <1>3, <2>3, OpenedKeeps
  <2> QED  BY <2>1, <2>2, <2>3 DEF BeginConversion, j
<1> HIDE DEF w, i
<1>5. ASSUME input'[r] = i, job'[r] = w PROVE PlaceInv(r)'
  <2>1. /\ UNCHANGED <<objects, staged, directory>> /\ job[r].at = "idle" /\ RunInv(r)
    BY <1>1 DEF Arrive, At, StartConversion, Inv
  <2>2. Own(r)' = {} /\ ~Wrote(r)' /\ staged'[r] = {}
    BY <2>1 DEF RunInv, OwnInv, PlaceInv, Own, Wrote, Before
  <2>3. Converting(r)'
    BY <1>2, <1>5 DEF Converting
  <2>4. ConversionInv(r)'
    BY <1>2, <1>3, <1>4, <1>5, <2>2, NothingYet
  <2> QED  BY <1>4, <1>5, <2>3, <2>4 DEF PlaceInv
<1> QED  BY <1>1, <1>2, <1>4, <1>5, ArrivalKeeps DEF StartConversion, i, w

\* A step of a conversion before it writes to the bucket.
LEMMA EarlyStepKeeps ==
  ASSUME Inv, NEW r \in Requests, job[r].at \in {"download", "convert", "deliver", "write"},
         NEW w \in Jobs, JobInv(w, input[r]), Becomes(r, w), faults' \in 0 .. MaxFaults,
         UNCHANGED <<objects, input, there>>,
         staged' \in [Requests -> SUBSET Keys],
         directory' \in [Requests -> {None} \cup [by : Requests \cup {Earlier}, files : SUBSET Nat]],
         \A q \in Requests \ {r} : staged'[q] = staged[q] /\ directory'[q] = directory[q],
         w.at \notin {"idle", "fetch", "put", "open", "copy"}, w.way = job[r].way,
         w.uploaded = <<>> \/ w.way = "directory",
         job'[r] = w /\ Own(r)' = {} => ConversionInv(r)'
  PROVE  Inv'
<1>1. Types /\ RunInv(r) /\ job[r].at \in Before
  BY DEF Inv, Before
<1>2. Converting(r) /\ Own(r) = {} /\ there[r] \subseteq Present
  BY <1>1 DEF RunInv, PlaceInv, OwnInv, LooksInv
<1>3. job' = [job EXCEPT ![r] = w] /\ job \in [Requests -> Jobs]
  BY <1>1 DEF Becomes, Types
<1>4. job' \in [Requests -> Jobs] /\ job'[r] = w /\ \A q \in Requests \ {r} : job'[q] = job[q]
  BY <1>3
<1>5. Types' /\ OwnStep(r)
  BY <1>1, <1>4 DEF Types, OwnStep, Undisturbed
<1>6. LooksInv(r)' /\ WholeInv(r)' /\ OwnInv(r)'
  BY <1>2, <1>4, FirstTargets
<1>7. Own(r)' = {} /\ Converting(r)'
  BY <1>2 DEF Own, Converting
<1>8. w.way \notin {"single", "member"}
  BY <1>1, <1>2 DEF RunInv, PlaceInv, ConversionInv
<1>9. PlaceInv(r)'
  BY <1>4, <1>7, <1>8 DEF PlaceInv
<1>10. JobInv(job[r], input[r])'
  <2>1. JobInv(job'[r], input'[r])
    BY <1>4
  <2> QED  BY <2>1
<1> QED  BY <1>5, <1>6, <1>9, <1>10, OwnStepKeeps DEF RunInv

\* What is known of a conversion at each of its stages.
LEMMA AtWork ==
  ASSUME Inv, NEW r \in Requests, job[r].at \in {"download", "convert", "deliver", "write"}
  PROVE  /\ Types /\ job[r] \in Jobs /\ JobInv(job[r], input[r]) /\ Own(r) = {} /\ ~Wrote(r)
         /\ job[r].todo = <<>> /\ job[r].uploaded = <<>> /\ job[r].answer = None
         /\ Converting(r) /\ ConversionInv(r) /\ input[r].conversion \in Conversions
         /\ input[r].members = InOrder(Outputs(input[r].conversion))
         /\ staged \in [Requests -> SUBSET Keys]
         /\ directory \in [Requests -> {None} \cup [by : Requests \cup {Earlier}, files : SUBSET Nat]]
<1>1. Types /\ RunInv(r) /\ job[r].at \in Before /\ job[r].at # "done"
  BY DEF Inv, Before
<1>2. Converting(r) /\ ConversionInv(r) /\ ~Wrote(r)
  BY <1>1 DEF RunInv, PlaceInv, ConversionInv
<1>3. Own(r) = {} /\ job[r].todo = <<>> /\ job[r].uploaded = <<>> /\ job[r].answer = None
  BY <1>1 DEF RunInv, OwnInv, JobInv
<1> QED  BY <1>1, <1>2, <1>3, ConvertingInput DEF Types, RunInv

LEMMA DownloadKeeps ==
  ASSUME Inv, NEW r \in Requests, Download(r) \/ DownloadFails(r)
  PROVE  Inv'
<1>1. /\ job[r].at = "download" /\ faults' \in 0 .. MaxFaults
      /\ UNCHANGED <<objects, input, there, staged, directory>>
  BY FaultsAreBounded DEF Download, DownloadFails, At, Inv
<1> DEFINE j == job[r]
           c == input[r].conversion
<1>2. /\ Types /\ j \in Jobs /\ JobInv(j, input[r]) /\ ~Wrote(r)
      /\ j.todo = <<>> /\ j.uploaded = <<>> /\ j.answer = None
      /\ ConversionInv(r) /\ c \in Conversions
      /\ staged \in [Requests -> SUBSET Keys]
      /\ directory \in [Requests -> {None} \cup [by : Requests \cup {Earlier}, files : SUBSET Nat]]
  BY <1>1, AtWork
<1>3. staged[r] = {} /\ j.way = (IF c.local THEN "directory" ELSE "local") /\ ~Wrote(r)'
  BY <1>1, <1>2 DEF ConversionInv, Wrote
<1>4. CASE Becomes(r, Opened(j, c))
  <2> DEFINE w == Opened(j, c)
  <2>1. /\ w \in Jobs /\ JobInv(w, input[r]) /\ w.uploaded = <<>> /\ w.todo = <<>> /\ w.way = j.way
        /\ \/ w.at = "done" /\ w.answer \in Refusals
           \/ w.at = "convert" /\ w.answer = None /\ 0 < Len(Selected(c))
    <3> HIDE DEF j, c
    <3> QED  BY <1>2, OpenedKeeps
  <2> HIDE DEF w
  <2>2. ASSUME job'[r] = w, Own(r)' = {} PROVE ConversionInv(r)'
    BY <1>1, <1>2, <1>3, <2>1, <2>2, NothingYet
  <2> QED  BY <1>1, <1>2, <1>4, <2>1, <2>2, EarlyStepKeeps DEF w
<1>5. CASE j.attempt < Attempts /\ Becomes(r, [j EXCEPT !.attempt = @ + 1])
  <2> DEFINE w == [j EXCEPT !.attempt = @ + 1]
  <2>1. j.attempt + 1 \in 1 .. Attempts
    BY <1>2, <1>5, ConstantsAssumption DEF Jobs
  <2>2. /\ w \in Jobs /\ w.at = "download" /\ w.way = j.way /\ w.todo = <<>> /\ w.uploaded = <<>>
        /\ w.answer = None
    BY <1>1, <1>2, <2>1 DEF Jobs
  <2> HIDE DEF w
  <2>3. JobInv(w, input[r])
    BY <2>2, NoneIsApart DEF JobInv, Before, Writing
  <2>4. ASSUME job'[r] = w, Own(r)' = {} PROVE ConversionInv(r)'
    BY <1>1, <1>2, <1>3, <2>2, <2>4, NothingYet
  <2> QED  BY <1>1, <1>2, <1>5, <2>2, <2>3, <2>4, EarlyStepKeeps DEF w
<1>6. CASE Becomes(r, Answered(j, "failed"))
  BY <1>1, <1>6, Ends DEF Refusals
<1> QED  BY <1>4, <1>5, <1>6 DEF Download, DownloadFails

\* One more layer has a file of its own, or two would share one.
LEMMA ConvertKeeps ==
  ASSUME Inv, NEW r \in Requests, Convert(r)
  PROVE  Inv'
<1> DEFINE j == job[r]
           c == input[r].conversion
           done == Cardinality(staged[r])
           key == Named(c)[done + 1]
           all == Len(Selected(c))
           w == IF key \in staged[r] THEN Answered(j, "invalid")
                ELSE IF done + 1 < all THEN j
                ELSE IF c.local THEN [j EXCEPT !.at = "deliver"]
                ELSE Delivered(j, staged'[r])
<1>1. /\ j.at = "convert" /\ faults' = faults
      /\ staged' = [staged EXCEPT ![r] = @ \cup {key}] /\ Becomes(r, w)
      /\ UNCHANGED <<objects, input, there, directory>>
  BY DEF Convert, At
<1>2. /\ Types /\ j \in Jobs /\ JobInv(j, input[r]) /\ ~Wrote(r)
      /\ j.todo = <<>> /\ j.uploaded = <<>> /\ j.answer = None
      /\ ConversionInv(r) /\ c \in Conversions /\ input[r].members = InOrder(Outputs(c))
      /\ staged \in [Requests -> SUBSET Keys]
      /\ directory \in [Requests -> {None} \cup [by : Requests \cup {Earlier}, files : SUBSET Nat]]
  BY <1>1, AtWork
<1>3. PICK n \in 0 .. all - 1 : StagedTo(r, n)
  BY <1>1, <1>2 DEF ConversionInv
<1>4. j.way = IF c.local THEN "directory" ELSE "local"
  BY <1>2 DEF ConversionInv
<1>5. /\ all \in Nat /\ Outputs(c) = {Named(c)[m] : m \in 1 .. all}
      /\ \A m \in 1 .. all : Named(c)[m] \in Keys
      /\ InOrder(Outputs(c)) \in Seq(Keys)
  BY <1>2, LayersAreNamed
<1> HIDE DEF j, c, all, w
<1>6. done = n /\ IsFiniteSet(staged[r]) /\ staged[r] = {Named(c)[m] : m \in 1 .. n} /\ n \in Nat /\ n + 1 \in 1 .. all
  BY <1>3, <1>5 DEF StagedTo, c
<1>7. key = Named(c)[n + 1] /\ key \in Keys
  BY <1>5, <1>6
<1> HIDE DEF done, key
<1>8. staged'[r] = staged[r] \cup {key} /\ staged' \in [Requests -> SUBSET Keys]
      /\ \A q \in Requests \ {r} : staged'[q] = staged[q]
  BY <1>1, <1>2, <1>7
<1>9. faults' \in 0 .. MaxFaults
  BY <1>1, <1>2, FaultsAreBounded
<1>10. ~Wrote(r)' /\ input'[r].conversion = c
  BY <1>1, <1>2 DEF Wrote, c
<1>11. key \notin staged[r] => StagedTo(r, n + 1)'
  <2>1. SUFFICES ASSUME key \notin staged[r] PROVE StagedTo(r, n + 1)'
    OBVIOUS
  <2>2. 1 .. n + 1 = (1 .. n) \cup {n + 1}
    BY <1>6
  <2>3. staged'[r] = {Named(c)[m] : m \in 1 .. n + 1}
    BY <1>6, <1>7, <1>8, <2>2
  <2>4. IsFiniteSet(staged'[r]) /\ Cardinality(staged'[r]) = n + 1
    <3>1. Cardinality(staged[r]) = n
      BY <1>6 DEF done
    <3>2. /\ IsFiniteSet(staged[r] \cup {key})
          /\ Cardinality(staged[r] \cup {key}) = Cardinality(staged[r]) + 1
      BY <1>6, <2>1, FS_AddElement
    <3> QED  BY <1>8, <3>1, <3>2
  <2> QED  BY <1>10, <2>3, <2>4 DEF StagedTo
<1>12. key \notin staged[r] /\ ~(done + 1 < all) => AllStaged(r)' /\ staged'[r] = Outputs(c)
  <2>1. SUFFICES ASSUME key \notin staged[r], ~(done + 1 < all) PROVE AllStaged(r)' /\ staged'[r] = Outputs(c)
    OBVIOUS
  <2>2. n + 1 = all
    BY <1>5, <1>6, <2>1
  <2>3. staged'[r] = Outputs(c) /\ Cardinality(staged'[r]) = all
    BY <1>5, <1>10, <1>11, <2>1, <2>2 DEF StagedTo
  <2> QED  BY <1>10, <2>3 DEF AllStaged, all
<1>13. CASE key \in staged[r]
  <2>1. w = Answered(j, "invalid")
    BY <1>13 DEF w
  <2>2. /\ w \in Jobs /\ JobInv(w, input[r]) /\ w.uploaded = <<>> /\ w.at = "done" /\ w.answer = "invalid"
        /\ w.way = j.way
    BY <1>2, <2>1, Refused DEF Refusals
  <2>3. ASSUME job'[r] = w, Own(r)' = {} PROVE ConversionInv(r)'
    BY <1>4, <1>10, <2>2, <2>3, NoneIsApart DEF ConversionInv, Writing
  <2> QED  BY <1>1, <1>2, <1>8, <1>9, <2>2, <2>3, EarlyStepKeeps DEF j
<1>14. CASE key \notin staged[r] /\ done + 1 < all
  <2>1. w = j
    BY <1>14 DEF w
  <2>2. ASSUME job'[r] = w, Own(r)' = {} PROVE ConversionInv(r)'
    <3>1. n + 1 \in 0 .. all - 1
      BY <1>5, <1>6, <1>14
    <3>2. \E m \in 0 .. Len(Selected(c)) - 1 : StagedTo(r, m)'
      BY <1>11, <1>14, <3>1 DEF all
    <3>3. j.answer # "completed" /\ j.answer \notin {"invalid", "not_found"}
      BY <1>2, NoneIsApart DEF Refusals
    <3> QED  BY <1>1, <1>4, <1>10, <2>1, <2>2, <3>2, <3>3 DEF ConversionInv, Writing
  <2> QED  BY <1>1, <1>2, <1>8, <1>9, <2>1, <2>2, EarlyStepKeeps DEF j
<1>15. CASE key \notin staged[r] /\ ~(done + 1 < all) /\ c.local
  <2> DEFINE v == [j EXCEPT !.at = "deliver"]
  <2>1. w = v
    BY <1>15 DEF w
  <2>2. /\ v \in Jobs /\ v.at = "deliver" /\ v.way = j.way /\ v.todo = <<>> /\ v.uploaded = <<>>
        /\ v.answer = None
    <3>1. "deliver" \in Stages
      BY DEF Stages
    <3> QED  BY <1>2, <3>1 DEF Jobs
  <2> HIDE DEF v
  <2>3. JobInv(v, input[r])
    BY <2>2, NoneIsApart DEF JobInv, Before, Writing
  <2>4. ASSUME job'[r] = w, Own(r)' = {} PROVE ConversionInv(r)'
    BY <1>4, <1>10, <1>12, <1>15, <2>1, <2>2, <2>4, NoneIsApart DEF ConversionInv, Writing, Refusals
  <2> QED  BY <1>1, <1>2, <1>8, <1>9, <2>1, <2>2, <2>3, <2>4, EarlyStepKeeps DEF j
<1>16. CASE key \notin staged[r] /\ ~(done + 1 < all) /\ ~c.local
  <2> DEFINE t == InOrder(Outputs(c))
  <2>1. w = Work(j, "local", t)
    BY <1>12, <1>16 DEF w, Delivered
  <2>2. t \in Seq(Keys) /\ t = Targets(input[r], "local") /\ "local" \in Ways
    BY <1>2, <1>5 DEF Targets, Ways
  <2> HIDE DEF t
  <2>3. /\ w \in Jobs /\ JobInv(w, input[r]) /\ w.uploaded = <<>> /\ w.at \in {"check", "done"}
        /\ w.answer \in {None, "completed"} /\ w.way = "local"
    BY <1>2, <2>1, <2>2, Targeted
  <2>4. ASSUME job'[r] = w, Own(r)' = {} PROVE ConversionInv(r)'
    BY <1>4, <1>10, <1>12, <1>16, <2>3, <2>4, NoneIsApart DEF ConversionInv, Refusals
  <2> QED  BY <1>1, <1>2, <1>4, <1>8, <1>9, <1>16, <2>3, <2>4, EarlyStepKeeps DEF j
<1> QED  BY <1>13, <1>14, <1>15, <1>16

\* The directory is removed before it is written.
LEMMA DeliverKeeps ==
  ASSUME Inv, NEW r \in Requests, Deliver(r)
  PROVE  Inv'
<1> DEFINE j == job[r]
           c == input[r].conversion
           v == [j EXCEPT !.at = "write"]
<1>1. /\ j.at = "deliver" /\ faults' \in 0 .. MaxFaults
      /\ UNCHANGED <<objects, input, there, staged>>
      /\ \/ Becomes(r, Answered(j, "exists")) /\ UNCHANGED directory
         \/ Becomes(r, v) /\ directory' = [directory EXCEPT ![r] = None]
  BY FaultsAreBounded DEF Deliver, At, Inv
<1>2. /\ Types /\ j \in Jobs /\ JobInv(j, input[r]) /\ ~Wrote(r)
      /\ j.todo = <<>> /\ j.uploaded = <<>> /\ j.answer = None
      /\ ConversionInv(r) /\ c \in Conversions
      /\ staged \in [Requests -> SUBSET Keys]
      /\ directory \in [Requests -> {None} \cup [by : Requests \cup {Earlier}, files : SUBSET Nat]]
  BY <1>1, AtWork
<1>3. CASE Becomes(r, Answered(j, "exists")) /\ UNCHANGED directory
  BY <1>1, <1>3, Ends DEF Refusals
<1>4. CASE Becomes(r, v) /\ directory' = [directory EXCEPT ![r] = None]
  <2>1. /\ v \in Jobs /\ v.at = "write" /\ v.way = j.way /\ v.todo = <<>> /\ v.uploaded = <<>>
        /\ v.answer = None
    <3>1. "write" \in Stages
      BY DEF Stages
    <3> QED  BY <1>2, <3>1 DEF Jobs
  <2> HIDE DEF v
  <2>2. JobInv(v, input[r])
    BY <2>1, NoneIsApart DEF JobInv, Before, Writing
  <2>3. /\ directory' \in [Requests -> {None} \cup [by : Requests \cup {Earlier}, files : SUBSET Nat]]
        /\ directory'[r] = None /\ \A q \in Requests \ {r} : directory'[q] = directory[q]
    BY <1>2, <1>4
  <2>4. AllStaged(r) /\ j.way = "directory" /\ j.way = IF c.local THEN "directory" ELSE "local"
    BY <1>1, <1>2 DEF ConversionInv
  <2>5. ASSUME job'[r] = v, Own(r)' = {} PROVE ConversionInv(r)'
    <3>1. AllStaged(r)' /\ ~Wrote(r)' /\ input'[r].conversion = c
      BY <1>1, <2>3, <2>4 DEF AllStaged, Wrote
    <3> QED  BY <2>1, <2>4, <2>5, <3>1, NoneIsApart DEF ConversionInv, Writing, Refusals
  <2> QED  BY <1>1, <1>2, <1>4, <2>1, <2>2, <2>3, <2>5, EarlyStepKeeps
<1> QED  BY <1>1, <1>3, <1>4

\* The directory has what could be copied, all of it after a success.
LEMMA WriteKeeps ==
  ASSUME Inv, NEW r \in Requests, Write(r) \/ WriteFails(r)
  PROVE  Inv'
<1> DEFINE j == job[r]
           c == input[r].conversion
           ok == Answered([j EXCEPT !.uploaded = Named(c)], "completed")
           cut == [j EXCEPT !.at = "cut"]
<1>1. /\ j.at = "write" /\ faults' \in 0 .. MaxFaults
      /\ UNCHANGED <<objects, input, there, staged>>
  BY FaultsAreBounded DEF Write, WriteFails, At, Inv
<1>2. /\ Types /\ j \in Jobs /\ JobInv(j, input[r]) /\ ~Wrote(r)
      /\ j.todo = <<>> /\ j.uploaded = <<>> /\ j.answer = None
      /\ ConversionInv(r) /\ c \in Conversions
      /\ staged \in [Requests -> SUBSET Keys]
      /\ directory \in [Requests -> {None} \cup [by : Requests \cup {Earlier}, files : SUBSET Nat]]
  BY <1>1, AtWork
<1>3. AllStaged(r) /\ j.way = "directory" /\ j.way = IF c.local THEN "directory" ELSE "local"
  BY <1>1, <1>2 DEF ConversionInv
<1>4. PICK files \in SUBSET staged[r], w \in {ok, Answered(j, "failed"), cut} :
        /\ directory' = [directory EXCEPT ![r] = [by |-> r, files |-> files]]
        /\ Becomes(r, w) /\ (w = ok => files = staged[r])
  <2>1. CASE Write(r)
    BY <2>1 DEF Write
  <2>2. CASE WriteFails(r)
    <3>1. Answered(j, "failed") # ok /\ cut # ok
      <4>1. Answered(j, "failed").answer = "failed" /\ cut.answer = None /\ ok.answer = "completed"
        BY <1>2 DEF Answered, Jobs
      <4> QED  BY <4>1, NoneIsApart
    <3> QED  BY <2>2, <3>1 DEF WriteFails
  <2> QED  BY <2>1, <2>2
<1>5. /\ w \in Jobs /\ JobInv(w, input[r]) /\ w.at \in {"done", "cut"} /\ w.way = "directory"
      /\ w.answer \notin {"invalid", "not_found"} /\ (w.answer = "completed" => w = ok)
  <2>1. CASE w = ok
    <3>1. Named(c) \in Seq(Keys) /\ "done" \in Stages /\ "completed" \in Answers
      BY <1>2, LayersAreNamed DEF Stages, Answers
    <3>2. /\ ok \in Jobs /\ ok.at = "done" /\ ok.way = j.way /\ ok.todo = <<>> /\ ok.answer = "completed"
      BY <1>2, <3>1 DEF Answered, Jobs
    <3> HIDE DEF ok
    <3>3. JobInv(ok, input[r])
      BY <1>3, <3>2 DEF JobInv, Before, Writing
    <3> QED  BY <1>3, <2>1, <3>2, <3>3
  <2>2. CASE w = Answered(j, "failed")
    BY <1>2, <1>3, <2>2, Refused DEF Refusals
  <2>3. CASE w = cut
    <3>1. "cut" \in Stages
      BY DEF Stages
    <3>2. /\ cut \in Jobs /\ cut.at = "cut" /\ cut.way = j.way /\ cut.todo = <<>> /\ cut.answer = None
      BY <1>2, <3>1 DEF Jobs
    <3> HIDE DEF cut
    <3>3. JobInv(cut, input[r])
      BY <1>3, <3>2, NoneIsApart DEF JobInv, Before, Writing
    <3> QED  BY <1>3, <2>3, <3>2, <3>3, NoneIsApart DEF Refusals
  <2> QED  BY <2>1, <2>2, <2>3
<1> HIDE DEF ok, cut
<1>6. files \in SUBSET Nat
  BY <1>2, KeysAreKeys
<1>7. /\ directory' \in [Requests -> {None} \cup [by : Requests \cup {Earlier}, files : SUBSET Nat]]
      /\ directory'[r] = [by |-> r, files |-> files]
      /\ \A q \in Requests \ {r} : directory'[q] = directory[q]
  BY <1>2, <1>4, <1>6
<1>8. ASSUME job'[r] = w, Own(r)' = {} PROVE ConversionInv(r)'
  <2>1. AllStaged(r)' /\ input'[r].conversion = c /\ staged[r] = Outputs(c)
    BY <1>1, <1>3 DEF AllStaged
  <2> QED  BY <1>3, <1>4, <1>5, <1>7, <1>8, <2>1 DEF ConversionInv, Writing
<1> QED  BY <1>1, <1>2, <1>3, <1>4, <1>5, <1>7, <1>8, EarlyStepKeeps

-----------------------------------------------------------------------------
(* The theorems                                                            *)

LEMMA InitInv ==
  Init => Inv
<1> SUFFICES ASSUME Init PROVE Inv
  OBVIOUS
<1>1. PICK b \in Buckets :
        objects = [k \in Keys |-> IF k \in b THEN [by |-> Earlier, whole |-> TRUE] ELSE None]
  BY DEF Init, BucketInit
<1>2. PICK d \in {None, Old} : directory = [r \in Requests |-> d]
  BY DEF Init, ConvInit
<1>3. /\ input = [r \in Requests |-> None] /\ there = [r \in Requests |-> {}]
      /\ job = [r \in Requests |-> Idle] /\ faults = 0 /\ staged = [r \in Requests |-> {}]
  BY DEF Init, BucketInit, ConvInit
<1>4. [by |-> Earlier, whole |-> TRUE] \in Stored
  BY DEF Stored
<1>5. Old \in [by : Requests \cup {Earlier}, files : SUBSET Nat] /\ Old.by = Earlier
  BY DEF Old
<1>6. Types
  BY <1>1, <1>2, <1>3, <1>4, <1>5, IdleJob, ConstantsAssumption DEF Types
<1>7. ASSUME NEW r \in Requests PROVE RunInv(r)
  <2>1. Own(r) = {}
    <3>1. \A k \in Keys : objects[k] # None => objects[k].by = Earlier
      BY <1>1
    <3> QED  BY <3>1, ConstantsAssumption DEF Own
  <2>2. ~Wrote(r)
    BY <1>2, <1>5, ConstantsAssumption DEF Wrote
  <2>3. job[r] = Idle /\ there[r] = {} /\ input[r] = None /\ staged[r] = {}
    BY <1>3
  <2>4. JobInv(job[r], input[r])
    BY <2>3, IdleJob
  <2>5. LooksInv(r) /\ WholeInv(r) /\ OwnInv(r)
    BY <2>1, <2>3, IdleJob, EmptySet DEF LooksInv, WholeInv, OwnInv
  <2>6. PlaceInv(r)
    BY <2>2, <2>3, IdleJob DEF PlaceInv, Converting
  <2> QED  BY <2>4, <2>5, <2>6 DEF RunInv
<1> QED  BY <1>6, <1>7 DEF Inv

LEMMA StutterInv ==
  ASSUME Inv, UNCHANGED allVars
  PROVE  Inv'
<1>1. Types /\ UNCHANGED <<objects, input, there, job, faults, staged, directory>>
  BY DEF Inv, allVars, vars, convVars
<1>2. ASSUME NEW r \in Requests PROVE RunInv(r)'
  <2>1. Undisturbed(r) /\ RunInv(r)
    BY <1>1 DEF Undisturbed, Inv
  <2> QED  BY <1>1, <2>1, OthersKeep
<1>3. Types'
  BY <1>1 DEF Types
<1> QED  BY <1>2, <1>3 DEF Inv

\* One lemma per operation of a request.
LEMMA NextInv ==
  ASSUME Inv, Next
  PROVE  Inv'
<1>1. CASE Restart /\ UNCHANGED convVars
  BY <1>1, RestartKeeps
<1>2. ASSUME NEW r \in Requests, Upload(r) \/ Build(r), UNCHANGED convVars PROVE Inv'
  <2>1. CASE Start(r)
    BY <1>2, <2>1, StartKeeps
  <2>2. CASE Check(r)
    BY <1>2, <2>2, CheckKeeps
  <2>3. CASE Put(r) \/ Copy(r)
    BY <1>2, <2>3, PutKeeps
  <2>4. CASE Open(r) \/ OpenFails(r)
    BY <1>2, <2>4, OpenKeeps
  <2>5. CASE ListPage(r) \/ ListFails(r)
    BY <1>2, <2>5, ListPageKeeps
  <2>6. CASE CheckFails(r) \/ ExportFails(r)
    BY <1>2, <2>6, CheckFailsKeeps
  <2>7. CASE PutFails(r)
    BY <1>2, <2>7, PutFailsKeeps
  <2>8. CASE CopyBreaks(r)
    BY <1>2, <2>8, CopyBreaksKeeps
  <2>9. CASE StartBuild(r)
    BY <1>2, <2>9, StartBuildKeeps
  <2>10. CASE Fetch(r)
    BY <1>2, <2>10, FetchKeeps
  <2>11. CASE FetchFails(r)
    BY <1>2, <2>11, EarlyFailureKeeps
  <2> QED  BY <1>2, <2>1, <2>2, <2>3, <2>4, <2>5, <2>6, <2>7, <2>8, <2>9, <2>10, <2>11
           DEF Upload, Proceeds, Trouble, Build
<1>3. ASSUME NEW r \in Requests, Conversion(r) PROVE Inv'
  <2>1. CASE StartConversion(r)
    BY <2>1, StartConversionKeeps
  <2>2. CASE Download(r) \/ DownloadFails(r)
    BY <2>2, DownloadKeeps
  <2>3. CASE Convert(r)
    BY <2>3, ConvertKeeps
  <2>4. CASE ConvertFails(r)
    BY <2>4, EarlyFailureKeeps
  <2>5. CASE Deliver(r)
    BY <2>5, DeliverKeeps
  <2>6. CASE Write(r) \/ WriteFails(r)
    BY <2>6, WriteKeeps
  <2> QED  BY <1>3, <2>1, <2>2, <2>3, <2>4, <2>5, <2>6 DEF Conversion
<1> QED  BY <1>1, <1>2, <1>3 DEF Next

\* The invariant is one.
THEOREM Invariance == Spec => []Inv
<1>1. Inv /\ [Next]_allVars => Inv'
  BY NextInv, StutterInv
<1> QED  BY InitInv, <1>1, PTL DEF Spec

\* Types, and the list of each way: what is done and what is left make it up, at
\* whatever page, attempt or failure a request is (_upload_http_source, _list_s3_prefix_keys).
THEOREM TypeCorrect == Spec => []TypeOK
<1>1. Inv => TypeOK
  <2> SUFFICES ASSUME Inv PROVE TypeOK
    OBVIOUS
  <2>1. Types /\ \A r \in Requests : RunInv(r) /\ job[r] \in Jobs
    BY DEF Inv, Types
  <2>2. ASSUME NEW r \in Requests
        PROVE  /\ job[r].at \in Stages /\ job[r].attempt \in 1 .. Attempts
               /\ job[r].todo # <<>> => job[r].uploaded \o job[r].todo = Targets(input[r], job[r].way)
    BY <2>1 DEF Jobs, RunInv, JobInv
  <2> QED  BY <2>1, <2>2 DEF TypeOK, Types, Stages, Stored, At
<1> QED  BY Invariance, <1>1, PTL

\* However many requests, failures and restarts there are: what is answered as
\* completed is there, and what is left behind is a prefix of whole objects, and
\* perhaps the next one, of a URL also in part (upload_to_s3, put_to_s3, _put_s3_url).
THEOREM AnswersStayTrue == Spec => []AnswersAreTrue
<1>1. Inv => AnswersAreTrue
  <2> SUFFICES ASSUME Inv, NEW r \in Requests
               PROVE  /\ job[r].answer = "completed" /\ job[r].way # "directory" =>
                           /\ job[r].uploaded = Targets(input[r], job[r].way)
                           /\ \A k \in ToSet(job[r].uploaded) :
                                objects[k] # None /\ (objects[k].by = r => objects[k].whole)
                      /\ \A k \in Own(r) :
                           \/ k \in ToSet(job[r].uploaded) /\ objects[k].whole
                           \/ job[r].todo # <<>> /\ k = Head(job[r].todo)
                                /\ (~objects[k].whole => job[r].way \notin Direct)
                           \/ k = 0 /\ job[r].way \notin Direct
                      /\ job[r].answer = "invalid" => Own(r) = {}
    BY DEF AnswersAreTrue, CompletedIsWhole, LeavesAPrefix
  <2>1. JobInv(job[r], input[r]) /\ WholeInv(r) /\ OwnInv(r)
    BY DEF Inv, RunInv
  <2> QED  BY <2>1 DEF JobInv, WholeInv, OwnInv, Upcoming
<1> QED  BY Invariance, <1>1, PTL

\* A conversion changes what was there only when each of its layers has a file of its
\* own, and a directory that it reports holds these and no others (gdb_to_parquet,
\* shp_to_parquet, _write_local_output).
THEOREM ConversionsDeliverAll == Spec => []ConvertedBeforeDelivered
<1>1. Inv => ConvertedBeforeDelivered
  <2> SUFFICES ASSUME Inv, NEW r \in Requests, Converting(r)
               PROVE  LET changed == Own(r) # {} \/ (directory[r] # None /\ directory[r].by = r)
                      IN /\ changed \/ job[r].answer = "completed" =>
                              /\ staged[r] = Outputs(input[r].conversion)
                              /\ Cardinality(staged[r]) = Len(Selected(input[r].conversion))
                         /\ job[r].answer \in {"invalid", "not_found"} => ~changed \/ job[r].todo # <<>>
                         /\ job[r].way = "directory" /\ job[r].answer = "completed" =>
                              directory[r] = [by |-> r, files |-> Outputs(input[r].conversion)]
    BY DEF ConvertedBeforeDelivered
  <2>1. ConversionInv(r)
    BY DEF Inv, RunInv, PlaceInv
  <2> QED  BY <2>1 DEF ConversionInv, AllStaged, Wrote
<1> QED  BY Invariance, <1>1, PTL

\* A request that may not overwrite writes no key that there was when it came: what
\* it finds missing was missing then, and no attempt writes another key than the one
\* it has looked for (put_to_s3, _put_s3_url_with_retries).
THEOREM ExistingIsKept == Spec => KeepsExisting
<1>1. ASSUME Inv, [Next]_allVars
      PROVE  [\A r \in Requests, k \in Keys :
                objects'[k] # objects[k] /\ objects'[k].by = r /\ ~input[r].overwrite => k \notin there[r]]_objects
  <2> SUFFICES ASSUME NEW r \in Requests, NEW k \in Keys, objects'[k] # objects[k], objects'[k].by = r,
                      ~input[r].overwrite
               PROVE  k \notin there[r]
    OBVIOUS
  <2>1. PICK q \in Requests, whole \in BOOLEAN :
          Writes(q, Head(job[q].todo), whole) /\ job[q].at \in {"put", "copy"}
    <3>1. objects' # objects
      OBVIOUS
    <3>2. ASSUME NEW q \in Requests, Upload(q) \/ Build(q)
          PROVE  Put(q) \/ Copy(q) \/ PutFails(q) \/ CopyBreaks(q)
      <4>1. \A x, y : Arrive(q, x, y) => objects' = objects
        BY DEF Arrive
      <4> QED  BY <3>1, <3>2, <4>1 DEF Upload, Build, Start, StartBuild, Proceeds, Trouble, Check, Open, ListPage,
                 CheckFails, OpenFails, ListFails, Fetch, FetchFails, ExportFails
    <3>3. ASSUME NEW q \in Requests, Conversion(q) PROVE FALSE
      <4>1. \A x, y : Arrive(q, x, y) => objects' = objects
        BY DEF Arrive
      <4> QED  BY <3>1, <3>3, <4>1 DEF Conversion, StartConversion, Download, DownloadFails, Convert, ConvertFails,
                 Deliver, Write, WriteFails
    <3>4. PICK q \in Requests : Put(q) \/ Copy(q) \/ PutFails(q) \/ CopyBreaks(q)
      <4>1. Next
        BY <1>1, <3>1 DEF allVars, vars
      <4>2. ~Restart
        BY <3>1 DEF Restart
      <4> QED  BY <3>2, <3>3, <4>1, <4>2 DEF Next
    <3> QED  BY <3>1, <3>4 DEF Put, Copy, PutFails, CopyBreaks, At
  <2> DEFINE h == Head(job[q].todo)
  <2>2. Types /\ RunInv(q) /\ RunInv(r)
    BY <1>1 DEF Inv
  <2>3. objects' = [objects EXCEPT ![h] = [by |-> q, whole |-> whole]]
    BY <2>1 DEF Writes
  <2>4. k = h /\ objects'[k] = [by |-> q, whole |-> whole]
    BY <2>2, <2>3 DEF Types
  <2>5. q = r
    BY <2>4
  <2> QED  BY <2>1, <2>2, <2>4, <2>5 DEF RunInv, LooksInv
<1>2. Inv /\ [Next]_allVars
      => [\A r \in Requests, k \in Keys :
            objects'[k] # objects[k] /\ objects'[k].by = r /\ ~input[r].overwrite => k \notin there[r]]_objects
  BY <1>1
<1> QED  BY Invariance, <1>2, PTL DEF Spec, KeepsExisting

=============================================================================
