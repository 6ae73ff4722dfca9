--------------------------- MODULE FileCacheProofs --------------------------
(***************************************************************************)
(* What FileCache guarantees for any number of clients, paths, pieces,     *)
(* versions and retries, whatever goes wrong.                              *)
(***************************************************************************)
EXTENDS FileCache, BackoffProofs, TLAPS

(***************************************************************************)
(* Where the running handler stands: its client waits for it; there is no  *)
(* file at its path before it opens one; and nobody is reading the file    *)
(* that it writes.                                                         *)
(***************************************************************************)
JobInv ==
  job # NoJob =>
    /\ client[job.client].stage = "fetching"
    /\ client[job.client].path = job.path
    /\ job.at \in {"attempt", "stalled"} => ~IsFile(job.path)
    /\ job.at \in {"write", "fetched"} => IsFile(job.path)
    /\ job.at = "write" => \A c \in Clients : client[c].stage = "reading"
                                                => client[c].path # job.path

\* A client that has not been answered has received nothing.
NothingYet ==
  \A c \in Clients : client[c].stage \in {"waiting", "fetching"} => client[c].seen = {}

Inv == TypeOK /\ JobInv /\ NothingYet /\ BodiesIntact /\ FailureNotCached

-----------------------------------------------------------------------------
(* Types.                                                                  *)

\* Whatever a client asks for, the path that it gets is one.
LEMMA AskingType ==
  ASSUME NEW stage \in {"idle", "waiting"}, NEW t \in Targets, NEW k \in Kinds
  PROVE  /\ Asking(stage, t, k) \in ClientStates
         /\ Asking(stage, t, k).stage = stage /\ Asking(stage, t, k).status = 0
         /\ Asking(stage, t, k).target = t /\ Asking(stage, t, k).path = CachePath[t]
         /\ Asking(stage, t, k).seen = {} /\ CachePath[t] \in Paths
  BY FileCacheAssumptions DEF Asking, ClientStates

LEMMA InitType == Init => TypeOK
<1> SUFFICES ASSUME Init PROVE TypeOK
  OBVIOUS
<1>1. \A p \in Paths : disk[p] \in {Missing, Dir} \/ disk[p] \in Files
  <2>1. disk \in [Paths -> Existing]
    BY DEF Init
  <2>2. [version: Versions, pieces: {Pieces}] \subseteq Files
    BY FileCacheAssumptions DEF Files
  <2> QED
    BY <2>1, <2>2 DEF Existing
<1>2. \A t \in Targets : Asking("idle", t, "normal") \in ClientStates
  BY AskingType DEF Kinds
<1>3. client \in [Clients -> ClientStates]
  BY <1>2 DEF Init
<1> QED
  BY <1>1, <1>3 DEF Init, TypeOK

\* What a job looks like to the provers.
LEMMA JobFields ==
  ASSUME TypeOK, NEW at, At(at)
  PROVE  /\ job \in Jobs /\ job.at = at
         /\ job.client \in Clients /\ job.path \in Paths
  BY NoJobIsNoJob DEF TypeOK, At, Jobs

\* Giving a client its final status keeps its type.
LEMMA FinalStatusType ==
  ASSUME NEW s \in ClientStates, NEW x \in Statuses
  PROVE  [s EXCEPT !.stage = "answered", !.status = x] \in ClientStates
  BY DEF ClientStates

\* So does moving it to another stage.
LEMMA StageType ==
  ASSUME client \in [Clients -> ClientStates], NEW c \in Clients,
         NEW stage \in {"idle", "waiting", "fetching", "reading", "answered"}
  PROVE  [client EXCEPT ![c].stage = stage] \in [Clients -> ClientStates]
<1>1. [client[c] EXCEPT !.stage = stage] \in ClientStates
  BY DEF ClientStates
<1> QED
  BY <1>1

\* A response is of a known status and starts inside the file.
LEMMA AnswersType ==
  ASSUME NEW kind \in Kinds, NEW k \in 0..Pieces, NEW a \in Answers(kind, k)
  PROVE  /\ a[1] \in Statuses
         /\ a[2] \in 0..Pieces
  BY FileCacheAssumptions DEF Answers, RangeAnswers, RangeIsValid, ConditionalAnswers,
     Kinds, Statuses, RangeStart

LEMMA RespondType ==
  ASSUME TypeOK, NEW c \in Clients, NEW p \in Paths, IsFile(p), Respond(c, p)
  PROVE  client' \in [Clients -> ClientStates]
<1>1. disk[p] \in Files
  BY DEF TypeOK, IsFile
<1>2. client[c].kind \in Kinds /\ disk[p].pieces \in 0..Pieces
  BY <1>1 DEF TypeOK, ClientStates, Files
<1>3. PICK a \in Answers(client[c].kind, disk[p].pieces) :
        client' = [client EXCEPT ![c] =
          [@ EXCEPT !.stage  = IF a[1] = 304 THEN "answered" ELSE "reading",
                    !.status = a[1],
                    !.size   = disk[p].pieces,
                    !.from   = a[2],
                    !.pos    = a[2]]]
  BY DEF Respond
<1>4. a[1] \in Statuses /\ a[2] \in 0..Pieces
  BY <1>2, AnswersType
<1> DEFINE r == [client[c] EXCEPT !.stage  = IF a[1] = 304 THEN "answered" ELSE "reading",
                                  !.status = a[1],
                                  !.size   = disk[p].pieces,
                                  !.from   = a[2],
                                  !.pos    = a[2]]
<1>5. client[c] \in ClientStates
  BY DEF TypeOK
<1>6. r \in ClientStates
  BY <1>2, <1>4, <1>5 DEF ClientStates
<1>7. client' = [client EXCEPT ![c] = r]
  BY <1>3
<1> HIDE DEF r
<1> QED
  BY <1>6, <1>7 DEF TypeOK

\* Making some of the parents of a path puts directories where nothing was.
LEMMA PartlyMadeType ==
  ASSUME TypeOK, NEW p \in Paths, disk' \in PartlyMade(p)
  PROVE  \A q \in Paths : disk'[q] \in {Missing} \/ disk'[q] \in {Dir} \/ disk'[q] \in Files
<1>1. PICK made : disk' = Directories(made)
  BY DEF PartlyMade
<1> QED
  BY <1>1 DEF Directories, TypeOK

(***************************************************************************)
(* Every step keeps every variable within its type.  Whether a cache file  *)
(* is there when the job writes or opens it is up to JobInv.               *)
(***************************************************************************)
LEMMA NextType ==
  ASSUME Inv, [Next]_vars
  PROVE  TypeOK'
<1> USE DEF Inv
<1> USE FileCacheAssumptions, FilesAreNeitherMissingNorDir
<1>1. ASSUME NEW c \in Clients, NEW t \in Targets, NEW k \in Kinds, Request(c, t, k)
      PROVE  TypeOK'
  BY <1>1, AskingType DEF TypeOK, Request
<1>2. ASSUME NEW c \in Clients, ServeCached(c)
      PROVE  TypeOK'
  <2>1. client[c].path \in Paths
    BY DEF TypeOK, ClientStates
  <2>2. client' \in [Clients -> ClientStates]
    BY <1>2, <2>1, RespondType DEF ServeCached, IsCached
  <2> QED
    BY <1>2, <2>2 DEF TypeOK, ServeCached
<1>3. ASSUME NEW c \in Clients, StartFetch(c)
      PROVE  TypeOK'
  <2>1. job' \in Jobs
    BY <1>3 DEF TypeOK, StartFetch, ClientStates, Jobs
  <2>2. client' \in [Clients -> ClientStates]
    BY <1>3, StageType DEF TypeOK, StartFetch
  <2> QED
    BY <1>3, <2>1, <2>2 DEF TypeOK, StartFetch
<1>4. ASSUME NEW c \in Clients, ReadPiece(c)
      PROVE  TypeOK'
  <2>1. CASE IsFile(client[c].path) /\ client[c].pos < disk[client[c].path].pieces
    <3>1. client[c] \in ClientStates /\ disk[client[c].path] \in Files
      BY <2>1 DEF TypeOK, IsFile, ClientStates
    <3>2. client[c].pos + 1 \in 0..Pieces
      BY <2>1, <3>1 DEF ClientStates, Files
    <3>3. client[c].seen \cup {disk[client[c].path].version} \in SUBSET Versions
      BY <3>1 DEF ClientStates, Files
    <3> DEFINE r == [client[c] EXCEPT
                       !.pos  = client[c].pos + 1,
                       !.seen = client[c].seen \cup {disk[client[c].path].version}]
    <3>4. r \in ClientStates
      BY <3>1, <3>2, <3>3 DEF ClientStates
    <3>5. client' = [client EXCEPT ![c] = r]
      BY <1>4, <2>1 DEF ReadPiece
    <3> HIDE DEF r
    <3> QED
      BY <1>4, <3>4, <3>5 DEF TypeOK, ReadPiece
  <2>2. CASE ~(IsFile(client[c].path) /\ client[c].pos < disk[client[c].path].pieces)
    BY <1>4, <2>2 DEF TypeOK, ReadPiece, ClientStates
  <2> QED
    BY <2>1, <2>2
<1>5. ASSUME NEW c \in Clients, EndOfBody(c) \/ HangUp(c)
      PROVE  TypeOK'
  BY <1>5 DEF TypeOK, EndOfBody, HangUp, ClientStates
<1>6. CASE AttemptThrows
  <2>1. job \in Jobs
    BY <1>6, JobFields DEF AttemptThrows
  <2>2. Shifted[job.retry] \in Nat
    BY <2>1, ShiftedSteps DEF Jobs
  <2>3. job' \in Jobs
    <3>1. job.retry + 1 \in Nat /\ job.waited + Shifted[job.retry] \in Int
      BY <2>1, <2>2 DEF Jobs
    <3> DEFINE later == job.waited + Shifted[job.retry]
    <3> HIDE DEF later
    <3>2. job' = IF job.retry = MaxRetries - 1
                 THEN [job EXCEPT !.at = "failed", !.cause = "network"]
                 ELSE [job EXCEPT !.retry = @ + 1, !.waited = later]
      BY <1>6 DEF AttemptThrows, later
    <3> QED
      BY <2>1, <3>1, <3>2 DEF Jobs, Causes, later
  <2> QED
    BY <1>6, <2>3 DEF TypeOK, AttemptThrows
<1>7. CASE AttemptRejected \/ AttemptStalls \/ ParentIsFile
  <2>1. job \in Jobs
    BY <1>7, JobFields DEF AttemptRejected, AttemptStalls, ParentIsFile
  <2>2. \/ job' = [job EXCEPT !.at = "stalled"]
        \/ \E f \in Causes : job' = [job EXCEPT !.at = "failed", !.cause = f]
    BY <1>7 DEF AttemptRejected, AttemptStalls, ParentIsFile, Causes
  <2>3. job' \in Jobs
    BY <2>1, <2>2 DEF Jobs
  <2> QED
    BY <1>7, <2>3 DEF TypeOK, AttemptRejected, AttemptStalls, ParentIsFile
<1>8. CASE CannotOpen
  <2>1. job \in Jobs /\ job.path \in Paths
    BY <1>8, JobFields DEF CannotOpen
  <2>2. job' \in Jobs
    BY <1>8, <2>1 DEF CannotOpen, Jobs, Causes
  <2>3. CASE UNCHANGED disk
    BY <1>8, <2>2, <2>3 DEF TypeOK, CannotOpen
  <2>4. CASE disk' \in PartlyMade(job.path)
    BY <1>8, <2>1, <2>2, <2>4, PartlyMadeType DEF TypeOK, CannotOpen
  <2> QED
    BY <1>8, <2>3, <2>4 DEF CannotOpen
<1>9. CASE OpenCacheFile
  <2>1. job \in Jobs /\ job.path \in Paths
    BY <1>9, JobFields DEF OpenCacheFile
  <2>2. job' \in Jobs
    BY <1>9, <2>1 DEF OpenCacheFile, Jobs
  <2>3. [version |-> upstream[client[job.client].target], pieces |-> 0] \in Files
    BY <2>1 DEF TypeOK, Files, Jobs, ClientStates
  <2> QED
    BY <1>9, <2>1, <2>2, <2>3 DEF TypeOK, OpenCacheFile, DirectoriesMade, Directories
<1>10. CASE WriteBuffer
  <2>1. job.path \in Paths /\ disk[job.path] \in Files
    BY <1>10, JobFields DEF WriteBuffer, JobInv, At, IsFile, TypeOK
  <2>2. [disk[job.path] EXCEPT !.pieces = @ + 1] \in Files
    BY <1>10, <2>1 DEF WriteBuffer, Files
  <2> QED
    BY <1>10, <2>1, <2>2 DEF TypeOK, WriteBuffer
<1>11. CASE CloseCacheFile
  <2>1. job \in Jobs
    BY <1>11, JobFields DEF CloseCacheFile
  <2>2. job' \in Jobs
    BY <1>11, <2>1 DEF CloseCacheFile, Jobs
  <2> QED
    BY <1>11, <2>2 DEF TypeOK, CloseCacheFile
<1>12. CASE AnswerFetched
  <2>1. IsFile(job.path)
    BY <1>12 DEF AnswerFetched, JobInv, At
  <2>2. client' \in [Clients -> ClientStates]
    BY <1>12, <2>1, JobFields, RespondType DEF AnswerFetched
  <2> QED
    BY <1>12, <2>2 DEF TypeOK, AnswerFetched
<1>13. CASE AnswerFailed
  <2>1. job.client \in Clients
    BY <1>13, JobFields DEF AnswerFailed
  <2>2. client[job.client] \in ClientStates
    BY <2>1 DEF TypeOK
  <2> DEFINE r == [client[job.client] EXCEPT !.stage = "answered", !.status = 502]
  <2>3. r \in ClientStates
    <3>1. 502 \in Statuses
      BY DEF Statuses
    <3> QED
      BY <2>2, <3>1, FinalStatusType
  <2>4. client' = [client EXCEPT ![job.client] = r] /\ UNCHANGED <<upstream, disk>> /\ job' = NoJob
    BY <1>13 DEF AnswerFailed
  <2> HIDE DEF r
  <2> QED
    BY <2>1, <2>3, <2>4 DEF TypeOK
<1>14. CASE NullResponse \/ LookupThrows \/ Crash
  <2>1. ProcessDies
    BY <1>14 DEF NullResponse, LookupThrows, Crash
  <2>2. client' \in [Clients -> ClientStates]
    BY <2>1 DEF ProcessDies, TypeOK, ClientStates
  <2>3. CASE UNCHANGED disk
    BY <2>1, <2>2, <2>3 DEF ProcessDies, TypeOK
  <2>4. CASE At("attempt") /\ disk' \in PartlyMade(job.path)
    <3>1. job.path \in Paths
      BY <2>4, JobFields
    <3> QED
      BY <2>1, <2>2, <2>4, <3>1, PartlyMadeType DEF ProcessDies, TypeOK
  <2> QED
    BY <1>14, <2>3, <2>4 DEF NullResponse, LookupThrows, Crash
<1>15. CASE CannotReopen
  <2>1. CASE At("fetched")
    <3>1. job \in Jobs
      BY <2>1, JobFields
    <3>2. job' \in Jobs /\ client' = client
      BY <1>15, <2>1, <3>1 DEF CannotReopen, Jobs, Causes, At
    <3> QED
      BY <1>15, <3>2 DEF TypeOK, CannotReopen
  <2>2. CASE job = NoJob
    <3>1. PICK c \in Clients :
            /\ job' = [client |-> c, path |-> client[c].path, at |-> "failed",
                       retry |-> 0, waited |-> 0, cause |-> "disk"]
            /\ client' = [client EXCEPT ![c].stage = "fetching"]
      BY <1>15, <2>2 DEF CannotReopen, At
    <3>2. job' \in Jobs
      BY <3>1 DEF TypeOK, ClientStates, Jobs, Causes
    <3>3. client' \in [Clients -> ClientStates]
      BY <3>1, StageType DEF TypeOK
    <3> QED
      BY <1>15, <3>2, <3>3 DEF TypeOK, CannotReopen
  <2> QED
    BY <1>15, <2>1, <2>2 DEF CannotReopen
<1>16. ASSUME NEW t \in Targets, Publish(t)
       PROVE  TypeOK'
  BY <1>16 DEF TypeOK, Publish
<1>17. CASE UNCHANGED vars
  BY <1>17 DEF TypeOK, vars
<1> QED
  BY <1>1, <1>2, <1>3, <1>4, <1>5, <1>6, <1>7, <1>8, <1>9, <1>10, <1>11, <1>12,
     <1>13, <1>14, <1>15, <1>16, <1>17 DEF Next, Handle, Attempt, Return

-----------------------------------------------------------------------------
(* The cache directory.                                                    *)

\* Making directories touches no file unless a parent is one.
LEMMA DirectoriesSpareFiles ==
  ASSUME NEW p \in Paths, NEW q \in Paths, IsFile(q),
         \A r \in Parents(p) : ~IsFile(r)
  PROVE  DirectoriesMade(p)[q] = disk[q]
  BY DEF DirectoriesMade, Directories

\* Nor does making some of them.
LEMMA PartlyMadeSparesFiles ==
  ASSUME NEW p \in Paths, \A r \in Parents(p) : ~IsFile(r), disk' \in PartlyMade(p)
  PROVE  \A q \in Paths : disk'[q] = disk[q] \/ (~IsFile(q) /\ disk'[q] = Dir)
<1>1. PICK made \in SUBSET Parents(p) : disk' = Directories(made)
  BY DEF PartlyMade
<1> QED
  BY <1>1 DEF Directories

\* The two steps that may leave directories half made.
LEMMA HalfMade ==
  ASSUME TypeOK, CannotOpen \/ Crash
  PROVE  \A q \in Paths : disk'[q] = disk[q] \/ (~IsFile(q) /\ disk'[q] = Dir)
<1>1. CASE UNCHANGED disk
  BY <1>1
<1>2. CASE At("attempt") /\ (\A r \in Parents(job.path) : ~IsFile(r))
           /\ disk' \in PartlyMade(job.path)
  BY <1>2, JobFields, PartlyMadeSparesFiles
<1> QED
  BY <1>1, <1>2 DEF CannotOpen, Crash

\* No step changes a file but the write of the job that has opened it.
LEMMA FilesStay ==
  ASSUME Inv, [Next]_vars, NEW p \in Paths, IsFile(p),
         ~(At("write") /\ job.path = p)
  PROVE  disk'[p] = disk[p]
<1>1. CASE CannotOpen \/ Crash
  BY <1>1, HalfMade DEF Inv
<1>2. CASE OpenCacheFile
  <2>1. job.path \in Paths /\ ~IsFile(job.path)
    BY <1>2, JobFields DEF OpenCacheFile, Inv, JobInv, At
  <2>2. DirectoriesMade(job.path)[p] = disk[p]
    BY <1>2, <2>1, DirectoriesSpareFiles DEF OpenCacheFile
  <2> QED
    BY <1>2, <2>1, <2>2 DEF OpenCacheFile, DirectoriesMade, Directories
<1>3. CASE WriteBuffer
  <2>1. job.path # p
    BY <1>3 DEF WriteBuffer
  <2> QED
    BY <1>3, <2>1 DEF WriteBuffer, Inv, TypeOK
<1>4. CASE UNCHANGED disk
  BY <1>4
<1> QED
  BY <1>1, <1>2, <1>3, <1>4 DEF Next, Handle, Attempt, Return, Request, ServeCached,
     StartFetch, AttemptThrows, AttemptRejected, AttemptStalls, ParentIsFile,
     CloseCacheFile, AnswerFetched, AnswerFailed, NullResponse, CannotReopen, LookupThrows, Crash,
     ProcessDies, ReadPiece, EndOfBody, HangUp, Publish, vars

-----------------------------------------------------------------------------
(* The bodies.                                                             *)

Intact(c) ==
  /\ \A v, w \in client[c].seen : v = w
  /\ client[c].stage = "reading" =>
       /\ IsFile(client[c].path)
       /\ disk[client[c].path].pieces = client[c].size
       /\ client[c].seen \subseteq {disk[client[c].path].version}

\* What other handlers do meanwhile does not disturb a body.
LEMMA IntactStays ==
  ASSUME Inv, [Next]_vars, NEW c \in Clients, client'[c] = client[c]
  PROVE  Intact(c)'
<1>1. Intact(c)
  BY DEF Inv, BodiesIntact, Intact
<1>2. CASE client[c].stage = "reading"
  <2>1. client[c].path \in Paths /\ IsFile(client[c].path)
    BY <1>1, <1>2 DEF Intact, Inv, TypeOK, ClientStates
  <2>2. ~(At("write") /\ job.path = client[c].path)
    BY <1>2 DEF Inv, JobInv, At
  <2>3. disk'[client[c].path] = disk[client[c].path]
    BY <2>1, <2>2, FilesStay
  <2> QED
    BY <1>1, <1>2, <2>3 DEF Intact, IsFile
<1>3. CASE client[c].stage # "reading"
  BY <1>1, <1>3 DEF Intact
<1> QED
  BY <1>2, <1>3

\* A body starts at the file that has just been opened, with nothing read.
LEMMA RespondIntact ==
  ASSUME TypeOK, NEW c \in Clients, NEW p \in Paths, IsFile(p), Respond(c, p),
         client[c].path = p, client[c].seen = {}, UNCHANGED disk
  PROVE  /\ Intact(c)'
         /\ client'[c].stage \in {"reading", "answered"}
         /\ \A b \in Clients \ {c} : client'[b] = client[b]
<1>1. PICK a \in Answers(client[c].kind, disk[p].pieces) :
        client' = [client EXCEPT ![c] =
          [@ EXCEPT !.stage  = IF a[1] = 304 THEN "answered" ELSE "reading",
                    !.status = a[1],
                    !.size   = disk[p].pieces,
                    !.from   = a[2],
                    !.pos    = a[2]]]
  BY DEF Respond
<1>2. client[c] \in ClientStates /\ client \in [Clients -> ClientStates]
  BY DEF TypeOK
<1>3. /\ client'[c].stage \in {"reading", "answered"}
      /\ client'[c].path = p
      /\ client'[c].seen = {}
      /\ client'[c].size = disk[p].pieces
      /\ \A b \in Clients \ {c} : client'[b] = client[b]
  BY <1>1, <1>2 DEF ClientStates
<1> QED
  BY <1>3 DEF Intact, IsFile

(***************************************************************************)
(* The invariant but for the types, as one formula per client and one for  *)
(* the job, which is how the steps preserve it.                            *)
(***************************************************************************)
Quiet(c) == /\ Intact(c)
            /\ client[c].stage \in {"waiting", "fetching"} => client[c].seen = {}

LEMMA InvParts ==
  Inv <=> TypeOK /\ JobInv /\ FailureNotCached /\ \A c \in Clients : Quiet(c)
  BY DEF Inv, Quiet, NothingYet, BodiesIntact, Intact

\* The steps of a handler inside fetch_from_upstream that change no client.
FetchStep == \/ AttemptThrows \/ AttemptRejected \/ AttemptStalls
             \/ ParentIsFile \/ CannotOpen \/ OpenCacheFile
             \/ WriteBuffer \/ CloseCacheFile

\* They move the job on as JobInv says.
LEMMA FetchStepJob ==
  ASSUME Inv, FetchStep
  PROVE  JobInv' /\ FailureNotCached'
<1> DEFINE p == job.path
<1>1. /\ job \in Jobs /\ p \in Paths /\ job # NoJob
      /\ client' = client
  BY JobFields DEF Inv, FetchStep, AttemptThrows, AttemptRejected, AttemptStalls,
     ParentIsFile, CannotOpen, OpenCacheFile, WriteBuffer, CloseCacheFile, At
<1>2. job'.client = job.client /\ job'.path = p
  BY <1>1 DEF FetchStep, AttemptThrows, AttemptRejected, AttemptStalls, ParentIsFile,
     CannotOpen, OpenCacheFile, WriteBuffer, CloseCacheFile, Jobs
<1>3. /\ client[job.client].stage = "fetching" /\ client[job.client].path = p
  BY <1>1 DEF Inv, JobInv
<1>4. CASE AttemptThrows \/ AttemptRejected \/ AttemptStalls \/ ParentIsFile
  <2>1. ~IsFile(p) /\ disk' = disk /\ job'.at \in {"attempt", "stalled", "failed"}
    BY <1>1, <1>4 DEF AttemptThrows, AttemptRejected, AttemptStalls, ParentIsFile, At,
       Jobs, Inv, JobInv
  <2> QED
    BY <1>1, <1>2, <1>3, <2>1 DEF JobInv, FailureNotCached, IsFile, At
<1>5. CASE CannotOpen
  <2>1. job'.at = "failed" /\ ~IsFile(p)
    BY <1>1, <1>5 DEF CannotOpen, Jobs, At, Inv, JobInv
  <2>2. disk'[p] \in {Missing, Dir}
    BY <1>1, <1>5, <2>1, HalfMade DEF IsFile, Inv
  <2> QED
    BY <1>1, <1>2, <1>3, <2>1, <2>2 DEF JobInv, FailureNotCached, IsFile, At
<1>6. CASE OpenCacheFile
  <2>1. job'.at = "write"
    BY <1>1, <1>6 DEF OpenCacheFile, Jobs
  <2>2. disk'[p] = [version |-> upstream[client[job.client].target], pieces |-> 0]
    BY <1>1, <1>6 DEF OpenCacheFile, DirectoriesMade, Directories
  <2>3. disk'[p] \in Files
    BY <1>1, <2>2, FileCacheAssumptions DEF Inv, TypeOK, Files, Jobs, ClientStates
  <2>4. \A c \in Clients : client[c].stage = "reading" => client[c].path # p
    BY <1>1, <1>6 DEF OpenCacheFile, At, Inv, JobInv, BodiesIntact
  <2> QED
    BY <1>1, <1>2, <1>3, <2>1, <2>3, <2>4, FilesAreNeitherMissingNorDir
    DEF JobInv, FailureNotCached, IsFile, At
<1>7. CASE WriteBuffer
  <2>1. job' = job /\ job.at = "write" /\ IsFile(p)
    BY <1>7 DEF WriteBuffer, At, Inv, JobInv
  <2>2. disk[p] \in Files
    BY <1>1, <2>1 DEF Inv, TypeOK, IsFile
  <2>3. disk'[p] \in Files
    BY <1>1, <1>7, <2>2, FileCacheAssumptions DEF WriteBuffer, Inv, TypeOK, Files
  <2> QED
    BY <1>1, <1>3, <2>1, <2>3, FilesAreNeitherMissingNorDir
    DEF Inv, JobInv, FailureNotCached, IsFile, At
<1>8. CASE CloseCacheFile
  <2>1. job'.at = "fetched" /\ IsFile(p) /\ disk' = disk
    BY <1>1, <1>8 DEF CloseCacheFile, Jobs, At, Inv, JobInv
  <2> QED
    BY <1>1, <1>2, <1>3, <2>1 DEF JobInv, FailureNotCached, IsFile, At
<1> QED
  BY <1>4, <1>5, <1>6, <1>7, <1>8 DEF FetchStep

\* A client that the running handler does not serve may change as long as it
\* does not end up reading the file the handler writes.
LEMMA JobStays ==
  ASSUME Inv, UNCHANGED <<disk, job>>, NEW c \in Clients,
         \A b \in Clients \ {c} : client'[b] = client[b],
         client[c].stage # "fetching" \/ job = NoJob,
         client'[c].stage = "reading" => \/ job = NoJob
                                         \/ /\ client[c].stage = "reading"
                                            /\ client'[c].path = client[c].path
  PROVE  JobInv' /\ FailureNotCached'
<1>1. FailureNotCached'
  BY DEF Inv, FailureNotCached, At, IsFile
<1>2. CASE job = NoJob
  BY <1>1, <1>2 DEF JobInv
<1>3. CASE job # NoJob
  <2>1. job.client \in Clients \ {c}
    BY <1>3 DEF Inv, TypeOK, JobInv, Jobs
  <2> QED
    BY <1>1, <1>3, <2>1 DEF Inv, JobInv, IsFile
<1> QED
  BY <1>2, <1>3

LEMMA NextInv ==
  ASSUME Inv, [Next]_vars
  PROVE  Inv'
<1>t. TypeOK'
  BY NextType
<1>i. TypeOK /\ \A c \in Clients : client[c] \in ClientStates
  BY DEF Inv, TypeOK
<1>q. \A c \in Clients : Quiet(c)
  BY InvParts
<1>u. ASSUME NEW c \in Clients, client'[c] = client[c]
      PROVE  Quiet(c)'
  BY <1>q, <1>u, IntactStays DEF Quiet
<1>1. ASSUME NEW c \in Clients, NEW t \in Targets, NEW k \in Kinds, Request(c, t, k)
      PROVE  Inv'
  <2>1. /\ client'[c].stage = "waiting" /\ client'[c].seen = {}
        /\ \A b \in Clients \ {c} : client'[b] = client[b]
        /\ client[c].stage \in {"idle", "answered"}
    BY <1>1, <1>i, AskingType DEF Request, TypeOK
  <2>2. \A b \in Clients : Quiet(b)'
    BY <1>u, <2>1 DEF Quiet, Intact
  <2>3. JobInv' /\ FailureNotCached'
    BY <1>1, <2>1, JobStays DEF Request
  <2> QED
    BY <1>t, <2>2, <2>3 DEF Inv, Quiet, NothingYet, BodiesIntact, Intact
<1>2. ASSUME NEW c \in Clients, ServeCached(c)
      PROVE  Inv'
  <2>1. client[c].path \in Paths /\ IsFile(client[c].path) /\ client[c].seen = {}
    BY <1>2, <1>i DEF ServeCached, IsCached, Inv, NothingYet, ClientStates
  <2>2. /\ Intact(c)'
        /\ client'[c].stage \in {"reading", "answered"}
        /\ \A b \in Clients \ {c} : client'[b] = client[b]
    BY <1>2, <1>i, <2>1, RespondIntact DEF ServeCached
  <2>3. \A b \in Clients : Quiet(b)'
    BY <1>u, <2>2 DEF Quiet
  <2>4. JobInv' /\ FailureNotCached'
    BY <1>2 DEF ServeCached, JobInv, FailureNotCached, At
  <2> QED
    BY <1>t, <2>3, <2>4 DEF Inv, Quiet, NothingYet, BodiesIntact, Intact
<1>3. ASSUME NEW c \in Clients, StartFetch(c)
      PROVE  Inv'
  <2>1. /\ client'[c].stage = "fetching" /\ client'[c].path = client[c].path
        /\ client'[c].seen = {}
        /\ \A b \in Clients \ {c} : client'[b] = client[b]
    BY <1>3, <1>i DEF StartFetch, TypeOK, ClientStates, Inv, NothingYet
  <2>2. \A b \in Clients : Quiet(b)'
    BY <1>u, <2>1 DEF Quiet, Intact
  <2>3. /\ job'.client = c /\ job'.path = client[c].path
        /\ job'.at \in {"attempt", "failed"} /\ disk' = disk
        /\ ~IsFile(client[c].path)
    BY <1>3 DEF StartFetch, IsCached
  <2>4. JobInv' /\ FailureNotCached'
    BY <2>1, <2>3 DEF JobInv, FailureNotCached, At, IsFile
  <2> QED
    BY <1>t, <2>2, <2>4 DEF Inv, Quiet, NothingYet, BodiesIntact, Intact
<1>4. ASSUME NEW c \in Clients, ReadPiece(c)
      PROVE  Inv'
  <2> DEFINE p == client[c].path
  <2>1. p \in Paths /\ IsFile(p) /\ disk[p].pieces = client[c].size
    BY <1>4, <1>i DEF ReadPiece, Inv, BodiesIntact, ClientStates
  <2> DEFINE r == [client[c] EXCEPT !.pos  = client[c].pos + 1,
                                    !.seen = client[c].seen \cup {disk[p].version}]
  <2>2. client' = [client EXCEPT ![c] = r] /\ client[c].stage = "reading"
    BY <1>4, <2>1 DEF ReadPiece
  <2>r. /\ r.stage = client[c].stage /\ r.path = p /\ r.size = client[c].size
        /\ r.seen = client[c].seen \cup {disk[p].version}
    BY <1>i DEF ClientStates
  <2> HIDE DEF r
  <2>3. /\ client'[c].stage = "reading" /\ client'[c].path = p
        /\ client'[c].size = client[c].size
        /\ client'[c].seen = client[c].seen \cup {disk[p].version}
        /\ \A b \in Clients \ {c} : client'[b] = client[b]
        /\ client[c].stage = "reading"
    BY <1>i, <2>2, <2>r DEF TypeOK
  <2>4. client[c].seen \subseteq {disk[p].version}
    BY <2>3 DEF Inv, BodiesIntact
  <2>5. Quiet(c)'
    BY <1>4, <2>1, <2>3, <2>4 DEF Quiet, Intact, IsFile, ReadPiece
  <2>6. \A b \in Clients : Quiet(b)'
    BY <1>u, <2>3, <2>5
  <2>7. JobInv' /\ FailureNotCached'
    BY <1>4, <2>3, JobStays DEF ReadPiece
  <2> QED
    BY <1>t, <2>6, <2>7 DEF Inv, Quiet, NothingYet, BodiesIntact, Intact
<1>5. ASSUME NEW c \in Clients, EndOfBody(c) \/ HangUp(c)
      PROVE  Inv'
  <2>1. /\ client'[c].stage \in {"answered", "idle"}
        /\ client'[c].seen = client[c].seen
        /\ \A b \in Clients \ {c} : client'[b] = client[b]
        /\ client[c].stage = "reading"
    BY <1>5, <1>i DEF EndOfBody, HangUp, TypeOK, ClientStates
  <2>2. \A b \in Clients : Quiet(b)'
    BY <1>q, <1>u, <2>1 DEF Quiet, Intact
  <2>3. JobInv' /\ FailureNotCached'
    BY <1>5, <2>1, JobStays DEF EndOfBody, HangUp
  <2> QED
    BY <1>t, <2>2, <2>3 DEF Inv, Quiet, NothingYet, BodiesIntact, Intact
<1>6. CASE FetchStep
  <2>1. client' = client
    BY <1>6 DEF FetchStep, AttemptThrows, AttemptRejected, AttemptStalls,
       ParentIsFile, CannotOpen, OpenCacheFile, WriteBuffer, CloseCacheFile
  <2>2. \A b \in Clients : Quiet(b)'
    BY <1>u, <2>1
  <2>3. JobInv' /\ FailureNotCached'
    BY <1>6, FetchStepJob
  <2> QED
    BY <1>t, <2>2, <2>3 DEF Inv, Quiet, NothingYet, BodiesIntact, Intact
<1>7. CASE AnswerFetched
  <2>0. PICK c \in Clients : c = job.client
    BY <1>7, <1>i, JobFields DEF AnswerFetched
  <2>p. PICK p \in Paths : p = job.path
    BY <1>7, <1>i, JobFields DEF AnswerFetched
  <2>1. IsFile(p) /\ client[c].path = p /\ client[c].seen = {}
    BY <1>7, <2>0, <2>p DEF AnswerFetched, Inv, JobInv, NothingYet, At
  <2>2. /\ Intact(c)'
        /\ client'[c].stage \in {"reading", "answered"}
        /\ \A b \in Clients \ {c} : client'[b] = client[b]
    BY <1>7, <1>i, <2>0, <2>p, <2>1, RespondIntact DEF AnswerFetched
  <2>3. \A b \in Clients : Quiet(b)'
    BY <1>u, <2>2 DEF Quiet
  <2>4. JobInv' /\ FailureNotCached'
    BY <1>7 DEF AnswerFetched, JobInv, FailureNotCached, At
  <2> QED
    BY <1>t, <2>3, <2>4 DEF Inv, Quiet, NothingYet, BodiesIntact, Intact
<1>8. CASE AnswerFailed
  <2> DEFINE c == job.client
  <2>1. c \in Clients
    BY <1>8, JobFields DEF AnswerFailed, Inv
  <2>2. /\ client'[c].stage = "answered" /\ client'[c].seen = client[c].seen
        /\ \A b \in Clients \ {c} : client'[b] = client[b]
    BY <1>8, <1>i, <2>1 DEF AnswerFailed, TypeOK, ClientStates
  <2>3. \A b \in Clients : Quiet(b)'
    BY <1>q, <1>u, <2>1, <2>2 DEF Quiet, Intact
  <2>4. JobInv' /\ FailureNotCached'
    BY <1>8 DEF AnswerFailed, JobInv, FailureNotCached, At
  <2> QED
    BY <1>t, <2>3, <2>4 DEF Inv, Quiet, NothingYet, BodiesIntact, Intact
<1>9. CASE NullResponse \/ LookupThrows \/ Crash
  <2>1. ProcessDies
    BY <1>9 DEF NullResponse, LookupThrows, Crash
  <2>2. \A b \in Clients : /\ client'[b].stage \in {"idle", "answered"}
                           /\ client'[b].seen = client[b].seen
    BY <1>i, <2>1 DEF ProcessDies, ClientStates
  <2>3. \A b \in Clients : Quiet(b)'
    BY <1>q, <2>2 DEF Quiet, Intact
  <2>4. JobInv' /\ FailureNotCached'
    BY <2>1 DEF ProcessDies, JobInv, FailureNotCached, At
  <2> QED
    BY <1>t, <2>3, <2>4 DEF Inv, Quiet, NothingYet, BodiesIntact, Intact
<1>10. CASE CannotReopen
  <2>1. CASE At("fetched")
    <3>1. job \in Jobs /\ job # NoJob /\ job.at = "fetched"
      BY <2>1, <1>i, JobFields DEF At
    <3>2. /\ client' = client /\ disk' = disk
          /\ job'.at = "failed" /\ job'.cause = "disk"
          /\ job'.client = job.client /\ job'.path = job.path
      BY <1>10, <3>1 DEF CannotReopen, Jobs
    <3>3. \A b \in Clients : Quiet(b)'
      BY <1>u, <3>2
    <3>4. JobInv' /\ FailureNotCached'
      BY <3>1, <3>2 DEF JobInv, FailureNotCached, At, Inv
    <3> QED
      BY <1>t, <3>3, <3>4 DEF Inv, Quiet, NothingYet, BodiesIntact, Intact
  <2>2. CASE job = NoJob
    <3>1. PICK c \in Clients :
            /\ client[c].stage = "waiting"
            /\ job' = [client |-> c, path |-> client[c].path, at |-> "failed",
                       retry |-> 0, waited |-> 0, cause |-> "disk"]
            /\ client' = [client EXCEPT ![c].stage = "fetching"]
      BY <1>10, <2>2 DEF CannotReopen, At
    <3>2. /\ client'[c].stage = "fetching" /\ client'[c].path = client[c].path
          /\ client'[c].seen = {}
          /\ \A b \in Clients \ {c} : client'[b] = client[b]
      BY <3>1, <1>i DEF TypeOK, ClientStates, Inv, NothingYet
    <3>3. \A b \in Clients : Quiet(b)'
      BY <1>u, <3>2 DEF Quiet, Intact
    <3>4. JobInv' /\ FailureNotCached'
      BY <3>1, <3>2 DEF JobInv, FailureNotCached, At
    <3> QED
      BY <1>t, <3>3, <3>4 DEF Inv, Quiet, NothingYet, BodiesIntact, Intact
  <2> QED
    BY <1>10, <2>1, <2>2 DEF CannotReopen
<1>11. CASE UNCHANGED <<disk, job, client>>
  BY <1>11, <1>t DEF Inv, JobInv, NothingYet, BodiesIntact, FailureNotCached, At, IsFile
<1> QED
  BY <1>1, <1>2, <1>3, <1>4, <1>5, <1>6, <1>7, <1>8, <1>9, <1>10, <1>11
  DEF Next, Handle, Attempt, Return, FetchStep, Publish, vars

LEMMA InitInv == Init => Inv
<1> SUFFICES ASSUME Init PROVE Inv
  OBVIOUS
<1>1. TypeOK
  BY InitType
<1>2. \A c \in Clients : client[c].stage = "idle" /\ client[c].seen = {}
  BY AskingType DEF Init, Kinds
<1>3. job = NoJob
  BY DEF Init
<1> QED
  BY <1>1, <1>2, <1>3 DEF Inv, JobInv, NothingYet, BodiesIntact, FailureNotCached, At

-----------------------------------------------------------------------------
(* The theorems.                                                           *)

THEOREM Invariance == Spec => []Inv
<1>1. Inv /\ [Next]_vars => Inv'
  BY NextInv
<1> QED
  BY <1>1, InitInv, PTL DEF Spec

\* Every variable keeps its type.
THEOREM TypeCorrect == Spec => []TypeOK
<1>1. Inv => TypeOK
  BY DEF Inv
<1> QED
  BY <1>1, Invariance, PTL

(***************************************************************************)
(* Bodies that are sent piecewise after their handler has returned come    *)
(* from one version each, out of a file that does not change meanwhile.    *)
(***************************************************************************)
THEOREM BodiesStayIntact == Spec => []BodiesIntact
<1>1. Inv => BodiesIntact
  BY DEF Inv
<1> QED
  BY <1>1, Invariance, PTL

\* A failed fetch, at whatever attempt, leaves no file at its path.
THEOREM FailuresNotCached == Spec => []FailureNotCached
<1>1. Inv => FailureNotCached
  BY DEF Inv
<1> QED
  BY <1>1, Invariance, PTL

\* Only the job that has opened a cache file ever changes it.
THEOREM CacheImmutable == Spec => CachedNeverChanges
<1>1. Inv /\ [Next]_vars =>
        [\A p \in Paths : IsFile(p) /\ ~(At("write") /\ job.path = p)
                            => disk'[p] = disk[p]]_vars
  BY FilesStay
<1> QED
  BY <1>1, Invariance, PTL DEF Spec, CachedNeverChanges

-----------------------------------------------------------------------------
(* The retries.                                                            *)

(***************************************************************************)
(* The sleeps so far add up to all the shorter shifts, and a fetch that    *)
(* the network has failed has had its last attempt.                        *)
(***************************************************************************)
RetryInv ==
  job # NoJob =>
    /\ job.waited = Shifted[job.retry] - 1
    /\ job.at = "attempt" => job.retry < MaxRetries
    /\ job.retry < MaxRetries \/ job.retry = 0
    /\ job.cause = "network" => job.at = "failed" /\ job.retry = MaxRetries - 1

LEMMA NextRetry ==
  ASSUME TypeOK, RetryInv, [Next]_vars
  PROVE  RetryInv'
<1>1. CASE job' = NoJob \/ job' = job
  BY <1>1 DEF RetryInv
<1>2. ASSUME NEW c \in Clients, StartFetch(c)
      PROVE  RetryInv'
  BY <1>2, ShiftedSteps, FileCacheAssumptions DEF StartFetch, RetryInv
<1>3. CASE AttemptThrows
  <2>1. job \in Jobs /\ job # NoJob /\ job.at = "attempt" /\ job.retry < MaxRetries
        /\ job.cause # "network" /\ job.waited = Shifted[job.retry] - 1
    BY <1>3, JobFields DEF AttemptThrows, RetryInv, At
  <2>2. job.retry \in Nat /\ MaxRetries \in Nat /\ Shifted[job.retry] \in Nat
        /\ Shifted[job.retry + 1] = 2 * Shifted[job.retry]
    BY <2>1, ShiftedSteps, FileCacheAssumptions DEF Jobs
  <2>3. CASE job.retry = MaxRetries - 1
    <3>1. job' = [job EXCEPT !.at = "failed", !.cause = "network"]
      BY <1>3, <2>3 DEF AttemptThrows
    <3>2. /\ job'.retry = job.retry /\ job'.waited = job.waited
          /\ job'.at = "failed"
      BY <2>1, <3>1 DEF Jobs
    <3> QED
      BY <2>1, <2>2, <2>3, <3>2 DEF RetryInv
  <2>4. CASE job.retry # MaxRetries - 1
    <3> DEFINE later == job.waited + Shifted[job.retry]
               next  == job.retry + 1
    <3>1. later = Shifted[next] - 1 /\ next < MaxRetries
      BY <2>1, <2>2, <2>4
    <3>2. job' = [job EXCEPT !.retry = next, !.waited = later]
      BY <1>3, <2>4 DEF AttemptThrows
    <3> HIDE DEF later, next
    <3>3. /\ job'.retry = next /\ job'.waited = later
          /\ job'.at = "attempt" /\ job'.cause = job.cause
      BY <2>1, <3>2 DEF Jobs
    <3> QED
      BY <2>1, <3>1, <3>3 DEF RetryInv
  <2> QED
    BY <2>3, <2>4
<1>4. CASE AttemptRejected \/ AttemptStalls \/ ParentIsFile \/ CannotOpen
           \/ OpenCacheFile \/ CloseCacheFile \/ CannotReopen
  <2>1. CASE job = NoJob
    <3>1. job'.retry = 0 /\ job'.waited = 0 /\ job'.at = "failed" /\ job'.cause = "disk"
      BY <1>4, <2>1 DEF CannotReopen, AttemptRejected, AttemptStalls, ParentIsFile,
         CannotOpen, OpenCacheFile, CloseCacheFile, At
    <3> QED
      BY <3>1, ShiftedSteps DEF RetryInv
  <2>2. CASE job # NoJob
    <3>1. job \in Jobs /\ At(job.at)
      BY <2>2 DEF TypeOK, At
    <3>2. /\ job'.retry = job.retry /\ job'.waited = job.waited
          /\ job'.at # "attempt" /\ job'.cause # "network"
      <4>1. job.at # "failed" => job.cause # "network"
        BY <2>2 DEF RetryInv
      <4>2. CASE AttemptRejected
        <5>1. PICK f \in Faults \cap {"refused", "broken"} :
                job' = [job EXCEPT !.at = "failed", !.cause = f]
          BY <4>2 DEF AttemptRejected
        <5> QED
          BY <3>1, <5>1 DEF Jobs
      <4>3. CASE AttemptStalls \/ OpenCacheFile \/ CloseCacheFile
        <5>1. PICK s \in {"stalled", "write", "fetched"} : job' = [job EXCEPT !.at = s]
          BY <4>3 DEF AttemptStalls, OpenCacheFile, CloseCacheFile
        <5>2. job.at # "failed"
          BY <4>3 DEF AttemptStalls, OpenCacheFile, CloseCacheFile, At
        <5> QED
          BY <3>1, <4>1, <5>1, <5>2 DEF Jobs
      <4>4. CASE ParentIsFile \/ CannotOpen \/ CannotReopen
        <5>1. PICK f \in {"directory", "disk"} :
                job' = [job EXCEPT !.at = "failed", !.cause = f]
          BY <2>2, <4>4 DEF ParentIsFile, CannotOpen, CannotReopen
        <5> QED
          BY <3>1, <5>1 DEF Jobs
      <4> QED
        BY <1>4, <4>2, <4>3, <4>4
    <3> QED
      BY <2>2, <3>2 DEF RetryInv
  <2> QED
    BY <2>1, <2>2
<1> QED
  BY <1>1, <1>2, <1>3, <1>4 DEF Next, Handle, Attempt, Return, Request, ServeCached,
     WriteBuffer, AnswerFetched, AnswerFailed, NullResponse, LookupThrows, Crash, ProcessDies,
     ReadPiece, EndOfBody, HangUp, Publish, vars

LEMMA RetryInvariance == Spec => []RetryInv
<1>1. Init => RetryInv
  BY DEF Init, RetryInv
<1>2. TypeOK /\ RetryInv /\ [Next]_vars => RetryInv'
  BY NextRetry
<1> QED
  BY <1>1, <1>2, TypeCorrect, PTL DEF Spec

(***************************************************************************)
(* Before each attempt the handler has slept exactly the sum of the        *)
(* shorter shifts, and it never sleeps after the last one.                 *)
(***************************************************************************)
BackoffExact == job # NoJob => job.waited = Shifted[job.retry] - 1

THEOREM BackoffIsExact == Spec => []BackoffExact
<1>1. RetryInv => BackoffExact
  BY DEF RetryInv, BackoffExact
<1> QED
  BY <1>1, RetryInvariance, PTL

(***************************************************************************)
(* The shift of AttemptThrows (io.cpp:281) fits an int as long as          *)
(* max_retries is at most 32: up to there the shift of the model, which    *)
(* never overflows, is that of the code.                                   *)
(***************************************************************************)
ShiftFits == At("attempt") /\ job.retry # MaxRetries - 1 => Shifted[job.retry] <= IntMax

THEOREM BackoffFitsInt == MaxRetries <= 32 /\ Spec => []ShiftFits
<1>1. MaxRetries <= 32 /\ TypeOK /\ RetryInv => ShiftFits
  <2> SUFFICES ASSUME MaxRetries <= 32, TypeOK, RetryInv, At("attempt"),
                      job.retry # MaxRetries - 1
               PROVE  Shifted[job.retry] <= IntMax
    BY DEF ShiftFits
  <2>1. job.retry \in Nat /\ job.retry < MaxRetries
    BY JobFields DEF RetryInv, At, Jobs
  <2>2. job.retry <= 30
    BY <2>1, FileCacheAssumptions
  <2>3. Shifted[job.retry] <= Shifted[30]
    BY <2>1, <2>2, ShiftedGrows
  <2> QED
    BY <2>1, <2>3, ShiftedThirty, ShiftedSteps DEF IntMax
<1>2. MaxRetries <= 32 => (MaxRetries <= 32)'
  OBVIOUS
<1>3. MaxRetries <= 32 => [](MaxRetries <= 32)
  BY <1>2, PTL
<1> QED
  BY <1>1, <1>3, TypeCorrect, RetryInvariance, PTL

(***************************************************************************)
(* A fetch that the network has failed has made all its attempts, and has  *)
(* kept everybody else waiting for the sum of the sleeps between them.     *)
(***************************************************************************)
GivenUpAfterAll ==
  job # NoJob /\ job.cause = "network" =>
    /\ At("failed") /\ job.retry + 1 = MaxRetries
    /\ job.waited = Shifted[MaxRetries - 1] - 1

THEOREM NetworkFailureIsFinal == Spec => []GivenUpAfterAll
<1>1. TypeOK /\ RetryInv => GivenUpAfterAll
  BY FileCacheAssumptions DEF RetryInv, GivenUpAfterAll, At, TypeOK, Jobs
<1> QED
  BY <1>1, TypeCorrect, RetryInvariance, PTL

(***************************************************************************)
(* README.md:35 has it "3 attempts with exponential backoff (1s, 2s, 4s)". *)
(* With three attempts a fetch never waits for 4 s: it has waited for 0, 1 *)
(* and 1 + 2 seconds at its attempts, and for 3 when it is given up.       *)
(***************************************************************************)
ThreeAttempts == MaxRetries = 3

ThreeSeconds ==
  job # NoJob => /\ job.waited \in {0, 1, 3}
                 /\ job.cause = "network" => job.waited = 3

THEOREM ThreeAttemptsThreeSeconds == ThreeAttempts /\ Spec => []ThreeSeconds
<1>1. Shifted[0] = 1 /\ Shifted[1] = 2 /\ Shifted[2] = 4
  BY ShiftedSteps, 0 + 1 = 1, 1 + 1 = 2
<1>2. ThreeAttempts /\ TypeOK /\ RetryInv => ThreeSeconds
  <2> SUFFICES ASSUME ThreeAttempts, TypeOK, RetryInv, job # NoJob
               PROVE  /\ job.waited \in {0, 1, 3}
                      /\ job.cause = "network" => job.waited = 3
    BY DEF ThreeSeconds
  <2>1. job.retry \in Nat
    BY DEF TypeOK, Jobs
  <2>2. job.retry \in {0, 1, 2}
    BY <2>1 DEF RetryInv, ThreeAttempts
  <2> QED
    BY <1>1, <2>2 DEF RetryInv, ThreeAttempts
<1>3. ThreeAttempts => ThreeAttempts'
  BY DEF ThreeAttempts
<1>4. ThreeAttempts => [](ThreeAttempts)
  BY <1>3, PTL
<1> QED
  BY <1>2, <1>4, TypeCorrect, RetryInvariance, PTL

-----------------------------------------------------------------------------
(* Who waits, and for what.                                                *)

(***************************************************************************)
(* The handler takes its client out of the queue and gives it up with an   *)
(* answer or a lost connection: a client is being fetched for exactly if   *)
(* it is the client of the job.                                            *)
(***************************************************************************)
NotStranded ==
  \A c \in Clients : client[c].stage = "fetching" <=> job # NoJob /\ job.client = c

\* Nothing but the start and the end of a handler concerns this.
LEMMA StrandedStays ==
  ASSUME NotStranded, job' = NoJob <=> job = NoJob, job # NoJob => job'.client = job.client,
         \A c \in Clients : client'[c].stage = "fetching" <=> client[c].stage = "fetching"
  PROVE  NotStranded'
  BY DEF NotStranded

\* A handler begins with a client that waits while no other is being fetched for.
LEMMA StrandedBegins ==
  ASSUME TypeOK, NotStranded, job = NoJob, NEW c \in Clients, job' # NoJob, job'.client = c,
         client' = [client EXCEPT ![c].stage = "fetching"]
  PROVE  NotStranded'
<1>1. /\ client \in [Clients -> ClientStates] /\ client[c] \in ClientStates
  BY DEF TypeOK
<1>2. client'[c].stage = "fetching"
  BY <1>1 DEF ClientStates
<1>3. \A b \in Clients \ {c} : client'[b] = client[b]
  BY <1>1
<1> QED
  BY <1>2, <1>3 DEF NotStranded

\* It ends with its client in another stage.
LEMMA StrandedEnds ==
  ASSUME TypeOK, NotStranded, job # NoJob, job' = NoJob,
         client'[job.client].stage # "fetching",
         \A b \in Clients \ {job.client} : client'[b] = client[b]
  PROVE  NotStranded'
  BY DEF NotStranded

\* A handler that goes on is still a job.
LEMMA FetchStepInJobs ==
  ASSUME Inv, FetchStep
  PROVE  job' \in Jobs
<1>1. job \in Jobs
  BY JobFields DEF Inv, FetchStep, AttemptThrows, AttemptRejected, AttemptStalls,
     ParentIsFile, CannotOpen, OpenCacheFile, WriteBuffer, CloseCacheFile
<1>2. CASE AttemptThrows
  <2>1. Shifted[job.retry] \in Nat
    BY <1>1, ShiftedSteps DEF Jobs
  <2> DEFINE later == job.waited + Shifted[job.retry]
             next  == job.retry + 1
  <2>2. later \in Int /\ next \in Nat
    BY <1>1, <2>1 DEF Jobs
  <2>3. job' = IF job.retry = MaxRetries - 1
               THEN [job EXCEPT !.at = "failed", !.cause = "network"]
               ELSE [job EXCEPT !.retry = next, !.waited = later]
    BY <1>2 DEF AttemptThrows
  <2> HIDE DEF later, next
  <2> QED
    BY <1>1, <2>2, <2>3 DEF Jobs, Causes
<1>3. CASE ~AttemptThrows
  <2>1. \/ job' = job
        \/ \E s \in {"stalled", "write", "fetched"} : job' = [job EXCEPT !.at = s]
        \/ \E f \in Causes : job' = [job EXCEPT !.at = "failed", !.cause = f]
    BY <1>3 DEF FetchStep, AttemptRejected, AttemptStalls,
       ParentIsFile, CannotOpen, OpenCacheFile, WriteBuffer, CloseCacheFile, Causes
  <2> QED
    BY <1>1, <2>1 DEF Jobs
<1> QED
  BY <1>2, <1>3

\* A client that reads goes on, or loses its connection.
LEMMA ReadPieceStage ==
  ASSUME TypeOK, NEW c \in Clients, ReadPiece(c)
  PROVE  client'[c].stage \in {"reading", "idle"}
<1>1. /\ client \in [Clients -> ClientStates] /\ client[c] \in ClientStates
      /\ client[c].stage = "reading"
  BY DEF TypeOK, ReadPiece
<1> DEFINE r == [client[c] EXCEPT
                   !.pos  = client[c].pos + 1,
                   !.seen = client[c].seen \cup {disk[client[c].path].version}]
<1>2. r.stage = "reading"
  BY <1>1 DEF ClientStates
<1>3. client' = [client EXCEPT ![c] = r] \/ client' = [client EXCEPT ![c].stage = "idle"]
  BY DEF ReadPiece
<1> HIDE DEF r
<1> QED
  BY <1>1, <1>2, <1>3 DEF ClientStates

\* What a response does to the stages of the clients.
LEMMA RespondStages ==
  ASSUME TypeOK, NEW c \in Clients, NEW p \in Paths, Respond(c, p)
  PROVE  /\ client'[c].stage \in {"reading", "answered"}
         /\ \A b \in Clients \ {c} : client'[b] = client[b]
<1>1. client \in [Clients -> ClientStates] /\ client[c] \in ClientStates
  BY DEF TypeOK
<1>2. PICK a \in Answers(client[c].kind, disk[p].pieces) :
        client' = [client EXCEPT ![c] =
          [@ EXCEPT !.stage  = IF a[1] = 304 THEN "answered" ELSE "reading",
                    !.status = a[1],
                    !.size   = disk[p].pieces,
                    !.from   = a[2],
                    !.pos    = a[2]]]
  BY DEF Respond
<1> DEFINE r == [client[c] EXCEPT !.stage  = IF a[1] = 304 THEN "answered" ELSE "reading",
                                  !.status = a[1],
                                  !.size   = disk[p].pieces,
                                  !.from   = a[2],
                                  !.pos    = a[2]]
<1>3. r.stage \in {"reading", "answered"}
  BY <1>1 DEF ClientStates
<1>4. client' = [client EXCEPT ![c] = r]
  BY <1>2
<1> HIDE DEF r
<1> QED
  BY <1>1, <1>3, <1>4

\* A job that fails is answered 502.
LEMMA FailedStages ==
  ASSUME TypeOK, AnswerFailed
  PROVE  /\ client'[job.client].stage = "answered"
         /\ \A b \in Clients \ {job.client} : client'[b] = client[b]
<1>1. /\ job.client \in Clients
      /\ client \in [Clients -> ClientStates]
      /\ client[job.client] \in ClientStates
  BY JobFields DEF AnswerFailed, TypeOK
<1> DEFINE r == [client[job.client] EXCEPT !.stage = "answered", !.status = 502]
<1>2. r.stage = "answered"
  BY <1>1 DEF ClientStates
<1>3. client' = [client EXCEPT ![job.client] = r]
  BY DEF AnswerFailed
<1> HIDE DEF r
<1> QED
  BY <1>1, <1>2, <1>3

\* When the process dies nobody waits.
LEMMA DeathStages ==
  ASSUME TypeOK, ProcessDies
  PROVE  \A c \in Clients : client'[c].stage \in {"idle", "answered"}
  BY DEF TypeOK, ProcessDies, ClientStates

LEMMA NextStranded ==
  ASSUME Inv, NotStranded, [Next]_vars
  PROVE  NotStranded'
<1>t. /\ TypeOK
      /\ client \in [Clients -> ClientStates]
      /\ \A c \in Clients : client[c] \in ClientStates
  BY DEF Inv, TypeOK
<1>1. CASE FetchStep
  <2>1. /\ client' = client /\ job \in Jobs /\ job # NoJob
    BY <1>1, <1>t, JobFields DEF FetchStep, AttemptThrows, AttemptRejected, AttemptStalls,
       ParentIsFile, CannotOpen, OpenCacheFile, WriteBuffer, CloseCacheFile, At
  <2>2. job'.client = job.client
    BY <1>1, <2>1 DEF FetchStep, AttemptThrows, AttemptRejected, AttemptStalls,
       ParentIsFile, CannotOpen, OpenCacheFile, WriteBuffer, CloseCacheFile, Jobs
  <2>3. job' \in Jobs
    BY <1>1, <2>1, FetchStepInJobs
  <2> QED
    BY <2>1, <2>2, <2>3, NoJobIsNoJob, StrandedStays
<1>2. ASSUME NEW c \in Clients, NEW t \in Targets, NEW k \in Kinds, Request(c, t, k)
      PROVE  NotStranded'
  BY <1>t, <1>2, AskingType, StrandedStays DEF Request
<1>3. ASSUME NEW c \in Clients, ServeCached(c)
      PROVE  NotStranded'
  <2>1. client[c].path \in Paths
    BY <1>t DEF ClientStates
  <2>2. /\ client'[c].stage # "fetching"
        /\ \A b \in Clients \ {c} : client'[b] = client[b]
    BY <1>t, <1>3, <2>1, RespondStages DEF ServeCached
  <2> QED
    BY <1>3, <2>2 DEF ServeCached, NotStranded
<1>4. ASSUME NEW c \in Clients, StartFetch(c)
      PROVE  NotStranded'
  <2>1. job'.client = c
    BY <1>4 DEF StartFetch
  <2>2. job' # NoJob
    <3>1. job' \in Jobs
      BY <1>t, <1>4 DEF StartFetch, ClientStates, Jobs
    <3> QED
      BY <3>1, NoJobIsNoJob
  <2> QED
    BY <1>t, <1>4, <2>1, <2>2, StrandedBegins DEF StartFetch
<1>5. CASE CannotReopen
  <2>1. CASE At("fetched")
    <3>1. job \in Jobs /\ job # NoJob
      BY <2>1, <1>t, JobFields DEF At
    <3>2. /\ job' = [job EXCEPT !.at = "failed", !.cause = "disk"]
          /\ client' = client
      BY <1>5, <3>1 DEF CannotReopen
    <3>3. job' \in Jobs /\ job'.client = job.client
      BY <3>1, <3>2 DEF Jobs, Causes
    <3> QED
      BY <3>1, <3>2, <3>3, NoJobIsNoJob, StrandedStays
  <2>2. CASE ~At("fetched")
    <3>1. PICK c \in Clients :
            /\ job' = [client |-> c, path |-> client[c].path, at |-> "failed",
                       retry |-> 0, waited |-> 0, cause |-> "disk"]
            /\ client' = [client EXCEPT ![c].stage = "fetching"]
      BY <1>5, <2>2 DEF CannotReopen
    <3>2. job' \in Jobs /\ job'.client = c
      BY <1>t, <3>1 DEF ClientStates, Jobs, Causes
    <3>3. job = NoJob
      BY <1>5, <2>2 DEF CannotReopen
    <3> QED
      BY <1>t, <3>1, <3>2, <3>3, NoJobIsNoJob, StrandedBegins
  <2> QED
    BY <2>1, <2>2
<1>6. CASE AnswerFetched
  <2>1. /\ job # NoJob /\ job.client \in Clients /\ job.path \in Paths
    BY <1>6, <1>t, JobFields DEF AnswerFetched, At
  <2>2. /\ client'[job.client].stage # "fetching"
        /\ \A b \in Clients \ {job.client} : client'[b] = client[b]
    BY <1>6, <1>t, <2>1, RespondStages DEF AnswerFetched
  <2> QED
    BY <1>6, <1>t, <2>1, <2>2, StrandedEnds DEF AnswerFetched
<1>7. CASE AnswerFailed
  BY <1>7, <1>t, FailedStages, StrandedEnds DEF AnswerFailed, At
<1>8. CASE NullResponse \/ LookupThrows \/ Crash
  <2>1. ProcessDies
    BY <1>8 DEF NullResponse, LookupThrows, Crash
  <2> QED
    BY <2>1, <1>t, DeathStages DEF ProcessDies, NotStranded
<1>9. ASSUME NEW c \in Clients, ReadPiece(c) \/ EndOfBody(c) \/ HangUp(c)
      PROVE  NotStranded'
  <2>1. client[c].stage = "reading" /\ client[c] \in ClientStates /\ job' = job
    BY <1>9, <1>t DEF ReadPiece, EndOfBody, HangUp
  <2>2. client'[c].stage \in {"reading", "idle", "answered"}
    <3>1. CASE ReadPiece(c)
      BY <1>t, <2>1, <3>1, ReadPieceStage
    <3>2. CASE EndOfBody(c) \/ HangUp(c)
      BY <1>t, <2>1, <3>2 DEF EndOfBody, HangUp, ClientStates
    <3> QED
      BY <1>9, <3>1, <3>2
  <2>3. \A b \in Clients \ {c} : client'[b] = client[b]
    BY <1>9, <1>t DEF ReadPiece, EndOfBody, HangUp
  <2> QED
    BY <2>1, <2>2, <2>3 DEF NotStranded
<1>10. CASE UNCHANGED vars \/ \E t \in Targets : Publish(t)
  BY <1>10 DEF vars, Publish, NotStranded
<1> QED
  BY <1>1, <1>2, <1>3, <1>4, <1>5, <1>6, <1>7, <1>8, <1>9, <1>10
  DEF Next, Handle, Attempt, Return, FetchStep

(***************************************************************************)
(* No client is left behind in a handler that has ended: the state half of *)
(* RequestsHandled, whatever goes wrong.                                   *)
(***************************************************************************)
THEOREM NobodyStranded == Spec => []NotStranded
<1>1. Init => NotStranded
  BY AskingType DEF Init, NotStranded, Kinds
<1>2. Inv /\ NotStranded /\ [Next]_vars => NotStranded'
  BY NextStranded
<1> QED
  BY <1>1, <1>2, Invariance, PTL DEF Spec

(***************************************************************************)
(* HandlersRespond fails, and this is all it takes: who has asked goes     *)
(* without an answer only if the process is killed, if is_cached throws,   *)
(* or if the fetch for a conditional request has failed.                   *)
(***************************************************************************)
THEOREM LostOnlyForCause == Spec => LostForCause
<1> DEFINE Cause == \/ Crash \/ LookupThrows
                    \/ At("failed") /\ client[job.client].kind = "conditional"
           A == \A c \in Clients :
                  client[c].stage \in {"waiting", "fetching"} /\ client'[c].stage = "idle"
                    => Cause
<1>1. ASSUME Inv, [Next]_vars, NEW c \in Clients,
             client[c].stage \in {"waiting", "fetching"}, client'[c].stage = "idle"
      PROVE  Cause
  <2>t. TypeOK /\ client \in [Clients -> ClientStates] /\ client[c] \in ClientStates
    BY <1>1 DEF Inv, TypeOK
  <2>1. client'[c] # client[c]
    BY <1>1
  <2>2. ASSUME NEW b \in Clients, \A a \in Clients \ {b} : client'[a] = client[a]
        PROVE  b = c
    BY <2>1, <2>2
  <2>3. CASE AnswerFetched
    <3>1. job.client \in Clients /\ job.path \in Paths
      BY <2>3, <2>t, JobFields DEF AnswerFetched
    <3> QED
      BY <1>1, <2>2, <2>3, <2>t, <3>1, RespondStages DEF AnswerFetched
  <2>4. CASE AnswerFailed
    <3>1. job.client \in Clients
      BY <2>4, <2>t, JobFields DEF AnswerFailed
    <3> QED
      BY <1>1, <2>2, <2>4, <2>t, <3>1, FailedStages
  <2>5. CASE NullResponse
    BY <2>5 DEF NullResponse
  <2>6. ASSUME NEW b \in Clients, ServeCached(b)
        PROVE  FALSE
    <3>1. client[b].path \in Paths
      BY <2>t DEF TypeOK, ClientStates
    <3> QED
      BY <1>1, <2>2, <2>6, <2>t, <3>1, RespondStages DEF ServeCached
  <2>7. ASSUME NEW b \in Clients, client' = [client EXCEPT ![b].stage = "fetching"]
        PROVE  FALSE
    BY <1>1, <2>1, <2>7, <2>t DEF ClientStates
  <2>8. ASSUME NEW b \in Clients, ReadPiece(b) \/ EndOfBody(b) \/ HangUp(b)
        PROVE  FALSE
    <3>1. client[b].stage = "reading" /\ \A a \in Clients \ {b} : client'[a] = client[a]
      BY <2>8, <2>t DEF ReadPiece, EndOfBody, HangUp
    <3> QED
      BY <1>1, <2>2, <3>1
  <2>9. ASSUME NEW b \in Clients, NEW t \in Targets, NEW k \in Kinds, Request(b, t, k)
        PROVE  FALSE
    <3>1. client'[b].stage = "waiting" /\ \A a \in Clients \ {b} : client'[a] = client[a]
      BY <2>9, <2>t, AskingType DEF Request
    <3> QED
      BY <1>1, <2>2, <3>1
  <2> QED
    BY <1>1, <2>1, <2>3, <2>4, <2>5, <2>6, <2>7, <2>8, <2>9 DEF Next, Handle, Attempt,
       Return, AttemptThrows, AttemptRejected, AttemptStalls, ParentIsFile, CannotOpen,
       OpenCacheFile, WriteBuffer, CloseCacheFile, CannotReopen, StartFetch, Publish, vars
<1>2. Inv /\ [Next]_vars => [A]_vars
  BY <1>1
<1> QED
  BY <1>2, Invariance, PTL DEF Spec, LostForCause

-----------------------------------------------------------------------------
(* Without write errors and kills.                                         *)

\* Every file but the one that is being written is complete.
FilesWhole ==
  \A p \in Paths : IsFile(p) /\ ~(At("write") /\ job.path = p) => disk[p].pieces = Pieces

Sober == Faults \cap {"disk", "crash"} = {}

LEMMA NextWhole ==
  ASSUME Sober, Inv, FilesWhole, [Next]_vars
  PROVE  FilesWhole'
<1> SUFFICES ASSUME NEW p \in Paths, IsFile(p)', ~(At("write") /\ job.path = p)'
             PROVE  (disk[p].pieces = Pieces)'
  BY DEF FilesWhole
<1>1. CASE UNCHANGED disk /\ (At("write") => job' = job)
  BY <1>1 DEF FilesWhole, IsFile, At
<1>2. CASE CloseCacheFile
  <2>1. disk' = disk /\ disk[job.path].pieces = Pieces
    BY <1>2 DEF CloseCacheFile, Sober
  <2> QED
    BY <2>1 DEF FilesWhole, IsFile
<1>3. CASE CannotOpen
  <2>1. disk' = disk /\ ~At("write")
    BY <1>3 DEF CannotOpen, Sober, At
  <2> QED
    BY <2>1 DEF FilesWhole, IsFile
<1>4. CASE OpenCacheFile
  <2>1. job \in Jobs /\ job' = [job EXCEPT !.at = "write"] /\ ~At("write")
    BY <1>4, JobFields DEF OpenCacheFile, Inv, At
  <2>2. job' \in Jobs /\ job'.at = "write" /\ job'.path = job.path
    BY <2>1 DEF Jobs
  <2>3. p # job.path
    BY <2>2, NoJobIsNoJob DEF At
  <2>4. disk'[p] = DirectoriesMade(job.path)[p]
    BY <1>4, <2>3 DEF OpenCacheFile, DirectoriesMade, Directories
  <2>5. disk'[p] = disk[p]
    BY <2>4 DEF DirectoriesMade, Directories, IsFile
  <2> QED
    BY <2>1, <2>5 DEF FilesWhole, IsFile
<1>5. CASE WriteBuffer
  <2>1. job' = job /\ At("write")
    BY <1>5 DEF WriteBuffer
  <2>2. p # job.path
    BY <2>1 DEF At
  <2>3. disk'[p] = disk[p]
    BY <1>5, <2>2 DEF WriteBuffer, Inv, TypeOK
  <2> QED
    BY <2>2, <2>3 DEF FilesWhole, IsFile
<1>6. CASE Crash
  BY <1>6 DEF Crash, Sober
<1> QED
  BY <1>1, <1>2, <1>3, <1>4, <1>5, <1>6 DEF Next, Handle, Attempt, Return, Request, ServeCached,
     StartFetch, AttemptThrows, AttemptRejected, AttemptStalls, ParentIsFile,
     AnswerFetched, AnswerFailed, NullResponse, LookupThrows, CannotReopen,
     ProcessDies, ReadPiece, EndOfBody, HangUp, Publish, vars, At

\* What a 200 promises is the size of the file it opens.
LEMMA RespondWhole ==
  ASSUME TypeOK, CompleteWhenServed, NEW c \in Clients, NEW p \in Paths, Respond(c, p),
         disk[p].pieces = Pieces
  PROVE  CompleteWhenServed'
<1>1. PICK a \in Answers(client[c].kind, disk[p].pieces) :
        client' = [client EXCEPT ![c] =
          [@ EXCEPT !.stage  = IF a[1] = 304 THEN "answered" ELSE "reading",
                    !.status = a[1],
                    !.size   = disk[p].pieces,
                    !.from   = a[2],
                    !.pos    = a[2]]]
  BY DEF Respond
<1>2. client'[c].size = Pieces /\ \A b \in Clients \ {c} : client'[b] = client[b]
  BY <1>1 DEF TypeOK, ClientStates
<1> QED
  BY <1>2 DEF CompleteWhenServed

LEMMA NextComplete ==
  ASSUME Inv, FilesWhole, CompleteWhenServed, [Next]_vars
  PROVE  CompleteWhenServed'
<1>i. TypeOK /\ \A c \in Clients : client[c] \in ClientStates
  BY DEF Inv, TypeOK
<1>1. ASSUME NEW c \in Clients, ServeCached(c)
      PROVE  CompleteWhenServed'
  <2>1. client[c].path \in Paths /\ IsFile(client[c].path) /\ ~At("write")
    BY <1>1, <1>i DEF ServeCached, IsCached, ClientStates, At
  <2> QED
    BY <1>1, <1>i, <2>1, RespondWhole DEF ServeCached, FilesWhole
<1>2. CASE AnswerFetched
  <2>1. job.client \in Clients /\ job.path \in Paths /\ IsFile(job.path) /\ ~At("write")
    BY <1>2, <1>i, JobFields DEF AnswerFetched, Inv, JobInv, At
  <2> QED
    BY <1>2, <1>i, <2>1, RespondWhole DEF AnswerFetched, FilesWhole
<1>3. CASE \A c \in Clients : \/ client'[c].status # 200
                              \/ /\ client'[c].status = client[c].status
                                 /\ client'[c].size = client[c].size
  BY <1>3 DEF CompleteWhenServed
<1>4. ASSUME NEW c \in Clients,
             StartFetch(c) \/ ReadPiece(c) \/ EndOfBody(c) \/ HangUp(c)
      PROVE  CompleteWhenServed'
  <2>1. PICK r : client' = [client EXCEPT ![c] = r] /\ r.status = client[c].status
                 /\ r.size = client[c].size
    <3>1. CASE StartFetch(c) \/ EndOfBody(c) \/ HangUp(c)
      BY <1>i, <3>1 DEF StartFetch, EndOfBody, HangUp, ClientStates
    <3>2. CASE ReadPiece(c)
      <4> DEFINE p == client[c].path
                 further == [client[c] EXCEPT !.pos  = client[c].pos + 1,
                                              !.seen = client[c].seen \cup {disk[p].version}]
                 lost == [client[c] EXCEPT !.stage = "idle"]
      <4>1. \/ client' = [client EXCEPT ![c] = further]
            \/ client' = [client EXCEPT ![c] = lost]
        BY <3>2 DEF ReadPiece
      <4>2. /\ further.status = client[c].status /\ further.size = client[c].size
            /\ lost.status = client[c].status /\ lost.size = client[c].size
        BY <1>i DEF ClientStates
      <4> HIDE DEF further, lost
      <4> QED
        BY <4>1, <4>2
    <3> QED
      BY <1>4, <3>1, <3>2
  <2>2. client'[c] = r /\ \A b \in Clients \ {c} : client'[b] = client[b]
    BY <1>i, <2>1 DEF TypeOK
  <2> QED
    BY <1>3, <2>1, <2>2
<1>5. ASSUME NEW c \in Clients, NEW t \in Targets, NEW k \in Kinds, Request(c, t, k)
      PROVE  CompleteWhenServed'
  <2>1. client'[c].status = 0 /\ \A b \in Clients \ {c} : client'[b] = client[b]
    BY <1>5, <1>i, AskingType DEF Request, TypeOK
  <2> QED
    BY <1>3, <2>1
<1>6. CASE AnswerFailed
  <2>1. job.client \in Clients
    BY <1>6, <1>i, JobFields DEF AnswerFailed
  <2>2. /\ client'[job.client].status = 502
        /\ \A b \in Clients \ {job.client} : client'[b] = client[b]
    BY <1>6, <1>i, <2>1 DEF AnswerFailed, TypeOK, ClientStates
  <2> QED
    BY <1>3, <2>2
<1>7. CASE NullResponse \/ LookupThrows \/ Crash
  <2>1. ProcessDies
    BY <1>7 DEF NullResponse, LookupThrows, Crash
  <2>2. \A c \in Clients : /\ client'[c].status = client[c].status
                           /\ client'[c].size = client[c].size
    BY <1>i, <2>1 DEF ProcessDies, ClientStates
  <2> QED
    BY <1>3, <2>2
<1>8. CASE CannotReopen
  <2>1. client' = client \/ \E c \in Clients :
                              client' = [client EXCEPT ![c].stage = "fetching"]
    BY <1>8 DEF CannotReopen
  <2>2. \A c \in Clients : /\ client'[c].status = client[c].status
                           /\ client'[c].size = client[c].size
    BY <1>i, <2>1 DEF TypeOK, ClientStates
  <2> QED
    BY <1>3, <2>2
<1>9. CASE UNCHANGED client
  BY <1>3, <1>9
<1> QED
  BY <1>1, <1>2, <1>4, <1>5, <1>6, <1>7, <1>8, <1>9 DEF Next, Handle, Attempt, Return,
     AttemptThrows, AttemptRejected, AttemptStalls, ParentIsFile, CannotOpen, OpenCacheFile,
     WriteBuffer, CloseCacheFile, Publish, vars

(***************************************************************************)
(* As long as no write fails and nobody kills the process, every 200       *)
(* offers the complete file, although files are filled in place under      *)
(* their final names (fetch_from_upstream, is_cached).                     *)
(***************************************************************************)
THEOREM CompleteUnlessKilled == Sober /\ Spec => []CompleteWhenServed
<1>1. Init => FilesWhole /\ CompleteWhenServed
  <2> SUFFICES ASSUME Init PROVE FilesWhole /\ CompleteWhenServed
    OBVIOUS
  <2>1. \A c \in Clients : client[c].status = 0
    BY AskingType DEF Init, Kinds
  <2>2. disk \in [Paths -> Existing]
    BY DEF Init
  <2> QED
    BY <2>1, <2>2 DEF FilesWhole, CompleteWhenServed, IsFile, Existing
<1>2. Sober /\ Inv /\ FilesWhole /\ CompleteWhenServed /\ [Next]_vars
      => FilesWhole' /\ CompleteWhenServed'
  BY NextWhole, NextComplete
<1>3. Sober => Sober'
  BY DEF Sober
<1>4. Sober => [](Sober)
  BY <1>3, PTL
<1> QED
  BY <1>1, <1>2, <1>4, Invariance, PTL DEF Spec

-----------------------------------------------------------------------------
(* The cache as a map with atomic entries.                                 *)

(***************************************************************************)
(* What the mapping to ReadThroughCache needs besides Inv: a fetch fails   *)
(* for no reason that leaves its file in place, and nobody who has been    *)
(* refused is still reading.                                               *)
(***************************************************************************)
NotForDisk == At("failed") => job.cause # "disk"

ReadersServed == \A c \in Clients : client[c].stage = "reading" => client[c].status # 502

DiskWorks == "disk" \notin Faults

LEMMA NextNotForDisk ==
  ASSUME DiskWorks, TypeOK, NotForDisk, [Next]_vars
  PROVE  NotForDisk'
<1>1. CASE job' = NoJob \/ job' = job
  BY <1>1 DEF NotForDisk, At
<1>2. ASSUME NEW c \in Clients, StartFetch(c)
      PROVE  NotForDisk'
  BY <1>2 DEF StartFetch, NotForDisk, At
<1>3. CASE AttemptThrows
  <2>1. job \in Jobs /\ job.at = "attempt"
    BY <1>3, JobFields DEF AttemptThrows
  <2>2. job'.at = "failed" => job'.cause = "network"
    BY <1>3, <2>1 DEF AttemptThrows, Jobs
  <2> QED
    BY <2>2 DEF NotForDisk, At
<1>4. CASE AttemptRejected \/ ParentIsFile \/ CannotOpen
  <2>1. job \in Jobs
    BY <1>4, JobFields DEF AttemptRejected, ParentIsFile, CannotOpen
  <2>2. job'.cause # "disk"
    BY <1>4, <2>1 DEF AttemptRejected, ParentIsFile, CannotOpen, Jobs, DiskWorks
  <2> QED
    BY <2>2 DEF NotForDisk, At
<1>5. CASE AttemptStalls \/ OpenCacheFile \/ CloseCacheFile
  <2>1. job \in Jobs
    BY <1>5, JobFields DEF AttemptStalls, OpenCacheFile, CloseCacheFile
  <2>2. job'.at # "failed"
    BY <1>5, <2>1 DEF AttemptStalls, OpenCacheFile, CloseCacheFile, Jobs
  <2> QED
    BY <2>2 DEF NotForDisk, At
<1> QED
  BY <1>1, <1>2, <1>3, <1>4, <1>5 DEF Next, Handle, Attempt, Return, Request, ServeCached,
     WriteBuffer, AnswerFetched, AnswerFailed, NullResponse, CannotReopen, LookupThrows, Crash,
     ProcessDies, ReadPiece, EndOfBody, HangUp, Publish, vars, DiskWorks

\* A response to a file keeps request and pieces, and serves the client.
LEMMA RespondServes ==
  ASSUME TypeOK, NEW c \in Clients, NEW p \in Paths, Respond(c, p)
  PROVE  /\ client'[c].path = client[c].path /\ client'[c].seen = client[c].seen
         /\ client'[c].target = client[c].target
         /\ client'[c].stage \in {"reading", "answered"} /\ client'[c].status # 502
         /\ \A b \in Clients \ {c} : client'[b] = client[b]
<1>1. PICK a \in Answers(client[c].kind, disk[p].pieces) :
        client' = [client EXCEPT ![c] =
          [@ EXCEPT !.stage  = IF a[1] = 304 THEN "answered" ELSE "reading",
                    !.status = a[1],
                    !.size   = disk[p].pieces,
                    !.from   = a[2],
                    !.pos    = a[2]]]
  BY DEF Respond
<1>2. client[c] \in ClientStates /\ client \in [Clients -> ClientStates]
  BY DEF TypeOK
<1>3. client[c].kind \in Kinds
  BY <1>2 DEF ClientStates
<1>4. a[1] # 502
  BY <1>3 DEF Answers, RangeAnswers, ConditionalAnswers, Kinds
<1> QED
  BY <1>1, <1>2, <1>4 DEF ClientStates

\* The piece that a client reads comes from the file as it was opened.
LEMMA ReadPieceReceives ==
  ASSUME Inv, NEW c \in Clients, ReadPiece(c)
  PROVE  /\ client[c].path \in Paths /\ IsFile(client[c].path)
         /\ client'[c].stage = "reading" /\ client'[c].path = client[c].path
         /\ client'[c].status = client[c].status /\ client'[c].target = client[c].target
         /\ client'[c].seen = {disk[client[c].path].version}
         /\ \A b \in Clients \ {c} : client'[b] = client[b]
<1> DEFINE p == client[c].path
<1>1. client[c] \in ClientStates /\ client \in [Clients -> ClientStates]
  BY DEF Inv, TypeOK
<1>2. /\ client[c].stage = "reading" /\ client[c].pos < client[c].size
      /\ IsFile(p) /\ disk[p].pieces = client[c].size
      /\ client[c].seen \subseteq {disk[p].version}
  BY DEF ReadPiece, Inv, BodiesIntact
<1> DEFINE r == [client[c] EXCEPT !.pos  = client[c].pos + 1,
                                  !.seen = client[c].seen \cup {disk[p].version}]
<1>3. client' = [client EXCEPT ![c] = r]
  BY <1>2 DEF ReadPiece
<1>4. /\ r.stage = client[c].stage /\ r.path = p /\ r.status = client[c].status
      /\ r.seen = client[c].seen \cup {disk[p].version} /\ r.target = client[c].target
  BY <1>1 DEF ClientStates
<1>5. client[c].seen \cup {disk[p].version} = {disk[p].version}
  BY <1>2
<1>6. p \in Paths
  BY <1>1 DEF ClientStates
<1> HIDE DEF r, p
<1>7. client'[c] = r /\ \A b \in Clients \ {c} : client'[b] = client[b]
  BY <1>1, <1>3
<1> QED
  BY <1>2, <1>4, <1>5, <1>6, <1>7 DEF p

LEMMA NextReadersServed ==
  ASSUME Inv, ReadersServed, [Next]_vars
  PROVE  ReadersServed'
<1>i. TypeOK /\ \A c \in Clients : client[c] \in ClientStates
  BY DEF Inv, TypeOK
<1>1. ASSUME NEW c \in Clients, \A b \in Clients \ {c} : client'[b] = client[b],
             \/ client'[c].stage # "reading"
             \/ client'[c].status # 502
      PROVE  ReadersServed'
  BY <1>1 DEF ReadersServed
<1>2. ASSUME NEW c \in Clients, ServeCached(c)
      PROVE  ReadersServed'
  <2>1. client[c].path \in Paths
    BY <1>i DEF ClientStates
  <2> QED
    BY <1>2, <1>i, <1>1, <2>1, RespondServes DEF ServeCached
<1>3. CASE AnswerFetched
  <2>1. job.client \in Clients /\ job.path \in Paths
    BY <1>3, <1>i, JobFields DEF AnswerFetched
  <2> QED
    BY <1>3, <1>i, <1>1, <2>1, RespondServes DEF AnswerFetched
<1>4. ASSUME NEW c \in Clients, ReadPiece(c)
      PROVE  ReadersServed'
  <2>1. client[c].status # 502
    BY <1>4 DEF ReadersServed, ReadPiece
  <2> QED
    BY <1>4, <1>1, <2>1, ReadPieceReceives
<1>5. ASSUME NEW c \in Clients, StartFetch(c) \/ EndOfBody(c) \/ HangUp(c)
      PROVE  ReadersServed'
  <2>1. client'[c].stage # "reading" /\ \A b \in Clients \ {c} : client'[b] = client[b]
    BY <1>5, <1>i DEF StartFetch, EndOfBody, HangUp, TypeOK, ClientStates
  <2> QED
    BY <1>1, <2>1
<1>6. ASSUME NEW c \in Clients, NEW t \in Targets, NEW k \in Kinds, Request(c, t, k)
      PROVE  ReadersServed'
  <2>1. client'[c].stage = "waiting" /\ \A b \in Clients \ {c} : client'[b] = client[b]
    BY <1>6, <1>i, AskingType DEF Request, TypeOK
  <2> QED
    BY <1>1, <2>1
<1>7. CASE AnswerFailed
  <2>1. job.client \in Clients
    BY <1>7, <1>i, JobFields DEF AnswerFailed
  <2>2. /\ client'[job.client].stage = "answered"
        /\ \A b \in Clients \ {job.client} : client'[b] = client[b]
    BY <1>7, <1>i, <2>1 DEF AnswerFailed, TypeOK, ClientStates
  <2> QED
    BY <1>1, <2>1, <2>2
<1>8. CASE NullResponse \/ LookupThrows \/ Crash
  <2>1. ProcessDies
    BY <1>8 DEF NullResponse, LookupThrows, Crash
  <2>2. \A c \in Clients : client'[c].stage # "reading"
    BY <1>i, <2>1 DEF ProcessDies, ClientStates
  <2> QED
    BY <2>2 DEF ReadersServed
<1>9. CASE CannotReopen
  <2>1. client' = client \/ \E c \in Clients :
                              client' = [client EXCEPT ![c].stage = "fetching"]
    BY <1>9 DEF CannotReopen
  <2>2. CASE client' = client
    BY <2>2 DEF ReadersServed
  <2>3. ASSUME NEW c \in Clients, client' = [client EXCEPT ![c].stage = "fetching"]
        PROVE  ReadersServed'
    <3>1. client'[c].stage = "fetching" /\ \A b \in Clients \ {c} : client'[b] = client[b]
      BY <2>3, <1>i DEF TypeOK, ClientStates
    <3> QED
      BY <1>1, <3>1
  <2> QED
    BY <2>1, <2>2, <2>3
<1>10. CASE UNCHANGED client
  BY <1>10 DEF ReadersServed
<1> QED
  BY <1>2, <1>3, <1>4, <1>5, <1>6, <1>7, <1>8, <1>9, <1>10 DEF Next, Handle, Attempt, Return,
     AttemptThrows, AttemptRejected, AttemptStalls, ParentIsFile, CannotOpen, OpenCacheFile,
     WriteBuffer, CloseCacheFile, Publish, vars

-----------------------------------------------------------------------------
(* The mapping.                                                            *)

\* The view of a client, and how the view of all follows the change of one.
ViewOf(c) == [stage |-> Stage(c), target |-> client[c].target,
              path |-> client[c].path, seen |-> client[c].seen]

LEMMA ClientsSeen ==
  \A c \in Clients : /\ ClientView[c] = ViewOf(c)
                     /\ ClientView[c].stage = Stage(c)
                     /\ ClientView[c].target = client[c].target
                     /\ ClientView[c].path = client[c].path
                     /\ ClientView[c].seen = client[c].seen
  BY DEF ClientView, ViewOf

LEMMA OneClientSeen ==
  ASSUME NEW c \in Clients, \A b \in Clients \ {c} : client'[b] = client[b]
  PROVE  ClientView' = [ClientView EXCEPT ![c] = ViewOf(c)']
<1>1. \A b \in Clients \ {c} : ViewOf(b)' = ViewOf(b)
  BY DEF ViewOf, Stage
<1>2. ClientView = [b \in Clients |-> ViewOf(b)]
  BY DEF ClientView, ViewOf
<1>3. ClientView' = [b \in Clients |-> ViewOf(b)']
  BY DEF ClientView, ViewOf
<1> QED
  BY <1>1, <1>2, <1>3

LEMMA ClientsUnseen ==
  ASSUME \A c \in Clients : ViewOf(c)' = ViewOf(c)
  PROVE  ClientView' = ClientView
<1>1. ClientView = [b \in Clients |-> ViewOf(b)]
  BY DEF ClientView, ViewOf
<1>2. ClientView' = [b \in Clients |-> ViewOf(b)']
  BY DEF ClientView, ViewOf
<1> QED
  BY <1>1, <1>2

LEMMA CacheUnseen ==
  ASSUME \A p \in Paths : /\ IsFile(p)' <=> IsFile(p)
                          /\ IsFile(p) => disk'[p].version = disk[p].version
  PROVE  CacheView' = CacheView
  BY DEF CacheView

\* A cached path has a version in the view, and no other path does.
LEMMA CachedSeen ==
  ASSUME TypeOK, NEW p \in Paths
  PROVE  /\ IsFile(p) => CacheView[p] = disk[p].version
         /\ CacheView[p] = Missing <=> ~IsFile(p)
<1>1. IsFile(p) => disk[p] \in Files
  BY DEF TypeOK, IsFile
<1>2. IsFile(p) => disk[p].version \in Versions
  BY <1>1 DEF Files
<1>3. CacheView[p] = IF IsFile(p) THEN disk[p].version ELSE Missing
  BY DEF CacheView
<1> QED
  BY <1>2, <1>3, MissingIsNoVersion

\* The steps of a fetch that the map does not see.
LEMMA FetchUnseen ==
  ASSUME DiskWorks, Inv, FetchStep, ~OpenCacheFile
  PROVE  UNCHANGED ReadThrough!vars
<1>1. UNCHANGED <<upstream, client>>
  BY DEF FetchStep, AttemptThrows, AttemptRejected, AttemptStalls, ParentIsFile, CannotOpen,
     WriteBuffer, CloseCacheFile
<1>2. ClientView' = ClientView
  BY <1>1 DEF ClientView, Stage
<1>3. CacheView' = CacheView
  <2>1. CASE WriteBuffer
    <3>1. job.path \in Paths /\ IsFile(job.path)
      BY <2>1, JobFields DEF WriteBuffer, Inv, JobInv, At
    <3>2. disk[job.path] \in Files
      BY <3>1 DEF Inv, TypeOK, IsFile
    <3>f. PICK file : file = [disk[job.path] EXCEPT !.pieces = @ + 1]
      OBVIOUS
    <3>3. disk' = [disk EXCEPT ![job.path] = file]
      BY <2>1, <3>f DEF WriteBuffer
    <3>4. file \in [version: Versions, pieces: 0..Pieces]
      BY <2>1, <3>2, <3>f, FileCacheAssumptions DEF Files, WriteBuffer
    <3>5. file.version = disk[job.path].version
      BY <3>2, <3>f DEF Files
    <3>6. file \notin {Missing, Dir}
      BY <3>4, FilesAreNeitherMissingNorDir DEF Files
    <3>7. \A p \in Paths : disk'[p] = disk[p] \/ (p = job.path /\ disk'[p] = file)
      BY <3>3
    <3> QED
      BY <3>1, <3>5, <3>6, <3>7, CacheUnseen DEF IsFile
  <2>2. CASE ~WriteBuffer
    <3>1. disk' = disk
      BY <2>2 DEF FetchStep, AttemptThrows, AttemptRejected, AttemptStalls, ParentIsFile,
         CannotOpen, CloseCacheFile, DiskWorks
    <3> QED
      BY <3>1 DEF CacheView, IsFile
  <2> QED
    BY <2>1, <2>2
<1> QED
  BY <1>1, <1>2, <1>3 DEF ReadThrough!vars

\* The answer of the upstream is in the map as soon as its file is open.
LEMMA OpenFetches ==
  ASSUME Inv, OpenCacheFile
  PROVE  ReadThrough!Next
<1>c. PICK c : c = job.client
  OBVIOUS
<1>p. PICK p : p = job.path
  OBVIOUS
<1>g. PICK t : t = client[c].target
  OBVIOUS
<1>f. PICK file : file = [version |-> upstream[t], pieces |-> 0]
  OBVIOUS
<1>1. /\ c \in Clients /\ p \in Paths /\ ~IsFile(p)
      /\ client[c].stage = "fetching" /\ client[c].path = p
  BY <1>c, <1>p, JobFields DEF OpenCacheFile, Inv, JobInv, At
<1>2. UNCHANGED <<upstream, client>>
  BY DEF OpenCacheFile
<1>3. ClientView' = ClientView
  BY <1>2 DEF ClientView, Stage
<1>4. file \in Files /\ file.version = upstream[t]
  BY <1>1, <1>f, <1>g, FileCacheAssumptions DEF Files, Inv, TypeOK, ClientStates
<1>5. disk' = [DirectoriesMade(p) EXCEPT ![p] = file]
  BY <1>c, <1>g, <1>p, <1>f DEF OpenCacheFile
<1>6. disk'[p] = file /\ \A q \in Paths \ {p} : disk'[q] = DirectoriesMade(p)[q]
  BY <1>1, <1>5 DEF DirectoriesMade, Directories
<1>7. \A q \in Paths \ {p} : /\ IsFile(q)' <=> IsFile(q)
                             /\ IsFile(q) => disk'[q] = disk[q]
  <2>1. \A r \in Parents(p) : ~IsFile(r)
    BY <1>p DEF OpenCacheFile
  <2> QED
    BY <1>1, <1>6, <2>1 DEF DirectoriesMade, Directories, IsFile
<1>8. IsFile(p)'
  BY <1>4, <1>6, FilesAreNeitherMissingNorDir DEF IsFile
<1>9. CacheView' = [CacheView EXCEPT ![p] = upstream[t]]
  BY <1>1, <1>4, <1>6, <1>7, <1>8 DEF CacheView
<1>10. Stage(c) = "waiting"
  BY <1>1 DEF Stage
<1>11. ReadThrough!Fetch(c)
  <2>1. CacheView[p] = Missing
    BY <1>1 DEF CacheView
  <2>2. ClientView[c].stage = "waiting" /\ ClientView[c].path = p /\ ClientView[c].target = t
    BY <1>1, <1>g, <1>10, ClientsSeen
  <2> QED
    BY <1>2, <1>3, <1>9, <2>1, <2>2 DEF ReadThrough!Fetch, ReadThrough!Waiting
<1> QED
  BY <1>1, <1>11 DEF ReadThrough!Next

\* A response that opens a cached file serves the client from the map.
LEMMA RespondIsServe ==
  ASSUME TypeOK, NEW c \in Clients, NEW p \in Paths, IsFile(p), Respond(c, p),
         client[c].path = p, client[c].stage \in {"waiting", "fetching"},
         UNCHANGED <<upstream, disk>>
  PROVE  ReadThrough!Next
<1>1. /\ client'[c].path = p /\ client'[c].seen = client[c].seen
      /\ client'[c].target = client[c].target
      /\ client'[c].stage \in {"reading", "answered"} /\ client'[c].status # 502
      /\ \A b \in Clients \ {c} : client'[b] = client[b]
  BY RespondServes
<1>2. Stage(c) = "waiting" /\ Stage(c)' = "served"
  BY <1>1 DEF Stage
<1>3. ViewOf(c)' = [ViewOf(c) EXCEPT !.stage = "served"]
  BY <1>1, <1>2 DEF ViewOf
<1>4. ClientView' = [ClientView EXCEPT ![c] = [ViewOf(c) EXCEPT !.stage = "served"]]
  BY <1>1, <1>3, OneClientSeen
<1>5. CacheView' = CacheView
  BY DEF CacheView, IsFile
<1>6. CacheView[p] # Missing
  BY CachedSeen
<1>7. ClientView[c] = ViewOf(c) /\ ClientView[c].stage = "waiting" /\ ClientView[c].path = p
  BY <1>2, ClientsSeen
<1>8. ReadThrough!Serve(c)
  BY <1>4, <1>5, <1>6, <1>7 DEF ReadThrough!Serve, ReadThrough!Waiting
<1> QED
  BY <1>8 DEF ReadThrough!Next

\* A failed fetch refuses its client, for the path is not in the map.
LEMMA FailureRefuses ==
  ASSUME Inv, NotForDisk, AnswerFailed
  PROVE  ReadThrough!Next
<1>c. PICK c : c = job.client
  OBVIOUS
<1>p. PICK p : p = job.path
  OBVIOUS
<1>1. /\ c \in Clients /\ p \in Paths
      /\ client[c].stage = "fetching" /\ client[c].path = p
  BY <1>c, <1>p, JobFields DEF AnswerFailed, Inv, JobInv, At
<1>2. ~IsFile(p)
  BY <1>p DEF AnswerFailed, Inv, FailureNotCached, NotForDisk
<1>3. client \in [Clients -> ClientStates] /\ client[c] \in ClientStates
  BY <1>1 DEF Inv, TypeOK
<1>4. /\ client'[c].path = p /\ client'[c].seen = client[c].seen
      /\ client'[c].target = client[c].target
      /\ client'[c].stage = "answered" /\ client'[c].status = 502
      /\ \A b \in Clients \ {c} : client'[b] = client[b]
  BY <1>1, <1>3, <1>c DEF AnswerFailed, ClientStates
<1>5. Stage(c) = "waiting" /\ Stage(c)' = "refused"
  BY <1>1, <1>4 DEF Stage
<1>6. ViewOf(c)' = [ViewOf(c) EXCEPT !.stage = "refused"]
  BY <1>1, <1>4, <1>5 DEF ViewOf
<1>7. ClientView' = [ClientView EXCEPT ![c] = [ViewOf(c) EXCEPT !.stage = "refused"]]
  BY <1>1, <1>4, <1>6, OneClientSeen
<1>8. CacheView' = CacheView /\ upstream' = upstream
  BY DEF AnswerFailed, CacheView, IsFile
<1>9. CacheView[p] = Missing
  BY <1>1, <1>2 DEF CacheView
<1>10. ClientView[c] = ViewOf(c) /\ ClientView[c].stage = "waiting" /\ ClientView[c].path = p
  BY <1>1, <1>5, ClientsSeen
<1>11. ReadThrough!Refuse(c)
  BY <1>7, <1>8, <1>9, <1>10 DEF ReadThrough!Refuse, ReadThrough!Waiting
<1> QED
  BY <1>1, <1>11 DEF ReadThrough!Next

\* A piece comes from the version in the map.
LEMMA ReadReceives ==
  ASSUME Inv, ReadersServed, NEW c \in Clients, ReadPiece(c)
  PROVE  ReadThrough!Next
<1>p. PICK p : p = client[c].path
  OBVIOUS
<1>v. PICK v : v = disk[p].version
  OBVIOUS
<1>g. PICK t : t = client[c].target
  OBVIOUS
<1>1. /\ p \in Paths /\ IsFile(p)
      /\ client'[c].stage = "reading" /\ client'[c].path = p
      /\ client'[c].seen = {v} /\ client'[c].target = t
      /\ \A b \in Clients \ {c} : client'[b] = client[b]
  BY <1>p, <1>v, <1>g, ReadPieceReceives
<1>2. client[c].stage = "reading" /\ UNCHANGED <<upstream, disk>>
  BY DEF ReadPiece
<1>3. Stage(c) = "served" /\ Stage(c)' = "served"
  BY <1>1, <1>2 DEF Stage
<1>4. CacheView[p] = v /\ CacheView[p] # Missing
  BY <1>1, <1>v, CachedSeen DEF Inv
<1>5. CacheView' = CacheView
  BY <1>2 DEF CacheView, IsFile
<1>6. ViewOf(c)' = [ViewOf(c) EXCEPT !.seen = {v}]
  <2>s. PICK s : s = client[c].seen
    OBVIOUS
  <2>1. ViewOf(c) = [stage |-> "served", target |-> t, path |-> p, seen |-> s]
    BY <1>3, <1>p, <1>g, <2>s DEF ViewOf
  <2>w. PICK w : w = {v}
    OBVIOUS
  <2>2. ViewOf(c)' = [stage |-> "served", target |-> t, path |-> p, seen |-> w]
    BY <1>1, <1>3, <2>w DEF ViewOf
  <2>3. ViewOf(c)' = [ViewOf(c) EXCEPT !.seen = w]
    BY <2>1, <2>2
  <2> QED
    BY <2>3, <2>w
<1>7. ClientView' = [ClientView EXCEPT ![c] = [ViewOf(c) EXCEPT !.seen = {v}]]
  BY <1>1, <1>6, OneClientSeen
<1>8. ClientView[c] = ViewOf(c) /\ ClientView[c].stage = "served" /\ ClientView[c].path = p
  BY <1>3, <1>p, ClientsSeen
<1>9. ReadThrough!Receive(c)
  BY <1>2, <1>4, <1>5, <1>7, <1>8 DEF ReadThrough!Receive
<1> QED
  BY <1>9 DEF ReadThrough!Next

\* Connections that break are lost, and nothing else is.
LEMMA ConnectionsLost ==
  ASSUME NEW lost \in SUBSET Clients, UNCHANGED <<upstream, CacheView>>,
         \A c \in lost : Stage(c) \in {"waiting", "served"}
                         /\ ViewOf(c)' = [ViewOf(c) EXCEPT !.stage = "idle"],
         \A c \in Clients \ lost : client'[c] = client[c]
  PROVE  ReadThrough!Next
<1>1. CacheView' = CacheView
  OBVIOUS
<1>2. ASSUME NEW c \in Clients \ lost
      PROVE  ViewOf(c)' = ViewOf(c)
  <2>1. client'[c] = client[c]
    OBVIOUS
  <2>2. Stage(c)' = Stage(c)
    BY <2>1 DEF Stage
  <2> QED
    BY <2>1, <2>2 DEF ViewOf
<1>3. ClientView' = [c \in Clients |-> ViewOf(c)']
  BY DEF ClientView, ViewOf
<1>4. \A c \in Clients : ClientView[c] = ViewOf(c) /\ ClientView[c].stage = Stage(c)
  BY ClientsSeen
<1>5. ClientView' = [c \in Clients |-> IF c \in lost
                                       THEN [ClientView[c] EXCEPT !.stage = "idle"]
                                       ELSE ClientView[c]]
  BY <1>2, <1>3, <1>4
<1>6. ReadThrough!Lose(lost)
  BY <1>1, <1>4, <1>5 DEF ReadThrough!Lose
<1> QED
  BY <1>6 DEF ReadThrough!Next

\* The view of a client that goes back to "idle".
LEMMA IdleSeen ==
  ASSUME NEW c \in Clients, client'[c].stage = "idle",
         client'[c].target = client[c].target,
         client'[c].path = client[c].path, client'[c].seen = client[c].seen
  PROVE  ViewOf(c)' = [ViewOf(c) EXCEPT !.stage = "idle"]
<1>1. Stage(c)' = "idle"
  BY DEF Stage
<1> QED
  BY <1>1 DEF ViewOf

\* A request is one that the map is asked.
LEMMA RequestAsks ==
  ASSUME TypeOK, NEW c \in Clients, NEW t \in Targets, NEW k \in Kinds, Request(c, t, k)
  PROVE  ReadThrough!Next
<1>a. PICK asked : asked = ReadThrough!Asking("waiting", t)
  OBVIOUS
<1>1. /\ client'[c].stage = "waiting" /\ client'[c].target = t
      /\ client'[c].path = CachePath[t] /\ client'[c].seen = {}
      /\ \A b \in Clients \ {c} : client'[b] = client[b]
  BY AskingType DEF Request, TypeOK
<1>2. Stage(c) # "waiting" /\ Stage(c)' = "waiting"
  BY <1>1 DEF Stage, Request
<1>3. ViewOf(c)' = asked
  BY <1>a, <1>1, <1>2 DEF ViewOf, ReadThrough!Asking
<1>4. ClientView' = [ClientView EXCEPT ![c] = asked]
  BY <1>1, <1>3, OneClientSeen
<1>5. UNCHANGED <<upstream, CacheView>>
  BY DEF Request, CacheView, IsFile
<1>6. ClientView[c].stage # "waiting"
  BY <1>2, ClientsSeen
<1>7. ReadThrough!Ask(c, t)
  BY <1>a, <1>4, <1>5, <1>6 DEF ReadThrough!Ask
<1> QED
  BY <1>7 DEF ReadThrough!Next

(***************************************************************************)
(* Every step of FileCache is a step of the map or changes nothing in it.  *)
(* NullResponse, LookupThrows and Crash lose all connections at once.      *)
(***************************************************************************)
LEMMA NextImplements ==
  ASSUME DiskWorks, Inv, NotForDisk, ReadersServed, [Next]_vars
  PROVE  [ReadThrough!Next]_(ReadThrough!vars)
<1>i. TypeOK /\ \A c \in Clients : client[c] \in ClientStates
  BY DEF Inv, TypeOK
<1>s. ASSUME UNCHANGED <<upstream, disk>>, \A c \in Clients : ViewOf(c)' = ViewOf(c)
      PROVE  UNCHANGED ReadThrough!vars
  <2>1. ClientView' = ClientView
    BY <1>s, ClientsUnseen
  <2>2. CacheView' = CacheView
    BY <1>s DEF CacheView, IsFile
  <2> QED
    BY <1>s, <2>1, <2>2 DEF ReadThrough!vars
<1>o. ASSUME NEW c \in Clients, \A b \in Clients \ {c} : client'[b] = client[b],
             Stage(c)' = Stage(c), client'[c].path = client[c].path,
             client'[c].target = client[c].target, client'[c].seen = client[c].seen
      PROVE  \A b \in Clients : ViewOf(b)' = ViewOf(b)
  <2>1. ViewOf(c)' = ViewOf(c)
    BY <1>o DEF ViewOf
  <2>2. ASSUME NEW b \in Clients \ {c}
        PROVE  ViewOf(b)' = ViewOf(b)
    <3>1. client'[b] = client[b]
      BY <1>o
    <3>2. Stage(b)' = Stage(b)
      BY <3>1 DEF Stage
    <3> QED
      BY <3>1, <3>2 DEF ViewOf
  <2> QED
    BY <2>1, <2>2
<1>1. ASSUME NEW c \in Clients, NEW t \in Targets, NEW k \in Kinds, Request(c, t, k)
      PROVE  ReadThrough!Next
  BY <1>1, <1>i, RequestAsks
<1>2. ASSUME NEW c \in Clients, ServeCached(c)
      PROVE  ReadThrough!Next
  <2>1. /\ client[c].path \in Paths /\ IsFile(client[c].path)
        /\ client[c].stage = "waiting" /\ Respond(c, client[c].path)
        /\ UNCHANGED <<upstream, disk>>
    BY <1>2, <1>i DEF ServeCached, IsCached, ClientStates
  <2> QED
    BY <2>1, <1>i, RespondIsServe
<1>3. ASSUME NEW c \in Clients, StartFetch(c)
      PROVE  UNCHANGED ReadThrough!vars
  <2>1. /\ client'[c].stage = "fetching" /\ client[c].stage = "waiting"
        /\ client'[c].path = client[c].path /\ client'[c].seen = client[c].seen
        /\ client'[c].target = client[c].target
        /\ \A b \in Clients \ {c} : client'[b] = client[b]
    BY <1>3, <1>i DEF StartFetch, TypeOK, ClientStates
  <2>2. Stage(c)' = Stage(c)
    BY <2>1 DEF Stage
  <2> QED
    BY <1>3, <1>s, <1>o, <2>1, <2>2 DEF StartFetch
<1>4. ASSUME NEW c \in Clients, ReadPiece(c)
      PROVE  ReadThrough!Next
  BY <1>4, ReadReceives
<1>5. ASSUME NEW c \in Clients, EndOfBody(c)
      PROVE  UNCHANGED ReadThrough!vars
  <2>1. /\ client'[c].stage = "answered" /\ client[c].stage = "reading"
        /\ client'[c].path = client[c].path /\ client'[c].seen = client[c].seen
        /\ client'[c].target = client[c].target
        /\ client'[c].status = client[c].status
        /\ \A b \in Clients \ {c} : client'[b] = client[b]
    BY <1>5, <1>i DEF EndOfBody, TypeOK, ClientStates
  <2>2. client[c].status # 502
    BY <2>1 DEF ReadersServed
  <2>3. Stage(c) = "served" /\ Stage(c)' = "served"
    BY <2>1, <2>2 DEF Stage
  <2> QED
    BY <1>5, <1>s, <1>o, <2>1, <2>3 DEF EndOfBody
<1>6. ASSUME NEW c \in Clients, HangUp(c)
      PROVE  ReadThrough!Next
  <2>1. /\ client'[c].stage = "idle" /\ client[c].stage = "reading"
        /\ client'[c].path = client[c].path /\ client'[c].seen = client[c].seen
        /\ client'[c].target = client[c].target
        /\ \A b \in Clients \ {c} : client'[b] = client[b]
    BY <1>6, <1>i DEF HangUp, TypeOK, ClientStates
  <2>2. Stage(c) = "served"
    BY <2>1 DEF Stage
  <2>3. ViewOf(c)' = [ViewOf(c) EXCEPT !.stage = "idle"]
    BY <2>1, IdleSeen
  <2>4. \A b \in {c} : Stage(b) \in {"waiting", "served"}
                       /\ ViewOf(b)' = [ViewOf(b) EXCEPT !.stage = "idle"]
    BY <2>2, <2>3
  <2>5. UNCHANGED <<upstream, CacheView>> /\ {c} \in SUBSET Clients
    BY <1>6 DEF HangUp, CacheView, IsFile
  <2> QED
    BY <2>1, <2>4, <2>5, ConnectionsLost
<1>7. CASE FetchStep
  BY <1>7, FetchUnseen, OpenFetches
<1>8. CASE AnswerFetched
  <2>1. /\ job.client \in Clients /\ job.path \in Paths /\ IsFile(job.path)
        /\ client[job.client].stage = "fetching" /\ client[job.client].path = job.path
        /\ Respond(job.client, job.path) /\ UNCHANGED <<upstream, disk>>
    BY <1>8, <1>i, JobFields DEF AnswerFetched, Inv, JobInv, At
  <2> QED
    BY <2>1, <1>i, RespondIsServe
<1>9. CASE AnswerFailed
  BY <1>9, FailureRefuses
<1>10. CASE NullResponse \/ LookupThrows \/ Crash
  <2>l. PICK lost : lost = {c \in Clients :
                              client[c].stage \in {"waiting", "fetching", "reading"}}
    OBVIOUS
  <2>1. ProcessDies
    BY <1>10 DEF NullResponse, LookupThrows, Crash
  <2>2. /\ UNCHANGED upstream /\ lost \in SUBSET Clients
        /\ \A c \in Clients \ lost : client'[c] = client[c]
    BY <2>1, <2>l DEF ProcessDies
  <2>c. CacheView' = CacheView
    <3>1. CASE UNCHANGED disk
      BY <3>1 DEF CacheView, IsFile
    <3>2. CASE Crash
      BY <3>2, <1>i, HalfMade, CacheUnseen DEF IsFile
    <3> QED
      BY <1>10, <3>1, <3>2 DEF NullResponse, LookupThrows
  <2>3. ASSUME NEW c \in lost
        PROVE  /\ Stage(c) \in {"waiting", "served"}
               /\ ViewOf(c)' = [ViewOf(c) EXCEPT !.stage = "idle"]
    <3>1. c \in Clients /\ client[c].stage \in {"waiting", "fetching", "reading"}
      BY <2>l
    <3>2. /\ client'[c].stage = "idle"
          /\ client'[c].path = client[c].path /\ client'[c].seen = client[c].seen
          /\ client'[c].target = client[c].target
      BY <2>1, <3>1, <1>i DEF ProcessDies, ClientStates
    <3>3. Stage(c) \in {"waiting", "served"}
      BY <3>1 DEF Stage
    <3> QED
      BY <3>1, <3>2, <3>3, IdleSeen
  <2> QED
    BY <2>2, <2>c, <2>3, ConnectionsLost
<1>11. ASSUME NEW t \in Targets, Publish(t)
       PROVE  ReadThrough!Next
  <2>1. UNCHANGED <<disk, client>>
    BY <1>11 DEF Publish
  <2>2. UNCHANGED <<CacheView, ClientView>>
    BY <2>1 DEF CacheView, ClientView, IsFile, Stage
  <2>3. ReadThrough!Publish(t)
    BY <1>11, <2>2 DEF Publish, ReadThrough!Publish
  <2> QED
    BY <2>3 DEF ReadThrough!Next
<1>12. CASE UNCHANGED vars
  BY <1>12 DEF vars, ReadThrough!vars, CacheView, ClientView, IsFile, Stage
<1>13. ~CannotReopen
  BY DEF CannotReopen, DiskWorks
<1> QED
  BY <1>1, <1>2, <1>3, <1>4, <1>5, <1>6, <1>7, <1>8, <1>9, <1>10, <1>11, <1>12, <1>13
  DEF Next, Handle, Attempt, Return, FetchStep

LEMMA InitImplements == Init => ReadThrough!Init /\ NotForDisk /\ ReadersServed
<1> SUFFICES ASSUME Init PROVE ReadThrough!Init /\ NotForDisk /\ ReadersServed
  OBVIOUS
<1>1. NotForDisk /\ ReadersServed
  BY AskingType DEF Init, NotForDisk, ReadersServed, At, Kinds
<1>2. CacheView \in [Paths -> Versions \cup {Missing}]
  <2>1. TypeOK
    BY InitType
  <2>2. \A p \in Paths : IsFile(p) => disk[p] \in Files
    BY <2>1 DEF TypeOK, IsFile
  <2> QED
    BY <2>2 DEF CacheView, Files
<1>3. ASSUME NEW c \in Clients
      PROVE  ViewOf(c) \in {ReadThrough!Asking("idle", t) : t \in Targets}
  <2>1. PICK t \in Targets : client[c] = Asking("idle", t, "normal")
    BY DEF Init
  <2>2. /\ client[c].stage = "idle" /\ client[c].target = t
        /\ client[c].path = CachePath[t] /\ client[c].seen = {}
    BY <2>1, AskingType DEF Kinds
  <2>3. Stage(c) = "idle"
    BY <2>2 DEF Stage
  <2> QED
    BY <2>2, <2>3 DEF ViewOf, ReadThrough!Asking
<1>4. ClientView = [c \in Clients |-> ViewOf(c)]
  BY DEF ClientView, ViewOf
<1>5. ClientView \in [Clients -> {ReadThrough!Asking("idle", t) : t \in Targets}]
  BY <1>3, <1>4
<1>6. upstream \in [Targets -> Versions]
  BY DEF Init
<1> QED
  BY <1>1, <1>2, <1>5, <1>6 DEF ReadThrough!Init

(***************************************************************************)
(* As long as files can be opened and written, FileCache implements a map  *)
(* with atomic entries, whatever the network, the upstream and kills do,   *)
(* whichever targets share a path and whatever was there already:          *)
(* fetch_from_upstream takes effect when it opens the cache file, and what *)
(* get_or_fetch serves or refuses follows from the map.                    *)
(***************************************************************************)
THEOREM Implementation == DiskWorks /\ Spec => ImplementsReadThrough
<1>1. Init => ReadThrough!Init /\ NotForDisk /\ ReadersServed
  BY InitImplements
<1>2. DiskWorks /\ Inv /\ NotForDisk /\ ReadersServed /\ [Next]_vars
      => NotForDisk' /\ ReadersServed'
  BY NextNotForDisk, NextReadersServed DEF Inv
<1>3. DiskWorks /\ Inv /\ NotForDisk /\ ReadersServed /\ [Next]_vars
      => [ReadThrough!Next]_(ReadThrough!vars)
  BY NextImplements
<1>4. DiskWorks => DiskWorks'
  BY DEF DiskWorks
<1>5. DiskWorks => [](DiskWorks)
  BY <1>4, PTL
<1> QED
  BY <1>1, <1>2, <1>3, <1>5, Invariance, PTL DEF Spec, ImplementsReadThrough, ReadThrough!Spec

=============================================================================
