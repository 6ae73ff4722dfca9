----------------------------- MODULE FileCache ------------------------------
(***************************************************************************)
(* FileCache and the part of Router that answers package clients: a        *)
(* read-through cache of upstream files on disk.                           *)
(*                                                                         *)
(* The server runs one handler at a time, to its end.  A handler that      *)
(* finds its file in the cache directory is a single step (ServeCached);   *)
(* one that does not runs fetch_from_upstream, which blocks the process    *)
(* for as long as the upstream takes.  That handler is job, and each of    *)
(* its steps is an action: an attempt, the opening of the cache file, the  *)
(* write of a buffer, the return.  Meanwhile other clients only wait, the  *)
(* upstream publishes new versions, and the process can die.               *)
(*                                                                         *)
(* A response body is sent after the handler has returned, a piece at a    *)
(* time from the open file (ReadPiece), while other handlers run.          *)
(*                                                                         *)
(* A request asks for a target; the file it is cached in is named by       *)
(* get_cache_path, which joins the target to the cache directory.  Several *)
(* targets can name one file ("//", "/./", "/../"), and one that begins    *)
(* with "//" or climbs with ".." names a file outside the directory.  So   *)
(* disk is the part of the file system that targets can name, with what it *)
(* held before the process started.                                        *)
(*                                                                         *)
(* A file is a version and a number of pieces; versions differ in every    *)
(* piece.  Range and conditional requests differ here only in the status   *)
(* they can yield and the piece they start at.                             *)
(***************************************************************************)
EXTENDS Integers

CONSTANTS
  Clients,      \* package clients, one request at a time each
  Targets,      \* request targets, of which each is a URL of the upstream
  Paths,        \* the names of files that they are cached in
  CachePath,    \* get_cache_path, from targets to paths
  Above,        \* <<q, p>>: path q is a proper directory prefix of path p
  Pieces,       \* the number of pieces of every complete body
  Versions,     \* the versions an upstream file goes through
  MaxRetries,   \* Config::get_max_retries
  Faults,       \* what may go wrong in this instance, a subset of AllFaults
  Missing,      \* no file and no directory
  Dir,          \* a directory
  NoJob         \* no handler is running

Kinds == {"normal", "range", "conditional"}
Statuses == {200, 206, 304, 502}

(***************************************************************************)
(* network: resolve, connect, write or read throws boost::system_error.    *)
(* refused: the upstream answers 4xx.  broken: it answers anything else    *)
(* but 200, a 5xx say.  stall: it accepts and never answers.  disk: a file *)
(* cannot be created, or a write fails.  lookup: the file system cannot    *)
(* tell whether a file exists (the name is too long, a directory may not   *)
(* be searched).  crash: the process dies and restarts.                    *)
(***************************************************************************)
AllFaults == {"network", "refused", "broken", "stall", "disk", "lookup", "crash"}

Causes == {"network", "refused", "broken", "disk", "directory"}

ASSUME FileCacheAssumptions ==
  /\ CachePath \in [Targets -> Paths]
  /\ Above \subseteq Paths \X Paths
  /\ \A p \in Paths : <<p, p>> \notin Above
  /\ \A p, q, r \in Paths : <<p, q>> \in Above /\ <<q, r>> \in Above => <<p, r>> \in Above
  /\ Pieces \in Nat \ {0}
  /\ MaxRetries \in Nat
  /\ Faults \subseteq AllFaults
  /\ Missing # Dir

Files == [version: Versions, pieces: 0..Pieces]

ASSUME FilesAreNeitherMissingNorDir == Missing \notin Files /\ Dir \notin Files

ASSUME MissingIsNoVersion == Missing \notin Versions

VARIABLES
  upstream,     \* the version of every target the upstream serves now
  disk,         \* what is found under every path
  job,          \* the handler inside fetch_from_upstream, if any
  client        \* what every client has asked and received

vars == <<upstream, disk, job, client>>

(***************************************************************************)
(* stage of a client: "idle" before its first request and after a lost     *)
(* connection, "waiting" for the server to run its handler, "fetching"     *)
(* while that handler is the job, "reading" a body, "answered" at the end. *)
(* path is the name of the file that the target is cached in.              *)
(* size is the size of the file at the time the server opened it, pos the  *)
(* position read up to, seen the versions of the pieces received.          *)
(***************************************************************************)
ClientStates ==
  [stage : {"idle", "waiting", "fetching", "reading", "answered"},
   target: Targets, path: Paths, kind: Kinds, status: {0} \cup Statuses,
   size  : 0..Pieces, from: 0..Pieces, pos: 0..Pieces, seen: SUBSET Versions]

(***************************************************************************)
(* at: "attempt" before an answer, "stalled" when none will come, "write"  *)
(* while the body is written, "fetched" and "failed" when                  *)
(* fetch_from_upstream returns true and false.  waited is the time spent   *)
(* in backoff sleeps, in seconds.                                          *)
(***************************************************************************)
Jobs == [client: Clients, path: Paths,
         at    : {"attempt", "stalled", "write", "fetched", "failed"},
         retry : Nat, waited: Int, cause: {"none"} \cup Causes]

ASSUME NoJobIsNoJob == NoJob \notin Jobs

IsFile(p) == disk[p] \notin {Missing, Dir}

At(stage) == job # NoJob /\ job.at = stage

\* 1 << n, as long as an int holds it
Shifted[n \in Nat] == IF n = 0 THEN 1 ELSE 2 * Shifted[n - 1]

Asking(stage, t, k) ==
  [stage |-> stage, target |-> t, path |-> CachePath[t], kind |-> k, status |-> 0,
   size |-> 0, from |-> 0, pos |-> 0, seen |-> {}]

\* What is there already: whatever a file system can hold, in whole files.
Existing == {Missing, Dir} \cup [version: Versions, pieces: {Pieces}]

Init ==
  /\ upstream \in [Targets -> Versions]
  /\ disk \in {files \in [Paths -> Existing] :
                 \A above \in Above : files[above[2]] # Missing => files[above[1]] = Dir}
  /\ job = NoJob
  /\ client \in [Clients -> {Asking("idle", t, "normal") : t \in Targets}]

-----------------------------------------------------------------------------
(* Faulty variants of definitions below, used by no specification: each is *)
(* a slip one could make in the code, and shows that a property notices.   *)

\* the cache is not consulted, so a file is fetched again while it is read
FaultyIsCached(p) == FALSE

\* the cache file is opened before the upstream answers
FaultyAttemptThrows ==
  /\ "network" \in Faults /\ At("attempt")
  /\ job' = IF job.retry = MaxRetries - 1
            THEN [job EXCEPT !.at = "failed", !.cause = "network"]
            ELSE [job EXCEPT !.retry = @ + 1, !.waited = @ + Shifted[job.retry]]
  /\ disk' = [disk EXCEPT ![job.path] =
                IF @ = Missing
                THEN [version |-> upstream[client[job.client].target], pieces |-> 0]
                ELSE @]
  /\ UNCHANGED <<upstream, client>>

\* one buffer too many
FaultyWriteBuffer ==
  /\ At("write") /\ disk[job.path].pieces <= Pieces
  /\ disk' = [disk EXCEPT ![job.path].pieces = @ + 1]
  /\ UNCHANGED <<upstream, job, client>>

\* only the first buffer of the body is written
FaultyCloseCacheFile ==
  /\ At("write")
  /\ disk[job.path].pieces = 1 \/ "disk" \in Faults
  /\ job' = [job EXCEPT !.at = "fetched"]
  /\ UNCHANGED <<upstream, disk, client>>

\* a second handler starts while one is running
FaultyStartFetch(c) ==
  /\ client[c].stage = "waiting" /\ ~IsFile(client[c].path)
  /\ job' = [client |-> c, path |-> client[c].path,
             at |-> IF MaxRetries = 0 THEN "failed" ELSE "attempt",
             retry |-> 0, waited |-> 0, cause |-> "none"]
  /\ client' = [client EXCEPT ![c].stage = "fetching"]
  /\ UNCHANGED <<upstream, disk>>

\* the response for a range is not looked at either
FaultyNullResponse ==
  /\ At("failed") /\ client[job.client].kind \in {"conditional", "range"}
  /\ job' = NoJob
  /\ client' = [c \in Clients |->
                  IF client[c].stage \in {"waiting", "fetching", "reading"}
                  THEN [client[c] EXCEPT !.stage = "idle"] ELSE client[c]]
  /\ UNCHANGED <<upstream, disk>>

-----------------------------------------------------------------------------
(* The handler.                                                            *)

(***************************************************************************)
(* is_cached: fs::exists and fs::is_regular_file, and nothing about        *)
(* completeness.  A path below a file does not exist.  When the file       *)
(* system cannot tell, both throw (LookupThrows).                          *)
(***************************************************************************)
IsCached(p) == IsFile(p)

(***************************************************************************)
(* What the three entry points answer for a file of k pieces, as the       *)
(* status and the piece the body starts at.  A range request here asks for *)
(* everything from piece 1 on; if the file has no piece 1 the range is     *)
(* invalid and get_or_fetch answers the whole file.  Whether the           *)
(* validators of a conditional request match is left open.                 *)
(***************************************************************************)
RangeStart == 1

RangeIsValid(k) == RangeStart < k

RangeAnswers(k) == IF RangeIsValid(k) THEN {<<206, RangeStart>>} ELSE {<<200, 0>>}

ConditionalAnswers == {<<200, 0>>, <<304, 0>>}

Answers(kind, k) ==
  CASE kind = "normal"      -> {<<200, 0>>}
    [] kind = "range"       -> RangeAnswers(k)
    [] kind = "conditional" -> ConditionalAnswers

\* Opening the file fixes the size; a 304 has no body.
Respond(c, p) ==
  \E a \in Answers(client[c].kind, disk[p].pieces) :
    client' = [client EXCEPT ![c] =
      [@ EXCEPT !.stage  = IF a[1] = 304 THEN "answered" ELSE "reading",
                !.status = a[1],
                !.size   = disk[p].pieces,
                !.from   = a[2],
                !.pos    = a[2]]]

\* a hit: one handler from the request to the open file
ServeCached(c) ==
  /\ job = NoJob
  /\ client[c].stage = "waiting" /\ IsCached(client[c].path)
  /\ Respond(c, client[c].path)
  /\ UNCHANGED <<upstream, disk, job>>

\* a miss: fetch_from_upstream begins, and nothing else runs until it ends
StartFetch(c) ==
  /\ job = NoJob
  /\ client[c].stage = "waiting" /\ ~IsCached(client[c].path)
  /\ job' = [client |-> c, path |-> client[c].path,
             at |-> IF MaxRetries = 0 THEN "failed" ELSE "attempt",
             retry |-> 0, waited |-> 0, cause |-> "none"]
  /\ client' = [client EXCEPT ![c].stage = "fetching"]
  /\ UNCHANGED <<upstream, disk>>

(***************************************************************************)
(* A system_error ends the attempt.  The last one fails the fetch; any     *)
(* other sleeps 1 << retry seconds, in the handler, and tries again.       *)
(***************************************************************************)
AttemptThrows ==
  /\ "network" \in Faults /\ At("attempt")
  /\ job' = IF job.retry = MaxRetries - 1
            THEN [job EXCEPT !.at = "failed", !.cause = "network"]
            ELSE [job EXCEPT !.retry = @ + 1,
                             !.waited = @ + Shifted[job.retry]]
  /\ UNCHANGED <<upstream, disk, client>>

\* 4xx returns false; any other status throws runtime_error, which the second
\* catch clause turns into the same return.
AttemptRejected ==
  /\ At("attempt")
  /\ \E f \in Faults \cap {"refused", "broken"} :
       job' = [job EXCEPT !.at = "failed", !.cause = f]
  /\ UNCHANGED <<upstream, disk, client>>

(***************************************************************************)
(* The upstream stops answering.  expires_after only arms a timer of an    *)
(* io_context that nobody runs, so the synchronous call does not return.   *)
(***************************************************************************)
AttemptStalls ==
  /\ "stall" \in Faults /\ At("attempt")
  /\ job' = [job EXCEPT !.at = "stalled"]
  /\ UNCHANGED <<upstream, disk, client>>

(***************************************************************************)
(* A 200 whose body has been read.  create_directories throws when a       *)
(* parent is a file; otherwise every parent becomes a directory, and the   *)
(* cache file is opened, and truncated, unless it is a directory itself.   *)
(***************************************************************************)
Parents(p) == {q \in Paths : <<q, p>> \in Above}

Directories(made) == [q \in Paths |-> IF q \in made THEN Dir ELSE disk[q]]

DirectoriesMade(p) == Directories(Parents(p))

\* create_directories makes the outermost first, and may get no further.
PartlyMade(p) ==
  {Directories(made) : made \in {Q \in SUBSET Parents(p) : \A q \in Q : Parents(q) \subseteq Q}}

ParentIsFile ==
  /\ At("attempt")
  /\ \E q \in Parents(job.path) : IsFile(q)
  /\ job' = [job EXCEPT !.at = "failed", !.cause = "directory"]
  /\ UNCHANGED <<upstream, disk, client>>

CannotOpen ==
  /\ At("attempt")
  /\ \A q \in Parents(job.path) : ~IsFile(q)
  /\ \/ /\ disk[job.path] = Dir
        /\ job' = [job EXCEPT !.at = "failed", !.cause = "directory"]
        /\ UNCHANGED disk
     \/ /\ "disk" \in Faults
        /\ job' = [job EXCEPT !.at = "failed", !.cause = "disk"]
        /\ disk' \in PartlyMade(job.path)
  /\ UNCHANGED <<upstream, client>>

OpenCacheFile ==
  /\ At("attempt")
  /\ \A q \in Parents(job.path) : ~IsFile(q)
  /\ disk[job.path] # Dir
  /\ disk' = [DirectoriesMade(job.path) EXCEPT
                ![job.path] = [version |-> upstream[client[job.client].target], pieces |-> 0]]
  /\ job' = [job EXCEPT !.at = "write"]
  /\ UNCHANGED <<upstream, client>>

WriteBuffer ==
  /\ At("write") /\ disk[job.path].pieces < Pieces
  /\ disk' = [disk EXCEPT ![job.path].pieces = @ + 1]
  /\ UNCHANGED <<upstream, job, client>>

\* A failed write sets the stream's badbit, which nobody reads: the
\* remaining writes do nothing and fetch_from_upstream still returns true.
CloseCacheFile ==
  /\ At("write")
  /\ disk[job.path].pieces = Pieces \/ "disk" \in Faults
  /\ job' = [job EXCEPT !.at = "fetched"]
  /\ UNCHANGED <<upstream, disk, client>>

AnswerFetched ==
  /\ At("fetched")
  /\ Respond(job.client, job.path)
  /\ job' = NoJob
  /\ UNCHANGED <<upstream, disk>>

(***************************************************************************)
(* A cached file that cannot be opened gives a null response, as a failed  *)
(* fetch does.  Within the handler this is a job that has failed.          *)
(***************************************************************************)
CannotReopen ==
  /\ "disk" \in Faults
  /\ \/ /\ At("fetched")
        /\ job' = [job EXCEPT !.at = "failed", !.cause = "disk"]
        /\ UNCHANGED client
     \/ /\ job = NoJob
        /\ \E c \in Clients :
             /\ client[c].stage = "waiting" /\ IsCached(client[c].path)
             /\ job' = [client |-> c, path |-> client[c].path, at |-> "failed",
                        retry |-> 0, waited |-> 0, cause |-> "disk"]
             /\ client' = [client EXCEPT ![c].stage = "fetching"]
  /\ UNCHANGED <<upstream, disk>>

\* plain_response_router answers 502 when it gets a null response
AnswerFailed ==
  /\ At("failed") /\ client[job.client].kind # "conditional"
  /\ client' = [client EXCEPT ![job.client] =
                  [@ EXCEPT !.stage = "answered", !.status = 502]]
  /\ job' = NoJob
  /\ UNCHANGED <<upstream, disk>>

(***************************************************************************)
(* The process dies and is started again: every connection and the job     *)
(* are gone, the disk keeps what was written.                              *)
(***************************************************************************)
ProcessDies ==
  /\ job' = NoJob
  /\ client' = [c \in Clients |->
                  IF client[c].stage \in {"waiting", "fetching", "reading"}
                  THEN [client[c] EXCEPT !.stage = "idle"] ELSE client[c]]
  /\ UNCHANGED upstream

\* get_or_fetch_with_conditional returns a null response too, but the router
\* does not look, and response_sender dereferences it.
NullResponse ==
  /\ At("failed") /\ client[job.client].kind = "conditional"
  /\ ProcessDies /\ UNCHANGED disk

(***************************************************************************)
(* is_cached throws, at the start of a handler or, for a range that is not *)
(* valid, when get_or_fetch looks again.  Nothing catches it before main.  *)
(***************************************************************************)
LookupThrows ==
  /\ "lookup" \in Faults
  /\ \/ job = NoJob /\ \E c \in Clients : client[c].stage = "waiting"
     \/ /\ At("fetched") /\ client[job.client].kind = "range"
        /\ ~RangeIsValid(disk[job.path].pieces)
  /\ ProcessDies /\ UNCHANGED disk

\* A kill, perhaps in the middle of create_directories.
Crash ==
  /\ "crash" \in Faults
  /\ ProcessDies
  /\ \/ UNCHANGED disk
     \/ /\ At("attempt") /\ \A q \in Parents(job.path) : ~IsFile(q)
        /\ disk' \in PartlyMade(job.path)

-----------------------------------------------------------------------------
(* The clients and the upstream.                                           *)

Request(c, t, k) ==
  /\ client[c].stage \in {"idle", "answered"}
  /\ client' = [client EXCEPT ![c] = Asking("waiting", t, k)]
  /\ UNCHANGED <<upstream, disk, job>>

(***************************************************************************)
(* async_write sends the next piece of the open file.  A file that has     *)
(* become shorter than it was when it was opened is a short read.          *)
(***************************************************************************)
ReadPiece(c) ==
  /\ client[c].stage = "reading" /\ client[c].pos < client[c].size
  /\ client' = IF IsFile(client[c].path) /\ client[c].pos < disk[client[c].path].pieces
               THEN [client EXCEPT ![c] =
                      [client[c] EXCEPT
                         !.pos  = client[c].pos + 1,
                         !.seen = client[c].seen \cup {disk[client[c].path].version}]]
               ELSE [client EXCEPT ![c].stage = "idle"]
  /\ UNCHANGED <<upstream, disk, job>>

EndOfBody(c) ==
  /\ client[c].stage = "reading" /\ client[c].pos = client[c].size
  /\ client' = [client EXCEPT ![c].stage = "answered"]
  /\ UNCHANGED <<upstream, disk, job>>

\* The client goes away in the middle of a body.
HangUp(c) ==
  /\ client[c].stage = "reading"
  /\ client' = [client EXCEPT ![c].stage = "idle"]
  /\ UNCHANGED <<upstream, disk, job>>

Publish(t) ==
  /\ \E v \in Versions \ {upstream[t]} : upstream' = [upstream EXCEPT ![t] = v]
  /\ UNCHANGED <<disk, job, client>>

-----------------------------------------------------------------------------
Attempt == \/ AttemptThrows \/ AttemptRejected
           \/ ParentIsFile \/ CannotOpen \/ OpenCacheFile

Return == WriteBuffer \/ CloseCacheFile \/ AnswerFetched \/ AnswerFailed \/ NullResponse

Handle(c) == ServeCached(c) \/ StartFetch(c)

Next == \/ \E c \in Clients, t \in Targets, k \in Kinds : Request(c, t, k)
        \/ \E c \in Clients : Handle(c) \/ ReadPiece(c) \/ EndOfBody(c) \/ HangUp(c)
        \/ Attempt \/ AttemptStalls \/ Return \/ CannotReopen \/ LookupThrows \/ Crash
        \/ \E t \in Targets : Publish(t)

Spec == Init /\ [][Next]_vars

(***************************************************************************)
(* The process runs whatever handler can run: a fetch that is answered     *)
(* goes on, and a request that has been read is handled in the end, since  *)
(* io_context serves completed reads first come, first served.  Nothing    *)
(* makes a client read its body or send a request.                         *)
(***************************************************************************)
Fairness == /\ WF_vars(Attempt)
            /\ WF_vars(Return)
            /\ \A c \in Clients : SF_vars(Handle(c))

FairSpec == Spec /\ Fairness

-----------------------------------------------------------------------------
(* Properties.                                                             *)

TypeOK == /\ upstream \in [Targets -> Versions]
          /\ \A p \in Paths : disk[p] \in {Missing} \/ disk[p] \in {Dir} \/ disk[p] \in Files
          /\ job \in {NoJob} \/ job \in Jobs
          /\ client \in [Clients -> ClientStates]

(***************************************************************************)
(* A body is sent from the open file after its handler has returned, while *)
(* other handlers run.  All the same every body comes from one version of  *)
(* the file, and the file under a client that is reading stays as long as  *)
(* the Content-Length it was promised.                                     *)
(***************************************************************************)
BodiesIntact ==
  \A c \in Clients :
    /\ \A v, w \in client[c].seen : v = w
    /\ client[c].stage = "reading" =>
         /\ IsFile(client[c].path)
         /\ disk[client[c].path].pieces = client[c].size
         /\ client[c].seen \subseteq {disk[client[c].path].version}

(***************************************************************************)
(* A fetch that fails leaves no file behind, whatever attempt it failed    *)
(* at, so an error is never served from the cache as a 200.  (If the disk  *)
(* fails, it is a file that is there and cannot be opened.)                *)
(***************************************************************************)
FailureNotCached ==
  At("failed") /\ job.cause # "disk" => ~IsFile(job.path)

(***************************************************************************)
(* A file in the cache is never written again, not even across a restart:  *)
(* only the job that created it writes to it, until it returns.  This is   *)
(* what makes BodiesIntact hold, and also why the cache never sees a new   *)
(* upstream version.                                                       *)
(***************************************************************************)
CachedNeverChanges ==
  [][\A p \in Paths : IsFile(p) /\ ~(At("write") /\ job.path = p)
                        => disk'[p] = disk[p]]_vars

(***************************************************************************)
(* A client that has asked loses its connection before it has an answer    *)
(* only with the process: if that is killed, if a lookup throws, or if the *)
(* fetch for a conditional request has failed, be it this client's or      *)
(* another's.  Whatever else fails is answered.                            *)
(***************************************************************************)
LostForCause ==
  [][\A c \in Clients :
       client[c].stage \in {"waiting", "fetching"} /\ client'[c].stage = "idle"
         => \/ Crash \/ LookupThrows
            \/ At("failed") /\ client[job.client].kind = "conditional"]_vars

(***************************************************************************)
(* docs/CURRENT_STATUS.md:24 promises "SHA256 checksum verification for    *)
(* file integrity": a 200 offers the whole file.  It holds as long as no   *)
(* write fails and the process does not die; it fails otherwise.           *)
(***************************************************************************)
CompleteWhenServed ==
  \A c \in Clients : client[c].status = 200 => client[c].size = Pieces

(***************************************************************************)
(* Every request is taken up and leaves its handler, with a response or    *)
(* with a lost connection.                                                 *)
(***************************************************************************)
RequestsHandled ==
  \A c \in Clients :
    client[c].stage = "waiting" ~> client[c].stage \in {"reading", "answered", "idle"}

(***************************************************************************)
(* Fetches that take many steps and can fail at each, and files that are   *)
(* filled in place under their final names, amount to a map from paths to  *)
(* versions with atomic entries: what the upstream served for the target   *)
(* of the request that filled an entry is what every later body comes      *)
(* from, for every target of that path, and a client is refused only what  *)
(* is not in the cache.  It holds as long as files that are there can be   *)
(* opened and written.                                                     *)
(***************************************************************************)
Stage(c) == CASE client[c].stage = "idle"                    -> "idle"
              [] client[c].stage \in {"waiting", "fetching"} -> "waiting"
              [] client[c].stage = "answered" /\ client[c].status = 502 -> "refused"
              [] OTHER                                       -> "served"

ClientView == [c \in Clients |-> [stage |-> Stage(c), target |-> client[c].target,
                                  path |-> client[c].path, seen |-> client[c].seen]]

CacheView == [p \in Paths |-> IF IsFile(p) THEN disk[p].version ELSE Missing]

ReadThrough == INSTANCE ReadThroughCache
                 WITH cache <- CacheView, client <- ClientView, Absent <- Missing

ImplementsReadThrough == ReadThrough!Spec

-----------------------------------------------------------------------------
(* What the documentation says and the code does not do.                   *)

(***************************************************************************)
(* io.cpp:235, "Don't retry on client errors (4xx), but retry on server    *)
(* errors (5xx)".                                                          *)
(***************************************************************************)
ServerErrorsRetried ==
  At("failed") /\ job.cause = "broken" => job.retry = MaxRetries - 1

(***************************************************************************)
(* test/network/router/test_router.cpp:36, "Response should be valid (not  *)
(* null)": a handler ends with a response.                                 *)
(***************************************************************************)
HandlersRespond ==
  [][job # NoJob /\ job' = NoJob
       => client'[job.client].stage \in {"reading", "answered"}]_vars

=============================================================================
