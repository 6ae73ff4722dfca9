---------------------------- MODULE FileResponse ----------------------------
(***************************************************************************)
(* What the cache answers for a file: ranges, validators and the choice    *)
(* between them, in plain_response_router, parse_range_header,             *)
(* get_or_fetch_with_range, get_or_fetch_with_conditional and the date and *)
(* ETag helpers; and what becomes of a client's copy that is fetched in    *)
(* parts and revalidated.                                                  *)
(*                                                                         *)
(* One file and one client; other clients matter only in that they may     *)
(* have the file fetched.  A handler with its response is one step: that   *)
(* a body is of one version is shown in FileCache, as are failing fetches. *)
(* The program never refetches a file that is there; an operator may       *)
(* delete it (Evict), and the clock that stamps the next fetch may have    *)
(* been set to anything.  replaced and origin in copy are history.         *)
(***************************************************************************)
EXTENDS Integers

CONSTANTS
  Versions,     \* the versions of the file
  Size,         \* the size of each, in bytes
  W,            \* size_t counts modulo W
  Mtimes,       \* the modification times of the cached file
  Zone,         \* the server's offset from GMT, in seconds
  Summer,       \* the seconds at which daylight saving is in effect
  Hour,         \* what it adds
  SeekCounts,   \* the size of a file_body is what remains after its seek
  Nothing       \* no file, no copy, no response, no header

(***************************************************************************)
(* edge: the time is so close to the end ("late") or the beginning         *)
(* ("early") of its second that the conversion to system_clock, which adds *)
(* the difference of two now() calls, may land in the next or previous.    *)
(***************************************************************************)
ModificationTimes == [sec: Nat \ {0}, edge: {"none", "early", "late"}]

Files == [version: Versions, mtime: Mtimes]

ASSUME FileResponseAssumptions ==
  /\ W \in Nat \ {0}
  /\ Size \in [Versions -> 0..(W - 1)]
  /\ Mtimes \subseteq ModificationTimes
  /\ Zone \in Int /\ Hour \in Nat /\ Summer \subseteq Int
  /\ SeekCounts \in BOOLEAN

ASSUME NothingIsNoValue ==
  /\ Nothing \notin Files
  /\ Nothing \notin Int
  /\ Nothing \notin Nat \X Int

(***************************************************************************)
(* A Range header: unit says that it starts with "bytes=", dash that there *)
(* is a "-" after it, first and last what stoull makes of the text on      *)
(* either side, up to the first character that is no digit: a number, a    *)
(* number after a minus sign, which wraps around, or an exception.  The    *)
(* text is split at the first "-", so that first has none.                 *)
(***************************************************************************)
Tokens == [kind: {"empty", "number", "negative", "junk"}, value: 0..(W - 1)]
Ranges == [unit: BOOLEAN, dash: BOOLEAN,
           first: {t \in Tokens : t.kind # "negative"}, last: Tokens]

Empty == [kind |-> "empty", value |-> 0]
Number(n) == [kind |-> "number", value |-> n]
OpenRange(n) == [unit |-> TRUE, dash |-> TRUE, first |-> Number(n), last |-> Empty]

VARIABLES
  file,         \* the cached file
  copy,         \* the client's copy
  reply         \* the response to the request of the last step

vars == <<file, copy, reply>>

-----------------------------------------------------------------------------
(* parse_range_header.                                                     *)

Stoull(t) == IF t.kind = "negative" /\ t.value # 0 THEN W - t.value ELSE t.value

Throws(t) == t.kind \in {"empty", "junk"}

\* file_size - 1, which wraps for an empty file
LastByte(size) == IF size = 0 THEN W - 1 ELSE size - 1

\* A faulty variant of Start: bytes are counted from 1.
FaultyStart(h, size) ==
  IF h.first.kind # "empty" THEN Stoull(h.first) + 1
  ELSE IF Stoull(h.last) > size THEN 0 ELSE size - Stoull(h.last)

\* Another: a suffix is not limited to the size of the file.
UnlimitedStart(h, size) ==
  IF h.first.kind # "empty" THEN Stoull(h.first) ELSE size - Stoull(h.last)

\* A suffix is counted from the end, and may be longer than the file.
Start(h, size) ==
  IF h.first.kind # "empty" THEN Stoull(h.first)
  ELSE IF Stoull(h.last) > size THEN 0 ELSE size - Stoull(h.last)

End(h, size) ==
  IF h.first.kind = "empty" \/ h.last.kind = "empty" THEN LastByte(size)
  ELSE Stoull(h.last)

ParsesAsRange(h) ==
  /\ h.unit /\ h.dash
  /\ IF h.first.kind = "empty" THEN ~Throws(h.last)
     ELSE ~Throws(h.first) /\ (h.last.kind = "empty" \/ ~Throws(h.last))

\* A faulty variant of Valid: the end is not checked against the size.
FaultyValid(h, size) ==
  ParsesAsRange(h) /\ Start(h, size) < size /\ Start(h, size) <= End(h, size)

Valid(h, size) ==
  /\ ParsesAsRange(h)
  /\ Start(h, size) < size /\ End(h, size) < size
  /\ Start(h, size) <= End(h, size)

-----------------------------------------------------------------------------
(* Dates and ETags.                                                        *)

\* to_time_t of a modification time, anew in every conversion
Readings(m) == {m.sec} \cup (IF m.edge = "late" THEN {m.sec + 1} ELSE {})
                       \cup (IF m.edge = "early" THEN {m.sec - 1} ELSE {})

SummerTime(s) == IF s \in Summer THEN Hour ELSE 0

\* get_last_modified: the local time, labelled GMT
LastModified(s) == s + Zone + SummerTime(s)

\* parse_http_date: mktime takes it for local standard time; 0 is a failure
ParseHttpDate(d) == IF d = Nothing THEN 0 ELSE d - Zone

LastModifieds(f) == {LastModified(s) : s \in Readings(f.mtime)}

\* generate_etag
ETags(f) == {<<Size[f.version], s>> : s \in Readings(f.mtime)}

\* Faulty variants of IsModified: the same second is later; the wrong way round.
StrictIsModified(date, s) == ParseHttpDate(date) = 0 \/ s >= ParseHttpDate(date)
SwappedIsModified(date, s) == ParseHttpDate(date) = 0 \/ ParseHttpDate(date) > s

\* check_modified_since
IsModified(date, s) == ParseHttpDate(date) = 0 \/ s > ParseHttpDate(date)

-----------------------------------------------------------------------------
(* Requests and responses.                                                 *)

(***************************************************************************)
(* The response to a range request.  content_length is set to the length   *)
(* of the range and then set again, by prepare_payload, to the size of the *)
(* body object; which of its two sizes that is depends on the version of   *)
(* Boost.  The body is sent from the start of the range to the end of the  *)
(* file.                                                                   *)
(***************************************************************************)
BodySize(size, start) == IF SeekCounts THEN size - start ELSE size

Partial(h, size) ==
  [status |-> 206, request |-> "range", asked |-> h, total |-> size,
   start |-> Start(h, size), end |-> End(h, size),
   length |-> BodySize(size, Start(h, size)), body |-> Start(h, size)..(size - 1)]

Whole(request, h, size) ==
  [status |-> 200, request |-> request, asked |-> h, total |-> size,
   start |-> 0, end |-> 0, length |-> size, body |-> 0..(size - 1)]

NotModified(size) ==
  [status |-> 304, request |-> "validate", asked |-> Nothing, total |-> size,
   start |-> 0, end |-> 0, length |-> 0, body |-> {}]

\* get_or_fetch_with_range falls back to get_or_fetch.
RangeReply(h, size) == IF Valid(h, size) THEN Partial(h, size) ELSE Whole("range", h, size)

\* The bytes at positions ps of version v.
Bytes(ps, v) == ps \X {v}

\* is_cached or fetch_from_upstream: the file the handler works on
Serves(f) == /\ f \in Files
             /\ file # Nothing => f = file
             /\ file' = f

(***************************************************************************)
(* A copy of the first k bytes of a 200.  A client that gets all of them   *)
(* is done.                                                                *)
(***************************************************************************)
Copy(f, k, date, etag) ==
  [bytes |-> Bytes(0..(k - 1), f.version), size |-> Size[f.version],
   done |-> k = Size[f.version], date |-> date, etag |-> etag,
   origin |-> f.mtime, replaced |-> FALSE]

\* The whole file, of which the client may get only a beginning.
Download(f, request, h) ==
  /\ reply' = Whole(request, h, Size[f.version])
  /\ \E k \in 0..Size[f.version], d \in LastModifieds(f), e \in ETags(f) :
       copy' = Copy(f, k, d, e)

-----------------------------------------------------------------------------
(* The client and the operator.                                            *)

Init == file = Nothing /\ copy = Nothing /\ reply = Nothing

\* a request without Range, If-Modified-Since and If-None-Match: get_or_fetch
Get == \E f \in Files : Serves(f) /\ Download(f, "get", Nothing)

\* a request for a range by a client that keeps no copy
Probe(h) ==
  /\ copy = Nothing
  /\ \E f \in Files : Serves(f) /\ reply' = RangeReply(h, Size[f.version])
  /\ UNCHANGED copy

(***************************************************************************)
(* A client with the first bytes of the file asks for the rest.  It may    *)
(* send If-Range too, but nothing reads that header.                       *)
(***************************************************************************)
Received == {b[1] : b \in copy.bytes}

Resume ==
  /\ copy # Nothing /\ ~copy.done /\ copy.bytes # {}
  /\ \E k \in 1..(W - 1), f \in Files :
       /\ Received = 0..(k - 1)
       /\ Serves(f)
       /\ LET size == Size[f.version]  h == OpenRange(k) IN
          IF Valid(h, size)
          THEN /\ reply' = Partial(h, size)
               /\ copy' = [copy EXCEPT
                             !.bytes = @ \cup Bytes(Partial(h, size).body, f.version),
                             !.size = size,
                             !.done = TRUE]
          ELSE Download(f, "range", h)

(***************************************************************************)
(* A client with a complete copy revalidates it.  ims is its               *)
(* If-Modified-Since and inm its If-None-Match: what it was given with the *)
(* copy, or Nothing; an If-Modified-Since that cannot be parsed is treated *)
(* like none.  Any match is answered 304, with the file's ETag of now.     *)
(***************************************************************************)
Matches(f, ims, inm, e) ==
  \/ \E s \in Readings(f.mtime) : ~IsModified(ims, s)
  \/ inm = e /\ \E s \in Readings(f.mtime) : IsModified(ims, s)

Misses(f, ims, inm) == /\ \E s \in Readings(f.mtime) : IsModified(ims, s)
                       /\ \E e \in ETags(f) : inm # e

Revalidate ==
  /\ copy # Nothing /\ copy.done
  /\ \E f \in Files, ims \in {Nothing, copy.date}, inm \in {Nothing, copy.etag} :
       /\ ims # Nothing \/ inm # Nothing
       /\ Serves(f)
       /\ \/ \E e \in ETags(f) :
               /\ Matches(f, ims, inm, e)
               /\ reply' = NotModified(Size[f.version])
               /\ copy' = [copy EXCEPT !.etag = e]
          \/ Misses(f, ims, inm) /\ Download(f, "validate", Nothing)

\* The client throws its copy away.
Forget == /\ copy # Nothing /\ copy' = Nothing /\ reply' = Nothing
          /\ UNCHANGED file

\* An operator deletes the file from the cache directory.
Evict == /\ file # Nothing /\ file' = Nothing /\ reply' = Nothing
         /\ copy' = IF copy = Nothing THEN Nothing ELSE [copy EXCEPT !.replaced = TRUE]

\* Another client's request has the file fetched.
Refetch == /\ file = Nothing /\ file' \in Files /\ reply' = Nothing
           /\ UNCHANGED copy

Next == \/ Get \/ (\E h \in Ranges : Probe(h)) \/ Resume \/ Revalidate
        \/ Forget \/ Evict \/ Refetch

Spec == Init /\ [][Next]_vars

-----------------------------------------------------------------------------
Copies == [bytes: SUBSET (Nat \X Versions), size: 0..(W - 1), done: BOOLEAN,
           date: Int, etag: Nat \X Int, origin: ModificationTimes,
           replaced: BOOLEAN]

Replies == [status: {200, 206, 304}, request: {"get", "range", "validate"},
            asked: Ranges \cup {Nothing}, total: 0..(W - 1), start: Nat,
            end: Nat, length: Nat, body: SUBSET Nat]

\* The type invariant: what the client holds and what the server answered.
TypeOK == /\ file \in Files \cup {Nothing}
          /\ copy \in Copies \cup {Nothing}
          /\ reply \in Replies \cup {Nothing}

-----------------------------------------------------------------------------
(***************************************************************************)
(* What a Range header means by RFC 7233, when it has that form: the       *)
(* bytes from the first to the last or to the end, or the last so many.    *)
(***************************************************************************)
WellFormed(h) ==
  /\ h.unit /\ h.dash
  /\ h.first.kind \in {"empty", "number"} /\ h.last.kind \in {"empty", "number"}
  /\ h.first.kind = "number" \/ h.last.kind = "number"

Asked(h, size) ==
  {p \in 0..(size - 1) :
     IF h.first.kind = "empty" THEN size - p <= h.last.value
     ELSE h.first.value <= p /\ (h.last.kind = "number" => p <= h.last.value)}

\* A last byte that the file does not have is not clamped: the range is ignored.
PastTheEnd(h, size) ==
  h.first.kind = "number" /\ h.last.kind = "number" /\ h.last.value >= size

\* A response to a range request is exact.
Exact(r) ==
  /\ r.status = 206 => /\ r.start <= r.end /\ r.end < r.total
                       /\ r.start..r.end \subseteq r.body
  /\ WellFormed(r.asked) =>
       IF r.status = 206 THEN r.start..r.end = Asked(r.asked, r.total)
       ELSE Asked(r.asked, r.total) = {} \/ PastTheEnd(r.asked, r.total)

(***************************************************************************)
(* Ranges are exact at every boundary: a 206 describes a non-empty part of *)
(* the file, all of which is sent, and it is the part that a well-formed   *)
(* header means; the whole file is sent instead only when that part is     *)
(* empty or the header runs past the end.  So empty files, suffixes longer *)
(* than the file and numbers that wrap around do no harm                   *)
(* (parse_range_header).                                                   *)
(***************************************************************************)
RangeExact == reply # Nothing /\ reply.request = "range" => Exact(reply)

(***************************************************************************)
(* A download that was cut off and resumed, however often its copy was     *)
(* confirmed since, is the cached file, unless the file was deleted and    *)
(* fetched anew in between (the ranges and validators of all responses     *)
(* fit together).                                                          *)
(***************************************************************************)
CopiesIntact ==
  copy # Nothing /\ copy.done /\ ~copy.replaced =>
    copy.bytes = Bytes(0..(Size[file.version] - 1), file.version)

(***************************************************************************)
(* A copy is confirmed only while the file is no newer than the one it was *)
(* made of, but for the hour that labelling local time GMT can add and     *)
(* three seconds of rounding; this is so even though a confirmation by     *)
(* date gives the client the ETag of the other file                        *)
(* (get_or_fetch_with_conditional, check_modified_since, generate_etag).   *)
(***************************************************************************)
Drift(m) == 3 + (IF Readings(m) \cap Summer # {} THEN Hour ELSE 0)

ConfirmedCopies ==
  copy # Nothing /\ reply # Nothing /\ reply.status = 304 =>
    file.mtime.sec <= copy.origin.sec + Drift(copy.origin)

(***************************************************************************)
(* A copy of a file that is still there is confirmed, whichever of its     *)
(* validators come with the request and whatever the server's time zone,   *)
(* unless the file's time is at the edge of its second.                    *)
(***************************************************************************)
UnchangedConfirmed ==
  [][reply' # Nothing /\ reply'.request = "validate"
     /\ ~copy.replaced /\ copy.origin.edge = "none" => reply'.status = 304]_vars

(***************************************************************************)
(* What the comment in get_or_fetch_with_range says, "Set Content-Length   *)
(* to the range size".  It does not hold: prepare_payload sets it again.   *)
(***************************************************************************)
LengthIsRange ==
  reply # Nothing /\ reply.status = 206 =>
    reply.length = reply.end - reply.start + 1

=============================================================================
