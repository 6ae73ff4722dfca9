-------------------------- MODULE FileResponseProofs --------------------------
(***************************************************************************)
(* Proofs about FileResponse, for all versions and sizes of a file, every  *)
(* width of size_t, every Range header, every modification time and every  *)
(* time zone.                                                              *)
(***************************************************************************)
EXTENDS FileResponse, FiniteSetTheorems, TLAPS

-----------------------------------------------------------------------------
(* Ranges.                                                                 *)

\* What stoull returns is a natural number.
LEMMA StoullNat ==
  ASSUME NEW t \in Tokens
  PROVE  Stoull(t) \in Nat /\ (t.kind # "negative" => Stoull(t) = t.value)
BY FileResponseAssumptions, SMT DEF Stoull, Tokens

\* The bounds of a valid range lie in the file.
LEMMA ValidBounds ==
  ASSUME NEW h \in Ranges, NEW size \in 0..(W - 1), Valid(h, size)
  PROVE  /\ Start(h, size) \in Nat /\ End(h, size) \in Nat
         /\ Start(h, size) <= End(h, size) /\ End(h, size) < size
<1>1. h.first \in Tokens /\ h.last \in Tokens
  BY DEF Ranges
<1>2. Stoull(h.first) \in Nat /\ Stoull(h.last) \in Nat
  BY <1>1, StoullNat
<1>3. Start(h, size) \in Nat
  BY <1>2, FileResponseAssumptions, SMT DEF Start
<1>4. End(h, size) \in Nat
  BY <1>2, FileResponseAssumptions, SMT DEF End, LastByte
<1>5. QED
  BY <1>3, <1>4 DEF Valid

\* The bounds of a well-formed header, in the words of its tokens.
LEMMA WellFormedBounds ==
  ASSUME NEW h \in Ranges, NEW size \in 0..(W - 1), WellFormed(h)
  PROVE  /\ h.first.value \in Nat /\ h.last.value \in Nat
         /\ ParsesAsRange(h)
         /\ Start(h, size) = IF h.first.kind = "number" THEN h.first.value
                             ELSE IF h.last.value > size THEN 0
                             ELSE size - h.last.value
         /\ End(h, size) = IF h.first.kind = "number" /\ h.last.kind = "number"
                           THEN h.last.value ELSE LastByte(size)
<1>1. h.first \in Tokens /\ h.last \in Tokens
  BY DEF Ranges
<1>2. Stoull(h.first) = h.first.value /\ Stoull(h.last) = h.last.value
  BY <1>1, StoullNat DEF WellFormed
<1>3. h.first.value \in Nat /\ h.last.value \in Nat
  BY <1>1, FileResponseAssumptions, SMT DEF Tokens
<1>4. ParsesAsRange(h)
  BY DEF WellFormed, ParsesAsRange, Throws
<1>5. h.first.kind = "number" <=> h.first.kind # "empty"
  BY DEF WellFormed
<1>6. h.last.kind = "number" <=> h.last.kind # "empty"
  BY DEF WellFormed
<1>7. QED
  BY <1>2, <1>3, <1>4, <1>5, <1>6 DEF Start, End

\* The range of a well-formed header that is valid is the one it asks for.
LEMMA ValidIsAsked ==
  ASSUME NEW h \in Ranges, NEW size \in 0..(W - 1), WellFormed(h), Valid(h, size)
  PROVE  Start(h, size)..End(h, size) = Asked(h, size)
<1> DEFINE f == h.first.value
           l == h.last.value
<1>1. f \in Nat /\ l \in Nat /\ size \in Nat
  BY WellFormedBounds, FileResponseAssumptions
<1>2. /\ Start(h, size) \in Nat /\ End(h, size) \in Nat
      /\ Start(h, size) <= End(h, size) /\ End(h, size) < size
  BY ValidBounds
<1>3. LastByte(size) = size - 1
  BY <1>1, <1>2, SMT DEF LastByte
<1>4. CASE h.first.kind = "number" /\ h.last.kind = "number"
  <2>1. Start(h, size) = f /\ End(h, size) = l
    BY <1>4, WellFormedBounds
  <2>2. Asked(h, size) = {p \in 0..(size - 1) : f <= p /\ p <= l}
    BY <1>4 DEF Asked
  <2> HIDE DEF f, l
  <2>3. QED
    BY <1>1, <1>2, <2>1, <2>2, SMT
<1>5. CASE h.first.kind = "number" /\ h.last.kind = "empty"
  <2>1. Start(h, size) = f /\ End(h, size) = size - 1
    BY <1>3, <1>5, WellFormedBounds
  <2>2. Asked(h, size) = {p \in 0..(size - 1) : f <= p}
    BY <1>5 DEF Asked
  <2> HIDE DEF f, l
  <2>3. QED
    BY <1>1, <1>2, <2>1, <2>2, SMT
<1>6. CASE h.first.kind = "empty"
  <2>1. /\ Start(h, size) = IF l > size THEN 0 ELSE size - l
        /\ End(h, size) = size - 1
    BY <1>3, <1>6, WellFormedBounds
  <2>2. Asked(h, size) = {p \in 0..(size - 1) : size - p <= l}
    BY <1>6 DEF Asked
  <2> HIDE DEF f, l
  <2>3. QED
    BY <1>1, <1>2, <2>1, <2>2, SMT
<1>7. QED
  BY <1>4, <1>5, <1>6 DEF WellFormed

\* A well-formed header that is not valid asks for nothing, or runs past the end.
LEMMA InvalidIsEmpty ==
  ASSUME NEW h \in Ranges, NEW size \in 0..(W - 1), WellFormed(h), ~Valid(h, size)
  PROVE  Asked(h, size) = {} \/ PastTheEnd(h, size)
<1> DEFINE f == h.first.value
           l == h.last.value
<1>1. f \in Nat /\ l \in Nat /\ size \in Nat
  BY WellFormedBounds, FileResponseAssumptions
<1>2. ~(Start(h, size) < size /\ End(h, size) < size /\ Start(h, size) <= End(h, size))
  BY WellFormedBounds DEF Valid
<1>3. LastByte(size) = IF size = 0 THEN W - 1 ELSE size - 1
  BY DEF LastByte
<1>4. CASE h.first.kind = "number" /\ h.last.kind = "number"
  <2>1. Start(h, size) = f /\ End(h, size) = l
    BY <1>4, WellFormedBounds
  <2>2. Asked(h, size) = {p \in 0..(size - 1) : f <= p /\ p <= l}
    BY <1>4 DEF Asked
  <2>3. PastTheEnd(h, size) <=> l >= size
    BY <1>4 DEF PastTheEnd
  <2> HIDE DEF f, l
  <2>4. QED
    BY <1>1, <1>2, <2>1, <2>2, <2>3, SMT
<1>5. CASE h.first.kind = "number" /\ h.last.kind = "empty"
  <2>1. Start(h, size) = f /\ End(h, size) = LastByte(size)
    BY <1>5, WellFormedBounds
  <2>2. Asked(h, size) = {p \in 0..(size - 1) : f <= p}
    BY <1>5 DEF Asked
  <2> HIDE DEF f, l
  <2>3. QED
    BY <1>1, <1>2, <1>3, <2>1, <2>2, FileResponseAssumptions, SMT
<1>6. CASE h.first.kind = "empty"
  <2>1. /\ Start(h, size) = IF l > size THEN 0 ELSE size - l
        /\ End(h, size) = LastByte(size)
    BY <1>6, WellFormedBounds
  <2>2. Asked(h, size) = {p \in 0..(size - 1) : size - p <= l}
    BY <1>6 DEF Asked
  <2> HIDE DEF f, l
  <2>3. QED
    BY <1>1, <1>2, <1>3, <2>1, <2>2, FileResponseAssumptions, SMT
<1>7. QED
  BY <1>4, <1>5, <1>6 DEF WellFormed

\* Every response to a range request is exact.
LEMMA RangeReplyExact ==
  ASSUME NEW h \in Ranges, NEW size \in 0..(W - 1)
  PROVE  /\ Valid(h, size) => Exact(Partial(h, size))
         /\ ~Valid(h, size) => Exact(Whole("range", h, size))
<1>1. ASSUME Valid(h, size)
      PROVE  Exact(Partial(h, size))
  <2> DEFINE r == Partial(h, size)
  <2>1. /\ r.status = 206 /\ r.asked = h /\ r.total = size
        /\ r.start = Start(h, size) /\ r.end = End(h, size)
        /\ r.body = Start(h, size)..(size - 1)
    BY DEF Partial
  <2>2. size \in Nat
    BY FileResponseAssumptions
  <2>3. Start(h, size)..End(h, size) \subseteq Start(h, size)..(size - 1)
    BY <1>1, <2>2, ValidBounds, SMT
  <2>4. WellFormed(h) => Start(h, size)..End(h, size) = Asked(h, size)
    BY <1>1, ValidIsAsked
  <2> HIDE DEF r
  <2>5. Exact(r)
    BY <1>1, <2>1, <2>3, <2>4, ValidBounds DEF Exact
  <2>6. QED
    BY <2>5 DEF r
<1>2. ASSUME ~Valid(h, size)
      PROVE  Exact(Whole("range", h, size))
  <2> DEFINE r == Whole("range", h, size)
  <2>1. r.status = 200 /\ r.asked = h /\ r.total = size
    BY DEF Whole
  <2>2. WellFormed(h) => Asked(h, size) = {} \/ PastTheEnd(h, size)
    BY <1>2, InvalidIsEmpty
  <2> HIDE DEF r
  <2>3. r.status # 206
    BY <2>1
  <2>4. Exact(r)
    BY <2>1, <2>2, <2>3 DEF Exact
  <2>5. QED
    BY <2>4 DEF r
<1>3. QED
  BY <1>1, <1>2

-----------------------------------------------------------------------------
(***************************************************************************)
(* The inductive invariant: a copy that was not replaced is a beginning of *)
(* the file and carries its validators; the date of every copy is that of  *)
(* the file it was made of, and its ETag is at most an hour and two        *)
(* roundings younger, though confirmations by date renew the ETag.         *)
(***************************************************************************)
Fits(c, f) ==
  /\ c.origin = f.mtime /\ c.etag \in ETags(f)
  /\ \E k \in 0..Size[f.version] : /\ c.bytes = Bytes(0..(k - 1), f.version)
                                   /\ c.done => k = Size[f.version]

Dated(c) == /\ \E s \in Readings(c.origin) : c.date = LastModified(s)
            /\ c.etag[2] < c.origin.sec + Drift(c.origin)

CopyFits == copy # Nothing =>
              /\ Dated(copy)
              /\ ~copy.replaced => file \in Files /\ Fits(copy, file)

IInv == TypeOK /\ RangeExact /\ CopyFits /\ ConfirmedCopies

-----------------------------------------------------------------------------
(* Files, times and validators.                                            *)

\* What is known of a file.
LEMMA FileFacts ==
  ASSUME NEW f \in Files
  PROVE  /\ f.version \in Versions /\ f.mtime \in ModificationTimes
         /\ f.mtime.sec \in Nat \ {0} /\ Size[f.version] \in 0..(W - 1)
         /\ Size[f.version] \in Nat /\ f # Nothing
<1>1. f.version \in Versions /\ f.mtime \in ModificationTimes
  BY FileResponseAssumptions DEF Files
<1>2. f.mtime.sec \in Nat \ {0}
  BY <1>1 DEF ModificationTimes
<1>3. Size[f.version] \in 0..(W - 1)
  BY <1>1, FileResponseAssumptions
<1>4. Size[f.version] \in Nat
  BY <1>3, FileResponseAssumptions
<1>5. QED
  BY <1>1, <1>2, <1>3, <1>4, NothingIsNoValue

\* A reading is the second itself, or, at an edge, the one beyond it.
LEMMA ReadingBounds ==
  ASSUME NEW m \in ModificationTimes, NEW s \in Readings(m)
  PROVE  /\ s \in Nat /\ m.sec \in Nat \ {0}
         /\ m.sec - 1 <= s /\ s <= m.sec + 1
         /\ m.edge = "none" => s = m.sec
         /\ m.edge # "late" => s <= m.sec
         /\ m.edge # "early" => m.sec <= s
BY SMT DEF ModificationTimes, Readings

\* A date that was given with a copy is parsed to the second, or an hour after it.
LEMMA DateParses ==
  ASSUME NEW s \in Nat
  PROVE  /\ LastModified(s) \in Int /\ LastModified(s) # Nothing
         /\ ParseHttpDate(LastModified(s)) = s + SummerTime(s)
         /\ SummerTime(s) \in Nat
<1>1. SummerTime(s) \in Nat
  BY FileResponseAssumptions DEF SummerTime
<1>2. LastModified(s) \in Int
  BY <1>1, FileResponseAssumptions DEF LastModified
<1>3. LastModified(s) # Nothing
  BY <1>2, NothingIsNoValue
<1>4. LastModified(s) - Zone = s + SummerTime(s)
  BY <1>1, FileResponseAssumptions, SMT DEF LastModified
<1>5. QED
  BY <1>1, <1>2, <1>3, <1>4 DEF ParseHttpDate

\* A drift is three seconds, or those and an hour.
LEMMA DriftBounds ==
  ASSUME NEW m \in ModificationTimes, NEW s \in Readings(m)
  PROVE  Drift(m) \in Nat /\ SummerTime(s) + 3 <= Drift(m)
<1>1. CASE s \in Summer
  <2>1. Readings(m) \cap Summer # {}
    BY <1>1
  <2>2. QED
    BY <1>1, <2>1, FileResponseAssumptions, SMT DEF Drift, SummerTime
<1>2. CASE s \notin Summer
  BY <1>2, FileResponseAssumptions, SMT DEF Drift, SummerTime
<1>3. QED
  BY <1>1, <1>2

\* An ETag of a file is a pair of its size and a reading.
LEMMA ETagFacts ==
  ASSUME NEW f \in Files, NEW e \in ETags(f)
  PROVE  \E s \in Readings(f.mtime) :
           /\ e = <<Size[f.version], s>> /\ e[2] = s
           /\ e \in Nat \X Int /\ e # Nothing
<1>1. PICK s \in Readings(f.mtime) : e = <<Size[f.version], s>>
  BY DEF ETags
<1>2. s \in Nat /\ Size[f.version] \in Nat
  BY ReadingBounds, FileFacts
<1>3. e[2] = s
  BY <1>1
<1>4. e \in Nat \X Int
  BY <1>1, <1>2
<1>5. e # Nothing
  BY <1>4, NothingIsNoValue
<1>6. QED
  BY <1>1, <1>3, <1>4, <1>5

-----------------------------------------------------------------------------
(* Responses.                                                              *)

\* The whole file is a response.
LEMMA WholeTyped ==
  ASSUME NEW size \in 0..(W - 1), NEW h \in Ranges \cup {Nothing},
         NEW request \in {"get", "range", "validate"}
  PROVE  Whole(request, h, size) \in Replies
<1>1. size \in Nat /\ 0..(size - 1) \subseteq Nat
  BY FileResponseAssumptions
<1>2. QED
  BY <1>1 DEF Whole, Replies

\* A valid range is a response.
LEMMA PartialTyped ==
  ASSUME NEW size \in 0..(W - 1), NEW h \in Ranges, Valid(h, size)
  PROVE  Partial(h, size) \in Replies
<1>1. size \in Nat
  BY FileResponseAssumptions
<1>2. /\ Start(h, size) \in Nat /\ End(h, size) \in Nat
      /\ Start(h, size) <= End(h, size) /\ End(h, size) < size
  BY ValidBounds
<1>3. BodySize(size, Start(h, size)) \in Nat
  BY <1>1, <1>2, SMT DEF BodySize
<1>4. Start(h, size)..(size - 1) \subseteq Nat
  BY <1>1, <1>2
<1>5. QED
  BY <1>2, <1>3, <1>4 DEF Partial, Replies

\* A 304 is a response.
LEMMA NotModifiedTyped ==
  ASSUME NEW size \in 0..(W - 1)
  PROVE  NotModified(size) \in Replies
BY DEF NotModified, Replies

\* Bytes are pairs of a position and a version.
LEMMA BytesTyped ==
  ASSUME NEW v \in Versions, NEW i \in Nat, NEW j \in Int
  PROVE  Bytes(i..j, v) \in SUBSET (Nat \X Versions)
BY DEF Bytes

\* A download gives the client a copy that fits the file.
LEMMA DownloadFits ==
  ASSUME NEW f \in Files, NEW h \in Ranges \cup {Nothing},
         NEW request \in {"get", "range", "validate"},
         Download(f, request, h)
  PROVE  /\ reply' = Whole(request, h, Size[f.version]) /\ reply' \in Replies
         /\ copy' \in Copies /\ Fits(copy', f) /\ Dated(copy')
<1> DEFINE n == Size[f.version]
<1>1. PICK k \in 0..n, d \in LastModifieds(f), e \in ETags(f) :
        copy' = Copy(f, k, d, e)
  BY DEF Download
<1>2. PICK s \in Readings(f.mtime) : d = LastModified(s)
  BY DEF LastModifieds
<1>3. PICK t \in Readings(f.mtime) : e[2] = t /\ e \in Nat \X Int
  BY ETagFacts
<1>4. s \in Nat /\ t \in Nat /\ t <= f.mtime.sec + 1 /\ f.mtime.sec \in Nat
  BY ReadingBounds, FileFacts
<1>5. d \in Int
  BY <1>2, <1>4, DateParses
<1>6. Drift(f.mtime) \in Nat /\ 3 <= Drift(f.mtime)
  BY <1>4, DateParses, DriftBounds, FileFacts, SMT
<1>7. k - 1 \in Int /\ n \in 0..(W - 1) /\ k \in Nat
  BY FileFacts, SMT
<1>8. Bytes(0..(k - 1), f.version) \in SUBSET (Nat \X Versions)
  BY <1>7, FileFacts, BytesTyped
<1>9. /\ copy'.bytes = Bytes(0..(k - 1), f.version) /\ copy'.done = (k = n)
      /\ copy'.date = d /\ copy'.etag = e /\ copy'.origin = f.mtime
  BY <1>1 DEF Copy
<1>10. copy' \in Copies
  BY <1>1, <1>3, <1>5, <1>7, <1>8, FileFacts DEF Copy, Copies
<1>11. Fits(copy', f)
  BY <1>9 DEF Fits
<1>12. e[2] < f.mtime.sec + Drift(f.mtime)
  BY <1>3, <1>4, <1>6, SMT
<1>13. Dated(copy')
  BY <1>2, <1>9, <1>12 DEF Dated
<1>14. reply' = Whole(request, h, n) /\ reply' \in Replies
  BY <1>7, WholeTyped DEF Download
<1>15. QED
  BY <1>10, <1>11, <1>13, <1>14

-----------------------------------------------------------------------------
(* Steps.                                                                  *)

\* Two pieces that meet make a whole.
LEMMA JoinedBytes ==
  ASSUME NEW v, NEW k \in Nat, NEW n \in Nat, k < n
  PROVE  Bytes(0..(k - 1), v) \cup Bytes(k..(n - 1), v) = Bytes(0..(n - 1), v)
<1>1. (0..(k - 1)) \cup (k..(n - 1)) = 0..(n - 1)
  BY SMT
<1>2. QED
  BY <1>1 DEF Bytes

\* The positions of a beginning.
LEMMA ReceivedBytes ==
  ASSUME NEW c, NEW v, NEW P, c.bytes = Bytes(P, v)
  PROVE  {b[1] : b \in c.bytes} = P
<1>1. ASSUME NEW p \in P
      PROVE  p \in {b[1] : b \in Bytes(P, v)}
  <2>1. <<p, v>> \in Bytes(P, v)
    BY DEF Bytes
  <2>2. <<p, v>>[1] = p
    OBVIOUS
  <2>3. QED
    BY <2>1, <2>2
<1>2. ASSUME NEW b \in Bytes(P, v)
      PROVE  b[1] \in P
  BY DEF Bytes
<1>3. QED
  BY <1>1, <1>2

\* The range that asks for everything from k on starts at k.
LEMMA OpenRangeStart ==
  ASSUME NEW k \in 1..(W - 1), NEW size \in Nat
  PROVE  OpenRange(k) \in Ranges /\ Start(OpenRange(k), size) = k
<1>1. W \in Nat \ {0} /\ k \in 0..(W - 1) /\ 0 \in 0..(W - 1)
  BY FileResponseAssumptions, SMT
<1>2. Number(k) \in Tokens /\ Empty \in Tokens /\ Number(k).kind = "number"
  BY <1>1 DEF Number, Empty, Tokens
<1>3. OpenRange(k) \in Ranges
  BY <1>2 DEF OpenRange, Ranges
<1>4. OpenRange(k).first = Number(k) /\ Number(k).value = k
  BY DEF OpenRange, Number
<1>5. Stoull(Number(k)) = k
  BY <1>2, <1>4, StoullNat
<1>6. QED
  BY <1>2, <1>3, <1>4, <1>5 DEF Start

\* What a step must establish of the client's copy and the response.
Settled == /\ file' \in Files /\ copy' \in Copies /\ reply' \in Replies
           /\ Dated(copy') /\ (~copy'.replaced => Fits(copy', file'))
           /\ reply'.request = "range" => Exact(reply')
           /\ reply'.status = 304 =>
                file'.mtime.sec <= copy'.origin.sec + Drift(copy'.origin)

LEMMA DownloadSettles ==
  ASSUME NEW f \in Files, file' = f,
         NEW h \in Ranges \cup {Nothing}, NEW request \in {"get", "range", "validate"},
         Download(f, request, h),
         request = "range" => h \in Ranges /\ ~Valid(h, Size[f.version])
  PROVE  Settled /\ reply'.request = request
<1>1. /\ reply' = Whole(request, h, Size[f.version]) /\ reply' \in Replies
      /\ copy' \in Copies /\ Fits(copy', f) /\ Dated(copy')
  BY DownloadFits
<1>2. reply'.status # 304 /\ reply'.request = request
  BY <1>1 DEF Whole
<1>3. request = "range" => Exact(reply')
  BY <1>1, FileFacts, RangeReplyExact
<1>4. QED
  BY <1>1, <1>2, <1>3 DEF Settled

LEMMA ResumeSettles ==
  ASSUME TypeOK, CopyFits, Resume
  PROVE  Settled /\ reply'.request = "range"
<1>1. copy \in Copies /\ Dated(copy) /\ (~copy.replaced => file \in Files /\ Fits(copy, file))
  BY DEF TypeOK, CopyFits, Resume
<1>2. PICK k \in 1..(W - 1), f \in Files :
        /\ Received = 0..(k - 1) /\ Serves(f)
        /\ IF Valid(OpenRange(k), Size[f.version])
           THEN /\ reply' = Partial(OpenRange(k), Size[f.version])
                /\ copy' = [copy EXCEPT
                     !.bytes = @ \cup Bytes(Partial(OpenRange(k), Size[f.version]).body, f.version),
                     !.size = Size[f.version], !.done = TRUE]
           ELSE Download(f, "range", OpenRange(k))
  BY DEF Resume
<1> DEFINE n == Size[f.version]
           h == OpenRange(k)
<1>3. n \in 0..(W - 1) /\ n \in Nat /\ k \in Nat /\ f.version \in Versions
  BY FileFacts, FileResponseAssumptions
<1>4. h \in Ranges /\ Start(h, n) = k
  BY <1>3, OpenRangeStart
<1>5. CASE ~Valid(h, n)
  BY <1>2, <1>4, <1>5, DownloadSettles DEF Serves
<1>6. CASE Valid(h, n)
  <2>1. k < n
    BY <1>4, <1>6 DEF Valid
  <2>2. Partial(h, n).body = k..(n - 1) /\ Partial(h, n).status = 206
        /\ Partial(h, n).request = "range"
    BY <1>4 DEF Partial
  <2>3. reply' = Partial(h, n) /\ reply' \in Replies /\ Exact(reply')
    BY <1>2, <1>3, <1>4, <1>6, PartialTyped, RangeReplyExact
  <2>4. copy' = [copy EXCEPT !.bytes = copy.bytes \cup Bytes(k..(n - 1), f.version),
                             !.size = n, !.done = TRUE]
    BY <1>2, <1>6, <2>2
  <2>5. /\ copy'.bytes = copy.bytes \cup Bytes(k..(n - 1), f.version)
        /\ copy'.done = TRUE /\ copy'.size = n /\ copy'.date = copy.date
        /\ copy'.etag = copy.etag /\ copy'.origin = copy.origin
        /\ copy'.replaced = copy.replaced
    BY <1>1, <2>4 DEF Copies
  <2>6. copy' \in Copies
    <3>1. n - 1 \in Int
      BY <1>3
    <3>2. Bytes(k..(n - 1), f.version) \in SUBSET (Nat \X Versions)
      BY <1>3, <3>1, BytesTyped
    <3>3. QED
      BY <1>1, <1>3, <2>4, <3>2 DEF Copies
  <2>7. Dated(copy')
    BY <1>1, <2>5 DEF Dated
  <2>8. ASSUME ~copy.replaced
        PROVE  Fits(copy', f)
    <3>1. file = f /\ Fits(copy, f)
      BY <1>1, <1>2, <2>8, FileFacts DEF Serves
    <3>2. PICK j \in 0..n : copy.bytes = Bytes(0..(j - 1), f.version)
      BY <3>1 DEF Fits
    <3>3. Received = 0..(j - 1)
      BY <3>2, ReceivedBytes DEF Received
    <3>4. copy.bytes = Bytes(0..(k - 1), f.version)
      BY <1>2, <3>2, <3>3
    <3>5. copy'.bytes = Bytes(0..(n - 1), f.version)
      BY <1>3, <2>1, <2>5, <3>4, JoinedBytes
    <3>6. n \in 0..n
      BY <1>3, SMT
    <3>7. QED
      BY <2>5, <3>1, <3>5, <3>6 DEF Fits
  <2>9. file' = f
    BY <1>2 DEF Serves
  <2>10. reply'.status # 304 /\ reply'.request = "range"
    BY <2>2, <2>3
  <2>11. QED
    BY <2>3, <2>5, <2>6, <2>7, <2>8, <2>9, <2>10 DEF Settled
<1>7. QED
  BY <1>5, <1>6

\* A file whose date is not newer than a copy's is at most the drift newer.
LEMMA NotModifiedBound ==
  ASSUME NEW c \in Copies, Dated(c), NEW f \in Files,
         NEW ims \in {Nothing, c.date}, NEW s \in Readings(f.mtime), ~IsModified(ims, s),
         NEW t \in Readings(f.mtime)
  PROVE  /\ t < c.origin.sec + Drift(c.origin)
         /\ f.mtime.sec <= c.origin.sec + Drift(c.origin)
<1>1. ims # Nothing
  BY DEF IsModified, ParseHttpDate
<1>2. PICK r \in Readings(c.origin) : ims = LastModified(r)
  BY <1>1 DEF Dated
<1>3. c.origin \in ModificationTimes /\ f.mtime \in ModificationTimes
  BY FileFacts DEF Copies
<1>4. r \in Nat /\ c.origin.sec \in Nat /\ r <= c.origin.sec + 1
  BY <1>3, ReadingBounds
<1>5. ParseHttpDate(ims) = r + SummerTime(r) /\ SummerTime(r) \in Nat
  BY <1>2, <1>4, DateParses
<1>6. s <= r + SummerTime(r)
  <2>1. s \in Nat
    BY <1>3, ReadingBounds
  <2>2. ~(s > ParseHttpDate(ims))
    BY DEF IsModified
  <2>3. QED
    BY <1>4, <1>5, <2>1, <2>2, SMT
<1>7. Drift(c.origin) \in Nat /\ SummerTime(r) + 3 <= Drift(c.origin)
  BY <1>3, DriftBounds
<1>8. /\ s \in Nat /\ t \in Nat /\ f.mtime.sec \in Nat
      /\ f.mtime.sec - 1 <= s /\ t <= s + 1
  <2>1. /\ s \in Nat /\ f.mtime.sec \in Nat /\ f.mtime.sec - 1 <= s
        /\ f.mtime.edge = "none" => s = f.mtime.sec
        /\ f.mtime.edge # "early" => f.mtime.sec <= s
    BY <1>3, ReadingBounds
  <2>2. /\ t \in Nat /\ t <= f.mtime.sec + 1
        /\ f.mtime.edge # "late" => t <= f.mtime.sec
    BY <1>3, ReadingBounds
  <2>3. CASE f.mtime.edge = "late"
    BY <2>1, <2>2, <2>3, SMT
  <2>4. CASE f.mtime.edge # "late"
    BY <2>1, <2>2, <2>4, SMT
  <2>5. QED
    BY <2>3, <2>4
<1> DEFINE o == c.origin.sec
           D == Drift(c.origin)
           m == f.mtime.sec
           x == SummerTime(r)
<1>9. o \in Nat /\ D \in Nat /\ m \in Nat /\ x \in Nat /\ x + 3 <= D
      /\ r <= o + 1 /\ s <= r + x /\ m - 1 <= s /\ t <= s + 1
  BY <1>4, <1>5, <1>6, <1>7, <1>8
<1> HIDE DEF o, D, m, x
<1>10. t < o + D /\ m <= o + D
  BY <1>4, <1>8, <1>9, SMT
<1>11. QED
  BY <1>10 DEF o, D, m

LEMMA RevalidateSettles ==
  ASSUME TypeOK, CopyFits, Revalidate
  PROVE  Settled /\ reply'.request = "validate"
<1>1. copy \in Copies /\ Dated(copy) /\ (~copy.replaced => file \in Files /\ Fits(copy, file))
  BY DEF TypeOK, CopyFits, Revalidate
<1>2. PICK f \in Files, ims \in {Nothing, copy.date}, inm \in {Nothing, copy.etag} :
        /\ Serves(f)
        /\ \/ \E e \in ETags(f) : /\ Matches(f, ims, inm, e)
                                  /\ reply' = NotModified(Size[f.version])
                                  /\ copy' = [copy EXCEPT !.etag = e]
           \/ Download(f, "validate", Nothing)
  BY DEF Revalidate
<1>3. file' = f /\ (file # Nothing => f = file)
  BY <1>2 DEF Serves
<1>4. CASE Download(f, "validate", Nothing)
  BY <1>3, <1>4, DownloadSettles
<1>5. ASSUME NEW e \in ETags(f), Matches(f, ims, inm, e),
             reply' = NotModified(Size[f.version]), copy' = [copy EXCEPT !.etag = e]
      PROVE  Settled /\ reply'.request = "validate"
  <2>1. PICK t \in Readings(f.mtime) : e[2] = t /\ e \in Nat \X Int /\ e # Nothing
    BY ETagFacts
  <2>2. /\ copy'.bytes = copy.bytes /\ copy'.done = copy.done /\ copy'.date = copy.date
        /\ copy'.etag = e /\ copy'.origin = copy.origin /\ copy'.replaced = copy.replaced
    BY <1>1, <1>5 DEF Copies
  <2>3. copy' \in Copies
    BY <1>1, <1>5, <2>1 DEF Copies
  <2>4. /\ e[2] < copy.origin.sec + Drift(copy.origin)
        /\ f.mtime.sec <= copy.origin.sec + Drift(copy.origin)
    <3>1. CASE \E s \in Readings(f.mtime) : ~IsModified(ims, s)
      <4>1. PICK s \in Readings(f.mtime) : ~IsModified(ims, s)
        BY <3>1
      <4>2. QED
        BY <1>1, <2>1, <4>1, NotModifiedBound
    <3>2. CASE inm = e
      <4>1. e = copy.etag
        BY <2>1, <3>2
      <4>2. e[2] < copy.origin.sec + Drift(copy.origin)
        BY <1>1, <4>1 DEF Dated
      <4>3. f.mtime \in ModificationTimes /\ copy.origin \in ModificationTimes
        BY <1>1, FileFacts DEF Copies
      <4>4. t \in Nat /\ f.mtime.sec \in Nat /\ f.mtime.sec - 1 <= t
        BY <4>3, ReadingBounds
      <4>5. copy.origin.sec \in Nat /\ Drift(copy.origin) \in Nat
        <5>1. PICK r \in Readings(copy.origin) : TRUE
          BY <1>1 DEF Dated
        <5>2. QED
          BY <4>3, <5>1, ReadingBounds, DriftBounds
      <4>6. f.mtime.sec <= copy.origin.sec + Drift(copy.origin)
        BY <2>1, <4>2, <4>4, <4>5, SMT
      <4>7. QED
        BY <4>2, <4>6
    <3>3. QED
      BY <1>5, <3>1, <3>2 DEF Matches
  <2>5. Dated(copy')
    BY <1>1, <2>2, <2>4 DEF Dated
  <2>6. ASSUME ~copy.replaced
        PROVE  Fits(copy', f)
    <3>1. Fits(copy, f)
      BY <1>1, <1>3, <2>6, FileFacts
    <3>2. QED
      BY <2>2, <3>1 DEF Fits
  <2>7. reply' \in Replies /\ reply'.request = "validate"
    BY <1>5, FileFacts, NotModifiedTyped DEF NotModified
  <2>8. QED
    BY <1>3, <2>2, <2>3, <2>4, <2>5, <2>6, <2>7 DEF Settled
<1>6. QED
  BY <1>2, <1>4, <1>5

\* A step of Next that settles preserves the invariant.
LEMMA SettledInvariant ==
  ASSUME Settled
  PROVE  IInv'
<1>1. TypeOK'
  BY DEF Settled, TypeOK
<1>2. RangeExact'
  BY DEF Settled, RangeExact
<1>3. CopyFits'
  BY DEF Settled, CopyFits
<1>4. ConfirmedCopies'
  BY DEF Settled, ConfirmedCopies
<1>5. QED
  BY <1>1, <1>2, <1>3, <1>4 DEF IInv

LEMMA InitInvariant == Init => IInv
BY DEF Init, IInv, TypeOK, RangeExact, CopyFits, ConfirmedCopies

LEMMA NextInvariant == IInv /\ [Next]_vars => IInv'
<1> SUFFICES ASSUME IInv, [Next]_vars PROVE IInv'
  OBVIOUS
<1> USE DEF IInv
<1>1. CASE Get
  <2>1. PICK f \in Files : Serves(f) /\ Download(f, "get", Nothing)
    BY <1>1 DEF Get
  <2>2. Settled
    BY <2>1, DownloadSettles DEF Serves
  <2>3. QED
    BY <2>2, SettledInvariant
<1>2. ASSUME NEW h \in Ranges, Probe(h)
      PROVE  IInv'
  <2>1. PICK f \in Files : Serves(f) /\ reply' = RangeReply(h, Size[f.version])
    BY <1>2 DEF Probe
  <2>2. copy = Nothing /\ copy' = Nothing
    BY <1>2 DEF Probe
  <2>3. Size[f.version] \in 0..(W - 1)
    BY FileFacts
  <2>4. reply' \in Replies /\ Exact(reply')
    <3>1. CASE Valid(h, Size[f.version])
      BY <2>1, <2>3, <3>1, PartialTyped, RangeReplyExact DEF RangeReply
    <3>2. CASE ~Valid(h, Size[f.version])
      BY <2>1, <2>3, <3>2, WholeTyped, RangeReplyExact DEF RangeReply
    <3>3. QED
      BY <3>1, <3>2
  <2>5. file' \in Files
    BY <2>1 DEF Serves
  <2>6. QED
    BY <2>2, <2>4, <2>5 DEF TypeOK, RangeExact, CopyFits, ConfirmedCopies
<1>3. CASE Resume
  BY <1>3, ResumeSettles, SettledInvariant
<1>4. CASE Revalidate
  BY <1>4, RevalidateSettles, SettledInvariant
<1>5. CASE Forget
  BY <1>5 DEF Forget, TypeOK, RangeExact, CopyFits, ConfirmedCopies
<1>6. CASE Evict
  <2>1. TypeOK'
    BY <1>6 DEF Evict, TypeOK, Copies
  <2>2. CopyFits'
    <3>1. CASE copy = Nothing
      BY <1>6, <3>1 DEF Evict, CopyFits
    <3>2. CASE copy # Nothing
      <4>1. copy \in Copies /\ Dated(copy)
        BY <3>2 DEF TypeOK, CopyFits
      <4>2. copy' = [copy EXCEPT !.replaced = TRUE]
        BY <1>6, <3>2 DEF Evict
      <4>3. /\ copy'.date = copy.date /\ copy'.etag = copy.etag
            /\ copy'.origin = copy.origin /\ copy'.replaced = TRUE
        BY <4>1, <4>2 DEF Copies
      <4>4. Dated(copy')
        BY <4>1, <4>3 DEF Dated
      <4>5. QED
        BY <4>3, <4>4 DEF CopyFits
    <3>3. QED
      BY <3>1, <3>2
  <2>3. QED
    BY <1>6, <2>1, <2>2 DEF Evict, RangeExact, ConfirmedCopies
<1>7. CASE Refetch
  <2>1. copy' = copy /\ file = Nothing /\ file' \in Files /\ reply' = Nothing
    BY <1>7 DEF Refetch
  <2>2. CopyFits'
    <3>1. copy # Nothing => Dated(copy) /\ copy.replaced
      BY <2>1, NothingIsNoValue DEF CopyFits
    <3>2. copy' # Nothing => Dated(copy')
      BY <2>1, <3>1
    <3>3. copy' # Nothing => copy'.replaced
      BY <2>1, <3>1
    <3>4. QED
      BY <3>2, <3>3 DEF CopyFits
  <2>3. QED
    BY <2>1, <2>2 DEF TypeOK, RangeExact, ConfirmedCopies
<1>8. CASE UNCHANGED vars
  BY <1>8 DEF vars, TypeOK, RangeExact, Exact, CopyFits, Dated, Fits, ConfirmedCopies
<1>9. QED
  BY <1>1, <1>2, <1>3, <1>4, <1>5, <1>6, <1>7, <1>8 DEF Next

(***************************************************************************)
(* The inductive invariant holds.                                          *)
(***************************************************************************)
THEOREM Invariance == Spec => []IInv
BY InitInvariant, NextInvariant, PTL DEF Spec

-----------------------------------------------------------------------------
(***************************************************************************)
(* Every response and every copy has its type (FileCache, get_or_fetch and *)
(* the two variants of it).                                                *)
(***************************************************************************)
THEOREM TypeCorrect == Spec => []TypeOK
<1>1. IInv => TypeOK
  BY DEF IInv
<1>2. QED
  BY <1>1, Invariance, PTL

(***************************************************************************)
(* Ranges are exact for every header, every size and every width of a      *)
(* size_t (parse_range_header).                                            *)
(***************************************************************************)
THEOREM RangesAreExact == Spec => []RangeExact
<1>1. IInv => RangeExact
  BY DEF IInv
<1>2. QED
  BY <1>1, Invariance, PTL

(***************************************************************************)
(* A resumed download is the cached file unless that was replaced          *)
(* (get_or_fetch_with_range).                                              *)
(***************************************************************************)
THEOREM ResumedCopiesAreIntact == Spec => []CopiesIntact
<1>1. IInv => CopiesIntact
  <2> SUFFICES ASSUME IInv, copy # Nothing, copy.done, ~copy.replaced
               PROVE  copy.bytes = Bytes(0..(Size[file.version] - 1), file.version)
    BY DEF CopiesIntact
  <2>1. Fits(copy, file)
    BY DEF IInv, CopyFits
  <2>2. QED
    BY <2>1 DEF Fits
<1>2. QED
  BY <1>1, Invariance, PTL

(***************************************************************************)
(* No copy of a file is confirmed when the file is newer than it by more   *)
(* than the drift (get_or_fetch_with_conditional, check_modified_since).   *)
(***************************************************************************)
THEOREM ConfirmationsAreFresh == Spec => []ConfirmedCopies
<1>1. IInv => ConfirmedCopies
  BY DEF IInv
<1>2. QED
  BY <1>1, Invariance, PTL

\* With one reading of the time neither validator of the copy misses the file.
LEMMA NoMiss ==
  ASSUME NEW c \in Copies, NEW f \in Files, Dated(c), Fits(c, f), c.origin.edge = "none",
         NEW ims \in {Nothing, c.date}, NEW inm \in {Nothing, c.etag},
         ims # Nothing \/ inm # Nothing
  PROVE  ~Misses(f, ims, inm)
<1>1. c.origin \in ModificationTimes /\ c.origin = f.mtime /\ c.etag \in ETags(f)
  BY DEF Copies, Fits
<1>2. \A s \in Readings(f.mtime) : s = f.mtime.sec /\ s \in Nat
  BY <1>1, ReadingBounds
<1>3. CASE ims # Nothing
  <2>1. PICK r \in Readings(c.origin) : ims = LastModified(r)
    BY <1>3 DEF Dated
  <2>2. r = f.mtime.sec /\ r \in Nat /\ f.mtime.sec \in Nat \ {0}
    BY <1>1, <1>2, <2>1, FileFacts
  <2>3. ParseHttpDate(ims) = r + SummerTime(r) /\ SummerTime(r) \in Nat
    BY <2>1, <2>2, DateParses
  <2>4. \A s \in Readings(f.mtime) : ~IsModified(ims, s)
    <3>1. SUFFICES ASSUME NEW s \in Readings(f.mtime) PROVE ~IsModified(ims, s)
      OBVIOUS
    <3>2. s = r
      BY <1>2, <2>2
    <3>3. QED
      BY <2>2, <2>3, <3>2, SMT DEF IsModified
  <2>5. QED
    BY <2>4 DEF Misses
<1>4. CASE inm # Nothing
  <2>1. inm \in ETags(f)
    BY <1>1, <1>4
  <2>2. \A e \in ETags(f) : e = <<Size[f.version], f.mtime.sec>>
    BY <1>2 DEF ETags
  <2>3. QED
    BY <2>1, <2>2 DEF Misses
<1>5. QED
  BY <1>3, <1>4

(***************************************************************************)
(* A copy of a file that is still there is confirmed, in every time zone   *)
(* (get_last_modified, parse_http_date, generate_etag).                    *)
(***************************************************************************)
THEOREM UnchangedIsConfirmed == Spec => UnchangedConfirmed
<1> DEFINE Confirmed ==
      reply' # Nothing /\ reply'.request = "validate"
      /\ ~copy.replaced /\ copy.origin.edge = "none" => reply'.status = 304
<1>1. IInv /\ [Next]_vars => [Confirmed]_vars
  <2> SUFFICES ASSUME IInv, Next PROVE Confirmed
    OBVIOUS
  <2>1. CASE Get
    <3>1. reply'.request = "get"
      BY <2>1 DEF Get, Download, Whole
    <3>2. QED
      BY <3>1
  <2>2. ASSUME NEW h \in Ranges, Probe(h)
        PROVE  Confirmed
    <3>1. reply'.request = "range"
      BY <2>2 DEF Probe, RangeReply, Partial, Whole
    <3>2. QED
      BY <3>1
  <2>3. CASE Resume
    <3>1. reply'.request = "range"
      BY <2>3, ResumeSettles DEF IInv
    <3>2. QED
      BY <3>1
  <2>4. CASE Revalidate
    <3> SUFFICES ASSUME ~copy.replaced, copy.origin.edge = "none"
                 PROVE  reply'.status = 304
      OBVIOUS
    <3>1. copy \in Copies /\ Dated(copy) /\ file \in Files /\ Fits(copy, file)
      BY <2>4 DEF IInv, TypeOK, CopyFits, Revalidate
    <3>2. PICK f \in Files, ims \in {Nothing, copy.date}, inm \in {Nothing, copy.etag} :
            /\ ims # Nothing \/ inm # Nothing
            /\ Serves(f)
            /\ \/ \E e \in ETags(f) : reply' = NotModified(Size[f.version])
               \/ Misses(f, ims, inm)
      BY <2>4 DEF Revalidate
    <3>3. f = file
      BY <3>1, <3>2, FileFacts DEF Serves
    <3>4. ~Misses(f, ims, inm)
      BY <3>1, <3>2, <3>3, NoMiss
    <3>5. QED
      BY <3>2, <3>4 DEF NotModified
  <2>5. CASE Forget
    BY <2>5 DEF Forget
  <2>6. CASE Evict
    BY <2>6 DEF Evict
  <2>7. CASE Refetch
    BY <2>7 DEF Refetch
  <2>8. QED
    BY <2>1, <2>2, <2>3, <2>4, <2>5, <2>6, <2>7 DEF Next
<1>2. Spec => [][Confirmed]_vars
  BY <1>1, Invariance, PTL DEF Spec
<1>3. QED
  BY <1>2 DEF UnchangedConfirmed

-----------------------------------------------------------------------------
(* Lengths.                                                                *)

\* A response is one of the three that the cache makes for a file.
Shaped(r) ==
  \E size \in 0..(W - 1) :
    \/ \E request \in {"get", "range", "validate"}, h \in Ranges \cup {Nothing} :
         r = Whole(request, h, size)
    \/ \E h \in Ranges : Valid(h, size) /\ r = Partial(h, size)
    \/ r = NotModified(size)

ReplyShaped == reply = Nothing \/ Shaped(reply)

LEMMA DownloadShaped ==
  ASSUME NEW f \in Files, NEW request \in {"get", "range", "validate"},
         NEW h \in Ranges \cup {Nothing}, Download(f, request, h)
  PROVE  ReplyShaped'
BY FileFacts DEF Download, ReplyShaped, Shaped

LEMMA NextShaped == ReplyShaped /\ [Next]_vars => ReplyShaped'
<1> SUFFICES ASSUME ReplyShaped, [Next]_vars PROVE ReplyShaped'
  OBVIOUS
<1>1. CASE Get
  BY <1>1, DownloadShaped DEF Get
<1>2. ASSUME NEW h \in Ranges, Probe(h) PROVE ReplyShaped'
  <2>1. PICK f \in Files : reply' = RangeReply(h, Size[f.version])
    BY <1>2 DEF Probe
  <2>2. QED
    BY <2>1, FileFacts DEF RangeReply, ReplyShaped, Shaped
<1>3. CASE Resume
  <2>1. PICK k \in 1..(W - 1), f \in Files :
          IF Valid(OpenRange(k), Size[f.version])
          THEN reply' = Partial(OpenRange(k), Size[f.version])
          ELSE Download(f, "range", OpenRange(k))
    BY <1>3 DEF Resume
  <2>2. OpenRange(k) \in Ranges
    BY OpenRangeStart
  <2>3. CASE Valid(OpenRange(k), Size[f.version])
    BY <2>1, <2>2, <2>3, FileFacts DEF ReplyShaped, Shaped
  <2>4. CASE ~Valid(OpenRange(k), Size[f.version])
    BY <2>1, <2>2, <2>4, DownloadShaped
  <2>5. QED
    BY <2>3, <2>4
<1>4. CASE Revalidate
  <2>1. PICK f \in Files : \/ reply' = NotModified(Size[f.version])
                          \/ Download(f, "validate", Nothing)
    BY <1>4 DEF Revalidate
  <2>2. CASE reply' = NotModified(Size[f.version])
    BY <2>2, FileFacts DEF ReplyShaped, Shaped
  <2>3. QED
    BY <2>1, <2>2, DownloadShaped
<1>5. CASE Forget \/ Evict \/ Refetch
  BY <1>5 DEF Forget, Evict, Refetch, ReplyShaped
<1>6. CASE UNCHANGED vars
  BY <1>6 DEF vars, ReplyShaped
<1>7. QED
  BY <1>1, <1>2, <1>3, <1>4, <1>5, <1>6 DEF Next

LEMMA ShapedInvariance == Spec => []ReplyShaped
<1>1. Init => ReplyShaped
  BY DEF Init, ReplyShaped
<1>2. QED
  BY <1>1, NextShaped, PTL DEF Spec

\* As many bytes are sent as the Content-Length says.
LengthIsBody == reply # Nothing => reply.length = Cardinality(reply.body)

(***************************************************************************)
(* Where the size of a body object counts from its seek, the length of     *)
(* every response, ranges included, is the number of bytes that follow, so *)
(* that the next response begins where the client expects it: what is      *)
(* wrong about a range's length (get_or_fetch_with_range) stays within the *)
(* response.                                                               *)
(***************************************************************************)
THEOREM ResponsesAreFramed == SeekCounts /\ Spec => []LengthIsBody
<1>1. SeekCounts /\ ReplyShaped => LengthIsBody
  <2> SUFFICES ASSUME SeekCounts, Shaped(reply)
               PROVE  reply.length = Cardinality(reply.body)
    BY DEF ReplyShaped, LengthIsBody
  <2>1. PICK size \in 0..(W - 1) :
          \/ \E request \in {"get", "range", "validate"}, h \in Ranges \cup {Nothing} :
               reply = Whole(request, h, size)
          \/ \E h \in Ranges : Valid(h, size) /\ reply = Partial(h, size)
          \/ reply = NotModified(size)
    BY DEF Shaped
  <2>2. size \in Nat
    BY FileResponseAssumptions
  <2>3. \A a \in Nat : a <= size => Cardinality(a..(size - 1)) = size - a
    <3>1. SUFFICES ASSUME NEW a \in Nat, a <= size
                   PROVE  Cardinality(a..(size - 1)) = size - a
      OBVIOUS
    <3> DEFINE b == size - 1
    <3>2. a \in Int /\ b \in Int
      BY <2>2
    <3> HIDE DEF b
    <3>3. Cardinality(a..b) = IF a > b THEN 0 ELSE b - a + 1
      BY <3>2, FS_Interval
    <3>4. (IF a > b THEN 0 ELSE b - a + 1) = size - a
      BY <2>2, <3>1 DEF b
    <3>5. QED
      BY <3>3, <3>4 DEF b
  <2>4. CASE \E request \in {"get", "range", "validate"}, h \in Ranges \cup {Nothing} :
               reply = Whole(request, h, size)
    <3>1. reply.length = size /\ reply.body = 0..(size - 1)
      BY <2>4 DEF Whole
    <3>2. QED
      BY <2>2, <2>3, <3>1
  <2>5. ASSUME NEW h \in Ranges, Valid(h, size), reply = Partial(h, size)
        PROVE  reply.length = Cardinality(reply.body)
    <3>1. reply.length = size - Start(h, size) /\ reply.body = Start(h, size)..(size - 1)
      BY <2>5 DEF Partial, BodySize
    <3>2. Start(h, size) \in Nat /\ Start(h, size) <= size
      BY <2>5, ValidBounds DEF Valid
    <3>3. QED
      BY <2>3, <3>1, <3>2
  <2>6. CASE reply = NotModified(size)
    BY <2>6, FS_EmptySet DEF NotModified
  <2>7. QED
    BY <2>1, <2>4, <2>5, <2>6
<1>2. SeekCounts => [](SeekCounts)
  <2>1. SeekCounts => SeekCounts'
    OBVIOUS
  <2>2. QED
    BY <2>1, PTL
<1>3. QED
  BY <1>1, <1>2, ShapedInvariance, PTL

\* The range is the rest of the file, and the body object's size is that rest.
RestOfFile == reply # Nothing /\ reply.status = 206 =>
                reply.end = reply.total - 1 /\ (SeekCounts \/ reply.start = 0)

(***************************************************************************)
(* The comment "Set Content-Length to the range size" is true of a         *)
(* response exactly if its range runs to the end of the file, and, where   *)
(* the seek does not count, also from its beginning: no header and no size *)
(* of a file makes it true or false in any other way.                      *)
(***************************************************************************)
THEOREM LengthIsRangeOfRest == Spec => [](LengthIsRange <=> RestOfFile)
<1>1. ReplyShaped => (LengthIsRange <=> RestOfFile)
  <2> SUFFICES ASSUME Shaped(reply), reply.status = 206
               PROVE  reply.length = reply.end - reply.start + 1
                        <=> reply.end = reply.total - 1 /\ (SeekCounts \/ reply.start = 0)
    BY DEF ReplyShaped, LengthIsRange, RestOfFile
  <2>1. PICK size \in 0..(W - 1), h \in Ranges : Valid(h, size) /\ reply = Partial(h, size)
    BY DEF Shaped, Whole, NotModified
  <2>2. /\ reply.length = IF SeekCounts THEN size - Start(h, size) ELSE size
        /\ reply.start = Start(h, size) /\ reply.end = End(h, size) /\ reply.total = size
    BY <2>1 DEF Partial, BodySize
  <2>3. /\ Start(h, size) \in Nat /\ End(h, size) \in Nat /\ size \in Nat
        /\ Start(h, size) <= End(h, size) /\ End(h, size) < size
    BY <2>1, ValidBounds, FileResponseAssumptions
  <2>4. SeekCounts \in BOOLEAN
    BY FileResponseAssumptions
  <2>5. CASE SeekCounts
    BY <2>2, <2>3, <2>5
  <2>6. CASE ~SeekCounts
    BY <2>2, <2>3, <2>6
  <2>7. QED
    BY <2>5, <2>6
<1>2. QED
  BY <1>1, ShapedInvariance, PTL

=============================================================================
