------------------------- MODULE CurlURLInputStream -------------------------
(***************************************************************************)
(* util/CurlURLInputStream.cpp: a stream that pulls the body of an answer  *)
(* out of libcurl, which pushes it in pieces of its own choice into a      *)
(* callback; what is more than the reader asked for waits in a buffer that *)
(* grows.  util/CloneInputStream.cpp writes what was read to a file, which *)
(* is to be the backup of the document.                                    *)
(*                                                                         *)
(* libcurl is external: a call of curl_multi_perform() passes on up to two *)
(* pieces, a piece of no bytes standing for none, and may find that the    *)
(* transfer has ended or failed.  A byte is its number in the body.        *)
(***************************************************************************)
EXTENDS Integers, Sequences

CONSTANTS StatusCodes,  \* of the answers
          BodySize,     \* bound: the longest body, and the largest piece of it
          ReadSize      \* bound: how much a reader asks for

ASSUME StreamAssumption == StatusCodes \subseteq Nat /\ BodySize \in Nat /\ ReadSize \in Nat

VARIABLES answer,    \* what the server sends: [code, length, fails]
          sent,      \* how much of it libcurl has passed on
          transfer,  \* "running", or "over"
          in,        \* the members of the stream
          again,     \* tryAgain, while readBytes() runs
          reader,    \* "init", "idle", "reading", at the "end", or "thrown" out
          received,  \* what readBytes() has returned
          copy       \* the backing file of the CloneInputStream

streamVars == <<answer, sent, transfer, in, again, reader, received, copy>>

StatusDocument(code) == <<"URLInputSourceStatus", code>>

\* With CURLOPT_FAILONERROR an error of the server is one of the transfer.
Answers == {a \in [code : StatusCodes, length : 0..BodySize, fails : BOOLEAN] :
              a.code >= 400 => a.length = 0 /\ a.fails}

Stream == [fBuffer |-> <<>>, head |-> 0, tail |-> 0, fBufferSize |-> 0,
           fBytesToRead |-> 0, toFill |-> <<>>, fTotalBytesRead |-> 0, fStatusCode |-> 200]

StreamInit ==
    /\ answer \in Answers
    /\ sent = 0 /\ transfer = "running"
    /\ in = Stream /\ again = TRUE
    /\ reader = "init" /\ received = <<>> /\ copy = <<>>
-----------------------------------------------------------------------------
Smaller(a, b) == IF a < b THEN a ELSE b

Buffered(s) == SubSeq(s.fBuffer, s.tail + 1, s.head)

\* Bytes that go to the reader.
Filled(s, bytes) ==
    [s EXCEPT !.toFill = @ \o bytes, !.fBytesToRead = @ - Len(bytes),
              !.fTotalBytesRead = @ + Len(bytes)]

\* What the reader still wants goes to it, the rest behind what is in the buffer.
\* realloc() moves the tail to the beginning of the new one.
writeCallback(s, bytes) ==
    LET consume == Smaller(Len(bytes), s.fBytesToRead)
        rest == SubSeq(bytes, consume + 1, Len(bytes))
        missing == Len(rest) - (s.fBufferSize - s.head)
        t == Filled(s, SubSeq(bytes, 1, consume))
    IN  [t EXCEPT !.fBufferSize = IF missing > 0 THEN @ + missing ELSE @,
                  !.tail = IF missing > 0 THEN 0 ELSE @,
                  !.fBuffer = SubSeq(@, 1, s.head) \o rest,
                  !.head = @ + Len(rest)]

\* Mutant: an empty buffer is written on behind what has been read of it.
takeBufferedOn(s) ==
    LET count == Smaller(s.head - s.tail, s.fBytesToRead)
    IN  [Filled(s, SubSeq(s.fBuffer, s.tail + 1, s.tail + count)) EXCEPT !.tail = @ + count]

\* The first part of the loop of readBytes().
takeBuffered(s) ==
    LET count == Smaller(s.head - s.tail, s.fBytesToRead)
        t == [Filled(s, SubSeq(s.fBuffer, s.tail + 1, s.tail + count)) EXCEPT !.tail = @ + count]
    IN  IF t.tail = t.head THEN [t EXCEPT !.tail = 0, !.head = 0] ELSE t

\* The sizes of the pieces that a call of curl_multi_perform() passes on.
Chunks == (0..BodySize) \X (0..BodySize)

Total(pieces) == pieces[1] + pieces[2]

Bytes(first, last) == [k \in 1..last - first + 1 |-> first + k - 1]

Passed(pieces) ==
    writeCallback(writeCallback(in, Bytes(sent + 1, sent + pieces[1])),
                  Bytes(sent + pieces[1] + 1, sent + Total(pieces)))

\* readMore(): whether the transfer ends in this call.  Whether libcurl wants to be
\* called again at once, and how long select() waits, makes no difference to the data.
readMore(pieces, ends) ==
    /\ sent + Total(pieces) <= answer.length
    /\ transfer = "over" => Total(pieces) = 0 /\ ends
    /\ ends => sent + Total(pieces) = answer.length
    /\ sent' = sent + Total(pieces)
    /\ transfer' = IF ends THEN "over" ELSE "running"
    /\ again' \in BOOLEAN

Fails(ends) == ends /\ transfer = "running" /\ answer.fails

Throws(s) == in' = s /\ reader' = "thrown" /\ UNCHANGED <<received, copy>>
-----------------------------------------------------------------------------
\* The status takes the place of the body, in a buffer of its own.
WithStatus(s) ==
    LET t == [s EXCEPT !.fStatusCode = answer.code]
        document == StatusDocument(answer.code)
    IN  IF answer.code < 300 THEN t
        ELSE [t EXCEPT !.fBuffer = document, !.tail = 0, !.head = Len(document)]

\* The end of init(): the stream is read until something is in the buffer.
Starts ==
    /\ reader = "init"
    /\ \E pieces \in Chunks, ends \in BOOLEAN :
         LET s == Passed(pieces)
         IN  /\ readMore(pieces, ends)
             /\ IF Fails(ends) THEN Throws(s)
                ELSE /\ IF s.head = 0 /\ ~ends THEN in' = s /\ reader' = "init"
                        ELSE in' = WithStatus(s) /\ reader' = "idle"
                     /\ UNCHANGED <<received, copy>>
    /\ UNCHANGED answer

readBytes(maxToRead) ==
    /\ reader = "idle"
    /\ in' = [in EXCEPT !.toFill = <<>>, !.fBytesToRead = maxToRead]
    /\ again' = TRUE /\ reader' = "reading"
    /\ UNCHANGED <<answer, sent, transfer, received, copy>>

\* readBytes() returns to CloneInputStream::readBytes(), which returns to the reader.
Returned(s) ==
    /\ in' = [s EXCEPT !.toFill = <<>>]
    /\ received' = received \o s.toFill
    /\ copy' = copy \o s.toFill
    /\ reader' = IF s.toFill = <<>> THEN "end" ELSE "idle"

Loops == reader = "reading" /\ in.fBytesToRead > 0 /\ (again \/ in.toFill = <<>>)

TakesBuffered ==
    /\ Loops /\ in.head > in.tail
    /\ in' = takeBuffered(in) /\ again' = TRUE
    /\ UNCHANGED <<answer, sent, transfer, reader, received, copy>>

ReadsMore ==
    /\ Loops /\ in.head = in.tail /\ in.fStatusCode < 300
    /\ \E pieces \in Chunks, ends \in BOOLEAN :
         /\ readMore(pieces, ends)
         /\ IF Fails(ends) THEN Throws(Passed(pieces))
            ELSE IF ends THEN Returned(Passed(pieces))
            ELSE in' = Passed(pieces) /\ UNCHANGED <<reader, received, copy>>
    /\ UNCHANGED answer

\* Nothing is left of the document that stands for a status, or the reader has what
\* it asked for or all that there was.
Returns ==
    /\ reader = "reading"
    /\ Loops => in.head = in.tail /\ in.fStatusCode >= 300
    /\ Returned(in)
    /\ UNCHANGED <<answer, sent, transfer, again>>

StreamNext ==
    \/ Starts \/ TakesBuffered \/ ReadsMore \/ Returns
    \/ \E n \in 1..ReadSize : readBytes(n)

StreamSpec == StreamInit /\ [][StreamNext]_streamVars
-----------------------------------------------------------------------------
(***************************************************************************)
(* However the body is cut into pieces, and whatever sizes it is read in,  *)
(* the reader gets it once and in order: what it has, what is in its hands *)
(* and what waits in the buffer is what has arrived, and the copy is what  *)
(* it has.  No write goes beyond the buffer.  Whoever comes to the end of  *)
(* the stream has all of a body that is whole, and never part of one that  *)
(* broke off; a backup is made of such a copy only.                        *)
(***************************************************************************)
StreamFaithful ==
    LET special == in.fStatusCode >= 300
        arrived == IF special THEN StatusDocument(answer.code) ELSE Bytes(1, sent)
    IN  /\ received \o in.toFill \o Buffered(in) = arrived
        /\ copy = received
        /\ in.fTotalBytesRead = Len(received \o in.toFill)
        /\ special \/ in.head <= in.fBufferSize
        /\ reader = "end" => /\ received = arrived
                             /\ special \/ (sent = answer.length /\ ~answer.fails)
=============================================================================
