--------------------------- MODULE ChunkReEncoder ---------------------------
(***************************************************************************)
(* A streamed upload (PutObject or UploadPart with Content-Encoding        *)
(* aws-chunked): the client's frames are decoded and encoded again for the *)
(* backend, each chunk signed over the one before it, without holding the  *)
(* whole object (internal/backend/proxy/chunked.go, streaming.go).         *)
(*                                                                         *)
(* One goroutine, net/http's body writer, calls Read until it fails or     *)
(* returns io.EOF; the steps are what happens inside Read and around it.   *)
(* A byte is its position in the object the client meant to send.  A       *)
(* signature is the history it is computed over.                           *)
(***************************************************************************)
EXTENDS Integers, SequencesExt

CONSTANTS
    ChunkSize,  \* bytes in a re-encoded chunk (64 KiB in the code)
    Base,       \* of the digits of a chunk's length (16)
    Uploads     \* the bodies clients may send

(***************************************************************************)
(* A body is a list of frames and the place where it stops.  "none" is a   *)
(* complete body; "data" stops after `got' bytes of the last frame; "crlf" *)
(* and "cr" before and inside the line end after it; "header" at or inside *)
(* the header that should follow, "badheader" has one that is no number    *)
(* there, "trailer" stops after the header of the empty chunk.  `why' is   *)
(* what a read at that place returns: EOF if Content-Length is used up,    *)
(* UnexpectedEOF if the client hung up before it was, other if the read    *)
(* failed (a reset, a timeout, a body over the limit).                     *)
(***************************************************************************)
Cuts == {"none", "data", "crlf", "cr", "header", "badheader", "trailer"}
Whys == {"EOF", "UnexpectedEOF", "other"}

ValidUpload(u) ==
    /\ u \in [frames : Seq(Nat \ {0}), cut : Cuts, why : Whys,
              got : Nat, decoded : Nat]
    /\ u.cut \in {"data", "crlf", "cr"} => u.frames # << >>
    /\ u.cut = "data" => u.got < u.frames[Len(u.frames)]

ASSUME ChunkAssumption ==
    /\ ChunkSize \in Nat \ {0}
    /\ Base \in Nat \ {0, 1}
    /\ \A u \in Uploads : ValidUpload(u)

VARIABLES
    upload,        \* the body, and its x-amz-decoded-content-length
    next,          \* the frame whose header comes next
    taken,         \* payload bytes read from the client
    srcRemaining,  \* of the current frame, bytes not read yet
    srcEOF,        \* the client's body has no more frames
    rawBuf,        \* decoded bytes that are in no chunk yet
    prevSig,       \* the signature the next one is computed over
    outputBuf,     \* chunks that Read has not returned yet
    done,          \* the final chunk is written
    wire,          \* chunks handed to the backend's connection
    status         \* of the upload

vars == <<upload, next, taken, srcRemaining, srcEOF, rawBuf, prevSig,
          outputBuf, done, wire, status>>

source == <<next, taken, srcRemaining, srcEOF>>
encoder == <<rawBuf, prevSig, outputBuf, done>>

-----------------------------------------------------------------------------
\* CalculateReEncodedContentLength

\* How many digits fmt.Sprintf("%x", n) has.
Digits[n \in Nat] == IF n < Base THEN 1 ELSE 1 + Digits[n \div Base]

\* "<digits>;chunk-signature=<64>" CRLF, the data, CRLF
Encoded(n) == Digits[n] + 17 + 64 + 2 + n + 2

\* Mutant of Announced: the last, partial chunk is not announced.
AnnouncedFull(d) == (d \div ChunkSize) * Encoded(ChunkSize) + Encoded(0)

Announced(d) ==
    (d \div ChunkSize) * Encoded(ChunkSize)
      + (IF d % ChunkSize > 0 THEN Encoded(d % ChunkSize) ELSE 0)
      + Encoded(0)

Total(list) == FoldLeft(LAMBDA m, n : m + n, 0, list)

WireLength == Total([i \in DOMAIN wire |-> Encoded(Len(wire[i].data))])

-----------------------------------------------------------------------------
Init ==
    /\ upload \in Uploads
    /\ next = 1 /\ taken = 0 /\ srcRemaining = 0 /\ srcEOF = FALSE
    /\ rawBuf = << >> /\ prevSig = << >> /\ outputBuf = << >> /\ done = FALSE
    /\ wire = << >>
    /\ status = "sending"

\* Read has nothing buffered to return.
Reading == status = "sending" /\ outputBuf = << >> /\ ~done

\* The loop that gathers the data of one chunk.
Filling == Reading /\ Len(rawBuf) < ChunkSize /\ ~srcEOF

InLastFrame == next > Len(upload.frames)

\* Bytes of the current frame that will still arrive.
Unread ==
    IF InLastFrame /\ upload.cut = "data"
    THEN srcRemaining - (upload.frames[Len(upload.frames)] - upload.got)
    ELSE srcRemaining

\* Mutant of ToRead: the rest of the frame, however long.
ToReadAll == srcRemaining

ToRead == IF srcRemaining < ChunkSize THEN srcRemaining ELSE ChunkSize

\* Mutant of Arrives: a buffer of a chunk's size, not cut to what was read.
ArrivesUncut == ChunkSize

Arrives == IF Unread < ToRead THEN Unread ELSE ToRead

\* A missing line end is ignored only when the body ends right before it.
LineEndFails ==
    /\ InLastFrame
    /\ \/ upload.cut = "cr"
       \/ upload.cut = "crlf" /\ upload.why # "EOF"

\* readFromSource, with a frame at hand: EOF and UnexpectedEOF are no errors.
\* If the last bytes never come this step changes nothing, for ever.
ReadData ==
    /\ Filling /\ srcRemaining > 0
    /\ Arrives = ToRead \/ upload.why # "other"
    /\ rawBuf' = rawBuf \o [i \in 1..Arrives |-> taken + i]
    /\ taken' = taken + Arrives
    /\ srcRemaining' = srcRemaining - Arrives
    /\ status' = IF srcRemaining' = 0 /\ LineEndFails THEN "failed" ELSE status
    /\ UNCHANGED <<upload, next, srcEOF, prevSig, outputBuf, done, wire>>

ReadHeader ==
    /\ Filling /\ srcRemaining = 0 /\ ~InLastFrame
    /\ srcRemaining' = upload.frames[next]
    /\ next' = next + 1
    /\ UNCHANGED <<upload, taken, srcEOF, encoder, wire, status>>

\* The empty chunk and its trailers, or io.EOF where they should be.
EndsCleanly ==
    \/ upload.cut = "none"
    \/ upload.cut \in {"crlf", "header", "trailer"} /\ upload.why = "EOF"

ReadEnd ==
    /\ Filling /\ srcRemaining = 0 /\ InLastFrame
    /\ EndsCleanly
    /\ srcEOF' = TRUE
    /\ UNCHANGED <<upload, next, taken, srcRemaining, encoder, wire, status>>

\* Mutant of ReadFails: a frame header that is no number is read again.
ReadFailsInData ==
    /\ Filling
    /\ srcRemaining > 0 /\ Arrives < ToRead /\ upload.why = "other"
    /\ status' = "failed"
    /\ UNCHANGED <<upload, source, encoder, wire>>

\* Any other error of the client's body is the upload's error.
ReadFails ==
    /\ Filling
    /\ \/ srcRemaining > 0 /\ Arrives < ToRead /\ upload.why = "other"
       \/ srcRemaining = 0 /\ InLastFrame /\ ~EndsCleanly
    /\ status' = "failed"
    /\ UNCHANGED <<upload, source, encoder, wire>>

-----------------------------------------------------------------------------
\* signChunk
\* Mutant of Sign: every chunk is signed over the seed.
SignAlone(data) == <<data>>

Sign(data) == Append(prevSig, data)

Chunk(data, sig) == [data |-> data, sig |-> sig]

\* Mutant of EmitSize: the whole buffer makes one chunk.
EmitAll == Len(rawBuf)

EmitSize == IF Len(rawBuf) > ChunkSize THEN ChunkSize ELSE Len(rawBuf)

EmitData == SubSeq(rawBuf, 1, EmitSize)

\* Mutant of Leftover: the buffer is reset, not cut.
LeftoverLost == << >>

Leftover == SubSeq(rawBuf, EmitSize + 1, Len(rawBuf))

\* writeChunk and writeFinalChunk
NextSig == IF EmitData = << >> THEN prevSig ELSE Sign(EmitData)
DataChunk == IF EmitData = << >> THEN << >> ELSE <<Chunk(EmitData, NextSig)>>
FinalChunk == <<Chunk(<< >>, Append(NextSig, << >>))>>

\* Read, after the loop: one chunk of data, and the final chunk with the last.
Emit ==
    /\ Reading /\ ~Filling
    /\ rawBuf' = Leftover
    /\ prevSig' = NextSig
    /\ done' = (srcEOF /\ Leftover = << >>)
    /\ outputBuf' = DataChunk \o (IF done' THEN FinalChunk ELSE << >>)
    /\ UNCHANGED <<upload, source, wire, status>>

-----------------------------------------------------------------------------
\* net/http's body writer: it passes on what Read returns; its connection may
\* break; at io.EOF it has sent what Content-Length announced, or fails.

Drain ==
    /\ status = "sending" /\ outputBuf # << >>
    /\ wire' = Append(wire, Head(outputBuf))
    /\ outputBuf' = Tail(outputBuf)
    /\ UNCHANGED <<upload, source, rawBuf, prevSig, done, status>>

Break ==
    /\ status = "sending" /\ outputBuf # << >>
    /\ status' = "broken"
    /\ UNCHANGED <<upload, source, encoder, wire>>

Close ==
    /\ status = "sending" /\ outputBuf = << >> /\ done
    /\ status' = IF WireLength = Announced(upload.decoded)
                 THEN "delivered" ELSE "failed"
    /\ UNCHANGED <<upload, source, encoder, wire>>

Ended == status # "sending" /\ UNCHANGED vars

Next ==
    \/ ReadData \/ ReadHeader \/ ReadEnd \/ ReadFails
    \/ Emit \/ Drain \/ Break \/ Close
    \/ Ended

Spec == Init /\ [][Next]_vars

\* The body writer never pauses by itself, and each of its reads returns: the
\* server's read timeouts bound a silent client, and Break is never owed.
FairSpec == Spec /\ WF_vars(Next)
-----------------------------------------------------------------------------
\* Every chunk made so far.
Chunks == wire \o outputBuf

\* The bytes of the object that chunk i holds, of the n bytes read.
Piece(i, n) ==
    LET before == (i - 1) * ChunkSize
        size   == IF n - before < ChunkSize THEN n - before ELSE ChunkSize
    IN [j \in 1..size |-> before + j]

\* Type invariant.
Bytes == Seq(Nat \ {0})
ChunkSet == [data : Bytes, sig : Seq(Bytes)]

TypeOK ==
    /\ ValidUpload(upload)
    /\ next \in 1..(Len(upload.frames) + 1)
    /\ taken \in Nat /\ srcRemaining \in Nat /\ srcEOF \in BOOLEAN
    /\ rawBuf \in Bytes /\ prevSig \in Seq(Bytes) /\ done \in BOOLEAN
    /\ outputBuf \in Seq(ChunkSet) /\ wire \in Seq(ChunkSet)
    /\ status \in {"sending", "failed", "broken", "delivered"}

\* However long the body and its frames are, the router holds less than two
\* chunks of raw data, and one encoded chunk with the final one
\* (IMPLEMENTATION.md:674: memory is O(chunk_size), not O(object_size)).
MemoryBounded ==
    /\ Len(rawBuf) < 2 * ChunkSize
    /\ Len(outputBuf) <= 2
    /\ \A i \in 1..Len(outputBuf) : Len(outputBuf[i].data) <= ChunkSize

\* No byte is lost, repeated or moved, whatever the client's frames and
\* wherever its body stops: chunk i holds the i-th piece of what was read and
\* rawBuf holds the rest, all of it encoded once the final chunk is written.
InOrder ==
    /\ \A i \in 1..Len(Chunks) : Chunks[i].data = Piece(i, taken)
    /\ ~done => rawBuf = [j \in 1..(taken - Len(Chunks) * ChunkSize) |->
                            Len(Chunks) * ChunkSize + j]
    /\ done => /\ rawBuf = << >>
               /\ taken <= Len(Chunks) * ChunkSize
               /\ Chunks[Len(Chunks)].data = << >>

\* Each chunk is signed over the signature of the chunk before it, the first
\* over the seed: the backend, which sees the wire alone, can verify it.
SignaturesChain ==
    \A i \in 1..Len(Chunks) :
        Chunks[i].sig = [k \in 1..i |-> Chunks[k].data]

\* A body cut short is never passed off as a whole object: what arrives under
\* the announced length is what the client declared, with the final chunk, and
\* the client did not hang up.
DeliveredWhole ==
    status = "delivered" =>
        /\ upload.cut = "none" \/ upload.why = "EOF"
        /\ taken = upload.decoded
        /\ wire # << >> /\ Last(wire).data = << >>
        /\ Total([i \in DOMAIN wire |-> Len(wire[i].data)]) = taken

WellFormed ==
    /\ upload.cut = "none"
    /\ upload.decoded = Total(upload.frames)

\* An honest upload gets through unless the backend's connection breaks: the
\* length announced before the first byte is the length the chunks add up to.
UploadsArrive == WellFormed ~> status \in {"delivered", "broken"}

\* An upload that stops anywhere but inside a frame's data comes to an end.
Settles == upload.cut # "data" \/ upload.why = "other" ~> status # "sending"

\* "Read implements io.Reader" (chunked.go:87): every upload comes to an end,
\* also when the client hangs up inside a frame.
Finishes == <>(status # "sending")
=============================================================================
