------------------------------- MODULE Streaming -------------------------------
(***************************************************************************)
(* A file that is streamed while its torrent downloads: API.stream and the *)
(* chunks it sends, the two playback strategies behind ReadableRangePath,  *)
(* WaitRange, and the window of the native engine that PrepareRange moves. *)
(*                                                                         *)
(* The file has FileSize bytes and starts FileOffset bytes into a torrent  *)
(* of pieces of PieceSize bytes.  The engine writes what it receives into  *)
(* the file before it has verified it; an engine with a temporary path     *)
(* moves the file when the torrent is complete.  Streams are requests with *)
(* a lease; a user may remove the torrent and add it again under them.     *)
(***************************************************************************)
EXTENDS Integers, FiniteSets, FiniteSetsExt

CONSTANTS
    Streams,        \* requests that may be open at once
    FileSize,       \* Download.SizeBytes
    FileOffset,     \* Download.FileOffset
    PieceSize,      \* PieceMap.PieceSize
    StreamStart,    \* Settings.StreamStartBytes
    ReadAhead,      \* Settings.ReadAheadBytes
    Ranges,         \* Range headers: [first, last], -1 where left out
    MaxStreams,     \* bound: requests
    MaxUpsets       \* bound: rechecks, removals and changes of the root

ASSUME StreamingAssumption ==
    /\ {FileSize, PieceSize, StreamStart, ReadAhead} \subseteq Nat \ {0}
    /\ FileOffset \in Nat /\ MaxStreams \in Nat /\ MaxUpsets \in Nat
    /\ Ranges \subseteq [first : -1..FileSize + 1, last : -1..FileSize + 1]

VARIABLES
    pieces,     \* what Pieces reports: missing, partial or complete
    media,      \* the file: where it is, its length, the pieces that are right in it
    swarm,      \* the torrent: known, by an engine with a temporary path, root
    raised,     \* pieces with the priority Readahead
    window,     \* Client.windows: the pieces of the last range asked for
    stream,     \* the requests
    streamCount \* bounds: [opened, upsets]

streamingVars == <<pieces, media, swarm, raised, window, stream, streamCount>>

PieceOf(b) == (FileOffset + b) \div PieceSize
Pieces == PieceOf(0)..PieceOf(FileSize - 1)
AllComplete == \A p \in Pieces : pieces[p] = "complete"

NoFile == [at |-> "none", length |-> 0, good |-> {}]
NoStream == [at |-> "rest", range |-> [first |-> -1, last |-> -1], start |-> 0,
             end |-> -1, pos |-> 0, chunk |-> 0, path |-> "none",
             complete |-> FALSE, rowPath |-> "none", wrong |-> FALSE, upset |-> FALSE, moved |-> FALSE]

StreamingInit ==
    /\ pieces = [p \in Pieces |-> "missing"] /\ media = NoFile
    /\ \E temp \in BOOLEAN : swarm = [known |-> TRUE, temp |-> temp, rooted |-> TRUE]
    /\ raised = {} /\ window = {}
    /\ stream = [s \in Streams |-> NoStream] /\ streamCount = [opened |-> 0, upsets |-> 0]

(******************************** the engine *******************************)

(* safeQBContentPath: where the status says that the content is.           *)
safeQBContentPath == IF ~AllComplete /\ swarm.temp THEN "temp" ELSE "final"

(* Blocks of a piece arrive and are written: the file grows to hold them,  *)
(* to all of its length where the engine allocates it so.                  *)
BlocksArrive(p) ==
    /\ swarm.known /\ pieces[p] = "missing"
    /\ pieces' = [pieces EXCEPT ![p] = "partial"]
    /\ LET written == Max({b \in 0..FileSize - 1 : PieceOf(b) = p}) + 1
       IN \E n \in {written, FileSize} :
             media' = [media EXCEPT !.at = IF @ = "none" THEN safeQBContentPath ELSE @,
                                    !.length = IF n > @ THEN n ELSE @]
    /\ UNCHANGED <<swarm, raised, window, stream, streamCount>>

(* The piece is hashed: it is right, or its blocks are dropped.            *)
PieceHashed(p) ==
    /\ swarm.known /\ pieces[p] = "partial"
    /\ \/ /\ pieces' = [pieces EXCEPT ![p] = "complete"]
          /\ media' = [media EXCEPT !.good = @ \cup {p}]
       \/ /\ p \notin media.good
          /\ pieces' = [pieces EXCEPT ![p] = "missing"] /\ UNCHANGED media
    /\ UNCHANGED <<swarm, raised, window, stream, streamCount>>

(* A complete torrent leaves the temporary path, after it says so.         *)
ContentMoves ==
    /\ AllComplete /\ media.at = "temp" /\ media' = [media EXCEPT !.at = "final"]
    /\ UNCHANGED <<pieces, swarm, raised, window, stream, streamCount>>

Upset ==
    /\ streamCount.upsets < MaxUpsets
    /\ streamCount' = [streamCount EXCEPT !.upsets = @ + 1]

(* A recheck has a piece that is right in the state of one in progress.    *)
Recheck(p) ==
    /\ Upset /\ swarm.known /\ pieces[p] = "complete"
    /\ pieces' = [pieces EXCEPT ![p] = "partial"]
    /\ UNCHANGED <<media, swarm, raised, window, stream>>

(* The user removes the torrent with its file, and adds it again.          *)
RemoveTorrent ==
    /\ Upset /\ swarm.known /\ swarm' = [swarm EXCEPT !.known = FALSE]
    /\ pieces' = [p \in Pieces |-> "missing"] /\ media' = NoFile
    /\ raised' = {} /\ window' = {} /\ UNCHANGED stream

AddAgain ==
    /\ ~swarm.known /\ swarm' = [swarm EXCEPT !.known = TRUE]
    /\ stream' = [s \in Streams |-> [stream[s] EXCEPT !.upset = @ \/ stream[s].at # "rest"]]
    /\ UNCHANGED <<pieces, media, raised, window, streamCount>>

(* The household points the download root elsewhere.                       *)
RootChanges ==
    /\ Upset /\ swarm' = [swarm EXCEPT !.rooted = ~@]
    /\ UNCHANGED <<pieces, media, raised, window, stream>>

(********************************* parseRange ******************************)

\* Mutant: a suffix longer than the file starts before it.
parseRangeUnclamped(r) ==
    [ok    |-> r.first < FileSize /\ r.last # 0 /\ (r.first # -1 => r.last = -1 \/ r.last >= r.first),
     start |-> IF r.first = -1 THEN FileSize - r.last ELSE r.first,
     end   |-> IF r.first = -1 \/ r.last = -1 \/ r.last >= FileSize THEN FileSize - 1 ELSE r.last]

(* No header is all of the file; without its first the range is a suffix,  *)
(* without its last it runs to the end.                                    *)
parseRange(r) ==
    IF r.first = -1 /\ r.last = -1
    THEN [ok |-> TRUE, start |-> 0, end |-> FileSize - 1]
    ELSE IF r.first = -1
    THEN [ok |-> r.last > 0, end |-> FileSize - 1,
          start |-> FileSize - (IF r.last > FileSize THEN FileSize ELSE r.last)]
    ELSE [ok |-> r.first < FileSize /\ (r.last = -1 \/ r.last >= r.first),
          start |-> r.first,
          end |-> IF r.last = -1 \/ r.last >= FileSize THEN FileSize - 1 ELSE r.last]

(********************************* the stream ******************************)

StreamTo(s, at) == stream' = [stream EXCEPT ![s].at = at]
StreamEnds(s) == stream' = [stream EXCEPT ![s] = NoStream]
ChunkOf(s) == stream[s].pos..stream[s].pos + stream[s].chunk - 1
PiecesOf(s) == {PieceOf(b) : b \in ChunkOf(s)}

(* Acquire reads the row and reconciles it with the torrent; what it says  *)
(* of the file is then the request's for as long as it runs.               *)
OpenStream(s) ==
    /\ stream[s].at = "rest" /\ swarm.known /\ streamCount.opened < MaxStreams
    /\ streamCount' = [streamCount EXCEPT !.opened = @ + 1]
    /\ \E r \in Ranges :
          LET parsed == parseRange(r)
              remaining == parsed.end - parsed.start + 1
          IN IF parsed.ok /\ swarm.rooted
             THEN stream' = [stream EXCEPT ![s] =
                     [NoStream EXCEPT !.at = "ask", !.range = r,
                        !.start = parsed.start, !.end = parsed.end, !.pos = parsed.start,
                        !.chunk = IF StreamStart > remaining THEN remaining ELSE StreamStart,
                        !.complete = AllComplete, !.rowPath = safeQBContentPath]]
             ELSE UNCHANGED stream
    /\ UNCHANGED <<pieces, media, swarm, raised, window>>

(* completedLocalFile: the row was complete, and a file of its size is     *)
(* where the row says.                                                     *)
completedLocalFile(s) ==
    /\ stream[s].complete
    /\ media.at = stream[s].rowPath /\ media.length >= FileSize

LocalPath(s) ==
    /\ stream[s].at = "ask" /\ completedLocalFile(s)
    /\ IF swarm.rooted
       THEN stream' = [stream EXCEPT ![s].at = "copy", ![s].path = stream[s].rowPath]
       ELSE StreamEnds(s)
    /\ UNCHANGED <<pieces, media, swarm, raised, window, streamCount>>

AskStatus(s) ==
    /\ stream[s].at = "ask" /\ ~completedLocalFile(s)
    /\ IF swarm.known /\ swarm.rooted
       THEN stream' = [stream EXCEPT ![s].at = "steer", ![s].path = safeQBContentPath]
       ELSE StreamEnds(s)
    /\ UNCHANGED <<pieces, media, swarm, raised, window, streamCount>>

\* Mutant: the pieces of the earlier window stay raised.
steerLockedOnly(r, w, range) == r \cup range

(* steerLocked: the earlier window drops back to its baseline.             *)
steerLocked(r, w, range) == (r \ w) \cup range

PrepareRange(s) ==
    /\ stream[s].at = "steer"
    /\ IF swarm.known
       THEN /\ raised' = steerLocked(raised, window, PiecesOf(s)) /\ window' = PiecesOf(s)
            /\ stream' = [t \in Streams |->
                  IF t = s THEN [stream[s] EXCEPT !.at = "wait", !.moved = FALSE]
                  ELSE [stream[t] EXCEPT !.moved = stream[t].at = "wait" \/ @]]
       ELSE StreamEnds(s) /\ UNCHANGED <<raised, window>>
    /\ UNCHANGED <<pieces, media, swarm, streamCount>>

\* Mutant: the piece that the last byte is in is not waited for.
NeededShort(s) ==
    PieceOf(stream[s].pos)..PieceOf(stream[s].pos + stream[s].chunk - 1) - 1

(* The pieces that WaitRange looks at.                                     *)
Needed(s) == PieceOf(stream[s].pos)..PieceOf(stream[s].pos + stream[s].chunk - 1)

WaitRange(s) ==
    /\ stream[s].at = "wait"
    /\ IF swarm.known
       THEN (\A p \in Needed(s) : pieces[p] = "complete") /\ StreamTo(s, "probe")
       ELSE StreamEnds(s)
    /\ UNCHANGED <<pieces, media, swarm, raised, window, streamCount>>

(* The last byte is read once from where the status said; until it can be, *)
(* the status is asked again, for three seconds.                           *)
ProbeFile(s) ==
    /\ stream[s].at = "probe"
    /\ IF media.at = stream[s].path /\ media.length >= stream[s].pos + stream[s].chunk
       THEN StreamTo(s, "copy")
       ELSE /\ swarm.known /\ swarm.rooted /\ stream[s].path # safeQBContentPath
            /\ stream' = [stream EXCEPT ![s].path = safeQBContentPath]
    /\ UNCHANGED <<pieces, media, swarm, raised, window, streamCount>>

(* A wait times out, the client leaves, or the file cannot be read.        *)
WaitEnds(s) ==
    /\ stream[s].at \in {"wait", "probe", "copy"} /\ StreamEnds(s)
    /\ UNCHANGED <<pieces, media, swarm, raised, window, streamCount>>

(* copyRange, and the loop around it: the next chunk is twice the size, as *)
(* far as the read-ahead and the end of the range allow.                   *)
NextChunk(s) ==
    LET doubled == 2 * stream[s].chunk
        left == stream[s].end - (stream[s].pos + stream[s].chunk) + 1
    IN Min({doubled, ReadAhead, left})

copyRange(s) ==
    /\ stream[s].at = "copy"
    /\ media.at = stream[s].path /\ media.length >= stream[s].pos + stream[s].chunk
    /\ stream' = [stream EXCEPT
          ![s].wrong = @ \/ \E b \in ChunkOf(s) : PieceOf(b) \notin media.good,
          ![s].pos = @ + stream[s].chunk, ![s].chunk = NextChunk(s),
          ![s].at = IF stream[s].pos + stream[s].chunk > stream[s].end
                    THEN "sent" ELSE "ask"]
    /\ UNCHANGED <<pieces, media, swarm, raised, window, streamCount>>

Release(s) ==
    /\ stream[s].at = "sent" /\ StreamEnds(s)
    /\ UNCHANGED <<pieces, media, swarm, raised, window, streamCount>>

StreamStep(s) ==
    \/ OpenStream(s) \/ LocalPath(s) \/ AskStatus(s) \/ PrepareRange(s) \/ WaitRange(s)
    \/ ProbeFile(s) \/ WaitEnds(s) \/ copyRange(s) \/ Release(s)

StreamingNext ==
    \/ \E p \in Pieces : BlocksArrive(p) \/ PieceHashed(p) \/ Recheck(p)
    \/ ContentMoves \/ RemoveTorrent \/ AddAgain \/ RootChanges
    \/ \E s \in Streams : StreamStep(s)

(* The types of the variables.                                             *)
StreamingTypeOK ==
    /\ pieces \in [Pieces -> {"missing", "partial", "complete"}]
    /\ media \in [at: {"none", "temp", "final"}, length: 0..FileSize, good: SUBSET Pieces]
    /\ swarm \in [known: BOOLEAN, temp: BOOLEAN, rooted: BOOLEAN]
    /\ raised \subseteq Pieces /\ window \subseteq Pieces
    /\ \A s \in Streams :
          /\ stream[s].at \in {"rest", "ask", "steer", "wait", "probe", "copy", "sent"}
          /\ {stream[s].path, stream[s].rowPath} \subseteq {"none", "temp", "final"}
          /\ {stream[s].pos, stream[s].start, stream[s].chunk} \subseteq 0..FileSize

(* Every byte sent is a verified byte of the file, whatever downloads,     *)
(* fails its hash, is rechecked or moves meanwhile: unless the torrent was *)
(* removed and added again under the request, which goes on with a row, or *)
(* with pieces, of the torrent before.                                     *)
SentIsVerified == \A s \in Streams : stream[s].wrong => stream[s].upset

(* What is sent is what was asked for: the bytes of the range that are in  *)
(* the file, none of them before its turn or past its end, and a request   *)
(* that has been answered has had them all.                                *)
Requested(r) ==
    {b \in 0..FileSize - 1 :
        IF r.first = -1 THEN r.last = -1 \/ b >= FileSize - r.last
        ELSE b >= r.first /\ (r.last = -1 \/ b <= r.last)}

SentIsRequested ==
    \A s \in Streams : stream[s].at # "rest" =>
       /\ stream[s].start..stream[s].end = Requested(stream[s].range)
       /\ ChunkOf(s) \subseteq Requested(stream[s].range)
       /\ stream[s].pos >= stream[s].start
       /\ IF stream[s].at = "sent" THEN stream[s].pos = stream[s].end + 1
          ELSE stream[s].chunk > 0

(* Only the range asked for last has the engine's urgent pieces, so that   *)
(* what is urgent never adds up, and a request waits for pieces that are   *)
(* urgent, unless another one has moved the window since: a request asks   *)
(* once for a chunk, however long it then waits for it.                    *)
WaitIsSteered ==
    /\ raised = window
    /\ \A s \in Streams :
          stream[s].at = "wait" /\ swarm.known =>
             Needed(s) \subseteq raised \/ stream[s].moved \/ stream[s].upset

(* A stream sends the verified bytes that were asked for, and waits for    *)
(* what the engine was told is urgent.                                     *)
StreamingSafe == StreamingTypeOK /\ SentIsVerified /\ SentIsRequested /\ WaitIsSteered
================================================================================
