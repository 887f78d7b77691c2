--------------------------- MODULE FrameTransport ---------------------------
(***************************************************************************)
(* The transport of a connection: a frame of several segments goes out     *)
(* behind a length header through short vectored writes, and the peer cuts *)
(* the byte stream into frames again by the lengths it reads.  Bytes are   *)
(* named by the frame, segment and position they come from.                *)
(***************************************************************************)
EXTENDS Integers, Sequences, SequencesExt, FiniteSets

CONSTANTS
    Plans,         \* the sequences of frames a caller may send; a frame is the
                   \* sequence of its segments' lengths
    HeaderSize,    \* SmbTcpMessageHeader::SIZE
    LengthRange,   \* lengths the header's field can tell apart
    MaxFrameSize,  \* the limit of receive_with_limit
    MaxSlices      \* slices of one vectored write

VARIABLES
    link,          \* how far connecting has come
    plan,          \* the frames to send
    cursor,        \* SendCursor of the frame in hand, with its progress report
    wire,          \* every byte written so far
    abandoned,     \* frames cancelled before their first byte
    consumed,         \* bytes of wire the receiver has taken
    receiver,      \* what receive_with_limit waits for
    received       \* the frames handed to the reader

transportVars == <<link, plan, cursor, wire, abandoned, consumed, receiver, received>>

MaxVectoredSegments == MaxSlices - 1

-----------------------------------------------------------------------------
(* A frame and its bytes *)

total_len(frame) == FoldLeft(+, 0, frame)

\* SendFrame::from_segments, with the limit of segments that send puts on it.
Sendable(frame) == /\ frame # <<>>
                   /\ total_len(frame) > 0
                   /\ Len(frame) <= MaxVectoredSegments

\* The header is a zero byte and a length in three bytes: what does not fit is cut.
HeaderBytes(f) ==
    [i \in 1 .. HeaderSize |-> [frame |-> f, segment |-> 0, at |-> i,
                                length |-> total_len(plan[f]) % LengthRange]]

SegmentBytes(f, s) == [i \in 1 .. plan[f][s] |-> [frame |-> f, segment |-> s, at |-> i, length |-> 0]]

Payload(f) == FoldLeft(\o, <<>>, [s \in 1 .. Len(plan[f]) |-> SegmentBytes(f, s)])

FrameBytes(f) == HeaderBytes(f) \o Payload(f)

-----------------------------------------------------------------------------
(* SendCursor *)

NewCursor(f) == [at |-> "sending", frame |-> f, header_pos |-> 0, segment_index |-> 1,
                 segment_pos |-> 0, reported |-> 0]

From(bytes, n) == SubSeq(bytes, n + 1, Len(bytes))

\* What is left of each segment from the cursor on.
SegmentsLeft(c) ==
    [k \in 1 .. Len(plan[c.frame]) - c.segment_index + 1 |->
        From(SegmentBytes(c.frame, c.segment_index + k - 1), IF k = 1 THEN c.segment_pos ELSE 0)]

remaining(c) == HeaderSize - c.header_pos
                + FoldLeft(LAMBDA n, bytes : n + Len(bytes), 0, SegmentsLeft(c))

\* The slices of one vectored write: the rest of the header, then the segments
\* that are not empty, as many as fit.
chunks_vectored(c) ==
    LET slices == SelectSeq(<<From(HeaderBytes(c.frame), c.header_pos)>> \o SegmentsLeft(c),
                            LAMBDA bytes : bytes # <<>>)
    IN  SubSeq(slices, 1, IF Len(slices) < MaxSlices THEN Len(slices) ELSE MaxSlices)

\* The loop of try_advance over the segments.
RECURSIVE AdvanceSegments(_, _)
AdvanceSegments(c, count) ==
    IF count = 0 THEN c
    ELSE LET left == plan[c.frame][c.segment_index] - c.segment_pos
             used == IF count < left THEN count ELSE left
         IN  AdvanceSegments(
               IF used = left THEN [c EXCEPT !.segment_index = @ + 1, !.segment_pos = 0]
               ELSE [c EXCEPT !.segment_pos = @ + used], count - used)

\* Mutant: a header of which some bytes are out counts as sent.
AdvancePastHeader(c, count) ==
    LET header == HeaderSize - c.header_pos
        first == IF count < header THEN count ELSE header
    IN  AdvanceSegments([c EXCEPT !.header_pos = HeaderSize], count - first)

try_advance(c, count) ==
    LET header == HeaderSize - c.header_pos
        first == IF count < header THEN count ELSE header
    IN  AdvanceSegments([c EXCEPT !.header_pos = @ + first], count - first)

-----------------------------------------------------------------------------
(* Connecting *)

NoCursor == [at |-> "idle", frame |-> 0, header_pos |-> 0, segment_index |-> 1,
             segment_pos |-> 0, reported |-> 0]

TransportInit ==
    /\ link \in {"tcp", "netbios"}
    /\ plan \in Plans
    /\ cursor = NoCursor
    /\ wire = <<>> /\ abandoned = {} /\ consumed = 0
    /\ receiver = [at |-> "header", need |-> HeaderSize]
    /\ received = <<>>

\* connect_timeout: the socket connects, fails or runs out of time.
TcpConnect(connected) ==
    /\ link \in {"tcp", "netbios"}
    /\ link' = IF ~connected THEN "down" ELSE IF link = "tcp" THEN "up" ELSE "asking"
    /\ UNCHANGED <<plan, cursor, wire, abandoned, consumed, receiver, received>>

\* netbios_session_setup: only a positive response goes on.  The trailer is read
\* into an empty buffer, so the answer's own bytes are never taken.
NetBiosAnswered(ptype) ==
    /\ link = "asking"
    /\ link' = IF ptype = "positive" THEN "up" ELSE "down"
    /\ UNCHANGED <<plan, cursor, wire, abandoned, consumed, receiver, received>>

-----------------------------------------------------------------------------
(* Sending *)

StartSend ==
    LET f == cursor.frame + 1 IN
    /\ link = "up" /\ cursor.at = "idle" /\ f \in DOMAIN plan
    /\ cursor' = IF Sendable(plan[f]) THEN NewCursor(f)
                 ELSE [NoCursor EXCEPT !.frame = f]
    /\ abandoned' = IF Sendable(plan[f]) THEN abandoned ELSE abandoned \cup {f}
    /\ UNCHANGED <<link, plan, wire, consumed, receiver, received>>

\* One turn of the loop of send_with_progress: the socket takes any part of what
\* it is offered, the cursor moves on and the progress is reported, in one poll.
WriteVectored(written) ==
    LET offered == FoldLeft(\o, <<>>, chunks_vectored(cursor))
        after == try_advance(cursor, written)
    IN  /\ link = "up" /\ cursor.at = "sending"
        /\ written \in 1 .. Len(offered)
        /\ wire' = wire \o SubSeq(offered, 1, written)
        /\ cursor' = [after EXCEPT !.reported = @ + written,
                                   !.at = IF remaining(after) = 0 THEN "idle" ELSE "sending"]
        /\ UNCHANGED <<link, plan, abandoned, consumed, receiver, received>>

\* The socket fails or takes nothing.
WriteFails ==
    /\ link = "up" /\ cursor.at = "sending"
    /\ link' = "down"
    /\ UNCHANGED <<plan, cursor, wire, abandoned, consumed, receiver, received>>

\* write_step: a cancelled frame is dropped only while no progress of it has
\* been reported; after that it is sent to its end.
CancelWrite ==
    /\ link = "up" /\ cursor.at = "sending" /\ cursor.reported = 0
    /\ cursor' = [cursor EXCEPT !.at = "idle"]
    /\ abandoned' = abandoned \cup {cursor.frame}
    /\ UNCHANGED <<link, plan, wire, consumed, receiver, received>>

-----------------------------------------------------------------------------
(* Receiving, at the peer: the same code reads what a server sends *)

\* receive_exact returns once the wanted bytes are there.  A header byte that
\* stands for something else is not told apart from a length.
ReceiveHeader ==
    LET header == SubSeq(wire, consumed + 1, consumed + HeaderSize)
        fits == header[1].segment = 0 /\ header[1].length <= MaxFrameSize
    IN  /\ receiver.at = "header" /\ Len(wire) - consumed >= HeaderSize
        /\ receiver' = IF fits THEN [at |-> "body", need |-> header[1].length]
                       ELSE [at |-> "failed", need |-> 0]
        /\ consumed' = consumed + HeaderSize
        /\ UNCHANGED <<link, plan, cursor, wire, abandoned, received>>

ReceiveBody ==
    /\ receiver.at = "body" /\ Len(wire) - consumed >= receiver.need
    /\ received' = Append(received, SubSeq(wire, consumed + 1, consumed + receiver.need))
    /\ consumed' = consumed + receiver.need
    /\ receiver' = [at |-> "header", need |-> HeaderSize]
    /\ UNCHANGED <<link, plan, cursor, wire, abandoned>>

TransportNext ==
    \/ \E connected \in BOOLEAN : TcpConnect(connected)
    \/ \E ptype \in {"positive", "negative", "retarget"} : NetBiosAnswered(ptype)
    \/ StartSend
    \/ \E written \in 1 .. HeaderSize + (IF cursor.at = "sending" THEN total_len(plan[cursor.frame]) ELSE 0) :
          WriteVectored(written)
    \/ WriteFails \/ CancelWrite \/ ReceiveHeader \/ ReceiveBody

TransportSpec == TransportInit /\ [][TransportNext]_transportVars

-----------------------------------------------------------------------------
(* Properties *)

Started == {f \in DOMAIN plan : f <= cursor.frame} \ abandoned

Intended == FoldLeft(\o, <<>>, [f \in 1 .. cursor.frame |-> IF f \in Started THEN FrameBytes(f) ELSE <<>>])

\* However the socket cuts the writes, the wire holds the frames in order, each
\* with its header first and every byte once; an abandoned frame left nothing
\* behind (SendCursor::try_advance, chunks_vectored; write_step).
StreamInOrder == IsPrefix(wire, Intended)

\* The bytes reported for a frame are the bytes of it on the wire, so "no
\* progress" proves that nothing was sent (tcp/transport.rs:222, engine.rs:799).
ProgressIsExact ==
    cursor.frame \in DOMAIN plan =>
        cursor.reported = Len(SelectSeq(wire, LAMBDA byte : byte.frame = cursor.frame))

\* The peer gets the frames that were sent, whole and in order, and never cuts
\* the stream anywhere else (SmbTcpMessageHeader, receive_with_limit).
ReceivedAsSent ==
    \A i \in DOMAIN received :
        \E f \in Started : /\ received[i] = Payload(f)
                           /\ Cardinality({g \in Started : g < f}) = i - 1

\* Frames go over the wire whole and in order, are counted exactly, and are received as
\* they were sent, however the socket cuts reads and writes.
FramesInOrder == StreamInOrder /\ ProgressIsExact /\ ReceivedAsSent
=============================================================================
