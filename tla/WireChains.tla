----------------------------- MODULE WireChains -----------------------------
(***************************************************************************)
(* Messages that are chained by offsets.  WireBuilder lays out a compound  *)
(* of requests, signs its members in order and seals it; the receive path  *)
(* walks a compound of responses; ChainedItemList writes and reads the     *)
(* entries of a listing.  Only lengths and offsets matter here: bytes are  *)
(* positions.                                                              *)
(***************************************************************************)
EXTENDS Integers, Sequences, SequencesExt, FiniteSets

CONSTANTS
    Members,      \* lengths that an encoded request may have
    Payloads,     \* lengths of payloads, empty ones included
    MaxMembers,   \* members of a compound
    Responses,    \* lengths that a response member may have
    NextCommands, \* values of next_command in a response
    ItemSizes     \* lengths of the items of a chained list

VARIABLES
    builder,      \* WireBuilder
    walk,         \* transform_incoming_all, the loop over the members
    list          \* a ChainedItemList, written and read back

chainVars == <<builder, walk, list>>

HeaderLength == 64
SignatureAt == 48
SignatureLength == 16
OffsetPad == 4

AlignedTo(n, a) == ((n + a - 1) \div a) * a

-----------------------------------------------------------------------------
(* WireBuilder *)

\* encode: every member but the last is padded to eight bytes, and its
\* next_command is patched with the padded length.
Encode(sizes) ==
    FoldLeft(LAMBDA e, size :
               LET final == Len(e.ranges) + 1 = Len(sizes)
                   stop == IF final THEN e.end + size ELSE AlignedTo(e.end + size, 8)
               IN  [end |-> stop,
                    ranges |-> Append(e.ranges, [start |-> e.end, end |-> stop]),
                    next |-> Append(e.next, IF final THEN 0 ELSE stop - e.end)],
             [end |-> 0, ranges |-> <<>>, next |-> <<>>], sizes)

\* A compound has its metadata alone; one request may carry payload segments.
SegmentLimit(sizes) == IF Len(sizes) > 1 THEN 1 ELSE 3

NewBuilder(sizes) ==
    [state |-> "encoded", encoded |-> Encode(sizes), payloads |-> <<>>,
     limit |-> SegmentLimit(sizes), patched |-> 0, signed |-> {}]

MetadataLength(b) == b.encoded.end
PayloadLength(b) == FoldLeft(+, 0, b.payloads)
TotalLength(b) == MetadataLength(b) + PayloadLength(b)
member_count(b) == Len(b.encoded.ranges)

\* signing_segments: the member's own metadata, and the payloads when it is alone.
SigningBytes(b, m) ==
    LET r == b.encoded.ranges[m]
    IN  r.start .. r.end - 1
        \cup (IF member_count(b) = 1 THEN MetadataLength(b) .. TotalLength(b) - 1 ELSE {})

SignatureBytes(b, m) ==
    LET start == b.encoded.ranges[m].start + SignatureAt
    IN  start .. start + SignatureLength - 1

\* The metadata is a segment too.
SegmentRoom(b) == 1 + Len(b.payloads) < b.limit

\* An empty payload is dropped.
attach_payload(n) ==
    /\ builder.state = "encoded"
    /\ n # 0 /\ SegmentRoom(builder)
    /\ builder' = [builder EXCEPT !.payloads = Append(@, n)]
    /\ UNCHANGED <<walk, list>>

finalize_offsets ==
    /\ builder.state = "encoded"
    /\ builder' = [builder EXCEPT !.state = "finalized"]
    /\ UNCHANGED <<walk, list>>

\* A signature is made over the bytes as they are and put into the header;
\* patches follow the order of the members.
patch_signature ==
    LET m == builder.patched + 1 IN
    /\ builder.state = "finalized" /\ m <= member_count(builder)
    /\ builder' = [builder EXCEPT !.patched = m,
                                  !.signed = @ \cup {[member |-> m, over |-> SigningBytes(builder, m)]}]
    /\ UNCHANGED <<walk, list>>

finish_signed ==
    /\ builder.state = "finalized" /\ builder.patched = member_count(builder)
    /\ builder' = [builder EXCEPT !.state = "protected"]
    /\ UNCHANGED <<walk, list>>

finish_unsigned ==
    /\ builder.state = "finalized" /\ builder.patched = 0
    /\ builder' = [builder EXCEPT !.state = "protected"]
    /\ UNCHANGED <<walk, list>>

seal ==
    /\ builder.state = "protected"
    /\ builder' = [builder EXCEPT !.state = "sealed"]
    /\ UNCHANGED <<walk, list>>

-----------------------------------------------------------------------------
(* The walk over a compound of responses *)

\* What arrives: the lengths of the members and the next_command of each, which
\* is the server's word.
NewWalk(sizes, next) ==
    [at |-> "walking", total |-> FoldLeft(+, 0, sizes), next |-> next, start |-> 0, slices |-> <<>>]

\* Mutant: the offset is compared with the length of the whole frame.
RefusedBeyondFrame(next, w) == next > w.total

\* The offset of the next member must lie in what is left of the frame.
NextRefused(next, w) == next > w.total - w.start

\* One turn of the loop: the member's slice, its verification, the next member.
\* A member shorter than its header does not decode.
WalkMember ==
    LET i == Len(walk.slices) + 1
        left == walk.total - walk.start
        next == walk.next[i]
        here == [start |-> walk.start, end |-> walk.start + (IF next > 0 THEN next ELSE left)]
    IN  /\ walk.at = "walking"
        /\ walk' = IF left < HeaderLength \/ NextRefused(next, walk) THEN [walk EXCEPT !.at = "failed"]
                   ELSE [walk EXCEPT !.slices = Append(@, here), !.start = here.end,
                                     !.at = IF next = 0 THEN "done" ELSE "walking"]
        /\ UNCHANGED <<builder, list>>

-----------------------------------------------------------------------------
(* ChainedItemList *)

\* write_options: an offset before every item; all but the last are padded.
WriteList(items, base) ==
    FoldLeft(LAMBDA w, size :
               LET final == Len(w.entries) + 1 = Len(items)
                   stop == w.end + 4 + size
                   next == IF final THEN stop ELSE AlignedTo(stop, OffsetPad)
               IN  [end |-> next,
                    entries |-> Append(w.entries, [at |-> w.end, size |-> size,
                                                   offset |-> IF final THEN 0 ELSE next - w.end])],
             [end |-> base, entries |-> <<>>], items)

NewList(items, base) ==
    [at |-> "reading", items |-> items, written |-> WriteList(items, base), base |-> base,
     position |-> base, read |-> <<>>]

Entry(l) == LET here == {i \in DOMAIN l.written.entries : l.written.entries[i].at = l.position}
            IN  l.written.entries[CHOOSE i \in here : TRUE]

\* The reader seeks by the offset.
NextPosition(l) == l.position + Entry(l).offset

\* read_options: one turn of its loop; an item must start aligned.
ReadItem ==
    /\ list.at = "reading"
    /\ IF list.base = list.written.end THEN list' = [list EXCEPT !.at = "done"]
       ELSE IF list.position % OffsetPad # 0 THEN list' = [list EXCEPT !.at = "failed"]
       ELSE list' = [list EXCEPT !.read = Append(@, Entry(list).size),
                                 !.position = NextPosition(list),
                                 !.at = IF Entry(list).offset = 0 THEN "done" ELSE "reading"]
    /\ UNCHANGED <<builder, walk>>

-----------------------------------------------------------------------------
Compounds == UNION {[1 .. n -> Members] : n \in 1 .. MaxMembers}
Lists == UNION {[1 .. n -> ItemSizes] : n \in 0 .. 3}

NoBuilder == [state |-> "none"]
NoWalk == [at |-> "none"]
NoList == [at |-> "none"]

\* One of the three at a time.
ChainInit ==
    \/ \E sizes \in Compounds : builder = NewBuilder(sizes) /\ walk = NoWalk /\ list = NoList
    \/ \E n \in 1 .. MaxMembers : \E sizes \in [1 .. n -> Responses], next \in [1 .. 4 -> NextCommands] :
          builder = NoBuilder /\ walk = NewWalk(sizes, next) /\ list = NoList
    \/ \E items \in Lists, base \in {0, 2, 8} :
          builder = NoBuilder /\ walk = NoWalk /\ list = NewList(items, base)

ChainNext ==
    \/ \E n \in Payloads : attach_payload(n)
    \/ finalize_offsets \/ patch_signature \/ finish_signed \/ finish_unsigned \/ seal
    \/ (walk.at = "walking" /\ Len(walk.slices) < 4 /\ WalkMember)
    \/ ReadItem

ChainSpec == ChainInit /\ [][ChainNext]_chainVars

-----------------------------------------------------------------------------
(* Properties *)

\* A sealed message is signed throughout or not at all: when its members are
\* signed, every byte of it is covered by exactly one signature, though payloads
\* are attached and members patched in separate calls (wire_out.rs:109, 154, 174).
SealedIsCovered ==
    builder.state = "sealed" =>
        \/ builder.signed = {}
        \/ /\ UNION {s.over : s \in builder.signed} = 0 .. TotalLength(builder) - 1
           /\ \A s, t \in builder.signed : s # t => s.over \cap t.over = {}
           /\ \A s \in builder.signed : SignatureBytes(builder, s.member) \subseteq s.over

\* The next_command offsets of a compound lead from member to member, each at a
\* multiple of eight, and the last is zero (wire_out.rs:58).
OffsetsLead ==
    builder # NoBuilder =>
        LET e == builder.encoded IN
        /\ \A m \in DOMAIN e.ranges : e.ranges[m].start % 8 = 0
        /\ \A m \in 1 .. Len(e.ranges) - 1 : e.ranges[m].start + e.next[m] = e.ranges[m + 1].start
        /\ e.next[Len(e.next)] = 0

\* Whatever offsets a server sends, the walk takes disjoint slices in order and
\* inside the frame; when it succeeds they make up the whole frame, so no byte is
\* verified as part of two members or of none (wire.rs:843).
SlicesPartition ==
    walk # NoWalk =>
        /\ \A i \in DOMAIN walk.slices :
              /\ walk.slices[i].start = (IF i = 1 THEN 0 ELSE walk.slices[i - 1].end)
              /\ walk.slices[i].start < walk.slices[i].end
              /\ walk.slices[i].end <= walk.total
        /\ walk.at = "done" => walk.slices[Len(walk.slices)].end = walk.total

\* A list that starts aligned reads back as it was written; one that does not is
\* refused, never misread (chained_list.rs:88, 145).
ListReadsBack ==
    list # NoList =>
        /\ list.at # "reading" /\ list.base % OffsetPad = 0 => list.at = "done"
        /\ list.at = "done" => list.read = list.items

\* Compounds and lists hold together: what is built is covered by its signatures and
\* linked by its offsets, and what is taken apart is taken apart at the right places.
ChainsHold == SealedIsCovered /\ OffsetsLead /\ SlicesPartition /\ ListReadsBack
=============================================================================
