----------------------------- MODULE WireFields -----------------------------
(***************************************************************************)
(* The parts a wire structure is made of, as the binary attributes of the  *)
(* code describe them: plain bytes, position markers that are written as   *)
(* zero and filled in later, lengths computed from a value that follows,   *)
(* alignment, and bodies of a length that is not fixed.  A structure is a  *)
(* sequence of parts.  The contents of a body are left out: a body is so   *)
(* many elements of so many bytes.                                         *)
(***************************************************************************)
EXTENDS Integers, Sequences, SequencesExt

(***************************************************************************)
(* Every part has the same fields.                                         *)
(*   kind    "bytes", "marker", "calc", "tag", "align" or "body"           *)
(*   width   bytes of a field, the alignment, or bytes of one element      *)
(*   of, in  the body a computed length is about, in elements or in bytes  *)
(*   how     what a value too large for its field does: "try" refuses the  *)
(*           message, "as" wraps, "unwrap" panics                          *)
(*   tail    bytes a body ends with besides its elements (a terminator)    *)
(*   offset, size, base, sizePlus, offsetPlus  the arguments of write_hero *)
(*   seek, seekOn, seekBy, seekMinus, seekIf   where the reader looks      *)
(*   limit, field, minus                       where it stops              *)
(*   alignIn, alignOut                         alignment of a body         *)
(*   nonempty, least, most, optional, shown    bodies that may be absent   *)
(***************************************************************************)
Blank == [kind |-> "bytes", name |-> "", width |-> 0, of |-> "", in |-> "",
          how |-> "try", tail |-> 0, accepts |-> {},
          offset |-> "", size |-> "", base |-> "", sizePlus |-> 0, offsetPlus |-> 0,
          seek |-> "next", seekOn |-> "", seekBy |-> "", seekMinus |-> 0, seekIf |-> "",
          limit |-> "self", field |-> "", minus |-> 0, nonempty |-> FALSE, least |-> 0, most |-> 100000,
          optional |-> FALSE, shown |-> "", multiple |-> 1, alignIn |-> 1, alignOut |-> 1]

Bytes(w) == [Blank EXCEPT !.width = w]

(* Fields of the widths ws that only take room. *)
Fixed(ws) == <<Bytes(FoldLeft(LAMBDA a, w : a + w, 0, ws))>>

(* The bytes of a bit field whose members have bs bits. *)
Bits(bs) == FoldLeft(LAMBDA a, b : a + b, 0, bs) \div 8

Room(parts) == FoldLeft(LAMBDA a, p : a + (IF p.kind \in {"body", "align"} THEN 0 ELSE p.width), 0, parts)

PosMarker(n, w) == [Blank EXCEPT !.kind = "marker", !.name = n, !.width = w]

(* A length computed from body b, in elements or in bytes. *)
Count(n, w, b) == [Blank EXCEPT !.kind = "calc", !.name = n, !.width = w, !.of = b, !.in = "elements"]
Length(n, w, b) == [Blank EXCEPT !.kind = "calc", !.name = n, !.width = w, !.of = b, !.in = "bytes"]
As(part) == [part EXCEPT !.how = "as"]
Unwrap(part) == [part EXCEPT !.how = "unwrap"]

(* A field whose value the reader checks against a set. *)
Tag(n, w, values) == [Blank EXCEPT !.kind = "tag", !.name = n, !.width = w, !.accepts = values]

(* A marker whose value the reader requires to be a multiple of n. *)
Multiple(marker, n) == [marker EXCEPT !.multiple = n]

(* align_before, on its own or of a body; one side of it only. *)
Align(n) == [Blank EXCEPT !.kind = "align", !.width = n]
AlignIn(n) == [Align(n) EXCEPT !.how = "read"]
AlignBefore(b, n) == [b EXCEPT !.alignIn = n, !.alignOut = n]
AlignOut(b, n) == [b EXCEPT !.alignOut = n]

(* A body of elements of w bytes; how the reader finds its end. *)
Body(n, w) == [Blank EXCEPT !.kind = "body", !.name = n, !.width = w]
Counted(b, f) == [b EXCEPT !.limit = "count", !.field = f]
Take(b, f) == [b EXCEPT !.limit = "bytes", !.field = f]
TakePlus(b, f, more) == [Take(b, f) EXCEPT !.minus = -more]
UntilEof(b) == [b EXCEPT !.limit = "eof"]
NullTerminated(n, w) == [Body(n, w) EXCEPT !.tail = w]

(* A value the program never makes shorter than n elements; an optional value. *)
AtLeast(b, n) == [b EXCEPT !.least = n]
Maybe(b) == [b EXCEPT !.most = 1]

(* Not written when there is none; read when field f is not zero. *)
WhenPresent(b, f) == [b EXCEPT !.optional = TRUE, !.shown = f]

(***************************************************************************)
(* A string, of UTF-16 or of single bytes, whose length in bytes is in     *)
(* field f.  The reader has no way to tell a length of zero from arguments *)
(* that were not given, and refuses it.                                    *)
(***************************************************************************)
SizedWideString(n, f) == [Take(Body(n, 2), f) EXCEPT !.nonempty = TRUE]
SizedAnsiString(n, f) == [SizedWideString(n, f) EXCEPT !.width = 1]

(* Where the reader looks for a body. *)
SeekStart(b, f) == [b EXCEPT !.seek = "start", !.seekBy = f]
SeekFrom(b, mark, f, less) == [b EXCEPT !.seek = "mark", !.seekOn = mark, !.seekBy = f, !.seekMinus = less]
SeekFromIf(b, mark, f, less, cond) == [SeekFrom(b, mark, f, less) EXCEPT !.seekIf = cond]

(***************************************************************************)
(* The writers of PosMarker.  Each writes the body at the current position *)
(* and goes back to fill in an offset, a size, or both.                    *)
(***************************************************************************)
write_hero(b, size, offset, base, sizePlus, offsetPlus) ==
    [b EXCEPT !.size = size, !.offset = offset, !.base = base,
              !.sizePlus = sizePlus, !.offsetPlus = offsetPlus]

write_roff_plus(b, off, plus) == write_hero(b, "", off, off, 0, plus)
write_roff_b(b, off, base) == write_hero(b, "", off, base, 0, 0)
write_roff_b_plus(b, off, base, plus) == write_hero(b, "", off, base, 0, plus)
write_roff_size_b_plus(b, off, size, base, plus) == write_hero(b, size, off, base, 0, plus)
write_aoff(b, off) == write_hero(b, "", off, "", 0, 0)
write_roff_size(b, off, size) == write_hero(b, size, off, "", 0, 0)
write_aoff_size(b, off, size) == write_hero(b, size, off, "", 0, 0)
write_size(b, size) == write_hero(b, size, "", "", 0, 0)
write_size_plus(b, size, plus) == write_hero(b, size, "", "", plus, 0)

(***************************************************************************)
(* A structure: where it starts, the structure size it declares (0: none), *)
(* its parts, and the structures a reader of its kind tries in turn (none: *)
(* only this one).  A message follows the header of 64 bytes and begins    *)
(* with its structure size.                                                *)
(***************************************************************************)
Struct(parts) == [start |-> 0, declared |-> 0, parts |-> parts, tried |-> <<>>]
StructureSize(size) == Tag("structureSize", 2, {size})
Sized(size, parts) == [Struct(<<StructureSize(size)>> \o parts) EXCEPT !.declared = size]
Message(size, parts) == [Sized(size, parts) EXCEPT !.start = 64]

After(n, parts) == [Struct(parts) EXCEPT !.start = n]

(* An item of a chained list follows the offset of the next item. *)
ChainItem(parts) == After(4, parts)
OneOf(layout, names) == [layout EXCEPT !.tried = names]
=============================================================================
