------------------------------- MODULE NdrStubs -------------------------------
(***************************************************************************)
(* NDR64 stubs as the interfaces over a named pipe write and read them:    *)
(* arrays in two passes, pointers in two stages, and alignment relative to *)
(* the start of the stub.  A stub is the sequence of the fields that were  *)
(* written.  A string is its length in characters.                         *)
(***************************************************************************)
EXTENDS Integers, Sequences, SequencesExt

Null == 0 - 1

(* A field of w bytes aligned to n. *)
NdrAlign(n, w, v) == <<[align |-> n, width |-> w, value |-> v]>>
Ndr64(v) == NdrAlign(8, 8, v)
Padding == NdrAlign(8, 0, 0)

NdrString(len) == Ndr64(len) \o Ndr64(0) \o Ndr64(len) \o NdrAlign(8, 2 * len, len)

(* A pointer in an array: its reference id first, its value in a second stage. *)
RefId(v) == Ndr64(IF v = Null THEN 0 ELSE 1)
Data(v) == IF v = Null THEN <<>> ELSE NdrString(v)

NdrArray(refs, data) == Ndr64(Len(refs)) \o FlattenSeq(refs) \o FlattenSeq(data)

ShareRefs(e) == Padding \o RefId(e.name) \o NdrAlign(8, 4, e.kind) \o RefId(e.remark)
ShareData(e) == Padding \o Data(e.name) \o Data(e.remark)

(* The answer of NetrShareEnum: no container, no buffer, or a list. *)
NetrShareEnumOut(answer) ==
    LET level == NdrAlign(8, 4, 1) \o Ndr64(1)
        container == level \o Ndr64(1) \o NdrAlign(8, 4, Len(answer.shares))
        ending == NdrAlign(4, 4, Len(answer.shares)) \o Ndr64(0)
        refs == [i \in DOMAIN answer.shares |-> ShareRefs(answer.shares[i])]
        data == [i \in DOMAIN answer.shares |-> ShareData(answer.shares[i])]
    IN  CASE answer.has = "nothing" -> level \o Ndr64(0) \o ending
          [] answer.has = "container" -> container \o Ndr64(0) \o ending
          [] OTHER -> container \o Ndr64(1) \o NdrArray(refs, data) \o ending

(* A name has its length twice, its characters come with the values. *)
SidBytes == 12
NameParts(name) == LET bytes == IF name = Null THEN 0 ELSE 2 * name
                   IN  NdrAlign(4, 2, bytes) \o NdrAlign(4, 2, bytes) \o RefId(name)
LsaUnicodeString(name) ==
    IF name = Null THEN <<>> ELSE Ndr64(name) \o Ndr64(0) \o Ndr64(name) \o NdrAlign(1, 2 * name, name)
DomainParts(d) == NameParts(d.name) \o Ndr64(IF d.sid THEN 1 ELSE 0)
DomainData(d) == LsaUnicodeString(d.name) \o (IF d.sid THEN NdrAlign(1, SidBytes, 0) ELSE <<>>)
AccountParts(a) == NdrAlign(4, 2, a.use) \o NameParts(a.name) \o NdrAlign(4, 4, a.domain)
AccountData(a) == LsaUnicodeString(a.name)

(* The answer of LsarLookupSids, as the tests of the interface build it; its own writer    *)
(* writes nothing.                                                                       *)
LsarLookupSidsOut(answer) ==
    LET domains == Ndr64(1) \o NdrAlign(8, 4, Len(answer.domains)) \o Ndr64(1) \o NdrAlign(8, 4, Len(answer.domains))
                   \o NdrArray([i \in DOMAIN answer.domains |-> DomainParts(answer.domains[i])],
                               [i \in DOMAIN answer.domains |-> DomainData(answer.domains[i])])
        accounts == Ndr64(1)
                    \o NdrArray([i \in DOMAIN answer.accounts |-> AccountParts(answer.accounts[i])],
                                [i \in DOMAIN answer.accounts |-> AccountData(answer.accounts[i])])
    IN  (IF answer.domains = <<>> THEN Ndr64(0) ELSE domains)
        \o NdrAlign(8, 4, Len(answer.accounts)) \o (IF answer.accounts = <<>> THEN Ndr64(0) ELSE accounts)
        \o NdrAlign(8, 4, answer.mapped) \o NdrAlign(1, 4, answer.status)

-----------------------------------------------------------------------------
(***************************************************************************)
(* A reader: where it is, the next field and where the last one ended, what *)
(* it read last, whether everything was where it looked and was accepted;  *)
(* the phase it is in, the entries left in it, the references of the first *)
(* pass and the values of the second.  What a reader makes of bytes that    *)
(* are not the field it looks for is left open.                            *)
(***************************************************************************)
Reader(phase) == [phase |-> phase, pos |-> 0, next |-> 1, end |-> 0, last |-> 0, ok |-> TRUE,
                  left |-> 0, kept |-> <<>>, got |-> <<>>, domains |-> <<>>]
RoundUp(n, k) == ((n + k - 1) \div k) * k

(* A field is found if it was written where the reader looks, and as wide. *)
Read(stub, r, n, w) ==
    LET p == RoundUp(r.pos, n)
        ahead == {i \in r.next..Len(stub) : stub[i].width > 0}
        i == CHOOSE k \in ahead : \A j \in ahead : k <= j
        start == RoundUp(IF i > r.next THEN RoundUp(r.end, 8) ELSE r.end, stub[i].align)
    IN  IF ahead = {} THEN [r EXCEPT !.ok = FALSE, !.last = 0]
        ELSE [r EXCEPT !.pos = p + w, !.next = i + 1, !.end = start + stub[i].width,
                       !.ok = @ /\ p = start /\ w = stub[i].width, !.last = stub[i].value]
Read64(stub, r) == Read(stub, r, 8, 8)
Counted64(stub, r) == Read64(stub, Read64(stub, Read64(stub, r)))
ReadString(stub, r) == LET count == Counted64(stub, r) IN Read(stub, count, 8, 2 * count.last)
ReadUnicode(stub, r) == LET count == Counted64(stub, r) IN Read(stub, count, 1, 2 * count.last)
Missing(r) == [r EXCEPT !.last = Null]

(* A pass over an array, and what follows it. *)
Pass(r, phase, count) == [r EXCEPT !.phase = phase, !.left = count]
Keeps(r, entry) == [r EXCEPT !.kept = Append(@, entry), !.left = @ - 1]
TakesRest(r, value) == [r EXCEPT !.got = Append(@, value), !.kept = Tail(@), !.left = @ - 1]
Over(r) == [r EXCEPT !.phase = "done"]
Refused(r) == [Over(r) EXCEPT !.ok = FALSE]

-----------------------------------------------------------------------------
(* NetrShareEnum. *)

ShareHead(stub, r) ==
    LET level == Read64(stub, Read(stub, r, 8, 4))
        container == Read64(stub, level)
        entries == Read(stub, container, 8, 4)
        buffer == Read64(stub, entries)
        max == Read64(stub, buffer)
    IN  IF container.last = 0 \/ buffer.last = 0 \/ entries.last > max.last THEN Refused(r)
        ELSE Pass(max, "share refs", entries.last)

ReadShareRefs(stub, r) ==
    LET name == Read64(stub, r)
        kind == Read(stub, name, 8, 4)
        remark == Read64(stub, kind)
    IN  Keeps(remark, [name |-> name.last, kind |-> kind.last, remark |-> remark.last])

ReadShareData(stub, r) ==
    LET refs == Head(r.kept)
        start == [r EXCEPT !.pos = RoundUp(@, 8)]
        name == IF refs.name # 0 THEN ReadString(stub, start) ELSE Missing(start)
        remark == IF refs.remark # 0 THEN ReadString(stub, name) ELSE Missing(name)
    IN  TakesRest(remark, [name |-> name.last, kind |-> refs.kind, remark |-> remark.last])

ShareTail(stub, r) == Over(Read64(stub, Read(stub, r, 4, 4)))

-----------------------------------------------------------------------------
(* LsarLookupSids. *)

(* Statuses, and the use of an account nobody knows. *)
Success == 0
SomeNotMapped == 1
NoneMapped == 2
Failure == 3
is_success(status) == status \in {Success, SomeNotMapped}
Unknown == 8

Smaller(a, b) == IF a < b THEN a ELSE b

(* The domains and the accounts each begin with a count and a pointer. *)
DomainHead(stub, r) ==
    LET pointer == Read64(stub, r)
        entries == Read(stub, pointer, 8, 4)
        array == Read64(stub, entries)
        most == Read(stub, array, 8, 4)
        max == Read64(stub, most)
    IN  IF pointer.last = 0 THEN Pass(pointer, "account head", 0)
        ELSE IF array.last = 0 \/ entries.last = 0 THEN Pass(most, "account head", 0)
        ELSE Pass(max, "domain parts", Smaller(entries.last, max.last))

(* A name is read in the second pass if it has a pointer and a length. *)
ReadNameParts(stub, r) ==
    LET len == Read(stub, r, 4, 2)
        ref == Read64(stub, Read(stub, len, 4, 2))
    IN  [ref EXCEPT !.last = IF ref.last # 0 /\ len.last > 0 THEN 1 ELSE 0]
ReadDomainParts(stub, r) ==
    LET name == ReadNameParts(stub, r)
        sid == Read64(stub, name)
    IN  Keeps(sid, [name |-> name.last, sid |-> sid.last])
ReadName(stub, r) == IF Head(r.kept).name = 1 THEN ReadUnicode(stub, r) ELSE Missing(r)
ReadDomainData(stub, r) ==
    LET name == ReadName(stub, r)
        sid == IF Head(r.kept).sid # 0 THEN Read(stub, name, 1, SidBytes) ELSE name
    IN  TakesRest(sid, name.last)

AccountHead(stub, r) ==
    LET domains == [r EXCEPT !.domains = r.got, !.got = <<>>]
        entries == Read(stub, domains, 8, 4)
        array == Read64(stub, entries)
        max == Read64(stub, array)
    IN  IF array.last = 0 \/ entries.last = 0 THEN Pass(array, "lookup tail", 0)
        ELSE Pass(max, "account parts", Smaller(entries.last, max.last))
ReadAccountParts(stub, r) ==
    LET use == Read(stub, r, 4, 2)
        name == ReadNameParts(stub, use)
        domain == Read(stub, name, 4, 4)
    IN  Keeps(domain, [use |-> use.last, name |-> name.last, domain |-> domain.last])
ReadAccountData(stub, r) ==
    LET name == ReadName(stub, r)
    IN  TakesRest(name, [use |-> Head(r.kept).use, name |-> name.last, domain |-> Head(r.kept).domain])

Unresolved == [name |-> Null, domain |-> Null]

(* Mutant: the index of a domain counts from one. *)
TranslatedFromOne(account, domains) ==
    IF account.name = Null \/ account.use = Unknown THEN Unresolved
    ELSE [name |-> account.name,
          domain |-> IF account.domain \in DOMAIN domains THEN domains[account.domain] ELSE Null]

Translated(account, domains) ==
    IF account.name = Null \/ account.use = Unknown THEN Unresolved
    ELSE [name |-> account.name,
          domain |-> IF account.domain >= 0 /\ account.domain < Len(domains)
                     THEN domains[account.domain + 1] ELSE Null]

LookupTail(stub, r) ==
    LET mapped == Read(stub, r, 8, 4)
        status == Read(stub, mapped, 1, 4)
        names == [i \in DOMAIN r.got |-> Translated(r.got[i], r.domains)]
    IN  IF (~is_success(status.last) /\ status.last # NoneMapped) \/ mapped.last > Len(r.got)
        THEN Refused(status)
        ELSE [Over(status) EXCEPT !.got = names]

(* One step of a reader: the next entry of a pass, or what follows the pass. *)
ReadStep(stub, r) ==
    CASE r.phase = "share head" -> ShareHead(stub, r)
      [] r.phase = "share refs" /\ r.left > 0 -> ReadShareRefs(stub, r)
      [] r.phase = "share refs" /\ r.left = 0 -> Pass(r, "share data", Len(r.kept))
      [] r.phase = "share data" /\ r.left > 0 -> ReadShareData(stub, r)
      [] r.phase = "share data" /\ r.left = 0 -> ShareTail(stub, r)
      [] r.phase = "domain head" -> DomainHead(stub, r)
      [] r.phase = "domain parts" /\ r.left > 0 -> ReadDomainParts(stub, r)
      [] r.phase = "domain parts" /\ r.left = 0 -> Pass(r, "domain data", Len(r.kept))
      [] r.phase = "domain data" /\ r.left > 0 -> ReadDomainData(stub, r)
      [] r.phase = "domain data" /\ r.left = 0 -> Pass(r, "account head", 0)
      [] r.phase = "account head" -> AccountHead(stub, r)
      [] r.phase = "account parts" /\ r.left > 0 -> ReadAccountParts(stub, r)
      [] r.phase = "account parts" /\ r.left = 0 -> Pass(r, "account data", Len(r.kept))
      [] r.phase = "account data" /\ r.left > 0 -> ReadAccountData(stub, r)
      [] r.phase = "account data" /\ r.left = 0 -> Pass(r, "lookup tail", 0)
      [] r.phase = "lookup tail" -> LookupTail(stub, r)
=============================================================================
