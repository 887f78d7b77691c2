------------------------------ MODULE WireCodec ------------------------------
(***************************************************************************)
(* Writing a structure part by part and reading it back.  The program      *)
(* chooses a structure and the sizes of its bodies; the writer goes        *)
(* through the parts and fills in markers behind itself; the reader goes   *)
(* through the parts of what it expects and trusts what the fields say.    *)
(***************************************************************************)
EXTENDS RpcMessages, FiniteSets, TLC

CONSTANTS
    Counts      \* numbers of elements a body may have

(* The structures, with the ones a reader of an enumeration tries before them. *)
Leases == <<"RequestLeaseV1", "RequestLeaseV2">>
Svhdx == <<"SvhdxOpenDeviceContextV1", "SvhdxOpenDeviceContextV2">>
Compressed == <<"CompressedUnchainedMessage", "CompressedChainedMessage">>
Breaks == <<"OplockBreakMsg", "LeaseBreakNotify", "LeaseBreakAckResponse">>
Referral(parts) == After(4, parts)

MessageLayouts == [
    Header |-> Header, EncryptedMessage |-> Struct(EncryptedMessage),
    CompressedUnchainedMessage |-> OneOf(CompressedUnchainedMessage, Compressed),
    CompressedChainedMessage |-> OneOf(CompressedChainedMessage, Compressed),
    ErrorResponse |-> ErrorResponse, ErrorResponseContext |-> Struct(ErrorResponseContext),
    EchoMessage |-> EchoMessage, CancelRequest |-> CancelRequest, SMB1NegotiateMessage |-> SMB1NegotiateMessage,
    NegotiateRequest |-> NegotiateRequest, NegotiateResponse |-> NegotiateResponse,
    NegotiateContext |-> Struct(NegotiateContext),
    PreauthIntegrityCapabilities |-> Struct(PreauthIntegrityCapabilities),
    EncryptionCapabilities |-> Struct(EncryptionCapabilities),
    CompressionCapabilities |-> Struct(CompressionCapabilities),
    NetnameNegotiateContextId |-> Struct(NetnameNegotiateContextId),
    RdmaTransformCapabilities |-> Struct(RdmaTransformCapabilities),
    SigningCapabilities |-> Struct(SigningCapabilities),
    SessionSetupRequest |-> SessionSetupRequest, SessionSetupResponse |-> SessionSetupResponse,
    LogoffMessage |-> LogoffMessage, TreeConnectRequest |-> TreeConnectRequest,
    TreeConnectResponse |-> TreeConnectResponse, TreeDisconnectMessage |-> TreeDisconnectMessage]

FileLayouts == [
    CreateRequest |-> CreateRequest, CreateResponse |-> CreateResponse, CreateContext |-> CreateContext,
    QueryMaximalAccessRequest |-> Struct(QueryMaximalAccessRequest),
    RequestLeaseV1 |-> OneOf(RequestLeaseV1, Leases), RequestLeaseV2 |-> OneOf(RequestLeaseV2, Leases),
    AppInstanceId |-> AppInstanceId, AppInstanceVersion |-> AppInstanceVersion,
    SvhdxOpenDeviceContextV1 |-> OneOf(SvhdxOpenDeviceContextV1, Svhdx),
    SvhdxOpenDeviceContextV2 |-> OneOf(SvhdxOpenDeviceContextV2, Svhdx),
    CloseRequest |-> CloseRequest, CloseResponse |-> CloseResponse,
    FlushRequest |-> FlushRequest, FlushResponse |-> FlushResponse,
    ReadRequest |-> ReadRequest, ReadResponse |-> ReadResponse,
    WriteRequest |-> WriteRequest, WriteResponse |-> WriteResponse,
    LockRequest |-> LockRequest, LockResponse |-> LockResponse,
    QueryDirectoryRequest |-> QueryDirectoryRequest, QueryDirectoryResponse |-> QueryDirectoryResponse,
    QueryInfoRequest |-> QueryInfoRequest, QueryInfoResponse |-> QueryInfoResponse,
    QueryQuotaList |-> Struct(QueryQuotaList), QueryQuotaSid |-> Struct(QueryQuotaSid),
    SetInfoRequest |-> SetInfoRequest, SetInfoResponse |-> SetInfoResponse,
    ChangeNotifyRequest |-> ChangeNotifyRequest, ChangeNotifyResponse |-> ChangeNotifyResponse,
    OplockBreakMsg |-> OneOf(OplockBreakMsg, Breaks), LeaseBreakNotify |-> OneOf(LeaseBreakNotify, Breaks),
    LeaseBreakAckResponse |-> OneOf(LeaseBreakAckResponse, Breaks)]

IoctlLayouts == [
    IoctlRequest |-> IoctlRequest, IoctlResponse |-> IoctlResponse, IoctlBuffer |-> Struct(IoctlBuffer),
    SrvCopychunkCopy |-> Struct(SrvCopychunkCopy), SrvReadHashReq |-> Struct(SrvReadHashReq),
    NetworkResiliencyRequest |-> Struct(NetworkResiliencyRequest),
    ValidateNegotiateInfoRequest |-> Struct(ValidateNegotiateInfoRequest),
    QueryAllocRangesItem |-> Struct(Fixed(<<QueryAllocRangesItem>>)), PipeWaitRequest |-> Struct(PipeWaitRequest),
    SetReparsePointOfOwner |-> Struct(SetReparsePointRequest(TRUE)),
    SetReparsePointOfOther |-> Struct(SetReparsePointRequest(FALSE)),
    FileLevelTrimRequest |-> Struct(FileLevelTrimRequest), OffloadReadRequest |-> Struct(OffloadReadRequest),
    ReqGetDfsReferral |-> Struct(ReqGetDfsReferral), ReqGetDfsReferralEx |-> Struct(ReqGetDfsReferralEx),
    DfsRequestData |-> Struct(DfsRequestData), SrvSnapshotArray |-> Struct(SrvSnapshotArray),
    SrvReadHashRes |-> Struct(SrvReadHashRes), SrvHashRetrieveHashBased |-> Struct(SrvHashRetrieveHashBased),
    SrvHashRetrieveFileBased |-> Struct(SrvHashRetrieveFileBased),
    QueryAllocRangesResult |-> Struct(QueryAllocRangesResult), PipePeekResponse |-> Struct(PipePeekResponse),
    ReferralEntryValueV1 |-> Referral(ReferralEntryValueV1), ReferralEntryValueV2 |-> Referral(ReferralEntryValueV2),
    ReferralEntryValueV3 |-> Referral(ReferralEntryValueV3), ReferralEntryValueV4 |-> Referral(ReferralEntryValueV4)]

InformationLayouts == [
    FileNameInformation |-> Struct(FileNameInformation), FileAllInformation |-> Struct(FileAllInformation),
    FileStreamInformationInner |-> ChainItem(FileStreamInformationInner),
    FileGetEaInformation |-> ChainItem(FileGetEaInformation),
    FileFullEaInformationInner |-> ChainItem(FileFullEaInformationInner),
    FileRenameInformation |-> Struct(FileRenameInformation), FileLinkInformation |-> Struct(FileLinkInformation),
    FileQuotaInformation |-> ChainItem(FileQuotaInformation),
    FileGetQuotaInformation |-> ChainItem(FileGetQuotaInformation),
    FileNotifyInformation |-> ChainItem(FileNotifyInformation),
    FileDirectoryInformation |-> ChainItem(FileDirectoryInformation),
    FileIdBothDirectoryInformation |-> ChainItem(FileIdBothDirectoryInformation),
    FileNamesInformation |-> ChainItem(FileNamesInformation),
    FileFsAttributeInformation |-> Struct(FileFsAttributeInformation),
    FileFsVolumeInformation |-> Struct(FileFsVolumeInformation),
    Sid |-> Struct(Sid), ACE |-> Struct(ACE), AccessObjectAce |-> Struct(AccessObjectAce),
    AccessObjectCallbackAce |-> Struct(AccessObjectCallbackAce), AccessCallbackAce |-> Struct(AccessCallbackAce),
    SystemResourceAttributeAce |-> Struct(SystemResourceAttributeAce),
    ACL |-> Struct(ACL), SecurityDescriptor |-> Struct(SecurityDescriptor)]

OtherLayouts == [
    FileAlternateNameInformation |-> Struct(FileAlternateNameInformation),
    FileNormalizedNameInformation |-> Struct(FileNormalizedNameInformation),
    FileShortNameInformation |-> Struct(FileShortNameInformation),
    FileAttributeTagInformation |-> Struct(FileAttributeTagInformation),
    FileCompressionInformation |-> Struct(FileCompressionInformation),
    FileIdInformation |-> Struct(FileIdInformation),
    FileNetworkOpenInformation |-> Struct(FileNetworkOpenInformation),
    FilePipeLocalInformation |-> Struct(FilePipeLocalInformation),
    FilePipeRemoteInformation |-> Struct(FilePipeRemoteInformation),
    FilePipeInformation |-> Struct(FilePipeInformation),
    FileEndOfFileInformation |-> Struct(FileEndOfFileInformation),
    FileDispositionInformation |-> Struct(FileDispositionInformation),
    FileAllocationInformation |-> Struct(FileAllocationInformation),
    FileValidDataLengthInformation |-> Struct(FileValidDataLengthInformation),
    FileFsControlInformation |-> Struct(FileFsControlInformation),
    FileFsDeviceInformation |-> Struct(FileFsDeviceInformation),
    FileFsFullSizeInformation |-> Struct(FileFsFullSizeInformation),
    FileFsObjectIdInformation |-> Struct(FileFsObjectIdInformation),
    FileFsSectorSizeInformation |-> Struct(FileFsSectorSizeInformation),
    FileFsSizeInformation |-> Struct(FileFsSizeInformation),
    SystemMandatoryLabelAce |-> Struct(SystemMandatoryLabelAce),
    DurableHandleRequest |-> Struct(DurableHandleRequest),
    DurableHandleResponse |-> Struct(DurableHandleResponse),
    DurableHandleReconnect |-> Struct(DurableHandleReconnect), AllocationSize |-> Struct(AllocationSize),
    TimewarpToken |-> Struct(TimewarpToken), QueryOnDiskIdReq |-> Struct(QueryOnDiskIdReq),
    DurableHandleRequestV2 |-> Struct(DurableHandleRequestV2),
    DurableHandleReconnectV2 |-> Struct(DurableHandleReconnectV2),
    QueryMaximalAccessResponse |-> Struct(QueryMaximalAccessResponse),
    QueryOnDiskIdResp |-> Struct(QueryOnDiskIdResp), DH2QResp |-> Struct(DH2QResp),
    SrvRequestResumeKey |-> Struct(SrvRequestResumeKey), SrvCopychunkResponse |-> Struct(SrvCopychunkResponse),
    ValidateNegotiateInfoResponse |-> Struct(ValidateNegotiateInfoResponse),
    SrvEnumerateSnapshotsResponse |-> Struct(SrvEnumerateSnapshotsResponse),
    FileLevelTrimResponse |-> Struct(FileLevelTrimResponse),
    OffloadReadResponse |-> Struct(OffloadReadResponse),
    FileFullDirectoryInformation |-> ChainItem(FileFullDirectoryInformation),
    FileId64ExtdBothDirectoryInformation |-> ChainItem(FileId64ExtdBothDirectoryInformation),
    FileId64ExtdDirectoryInformation |-> ChainItem(FileId64ExtdDirectoryInformation),
    FileIdAllExtdBothDirectoryInformation |-> ChainItem(FileIdAllExtdBothDirectoryInformation),
    FileIdAllExtdDirectoryInformation |-> ChainItem(FileIdAllExtdDirectoryInformation),
    FileIdExtdDirectoryInformation |-> ChainItem(FileIdExtdDirectoryInformation),
    FileIdFullDirectoryInformation |-> ChainItem(FileIdFullDirectoryInformation),
    FileBothDirectoryInformation |-> ChainItem(FileBothDirectoryInformation),
    TransportCapabilities |-> Struct(Fixed(<<TransportCapabilities>>)),
    ServerToClientNotification |-> ServerToClientNotification,
    InterfaceV4 |-> ChainItem(NetworkInterfaceInfo(SocketAddrStorageV4)),
    InterfaceV6 |-> ChainItem(NetworkInterfaceInfo(SocketAddrStorageV6)),
    ReferralEntryV1 |-> Struct(ReferralEntry(1)), ReferralEntryV4 |-> Struct(ReferralEntry(4))]

RpcLayouts == [
    DcRpcCoPktBind |-> Struct(DcRpcCoPktBind), DcRpcCoPktBindAck |-> Struct(DcRpcCoPktBindAck),
    DcRpcCoPktBindNak |-> Struct(DcRpcCoPktBindNak), DcRpcCoPktRequest |-> Struct(DcRpcCoPktRequest),
    DcRpcCoPktResponse |-> Struct(DcRpcCoPktResponse), DcRpcCoPktFault |-> Struct(DcRpcCoPktFault)]

Layouts == RpcLayouts @@ MessageLayouts @@ FileLayouts @@ IoctlLayouts @@ InformationLayouts @@ OtherLayouts

VARIABLE codec

Parts(s, kind) == {s.parts[i] : i \in {j \in DOMAIN s.parts : s.parts[j].kind = kind}}
Named(s, kind) == {p.name : p \in Parts(s, kind)}

(***************************************************************************)
(* The values the program may write: at most two bodies of a structure do  *)
(* not have exactly one element, and a checked field has a value that its  *)
(* own reader accepts.                                                     *)
(***************************************************************************)
Values(s) ==
    {[n \in Named(s, "body") |-> IF n = a THEN x ELSE IF n = b THEN y ELSE 1]
        : a, b \in Named(s, "body"), x, y \in Counts}
    \cup (IF Named(s, "body") = {} THEN {<<>>} ELSE {})
Allowed(s, v) == \A b \in Parts(s, "body") : v[b.name] >= b.least /\ v[b.name] <= b.most
TagValues(s) ==
    {t \in [Named(s, "tag") -> UNION {p.accepts : p \in Parts(s, "tag")}] :
        \A p \in Parts(s, "tag") : t[p.name] \in p.accepts}

(* Structure s, called l, with bodies v and checked fields t, and what its reader tries. *)
Writes(l, s, tries, v, t) ==
    [layout |-> l, struct |-> s, tries |-> tries, holds |-> v, tags |-> t, phase |-> "write", at |-> 1,
     pos |-> s.start, end |-> 0, fields |-> <<>>, wrote |-> <<>>,
     variant |-> 1, seen |-> <<>>, got |-> <<>>]

NoStructure == Writes("", Struct(<<>>), <<>>, <<>>, <<>>)

Tries(l, s) ==
    LET names == IF s.tried = <<>> THEN <<l>> ELSE s.tried
    IN  [i \in DOMAIN names |-> [name |-> names[i], parts |-> Layouts[names[i]].parts]]

CodecInit ==
    \E l \in DOMAIN Layouts : \E s \in {Layouts[l]} : \E v \in Values(s), t \in TagValues(s) :
        Allowed(s, v) /\ codec = Writes(l, s, Tries(l, s), v, t)

(* The first number a field of w bytes cannot hold; wider fields hold all. *)
TooLarge(w) == IF w = 1 THEN 256 ELSE 65536
Fits(v, w) == w >= 4 \/ v < TooLarge(w)
Stored(v, w, how) == IF how = "as" /\ w < 4 THEN v % TooLarge(w) ELSE v
AlignUp(n, k) == ((n + k - 1) \div k) * k

-----------------------------------------------------------------------------
(* The writer. *)

Writing == codec.phase = "write" /\ codec.at <= Len(codec.struct.parts)
Out == codec.struct.parts[codec.at]
BodyNamed(n) == CHOOSE b \in Parts(codec.struct, "body") : b.name = n
Amount(b) == codec.holds[b.name] * b.width + b.tail
Advance(to) == [codec EXCEPT !.at = @ + 1, !.pos = to]

WriteBytes ==
    /\ Writing /\ Out.kind = "bytes"
    /\ codec' = Advance(codec.pos + Out.width)

(* A marker writes zero and remembers where. *)
FieldValue(part) ==
    CASE part.kind = "marker" -> 0
      [] part.kind = "tag" -> codec.tags[part.name]
      [] part.kind = "calc" /\ part.in = "elements" -> codec.holds[part.of]
      [] OTHER -> codec.holds[part.of] * BodyNamed(part.of).width

WriteField ==
    /\ Writing /\ Out.kind \in {"marker", "calc", "tag"}
    /\ LET v == Stored(FieldValue(Out), Out.width, Out.how)
       IN  codec' = IF Fits(v, Out.width)
                    THEN [Advance(codec.pos + Out.width) EXCEPT
                            !.fields = @ @@ (Out.name :> [at |-> codec.pos, value |-> v, width |-> Out.width])]
                    ELSE [codec EXCEPT !.phase = IF Out.how = "unwrap" THEN "panicked" ELSE "refused"]

WriteAlign ==
    /\ Writing /\ Out.kind = "align"
    /\ codec' = Advance(IF Out.how = "read" THEN codec.pos ELSE AlignUp(codec.pos, Out.width))

(* write_back: a value that does not fit its marker refuses the message. *)
Backs(fields, name, v) == name = "" \/ Fits(v, fields[name].width)
WriteBack(fields, name, v) == IF name = "" THEN fields ELSE [fields EXCEPT ![name].value = v]
BaseAt(b) == IF b.base = "" THEN 0 ELSE codec.fields[b.base].at

WriteBody ==
    /\ Writing /\ Out.kind = "body"
    /\ ~(Out.optional /\ codec.holds[Out.name] = 0)
    /\ LET start == AlignUp(codec.pos, Out.alignOut)
           offset == start - BaseAt(Out) + Out.offsetPlus
           size == Amount(Out) + Out.sizePlus
           located == WriteBack(codec.fields, Out.offset, offset)
       IN  codec' = IF Backs(codec.fields, Out.offset, offset) /\ Backs(codec.fields, Out.size, size)
                    THEN [Advance(start + Amount(Out)) EXCEPT
                            !.fields = WriteBack(located, Out.size, size),
                            !.wrote = @ @@ (Out.name :> [at |-> start, len |-> Amount(Out)])]
                    ELSE [codec EXCEPT !.phase = "refused"]

SkipBody ==
    /\ Writing /\ Out.kind = "body"
    /\ Out.optional /\ codec.holds[Out.name] = 0
    /\ codec' = Advance(codec.pos)

Sent ==
    /\ codec.phase = "write" /\ codec.at > Len(codec.struct.parts)
    /\ codec' = [codec EXCEPT !.phase = "read", !.at = 1, !.end = codec.pos,
                              !.pos = codec.struct.start]

-----------------------------------------------------------------------------
(* The reader. *)

Expected == codec.tries[codec.variant]
Reading == codec.phase = "read" /\ codec.at <= Len(Expected.parts)
In == Expected.parts[codec.at]

(* A variant that cannot be read gives way to the next one. *)
Unread == IF codec.variant < Len(codec.tries)
          THEN [codec EXCEPT !.variant = @ + 1, !.at = 1, !.seen = <<>>, !.got = <<>>,
                             !.pos = codec.struct.start]
          ELSE [codec EXCEPT !.phase = "unreadable"]

(* What is in the stream at p: a field written there, or other bytes. *)
FieldAt(p, w) == {n \in DOMAIN codec.fields : codec.fields[n].at = p /\ codec.fields[n].width = w}
ValueAt(p, w) == IF FieldAt(p, w) = {} THEN {0, 1} ELSE {codec.fields[n].value : n \in FieldAt(p, w)}

ReadBytes ==
    /\ Reading /\ In.kind = "bytes"
    /\ codec' = IF codec.pos + In.width > codec.end THEN Unread ELSE Advance(codec.pos + In.width)

Accepted(part, v) == part.kind = "tag" => v \in part.accepts

ReadField ==
    /\ Reading /\ In.kind \in {"marker", "calc", "tag"}
    /\ \E v \in ValueAt(codec.pos, In.width) :
        codec' = IF codec.pos + In.width > codec.end \/ ~Accepted(In, v) \/ v % In.multiple # 0
                 THEN Unread
                 ELSE [Advance(codec.pos + In.width) EXCEPT
                        !.seen = @ @@ (In.name :> [at |-> codec.pos, value |-> v])]

ReadAlign ==
    /\ Reading /\ In.kind = "align"
    /\ codec' = Advance(AlignUp(codec.pos, In.width))

Declared(f) == codec.seen[f].value
Sought(b) ==
    CASE b.seek = "start" -> Declared(b.seekBy)
      [] b.seek = "mark" /\ (b.seekIf = "" \/ Declared(b.seekIf) > 0) ->
            codec.seen[b.seekOn].at + Declared(b.seekBy) - b.seekMinus
      [] OTHER -> codec.pos

(* A value that ends by itself ends where it was written to end. *)
EndsBySelf(start) ==
    LET here == {n \in DOMAIN codec.wrote : codec.wrote[n].at = start /\ codec.wrote[n].len > 0}
    IN  IF here = {} THEN 0 ELSE codec.wrote[CHOOSE n \in here : TRUE].len
Extent(b, start) ==
    CASE b.limit = "count" -> Declared(b.field) * b.width + b.tail
      [] b.limit = "bytes" -> Declared(b.field) - b.minus
      [] b.limit = "eof" -> codec.end - start
      [] OTHER -> EndsBySelf(start)
Absent(b) == b.shown # "" /\ Declared(b.shown) = 0

ReadBody ==
    /\ Reading /\ In.kind = "body" /\ ~Absent(In)
    /\ LET start == AlignUp(Sought(In), In.alignIn)
           len == Extent(In, start)
       IN  codec' = IF (In.nonempty /\ len = 0) \/ len < 0 \/ start + len > codec.end
                    THEN Unread
                    ELSE [Advance(start + len) EXCEPT
                            !.got = @ @@ (In.name :> [at |-> start, len |-> len])]

PassBody ==
    /\ Reading /\ In.kind = "body" /\ Absent(In)
    /\ codec' = Advance(codec.pos)

Decoded ==
    /\ codec.phase = "read" /\ codec.at > Len(Expected.parts)
    /\ codec' = [codec EXCEPT !.phase = "done"]

CodecNext ==
    \/ WriteBytes \/ WriteField \/ WriteAlign \/ WriteBody \/ SkipBody \/ Sent
    \/ ReadBytes \/ ReadField \/ ReadAlign \/ ReadBody \/ PassBody \/ Decoded

CodecSpec == CodecInit /\ [][CodecNext]_codec

-----------------------------------------------------------------------------
(* What the reader found of a structure, and what was written; empty bodies have no place. *)
Contents(bodies) == [n \in {m \in DOMAIN bodies : bodies[m].len > 0} |-> bodies[n]]
HasEmptyName == \E b \in Parts(codec.struct, "body") : b.nonempty /\ codec.holds[b.name] = 0
Wraps == \E f \in Parts(codec.struct, "calc") : f.how = "as" /\ ~Fits(codec.holds[f.of], f.width)

(* A lease that can be either version is read as the first, and so is every device context. *)
ReadAsFirst ==
    \/ codec.layout = "RequestLeaseV2" /\ codec.tags["flags"] = 0
    \/ codec.layout = "SvhdxOpenDeviceContextV2"

(* The paths of these referrals are written with offsets 8 less than they are read with. *)
Shifted == {"ReferralEntryValueV3", "ReferralEntryValueV4"}

(* The reader aligns the results of a BindAck, the writer does not. *)
Unaligned == codec.layout = "DcRpcCoPktBindAck" /\ codec.fields["numResults"].at % 4 # 0

(***************************************************************************)
(* A structure that was written is read back as the same kind of           *)
(* structure, with every body where it was put and as long as it is.  The  *)
(* exceptions: a string in it is empty, a length has wrapped, it is a      *)
(* lease or device context read as the first version, a referral with      *)
(* shifted paths, or a BindAck whose results are not aligned.              *)
(***************************************************************************)
RoundTrip ==
    codec.phase \in {"unreadable", "done"} =>
        \/ HasEmptyName \/ Wraps \/ ReadAsFirst \/ codec.layout \in Shifted \/ Unaligned
        \/ /\ codec.phase = "done"
           /\ Contents(codec.got) = Contents(codec.wrote)
           /\ Expected.name = codec.layout

(***************************************************************************)
(* A peer that goes by the offsets finds every body: an offset is counted  *)
(* from the start of the message, list item or referral it is in.  In the  *)
(* shifted referrals it is 8 less.                                         *)
(***************************************************************************)
PeerFindsBody ==
    codec.phase = "read" =>
        \A b \in Parts(codec.struct, "body") :
            b.offset # "" /\ b.name \in DOMAIN codec.wrote =>
                codec.fields[b.offset].value + (IF codec.layout \in Shifted THEN 8 ELSE 0)
                    = codec.wrote[b.name].at

(***************************************************************************)
(* The size a structure declares is that of its fixed part, with one byte  *)
(* more where a body follows; a lock request counts its first lock, and an *)
(* AppInstanceVersion declares 24 and has 26 bytes.                        *)
(***************************************************************************)
FixedPart == Room(codec.struct.parts) + (IF codec.layout = "LockRequest" THEN LockElement ELSE 0)
Undeclared == IF codec.layout = "AppInstanceVersion" THEN 2 ELSE 0
StructureSizes ==
    codec.struct.declared # 0 =>
        codec.struct.declared + Undeclared \in {FixedPart, FixedPart + 1}

(* The credits of a request are computed from the size it is then written with. *)
Controls == {"SrvCopychunkCopy", "SrvReadHashReq", "NetworkResiliencyRequest", "ValidateNegotiateInfoRequest",
             "ReqGetDfsReferral", "ReqGetDfsReferralEx", "DfsRequestData", "QueryAllocRangesItem",
             "PipeWaitRequest", "SetReparsePointOfOwner", "SetReparsePointOfOther", "FileLevelTrimRequest",
             "OffloadReadRequest", "IoctlBuffer"}
BinSizes ==
    codec.layout \in Controls /\ codec.phase = "read" =>
        get_bin_size(codec.layout, codec.holds) = codec.end

(* What is written is what is read, by this reader and by one that goes by the offsets,   *)
(* and it has the sizes that were declared and paid for, with the exceptions named above. *)
LayoutsAgree == RoundTrip /\ PeerFindsBody /\ StructureSizes /\ BinSizes

(* create.rs, of the context RqLs: "v1+2, request & response are the same".  A lease is   *)
(* read back as the version it was written as.                                           *)
LeaseVersionKept ==
    codec.phase = "done" /\ codec.layout \in {"RequestLeaseV1", "RequestLeaseV2"} =>
        Expected.name = codec.layout
=============================================================================
