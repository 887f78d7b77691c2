----------------------------- MODULE FileMessages -----------------------------
(* The messages that open, use and close files, and their create contexts. *)
EXTENDS SmbMessages

FileId == 8 + 8

-----------------------------------------------------------------------------
(* CREATE and CLOSE. *)

OplockLevel == 1
LeaseState == Bits(<<3, 29>>)
ImpersonationLevel == 4
CreateDisposition == 4
CreateOptions == Bits(<<7, 1, 10, 2, 4, 8>>)
ShareAccessFlags == Bits(<<3, 29>>)
CreateRequest ==
    Message(57, Fixed(<<1, OplockLevel, ImpersonationLevel, 8, 8, FileAccessMask, FileAttributes,
                        ShareAccessFlags, CreateDisposition, CreateOptions>>)
        \o <<PosMarker("nameOffset", 2), Length("nameLength", 2, "name"),
             PosMarker("contextsOffset", 4), PosMarker("contextsLength", 4),
             AlignBefore(write_aoff(SizedWideString("name", "nameLength"), "nameOffset"), 8),
             AlignBefore(write_roff_size(Take(Body("contexts", 24), "contextsLength"),
                                         "contextsOffset", "contextsLength"), 8)>>)
CreateResponseFlags == Bits(<<1, 7>>)
CreateAction == 4
CreateResponse ==
    Message(89, Fixed(<<OplockLevel, CreateResponseFlags, CreateAction, FileTime, FileTime, FileTime, FileTime,
                        8, 8, FileAttributes, 4, FileId>>)
        \o <<Multiple(PosMarker("contextsOffset", 4), 8), PosMarker("contextsLength", 4),
             SeekStart(write_roff_size(Take(Body("contexts", 24), "contextsLength"),
                                       "contextsOffset", "contextsLength"), "contextsOffset")>>)

(* Mutant: the reader takes the offset of the name from where the offset is, not from the item. *)
CreateContextUnshifted ==
    ChainItem(<<PosMarker("nameOffset", 2), Unwrap(Count("nameLength", 2, "name")), Bytes(2),
        Multiple(PosMarker("dataOffset", 2), 8), PosMarker("dataLength", 4),
        AlignBefore(SeekFrom(write_roff_plus(Counted(Body("name", 1), "nameLength"), "nameOffset", 4),
            "nameOffset", "nameOffset", 0), 8),
        AlignOut(SeekFromIf(write_roff_size_b_plus(Take(Body("data", 1), "dataLength"),
            "dataOffset", "dataLength", "nameOffset", 4), "nameOffset", "dataOffset", 4, "dataLength"), 8)>>)

(* A context is an item of a chained list; its offsets count the list's own prefix of 4 bytes. *)
CreateContext ==
    ChainItem(<<PosMarker("nameOffset", 2), Unwrap(Count("nameLength", 2, "name")), Bytes(2),
        Multiple(PosMarker("dataOffset", 2), 8), PosMarker("dataLength", 4),
        AlignBefore(SeekFrom(write_roff_plus(Counted(Body("name", 1), "nameLength"), "nameOffset", 4),
            "nameOffset", "nameOffset", 4), 8),
        AlignOut(SeekFromIf(write_roff_size_b_plus(Take(Body("data", 1), "dataLength"),
            "dataOffset", "dataLength", "nameOffset", 4), "nameOffset", "dataOffset", 4, "dataLength"), 8)>>)

DurableHandleRequest == Fixed(<<16>>)
DurableHandleResponse == Fixed(<<8>>)
DurableHandleReconnect == Fixed(<<FileId>>)
QueryMaximalAccessRequest == <<Maybe(UntilEof(Body("timestamp", FileTime)))>>
AllocationSize == Fixed(<<8>>)
TimewarpToken == Fixed(<<FileTime>>)
LeaseFlags == Bits(<<2, 1, 29>>)
RequestLeaseV1 ==
    Struct(Fixed(<<16, LeaseState>>) \o <<Tag("flags", LeaseFlags, {0}), Tag("duration", 8, {0})>>)
RequestLeaseV2 ==
    Struct(Fixed(<<16, LeaseState>>) \o <<Tag("flags", LeaseFlags, {0, 1}), Tag("duration", 8, {0})>>
           \o Fixed(<<16, 2, 2>>))
QueryOnDiskIdReq == <<>>
DurableHandleV2Flags == Bits(<<1, 1, 30>>)
DurableHandleRequestV2 == Fixed(<<4, DurableHandleV2Flags, 8, Guid>>)
DurableHandleReconnectV2 == Fixed(<<FileId, Guid, DurableHandleV2Flags>>)
AppInstanceId == Sized(20, Fixed(<<2, Guid>>))
AppInstanceVersion == Sized(24, Fixed(<<2, 2, 4, 8, 8>>))
SvhdxFixed == <<4, 1, 1, 2, Guid, 4, 4, 8, 2, 126>>
SvhdxOpenDeviceContextV1 == Struct(Fixed(SvhdxFixed))
SvhdxOpenDeviceContextV2 == Struct(Fixed(SvhdxFixed \o <<4, 4, 4, 4, 8>>))
QueryMaximalAccessResponse == Fixed(<<4, FileAccessMask>>)
QueryOnDiskIdResp == Fixed(<<8, 8, 16>>)
DH2QResp == Fixed(<<4, DurableHandleV2Flags>>)

CloseFlags == Bits(<<1, 15>>)

CloseRequest == Message(24, Fixed(<<CloseFlags, 4, FileId>>))
CloseResponse ==
    Message(60, Fixed(<<CloseFlags, 4, FileTime, FileTime, FileTime, FileTime, 8, 8, FileAttributes>>))

-----------------------------------------------------------------------------
(* READ, WRITE, FLUSH, LOCK. *)

FlushRequest == Message(24, Fixed(<<2, 4, FileId>>))
FlushResponse == Message(4, Fixed(<<2>>))
ReadFlags == Bits(<<2, 6>>)
CommunicationChannel == 4
ReadRequest == Message(49, Fixed(<<1, ReadFlags, 4, 8, FileId, 4, CommunicationChannel, 4, 2, 2, 1>>))

(* The data is outside the structure; the writer leaves its offset at zero. *)
ReadResponse == Message(17, <<PosMarker("dataOffset", 1)>> \o Fixed(<<1, 4, 4, 4>>))
WriteFlags == Bits(<<2, 30>>)

(* The data is not part of the structure: it follows it, at the offset written here. *)
WriteRequest ==
    Message(49, <<PosMarker("dataOffset", 2)>>
        \o Fixed(<<4, 8, FileId, CommunicationChannel, 4, 2, 2, WriteFlags>>)
        \o <<write_aoff(Body("nothing", 0), "dataOffset")>>)
WriteResponse == Message(17, Fixed(<<2, 4, 4, 2, 2>>))

LockSequence == Bits(<<4, 28>>)
LockFlag == Bits(<<4, 28>>)
LockElement == 8 + 8 + LockFlag + 4
LockRequest ==
    Message(48, <<Count("lockCount", 2, "locks")>> \o Fixed(<<LockSequence, FileId>>)
        \o <<Counted(Body("locks", LockElement), "lockCount")>>)
LockResponse == Message(4, Fixed(<<2>>))

-----------------------------------------------------------------------------
(* QUERY_DIRECTORY, QUERY_INFO, SET_INFO. *)

QueryDirectoryFlags == Bits(<<3, 1, 1, 3>>)
QueryDirectoryRequest ==
    Message(33, Fixed(<<1, QueryDirectoryFlags, 4, FileId>>)
        \o <<PosMarker("nameOffset", 2), Length("nameLength", 2, "name"), Bytes(4),
             SeekStart(write_aoff(SizedWideString("name", "nameLength"), "nameOffset"), "nameOffset")>>)
QueryDirectoryResponse ==
    Message(9, <<PosMarker("outputOffset", 2), Length("outputLength", 4, "output"),
        SeekStart(write_aoff(Take(Body("output", 1), "outputLength"), "outputOffset"), "outputOffset")>>)

InfoType == 1
QueryInfoClass == 1
AdditionalInfo == Bits(<<7, 9, 1, 11, 4>>)
QueryInfoFlags == Bits(<<3, 29>>)
QueryInfoRequest ==
    Message(41, Fixed(<<InfoType, QueryInfoClass, 4>>)
        \o <<PosMarker("inputOffset", 2), Bytes(2), PosMarker("inputLength", 4)>>
        \o Fixed(<<AdditionalInfo, QueryInfoFlags, FileId>>)
        \o <<write_aoff_size(Take(Body("input", 1), "inputLength"), "inputOffset", "inputLength")>>)

(* Either a list of identifiers or one to start from; the list is never empty here. *)
QueryQuotaList ==
    Fixed(<<Boolean, Boolean, 2>>)
    \o <<PosMarker("listLength", 4), PosMarker("sidLength", 4), PosMarker("sidOffset", 4),
         AtLeast(WhenPresent(write_size(Take(Body("list", 20), "listLength"), "listLength"), "listLength"), 1)>>
QueryQuotaSid ==
    Fixed(<<Boolean, Boolean, 2>>)
    \o <<PosMarker("listLength", 4), PosMarker("sidLength", 4), PosMarker("sidOffset", 4),
         AtLeast(WhenPresent(write_size(SidBody("sid"), "sidLength"), "sidLength"), 1)>>
QueryInfoResponse ==
    Message(9, <<PosMarker("outputOffset", 2), PosMarker("outputLength", 4),
        SeekStart(write_aoff_size(Take(Body("output", 1), "outputLength"),
                                  "outputOffset", "outputLength"), "outputOffset")>>)
SetInfoClass == 1
SetInfoRequest ==
    Message(33, Fixed(<<InfoType, SetInfoClass>>)
        \o <<PosMarker("bufferLength", 4), PosMarker("bufferOffset", 2), Bytes(2)>>
        \o Fixed(<<AdditionalInfo, FileId>>)
        \o <<write_aoff_size(Take(Body("data", 1), "bufferLength"), "bufferOffset", "bufferLength")>>)
SetInfoResponse == Message(2, <<>>)

-----------------------------------------------------------------------------
(* CHANGE_NOTIFY and the messages a server sends of its own accord. *)

NotifyFlags == Bits(<<1, 15>>)
NotifyFilter == Bits(<<12, 20>>)
ChangeNotifyRequest == Message(32, Fixed(<<NotifyFlags, 4, FileId, NotifyFilter, 4>>))
ChangeNotifyResponse ==
    Message(9, <<PosMarker("outputOffset", 2), PosMarker("outputLength", 4),
        SeekStart([write_aoff_size(Take(Body("output", 16), "outputLength"), "outputOffset", "outputLength")
                    EXCEPT !.optional = TRUE], "outputOffset")>>)
ServerToClientNotification == Struct(Fixed(<<2, 2, 4, 4>>))

(* All kinds of break message, and the order in which an answer is tried as one. *)
OplockBreakMsg == Message(24, Fixed(<<OplockLevel, 1, 4, FileId>>))
LeaseBreakNotify == Message(44, Fixed(<<2, 4, Guid, LeaseState, LeaseState, 4, 4, 4>>))
LeaseBreakAckResponse == Message(36, Fixed(<<2, 4, Guid, LeaseState, 8>>))
=============================================================================
