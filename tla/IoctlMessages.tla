---------------------------- MODULE IoctlMessages ----------------------------
(* IOCTL, the file system controls it carries, and DFS referrals. *)
EXTENDS FileMessages

IoctlRequestFlags == Bits(<<1, 31>>)
IoctlRequest ==
    Message(57, Fixed(<<2, 4, FileId>>)
        \o <<PosMarker("inputOffset", 4), PosMarker("inputCount", 4), Bytes(4),
             Tag("outputOffset", 4, {0}), Tag("outputCount", 4, {0}), Bytes(4), Bytes(IoctlRequestFlags), Bytes(4),
             write_aoff_size(Take(Body("buffer", 1), "inputCount"), "inputOffset", "inputCount")>>)

(* The input buffer is always empty. *)
IoctlResponse ==
    Message(49, Fixed(<<2, 4, FileId>>)
        \o <<PosMarker("inputOffset", 4), Tag("inputCount", 4, {0}),
             PosMarker("outputOffset", 4), Length("outputCount", 4, "output"), Bytes(4), Bytes(4),
             SeekStart(write_aoff(Counted(Body("input", 0), "inputCount"), "inputOffset"), "inputOffset"),
             SeekStart(write_aoff(Counted(Body("output", 1), "outputCount"), "outputOffset"), "outputOffset")>>)
IoctlBuffer == <<UntilEof(Body("buffer", 1))>>

-----------------------------------------------------------------------------
(* Requests of file system controls. *)

SrvCopychunkItem == 8 + 8 + 4 + 4
SrvCopychunkCopy ==
    Fixed(<<24>>) \o <<Count("chunkCount", 4, "chunks"), Bytes(4),
                       Counted(Body("chunks", SrvCopychunkItem), "chunkCount")>>
SrvHashRetrievalType == 4
SrvReadHashReq == <<Tag("hashType", 4, {1}), Tag("hashVersion", 4, {1, 2}), Bytes(SrvHashRetrievalType)>>
NetworkResiliencyRequest == Fixed(<<4, 4>>)
ValidateNegotiateInfoRequest ==
    Fixed(<<4, Guid, NegotiateSecurityMode>>)
    \o <<Count("dialectCount", 2, "dialects"), Counted(Body("dialects", Dialect), "dialectCount")>>
QueryAllocRangesItem == 8 + 8
PipeWaitRequest ==
    Fixed(<<8>>) \o <<As(Length("nameLength", 4, "name"))>> \o Fixed(<<Boolean, 1>>)
    \o <<SizedWideString("name", "nameLength")>>

(* Third-party tags, the ones without the high bit, have a guid. *)
SetReparsePointRequest(own) ==
    <<Tag("reparseTag", 4, {IF own THEN 1 ELSE 0}), As(Count("dataLength", 4, "data"))>>
    \o Fixed(IF own THEN <<>> ELSE <<Guid>>) \o <<Counted(Body("data", 1), "dataLength")>>
FileLevelTrimRange == 8 + 8
FileLevelTrimRequest ==
    Fixed(<<4>>) \o <<As(Count("numRanges", 4, "ranges")), Counted(Body("ranges", FileLevelTrimRange), "numRanges")>>
OffloadReadRequest == <<Tag("size", 4, {32})>> \o Fixed(<<4, 4, 4, 8, 8>>)

ReferralLevel == 2
ReqGetDfsReferral == Fixed(<<ReferralLevel>>) \o <<NullTerminated("fileName", 2)>>
DfsRequestFlags == Bits(<<1, 15>>)
ReqGetDfsReferralEx ==
    Fixed(<<2, DfsRequestFlags>>)
    \o <<PosMarker("dataLength", 4), write_size(Take(Body("requestData", 1), "dataLength"), "dataLength")>>
DfsRequestData ==
    <<Length("fileNameLength", 2, "fileName"), SizedWideString("fileName", "fileNameLength"),
      Length("siteNameLength", 2, "siteName"), SizedWideString("siteName", "siteNameLength")>>

(* The size of a request for referrals, the terminator of its name included. *)
dfs_bin_size(v) == 2 + (v.fileName + 1) * 2

(***************************************************************************)
(* get_bin_size: the size of a request as it is computed for the credits,  *)
(* before anything is written.  v: the elements of each body.              *)
(***************************************************************************)
get_bin_size(l, v) ==
    CASE l = "SrvCopychunkCopy" -> 24 + 4 + 4 + v.chunks * (8 * 2 + 4 * 2)
      [] l = "SrvReadHashReq" -> 4 * 3
      [] l = "NetworkResiliencyRequest" -> 4 * 2
      [] l = "ValidateNegotiateInfoRequest" -> 4 + 16 + 2 + 2 + v.dialects * 2
      [] l = "ReqGetDfsReferral" -> dfs_bin_size(v)
      [] l = "ReqGetDfsReferralEx" -> 2 * 2 + 4 + v.requestData
      [] l = "DfsRequestData" -> 2 * 2 + v.fileName * 2 + v.siteName * 2
      [] l = "QueryAllocRangesItem" -> 8 * 2
      [] l = "PipeWaitRequest" -> 8 + 4 + 1 + 1 + v.name * 2
      [] l = "SetReparsePointOfOwner" -> 4 + 4 + 0 + v.data
      [] l = "SetReparsePointOfOther" -> 4 + 4 + 16 + v.data
      [] l = "FileLevelTrimRequest" -> 4 + 4 + v.ranges * 16
      [] l = "OffloadReadRequest" -> 4 * 4 + 8 * 2
      [] l = "IoctlBuffer" -> v.buffer

-----------------------------------------------------------------------------
(* Answers to file system controls. *)

SrvSnapshotArray ==
    Fixed(<<4, 4>>)
    \o <<PosMarker("arraySize", 4), write_size(Take(NullTerminated("snapShots", 2), "arraySize"), "arraySize")>>
SrvRequestResumeKey == Fixed(<<24>>) \o <<Tag("contextLength", 4, {0})>>
SrvCopychunkResponse == Fixed(<<4, 4, 4>>)
SrvReadHashRes ==
    <<Tag("hashType", 4, {1}), Tag("hashVersion", 4, {1, 2})>> \o Fixed(<<FileTime, 8, 4, 4, 2>>)
    \o <<Count("nameLength", 2, "name"), Counted(Body("name", 1), "nameLength")>>
SrvHashRetrieveHashBased ==
    Fixed(<<8>>) \o <<Count("bufferLength", 4, "blob"), Bytes(4), Counted(Body("blob", 1), "bufferLength")>>
SrvHashRetrieveFileBased ==
    Fixed(<<8, 8>>) \o <<Count("bufferLength", 4, "buffer"), Bytes(4), Counted(Body("buffer", 1), "bufferLength")>>

(* Both forms of an address take up 128 bytes. *)
SocketAddrStorageV4 == 2 + 2 + 4 + (128 - (2 + 2 + 4))
SocketAddrStorageV6 == 2 + 2 + 4 + 16 + 4 + (128 - (2 + 2 + 4 + 16 + 4))
NetworkInterfaceCapability == Bits(<<2, 30>>)
NetworkInterfaceInfo(address) == Fixed(<<4, NetworkInterfaceCapability, 4, 8, address>>)
ValidateNegotiateInfoResponse == Fixed(<<4, Guid, NegotiateSecurityMode, Dialect>>)
QueryAllocRangesResult == <<UntilEof(Body("values", QueryAllocRangesItem))>>
PipePeekResponse ==
    Fixed(<<NamedPipeState>>) \o <<As(Count("dataAvailable", 4, "data")), Bytes(4), Bytes(4),
                                   Counted(Body("data", 1), "dataAvailable")>>
SrvEnumerateSnapshotsResponse == SrvSnapshotArray
FileLevelTrimResponse == Fixed(<<4>>)
OffloadReadResponse == <<Tag("size", 4, {528})>> \o Fixed(<<Boolean, 1, 2, 8, 512>>)

-----------------------------------------------------------------------------
(* DFS referrals.  An answer is only ever read, but its entries are written too. *)

ReferralHeaderFlags == Bits(<<3, 29>>)
ReferralEntry(version) ==
    <<Tag("version", 2, {version}), PosMarker("size", 2), write_size_plus(Body("value", 1), "size", 4)>>
DfsServerType == 2
ReferralEntryValueV1 == Fixed(<<DfsServerType, 2>>) \o <<NullTerminated("shareName", 2)>>

(* Three strings located from the start of a value; plus and less: what an offset is written and read with. *)
DfsStrings(plus, less) ==
    [i \in 1..3 |->
        LET n == <<"path", "alternatePath", "networkAddress">>[i]
            o == <<"pathOffset", "alternateOffset", "addressOffset">>[i]
        IN  SeekFrom(write_roff_b_plus(NullTerminated(n, 2), o, "begin", plus), "begin", o, less)]
DfsOffsets == <<PosMarker("pathOffset", 2), PosMarker("alternateOffset", 2), PosMarker("addressOffset", 2)>>
ReferralEntryValueV2 ==
    <<PosMarker("begin", 0)>> \o Fixed(<<DfsServerType, 2, 4, 4>>) \o DfsOffsets \o DfsStrings(4, 4)
ReferralEntryFlags == Bits(<<2, 14>>)
EntryV3V4DfsPaths == <<PosMarker("begin", 0)>> \o DfsOffsets \o Fixed(<<16>>) \o DfsStrings(4, 4 + 8)
ReferralEntryValueV3 == Fixed(<<DfsServerType, ReferralEntryFlags, 4>>) \o EntryV3V4DfsPaths
ReferralEntryFlagsV4 == Bits(<<3, 13>>)
ReferralEntryValueV4 == Fixed(<<DfsServerType, ReferralEntryFlagsV4, 4>>) \o EntryV3V4DfsPaths

=============================================================================
