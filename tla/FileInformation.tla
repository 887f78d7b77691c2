--------------------------- MODULE FileInformation ---------------------------
(***************************************************************************)
(* The information structures of files, directories and file systems, and  *)
(* the security descriptors, as their codecs lay them out.                 *)
(***************************************************************************)
EXTENDS WireFields

FileTime == 8
Guid == 4 + 2 + 2 + 8
Boolean == 1

(* The upper half of an access mask is the same for all kinds of object. *)
AccessMaskWith(bs) == Bits(bs \o <<5, 3, 1, 1, 2, 4>>)
FileAccessMask == AccessMaskWith(<<9, 7>>)
FileAttributes == Bits(<<3, 1, 2, 1, 9, 1, 4, 1, 1, 9>>)

-----------------------------------------------------------------------------
(* Files. *)

FileBasicInformation == Fixed(<<FileTime, FileTime, FileTime, FileTime, FileAttributes, 4>>)
FileStandardInformation == Fixed(<<8, 8, 4, Boolean, Boolean, 2>>)
FileInternalInformation == Fixed(<<8>>)
FileEaInformation == Fixed(<<4>>)
FileAccessInformation == Fixed(<<FileAccessMask>>)
FilePositionInformation == Fixed(<<8>>)
FileModeInformation == Fixed(<<Bits(<<1, 5, 6, 1, 19>>)>>)
FileAlignmentInformation == Fixed(<<4>>)

FileNameInformation == <<Length("nameLength", 4, "name"), SizedWideString("name", "nameLength")>>
FileAlternateNameInformation == FileNameInformation
FileNormalizedNameInformation == FileNameInformation
FileShortNameInformation == FileNameInformation

FileAllInformation ==
    FileBasicInformation \o FileStandardInformation \o FileInternalInformation \o FileEaInformation
    \o FileAccessInformation \o FilePositionInformation \o FileModeInformation
    \o FileAlignmentInformation \o FileNameInformation

ReparseTag == 4
FileAttributeTagInformation == Fixed(<<FileAttributes, ReparseTag>>)
FileCompressionFormat == 2
FileCompressionInformation == Fixed(<<8, FileCompressionFormat, 1, 1, 1, 3>>)
FileIdInformation == Fixed(<<8, 16>>)
FileNetworkOpenInformation == Fixed(<<FileTime, FileTime, FileTime, FileTime, 8, 8, FileAttributes, 4>>)
NamedPipeType == 4
NamedPipeConfiguration == 4
NamedPipeState == 4
NamedPipeEnd == 4
FilePipeLocalInformation ==
    Fixed(<<NamedPipeType, NamedPipeConfiguration, 4, 4, 4, 4, 4, 4, NamedPipeState, NamedPipeEnd>>)
FilePipeRemoteInformation == Fixed(<<FileTime, 4>>)
PipeReadMode == 4
PipeCompletionMode == 4
FilePipeInformation == Fixed(<<PipeReadMode, PipeCompletionMode>>)

FileStreamInformationInner ==
    <<Length("nameLength", 4, "name"), Bytes(8), Bytes(8), SizedWideString("name", "nameLength")>>
FileGetEaInformation == <<Count("nameLength", 1, "name"), TakePlus(NullTerminated("name", 1), "nameLength", 1)>>
EaFlags == Bits(<<7, 1>>)
FileFullEaInformationInner ==
    <<Bytes(EaFlags), Count("nameLength", 1, "name"), As(Count("valueLength", 2, "value")),
      NullTerminated("name", 1), Counted(Body("value", 1), "valueLength")>>

FileEndOfFileInformation == Fixed(<<8>>)
FileDispositionInformation == Fixed(<<Boolean>>)
FileAllocationInformation == Fixed(<<8>>)
FileValidDataLengthInformation == Fixed(<<8>>)
FileRenameInformation ==
    Fixed(<<Boolean, 1, 2, 4, 8>>) \o <<Length("nameLength", 4, "name"), SizedWideString("name", "nameLength")>>
FileLinkInformation ==
    Fixed(<<Boolean, 1, 2, 4, 8>>) \o <<Length("nameLength", 4, "name"), SizedWideString("name", "nameLength")>>

(* An identifier: revision, count and 6 bytes of authority before the sub-authorities. *)
SidBody(n) == [Body(n, 4) EXCEPT !.tail = 8]
Sid == <<Bytes(1), Count("subAuthorityCount", 1, "subAuthority"), Bytes(6),
         Counted(Body("subAuthority", 4), "subAuthorityCount")>>
FileQuotaInformation ==
    <<PosMarker("sidLength", 4)>> \o Fixed(<<FileTime, 8, 8, 8>>)
    \o <<write_size(Take(SidBody("sid"), "sidLength"), "sidLength")>>
FileGetQuotaInformation ==
    <<PosMarker("sidLength", 4), write_size(Take(SidBody("sid"), "sidLength"), "sidLength")>>

NotifyAction == 4
FileNotifyInformation ==
    <<Bytes(NotifyAction), Length("nameLength", 4, "name"), SizedWideString("name", "nameLength")>>

-----------------------------------------------------------------------------
(* Directory entries. *)

FileName83 == 12 * 2
FileDirectoryInformation ==
    Fixed(<<4, FileTime, FileTime, FileTime, FileTime, 8, 8, FileAttributes>>)
    \o <<Length("nameLength", 4, "name"), SizedWideString("name", "nameLength")>>

(* The size of the attributes, or the reparse tag, precedes what an entry kind adds. *)
query_dir_type(extra) ==
    Fixed(<<4, FileTime, FileTime, FileTime, FileTime, 8, 8, FileAttributes>>)
    \o <<Length("nameLength", 4, "name"), Bytes(4)>> \o Fixed(extra)
    \o <<SizedWideString("name", "nameLength")>>

FileFullDirectoryInformation == query_dir_type(<<>>)
FileId64ExtdBothDirectoryInformation == query_dir_type(<<4, 8, 1, 1, FileName83>>)
FileId64ExtdDirectoryInformation == query_dir_type(<<4, 8>>)
FileIdAllExtdBothDirectoryInformation == query_dir_type(<<4, 8, 16, 1, 1, FileName83>>)
FileIdAllExtdDirectoryInformation == query_dir_type(<<4, 8, 16>>)
FileIdBothDirectoryInformation == query_dir_type(<<1, 1, FileName83, 2, 8>>)
FileIdExtdDirectoryInformation == query_dir_type(<<4, 16>>)
FileIdFullDirectoryInformation == query_dir_type(<<4, 8>>)
FileBothDirectoryInformation == query_dir_type(<<1, 1, FileName83>>)
FileNamesInformation ==
    <<Bytes(4), Length("nameLength", 4, "name"), SizedWideString("name", "nameLength")>>

-----------------------------------------------------------------------------
(* File systems. *)

FileSystemAttributes == Bits(<<9, 6, 14, 3>>)
FileFsAttributeInformation ==
    Fixed(<<FileSystemAttributes, 4>>)
    \o <<As(Length("nameLength", 4, "name")), SizedWideString("name", "nameLength")>>
FileSystemControlFlags == Bits(<<3, 1, 6, 22>>)
FileFsControlInformation == Fixed(<<8, 8, 8, 8, 8, FileSystemControlFlags>>)
FsDeviceType == 4
FsDeviceCharacteristics == Bits(<<7, 1, 1, 3, 2, 3, 2, 13>>)
FileFsDeviceInformation == Fixed(<<FsDeviceType, FsDeviceCharacteristics>>)
FileFsFullSizeInformation == Fixed(<<8, 8, 8, 4, 4>>)
FileFsObjectIdInformation == Fixed(<<Guid, 48>>)
SectorSizeInfoFlags == Bits(<<4, 28>>)
FileFsSectorSizeInformation == Fixed(<<4, 4, 4, 4, SectorSizeInfoFlags, 4, 4>>)
FileFsSizeInformation == Fixed(<<8, 8, 4, 4>>)
FileFsVolumeInformation ==
    Fixed(<<FileTime, 4>>) \o <<As(Length("labelLength", 4, "label"))>> \o Fixed(<<Boolean, 1>>)
    \o <<SizedWideString("label", "labelLength")>>

-----------------------------------------------------------------------------
(* Security descriptors. *)

AccessMask == AccessMaskWith(<<16>>)
ObjectAccessMask == AccessMaskWith(<<2, 1, 1, 2, 2, 1, 7>>)
MandatoryLabelAccessMask == AccessMaskWith(<<3, 13>>)
ObjectAceFlags == Bits(<<2, 30>>)
AceFlags == Bits(<<5, 1, 2>>)
AceType == 1

(* An entry counts its own header of 4 bytes. *)
ACE == <<Bytes(AceType), Bytes(AceFlags), PosMarker("aceSize", 2),
         write_size_plus(TakePlus(Body("value", 4), "aceSize", -4), "aceSize", 4)>>
AccessAce == Fixed(<<AccessMask>>) \o <<SidBody("sid")>>

(* Two bits say which of the two types are there; they are given a byte each here. *)
ObjectTypes ==
    <<Count("objectTypePresent", 1, "objectType"), Count("inheritedTypePresent", 1, "inheritedType"),
      Bytes(ObjectAceFlags - 2),
      Maybe(WhenPresent(Body("objectType", Guid), "objectTypePresent")),
      Maybe(WhenPresent(Body("inheritedType", Guid), "inheritedTypePresent"))>>
AccessObjectAce == Fixed(<<ObjectAccessMask>>) \o ObjectTypes \o <<SidBody("sid")>>
AccessObjectCallbackAce == AccessObjectAce \o <<UntilEof(Body("applicationData", 1))>>
AccessCallbackAce == AccessAce \o <<UntilEof(Body("applicationData", 1))>>
SystemMandatoryLabelAce == Fixed(<<MandatoryLabelAccessMask>>) \o <<SidBody("sid")>>
FciClaimSecurityAttributes == Bits(<<6, 2, 2, 6>>)
ClaimSecurityAttributeRelativeV1 ==
    Fixed(<<4, 2, 2, FciClaimSecurityAttributes, 4>>) \o <<UntilEof(Body("value", 1))>>
SystemResourceAttributeAce == AccessAce \o ClaimSecurityAttributeRelativeV1

AclRevision == 1
ACL == Fixed(<<AclRevision, 1>>)
       \o <<PosMarker("aclSize", 2), As(Count("aceCount", 2, "ace")), Bytes(2),
            write_size_plus(Counted(Body("ace", 20), "aceCount"), "aclSize", 8)>>

SecurityDescriptorControl == Bits(<<16>>)
SecurityDescriptor ==
    <<PosMarker("begin", 0)>> \o Fixed(<<1, 1, SecurityDescriptorControl>>)
    \o <<PosMarker("ownerOffset", 4), PosMarker("groupOffset", 4),
         PosMarker("saclOffset", 4), PosMarker("daclOffset", 4),
         WhenPresent(write_roff_b(SidBody("owner"), "ownerOffset", "begin"), "ownerOffset"),
         WhenPresent(write_roff_b(SidBody("group"), "groupOffset", "begin"), "groupOffset"),
         WhenPresent(write_roff_b(Body("sacl", 28), "saclOffset", "begin"), "saclOffset"),
         WhenPresent(write_roff_b(Body("dacl", 28), "daclOffset", "begin"), "daclOffset")>>
=============================================================================
