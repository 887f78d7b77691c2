----------------------------- MODULE SmbMessages -----------------------------
(***************************************************************************)
(* The messages of SMB2 and the structures nested in them, as the codecs   *)
(* lay them out.  Bit fields and enumerations are their width.             *)
(***************************************************************************)
EXTENDS FileInformation

-----------------------------------------------------------------------------
(* The header and the transforms around a message. *)

Status == 4
HeaderFlags == Bits(<<4, 3, 21, 2, 2>>)
Header ==
    [Struct(Fixed(<<4>>) \o <<StructureSize(64)>>
            \o Fixed(<<2, Status, 2, 2, HeaderFlags, 4, 8, 4, 4, 8, 16>>)) EXCEPT !.declared = 64]
EncryptedHeader == Fixed(<<4, 16, 16, 4, 2, 2, 8>>)
EncryptedMessage == EncryptedHeader \o <<UntilEof(Body("message", 1))>>

CompressionAlgorithm == 2
original_size_required == {1, 2, 3, 5}
CompressedUnchainedMessage ==
    Struct(Fixed(<<4, 4>>) \o <<Tag("algorithm", CompressionAlgorithm, 1..5), Tag("flags", 2, {0}), Bytes(4),
                                UntilEof(Body("data", 1))>>)

(* A chained message: its first item, whose length includes an original size. *)
CompressedChainedMessage ==
    Struct(Fixed(<<4, 4>>)
           \o <<Tag("algorithm", CompressionAlgorithm, original_size_required), Tag("flags", 2, {1}),
                PosMarker("length", 4), Bytes(4),
                write_size_plus(TakePlus(Body("payload", 1), "length", -4), "length", 4)>>)

ErrorId == 4
ErrorResponseContext ==
    <<Align(8), Length("dataLength", 4, "data"), Bytes(ErrorId), Counted(Body("data", 1), "dataLength")>>
ErrorResponse ==
    Message(9, <<Count("contextCount", 1, "data"), Bytes(1), PosMarker("byteCount", 4),
                 write_size(Take(Body("data", 16), "byteCount"), "byteCount")>>)

EchoMessage == Message(4, Fixed(<<2>>))
CancelRequest == Message(4, Fixed(<<2>>))
SMB1NegotiateMessage ==
    Struct(Fixed(<<4, 1, 4, 1, 2, 2, 8, 2, 2, 2, 2, 2, 1>>)
           \o <<PosMarker("byteCount", 2),
                write_size(Take(Body("dialects", 11), "byteCount"), "byteCount")>>)

-----------------------------------------------------------------------------
(* NEGOTIATE. *)

NegotiateSecurityMode == Bits(<<2, 14>>)
GlobalCapabilities == Bits(<<8, 24>>)
Dialect == 2
NegotiateDialect == 2

(* The contexts are there with dialect 3.1.1 only. *)
NegotiateRequest ==
    Message(36, <<Count("dialectCount", 2, "dialects")>>
        \o Fixed(<<NegotiateSecurityMode, 2, GlobalCapabilities, Guid>>)
        \o <<PosMarker("contextsOffset", 4), Count("contextCount", 2, "contexts"), Bytes(2),
             Counted(Body("dialects", Dialect), "dialectCount"),
             AlignBefore(SeekStart(WhenPresent(write_aoff(Counted(Body("contexts", 16), "contextCount"),
                 "contextsOffset"), "contextCount"), "contextsOffset"), 8)>>)
NegotiateResponse ==
    Message(65, Fixed(<<NegotiateSecurityMode, NegotiateDialect>>)
        \o <<Count("contextCount", 2, "contexts")>>
        \o Fixed(<<Guid, GlobalCapabilities, 4, 4, 4, FileTime, FileTime>>)
        \o <<PosMarker("bufferOffset", 2), Length("bufferLength", 2, "buffer"), PosMarker("contextsOffset", 4),
             write_aoff(Counted(Body("buffer", 1), "bufferLength"), "bufferOffset"),
             AlignBefore(SeekStart(WhenPresent(write_aoff(Counted(Body("contexts", 16), "contextCount"),
                 "contextsOffset"), "contextCount"), "contextsOffset"), 8)>>)

NegotiateContextType == 2
NegotiateContext ==
    <<Align(8), Bytes(NegotiateContextType), PosMarker("dataLength", 2), Bytes(4),
      write_size(Take(Body("data", 1), "dataLength"), "dataLength")>>

(* A list with its count in front, after g bytes that only take room. *)
CountedList(width, gap) ==
    <<Count("count", 2, "list")>> \o Fixed(gap) \o <<Counted(Body("list", width), "count")>>
HashAlgorithm == 2
PreauthIntegrityCapabilities ==
    <<Count("hashCount", 2, "hashes"), Count("saltLength", 2, "salt"),
      Counted(Body("hashes", HashAlgorithm), "hashCount"), Counted(Body("salt", 1), "saltLength")>>
EncryptionCipher == 2
EncryptionCapabilities == CountedList(EncryptionCipher, <<>>)
CompressionCapsFlags == Bits(<<1, 31>>)
CompressionCapabilities == CountedList(CompressionAlgorithm, <<2, CompressionCapsFlags>>)
NetnameNegotiateContextId == <<UntilEof(Body("netname", 2))>>
TransportCapabilities == Bits(<<1, 31>>)
RdmaTransformId == 2
RdmaTransformCapabilities == CountedList(RdmaTransformId, <<2, 4>>)
SigningAlgorithmId == 2
SigningCapabilities == CountedList(SigningAlgorithmId, <<>>)

-----------------------------------------------------------------------------
(* SESSION_SETUP, LOGOFF, TREE_CONNECT, TREE_DISCONNECT. *)

SetupRequestFlags == Bits(<<1, 7>>)
SessionSecurityMode == Bits(<<2, 6>>)
NegotiateCapabilities == Bits(<<1, 31>>)
SessionSetupRequest ==
    Message(25, Fixed(<<SetupRequestFlags, SessionSecurityMode, NegotiateCapabilities, 4>>)
        \o <<PosMarker("bufferOffset", 2), Unwrap(Length("bufferLength", 2, "buffer")), Bytes(8),
             write_aoff(Counted(Body("buffer", 1), "bufferLength"), "bufferOffset")>>)
SessionFlags == Bits(<<3, 13>>)
SessionSetupResponse ==
    Message(9, Fixed(<<SessionFlags>>)
        \o <<PosMarker("bufferOffset", 2), Length("bufferLength", 2, "buffer"),
             write_aoff(Counted(Body("buffer", 1), "bufferLength"), "bufferOffset")>>)
LogoffMessage == Message(4, Fixed(<<2>>))

(* The client never adds the contexts of the extension. *)
TreeConnectRequestFlags == Bits(<<3, 13>>)
TreeConnectRequest ==
    Message(9, Fixed(<<TreeConnectRequestFlags>>)
        \o <<PosMarker("pathOffset", 2), Length("pathLength", 2, "path"),
             write_aoff(SizedWideString("path", "pathLength"), "pathOffset")>>)
ShareType == 1
ShareFlags == Bits(<<2, 2, 4, 8, 2, 1, 1, 2, 10>>)
TreeCapabilities == Bits(<<3, 6, 23>>)
TreeConnectResponse == Message(16, Fixed(<<ShareType, 1, ShareFlags, TreeCapabilities, 4>>))
TreeDisconnectMessage == Message(4, Fixed(<<2>>))
=============================================================================
