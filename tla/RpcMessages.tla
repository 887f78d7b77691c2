---------------------------- MODULE RpcMessages ----------------------------
(* The packets of remote procedure calls over a named pipe. *)
EXTENDS IoctlMessages

DceRpcVersion == 2
DceRpcCoPktFlags == Bits(<<1, 1, 1, 1, 1, 1, 1, 1>>)
DceRpcSyntaxId == Guid + 4

(* The header of a packet of the given type, its content, and then its length. *)
DceRpcCoPkt(type, content) ==
    <<PosMarker("pduStart", 0), Tag("version", DceRpcVersion, {5}), Tag("ptype", 1, {type}),
      Bytes(DceRpcCoPktFlags), Bytes(4), PosMarker("fragLength", 2), Tag("authLength", 2, {0}), Bytes(4)>>
    \o content \o <<write_roff_b(Body("end", 0), "fragLength", "pduStart")>>

(* One transfer syntax for each context, as a bind offers them. *)
DcRpcCoPktBindContextElement == 2 + 1 + 1 + DceRpcSyntaxId + DceRpcSyntaxId
DcRpcCoPktBind ==
    DceRpcCoPkt(11, Fixed(<<2, 2, 4>>)
        \o <<As(Count("numContextItems", 1, "contexts"))>> \o Fixed(<<1, 2>>)
        \o <<Counted(Body("contexts", DcRpcCoPktBindContextElement), "numContextItems")>>)

(* The reader skips to a multiple of four after the port; the writer does not. *)
DcRpcCoPktBindAckResult == 2 + 2 + DceRpcSyntaxId
DcRpcCoPktBindAck ==
    DceRpcCoPkt(12, Fixed(<<2, 2, 4>>)
        \o <<As(Length("portSpecLength", 2, "portSpec")), SizedAnsiString("portSpec", "portSpecLength"),
             AlignIn(4), As(Count("numResults", 1, "results"))>> \o Fixed(<<1, 2>>)
        \o <<Counted(Body("results", DcRpcCoPktBindAckResult), "numResults")>>)
DcRpcCoPktBindNak ==
    DceRpcCoPkt(13, <<Tag("rejectReason", 2, 0..9), As(Count("numProtocols", 1, "protocols")),
                      Counted(Body("protocols", DceRpcVersion), "numProtocols")>>)

DcRpcCoPktRequest == DceRpcCoPkt(0, Fixed(<<4, 2, 2>>) \o <<UntilEof(Body("stubData", 1))>>)
DcRpcCoPktResponse == DceRpcCoPkt(2, Fixed(<<4, 2, 1, 1>>) \o <<UntilEof(Body("stubData", 1))>>)
DcRpcCoPktFault == DceRpcCoPkt(3, Fixed(<<4, 2, 1, 1, 4, 4>>))
=============================================================================
