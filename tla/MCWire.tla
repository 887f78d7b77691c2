-------------------------------- MODULE MCWire --------------------------------
(***************************************************************************)
(* What goes over the wire, for TLC: the structures, the chains of members *)
(* and items, the frames of a transport, the negotiation, and remote       *)
(* procedure calls.  The components have no variable in common: a          *)
(* behaviour runs the one that chosen names, and the others stay as they   *)
(* start.  A configuration asks for notifications or for compression.      *)
(***************************************************************************)
EXTENDS WireCodec, WireChains, FrameTransport, Negotiation, RpcPipe

VARIABLE chosen

MCPlans == {<<f, g, h>> : f \in {<<2>>, <<1, 2>>, <<0, 2, 1>>, <<3, 0>>},
                          g \in {<<1, 1, 2>>, <<0>>, <<4>>}, h \in {<<1>>, <<2, 2>>}}

MCConfigs == {c \in [min : {1, 3, 5}, max : {2, 4, 5}, encryption : {"disabled", "allowed", "required"},
                     smb2Only : BOOLEAN, notify : BOOLEAN, compression : BOOLEAN] :
                c.notify # c.compression /\ (~c.smb2Only => c.notify)}

UsualConfig == [min |-> 1, max |-> 5, encryption |-> "allowed", smb2Only |-> TRUE,
                notify |-> TRUE, compression |-> FALSE]

wireVars == <<codec, chainVars, transportVars>>
peerVars == <<negotiationVars, rpcVars>>

MCInit ==
  /\ chosen \in {"codec", "chains", "transport", "negotiation", "rpc"}
  /\ RpcInit
  /\ TransportInit
  /\ chosen # "transport" => link = "tcp" /\ plan = <<<<2>>, <<0>>, <<1>>>>
  /\ NegotiationInit
  /\ chosen # "negotiation" => config = UsualConfig
  /\ IF chosen = "codec" THEN CodecInit ELSE codec = NoStructure
  /\ IF chosen = "chains" THEN ChainInit
     ELSE builder = NoBuilder /\ walk = NoWalk /\ list = NoList

MCNext ==
  /\ UNCHANGED chosen
  /\ \/ chosen = "codec" /\ CodecNext /\ UNCHANGED <<chainVars, transportVars, peerVars>>
     \/ chosen = "chains" /\ ChainNext /\ UNCHANGED <<codec, transportVars, peerVars>>
     \/ chosen = "transport" /\ TransportNext /\ UNCHANGED <<codec, chainVars, peerVars>>
     \/ chosen = "negotiation" /\ NegotiationNext /\ UNCHANGED <<rpcVars, wireVars>>
     \/ chosen = "rpc" /\ RpcNext /\ UNCHANGED <<negotiationVars, wireVars>>

MCSpec == MCInit /\ [][MCNext]_<<wireVars, peerVars, chosen>>
=============================================================================
