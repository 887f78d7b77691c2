------------------------------- MODULE RpcPipe -------------------------------
(***************************************************************************)
(* Remote procedure calls over a named pipe: the bind, and the calls on    *)
(* the bound pipe with their stubs.  A connection has one call at a time,  *)
(* and its caller may drop the call and make another one.  The server is   *)
(* external.                                                               *)
(***************************************************************************)
EXTENDS NdrStubs

CONSTANTS MaxCallId,    \* the largest call identifier (u32)
          NameLengths,  \* lengths of strings that are not empty, terminators included
          MaxListed     \* bound on the entries of a list

VARIABLES rpc,      \* RpcPipeConnection, and the call in progress
          served    \* the server's: contexts it accepted for NDR64, calls, pipe

rpcVars == <<rpc, served>>

StartCallId == 2
NdrSyntax == "NDR64"
BindTimeNegotiation == "bind time negotiation"
TransferSyntaxes == <<NdrSyntax, BindTimeNegotiation>>

-----------------------------------------------------------------------------
(* What a server may answer. *)

ListsOf(some) == UNION {[1..n -> some] : n \in 0..MaxListed}
Strings == NameLengths \cup {Null}
ShareAnswers ==
    [has : {"nothing", "container"}, shares : {<<>>}]
    \cup [has : {"shares"}, shares : ListsOf([name : Strings, remark : Strings, kind : {3}])]
Names == Strings \cup {0}
Accounts == [use : {1}, name : Names, domain : {-1, 0, 1}]
            \cup {[use |-> Unknown, name |-> Null, domain |-> -1]}
Known(accounts) == Len(SelectSeq(accounts, LAMBDA a : a.use # Unknown))
LookupAnswers ==
    {[domains |-> ds, accounts |-> as, mapped |-> Known(as),
      status |-> IF Known(as) = 0 THEN NoneMapped ELSE IF Known(as) < Len(as) THEN SomeNotMapped ELSE Success] :
        ds \in ListsOf([name : Names, sid : BOOLEAN]), as \in ListsOf(Accounts)}
    \cup {[domains |-> <<>>, accounts |-> <<>>, mapped |-> m, status |-> Failure] : m \in {0, 1}}
StatusAnswers == {Success, Failure}

BindResults == [accepted : BOOLEAN, syntax : {NdrSyntax, "other"}]
Agreed(results) == {i - 1 : i \in {j \in DOMAIN results : results[j] = [accepted |-> TRUE, syntax |-> NdrSyntax]}}
BindAnswers ==
    [kind : {"ack"}, whole : BOOLEAN, results : UNION {[1..n -> BindResults] : n \in 1..3}]
    \cup [kind : {"fault", "nak"}, whole : BOOLEAN, results : {<<>>}]

-----------------------------------------------------------------------------
RpcInit ==
    /\ rpc = [at |-> "unbound", next |-> 0, context |-> Null, op |-> "none", sent |-> <<>>,
              stub |-> <<>>, reader |-> Reader("none")]
    /\ served = [contexts |-> {}, calls |-> <<>>, open |-> TRUE]

At(place) == rpc.at = place

(* The bind request is written, and the answer read with a request of its own. *)
WriteBind ==
    /\ At("unbound")
    /\ rpc' = [rpc EXCEPT !.at = "reading"]
    /\ UNCHANGED served

(* A write that fails or is cut short, a read that fails: the pipe is dropped, not closed. *)
BindFails ==
    /\ rpc.at \in {"unbound", "reading"}
    /\ rpc' = [rpc EXCEPT !.at = "ended"]
    /\ UNCHANGED served

(***************************************************************************)
(* The context of the last syntax that is not a negotiation; every such    *)
(* syntax must have been accepted as it was offered.  Contexts count from  *)
(* zero.                                                                   *)
(***************************************************************************)
Proper == {i \in DOMAIN TransferSyntaxes : TransferSyntaxes[i] # BindTimeNegotiation}
Greatest(some) == CHOOSE i \in some : \A j \in some : j <= i

accepted_context(results) ==
    IF /\ Len(results) = Len(TransferSyntaxes)
       /\ \A i \in Proper : results[i] = [accepted |-> TRUE, syntax |-> TransferSyntaxes[i]]
    THEN Greatest(Proper) - 1
    ELSE Null

BindAnswered(answer) ==
    /\ At("reading")
    /\ served' = [served EXCEPT !.contexts = Agreed(answer.results),
                                !.open = ~(answer.kind = "fault" /\ answer.whole)]
    /\ LET context == accepted_context(answer.results)
       IN  rpc' = IF answer.whole /\ answer.kind = "ack" /\ context # Null
                  THEN [rpc EXCEPT !.at = "bound", !.next = StartCallId + 1, !.context = context]
                  ELSE [rpc EXCEPT !.at = "ended"]

-----------------------------------------------------------------------------
(* The identifier of the next call. *)
CallIdAfter(id) == id + 1

(* send_receive_raw until the pipe is asked; the last identifier is never used. *)
BeginCall(op) ==
    /\ At("bound") /\ rpc.next < MaxCallId
    /\ rpc' = [rpc EXCEPT !.at = "calling", !.op = op, !.next = CallIdAfter(@), !.sent = <<>>,
                          !.stub = <<>>, !.reader = Reader("none")]
    /\ served' = [served EXCEPT !.calls = Append(@, [id |-> rpc.next, context |-> rpc.context])]

(* A caller drops its call; any answer but a response in the right context ends it. *)
CallEndsWithout ==
    /\ At("calling")
    /\ rpc' = [rpc EXCEPT !.at = "bound"]
    /\ UNCHANGED served

(***************************************************************************)
(* A response in the right context is read as the call expects.  Its call  *)
(* identifier is not compared: that it answers this call, and not one that *)
(* was dropped, rests on the transact, whose answer is that of its own     *)
(* request.                                                                *)
(***************************************************************************)
Asking(ops) == At("calling") /\ rpc.op \in ops
CallAnswered(answer, fields, phase) ==
    /\ rpc' = [rpc EXCEPT !.at = "parsing", !.sent = answer, !.stub = fields, !.reader = Reader(phase)]
    /\ UNCHANGED served

StatusAnswered(status) ==
    /\ Asking({"policy", "close"})
    /\ rpc' = [rpc EXCEPT !.at = "bound", !.sent = status,
                          !.reader = [Reader("done") EXCEPT !.ok = is_success(status)]]
    /\ UNCHANGED served

Parse ==
    /\ At("parsing") /\ rpc.reader.phase # "done"
    /\ rpc' = [rpc EXCEPT !.reader = ReadStep(rpc.stub, @)]
    /\ UNCHANGED served

Parsed ==
    /\ At("parsing") /\ rpc.reader.phase = "done"
    /\ rpc' = [rpc EXCEPT !.at = "bound", !.stub = <<>>]
    /\ UNCHANGED served

Operations == {"shares", "policy", "lookup", "close"}
RpcNext ==
    \/ WriteBind \/ BindFails \/ CallEndsWithout \/ Parse \/ Parsed
    \/ \E answer \in BindAnswers : BindAnswered(answer)
    \/ \E op \in Operations : BeginCall(op)
    \/ Asking({"shares"}) /\ \E answer \in ShareAnswers : CallAnswered(answer, NetrShareEnumOut(answer), "share head")
    \/ Asking({"lookup"}) /\ \E answer \in LookupAnswers : CallAnswered(answer, LsarLookupSidsOut(answer), "domain head")
    \/ \E status \in StatusAnswers : StatusAnswered(status)

RpcSpec == RpcInit /\ [][RpcNext]_rpcVars

-----------------------------------------------------------------------------
(* No two calls on one binding have the same identifier, nor has one the   *)
(* identifier of the bind, dropped calls and the last number included.     *)
RpcCallIds ==
    \A i, j \in DOMAIN served.calls :
        /\ served.calls[i].id # StartCallId
        /\ served.calls[i].id < MaxCallId
        /\ i # j => served.calls[i].id # served.calls[j].id

(* A call names a context for which the server accepted NDR64, the only    *)
(* syntax in which the stubs are written and read.                         *)
RpcContextAgreed ==
    \A i \in DOMAIN served.calls : served.calls[i].context \in served.contexts

(* What a call has read of the answer it was sent. *)
HasRead(op) == At("bound") /\ rpc.op = op /\ rpc.reader.phase = "done"

(* A listing of shares is read as it was written, whatever is null in it. *)
SharesReadBack ==
    HasRead("shares") =>
        /\ rpc.reader.ok = (rpc.sent.has = "shares")
        /\ rpc.reader.ok => rpc.reader.got = rpc.sent.shares

(* A name of no characters that has a buffer: the reader goes by the length and skips no  *)
(* buffer, so that the fields after it are not where it looks (lsarpc.rs:362, 421).       *)
EmptyBuffer(answer) ==
    \/ \E i \in DOMAIN answer.domains : answer.domains[i].name = 0
    \/ \E i \in DOMAIN answer.accounts : answer.accounts[i].name = 0

(* An account is reported with its own name and the name of its own domain, and a lookup  *)
(* fails or goes astray only when the server refused it or sent an empty name a buffer.   *)
DomainName(domains, i) == IF i >= 0 /\ i < Len(domains) THEN domains[i + 1].name ELSE Null
AccountsReadBack ==
    HasRead("lookup") =>
        /\ rpc.reader.ok = (rpc.sent.status # Failure /\ ~EmptyBuffer(rpc.sent))
        /\ rpc.reader.ok => rpc.reader.got =
             [i \in DOMAIN rpc.sent.accounts |->
                LET a == rpc.sent.accounts[i]
                IN  IF a.use = Unknown \/ a.name = Null THEN Unresolved
                    ELSE [name |-> a.name, domain |-> DomainName(rpc.sent.domains, a.domain)]]

(* The calls on a pipe have identifiers of their own and name an agreed context, and what *)
(* they read of their answers is what was written, empty names aside.                    *)
RepliesReadBack == RpcCallIds /\ RpcContextAgreed /\ SharesReadBack /\ AccountsReadBack
=============================================================================
