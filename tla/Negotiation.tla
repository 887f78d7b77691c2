---------------------------- MODULE Negotiation ----------------------------
(***************************************************************************)
(* How a connection agrees with a server on what to speak: the first       *)
(* connect, the negotiation of every generation that recovery brings up    *)
(* later, and the shares that are connected on it.  The configuration is   *)
(* the caller's, the answers are the server's, and each generation may get *)
(* an answer of its own.                                                   *)
(***************************************************************************)
EXTENDS Integers, FiniteSets

CONSTANTS
    MaxGenerations,   \* generations of one connection
    Configs           \* the configurations a caller may give

VARIABLES
    config,           \* ConnectionConfig
    attempt,          \* the connect or bootstrap in progress
    published,        \* ConnectionInfo of the published generation, or Nothing
    share,            \* TreeConnectInfo of a share on it, or Nothing, and its last request
    serves            \* what has been started for the published generation

negotiationVars == <<config, attempt, published, share, serves>>

Nothing == [dialect |-> 0]

-----------------------------------------------------------------------------
(* Dialects, in their order *)

Smb0202 == 1
Smb021 == 2
Smb030 == 3
Smb0302 == 4
Smb0311 == 5
AllDialects == Smb0202 .. Smb0311
Wildcard == 6
is_smb3(d) == d >= Smb030

SigningAlgos == {"gmac", "cmac", "hmac"}
EncryptingAlgos == {"aes"}
HashAlgos == {"sha512"}

\* What a server may put into a capability field, one flag per rule.
CapabilityFlags == {"dfs", "leasing", "multi_channel", "encryption", "notifications"}
ShareFlagSet == {"dfs", "enable_hash_v1", "encrypt_data", "compress_data"}
TreeCapabilitySet == {"dfs", "cluster", "asymmetric", "redirect_to_owner"}

get_negotiate_caps_mask(d) ==
    {"dfs"}
    \cup (IF d > Smb0202 THEN {"leasing"} ELSE {})
    \cup (IF d > Smb021 THEN {"multi_channel"} ELSE {})
    \cup (IF d \in Smb030 .. Smb0302 THEN {"encryption"} ELSE {})
    \cup (IF d = Smb0311 THEN {"notifications"} ELSE {})

get_share_flags_mask(d) ==
    {"dfs"}
    \cup (IF d > Smb0202 THEN {"enable_hash_v1"} ELSE {})
    \cup (IF is_smb3(d) THEN {"encrypt_data"} ELSE {})
    \cup (IF d >= Smb0311 THEN {"compress_data"} ELSE {})

get_tree_connect_caps_mask(d) ==
    {"dfs"}
    \cup (IF is_smb3(d) THEN {"cluster"} ELSE {})
    \cup (IF d >= Smb0302 THEN {"asymmetric"} ELSE {})
    \cup (IF d = Smb0311 THEN {"redirect_to_owner"} ELSE {})

supports_compression(d) == d = Smb0311
preauth_hash_supported(d) == d = Smb0311

-----------------------------------------------------------------------------
(* The configuration and the request made from it *)

\* ConnectionConfig::validate, the rules about what is negotiated.
validate(c) == c.min <= c.max

Offered(c) == {d \in AllDialects : c.min <= d /\ d <= c.max}

\* append_optional_negotiate_contexts: compression is offered whether or not
\* the caller enabled it.
OfferedContexts(c) ==
    IF Smb0311 \notin Offered(c) THEN {}
    ELSE {"preauth", "netname", "compression", "signing"}
         \cup (IF c.encryption = "disabled" THEN {} ELSE {"encryption"})

make_smb2_neg_request(c) ==
    [dialects |-> Offered(c),
     contexts |-> OfferedContexts(c),
     caps |-> IF \A d \in Offered(c) : ~is_smb3(d) THEN {}
              ELSE {"dfs", "leasing", "multi_channel"}
                   \cup (IF c.encryption = "disabled" THEN {} ELSE {"encryption"})
                   \cup (IF c.notify /\ Smb0311 \in Offered(c) THEN {"notifications"} ELSE {})]

-----------------------------------------------------------------------------
(* What a server may answer *)

\* A context list of a 3.1.1 answer.  hashes and algorithms are what the
\* context names; zero preauth contexts name no hash.
ContextLists ==
    [preauth : 0 .. 2, hash : {"sha512", "other", "several"},
     signing : 0 .. 2, algorithm : {"cmac", "other", "several"},
     cipher : {"none", "aes", "other"}, compression : BOOLEAN]

\* Lists that differ in one point from the one a server should send.
UsualContexts == [preauth |-> 1, hash |-> "sha512", signing |-> 1, algorithm |-> "cmac",
                  cipher |-> "aes", compression |-> TRUE]
Points == {"preauth", "hash", "signing", "algorithm", "cipher", "compression"}
NearContexts == {l \in ContextLists :
                    Cardinality({f \in Points : l[f] # UsualContexts[f]}) <= 1}
NoContexts == [UsualContexts EXCEPT !.preauth = 3]

\* The server's NegotiateResponse.
Answers ==
    [dialect : AllDialects \cup {Wildcard},
     caps : {{}, CapabilityFlags} \cup {{f} : f \in CapabilityFlags},
     contexts : NearContexts \cup {NoContexts}]

-----------------------------------------------------------------------------
(* process_negotiate_request, one operator per dialect: whether the answer *)
(* is taken                                                                *)

Smb311Takes(a, c) ==
    LET l == a.contexts IN
    /\ l # NoContexts
    /\ l.preauth = 1
    /\ l.signing <= 1
    /\ l.signing = 1 => l.algorithm \in SigningAlgos
    /\ l.hash \in HashAlgos
    /\ IF l.cipher # "none" THEN l.cipher \in EncryptingAlgos
       ELSE c.encryption # "required"

Smb30XTakes(a, c) ==
    /\ a.contexts = NoContexts
    /\ c.encryption = "required" => "encryption" \in a.caps

Smb201Takes(a, c) == a.contexts = NoContexts

process_negotiate_request(a, c) ==
    CASE a.dialect = Smb0311 -> Smb311Takes(a, c)
      [] a.dialect \in {Smb030, Smb0302} -> Smb30XTakes(a, c)
      [] OTHER -> Smb201Takes(a, c)

\* The dialect is checked against the newest offered one only.
TakesAnyOlder(a, c) ==
    /\ a.dialect # Wildcard
    /\ a.dialect <= c.max
    /\ process_negotiate_request(a, c)
    /\ a.caps \subseteq get_negotiate_caps_mask(a.dialect)

\* The wildcard is no Dialect: the conversion of the revision refuses it.
Takes(a, c) ==
    /\ a.dialect # Wildcard
    /\ a.dialect <= c.max
    /\ a.dialect >= c.min
    /\ process_negotiate_request(a, c)
    /\ a.caps \subseteq get_negotiate_caps_mask(a.dialect)

ConnectionInfo(a) ==
    [dialect |-> a.dialect,
     caps |-> a.caps,
     signing |-> IF a.dialect = Smb0311 /\ a.contexts.signing = 1
                 THEN a.contexts.algorithm
                 ELSE IF is_smb3(a.dialect) THEN "cmac" ELSE "hmac",
     cipher |-> IF a.dialect = Smb0311 THEN a.contexts.cipher ELSE "none",
     compresses |-> /\ supports_compression(a.dialect)
                    /\ config.compression
                    /\ a.contexts.compression,
     hashed |-> preauth_hash_supported(a.dialect)]

-----------------------------------------------------------------------------
(* Connecting *)

Idle == [at |-> "idle", generation |-> 0, next |-> 0, sent |-> {}, repeated |-> FALSE]

\* Everything the attempt has sent on its transport carries a message id.
Sends(id) == [attempt EXCEPT !.sent = @ \cup {id}, !.repeated = @ \/ id \in attempt.sent]

NegotiationInit ==
    /\ config \in {c \in Configs : validate(c)}
    /\ attempt = Idle
    /\ published = Nothing
    /\ share = Nothing
    /\ serves = {}

\* Connection::connect finds no generation, or the bootstrap of the recovery
\* task starts on the next one.
StartAttempt ==
    /\ attempt.at = "idle"
    /\ attempt' = [Idle EXCEPT !.at = "dialing", !.generation = 1]
    /\ UNCHANGED <<config, published, share, serves>>

StartBootstrap ==
    /\ attempt.at = "lost"
    /\ attempt.generation < MaxGenerations
    /\ attempt' = [Idle EXCEPT !.at = "dialing", !.generation = attempt.generation + 1]
    /\ UNCHANGED <<config, published, share, serves>>

\* A first connect that fails is over; a failed bootstrap is tried again while
\* the published generation stays what it was.
AttemptEnds ==
    IF attempt.generation = 1 THEN [attempt EXCEPT !.at = "failed"]
    ELSE [attempt EXCEPT !.at = "lost"]

DialFails ==
    /\ attempt.at = "dialing"
    /\ attempt' = AttemptEnds
    /\ UNCHANGED <<config, published, share, serves>>

Dialled ==
    /\ attempt.at = "dialing"
    /\ attempt' = [attempt EXCEPT !.at = IF config.smb2Only THEN "smb2" ELSE "smb1"]
    /\ UNCHANGED <<config, published, share, serves>>

\* The SMB1 request goes out without an SMB2 header, yet the server counts it
\* as message 0.  Its answer must be the wildcard, with message id 0, no charge
\* and one credit.
SwitchToSmb2 ==
    \E dialect \in AllDialects \cup {Wildcard}, id \in 0 .. 1, charge \in 0 .. 1, credits \in 0 .. 1 :
        LET taken == dialect = Wildcard /\ id = 0 /\ charge = 0 /\ credits = 1 IN
        /\ attempt.at = "smb1"
        /\ attempt' = IF taken THEN [Sends(0) EXCEPT !.at = "smb2", !.next = 1]
                      ELSE AttemptEnds
        /\ UNCHANGED <<config, published, share, serves>>

\* The SMB2 request is sent by the worker of the new generation, which numbers
\* its messages from next.
SendNegotiate ==
    /\ attempt.at = "smb2"
    /\ make_smb2_neg_request(config).dialects # {}
    /\ attempt' = [Sends(attempt.next) EXCEPT !.at = "asked", !.next = attempt.next + 1]
    /\ UNCHANGED <<config, published, share, serves>>

\* No answer, one that is not taken, or one that is: the first connect publishes
\* it at once; the driver publishes what a bootstrap prepared.
NegotiateAnswered(a) ==
    /\ attempt.at = "asked"
    /\ IF Takes(a, config)
       THEN /\ attempt' = [attempt EXCEPT !.at = "published"]
            /\ published' = ConnectionInfo(a)
            /\ serves' = serves \ {"notify"}
       ELSE /\ attempt' = AttemptEnds
            /\ UNCHANGED <<published, serves>>
    /\ UNCHANGED <<config, share>>

NegotiateFails ==
    /\ attempt.at = "asked"
    /\ attempt' = AttemptEnds
    /\ UNCHANGED <<config, published, share, serves>>

\* The rest of _negotiate, or of one round of the recovery task.  start_notify
\* fails when the generation has ended already: the first connect then fails
\* with its generation published, the recovery task goes on without the lane.
StartServices(running) ==
    /\ attempt.at = "published"
    /\ IF running \/ ~config.notify
       THEN /\ serves' = serves \cup {"recovery"} \cup (IF config.notify THEN {"notify"} ELSE {})
            /\ attempt' = [attempt EXCEPT !.at = "up"]
       ELSE /\ serves' = serves
            /\ attempt' = IF attempt.generation = 1 THEN [attempt EXCEPT !.at = "failed"]
                          ELSE [attempt EXCEPT !.at = "up"]
    /\ UNCHANGED <<config, published, share>>

\* The transport of the published generation is lost.
GenerationLost ==
    /\ attempt.at = "up"
    /\ attempt' = [attempt EXCEPT !.at = "lost"]
    /\ UNCHANGED <<config, published, share, serves>>

-----------------------------------------------------------------------------
(* A session and a share of the connection *)

\* The cipher the sessions of a generation use.
smb3xx_make_cipher_pair(info) ==
    CASE ~is_smb3(info.dialect) \/ config.encryption = "disabled" -> "none"
      [] info.dialect = Smb0311 -> info.cipher
      [] OTHER -> "aes"

\* SessionInfo::ready: with encryption required there is no session without a cipher.
SessionReady(info) ==
    config.encryption = "required" => smb3xx_make_cipher_pair(info) # "none"

validate_tree_connect(flags, caps, info) ==
    /\ caps \subseteq get_tree_connect_caps_mask(info.dialect)
    /\ flags \subseteq get_share_flags_mask(info.dialect)
    /\ "encrypt_data" \in flags => config.encryption # "disabled"

\* The server answers a TREE_CONNECT of the published generation.
ConnectShare(flags, caps) ==
    /\ attempt.at = "up"
    /\ SessionReady(published)
    /\ validate_tree_connect(flags, caps, published)
    /\ share' = [dialect |-> published.dialect, generation |-> attempt.generation,
                 encrypt |-> "encrypt_data" \in flags, sent |-> "nothing"]
    /\ UNCHANGED <<config, attempt, published, serves>>

\* A request on the share, whose session the server may have told to encrypt: prepare of
\* the tree and of the session choose the protection, protect_wire applies or refuses it.
RequestOnShare(sessionEncrypts) ==
    /\ attempt.at = "up" /\ share # Nothing /\ share.generation = attempt.generation
    /\ share' = [share EXCEPT !.sent =
                    IF ~(share.encrypt \/ sessionEncrypts \/ config.encryption = "required") THEN "plain"
                    ELSE IF smb3xx_make_cipher_pair(published) = "none" THEN "refused"
                    ELSE "encrypted"]
    /\ UNCHANGED <<config, attempt, published, serves>>

NegotiationNext ==
    \/ StartAttempt \/ StartBootstrap \/ DialFails \/ Dialled \/ SwitchToSmb2
    \/ SendNegotiate \/ NegotiateFails \/ GenerationLost
    \/ attempt.at = "asked" /\ \E a \in Answers : NegotiateAnswered(a)
    \/ \E running \in BOOLEAN : StartServices(running)
    \/ /\ attempt.at = "up"
       /\ \E flags \in SUBSET ShareFlagSet, caps \in {{t} : t \in TreeCapabilitySet} :
             ConnectShare(flags, caps)
    \/ \E sessionEncrypts \in BOOLEAN : RequestOnShare(sessionEncrypts)

NegotiationSpec == NegotiationInit /\ [][NegotiationNext]_negotiationVars

-----------------------------------------------------------------------------
(* Properties *)

\* Whatever generation is published, the first or one that recovery brought up with
\* another answer of the server, what is used of it was offered: its dialect, the cipher
\* of its sessions, and compression.  A cipher or a capability that was not offered is
\* recorded when a server answers it (dialects.rs:249, connection.rs:352), and not used.
TermsWereOffered ==
    published # Nothing =>
        LET offer == make_smb2_neg_request(config) IN
        /\ published.dialect \in offer.dialects
        /\ smb3xx_make_cipher_pair(published) # "none" =>
              /\ "encryption" \in offer.caps
              /\ published.dialect = Smb0311 => "encryption" \in offer.contexts
        /\ published.compresses => config.compression /\ "compression" \in offer.contexts

\* No message id is used twice on a transport, although the first exchange of a
\* multi-protocol negotiation is made outside the worker (connection.rs:240).
NegotiateIdFresh == ~attempt.repeated

\* On a share that must be encrypted, and wherever encryption is required, a request goes
\* out encrypted or not at all, also on a generation that recovery brought up with an older
\* dialect or without a cipher; where encryption is disabled nothing is encrypted
\* (tree.rs:46, tree.rs:332, state.rs:154, wire.rs:705).
EncryptedShareFits ==
    share # Nothing =>
        /\ share.encrypt \/ config.encryption = "required" => share.sent # "plain"
        /\ share.sent = "encrypted" => config.encryption # "disabled"

\* What is used of a negotiation, the first or one after a loss, is within what was
\* offered, each message id is used once, and requests are protected as they must be.
TermsHold == TermsWereOffered /\ NegotiateIdFresh /\ EncryptedShareFits
=============================================================================
