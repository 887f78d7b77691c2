----------------------------- MODULE SessionSetup -----------------------------
(***************************************************************************)
(* Setting up sessions on one connection, and the protection of what they  *)
(* then send and accept.  A setup is a driver that sends an intermediate   *)
(* and a final request.  The connection's owner adds requests and          *)
(* intermediate answers to a transcript, from which the driver derives the *)
(* session's keys.  There is one transcript and one table of sessions, and *)
(* a frame that cannot be verified ends the connection for everyone.  A    *)
(* message is <<driver, attempt, position>>.  The server and the GSS       *)
(* mechanism are external.                                                 *)
(***************************************************************************)
EXTENDS Naturals, Sequences

CONSTANTS Drivers,   \* those who set up a session on this connection
          MaxTries   \* policy.max_attempts of a reauthentication

ASSUME SetupAssumption == MaxTries \in Nat \ {0}

VARIABLES settings,    \* what was configured and negotiated
          transcript,  \* preauth_hash, the messages after the negotiation
          table,       \* WirePipeline.sessions
          driver,      \* where each driver is, and in which attempt
          infos,       \* SessionInfo and ChannelInfo of each attempt
          request,     \* the request of each attempt that the server has
          reply,       \* the answer that awaits its driver
          last,        \* the last exchange of a session that is set up
          ended        \* the owner met a frame it cannot decode

setupVars == <<settings, transcript, table, driver, infos, request, reply, last, ended>>

Settings == [smb311 : BOOLEAN, encryption : {"disabled", "allowed", "required"},
             cipher : BOOLEAN,    \* a cipher both sides support was negotiated
             signing : BOOLEAN,   \* SigningPolicy::Required
             demand : BOOLEAN,    \* the server requires signing
             guests : BOOLEAN]    \* allow_unsigned_guest_access

Flags == [guest : BOOLEAN, encrypt : BOOLEAN]

Unset == [state |-> "none", ciphers |-> "none", signer |-> "none",
          flags |-> [guest |-> FALSE, encrypt |-> FALSE], verified |-> FALSE]

SetupInit ==
  /\ settings \in Settings
  /\ transcript = <<>>
  /\ table = {}
  /\ driver \in [Drivers -> [at : {"first", "failed"}, kind : {"create"}, try : {1}]
                   \cup [at : {"reset"}, kind : {"reauthenticate"}, try : 1..MaxTries]]
  /\ infos = [d \in Drivers |-> [t \in 1..MaxTries |-> Unset]]
  /\ request = [d \in Drivers |-> [t \in 1..MaxTries |-> "nothing"]]
  /\ reply = [d \in Drivers |-> <<>>]
  /\ last = [d \in Drivers |-> <<>>]
  /\ ended = FALSE

DriverAt(d, at) == driver[d].at = at /\ ~ended
DriverTo(d, at) == driver' = [driver EXCEPT ![d].at = at]
Try(d) == driver[d].try
Info(d) == infos[d][Try(d)]
SetInfo(d, info) == infos' = [infos EXCEPT ![d][Try(d)] = info]
Hash(d, n) == transcript' = Append(transcript, <<d, Try(d), n>>)

\* The server hashes the two requests of a session and its own answer.
ServerTranscript(d, t) == <<<<d, t, 1>>, <<d, t, 2>>, <<d, t, 3>>>>

\* A key derived now is the server's or another one.  Before 3.1.1 no key
\* depends on the transcript.
DerivedKey(d) ==
  IF settings.smb311 => transcript = ServerTranscript(d, Try(d)) THEN "agreed" ELSE "other"

\* The attempt fails.  error_cleanup invalidates a session that was made and
\* takes it from the table; a reauthentication has further attempts.
GiveUp(d) ==
  /\ driver' = [driver EXCEPT ![d] =
       IF @.kind = "reauthenticate" /\ @.try < MaxTries
       THEN [@ EXCEPT !.at = "first", !.try = @ + 1] ELSE [@ EXCEPT !.at = "failed"]]
  /\ reply' = [reply EXCEPT ![d] = <<>>]

Fails(d) ==
  /\ GiveUp(d)
  /\ table' = table \ {<<d, Try(d)>>}
  /\ SetInfo(d, IF Info(d).state = "none" THEN Info(d) ELSE [Info(d) EXCEPT !.state = "invalid"])

-----------------------------------------------------------------------------
(* The driver.                                                             *)

\* reauthenticate: reset_preauth_to_negotiate, once before the first attempt.
ResetTranscript(d) ==
  /\ DriverAt(d, "reset")
  /\ transcript' = <<>>
  /\ DriverTo(d, "first")
  /\ UNCHANGED <<settings, table, infos, request, reply, last, ended>>

\* The first token.  A mechanism that needs one round only sends the final
\* request first, which is refused: there is no session yet.
SendFirst(d) ==
  /\ DriverAt(d, "first")
  /\ \/ /\ Hash(d, 1)
        /\ request' = [request EXCEPT ![d][Try(d)] = "first"]
        /\ DriverTo(d, "first sent")
        /\ UNCHANGED <<table, infos, reply>>
     \/ Fails(d) /\ UNCHANGED <<transcript, request>>
  /\ UNCHANGED <<settings, last, ended>>

\* init_session and set_session on the first answer.
FirstAnswered(d) ==
  /\ DriverAt(d, "first sent") /\ reply[d] # <<>>
  /\ IF reply[d].status = "more"
     THEN /\ table' = table \cup {<<d, Try(d)>>}
          /\ SetInfo(d, [Info(d) EXCEPT !.state = "initial"])
          /\ reply' = [reply EXCEPT ![d] = <<>>]
          /\ DriverTo(d, "final")
     ELSE Fails(d)
  /\ UNCHANGED <<settings, transcript, request, last, ended>>

\* Mutant of SendFinal: the keys are derived before the request is hashed.
SendFinalLate(d) ==
  /\ DriverAt(d, "final")
  /\ SetInfo(d, [Info(d) EXCEPT !.state = "setting up", !.ciphers = DerivedKey(d)])
  /\ Hash(d, 3)
  /\ request' = [request EXCEPT ![d][Try(d)] = "final"]
  /\ DriverTo(d, "signer")
  /\ UNCHANGED <<settings, table, reply, last, ended>>
\* send_final_setup_request.
SendFinal(d) ==
  /\ DriverAt(d, "final")
  /\ Hash(d, 3)
  /\ request' = [request EXCEPT ![d][Try(d)] = "final"]
  /\ DriverTo(d, "ciphers")
  /\ UNCHANGED <<settings, table, infos, reply, last, ended>>

\* on_session_key_exchanged and SessionInfo::setup: the ciphers.
MakeCiphers(d) ==
  /\ DriverAt(d, "ciphers")
  /\ LET possible == settings.encryption # "disabled" /\ settings.cipher IN
     IF settings.encryption = "required" /\ ~possible THEN Fails(d)
     ELSE /\ SetInfo(d, [Info(d) EXCEPT !.state = "setting up",
                                        !.ciphers = IF possible THEN DerivedKey(d) ELSE "none"])
          /\ DriverTo(d, "signer")
          /\ UNCHANGED <<table, reply>>
  /\ UNCHANGED <<settings, transcript, request, last, ended>>

\* make_channel: the signer, from a second look at the transcript.
MakeSigner(d) ==
  /\ DriverAt(d, "signer")
  /\ SetInfo(d, [Info(d) EXCEPT !.signer = DerivedKey(d)])
  /\ DriverTo(d, "final sent")
  /\ UNCHANGED <<settings, transcript, table, request, reply, last, ended>>

\* _verify_incoming while the session is set up, the check of _setup_loop for
\* an unsigned answer, and SessionInfo::ready.
FinalAccepted(answer) ==
  /\ answer.status = "success"
  /\ answer.signed \/ (settings.guests /\ ~settings.demand /\ answer.flags.guest)
  /\ answer.flags.guest => settings.guests /\ ~settings.demand

FinalAnswered(d) ==
  /\ DriverAt(d, "final sent") /\ reply[d] # <<>>
  /\ IF FinalAccepted(reply[d])
     THEN /\ SetInfo(d, [Info(d) EXCEPT !.state = "ready", !.flags = reply[d].flags,
                                        !.verified = reply[d].signed])
          /\ reply' = [reply EXCEPT ![d] = <<>>]
          /\ DriverTo(d, "ready")
          /\ UNCHANGED table
     ELSE Fails(d)
  /\ UNCHANGED <<settings, transcript, request, last, ended>>

\* The owner times a request out, and the attempt fails.
RequestTimesOut(d) ==
  /\ DriverAt(d, "first sent") \/ DriverAt(d, "final sent")
  /\ Fails(d)
  /\ UNCHANGED <<settings, transcript, request, last, ended>>

\* run_bounded_attempt drops the attempt wherever it is.  Nothing is cleaned up.
AttemptDropped(d) ==
  /\ driver[d].kind = "reauthenticate" /\ ~ended
  /\ driver[d].at \in {"first sent", "final", "ciphers", "signer", "final sent"}
  /\ GiveUp(d)
  /\ UNCHANGED <<settings, transcript, table, infos, request, last, ended>>

-----------------------------------------------------------------------------
(* The server's answers, as the owner decodes them.                        *)

Delivered(d, t, answer) ==
  reply' = IF t = Try(d) /\ driver[d].at \notin {"ready", "failed", "first"}
           THEN [reply EXCEPT ![d] = answer] ELSE reply

\* An intermediate answer is hashed whether or not someone waits for it.
FirstAnswer(d, t) ==
  /\ request[d][t] = "first" /\ ~ended
  /\ request' = [request EXCEPT ![d][t] = "nothing"]
  /\ \/ /\ transcript' = Append(transcript, <<d, t, 2>>)
        /\ Delivered(d, t, [status |-> "more"])
     \/ Delivered(d, t, [status |-> "refused"]) /\ UNCHANGED transcript
  /\ UNCHANGED <<settings, table, driver, infos, last, ended>>

\* verify_plain_incoming: a signed answer needs a session in the table whose
\* signer is the server's.  Any other ends the connection.
FinalAnswer(d, t) ==
  /\ request[d][t] = "final" /\ ~ended
  /\ request' = [request EXCEPT ![d][t] = "nothing"]
  /\ \/ Delivered(d, t, [status |-> "refused"]) /\ UNCHANGED ended
     \/ \E flags \in Flags, signed \in BOOLEAN :
          LET broken == signed /\ (<<d, t>> \notin table \/ infos[d][t].signer # "agreed") IN
          /\ ended' = broken
          /\ IF broken THEN UNCHANGED reply
             ELSE Delivered(d, t, [status |-> "success", flags |-> flags, signed |-> signed])
  /\ UNCHANGED <<settings, transcript, table, driver, infos, last>>

-----------------------------------------------------------------------------
(* A session that is set up.                                               *)

ShouldEncrypt(info) == info.flags.encrypt \/ settings.encryption = "required"
AllowUnsigned(info) == info.flags.guest \/ ~(settings.signing \/ settings.demand)
RequiresSigning(info, command) ==
  settings.demand \/ (~info.flags.guest /\ settings.smb311 /\ command = "tree connect")

\* ChannelContext::prepare, and protect_wire, which needs an encryptor.
Protection(info, command) ==
  CASE ShouldEncrypt(info) /\ info.ciphers = "none" -> "refused"
    [] ShouldEncrypt(info) /\ info.ciphers # "none" -> "encrypted"
    [] ~ShouldEncrypt(info) /\ (~AllowUnsigned(info) \/ RequiresSigning(info, command)) -> "signed"
    [] OTHER -> "plain"

\* Mutant of Accepts: an encrypted session takes a signed answer.
AcceptsSigned(info, command, form) ==
  form \in {"encrypted", "signed"} \/ (AllowUnsigned(info) /\ ~RequiresSigning(info, command))

\* _verify_incoming.
Accepts(info, command, form) ==
  /\ ShouldEncrypt(info) => form = "encrypted"
  /\ \/ form \in {"encrypted", "signed"}
     \/ AllowUnsigned(info) /\ ~RequiresSigning(info, command)

\* A request and its answer, whose form the server chooses.
Exchange(d) ==
  /\ DriverAt(d, "ready")
  /\ \E command \in {"tree connect", "other"}, form \in {"plain", "signed", "encrypted"} :
       /\ Protection(Info(d), command) # "refused"
       /\ form = "encrypted" => Info(d).ciphers # "none"
       /\ last' = [last EXCEPT ![d] = [command |-> command, form |-> form,
                                       sent |-> Protection(Info(d), command),
                                       accepted |-> Accepts(Info(d), command, form)]]
  /\ UNCHANGED <<settings, transcript, table, driver, infos, request, reply, ended>>

DriverStep(d) ==
  \/ ResetTranscript(d) \/ SendFirst(d) \/ FirstAnswered(d) \/ SendFinal(d)
  \/ MakeCiphers(d) \/ MakeSigner(d) \/ FinalAnswered(d)
  \/ RequestTimesOut(d) \/ AttemptDropped(d) \/ Exchange(d)

SetupNext ==
  \E d \in Drivers : DriverStep(d) \/ \E t \in 1..MaxTries : FirstAnswer(d, t) \/ FinalAnswer(d, t)

SetupSpec == SetupInit /\ [][SetupNext]_setupVars

-----------------------------------------------------------------------------
(* Properties.                                                             *)

Ready(d) == driver[d].at = "ready"

\* A session that is set up for a user has the server's keys, for signing and
\* for encryption, whatever other setups did to the transcript meanwhile.  A
\* guest session is only there where both sides allow it, and a client that
\* requires encryption has a cipher.
ReadyKeysAgree ==
  \A d \in Drivers : Ready(d) =>
    /\ ~Info(d).flags.guest => Info(d).verified /\ Info(d).signer = "agreed" /\ Info(d).ciphers # "other"
    /\ Info(d).flags.guest => settings.guests /\ ~settings.demand
    /\ settings.encryption = "required" => Info(d).ciphers # "none"
    /\ <<d, Try(d)>> \in table

\* What the two sides require of a session holds of every request it sends and
\* of every answer it accepts.
ExchangesProtected ==
  \A d \in Drivers : last[d] # <<>> =>
    LET encrypted == settings.encryption = "required" \/ Info(d).flags.encrypt
        signed == ~Info(d).flags.guest /\ (settings.signing \/ settings.demand)
        protected == {form \in {"plain", "signed", "encrypted"} :
                        (encrypted => form = "encrypted") /\ (signed => form # "plain")} IN
    last[d].sent \in protected /\ (last[d].accepted => last[d].form \in protected)

\* "The candidate SessionId, preauthentication transcript, ... remain private
\* until SessionSetup completes": no key is derived from a transcript that
\* holds other messages.
TranscriptIsPrivate == \A d \in Drivers : Info(d).signer # "other"

\* "The derived channel signer is installed before the final response is
\* admitted": the answer to a setup that goes on does not end the connection.
SignerInstalledFirst ==
  ended => \A d \in Drivers : driver[d].at \notin {"ciphers", "signer"}
=============================================================================
