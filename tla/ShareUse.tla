------------------------------ MODULE ShareUse ------------------------------
(***************************************************************************)
(* The handles a share gives out and how they are given back: security     *)
(* calls on a path, which open a temporary handle and leave its close to a *)
(* tracked task, opens that return the handle, the close authority of an   *)
(* open file, and the close of the share.                                  *)
(*                                                                         *)
(* Sources: RuntimeShare, SecurityResourceGuard and SecurityCleanup of     *)
(* runtime/port.rs; ShareInner and FileCloseAuthority of domain/mod.rs;    *)
(* TreeContext::disconnect.  Any of these calls may be dropped, by its     *)
(* deadline, its cancellation or its owner.                                *)
(***************************************************************************)
EXTENDS Integers, FiniteSets

CONSTANTS
    SecurityCalls,  \* query_path_security and set_path_security
    FileOpener,     \* a call that opens a handle for its caller
    FileClosers,    \* callers of close of that handle
    ShareClosers    \* callers of Share::close

VARIABLES
    call,           \* call -> where it is
    atServer,       \* calls whose handle is open at the server
    cleaning,       \* security call -> "no", "spawned", "sent", "closed" or "failed"
    authority,      \* FileCloseAuthority: [state, lock], and ResourceHandle::open
    fileCloser,     \* closer of the file -> where it is, or what it was told
    shareCloser,    \* closer of the share -> where it is
    cell,           \* ShareInner::close_report: "no", "running" or "done"
    disconnected,   \* TreeContext::closed
    early           \* cleanups that were running when the share's close began

shareUseVars ==
    <<call, atServer, cleaning, authority, fileCloser, shareCloser, cell, disconnected, early>>

HandleCalls == SecurityCalls \cup {FileOpener}

ShareUseInit ==
    /\ call = [u \in HandleCalls |-> "idle"]
    /\ atServer = {}
    /\ cleaning = [u \in SecurityCalls |-> "no"]
    /\ authority = [state |-> "open", lock |-> "none", open |-> TRUE]
    /\ fileCloser = [c \in FileClosers |-> "idle"]
    /\ shareCloser = [c \in ShareClosers |-> "idle"]
    /\ cell = "no" /\ disconnected = FALSE /\ early = {}

CallAt(u, at) == call' = [call EXCEPT ![u] = at]
CleanupSpawned(u) == cleaning' = [cleaning EXCEPT ![u] = "spawned"]

closing == <<fileCloser, shareCloser, cell, disconnected, early>>

----------------------------------------------------------------------------
(* RuntimeShare: opening a handle.                                         *)

\* A request is refused once the tree is closed.
CreateSent(u) ==
    /\ call[u] = "idle"
    /\ CallAt(u, IF disconnected THEN "failed" ELSE "creating")
    /\ UNCHANGED <<atServer, cleaning, authority, closing>>

\* The server may open something of another kind than the call wants: open_file,
\* open_directory and open_pipe then fail and let go of the handle without a close.
HandleCreated(u) ==
    /\ call[u] = "creating"
    /\ \/ /\ CallAt(u, "failed")
          /\ UNCHANGED atServer
       \/ /\ ~disconnected
          /\ atServer' = atServer \cup {u}
          /\ IF u = FileOpener
             THEN \E next \in {"held", "inspect", "failed"} : CallAt(u, next)
             ELSE CallAt(u, "guarded")
    /\ UNCHANGED <<cleaning, authority, closing>>

\* open_metadata_resource queries what it opened; a reparse point, or a failed query, is
\* rejected and the handle closed, whatever comes of the close.
Inspected ==
    /\ call[FileOpener] = "inspect"
    /\ \/ CallAt(FileOpener, "held") /\ UNCHANGED <<atServer, authority>>
       \/ /\ CallAt(FileOpener, "failed")
          /\ \E gone \in SUBSET {FileOpener} : atServer' = atServer \ gone
          /\ authority' = [authority EXCEPT !.open = FALSE]
    /\ UNCHANGED <<cleaning, closing>>

\* Answered or not, query_security and set_security are followed by the guard's close,
\* which spawns the cleanup and joins it.
SecurityAnswered(u) ==
    /\ call[u] = "guarded" /\ u \in SecurityCalls
    /\ CallAt(u, "joining")
    /\ CleanupSpawned(u)
    /\ UNCHANGED <<atServer, authority, closing>>

SecurityEnds(u) ==
    /\ call[u] = "joining" /\ cleaning[u] \in {"closed", "failed"}
    /\ CallAt(u, "done")
    /\ UNCHANGED <<atServer, cleaning, authority, closing>>

\* A guard that still has its resource spawns the cleanup when it is dropped.
\* Mutant: it does not.
DropCallSilently(u) ==
    /\ call[u] \in {"creating", "inspect", "guarded", "joining"}
    /\ CallAt(u, IF call[u] = "creating" THEN "abandoned" ELSE "dropped")
    /\ IF call[u] = "creating" /\ ~disconnected
       THEN \E orphan \in SUBSET {u} : atServer' = atServer \cup orphan
       ELSE UNCHANGED atServer
    /\ UNCHANGED <<cleaning, authority, closing>>

\* A CREATE that was sent may still be executed; nobody has its handle.
DropCall(u) ==
    /\ call[u] \in {"creating", "inspect", "guarded", "joining"}
    /\ CallAt(u, IF call[u] = "creating" THEN "abandoned" ELSE "dropped")
    /\ IF call[u] = "creating" /\ ~disconnected
       THEN \E orphan \in SUBSET {u} : atServer' = atServer \cup orphan
       ELSE UNCHANGED atServer
    /\ IF call[u] = "guarded" THEN CleanupSpawned(u) ELSE UNCHANGED cleaning
    /\ UNCHANGED <<authority, closing>>

----------------------------------------------------------------------------
(* close_security_resource, in a task of the tracker.                      *)

CleanupSends(u) ==
    /\ cleaning[u] = "spawned"
    /\ cleaning' = [cleaning EXCEPT ![u] = IF disconnected THEN "failed" ELSE "sent"]
    /\ UNCHANGED <<call, atServer, authority, closing>>

\* The server, or the end of the connection, answers.
CleanupAnswered(u) ==
    /\ cleaning[u] = "sent"
    /\ \/ cleaning' = [cleaning EXCEPT ![u] = "closed"] /\ atServer' = atServer \ {u}
       \/ cleaning' = [cleaning EXCEPT ![u] = "failed"] /\ UNCHANGED atServer
    /\ UNCHANGED <<call, authority, closing>>

----------------------------------------------------------------------------
(* FileCloseAuthority::close_with around ResourceHandle::close.            *)

\* Under the lock; an earlier terminal result answers at once.
FileCloseLocks(c) ==
    /\ fileCloser[c] = "idle" /\ call[FileOpener] = "held" /\ authority.lock = "none"
    /\ \/ /\ authority.state = "open"
          /\ authority' = [authority EXCEPT !.lock = c]
          /\ fileCloser' = [fileCloser EXCEPT ![c] = "closing"]
       \/ /\ authority.state # "open"
          /\ fileCloser' = [fileCloser EXCEPT
                               ![c] = IF authority.state = "confirmed" THEN "already" ELSE "unknown"]
          /\ UNCHANGED authority
    /\ UNCHANGED <<call, atServer, cleaning, shareCloser, cell, disconnected, early>>

\* The closer c is told what its close came to; the lock is released.
Told(c, result, state) ==
    /\ fileCloser' = [fileCloser EXCEPT ![c] = result]
    /\ authority' = [authority EXCEPT !.lock = "none", !.state = state, !.open = FALSE]

\* Only the first close of the handle sends, and the flag stays down if it fails.  A handle
\* whose share is closed or was recovered without it fails before that.
FileCloseSends(c) ==
    /\ fileCloser[c] = "closing"
    /\ \/ /\ authority.open /\ ~disconnected
          /\ fileCloser' = [fileCloser EXCEPT ![c] = "sent"]
          /\ authority' = [authority EXCEPT !.open = FALSE]
       \/ /\ fileCloser' = [fileCloser EXCEPT ![c] = "error"]
          /\ authority' = [authority EXCEPT !.lock = "none"]
    /\ UNCHANGED <<call, atServer, cleaning, shareCloser, cell, disconnected, early>>

\* Closed, refused by the server, or lost with the connection after it was written.
FileCloseAnswered(c) ==
    /\ fileCloser[c] = "sent"
    /\ \/ /\ atServer' = atServer \ {FileOpener}
          /\ Told(c, "confirmed", "confirmed")
       \/ /\ Told(c, "error", "open")
          /\ UNCHANGED atServer
       \/ \E gone \in SUBSET {FileOpener} :
             /\ atServer' = atServer \ gone
             /\ Told(c, "unknown", "unknown")
    /\ UNCHANGED <<call, cleaning, shareCloser, cell, disconnected, early>>

\* The state of a dropped close is still open, but the handle's flag is down.
DropFileClose(c) ==
    /\ fileCloser[c] \in {"closing", "sent"}
    /\ fileCloser' = [fileCloser EXCEPT ![c] = "dropped"]
    /\ authority' = [authority EXCEPT !.lock = "none"]
    /\ \E gone \in SUBSET (IF fileCloser[c] = "sent" THEN {FileOpener} ELSE {}) :
          atServer' = atServer \ gone
    /\ UNCHANGED <<call, cleaning, shareCloser, cell, disconnected, early>>

----------------------------------------------------------------------------
(* ShareInner::close, RuntimeShare::close, TreeContext::disconnect.        *)

Running == {u \in SecurityCalls : cleaning[u] \in {"spawned", "sent"}}

\* The cell lets one closer run; the others get its report.
BeginShareClose(c) ==
    /\ shareCloser[c] = "idle"
    /\ \/ /\ cell = "no"
          /\ cell' = "running"
          /\ shareCloser' = [shareCloser EXCEPT ![c] = "waiting"]
          /\ early' = IF disconnected THEN early ELSE early \cup Running
       \/ /\ cell = "done"
          /\ shareCloser' = [shareCloser EXCEPT ![c] = "reported"]
          /\ UNCHANGED <<cell, early>>
    /\ UNCHANGED <<call, atServer, cleaning, authority, fileCloser, disconnected>>

\* The tracker is closed and empty.  It still accepts tasks.
TasksAwaited(c) ==
    /\ shareCloser[c] = "waiting" /\ Running = {}
    /\ shareCloser' = [shareCloser EXCEPT ![c] = "disconnect"]
    /\ UNCHANGED <<call, atServer, cleaning, authority, fileCloser, cell, disconnected, early>>

\* A second disconnect returns at once, though the first may have been dropped.
Disconnect(c) ==
    /\ shareCloser[c] = "disconnect"
    /\ disconnected' = TRUE
    /\ IF disconnected
       THEN shareCloser' = [shareCloser EXCEPT ![c] = "reported"] /\ cell' = "done"
       ELSE shareCloser' = [shareCloser EXCEPT ![c] = "disconnecting"] /\ UNCHANGED cell
    /\ UNCHANGED <<call, atServer, cleaning, authority, fileCloser, early>>

\* The server closes what is open in the tree, or the request fails.
Disconnected(c) ==
    /\ shareCloser[c] = "disconnecting"
    /\ \E gone \in {{}, HandleCalls} : atServer' = atServer \ gone
    /\ shareCloser' = [shareCloser EXCEPT ![c] = "reported"]
    /\ cell' = "done"
    /\ UNCHANGED <<call, cleaning, authority, fileCloser, disconnected, early>>

DropShareClose(c) ==
    /\ shareCloser[c] \in {"waiting", "disconnecting"}
    /\ shareCloser' = [shareCloser EXCEPT ![c] = "dropped"]
    /\ cell' = "no"
    /\ UNCHANGED <<call, atServer, cleaning, authority, fileCloser, disconnected, early>>

----------------------------------------------------------------------------
CallStep(u) == HandleCreated(u) \/ SecurityAnswered(u) \/ SecurityEnds(u)
CleanupStep(u) == CleanupSends(u) \/ CleanupAnswered(u)
FileCloseStep(c) == FileCloseSends(c) \/ FileCloseAnswered(c)
ShareCloseStep(c) == TasksAwaited(c) \/ Disconnect(c) \/ Disconnected(c)

ShareUseNext ==
    \/ \E u \in HandleCalls : CreateSent(u) \/ CallStep(u) \/ DropCall(u)
    \/ Inspected
    \/ \E u \in SecurityCalls : CleanupStep(u)
    \/ \E c \in FileClosers : FileCloseLocks(c) \/ FileCloseStep(c) \/ DropFileClose(c)
    \/ \E c \in ShareClosers : BeginShareClose(c) \/ ShareCloseStep(c) \/ DropShareClose(c)

ShareUseSpec == ShareUseInit /\ [][ShareUseNext]_shareUseVars

----------------------------------------------------------------------------
(* Properties.                                                             *)

\* What FileCloseAuthority tells is true: a caller that hears "confirmed" or "already
\* closed" knows the server has closed the handle, and only one caller is confirmed,
\* although closes may be dropped, refused or lost between them.
CloseOutcomeTrue ==
    LET Hears(results) == {c \in FileClosers : fileCloser[c] \in results}
    IN  /\ Hears({"confirmed", "already"}) # {} => FileOpener \notin atServer
        /\ Hears({"already"}) # {} => Hears({"confirmed"}) # {}
        /\ Cardinality(Hears({"confirmed"})) <= 1

\* SecurityCleanup::close_and_wait: the close of a share does not cut off the close of a
\* temporary handle that was already under way.  A cleanup that was running when a close
\* of the share began is not overtaken by the disconnect, even if that closer is dropped
\* and another takes over.
CleanupNotOvertaken == disconnected => early \cap Running = {}

\* The temporary handle of a security call is given back: once the call has let go of
\* it, a task that closes it runs or has run to its end, though the call, or every close
\* of the share, is dropped.  A call that is over has seen that task end.
SecurityHandlesReturned ==
    \A u \in SecurityCalls :
        /\ u \in atServer /\ call[u] \notin {"guarded", "abandoned"} =>
              cleaning[u] \in {"spawned", "sent", "failed"}
        /\ call[u] = "done" => cleaning[u] \in {"closed", "failed"}

\* Handles are given back: a reported close of a file is true, and the cleanup of a security
\* call runs and is not cut off by the close of the share, though any caller may be dropped.
HandlesReturned == CloseOutcomeTrue /\ CleanupNotOvertaken /\ SecurityHandlesReturned
=============================================================================
