---------------------------- MODULE ClientCaches ----------------------------
(***************************************************************************)
(* The two caches of a client and their close: DomainClient keeps weak     *)
(* references to sessions, the protocol client keeps one connection for    *)
(* each address.  Users authenticate, close their session and drop it;     *)
(* other tasks close the client.  Any of these futures may be dropped at   *)
(* an await.                                                               *)
(*                                                                         *)
(* Sources: DomainClient and SessionInner of domain/mod.rs, RuntimeClient  *)
(* of runtime/port.rs, client/smb_client.rs, Connection::authenticate,     *)
(* SessionContext::logoff.  One server and one identity: all users ask for *)
(* the same entries.  What setup, logoff and close do on the wire is in    *)
(* SessionSetup, SessionRecovery and RecoveryDriver.                       *)
(***************************************************************************)
EXTENDS Integers, FiniteSets

CONSTANTS
    ClientUsers,    \* tasks that authenticate and then use a session
    ClientClosers   \* tasks that close the client

VARIABLES
    user,           \* user -> [at, link, session], and whether it listed its link late
    closer,         \* closer -> [at, found, links], and the sessions it took
    links,          \* connections: link -> "new", "up" or "down"
    listed,         \* Client::connections for the address
    cached,         \* DomainClientInner::sessions for the identity
    madeSessions,   \* session -> [link, dropping, report]
    report          \* DomainClientInner::close_report: "no", "running" or "done"

clientVars == <<user, closer, links, listed, cached, madeSessions, report>>

Nobody == "none"

\* A connection and a session are named for the user who made them.
ClientInit ==
    /\ user = [u \in ClientUsers |-> [at |-> "idle", link |-> Nobody, session |-> Nobody,
                                    late |-> FALSE]]
    /\ closer = [c \in ClientClosers |-> [at |-> "idle", found |-> {}, links |-> {}, took |-> {}]]
    /\ links = [u \in ClientUsers |-> "new"]
    /\ listed = Nobody /\ cached = Nobody
    /\ madeSessions = [u \in ClientUsers |-> [link |-> Nobody, dropping |-> FALSE, report |-> "no"]]
    /\ report = "no"

GoesTo(u, at) == user' = [user EXCEPT ![u].at = at]

\* The strong references that let a weak reference upgrade.
Held(s) == \E u \in ClientUsers : user[u].session = s /\ user[u].at # "dropped"

----------------------------------------------------------------------------
(* DomainClient::authenticate, Client::connect.                            *)

LookUpSession(u) ==
    /\ user[u].at = "idle"
    /\ \/ /\ cached # Nobody /\ Held(cached)
          /\ user' = [user EXCEPT ![u].at = "has", ![u].session = cached]
       \/ /\ ~ (cached # Nobody /\ Held(cached))
          /\ GoesTo(u, "connect")
    /\ UNCHANGED <<closer, links, listed, cached, madeSessions, report>>

LookUpLink(u) ==
    /\ user[u].at = "connect"
    /\ \/ /\ listed # Nobody
          /\ user' = [user EXCEPT ![u].at = "setup", ![u].link = listed]
          /\ UNCHANGED links
       \/ /\ listed = Nobody
          /\ \/ /\ user' = [user EXCEPT ![u].at = "list", ![u].link = u]
                /\ links' = [links EXCEPT ![u] = "up"]
             \/ /\ GoesTo(u, "failed")
                /\ UNCHANGED links
    /\ UNCHANGED <<closer, listed, cached, madeSessions, report>>

\* A close has drained the list of connections, or has ended.
Drained == \E c \in ClientClosers : closer[c].at \in {"links", "reported"}

\* The write lock: whoever connected first is listed, the other connection is closed.
\* late is not in the code.
ListLink(u) ==
    /\ user[u].at = "list"
    /\ \/ /\ listed = Nobody
          /\ listed' = u
          /\ user' = [user EXCEPT ![u].at = "setup", ![u].late = Drained]
          /\ UNCHANGED links
       \/ /\ listed # Nobody
          /\ user' = [user EXCEPT ![u].at = "setup", ![u].link = listed]
          /\ links' = [links EXCEPT ![u] = "down"]
          /\ UNCHANGED listed
    /\ UNCHANGED <<closer, cached, madeSessions, report>>

\* Connection::authenticate fails on a connection that is down, or for any reason.
SetUpSession(u) ==
    /\ user[u].at = "setup"
    /\ \/ /\ links[user[u].link] = "up"
          /\ madeSessions' = [madeSessions EXCEPT ![u].link = user[u].link]
          /\ user' = [user EXCEPT ![u].at = "cache", ![u].session = u]
       \/ /\ GoesTo(u, "failed")
          /\ UNCHANGED madeSessions
    /\ UNCHANGED <<closer, links, listed, cached, report>>

\* The session replaces whatever another authenticate has cached meanwhile.
CacheSession(u) ==
    /\ user[u].at = "cache"
    /\ cached' = u
    /\ GoesTo(u, "has")
    /\ UNCHANGED <<closer, links, listed, madeSessions, report>>

DropUser(u) ==
    /\ user[u].at \notin {"idle", "logoff", "failed", "dropped", "closed"}
    /\ GoesTo(u, "dropped")
    \* A connection nobody else can reach goes with the future that made it.
    /\ links' = [links EXCEPT ![u] = IF user[u].at = "list" THEN "down" ELSE @]
    /\ UNCHANGED <<closer, listed, cached, madeSessions, report>>

----------------------------------------------------------------------------
(* SessionInner::close: one initialiser at a time; it logs off once.       *)

\* The cell runs the logoff for the first caller, and for the next when that one was
\* dropped; the flag is set once, so a repeated logoff returns at once.
BeginLogoff(u) ==
    /\ user[u].at = "has"
    /\ madeSessions[user[u].session].report = "no"
    /\ GoesTo(u, "logoff")
    /\ madeSessions' = [madeSessions EXCEPT ![user[u].session].report = "running",
                                    ![user[u].session].dropping = TRUE]
    /\ UNCHANGED <<closer, links, listed, cached, report>>

EndLogoff(u) ==
    /\ user[u].at = "logoff"
    /\ GoesTo(u, "closed")
    /\ madeSessions' = [madeSessions EXCEPT ![user[u].session].report = "done"]
    /\ UNCHANGED <<closer, links, listed, cached, report>>

\* The cell is empty again when its initialiser is dropped.
DropLogoff(u) ==
    /\ user[u].at = "logoff"
    /\ GoesTo(u, "dropped")
    /\ madeSessions' = [madeSessions EXCEPT ![user[u].session].report = "no"]
    /\ UNCHANGED <<closer, links, listed, cached, report>>

\* The report of a session that was closed before is cloned.
SessionClosed(u) ==
    /\ user[u].at = "has"
    /\ madeSessions[user[u].session].report = "done"
    /\ GoesTo(u, "closed")
    /\ UNCHANGED <<closer, links, listed, cached, madeSessions, report>>

----------------------------------------------------------------------------
(* DomainClient::close and Client::close.                                  *)

\* The cached sessions that are still held.
HeldSessions == {s \in {cached} \ {Nobody} : Held(s)}

\* Mutant of TakeSessions: whoever comes while the first one runs has its report at once.
TakeOrReport(c) ==
    /\ closer[c].at = "idle"
    /\ \/ /\ report = "no"
          /\ report' = "running"
          /\ closer' = [closer EXCEPT ![c].at = "sessions", ![c].found = HeldSessions,
                                      ![c].took = HeldSessions]
          /\ cached' = Nobody
       \/ /\ report \in {"running", "done"}
          /\ closer' = [closer EXCEPT ![c].at = "reported"]
          /\ UNCHANGED <<report, cached>>
    /\ UNCHANGED <<user, links, listed, madeSessions>>

\* The first closer takes the sessions; whoever comes later waits for its report.
TakeSessions(c) ==
    /\ closer[c].at = "idle"
    /\ \/ /\ report = "no"
          /\ report' = "running"
          /\ closer' = [closer EXCEPT ![c].at = "sessions", ![c].found = HeldSessions,
                                      ![c].took = HeldSessions]
          /\ cached' = Nobody
       \/ /\ report = "done"
          /\ closer' = [closer EXCEPT ![c].at = "reported"]
          /\ UNCHANGED <<report, cached>>
    /\ UNCHANGED <<user, links, listed, madeSessions>>

\* Each session is closed; one that its user is closing is waited for.
CloseFound(c) ==
    /\ closer[c].at = "sessions"
    /\ \E s \in closer[c].found :
          \/ /\ madeSessions[s].report = "no"
             /\ madeSessions' = [madeSessions EXCEPT ![s].dropping = TRUE, ![s].report = "done"]
             /\ closer' = [closer EXCEPT ![c].found = @ \ {s}]
          \/ /\ madeSessions[s].report = "done"
             /\ closer' = [closer EXCEPT ![c].found = @ \ {s}]
             /\ UNCHANGED madeSessions
    /\ UNCHANGED <<user, links, listed, cached, report>>

\* Client::close drains the map, then closes what it drained.
DrainLinks(c) ==
    /\ closer[c].at = "sessions" /\ closer[c].found = {}
    /\ closer' = [closer EXCEPT ![c].at = "links", ![c].links = {listed} \ {Nobody}]
    /\ listed' = Nobody
    /\ UNCHANGED <<user, links, cached, madeSessions, report>>

CloseLinks(c) ==
    /\ closer[c].at = "links"
    /\ links' = [u \in ClientUsers |-> IF u \in closer[c].links THEN "down" ELSE links[u]]
    /\ closer' = [closer EXCEPT ![c].at = "reported", ![c].links = {}]
    /\ report' = "done"
    /\ UNCHANGED <<user, listed, cached, madeSessions>>

\* What a dropped closer had drained is forgotten; the next one starts again.
DropCloser(c) ==
    /\ closer[c].at \in {"sessions", "links"}
    /\ closer' = [closer EXCEPT ![c] = [at |-> IF @.links = {} THEN "dropped" ELSE "lost",
                                        found |-> {}, links |-> {}, took |-> {}]]
    /\ report' = "no"
    /\ UNCHANGED <<user, links, listed, cached, madeSessions>>

----------------------------------------------------------------------------
UserStep(u) ==
    \/ LookUpSession(u) \/ LookUpLink(u) \/ ListLink(u) \/ SetUpSession(u) \/ CacheSession(u)
    \/ BeginLogoff(u) \/ EndLogoff(u) \/ SessionClosed(u)

CloserStep(c) == TakeSessions(c) \/ CloseFound(c) \/ DrainLinks(c) \/ CloseLinks(c)

ClientNext ==
    \/ \E u \in ClientUsers : UserStep(u) \/ DropUser(u) \/ DropLogoff(u)
    \/ \E c \in ClientClosers : CloserStep(c) \/ DropCloser(c)

ClientSpec == ClientInit /\ [][ClientNext]_clientVars

----------------------------------------------------------------------------
(* Properties.                                                             *)

\* Users of one server share one connection: whatever the order of their connects, each
\* session is on the connection the client lists, until the client is closed.
OneConnection ==
    (\A c \in ClientClosers : closer[c].at = "idle") =>
        \A u \in ClientUsers :
            /\ madeSessions[u].link \in {Nobody, listed}
            /\ user[u].at # "list" => (links[u] = "up") = (listed = u)

\* A close of the client has reported, to whichever of its callers, and none of them was
\* dropped between draining the connections and closing them: what such a caller had
\* drained is forgotten.
CloseReported ==
    /\ \E c \in ClientClosers : closer[c].at = "reported"
    /\ \A c \in ClientClosers : closer[c].at # "lost"

\* When a close of the client has reported, the sessions it took are logged off, and every
\* connection is down but one whose user had not listed it when the list was drained: it
\* is still to be listed, or was listed late.
CloseReaches ==
    CloseReported =>
        /\ \A c \in ClientClosers : closer[c].at = "reported" =>
              \A s \in closer[c].took : madeSessions[s].report = "done"
        /\ \A u \in ClientUsers : links[u] = "up" => user[u].at = "list" \/ user[u].late

\* One connection serves the users of a server, and closing the client reaches it and
\* the sessions it finds, whoever connects, logs off or is dropped meanwhile.
CloseReachesAll == OneConnection /\ CloseReaches

\* docs/architecture/async-public-interface.md: "Only `close().await` guarantees logical
\* admission closure and awaited teardown": when it has reported, no session of the client
\* is on a connection that is up.
ClientCloseIsFinal ==
    CloseReported =>
        \A u \in ClientUsers : madeSessions[u].link # Nobody => links[madeSessions[u].link] # "up"
=============================================================================
