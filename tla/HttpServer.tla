------------------------------ MODULE HttpServer ------------------------------
(***************************************************************************)
(* The HTTP server (src/core/http/server/http_server.cpp) and the equipment*)
(* WebSocket behind it. A session is a chain of asynchronous operations:   *)
(* handshake, read, dispatch, write, and after an upgrade a read that is   *)
(* always outstanding and a write when the socket's queue holds a message. *)
(* The frame loop calls Poll, which starts the writes, checks now and then *)
(* that the credential of a socket still holds, and drops ended sessions.  *)
(***************************************************************************)
EXTENDS Integers, FiniteSets, Sequences

CONSTANTS Slots,       \* accepted connections
          Addresses,   \* where they come from
          MaxConnections, \* MAX_CONCURRENT_CONNECTIONS
          MaxPerIp,    \* MAX_CONNECTIONS_PER_IP
          MaxQueue,    \* MAX_MESSAGE_QUEUE_SIZE
          Interval,    \* WS_REVALIDATE_INTERVAL
          MaxNews      \* bound on the events of a behaviour

ASSUME HttpServerAssumption ==
  MaxConnections \in Nat /\ MaxPerIp \in Nat /\ MaxQueue \in Nat \ {0} /\ Interval \in Nat \ {0} /\ MaxNews \in Nat

VARIABLES serving,   \* m_Running
          secured,   \* accounts are on, so that an upgrade is given a revalidator
          sess,      \* m_Sessions, by slot
          queues,    \* m_Connections of the equipment socket: the queue of each open one
          trusted,   \* sockets whose credential the subject resolver still accepts
          news,      \* events broadcast so far
          owed,      \* the last event broadcast while the socket was open (history)
          got        \* the last event written to the client (history)

webVars == <<serving, secured, sess, queues, trusted, news, owed, got>>

\* HttpSessionState: what it waits for; header: the upgrade carried its
\* credential in the Authorization header, which the revalidator does not keep
Free == [st |-> "free", ip |-> "", header |-> FALSE, tick |-> 0, writing |-> FALSE, msg |-> 0]
States == {"free", "handshake", "read", "busy", "write", "shutdown", "accept", "ws", "done"}

Dead(c) == sess[c].st \in {"free", "done"}

\* MarkDone: the handler is forgotten, the session waits to be erased
Done(s) == [s EXCEPT !.st = "done"]

At(c, s) == sess' = [sess EXCEPT ![c] = s]

\* a mutant of the next: an error leaves the queue behind
UnregisterNothing(c) == UNCHANGED queues

\* OnClose and OnError of the socket: its queue goes
Unregister(c) == queues' = [q \in DOMAIN queues \ {c} |-> queues[q]]

HttpKeeps == UNCHANGED <<serving, secured, trusted, news, owed, got>>

-----------------------------------------------------------------------------
(* HTTP                                                                    *)

\* OnAccept: ended sessions are erased before the limits are looked at; tls
\* decides what Start begins with
OnAccept(ip, tls) ==
  LET live == {c \in Slots : ~Dead(c)} IN
  /\ serving
  /\ IF Cardinality(live) >= MaxConnections \/ Cardinality({c \in live : sess[c].ip = ip}) >= MaxPerIp
       THEN sess' = [c \in Slots |-> IF Dead(c) THEN Free ELSE sess[c]]
       ELSE \E c \in Slots : Dead(c) /\
              sess' = [d \in Slots |-> IF d = c THEN [Free EXCEPT !.st = IF tls THEN "handshake" ELSE "read", !.ip = ip]
                                       ELSE IF Dead(d) THEN Free ELSE sess[d]]
  /\ UNCHANGED queues /\ HttpKeeps

OnSslHandshake(c, ok) ==
  /\ sess[c].st = "handshake"
  /\ At(c, IF ok THEN [sess[c] EXCEPT !.st = "read"] ELSE Done(sess[c]))
  /\ UNCHANGED queues /\ HttpKeeps

\* OnRead with ProcessRequest: an upgrade that is authorised is accepted, one
\* that is not is answered, everything else goes to the dispatcher
OnRead(c, what) ==
  /\ sess[c].st = "read"
  /\ At(c, CASE what \in {"error", "eof"} -> Done(sess[c])
             [] what = "shutdown" -> [sess[c] EXCEPT !.st = "shutdown"]
             [] what = "request" -> [sess[c] EXCEPT !.st = "busy"]
             [] what = "refused" -> [sess[c] EXCEPT !.st = "write"]
             [] what \in {"upgrade", "upgradeByHeader"} -> [sess[c] EXCEPT !.st = "accept", !.header = what = "upgradeByHeader"])
  /\ what \in {"upgrade", "upgradeByHeader"} /\ secured => c \in trusted
  /\ UNCHANGED queues /\ HttpKeeps

\* the dispatcher's completion: at once, or later for a route that hashes;
\* DoWrite ignores it once the session is done
Respond_(c) ==
  /\ sess[c].st = "busy"
  /\ At(c, [sess[c] EXCEPT !.st = "write"])
  /\ UNCHANGED queues /\ HttpKeeps

\* OnWrite; without keep-alive DoClose shuts the connection down
OnWrite(c, what) ==
  /\ sess[c].st = "write"
  /\ At(c, CASE what \in {"error", "close"} -> Done(sess[c])
             [] what = "shutdown" -> [sess[c] EXCEPT !.st = "shutdown"]
             [] what = "again" -> [sess[c] EXCEPT !.st = "read"])
  /\ UNCHANGED queues /\ HttpKeeps

\* DoClose: the TLS shutdown has ended, one way or another
OnShutdown(c) ==
  /\ sess[c].st = "shutdown"
  /\ At(c, Done(sess[c]))
  /\ UNCHANGED queues /\ HttpKeeps

-----------------------------------------------------------------------------
(* The equipment socket                                                    *)

\* OnWsAccept: OnOpen registers the connection and queues the system's state
OnWsAccept(c, ok) ==
  /\ sess[c].st = "accept"
  /\ IF ok THEN /\ At(c, [sess[c] EXCEPT !.st = "ws"])
                /\ queues' = [d \in DOMAIN queues \cup {c} |-> IF d = c THEN <<0>> ELSE queues[d]]
                /\ owed' = [owed EXCEPT ![c] = 0] /\ got' = [got EXCEPT ![c] = 0]
     ELSE At(c, Done(sess[c])) /\ UNCHANGED <<queues, owed, got>>
  /\ UNCHANGED <<serving, secured, trusted, news>>

\* the peer closes the socket or the read fails. The stream reports its real
\* error to the first operation that completes, so a later one is ignored
OnWsRead(c) ==
  /\ sess[c].st = "ws"
  /\ At(c, Done(sess[c]))
  /\ Unregister(c) /\ HttpKeeps

\* DequeueMessage
Dequeue(c, s) ==
  IF s.writing \/ c \notin DOMAIN queues \/ queues[c] = <<>> THEN s
  ELSE [s EXCEPT !.writing = TRUE, !.msg = Head(queues[c])]

Taken(c, s) == ~s.writing /\ c \in DOMAIN queues /\ queues[c] # <<>>

\* OnWsWrite without an error starts the next write
OnWsWrite(c) ==
  LET idle == [sess[c] EXCEPT !.writing = FALSE] IN
  /\ sess[c].st = "ws" /\ sess[c].writing
  /\ got' = [got EXCEPT ![c] = sess[c].msg]
  /\ At(c, Dequeue(c, idle))
  /\ queues' = IF Taken(c, idle) THEN [queues EXCEPT ![c] = Tail(@)] ELSE queues
  /\ UNCHANGED <<serving, secured, trusted, news, owed>>

OnWsWriteFails(c) ==
  /\ sess[c].st = "ws" /\ sess[c].writing
  /\ At(c, Done(sess[c]))
  /\ Unregister(c) /\ HttpKeeps

\* a mutant of the next: a full queue drops what is new
PushDroppingNewest(q, e) == IF Len(q) >= MaxQueue THEN q ELSE Append(q, e)

\* a full queue drops what is oldest
Push(q, e) == Append(IF Len(q) >= MaxQueue THEN Tail(q) ELSE q, e)

\* Broadcast: an event of the hubs, to every open socket
Broadcast ==
  /\ news < MaxNews
  /\ news' = news + 1
  /\ queues' = [c \in DOMAIN queues |-> Push(queues[c], news + 1)]
  /\ owed' = [c \in Slots |-> IF c \in DOMAIN queues THEN news + 1 ELSE owed[c]]
  /\ UNCHANGED <<serving, secured, sess, trusted, got>>

-----------------------------------------------------------------------------
(* The frame loop                                                          *)

\* a mutant of the next: the count stops one short of the interval
TickSaturating(s) == IF secured /\ s.tick < Interval - 1 THEN s.tick + 1 ELSE s.tick

\* HttpSessionState::Poll, as far as the count of polls goes
WsTick(s) == IF secured THEN s.tick + 1 ELSE s.tick

\* a mutant of the next: it resolves the credential of any socket
RevokedAny(c) == secured /\ \E d \in Slots : d \notin trusted

\* the revalidator resolves the credential again; one that came in the
\* Authorization header is not there to resolve
Revoked(c) == secured /\ (c \notin trusted \/ sess[c].header)

\* HttpServer::Poll: every session once, then the ended ones are erased
PollServer ==
  LET ws == {c \in Slots : sess[c].st = "ws"}
      checked == {c \in ws : WsTick(sess[c]) >= Interval}
      closed == {c \in checked : Revoked(c)}
      ticked(c) == [sess[c] EXCEPT !.tick = IF c \in checked THEN 0 ELSE WsTick(sess[c])]
  IN /\ serving
     /\ sess' = [c \in Slots |-> CASE Dead(c) \/ c \in closed -> Free
                                   [] c \in ws \ closed -> Dequeue(c, ticked(c))
                                   [] OTHER -> sess[c]]
     /\ queues' = [c \in DOMAIN queues \ closed |->
                     IF c \in ws /\ Taken(c, sess[c]) THEN Tail(queues[c]) ELSE queues[c]]
     /\ HttpKeeps

\* Stop: every session is closed, none of the sockets is told
StopServer ==
  /\ serving
  /\ serving' = FALSE
  /\ sess' = [c \in Slots |-> Free]
  /\ UNCHANGED <<secured, queues, trusted, news, owed, got>>

\* a token expires, an account is disabled; a new connection brings another one
TrustChanges(c) ==
  /\ serving
  /\ trusted' = (IF c \in trusted THEN trusted \ {c} ELSE trusted \cup {c})
  /\ c \notin trusted => sess[c].st # "ws"
  /\ UNCHANGED <<serving, secured, sess, queues, news, owed, got>>

WebInit ==
  /\ serving = TRUE /\ secured \in BOOLEAN
  /\ sess = [c \in Slots |-> Free]
  /\ queues = [c \in {} |-> <<>>]
  /\ trusted = Slots
  /\ news = 0
  /\ owed = [c \in Slots |-> 0] /\ got = [c \in Slots |-> 0]

HttpSteps(c) ==
  \/ \E ok \in BOOLEAN : OnSslHandshake(c, ok) \/ OnWsAccept(c, ok)
  \/ \E what \in {"error", "eof", "shutdown", "request", "refused", "upgrade", "upgradeByHeader"} : OnRead(c, what)
  \/ Respond_(c)
  \/ \E what \in {"error", "close", "shutdown", "again"} : OnWrite(c, what)
  \/ OnShutdown(c)
  \/ OnWsRead(c)
  \/ TrustChanges(c)

WsWriteEnds(c) == OnWsWrite(c) \/ OnWsWriteFails(c)

WebNext ==
  \/ \E ip \in Addresses, tls \in BOOLEAN : OnAccept(ip, tls)
  \/ \E c \in Slots : HttpSteps(c) \/ WsWriteEnds(c)
  \/ Broadcast
  \/ PollServer
  \/ StopServer

\* The frame loop polls as long as it runs; a write ends, if only by the
\* timeouts armed on the stream.
WebFairness == WF_webVars(PollServer) /\ \A c \in Slots : WF_webVars(WsWriteEnds(c))
WebSpec == WebInit /\ [][WebNext]_webVars /\ WebFairness

-----------------------------------------------------------------------------
(* Properties                                                              *)

WebTypeOK ==
  /\ \A c \in Slots : sess[c].st \in States /\ sess[c].tick \in 0 .. Interval - 1 /\ sess[c].msg \in 0 .. MaxNews
  /\ DOMAIN queues \subseteq Slots
  /\ \A c \in DOMAIN queues : Len(queues[c]) <= MaxQueue
  /\ trusted \subseteq Slots

\* Every queue the events are copied into belongs to a socket that is open,
\* whichever way sockets end: none is left to fill up for nobody.
NoOrphans == serving => \A c \in DOMAIN queues : sess[c].st = "ws"

\* Every socket is polled into sending the newest event it was open for,
\* however full its queue got, unless it ends.
NewsArrive == \A c \in Slots : []<>(got[c] = owed[c] \/ sess[c].st # "ws" \/ ~serving)

\* The events of a socket are written in order.
NewsInOrder == [][\A c \in Slots : sess[c].st = "ws" /\ sess[c]'.st = "ws" => got[c]' >= got[c]]_webVars

\* No socket whose credential is revoked is served for ever: the polls that
\* follow find out and close it.
RevokedSocketCloses ==
  \A c \in Slots : []<>(~secured \/ sess[c].st # "ws" \/ c \in trusted \/ ~serving)

\* The server itself closes only a socket whose credential no longer holds,
\* or one whose credential it did not keep.
GoodSocketsStay ==
  [][\A c \in Slots : PollServer /\ sess[c].st = "ws" /\ sess[c]'.st # "ws" => c \notin trusted \/ sess[c].header]_webVars

\* Sockets and event queues keep together.
SocketsSafe == WebTypeOK /\ NoOrphans

\* A socket that stays open gets its events in order and up to the newest; it
\* is closed when its credential is revoked and not otherwise.
SocketsServed == NewsArrive /\ NewsInOrder /\ RevokedSocketCloses /\ GoodSocketsStay
=============================================================================
