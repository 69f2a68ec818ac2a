--------------------------- MODULE GpuMemImporter --------------------------
(***************************************************************************)
(* RxDM (buffer_mgmt_daemon/): the memory importer behind one NIC's Unix   *)
(* socket.  The plugin's processes connect, send dmabufs to register and   *)
(* handles to deregister, and may exit at any moment.  One event thread    *)
(* per NIC (UnixSocketServer) runs every handler to its end, including the *)
(* waits of the BufferManager, of which it is the only caller; when a      *)
(* client is gone or a handler failed, it takes the client's buffers back. *)
(* The daemon's main thread watches the channel and, when it is told to    *)
(* stop, destroys the importer, which takes back what is left.             *)
(*                                                                         *)
(* A connection carries one request at a time (UnixSocketClient holds its  *)
(* mutex from the send to the reply), so it is a pair of one-place cells.  *)
(***************************************************************************)
EXTENDS BufferManager

CONSTANTS Clients,   \* the connections (socket fds) of plugin processes
          server,    \* the event thread, the only caller of the BufferManager
          shutdown_when_all_clients_exited  \* the daemon's flag

ASSUME ImporterAssumption ==
  Callers = {server} /\ shutdown_when_all_clients_exited \in BOOLEAN

VARIABLES conn,      \* [Clients -> the state of the connection]
          request,   \* [Clients -> the request in flight]
          response,  \* [Clients -> the reply not yet read]
          held,      \* [Clients -> the handles the process believes it owns]
          thread,    \* where the event thread is
          mapped,    \* addr_ctxs_ of the address translator: the mapped dmabufs
          tracker,   \* client_reg_handles_: [Clients -> the buffers of the client]
          known,     \* the keys of client_reg_handles_
          connectedClients,  \* connected_clients_ of the importer
          manager,   \* where the daemon's main thread is
          shouldStop \* gShouldStop

clientVars == <<request, response, held>>
daemonVars == <<mapped, tracker, known, connectedClients>>
vars == <<bmVars, conn, clientVars, thread, daemonVars, manager, shouldStop>>

None == "none"
Loop == [at |-> "loop", client |-> None, id |-> 0]
Thread(at, p, id) == [at |-> at, client |-> p, id |-> id]
\* A request, and how far the server is with it: the read_state_ of the
\* connection is LENGTH until the length that precedes the text was read.
Request(op, h) == [op |-> op, handle |-> h, read_state |-> "LENGTH"]
NoRequest == Request(None, 0)
NoResponse == [op |-> None, ok |-> FALSE, handle |-> 0]
Open(p) == conn[p] \in {"connecting", "connected"}

Init ==
  /\ BMInit
  /\ conn = [p \in Clients |-> None]
  /\ request = [p \in Clients |-> NoRequest] /\ response = [p \in Clients |-> NoResponse]
  /\ held = [p \in Clients |-> {}]
  /\ thread = Loop
  /\ mapped = {} /\ tracker = [p \in Clients |-> {}] /\ known = {} /\ connectedClients = {}
  /\ manager = "starting" /\ shouldStop = FALSE

-----------------------------------------------------------------------------
(* The plugin's processes: BufferManagerClient over UnixSocketClient.      *)

\* The kernel completes connect() before the server accepts.
Connect(p) ==
  /\ conn[p] = None /\ response[p] = NoResponse /\ manager \in {"starting", "running"}
  /\ conn' = [conn EXCEPT ![p] = "connecting"]
  /\ UNCHANGED <<bmVars, clientVars, thread, daemonVars, manager, shouldStop>>

\* MakeRequest: the caller then waits for the reply.
RegBuf(p) ==
  /\ Open(p) /\ request[p] = NoRequest /\ response[p] = NoResponse
  /\ nextReq + Cardinality({q \in Clients : request[q].op = "reg"}) <= MaxRequests
  /\ request' = [request EXCEPT ![p] = Request("reg", 0)]
  /\ UNCHANGED <<bmVars, conn, response, held, thread, daemonVars, manager, shouldStop>>

DeregBuf(p) ==
  /\ Open(p) /\ request[p] = NoRequest /\ response[p] = NoResponse
  /\ \E h \in held[p] : request' = [request EXCEPT ![p] = Request("dereg", h)]
  /\ UNCHANGED <<bmVars, conn, response, held, thread, daemonVars, manager, shouldStop>>

ReadResponse(p) ==
  /\ response[p] # NoResponse
  /\ response' = [response EXCEPT ![p] = NoResponse]
  /\ held' = [held EXCEPT ![p] = IF conn[p] = None \/ ~response[p].ok THEN @
                                 ELSE IF response[p].op = "reg"
                                   THEN @ \union {response[p].handle}
                                   ELSE @ \ {response[p].handle}]
  /\ UNCHANGED <<bmVars, conn, request, thread, daemonVars, manager, shouldStop>>

\* The process exits, or crashes, with a request in flight or not.
HangUp(p) ==
  /\ Open(p)
  /\ conn' = [conn EXCEPT ![p] = "hungup"]
  /\ response' = [response EXCEPT ![p] = NoResponse]
  /\ held' = [held EXCEPT ![p] = {}]
  /\ UNCHANGED <<bmVars, request, thread, daemonVars, manager, shouldStop>>

-----------------------------------------------------------------------------
(* The event thread.                                                       *)

HandleListener(p) ==
  /\ thread = Loop /\ manager \in {"starting", "running"}
  /\ conn[p] = "connecting"
  /\ conn' = [conn EXCEPT ![p] = "connected"]
  /\ UNCHANGED <<bmVars, clientVars, thread, daemonVars, manager, shouldStop>>

\* A client became readable for the first time in this request: Receive reads
\* the length and there is no message yet.  The thread returns to its loop, and
\* the text, with the dmabuf, is read on the next event of the client.
Receive(p) ==
  /\ thread = Loop /\ manager \in {"starting", "running"}
  /\ conn[p] \in {"connected", "hungup"}
  /\ request[p].op # None /\ request[p].read_state = "LENGTH"
  /\ request' = [request EXCEPT ![p].read_state = "PAYLOAD"]
  /\ UNCHANGED <<bmVars, conn, response, held, thread, daemonVars, manager, shouldStop>>

\* Send: the length and the text of the reply reach the client, in one go or in
\* parts, or, when the client is no longer there, neither does.
Send(p, r) == response' = [response EXCEPT ![p] = IF Open(p) THEN r ELSE NoResponse]

\* The reply to a handled request.  An error, or a reply the client is no
\* longer there to read, ends the connection: CleanUp follows in HandleClient.
Respond(p, op, ok, h) ==
  /\ request' = [request EXCEPT ![p] = NoRequest]
  /\ Send(p, [op |-> op, ok |-> ok, handle |-> h])
  /\ thread' = IF ok /\ Open(p) THEN Loop ELSE Thread("cleanup", p, 0)

\* The address translator.
Map(id) == mapped' = mapped \union {id}
Unmap(id) == mapped' = mapped \ {id}

\* The resource tracker.
RegisterClient(p) == known' = known \union {p}
UnregisterClient(p) == known' = known \ {p}
GetDmabufId(p, h) == {e.id : e \in {x \in tracker[p] : x.handle = h}}
Trackable(p, h) == p \in known /\ GetDmabufId(p, h) = {}
TrackBuffer(p, id, h) == tracker' = [tracker EXCEPT ![p] = @ \union {[handle |-> h, id |-> id]}]
UntrackBuffer(p, id) == tracker' = [tracker EXCEPT ![p] = {e \in @ : e.id # id}]

\* The part of every request before HandleRequest: the client is known to the
\* tracker and to the importer from its first request on.
AddConnectedClient(p) ==
  /\ RegisterClient(p)
  /\ connectedClients' = connectedClients \union {p}

Handles(p, op) ==
  /\ thread = Loop /\ manager \in {"starting", "running"}
  /\ conn[p] \in {"connected", "hungup"}
  /\ request[p].op = op /\ request[p].read_state = "PAYLOAD"

\* HandleRegBuffer up to the call of RegBuffer: the dmabuf is mapped and its
\* iovecs, which may take several messages, are read.  (The driver maps a dmabuf
\* to one iovec at least.)
HandleRegBuffer(p) ==
  /\ Handles(p, "reg")
  /\ AddConnectedClient(p)
  /\ Map(nextReq)
  /\ \E n \in 1 .. MaxChunks : RegBuffer(server, n)
  /\ thread' = Thread("reg", p, nextReq)
  /\ UNCHANGED <<conn, clientVars, tracker, manager, shouldStop>>

\* Map or GetIovecs fails, or the request does not parse.
RejectRequest(p) ==
  /\ Handles(p, "reg")
  /\ AddConnectedClient(p)
  /\ Respond(p, "reg", FALSE, 0)
  /\ UNCHANGED <<bmVars, conn, held, mapped, tracker, manager, shouldStop>>

\* HandleRegBuffer after RegBuffer: TrackBuffer, and the reply.  On any error the
\* dmabuf is unmapped again.
FinishRegBuffer ==
  /\ thread.at = "reg" /\ call[server].step = "idle"
  /\ LET p == thread.client
         h == ret[server].got
         ok == h # 0 /\ Trackable(p, h)
     IN /\ IF ok THEN TrackBuffer(p, thread.id, h) /\ mapped' = mapped
                 ELSE Unmap(thread.id) /\ tracker' = tracker
        /\ Respond(p, "reg", ok, h)
  /\ UNCHANGED <<bmVars, conn, held, known, connectedClients, manager, shouldStop>>

\* HandleDeregBuffer up to the call of DeregBuffer: the handle must be one the
\* tracker has for this client.
HandleDeregBuffer(p) ==
  /\ Handles(p, "dereg")
  /\ AddConnectedClient(p)
  /\ \/ \E id \in GetDmabufId(p, request[p].handle) :
          /\ DeregBuffer(server, request[p].handle)
          /\ thread' = Thread("dereg", p, id)
          /\ UNCHANGED <<request, response>>
     \/ /\ GetDmabufId(p, request[p].handle) = {}
        /\ Respond(p, "dereg", FALSE, request[p].handle)
        /\ UNCHANGED bmVars
  /\ UNCHANGED <<conn, held, mapped, tracker, manager, shouldStop>>

\* HandleDeregBuffer after DeregBuffer: an error leaves the buffer mapped and
\* tracked, for CleanUp.  UntrackBuffer closes the dmabuf before it forgets it;
\* when close() fails the buffer, unmapped, is left to CleanUp too.
FinishDeregBuffer ==
  /\ thread.at = "dereg" /\ call[server].step = "idle"
  /\ \E ok \in {TRUE, FALSE} :
       /\ \/ /\ ret[server].got # 0 /\ Unmap(thread.id)
             /\ IF ok THEN UntrackBuffer(thread.client, thread.id) ELSE tracker' = tracker
          \/ ret[server].got = 0 /\ ~ok /\ UNCHANGED <<mapped, tracker>>
       /\ Respond(thread.client, "dereg", ok, ret[server].req)
  /\ UNCHANGED <<bmVars, conn, held, known, connectedClients, manager, shouldStop>>

\* HandleClient on EPOLLHUP, or when Receive reads the end of the stream.  A
\* request still in the socket is dropped: Receive reads its length only, and
\* the clean-up follows in the same call; or its length was read before and the
\* client went away before it sent the text.  (A request whose text is there
\* and whose length was read before is handled first, by the actions above.)
HandleHangUp(p) ==
  /\ thread = Loop /\ manager \in {"starting", "running"}
  /\ conn[p] = "hungup"
  /\ thread' = Thread("cleanup", p, 0)
  /\ UNCHANGED <<bmVars, conn, clientVars, daemonVars, manager, shouldStop>>

CleanUpUnmapsFirst ==                                        \* mutant
  /\ thread.at = "cleanup" /\ call[server].step = "idle"
  /\ \E e \in tracker[thread.client] :
       /\ DeregBuffer(server, e.handle)
       /\ Unmap(e.id)
       /\ thread' = Thread("cleanDereg", thread.client, e.id)
  /\ UNCHANGED <<conn, clientVars, tracker, known, connectedClients, manager, shouldStop>>

\* CleanUp: for every handle of the client in turn, DeregBuffer ...
CleanUpDeregs ==
  /\ thread.at = "cleanup" /\ call[server].step = "idle"
  /\ \E e \in tracker[thread.client] :
       /\ DeregBuffer(server, e.handle)
       /\ thread' = Thread("cleanDereg", thread.client, e.id)
  /\ UNCHANGED <<conn, clientVars, daemonVars, manager, shouldStop>>

CleanUpRetries ==                                            \* mutant
  /\ thread.at = "cleanDereg" /\ call[server].step = "idle"
  /\ IF ret[server].got # 0
       THEN Unmap(thread.id) /\ UntrackBuffer(thread.client, thread.id)
       ELSE UNCHANGED <<mapped, tracker>>
  /\ thread' = Thread("cleanup", thread.client, 0)
  /\ UNCHANGED <<bmVars, conn, clientVars, known, connectedClients, manager, shouldStop>>

\* ... and, whatever it returned, Unmap and UntrackBuffer.  (A close() that fails
\* there is logged; the loop goes on to the next handle, and UnregisterClient
\* drops the entry before anyone looks at it again.)
CleanUpUnmaps ==
  /\ thread.at = "cleanDereg" /\ call[server].step = "idle"
  /\ Unmap(thread.id)
  /\ UntrackBuffer(thread.client, thread.id)
  /\ thread' = Thread("cleanup", thread.client, 0)
  /\ UNCHANGED <<bmVars, conn, clientVars, known, connectedClients, manager, shouldStop>>

CleanUpStopsEarly ==                                         \* mutant
  /\ thread.at = "cleanup"
  /\ known' = known \ {thread.client}
  /\ connectedClients' = connectedClients \ {thread.client}
  /\ conn' = [conn EXCEPT ![thread.client] = None]
  /\ request' = [request EXCEPT ![thread.client] = NoRequest]
  /\ held' = [held EXCEPT ![thread.client] = {}]
  /\ thread' = Loop
  /\ UNCHANGED <<bmVars, response, mapped, tracker, manager, shouldStop>>

\* UnregisterClient ends CleanUp.  On the event thread RemoveConnectedClient
\* then forgets the client, asks the daemon to stop if it was the last one, and
\* the server closes the connection.
CleanUpEnds ==
  /\ thread.at = "cleanup" /\ tracker[thread.client] = {}
  /\ LET p == thread.client IN
     /\ UnregisterClient(p)
     /\ IF manager = "stopping"
          THEN UNCHANGED <<connectedClients, shouldStop, conn, request, held>>
          ELSE /\ connectedClients' = connectedClients \ {p}
               /\ shouldStop' = (shouldStop \/ (shutdown_when_all_clients_exited /\ connectedClients' = {}))
               /\ conn' = [conn EXCEPT ![p] = None]
               /\ request' = [request EXCEPT ![p] = NoRequest]
               /\ held' = [held EXCEPT ![p] = {}]
  /\ thread' = Loop
  /\ UNCHANGED <<bmVars, response, mapped, tracker, manager>>

-----------------------------------------------------------------------------
(* The main thread of the daemon: FasTrakGpuMemManager::Run.               *)

\* The servers are already up when gShouldStop is cleared.
EnterRunLoop ==
  /\ manager = "starting"
  /\ manager' = "running" /\ shouldStop' = FALSE
  /\ UNCHANGED <<bmVars, conn, clientVars, thread, daemonVars>>

\* A signal, or the health check of the DXS clients.
StopGpuMemManager ==
  /\ manager = "running" /\ ~shouldStop
  /\ shouldStop' = TRUE
  /\ UNCHANGED <<bmVars, conn, clientVars, thread, daemonVars, manager>>

\* ~FasTrakGpuMemImporter: Stop joins the event thread between two events and
\* closes the connections ...
StopServer ==
  /\ manager = "running" /\ shouldStop /\ thread = Loop
  /\ manager' = "stopping"
  /\ conn' = [p \in Clients |-> None]
  /\ request' = [p \in Clients |-> NoRequest] /\ response' = [p \in Clients |-> NoResponse]
  /\ held' = [p \in Clients |-> {}]
  /\ UNCHANGED <<bmVars, thread, daemonVars, shouldStop>>

\* ... then CleanUp runs for every client of the tracker.
DestructorCleansUp ==
  /\ manager = "stopping" /\ thread = Loop
  /\ \E p \in Clients : p \in known /\ thread' = Thread("cleanup", p, 0)
  /\ UNCHANGED <<bmVars, conn, clientVars, daemonVars, manager, shouldStop>>

Stopped ==
  /\ manager = "stopping" /\ thread = Loop /\ known = {}
  /\ manager' = "stopped"
  /\ UNCHANGED <<bmVars, conn, clientVars, thread, daemonVars, shouldStop>>

-----------------------------------------------------------------------------
Serve(p) ==
  \/ HandleListener(p) \/ Receive(p) \/ HandleRegBuffer(p) \/ RejectRequest(p)
  \/ HandleDeregBuffer(p) \/ HandleHangUp(p)

ThreadStep ==
  \/ FinishRegBuffer \/ FinishDeregBuffer
  \/ CleanUpDeregs \/ CleanUpUnmaps \/ CleanUpEnds \/ DestructorCleansUp \/ Stopped

Within(A) == A /\ UNCHANGED <<conn, clientVars, thread, daemonVars, manager, shouldStop>>

Next ==
  \/ \E p \in Clients :
       \/ Connect(p) \/ RegBuf(p) \/ DeregBuf(p) \/ ReadResponse(p) \/ HangUp(p)
       \/ Serve(p)
  \/ ThreadStep
  \/ EnterRunLoop \/ StopGpuMemManager \/ StopServer
  \/ Within(CallSteps(server)) \/ Within(ChannelSteps)

Spec == Init /\ [][Next]_vars

\* The event thread does not stop, a wait ends at the latest with its timeout,
\* and epoll_wait reports every client with something to handle each time.
Fairness ==
  /\ WF_vars(ThreadStep) /\ WF_vars(Within(CallSteps(server)))
  /\ \A p \in Clients : SF_vars(Serve(p))

FairSpec == Spec /\ Fairness

-----------------------------------------------------------------------------
\* Type correctness.  Only a client the tracker knows (RegisterClient) has
\* buffers in client_reg_handles_.
TypeOK ==
  /\ BMTypeOK
  /\ conn \in [Clients -> {None, "connecting", "connected", "hungup"}]
  /\ request \in [Clients -> [op : {None, "reg", "dereg"}, handle : 0 .. MaxRequests,
                           read_state : {"LENGTH", "PAYLOAD"}]]
  /\ response \in [Clients -> [op : {None, "reg", "dereg"}, ok : BOOLEAN, handle : 0 .. MaxRequests]]
  /\ held \in [Clients -> SUBSET Requests]
  /\ thread \in [at : {"loop", "reg", "dereg", "cleanup", "cleanDereg"},
                 client : Clients \union {None}, id : 0 .. MaxRequests]
  /\ mapped \subseteq Requests
  /\ tracker \in [Clients -> SUBSET [handle : Requests, id : Requests]]
  /\ known \subseteq Clients /\ connectedClients \subseteq Clients
  /\ \A p \in Clients : tracker[p] # {} => p \in known
  /\ manager \in {"starting", "running", "stopping", "stopped"} /\ shouldStop \in BOOLEAN

\* The event thread is taking client p's buffer e back.
BeingReleased(p, e) ==
  /\ thread.client = p
  /\ \/ thread.at = "dereg" /\ thread.id = e.id
     \/ thread.at \in {"cleanup", "cleanDereg"}

\* A buffer a client was given a handle for stays usable: the handle is the one
\* DXS gave for that dmabuf, and until the importer starts to take it back, the
\* dmabuf is mapped and DXS has it registered.  Acks of calls that timed out, of
\* this client or of one long gone, do not change that.
TrackedIsUsable ==
  \A p \in Clients : \A e \in tracker[p] :
    /\ e.handle = e.id
    /\ (e.id \in mapped /\ e.handle \in dxs.registered) \/ BeingReleased(p, e)

\* As long as DXS answers in time, it never has a buffer registered whose
\* dmabuf the importer has unmapped: not while a client is cleaned up, not
\* after a rejected registration.
MappedWhileRegistered ==
  (~late /\ linkUp) => dxs.registered \subseteq mapped

\* A process that exits, even with a request in flight, has all its buffers
\* taken back, whether DXS answers or not.
BuffersReleased ==
  \A p \in Clients : conn[p] = "hungup" ~> tracker[p] = {} /\ p \notin known

\* A client is never left waiting: its request is answered or its connection
\* closed, even when DXS stays silent.
RequestAnswered ==
  \A p \in Clients : request[p] # NoRequest ~> request[p] = NoRequest
=============================================================================
