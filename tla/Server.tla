-------------------------------- MODULE Server --------------------------------
(***************************************************************************)
(* The downstream server (internal/modbus/server.go): Listen, the accept   *)
(* loop of Serve, one goroutine of handleConn per client connection, Close *)
(* and Wait.  Each critical section of s.mu is one step.                   *)
(*                                                                         *)
(* Clients and the network are external: a client connects, sends valid or *)
(* invalid requests, stops reading, or goes away, at any time.  A          *)
(* connection is used once, so Conns bounds how many clients connect.      *)
(***************************************************************************)
EXTENDS Naturals

CONSTANTS Conns, None

ASSUME ServerAssumption == None \notin Conns

VARIABLES
    listener,       \* s.listener: "none", "open" or "closed"
    serve,          \* where the goroutine of Listen and Serve is
    conn,           \* Serve's local variable
    shutdown, conns,
    wg,             \* the connections the wait group counts
    closer,         \* where the goroutine of Close and Wait is
    handler,        \* where handleConn of each connection is
    ctxDone,        \* the context given to Serve is done
    socket          \* external: each client's connection, "fresh", "queued" for
                    \* Accept, "open", "gone" (the client left) or "closed" by us

serveVars == <<listener, serve, conn>>
connVars  == <<shutdown, conns, wg>>
vars      == <<serveVars, connVars, closer, handler, ctxDone, socket>>

Init ==
    /\ listener = "none" /\ serve = "idle" /\ conn = None
    /\ shutdown = FALSE /\ conns = {} /\ wg = {}
    /\ closer = "idle"
    /\ handler = [c \in Conns |-> "none"]
    /\ ctxDone = FALSE
    /\ socket = [c \in Conns |-> "fresh"]

-----------------------------------------------------------------------------
(* External: clients, and whoever cancels the context. *)

Dial(c) ==
    /\ socket[c] = "fresh" /\ listener = "open"
    /\ socket' = [socket EXCEPT ![c] = "queued"]
    /\ UNCHANGED <<serveVars, connVars, closer, handler, ctxDone>>

HangUp(c) ==
    /\ socket[c] = "open"
    /\ socket' = [socket EXCEPT ![c] = "gone"]
    /\ UNCHANGED <<serveVars, connVars, closer, handler, ctxDone>>

Cancel ==
    /\ ~ctxDone /\ ctxDone' = TRUE
    /\ UNCHANGED <<serveVars, connVars, closer, handler, socket>>

-----------------------------------------------------------------------------
(* Listen and Serve. *)

Listen ==
    /\ serve = "idle"
    /\ \/ listener' = "open" /\ serve' = "listening"
       \/ listener' = listener /\ serve' = "failed"
    /\ UNCHANGED <<conn, connVars, closer, handler, ctxDone, socket>>

StartServe ==
    /\ serve = "listening" /\ serve' = "accept"
    /\ UNCHANGED <<listener, conn, connVars, closer, handler, ctxDone, socket>>

Accept(c) ==
    /\ serve = "accept" /\ listener = "open"
    /\ socket[c] = "queued"
    /\ socket' = [socket EXCEPT ![c] = "open"]
    /\ serve' = "accepted" /\ conn' = c
    /\ UNCHANGED <<listener, connVars, closer, handler, ctxDone>>

\* Accept may fail at any time, and fails once the listener is closed.
AcceptFails ==
    /\ serve = "accept" /\ serve' = "error"
    /\ UNCHANGED <<listener, conn, connVars, closer, handler, ctxDone, socket>>

\* Defect: the error is taken for a passing one.
AcceptAgain ==
    /\ serve = "error" /\ serve' = "accept"
    /\ UNCHANGED <<listener, conn, connVars, closer, handler, ctxDone, socket>>

AcceptFailed ==
    /\ serve = "error"
    /\ serve' = IF shutdown THEN "returned" ELSE "accept"
    /\ UNCHANGED <<listener, conn, connVars, closer, handler, ctxDone, socket>>

\* Defect: the flag is not read again under the lock.
RegisterUnchecked ==
    /\ serve = "accepted" /\ serve' = "registered"
    /\ conns' = conns \cup {conn}
    /\ UNCHANGED <<listener, conn, shutdown, wg, closer, handler, ctxDone, socket>>

Register ==
    /\ serve = "accepted"
    /\ \/ /\ shutdown
          /\ socket' = [socket EXCEPT ![conn] = "closed"]
          /\ serve' = "returned" /\ UNCHANGED conns
       \/ /\ ~shutdown
          /\ conns' = conns \cup {conn}
          /\ serve' = "registered" /\ UNCHANGED socket
    /\ UNCHANGED <<listener, conn, shutdown, wg, closer, handler, ctxDone>>

\* wg.Add(1), after the lock was given up, and go s.handleConn.
Spawn ==
    /\ serve = "registered" /\ serve' = "accept"
    /\ wg' = wg \cup {conn}
    /\ handler' = [handler EXCEPT ![conn] = "loop"]
    /\ UNCHANGED <<listener, conn, shutdown, conns, closer, ctxDone, socket>>

-----------------------------------------------------------------------------
(* handleConn. *)

\* A step of handleConn that only moves on.
Moves(c, from, to) ==
    /\ handler[c] = from
    /\ handler' = [handler EXCEPT ![c] = to]
    /\ UNCHANGED <<serveVars, connVars, closer, ctxDone, socket>>

LoopHead(c) == Moves(c, "loop", IF ctxDone THEN "close" ELSE "read")

\* readRequest: a request arrives; or the connection ends, is closed, sends
\* what is no request, or is silent until the read deadline.
ReadRequest(c) == socket[c] \in {"open", "gone"} /\ Moves(c, "read", "handle")
ReadFails(c)   == Moves(c, "read", "close")

\* HandleRequest returns a response or an error, which becomes an exception.
HandlerReturns(c) == Moves(c, "handle", "write")

\* writeResponse: without a write deadline, it blocks while an open
\* connection's client does not read.
WriteResponse(c) == socket[c] \in {"open", "gone"} /\ Moves(c, "write", "loop")
WriteFails(c)    == socket[c] \in {"closed", "gone"} /\ Moves(c, "write", "close")

\* The deferred function.
CloseConn(c) ==
    /\ handler[c] = "close"
    /\ handler' = [handler EXCEPT ![c] = "delete"]
    /\ socket' = [socket EXCEPT ![c] = "closed"]
    /\ UNCHANGED <<serveVars, connVars, closer, ctxDone>>

DeleteConn(c) ==
    /\ handler[c] = "delete"
    /\ handler' = [handler EXCEPT ![c] = "done"]
    /\ conns' = conns \ {c}
    /\ UNCHANGED <<serveVars, shutdown, wg, closer, ctxDone, socket>>

Done(c) ==
    /\ handler[c] = "done"
    /\ handler' = [handler EXCEPT ![c] = "ended"]
    /\ wg' = wg \ {c}
    /\ UNCHANGED <<serveVars, shutdown, conns, closer, ctxDone, socket>>

-----------------------------------------------------------------------------
(* Close and Wait. *)

\* Defect: the connections that are served are left open.
CloseKeepsConns ==
    /\ closer = "idle" /\ closer' = "unlocked"
    /\ shutdown' = TRUE
    /\ UNCHANGED <<serveVars, conns, wg, handler, ctxDone, socket>>

CloseConns ==
    /\ closer = "idle" /\ closer' = "unlocked"
    /\ shutdown' = TRUE
    /\ socket' = [c \in Conns |-> IF c \in conns THEN "closed" ELSE socket[c]]
    /\ UNCHANGED <<serveVars, conns, wg, handler, ctxDone>>

\* s.listener is read without a lock: until Serve runs, a listener that
\* Listen has just stored may not be seen.
CloseListener ==
    /\ closer = "unlocked" /\ closer' = "waiting"
    /\ \/ listener = "open" /\ listener' = "closed"
       \/ serve \in {"idle", "failed", "listening"} /\ UNCHANGED listener
    /\ UNCHANGED <<serve, conn, connVars, handler, ctxDone, socket>>

Wait ==
    /\ closer = "waiting" /\ wg = {}
    /\ closer' = "returned"
    /\ UNCHANGED <<serveVars, connVars, handler, ctxDone, socket>>

-----------------------------------------------------------------------------
Serving   == Listen \/ StartServe \/ AcceptFails \/ AcceptFailed \/ Register \/ Spawn
Closing   == CloseConns \/ CloseListener \/ Wait
Client(c) == Dial(c) \/ HangUp(c)
Handling(c) ==
    \/ LoopHead(c) \/ ReadRequest(c) \/ ReadFails(c) \/ HandlerReturns(c)
    \/ WriteResponse(c) \/ WriteFails(c) \/ CloseConn(c) \/ DeleteConn(c) \/ Done(c)

Next ==
    \/ Serving \/ Closing \/ Cancel
    \/ \E c \in Conns : Client(c) \/ Accept(c) \/ Handling(c)

Spec == Init /\ [][Next]_vars

\* The goroutines run.  A handler returns, for the budget of a request is
\* positive.  A read ends once the connection is closed, and a write only
\* then: nothing else bounds it.
ServerFairness ==
    /\ WF_vars(StartServe) /\ WF_vars(AcceptFails /\ listener = "closed")
    /\ WF_vars(AcceptFailed) /\ WF_vars(Register) /\ WF_vars(Spawn)
    /\ WF_vars(CloseListener) /\ WF_vars(Wait)
    /\ \A c \in Conns :
        /\ WF_vars(LoopHead(c)) /\ WF_vars(HandlerReturns(c))
        /\ WF_vars(ReadFails(c) /\ socket[c] = "closed")
        /\ WF_vars(WriteFails(c) /\ socket[c] = "closed")
        /\ WF_vars(CloseConn(c)) /\ WF_vars(DeleteConn(c)) /\ WF_vars(Done(c))

FairSpec == Spec /\ ServerFairness

-----------------------------------------------------------------------------
TypeOK ==
    /\ listener \in {"none", "open", "closed"}
    /\ serve \in {"idle", "listening", "failed", "accept", "accepted", "registered",
                  "error", "returned"}
    /\ conn \in Conns \cup {None}
    /\ shutdown \in BOOLEAN /\ ctxDone \in BOOLEAN
    /\ conns \subseteq Conns /\ wg \subseteq Conns
    /\ closer \in {"idle", "unlocked", "waiting", "returned"}
    /\ handler \in [Conns -> {"none", "loop", "read", "handle", "write", "close", "delete",
                              "done", "ended"}]
    /\ socket \in [Conns -> {"fresh", "queued", "open", "gone", "closed"}]

\* Once Close has given up the lock, every connection handleConn was or will
\* be started for is closed: one that was accepted meanwhile is closed by
\* Register, and none slips in between the flag and the map.
NoConnSurvivesClose ==
    shutdown => \A c \in Conns :
        handler[c] # "none" \/ (serve = "registered" /\ conn = c) => socket[c] = "closed"

\* After Wait no request is handled, although "Wait waits for all connections
\* to finish" (its comment) is not so: Spawn counts a connection only after the
\* lock, and Wait may miss it.  Such a connection is closed already.
NoRequestAfterWait ==
    closer = "returned" => \A c \in Conns : handler[c] # "handle"

\* When Close has closed the listener, Serve returns: the error of Accept is
\* retried at once, but not for ever.
ServeReturns == listener = "closed" ~> serve = "returned"

\* Close makes Wait return, whatever the clients do: also a handler that
\* waits for a client to read its response ends.
CloseDrains == shutdown ~> closer = "returned"

===============================================================================
