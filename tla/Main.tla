--------------------------------- MODULE Main ---------------------------------
(***************************************************************************)
(* The life of the process: main (cmd/mbproxy/main.go), Run and Shutdown   *)
(* of the proxy (internal/proxy/proxy.go) and the server they start and    *)
(* stop (module Server), with as much of the upstream client as they share *)
(* with the handlers: the owner token and whether a session is open.       *)
(* Module Client has the client in full.                                   *)
(*                                                                         *)
(* main returns from its select on errCh only with an error: Serve returns *)
(* nil only after Close, which only main calls.                            *)
(***************************************************************************)
EXTENDS Server

VARIABLES
    main,       \* where the main goroutine is
    run,        \* where Run is in client.Connect
    owner,      \* who holds the token of the client: None, "run" or a connection
    session     \* None, or who opened the session: "run" or a connection

ASSUME MainAssumption == "run" \notin Conns

mainVars == <<main, run, owner, session>>
allVars  == <<vars, mainVars>>

MainInit ==
    /\ Init
    /\ main = "start" /\ run = "idle"
    /\ owner = None /\ session = None

Goto(l) == main' = l

\* With main, the process ends.
Running == main # "exited"

-----------------------------------------------------------------------------
(* Run, in its goroutine: Listen, client.Connect, Serve. *)

RunListen ==
    /\ Running /\ main # "start" /\ Listen
    /\ UNCHANGED mainVars

\* Connect waits for the token under context.Background().
ConnectAcquires ==
    /\ Running /\ serve = "listening" /\ run = "idle" /\ owner = None
    /\ run' = "dialing" /\ owner' = "run"
    /\ UNCHANGED <<vars, main, session>>

\* Defect: the token is not given back.
ConnectKeepsToken ==
    /\ Running /\ run = "dialing" /\ run' = "connected"
    /\ session' \in {"run", None}
    /\ UNCHANGED <<vars, main, owner>>

\* A failure is only reported.
ConnectReturns ==
    /\ Running /\ run = "dialing" /\ run' = "connected"
    /\ session' \in {"run", None}
    /\ owner' = None
    /\ UNCHANGED <<vars, main>>

RunServe ==
    /\ Running /\ run = "connected" /\ StartServe
    /\ UNCHANGED mainVars

-----------------------------------------------------------------------------
(* HandleRequest, which may call client.Execute. *)

\* Defect: the context is not looked at once the token is taken.
AcquireUnchecked(c) ==
    /\ Running /\ handler[c] = "handle" /\ owner = None
    /\ owner' = c
    /\ UNCHANGED <<vars, main, run, session>>

Acquire(c) ==
    /\ Running /\ handler[c] = "handle" /\ owner = None
    /\ ~ctxDone
    /\ owner' = c
    /\ UNCHANGED <<vars, main, run, session>>

\* Execute uses the session, opens one, or ends without one; it releases the
\* token and HandleRequest returns.
ExecuteReturns(c) ==
    /\ Running /\ owner = c /\ owner' = None
    /\ session' \in {session, c, None}
    /\ HandlerReturns(c)
    /\ UNCHANGED <<main, run>>

\* An answer from the cache, a wait for another request, or an error.
ReturnsWithoutUpstream(c) ==
    /\ Running /\ owner # c /\ HandlerReturns(c)
    /\ UNCHANGED mainVars

-----------------------------------------------------------------------------
(* main. *)

\* The health server is started, and Run in a goroutine; or it cannot listen.
Start ==
    /\ main = "start"
    /\ Goto("select") \/ Goto("exited")
    /\ UNCHANGED <<vars, run, owner, session>>

\* External: SIGINT or SIGTERM, which sigCh keeps until select takes it.
Signal ==
    /\ main = "select" /\ Goto("cancel")
    /\ UNCHANGED <<vars, run, owner, session>>

\* errCh has the error of Listen: os.Exit(1).
RunFailed ==
    /\ main = "select" /\ serve = "failed" /\ Goto("exited")
    /\ UNCHANGED <<vars, run, owner, session>>

CancelContext ==
    /\ main = "cancel" /\ Cancel /\ Goto("health")
    /\ UNCHANGED <<run, owner, session>>

\* hs.Shutdown gives up after five seconds.
ShutdownHealth ==
    /\ main = "health" /\ Goto("shutdown")
    /\ UNCHANGED <<vars, run, owner, session>>

\* Defect: the server is waited for before it is closed.
ShutdownWaitsFirst ==
    /\ main = "shutdown" /\ closer = "idle" /\ wg = {}
    /\ closer' = "returned"
    /\ UNCHANGED <<serveVars, connVars, handler, ctxDone, socket, mainVars>>

\* Shutdown: server.Close, and Wait in a goroutine.
ShutdownServer ==
    /\ main = "shutdown" /\ (CloseConns \/ CloseListener)
    /\ UNCHANGED mainVars

WaitGoroutine == Running /\ Wait /\ UNCHANGED mainVars

\* done is closed or the timeout, which may be zero, passes; cache.Close.
WaitEnds ==
    /\ main = "shutdown" /\ closer = "returned" /\ Goto("drained")
    /\ UNCHANGED <<vars, run, owner, session>>

WaitTimesOut ==
    /\ main = "shutdown" /\ closer \in {"waiting", "returned"} /\ Goto("forced")
    /\ UNCHANGED <<vars, run, owner, session>>

\* client.Close waits for the token under context.Background().
CloseClient ==
    /\ main \in {"drained", "forced"} /\ owner = None
    /\ session' = None
    /\ Goto("closed")
    /\ UNCHANGED <<vars, run, owner>>

Exit ==
    /\ main = "closed" /\ Goto("exited")
    /\ UNCHANGED <<vars, run, owner, session>>

-----------------------------------------------------------------------------
ServerSteps ==
    /\ Running
    /\ \/ AcceptFails \/ AcceptFailed \/ Register \/ Spawn
       \/ \E c \in Conns :
            \/ Client(c) \/ Accept(c) \/ LoopHead(c) \/ ReadRequest(c) \/ ReadFails(c)
            \/ WriteResponse(c) \/ WriteFails(c) \/ CloseConn(c) \/ DeleteConn(c) \/ Done(c)
    /\ UNCHANGED mainVars

MainSteps ==
    \/ Start \/ CancelContext \/ ShutdownHealth \/ ShutdownServer \/ WaitEnds
    \/ WaitTimesOut \/ CloseClient \/ Exit

MainNext ==
    \/ MainSteps \/ Signal \/ RunFailed \/ WaitGoroutine
    \/ RunListen \/ ConnectAcquires \/ ConnectReturns \/ RunServe
    \/ \E c \in Conns : Acquire(c) \/ ExecuteReturns(c) \/ ReturnsWithoutUpstream(c)
    \/ ServerSteps

MainSpec == MainInit /\ [][MainNext]_allVars

\* main runs, and whoever holds the token gives it back: a dial and an
\* attempt have timeouts.  The other goroutines need not run at all.
MainFairSpec ==
    /\ MainSpec
    /\ WF_allVars(MainSteps)
    /\ WF_allVars(ConnectReturns)
    /\ \A c \in Conns : WF_allVars(ExecuteReturns(c))

-----------------------------------------------------------------------------
MainTypeOK ==
    /\ TypeOK
    /\ main \in {"start", "select", "cancel", "health", "shutdown", "drained", "forced",
                 "closed", "exited"}
    /\ run \in {"idle", "dialing", "connected"}
    /\ owner \in Conns \cup {None, "run"} /\ session \in Conns \cup {None, "run"}

\* Run, the handlers and Shutdown use the server as module Server allows: it is
\* served once it listens, a handler returns once, and Wait follows Close.
ImplementsServer == Spec

\* No request opens a session after client.Close, not even one whose handler
\* is still running when the shutdown timeout has passed: its context was
\* canceled before, and acquire looks at the context once it has the token.
\* (The Connect of Run, which has no such context, may still open one.)
NoRequestReopens == main \in {"closed", "exited"} => session \notin Conns

\* "Complete in-flight requests before shutdown (with configurable timeout)"
\* (SPEC.md): until the timeout has passed, the connection on which a request
\* is to be answered is not closed by the proxy.
InFlightAnswerable ==
    main \notin {"forced", "closed", "exited"} =>
        \A c \in Conns : handler[c] \in {"handle", "write"} => socket[c] # "closed"

\* Whatever clients, upstream and handlers do, a signal ends the process.
SignalEndsProcess == main = "cancel" ~> main = "exited"

===============================================================================
