------------------------------ MODULE MainProofs ------------------------------
(***************************************************************************)
(* What Close and Wait of the server achieve, that the process uses the    *)
(* server as module Server describes it, and that no request reopens the   *)
(* upstream session that Shutdown has closed, for every number of          *)
(* connections.                                                            *)
(*                                                                         *)
(* None of the properties is inductive.  That Close reaches every          *)
(* connection needs that a connection is in the map from Register until    *)
(* its handler has closed it, and that a connection is accepted once.      *)
(* That no request is handled after Wait needs the wait group for the      *)
(* handlers that run when Wait returns, and the closed connections for     *)
(* those it missed.  That no request reopens the session needs that only a *)
(* request that is being handled holds the token, that the context is      *)
(* canceled before the client is closed, and, for the process that ends    *)
(* because Listen failed, that nothing is served before Serve runs.        *)
(***************************************************************************)
EXTENDS Main, TLAPS

\* Connections whose goroutine has not closed them yet.
Served(c) == handler[c] \in {"loop", "read", "handle", "write", "close"}

Left(c) == handler[c] \in {"delete", "done", "ended"}

Registered(c) == serve = "registered" /\ conn = c

Counted == \A c \in Conns : Served(c) \/ handler[c] \in {"delete", "done"} => c \in wg

InMap == \A c \in Conns : Served(c) \/ Registered(c) => c \in conns

LeftClosed == \A c \in Conns : Left(c) => socket[c] = "closed"

\* The connection in Serve's hands is one it has not started a goroutine for.
AcceptedOnce ==
    /\ serve \in {"accepted", "registered"} =>
          conn \in Conns /\ handler[conn] = "none" /\ socket[conn] \notin {"fresh", "queued"}
    /\ \A c \in Conns : socket[c] \in {"fresh", "queued"} => handler[c] = "none"

ServerInv ==
    /\ TypeOK /\ Counted /\ InMap /\ LeftClosed /\ AcceptedOnce
    /\ closer # "idle" => shutdown
    /\ NoConnSurvivesClose /\ NoRequestAfterWait

-----------------------------------------------------------------------------
\* The server has no connection yet.
LEMMA ServerInit == Init => ServerInv
BY ServerAssumption DEF Init, ServerInv, TypeOK, Counted, InMap, LeftClosed, AcceptedOnce, NoConnSurvivesClose,
              NoRequestAfterWait, Served, Left, Registered

\* A step that changes no variable keeps the invariant.
LEMMA ServerStutter == ServerInv /\ UNCHANGED vars => ServerInv'
BY DEF vars, serveVars, connVars, ServerInv, TypeOK, Counted, InMap, LeftClosed, AcceptedOnce, NoConnSurvivesClose,
              NoRequestAfterWait, Served, Left, Registered

\* Listen and Serve, step by step.
LEMMA ServingStep ==
    ASSUME ServerInv, Serving
    PROVE  ServerInv'
<1> USE ServerAssumption DEF ServerInv, TypeOK, Counted, InMap, LeftClosed, AcceptedOnce,
          NoConnSurvivesClose, NoRequestAfterWait, Served, Left, Registered, serveVars, connVars
<1>1. CASE Listen
  BY <1>1 DEF Listen
<1>2. CASE StartServe
  BY <1>2 DEF StartServe
<1>3. CASE AcceptFails
  BY <1>3 DEF AcceptFails
<1>4. CASE AcceptFailed
  BY <1>4 DEF AcceptFailed
<1>5. CASE Register
  BY <1>5 DEF Register
<1>6. CASE Spawn
  <2>1. handler[conn] = "none" /\ conn \in conns
    BY <1>6 DEF Spawn
  <2>2. shutdown => socket[conn] = "closed"
    BY <1>6 DEF Spawn
  <2>3. QED
    BY <1>6, <2>1, <2>2 DEF Spawn
<1>7. QED
  BY <1>1, <1>2, <1>3, <1>4, <1>5, <1>6 DEF Serving

\* Close, Wait, and the context.
LEMMA ClosingStep ==
    ASSUME ServerInv, Closing \/ Cancel
    PROVE  ServerInv'
<1> USE ServerAssumption DEF ServerInv, TypeOK, Counted, InMap, LeftClosed, AcceptedOnce,
          NoConnSurvivesClose, NoRequestAfterWait, Served, Left, Registered, serveVars, connVars
<1>1. CASE CloseConns
  <2>1. \A c \in Conns : handler[c] # "none" \/ Registered(c) => c \in conns \/ Left(c)
    OBVIOUS
  <2>2. NoConnSurvivesClose'
    BY <1>1, <2>1 DEF CloseConns
  <2>3. QED
    BY <1>1, <2>2 DEF CloseConns
<1>2. CASE CloseListener
  BY <1>2 DEF CloseListener
<1>3. CASE Wait
  <2>1. \A c \in Conns : ~Served(c)
    BY <1>3 DEF Wait
  <2>2. QED
    BY <1>3, <2>1 DEF Wait
<1>4. CASE Cancel
  BY <1>4 DEF Cancel
<1>5. QED
  BY <1>1, <1>2, <1>3, <1>4 DEF Closing

\* A client, and Accept of its connection.
LEMMA ClientStep ==
    ASSUME ServerInv, NEW c \in Conns, Client(c) \/ Accept(c)
    PROVE  ServerInv'
<1> USE ServerAssumption DEF ServerInv, TypeOK, Counted, InMap, LeftClosed, AcceptedOnce,
          NoConnSurvivesClose, NoRequestAfterWait, Served, Left, Registered, serveVars, connVars
<1>1. CASE Dial(c)
  BY <1>1 DEF Dial
<1>2. CASE HangUp(c)
  BY <1>2 DEF HangUp
<1>3. CASE Accept(c)
  BY <1>3 DEF Accept
<1>4. QED
  BY <1>1, <1>2, <1>3 DEF Client

\* handleConn, step by step.
LEMMA HandlingStep ==
    ASSUME ServerInv, NEW c \in Conns, Handling(c)
    PROVE  ServerInv'
<1> USE ServerAssumption DEF ServerInv, TypeOK, Counted, InMap, LeftClosed, AcceptedOnce,
          NoConnSurvivesClose, NoRequestAfterWait, Served, Left, Registered, serveVars, connVars
<1>1. CASE LoopHead(c)
  BY <1>1 DEF LoopHead, Moves
<1>2. CASE ReadRequest(c)
  <2>1. ~shutdown /\ closer # "returned"
    BY <1>2 DEF ReadRequest, Moves
  <2>2. QED
    BY <1>2, <2>1 DEF ReadRequest, Moves
<1>3. CASE ReadFails(c)
  BY <1>3 DEF ReadFails, Moves
<1>4. CASE HandlerReturns(c)
  BY <1>4 DEF HandlerReturns, Moves
<1>5. CASE WriteResponse(c)
  BY <1>5 DEF WriteResponse, Moves
<1>6. CASE WriteFails(c)
  BY <1>6 DEF WriteFails, Moves
<1>7. CASE CloseConn(c)
  BY <1>7 DEF CloseConn
<1>8. CASE DeleteConn(c)
  BY <1>8 DEF DeleteConn
<1>9. CASE Done(c)
  BY <1>9 DEF Done
<1>10. QED
  BY Zenon, <1>1, <1>2, <1>3, <1>4, <1>5, <1>6, <1>7, <1>8, <1>9 DEF Handling

\* The invariant holds in every state of the server.
THEOREM ServerInvariant == Spec => []ServerInv
<1>1. ServerInv /\ [Next]_vars => ServerInv'
  BY ServingStep, ClosingStep, ClientStep, HandlingStep, ServerStutter DEF Next
<1>2. QED
  BY <1>1, ServerInit, PTL DEF Spec

\* Close closes every connection that is or will be served, for any number of
\* them: Serve registers none behind its back.
THEOREM CloseReachesEveryConnection == Spec => []NoConnSurvivesClose
<1>1. ServerInv => NoConnSurvivesClose
  BY DEF ServerInv
<1>2. QED
  BY <1>1, ServerInvariant, PTL

\* Once Wait has returned HandleRequest does not run, for any number of
\* connections, also for those that were not counted yet.
THEOREM WaitEndsRequests == Spec => []NoRequestAfterWait
<1>1. ServerInv => NoRequestAfterWait
  BY DEF ServerInv
<1>2. QED
  BY <1>1, ServerInvariant, PTL

-----------------------------------------------------------------------------
(* The process. *)

HolderHandles == \A c \in Conns : owner = c => handler[c] = "handle"

CanceledFirst == main \in {"health", "shutdown", "drained", "forced", "closed"} => ctxDone

NothingBeforeServe ==
    /\ main = "start" => serve = "idle"
    /\ serve \in {"idle", "failed", "listening"} =>
          session \notin Conns /\ \A c \in Conns : handler[c] = "none"

TokenAfterClose == main = "closed" => owner \notin Conns

MainInv ==
    /\ MainTypeOK /\ HolderHandles /\ CanceledFirst /\ NothingBeforeServe /\ TokenAfterClose
    /\ NoRequestReopens

-----------------------------------------------------------------------------
\* Every step of the process is a step of the server, or leaves it alone.
LEMMA MainStepIsServerStep == MainNext => [Next]_vars
<1> SUFFICES ASSUME MainNext
             PROVE  Next \/ UNCHANGED vars
  OBVIOUS
<1>1. CASE MainSteps
  BY <1>1 DEF MainSteps, Start, CancelContext, ShutdownHealth, ShutdownServer, WaitEnds,
              WaitTimesOut, CloseClient, Exit, Next, Closing
<1>2. CASE Signal \/ RunFailed \/ WaitGoroutine
  BY <1>2 DEF Signal, RunFailed, WaitGoroutine, Next, Closing
<1>3. CASE RunListen \/ ConnectAcquires \/ ConnectReturns \/ RunServe
  BY <1>3 DEF RunListen, ConnectAcquires, ConnectReturns, RunServe, Next, Serving
<1>4. CASE \E c \in Conns : Acquire(c) \/ ExecuteReturns(c) \/ ReturnsWithoutUpstream(c)
  BY <1>4 DEF Acquire, ExecuteReturns, ReturnsWithoutUpstream, Next, Handling
<1>5. CASE ServerSteps
  BY <1>5 DEF ServerSteps, Next, Serving, Handling
<1>6. QED
  BY <1>1, <1>2, <1>3, <1>4, <1>5 DEF MainNext

\* Run, the handlers and Shutdown implement the server's specification, so that
\* what is proved of the server holds in the process.
THEOREM MainImplementsServer == MainSpec => ImplementsServer
<1>1. MainInit => Init
  BY DEF MainInit
<1>2. [MainNext]_allVars => [Next]_vars
  BY MainStepIsServerStep DEF allVars
<1>3. QED
  BY <1>1, <1>2, PTL DEF MainSpec, ImplementsServer, Spec

\* The server's promises hold in the process too, whenever main shuts it down and
\* whether or not it waits for the handlers: no connection survives Close, and Wait
\* returns only when no request is being handled.
THEOREM MainKeepsServerPromises == MainSpec => [](NoConnSurvivesClose /\ NoRequestAfterWait)
<1>1. ServerInv => NoConnSurvivesClose /\ NoRequestAfterWait
  BY DEF ServerInv
<1>2. QED
  BY <1>1, MainImplementsServer, ServerInvariant, PTL DEF ImplementsServer

-----------------------------------------------------------------------------
\* main has started nothing yet.
LEMMA MainInitInv == ASSUME MainInit, TypeOK PROVE MainInv
BY ServerAssumption, MainAssumption
   DEF MainInit, Init, MainInv, MainTypeOK, HolderHandles, CanceledFirst, NothingBeforeServe,
       TokenAfterClose, NoRequestReopens

\* Steps of main itself.
LEMMA MainStepsInv ==
    ASSUME MainInv, TypeOK', MainSteps \/ Signal \/ RunFailed \/ WaitGoroutine
    PROVE  MainInv'
<1> USE ServerAssumption, MainAssumption
    DEF MainInv, MainTypeOK, HolderHandles, CanceledFirst, NothingBeforeServe, TokenAfterClose,
        NoRequestReopens, Goto, vars, serveVars, connVars, mainVars
<1>1. CASE Start
  BY <1>1 DEF Start
<1>2. CASE CancelContext
  BY <1>2 DEF CancelContext, Cancel
<1>3. CASE ShutdownHealth
  BY <1>3 DEF ShutdownHealth
<1>4. CASE ShutdownServer
  BY <1>4 DEF ShutdownServer, CloseConns, CloseListener
<1>5. CASE WaitEnds \/ WaitTimesOut
  BY <1>5 DEF WaitEnds, WaitTimesOut
<1>6. CASE CloseClient
  BY <1>6 DEF CloseClient
<1>7. CASE Exit
  BY <1>7 DEF Exit
<1>8. CASE Signal
  BY <1>8 DEF Signal
<1>9. CASE RunFailed
  BY <1>9 DEF RunFailed
<1>10. CASE WaitGoroutine
  BY <1>10 DEF WaitGoroutine, Wait
<1>11. QED
  BY <1>1, <1>2, <1>3, <1>4, <1>5, <1>6, <1>7, <1>8, <1>9, <1>10 DEF MainSteps

\* Steps of Run and of the requests that use the client.
LEMMA ClientUseInv ==
    ASSUME MainInv, TypeOK',
           \/ RunListen \/ ConnectAcquires \/ ConnectReturns \/ RunServe
           \/ \E c \in Conns : Acquire(c) \/ ExecuteReturns(c) \/ ReturnsWithoutUpstream(c)
    PROVE  MainInv'
<1> USE ServerAssumption, MainAssumption
    DEF MainInv, MainTypeOK, HolderHandles, CanceledFirst, NothingBeforeServe, TokenAfterClose,
        NoRequestReopens, Running, vars, serveVars, connVars, mainVars
<1>1. CASE RunListen
  BY <1>1 DEF RunListen, Listen
<1>2. CASE ConnectAcquires
  BY <1>2 DEF ConnectAcquires
<1>3. CASE ConnectReturns
  BY <1>3 DEF ConnectReturns
<1>4. CASE RunServe
  BY <1>4 DEF RunServe, StartServe
<1>5. ASSUME NEW c \in Conns, Acquire(c)
      PROVE  MainInv'
  <2>1. main # "closed" /\ main # "exited"
    BY <1>5 DEF Acquire
  <2>2. QED
    BY <1>5, <2>1 DEF Acquire
<1>6. ASSUME NEW c \in Conns, ExecuteReturns(c)
      PROVE  MainInv'
  <2>1. handler[c] = "handle" /\ main # "closed" /\ main # "exited"
    BY <1>6 DEF ExecuteReturns
  <2>2. QED
    BY <1>6, <2>1 DEF ExecuteReturns, HandlerReturns, Moves, TypeOK
<1>7. ASSUME NEW c \in Conns, ReturnsWithoutUpstream(c)
      PROVE  MainInv'
  BY <1>7 DEF ReturnsWithoutUpstream, HandlerReturns, Moves, TypeOK
<1>8. QED
  BY <1>1, <1>2, <1>3, <1>4, <1>5, <1>6, <1>7

\* Steps of the server that main and the client have no part in.
LEMMA ServerStepsInv ==
    ASSUME MainInv, ServerInv, TypeOK', ServerSteps
    PROVE  MainInv'
<1>1. UNCHANGED mainVars
  BY DEF ServerSteps
<1>2. ctxDone' = ctxDone
  BY DEF ServerSteps, AcceptFails, AcceptFailed, Register, Spawn, Client, Dial, HangUp, Accept,
         LoopHead, ReadRequest, ReadFails, WriteResponse, WriteFails, Moves, CloseConn,
         DeleteConn, Done
<1>3. /\ serve = "idle" => serve' = "idle"
      /\ serve' \in {"idle", "failed", "listening"} => serve' = serve
  BY DEF ServerSteps, AcceptFails, AcceptFailed, Register, Spawn, Client, Dial, HangUp, Accept,
         LoopHead, ReadRequest, ReadFails, WriteResponse, WriteFails, Moves, CloseConn,
         DeleteConn, Done, serveVars
<1>4. \A c \in Conns : handler[c] = "handle" => handler'[c] = "handle"
  BY DEF ServerSteps, AcceptFails, AcceptFailed, Register, Spawn, Client, Dial, HangUp, Accept,
         LoopHead, ReadRequest, ReadFails, WriteResponse, WriteFails, Moves, CloseConn,
         DeleteConn, Done, ServerInv, AcceptedOnce, TypeOK
<1>5. (\A c \in Conns : handler[c] = "none") /\ serve' \in {"idle", "failed", "listening"}
         => \A c \in Conns : handler'[c] = "none"
  BY DEF ServerSteps, AcceptFails, AcceptFailed, Register, Spawn, Client, Dial, HangUp, Accept,
         LoopHead, ReadRequest, ReadFails, WriteResponse, WriteFails, Moves, CloseConn,
         DeleteConn, Done, ServerInv, TypeOK
<1>6. QED
  BY <1>1, <1>2, <1>3, <1>4, <1>5
     DEF MainInv, MainTypeOK, HolderHandles, CanceledFirst, NothingBeforeServe, TokenAfterClose,
         NoRequestReopens, mainVars

\* The invariant holds in every state of the process.
THEOREM MainInvariant == MainSpec => []MainInv
<1>1. MainInv /\ ServerInv /\ ServerInv' /\ [MainNext]_allVars => MainInv'
  <2> SUFFICES ASSUME MainInv, ServerInv, TypeOK', [MainNext]_allVars
               PROVE  MainInv'
    BY DEF ServerInv
  <2>1. CASE UNCHANGED allVars
    BY <2>1 DEF allVars, vars, serveVars, connVars, mainVars, MainInv, MainTypeOK, HolderHandles,
                CanceledFirst, NothingBeforeServe, TokenAfterClose, NoRequestReopens
  <2>2. CASE MainNext
    BY <2>2, MainStepsInv, ClientUseInv, ServerStepsInv DEF MainNext
  <2>3. QED
    BY <2>1, <2>2
<1>2. MainSpec => []ServerInv
  BY MainImplementsServer, ServerInvariant, PTL DEF ImplementsServer
<1>3. MainInit /\ ServerInv => MainInv
  BY MainInitInv DEF ServerInv
<1>4. QED
  BY <1>1, <1>2, <1>3, PTL DEF MainSpec

\* After client.Close no request opens a session, for any number of connections.
THEOREM NoRequestReopensSession == MainSpec => []NoRequestReopens
<1>1. MainInv => NoRequestReopens
  BY DEF MainInv
<1>2. QED
  BY <1>1, MainInvariant, PTL

===============================================================================
