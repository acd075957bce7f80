------------------------------- MODULE Receiver -------------------------------
(***************************************************************************)
(* The life of the OTLP receiver around its scheduler: New and Start open  *)
(* the surfaces, Stop (internal/otlpreceiver/receiver.go) closes them one  *)
(* after the other while request goroutines are still inside admitRequest. *)
(*                                                                         *)
(* admitRequest waits on the job's answer and on the request's context,    *)
(* never on the receiver's; Stop first cancels that context, on which the  *)
(* dispatcher and the workers stop, and then waits for the gRPC handlers.  *)
(***************************************************************************)
EXTENDS SchedulerProperties

CONSTANT Grpc  \* the slots that export over the gRPC listener, not over HTTP

ASSUME GrpcType == Grpc \subseteq Exports

VARIABLE stop  \* how far Receiver.Stop has come

receiverVars == <<vars, stop>>

(* Is admitRequest running for e? *)
InHandler(e) == req[e] \notin {"idle", "returned"}

(* GracefulStop refuses new RPCs, Shutdown new HTTP requests. *)
SurfaceOpen(e) ==
  IF e \in Grpc THEN stop \in {"serving", "cancelled"}
                ELSE stop \in {"serving", "cancelled", "grpc"}

(* A request reaches admitRequest over an open surface and passes the limiter. *)
Serve(e) ==
  /\ SurfaceOpen(e)
  /\ Admit(e)
  /\ UNCHANGED stop

(* Any other step of the scheduler's goroutines and of the handlers. *)
Handle ==
  /\ \/ \E e \in Exports : Submit(e) \/ ReceiveReply(e) \/ GiveUp(e)
     \/ Dispatcher
     \/ \E w \in Workers : Worker(w)
  /\ UNCHANGED stop

(* r.cancel() *)
StopCancel ==
  /\ stop = "serving"
  /\ Cancel
  /\ stop' = "cancelled"

(* GracefulStop closes the gRPC listener ... *)
StopGrpc ==
  /\ stop = "cancelled"
  /\ stop' = "grpc"
  /\ UNCHANGED vars

(* ... and returns when no RPC is pending; Shutdown closes HTTP. *)
GrpcDrained ==
  /\ stop = "grpc"
  /\ \A e \in Grpc : ~InHandler(e)
  /\ stop' = "http"
  /\ UNCHANGED vars

(* Shutdown returns when no HTTP request is left, or after its 3 s; the    *)
(* listeners are closed and the serving goroutines end.                    *)
HttpDrained ==
  /\ stop = "http"
  /\ stop' = "stopped"
  /\ UNCHANGED vars

Stop == StopCancel \/ StopGrpc \/ GrpcDrained \/ HttpDrained

ReceiverInit == Init /\ stop = "serving"

ReceiverNext == (\E e \in Exports : Serve(e)) \/ Handle \/ Stop

ReceiverFairness ==
  /\ \A e \in Exports : WF_receiverVars((Submit(e) \/ ReceiveReply(e)) /\ UNCHANGED stop)
  /\ WF_receiverVars(Dispatcher /\ UNCHANGED stop)
  /\ \A w \in Workers : WF_receiverVars(Worker(w) /\ UNCHANGED stop)
  /\ WF_receiverVars(StopGrpc \/ GrpcDrained \/ HttpDrained)

(* A select that keeps finding ctx.Done() ready takes it some time.        *)
ReceiverSelectFairness ==
  /\ SF_receiverVars(DispatcherExit /\ UNCHANGED stop)
  /\ \A w \in Workers : SF_receiverVars(WorkerExit(w) /\ UNCHANGED stop)

(* gRPC exporters that set a deadline on every request. *)
Deadlines == \A e \in Grpc : WF_receiverVars(GiveUp(e) /\ UNCHANGED stop)

ReceiverSpec     == ReceiverInit /\ [][ReceiverNext]_receiverVars
ReceiverFairSpec == ReceiverSpec /\ ReceiverFairness
DeadlineSpec     == ReceiverFairSpec /\ ReceiverSelectFairness /\ Deadlines

-----------------------------------------------------------------------------
(* Stop returns, whatever the request goroutines are doing when it begins   *)
(* ("Stop gracefully shuts all surfaces down").                             *)
StopReturns == (stop # "serving") ~> (stop = "stopped")
=============================================================================
