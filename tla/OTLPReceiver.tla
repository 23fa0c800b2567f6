---------------------------- MODULE OTLPReceiver ----------------------------
(***************************************************************************)
(* The life of receiver.OTLPReceiver (internal/receiver/otlp.go): Start    *)
(* brings up a gRPC and an HTTP server, their handlers emit events into    *)
(* the shared channel, and Stop takes everything down.  Stop is called by  *)
(* the owner on its way out and by a goroutine of Start that watches the   *)
(* context; in the agent (agent/main.go) both may run at once.             *)
(*                                                                         *)
(* The gRPC and HTTP libraries are external: GracefulStop refuses new      *)
(* calls and returns when the running ones have; Shutdown does the same    *)
(* and gives up after its two seconds.                                     *)
(***************************************************************************)
EXTENDS Naturals, FiniteSets

CONSTANTS
    GrpcCalls,    \* calls that may reach the gRPC server
    HttpCalls,    \* requests that may reach the HTTP server
    MaxEvents,    \* bound: events in one call
    GrpcAddr,     \* whether the gRPC transport is configured
    HttpAddr      \* whether the HTTP transport is configured

OTLPBounds ==
    /\ GrpcCalls \cap HttpCalls = {}
    /\ MaxEvents \in Nat \ {0}
    /\ GrpcAddr \in BOOLEAN /\ HttpAddr \in BOOLEAN

ASSUME OTLPAssumption == OTLPBounds

Calls == GrpcCalls \cup HttpCalls

Owner == "owner"
Watcher == "watcher"
Stoppers == {Owner, Watcher}
Nobody == "nobody"

VARIABLES
    mu,         \* who holds r.mu
    out,        \* whether r.out is set
    stopped,    \* r.stopped: "nil", "open" or "closed"
    closes,     \* history: how often the channel was closed
    grpcSrv,    \* r.grpcSrv is set
    httpSrv,    \* r.httpSrv is set
    serving,    \* the transports that accept calls
    owner,      \* where the owner is: "new" | "grpc" | "http" | "failed" |
                \* "running" | "stopped"
    watching,   \* the goroutine of Start waits for the context
    contextDone,  \* the context is done
    stop,       \* where each Stop is: "no" | "lock" | "grpc" | "http" |
                \* "release" | "done"
    call,       \* where each call is: "no" | "emit" | "send" | "done"
    left,       \* events the call has still to emit
    holds,      \* the call read a non-nil out and is about to send
    sent        \* how many events each call has sent

receiverVars == << mu, out, stopped, closes, grpcSrv, httpSrv, serving, owner, watching,
           contextDone, stop, call, left, holds, sent >>

serverVars == << grpcSrv, httpSrv, serving >>
callVars == << call, left, holds, sent >>
ownerVars == << owner, watching, contextDone >>

ReceiverInit ==
    /\ mu = Nobody
    /\ out = FALSE
    /\ stopped = "nil"
    /\ closes = 0
    /\ grpcSrv = FALSE
    /\ httpSrv = FALSE
    /\ serving = {}
    /\ owner = "new"
    /\ watching = FALSE
    /\ contextDone = FALSE
    /\ stop = [p \in Stoppers |-> "no"]
    /\ call = [c \in Calls |-> "no"]
    /\ left = [c \in Calls |-> 0]
    /\ holds = {}
    /\ sent = [c \in Calls |-> 0]

-----------------------------------------------------------------------------
(* Start: the channel is kept, then each transport comes up or fails. *)
StartInit ==
    /\ owner = "new"
    /\ mu = Nobody
    /\ out' = TRUE
    /\ stopped' = "open"
    /\ owner' = "grpc"
    /\ UNCHANGED << mu, closes, serverVars, watching, contextDone, stop, callVars >>

(* A transport whose address is in use: Start stops what is up and fails.  *)
StartFails ==
    /\ \/ owner = "grpc" /\ GrpcAddr
       \/ owner = "http" /\ HttpAddr
    /\ owner' = "failed"
    /\ stop' = [stop EXCEPT ![Owner] = "lock"]
    /\ UNCHANGED << mu, out, stopped, closes, serverVars, watching, contextDone, callVars >>

StartGRPC ==
    /\ owner = "grpc"
    /\ mu = Nobody
    /\ IF GrpcAddr THEN grpcSrv' = TRUE /\ serving' = serving \cup {"grpc"}
                   ELSE UNCHANGED << grpcSrv, serving >>
    /\ owner' = "http"
    /\ UNCHANGED << mu, out, stopped, closes, httpSrv, watching, contextDone, stop, callVars >>

StartHTTP ==
    /\ owner = "http"
    /\ mu = Nobody
    /\ IF HttpAddr THEN httpSrv' = TRUE /\ serving' = serving \cup {"http"}
                   ELSE UNCHANGED << httpSrv, serving >>
    /\ owner' = "running"
    /\ watching' = TRUE
    /\ UNCHANGED << mu, out, stopped, closes, grpcSrv, contextDone, stop, callVars >>

(* The process is asked to end, by a signal or by its user: the context is *)
(* done, possibly while Start is still at work, and the watcher of Start   *)
(* will call Stop; the owner calls it too, on its way out.                 *)
CancelContext ==
    /\ ~ contextDone
    /\ contextDone' = TRUE
    /\ UNCHANGED << mu, out, stopped, closes, serverVars, owner, watching, stop, callVars >>

OwnerStops ==
    /\ owner = "running"
    /\ owner' = "stopped"
    /\ stop' = [stop EXCEPT ![Owner] = "lock"]
    /\ UNCHANGED << mu, out, stopped, closes, serverVars, watching, contextDone, callVars >>

WatcherStops ==
    /\ watching
    /\ contextDone
    /\ watching' = FALSE
    /\ stop' = [stop EXCEPT ![Watcher] = "lock"]
    /\ UNCHANGED << mu, out, stopped, closes, serverVars, owner, contextDone, callVars >>

-----------------------------------------------------------------------------
(* Stop, under r.mu from the first step to the last. *)

(* A mutated form: stopped is not looked at. *)
StopEnterAgain(p) ==
    /\ stop[p] = "lock"
    /\ mu = Nobody
    /\ mu' = p
    /\ stopped' = "closed"
    /\ closes' = closes + 1
    /\ stop' = [stop EXCEPT ![p] = "grpc"]
    /\ serving' = IF grpcSrv THEN serving \ {"grpc"} ELSE serving
    /\ UNCHANGED << out, grpcSrv, httpSrv, ownerVars, callVars >>

(* The lock is taken; a receiver stopped before is left alone.  Otherwise  *)
(* the channel is closed and GracefulStop begins.                          *)
StopEnter(p) ==
    /\ stop[p] = "lock"
    /\ mu = Nobody
    /\ IF stopped = "closed"
       THEN /\ stop' = [stop EXCEPT ![p] = "done"]
            /\ UNCHANGED << mu, stopped, closes, serving >>
       ELSE /\ mu' = p
            /\ stopped' = IF stopped = "open" THEN "closed" ELSE stopped
            /\ closes' = IF stopped = "open" THEN closes + 1 ELSE closes
            /\ stop' = [stop EXCEPT ![p] = "grpc"]
            /\ serving' = IF grpcSrv THEN serving \ {"grpc"} ELSE serving
    /\ UNCHANGED << out, grpcSrv, httpSrv, ownerVars, callVars >>

Running(calls) == {c \in calls : call[c] \in {"emit", "send"}}

(* A mutated form: the running calls are not waited for. *)
StopGRPCAtOnce(p) ==
    /\ stop[p] = "grpc"
    /\ grpcSrv' = FALSE
    /\ stop' = [stop EXCEPT ![p] = "http"]
    /\ serving' = IF httpSrv THEN serving \ {"http"} ELSE serving
    /\ UNCHANGED << mu, out, stopped, closes, httpSrv, ownerVars, callVars >>

(* GracefulStop returns once no gRPC call is running; Shutdown begins. *)
StopGRPC(p) ==
    /\ stop[p] = "grpc"
    /\ grpcSrv => Running(GrpcCalls) = {}
    /\ grpcSrv' = FALSE
    /\ stop' = [stop EXCEPT ![p] = "http"]
    /\ serving' = IF httpSrv THEN serving \ {"http"} ELSE serving
    /\ UNCHANGED << mu, out, stopped, closes, httpSrv, ownerVars, callVars >>

(* A mutated form: Shutdown is repeated until every request has finished. *)
StopHTTPUnbounded(p) ==
    /\ stop[p] = "http"
    /\ \/ httpSrv /\ Running(HttpCalls) # {} /\ UNCHANGED << httpSrv, stop >>
       \/ ~ (httpSrv /\ Running(HttpCalls) # {})
          /\ httpSrv' = FALSE
          /\ stop' = [stop EXCEPT ![p] = "release"]
    /\ UNCHANGED << mu, out, stopped, closes, grpcSrv, serving, ownerVars, callVars >>

(* Shutdown returns when the requests have finished or two seconds have    *)
(* passed, whichever is first: it always returns.                          *)
StopHTTP(p) ==
    /\ stop[p] = "http"
    /\ httpSrv' = FALSE
    /\ stop' = [stop EXCEPT ![p] = "release"]
    /\ UNCHANGED << mu, out, stopped, closes, grpcSrv, serving, ownerVars, callVars >>

StopRelease(p) ==
    /\ stop[p] = "release"
    /\ out' = FALSE
    /\ mu' = Nobody
    /\ stop' = [stop EXCEPT ![p] = "done"]
    /\ UNCHANGED << stopped, closes, serverVars, ownerVars, callVars >>

-----------------------------------------------------------------------------
(* A call arrives at a server that accepts it; its handler converts the    *)
(* request into the events it will emit, none where it cannot be decoded.  *)
Accept(c) ==
    /\ call[c] = "no"
    /\ IF c \in GrpcCalls THEN "grpc" \in serving ELSE "http" \in serving
    /\ call' = [call EXCEPT ![c] = "emit"]
    /\ \E n \in 0 .. MaxEvents : left' = [left EXCEPT ![c] = n]
    /\ UNCHANGED << mu, out, stopped, closes, serverVars, ownerVars, stop, holds, sent >>

(* emit: r.out is read under r.mu, *)
EmitRead(c) ==
    /\ call[c] = "emit"
    /\ left[c] > 0
    /\ mu = Nobody
    /\ holds' = IF out THEN holds \cup {c} ELSE holds
    /\ call' = [call EXCEPT ![c] = "send"]
    /\ UNCHANGED << mu, out, stopped, closes, serverVars, ownerVars, stop, left, sent >>

(* and the event is sent without it, or dropped where there is nothing to  *)
(* send to or no room.                                                     *)
EmitSend(c) ==
    /\ call[c] = "send"
    /\ sent' = IF c \in holds THEN [sent EXCEPT ![c] = @ + 1] ELSE sent
    /\ holds' = holds \ {c}
    /\ left' = [left EXCEPT ![c] = @ - 1]
    /\ call' = [call EXCEPT ![c] = "emit"]
    /\ UNCHANGED << mu, out, stopped, closes, serverVars, ownerVars, stop >>

Return(c) ==
    /\ call[c] = "emit"
    /\ left[c] = 0
    /\ call' = [call EXCEPT ![c] = "done"]
    /\ UNCHANGED << mu, out, stopped, closes, serverVars, ownerVars, stop, left, holds, sent >>

StopStep(p) == StopEnter(p) \/ StopGRPC(p) \/ StopHTTP(p) \/ StopRelease(p)
CallStep(c) == EmitRead(c) \/ EmitSend(c) \/ Return(c)
StartStep == StartInit \/ StartFails \/ StartGRPC \/ StartHTTP

(* The process ends with its owner, also while the watcher waits. *)
ReceiverEnded ==
    /\ stop[Owner] = "done"
    /\ UNCHANGED receiverVars

ReceiverNext ==
    \/ StartStep \/ CancelContext \/ OwnerStops \/ WatcherStops \/ ReceiverEnded
    \/ \E p \in Stoppers : StopStep(p)
    \/ \E c \in Calls : Accept(c) \/ CallStep(c)

ReceiverSpec == ReceiverInit /\ [][ReceiverNext]_receiverVars

(* Every goroutine is scheduled; calls need not arrive and the process     *)
(* need not be asked to end.  A mutex is fair to whoever waits for it.     *)
ReceiverFairSpec ==
    /\ ReceiverSpec
    /\ WF_receiverVars(StartStep)
    /\ WF_receiverVars(WatcherStops)
    /\ \A p \in Stoppers : SF_receiverVars(StopStep(p))
    /\ \A c \in Calls : SF_receiverVars(CallStep(c))

-----------------------------------------------------------------------------
ReceiverTypeOK ==
    /\ mu \in Stoppers \cup {Nobody}
    /\ out \in BOOLEAN
    /\ stopped \in {"nil", "open", "closed"}
    /\ closes \in Nat
    /\ grpcSrv \in BOOLEAN /\ httpSrv \in BOOLEAN
    /\ serving \subseteq {"grpc", "http"}
    /\ owner \in {"new", "grpc", "http", "failed", "running", "stopped"}
    /\ watching \in BOOLEAN /\ contextDone \in BOOLEAN
    /\ stop \in [Stoppers -> {"no", "lock", "grpc", "http", "release", "done"}]
    /\ call \in [Calls -> {"no", "emit", "send", "done"}]
    /\ left \in [Calls -> 0 .. MaxEvents]
    /\ holds \subseteq Calls
    /\ sent \in [Calls -> 0 .. MaxEvents]

(* Closing a closed channel panics: however the owner's Stop and the       *)
(* watcher's meet, r.stopped is closed at most once.                       *)
ClosedAtMostOnce == closes =< 1

(* A Stop that has returned has left nothing behind, whichever of the two  *)
(* did the work: no server accepts calls, r.out is gone, and no gRPC call  *)
(* is running that could still send.  HTTP requests may outlive Shutdown,  *)
(* and find nowhere to send to.                                            *)
StoppedIsQuiet ==
    (\E p \in Stoppers : stop[p] = "done") =>
        /\ serving = {} /\ ~ grpcSrv /\ ~ httpSrv
        /\ ~ out
        /\ Running(GrpcCalls) = {}

(* A Stop that finds no gRPC call in progress when it begins returns, and  *)
(* so does the other one, whatever the HTTP requests do.                   *)
StopReturnsUnlessInCall ==
    \A p \in Stoppers :
        stop[p] = "grpc" /\ Running(GrpcCalls) = {}
            ~> \A q \in Stoppers : stop[q] \in {"no", "done"}

(* "Respect ctx cancellation for shutdown", "q quits cleanly": a Stop that *)
(* was begun returns.                                                      *)
StopReturns == \A p \in Stoppers : stop[p] = "lock" ~> stop[p] = "done"
=============================================================================
