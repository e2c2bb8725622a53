---------------------------- MODULE Coordinator ----------------------------
(***************************************************************************)
(* The process: main (src/bin/main.rs) runs three tasks, the servers       *)
(* (src/server/server.rs), the onboarding client (src/client/client.rs)    *)
(* and the signal handler, and awaits them in a fixed order.  The servers' *)
(* task ends the gRPC server when it is told to, lets its calls finish,    *)
(* and only then aborts the HTTP server they upload to.                    *)
(*                                                                         *)
(* The client creates an artifact (src/server/artifacts_service.rs),       *)
(* uploads the aggregation program to the URL it got and registers that    *)
(* URL as the program's.  It runs against servers that may not be up yet,  *)
(* may have failed to start, or may be shutting down.                      *)
(*                                                                         *)
(* What happens inside a call of the ProverNetwork service is the subject  *)
(* of module ProverNetwork; here a call is open or not.                    *)
(***************************************************************************)
EXTENDS Naturals, FiniteSets

CONSTANTS
  Stream,   \* gRPC calls of other clients
  Url,      \* values of generate_presigned_url()
  Elf,      \* the aggregation program
  Nil       \* Rust's None

ASSUME ElfAssumption == Nil \notin Url \cup {Elf}

ASSUME ClientIsNoStream == Nil \notin Stream

VARIABLES
  main,           \* the await main is suspended at
  client,         \* the await run_client is suspended at
  uri,            \* the artifact URI run_client was given
  rpc,            \* the call run_client has under way
  signalled,      \* SIGINT or SIGTERM arrived
  channel,        \* the shutdown channel of capacity 1
  grpc, http,     \* the two servers
  stream,         \* which other calls are open
  artifacts,      \* the URIs create_artifact has recorded
  program,        \* the program URI registered for the aggregation program
  storage, conn   \* the artifact store's map and its PUT connections

net == <<storage, conn>>
server == <<channel, grpc, http>>
vars == <<main, client, uri, rpc, signalled, server, stream, artifacts, program, net>>

Store == INSTANCE HttpServer
           WITH Conn <- Url, Key <- Url, Body <- {Elf}, NoBody <- Nil

MainAwait == {"client", "signal", "grace", "server", "exited"}
ClientAwait ==
  {"sleep", "connect_network", "connect_artifact", "create_artifact", "upload",
   "error_body", "create_program", "settle", "done"}
RpcState == {"none", "sent", "served"}

NoRpc == [state |-> "none", method |-> Nil, uri |-> Nil]

TypeOK ==
  /\ main \in MainAwait
  /\ client \in ClientAwait
  /\ uri \in Url \cup {Nil}
  /\ rpc \in [state: RpcState, method: {"create_artifact", "create_program", Nil},
              uri: Url \cup {Nil}]
  /\ signalled \in BOOLEAN
  /\ channel \in {"empty", "message"}
  /\ grpc \in {"starting", "failed", "serving", "draining", "ended"}
  /\ http \in {"none", "starting", "serving", "failed", "aborted"}
  /\ stream \in [Stream -> {"closed", "open"}]
  /\ artifacts \in SUBSET Url
  /\ program \in Url \cup {Nil}
  /\ Store!TypeOK

(* main has opened the channel and spawned its tasks. *)
Init ==
  /\ main = "client"
  /\ client = "sleep"
  /\ uri = Nil
  /\ rpc = NoRpc
  /\ signalled = FALSE
  /\ channel = "empty"
  /\ grpc = "starting"
  /\ http = "none"
  /\ stream = [s \in Stream |-> "closed"]
  /\ artifacts = {}
  /\ program = Nil
  /\ Store!Init

---------------------------------------------------------------------------
(* main *)

MainUnchanged ==
  UNCHANGED <<client, uri, rpc, signalled, server, stream, artifacts, program, net>>

ClientJoined ==
  /\ main = "client"
  /\ client = "done"
  /\ main' = "signal"
  /\ MainUnchanged

(* The signal task ends when it has sent its message. *)
SignalJoined ==
  /\ main = "signal"
  /\ channel = "message"
  /\ main' = "grace"
  /\ MainUnchanged

GraceOver ==
  /\ main = "grace"
  /\ main' = "server"
  /\ MainUnchanged

(* Mutant: main does not wait for the server's task.                       *)
ServerJoinedEarly ==
  /\ main = "server"
  /\ main' = "exited"
  /\ MainUnchanged

(* main returns, and every task of the runtime is dropped with it. *)
ServerJoined ==
  /\ main = "server"
  /\ grpc \in {"ended", "failed"}
  /\ main' = "exited"
  /\ MainUnchanged

---------------------------------------------------------------------------
(* The signal task *)

Signal ==
  /\ ~signalled
  /\ signalled' = TRUE
  /\ UNCHANGED <<main, client, uri, rpc, server, stream, artifacts, program, net>>

(* Mutant: the message is handed over, and waits for a server that takes it *)
SendShutdownWaits ==
  /\ signalled
  /\ channel = "empty"
  /\ grpc = "serving"
  /\ channel' = "message"
  /\ UNCHANGED <<main, client, uri, rpc, signalled, grpc, http, stream, artifacts,
                 program, net>>

(* The channel has room, so the send ends at once; its result is ignored   *)
(* if the server's end is gone.                                            *)
SendShutdown ==
  /\ signalled
  /\ channel = "empty"
  /\ channel' = "message"
  /\ UNCHANGED <<main, client, uri, rpc, signalled, grpc, http, stream, artifacts,
                 program, net>>

---------------------------------------------------------------------------
(* run_server *)

ServerUnchanged ==
  UNCHANGED <<main, client, uri, rpc, signalled, channel, stream, artifacts, program,
              net>>

(* The HTTP task is spawned first and runs on its own from here. *)
SpawnHttp ==
  /\ grpc = "starting" /\ http = "none"
  /\ http' = "starting"
  /\ UNCHANGED grpc
  /\ ServerUnchanged

(* The gRPC server binds its port, before the HTTP task has or after.      *)
StartGrpc ==
  /\ grpc = "starting" /\ http # "none"
  /\ grpc' = "serving"
  /\ UNCHANGED http
  /\ ServerUnchanged

HttpAborted == IF http = "failed" THEN "failed" ELSE "aborted"

(* The gRPC port is taken: the error is logged, the HTTP task aborted if   *)
(* it has not ended by itself, and run_server returns.  The client then    *)
(* finds nobody to talk to.                                                *)
GrpcBindFails ==
  /\ grpc = "starting" /\ http # "none"
  /\ grpc' = "failed"
  /\ http' = HttpAborted
  /\ ServerUnchanged

(* Mutant: a taken HTTP port is unwrapped instead of logged.               *)
HttpBindsOrPanics ==
  /\ http = "starting"
  /\ \E outcome \in {"serving", "panicked"} : http' = outcome
  /\ UNCHANGED grpc
  /\ ServerUnchanged

(* The HTTP task binds its port, or logs that it cannot and ends. *)
HttpBinds ==
  /\ http = "starting"
  /\ \E outcome \in {"serving", "failed"} : http' = outcome
  /\ UNCHANGED grpc
  /\ ServerUnchanged

(* Mutant: the HTTP server is aborted together with the gRPC server.       *)
ShutdownAbortsStore ==
  /\ grpc = "serving"
  /\ channel = "message"
  /\ grpc' = "draining"
  /\ http' = "aborted"
  /\ ServerUnchanged

(* The gRPC server takes no more calls. *)
Shutdown ==
  /\ grpc = "serving"
  /\ channel = "message"
  /\ grpc' = "draining"
  /\ UNCHANGED http
  /\ ServerUnchanged

InFlight == (\E s \in Stream : stream[s] = "open") \/ rpc.state = "sent"

(* Its last call has ended: the HTTP server is aborted. Connections it has *)
(* accepted run on in tasks of their own.                                  *)
Drained ==
  /\ grpc = "draining"
  /\ ~InFlight
  /\ grpc' = "ended"
  /\ http' = HttpAborted
  /\ ServerUnchanged

(* A call of another client begins, and ends by an answer or a reset. *)
Accept(s) ==
  /\ grpc = "serving"
  /\ stream[s] = "closed"
  /\ stream' = [stream EXCEPT ![s] = "open"]
  /\ UNCHANGED <<main, client, uri, rpc, signalled, server, artifacts, program, net>>

Answer(s) ==
  /\ stream[s] = "open"
  /\ stream' = [stream EXCEPT ![s] = "closed"]
  /\ UNCHANGED <<main, client, uri, rpc, signalled, server, artifacts, program, net>>

---------------------------------------------------------------------------
(* The calls of run_client, on the server's side *)

CreateArtifact ==
  /\ rpc.state = "sent" /\ rpc.method = "create_artifact"
  /\ \E u \in Url \ artifacts :
       /\ artifacts' = artifacts \cup {u}
       /\ rpc' = [rpc EXCEPT !.state = "served", !.uri = u]
  /\ UNCHANGED <<main, client, uri, signalled, server, stream, program, net>>

CreateProgram ==
  /\ rpc.state = "sent" /\ rpc.method = "create_program"
  /\ program' = rpc.uri
  /\ rpc' = [rpc EXCEPT !.state = "served"]
  /\ UNCHANGED <<main, client, uri, signalled, server, stream, artifacts, net>>

(* run_client gave the call up before it was served. *)
DropCall ==
  /\ rpc.state = "sent" /\ client = "done"
  /\ rpc' = NoRpc
  /\ UNCHANGED <<main, client, uri, signalled, server, stream, artifacts, program,
                 net>>

(* The artifact store handles the PUT, also while the process shuts down.  *)
(* The aggregation program (559 kB) is below the router's limit.           *)
ServePut(u) ==
  /\ http # "failed"
  /\ Store!UploadArtifact(u)
  /\ UNCHANGED <<main, client, uri, rpc, signalled, server, stream, artifacts, program>>

(* The HTTP port was taken by another program, which refuses the PUT. *)
ForeignAnswer(u) ==
  /\ http = "failed"
  /\ Store!RejectUpload(u)
  /\ UNCHANGED <<main, client, uri, rpc, signalled, server, stream, artifacts, program>>

---------------------------------------------------------------------------
(* run_client *)

ClientUnchanged ==
  UNCHANGED <<main, signalled, server, stream, artifacts, program>>

ClientGoes(from, to) == client = from /\ client' = to

Wake ==
  /\ ClientGoes("sleep", "connect_network")
  /\ UNCHANGED <<uri, rpc, net>>
  /\ ClientUnchanged

Connect ==
  /\ grpc = "serving"
  /\ \/ ClientGoes("connect_network", "connect_artifact")
     \/ ClientGoes("connect_artifact", "create_artifact")
  /\ UNCHANGED <<uri, rpc, net>>
  /\ ClientUnchanged

SendRpc ==
  /\ client \in {"create_artifact", "create_program"}
  /\ rpc.state = "none"
  /\ grpc = "serving"
  /\ rpc' = [state |-> "sent", method |-> client, uri |-> uri]
  /\ UNCHANGED <<client, uri, net>>
  /\ ClientUnchanged

ArtifactCreated ==
  /\ rpc.state = "served"
  /\ ClientGoes("create_artifact", "upload")
  /\ uri' = rpc.uri
  /\ rpc' = NoRpc
  /\ UNCHANGED net
  /\ ClientUnchanged

(* Mutant: the upload is spawned and not awaited.                          *)
SendProgramSpawned ==
  /\ ClientGoes("upload", "create_program")
  /\ http \in {"serving", "failed"}
  /\ Store!Send(uri, uri, Elf)
  /\ UNCHANGED <<uri, rpc>>
  /\ ClientUnchanged

(* Something listens on the HTTP port: the program is sent to it. *)
SendProgram ==
  /\ client = "upload"
  /\ http \in {"serving", "failed"}
  /\ Store!Send(uri, uri, Elf)
  /\ UNCHANGED <<client, uri, rpc>>
  /\ ClientUnchanged

(* Any answer leads on to create_program; one that is no success is logged *)
(* with its text first.                                                    *)
UploadAnswered ==
  /\ \/ ClientGoes("upload", "create_program") /\ conn[uri].state = "stored"
     \/ ClientGoes("upload", "error_body") /\ conn[uri].state = "rejected"
     \/ ClientGoes("error_body", "create_program")
  /\ UNCHANGED <<uri, rpc, net>>
  /\ ClientUnchanged

ProgramCreated ==
  /\ rpc.state = "served"
  /\ ClientGoes("create_program", "settle")
  /\ rpc' = NoRpc
  /\ UNCHANGED <<uri, net>>
  /\ ClientUnchanged

Settle ==
  /\ ClientGoes("settle", "done")
  /\ UNCHANGED <<uri, rpc, net>>
  /\ ClientUnchanged

(* An await on the gRPC server ends in an error, after 15 seconds at the   *)
(* latest: run_client returns it. An answer it does not read is lost.      *)
GrpcError ==
  /\ client \in {"connect_network", "connect_artifact", "create_artifact",
                 "create_program"}
  /\ client' = "done"
  /\ rpc' = IF rpc.state = "served" THEN NoRpc ELSE rpc
  /\ UNCHANGED <<uri, net>>
  /\ ClientUnchanged

(* The connection for the upload is refused: nobody listens. *)
UploadUnreachable ==
  /\ http \notin {"serving", "failed"}
  /\ ClientGoes("upload", "done")
  /\ conn[uri].state = "closed"
  /\ UNCHANGED <<uri, rpc, net>>
  /\ ClientUnchanged

(* The connection breaks before the answer. *)
UploadBreaks ==
  /\ ClientGoes("upload", "done")
  /\ conn[uri].state = "sent"
  /\ UNCHANGED <<uri, rpc, net>>
  /\ ClientUnchanged

ClientStep ==
  \/ Wake \/ Connect \/ SendRpc \/ ArtifactCreated \/ SendProgram
  \/ UploadAnswered \/ ProgramCreated \/ Settle
  \/ GrpcError \/ UploadUnreachable

---------------------------------------------------------------------------
MainStep == ClientJoined \/ SignalJoined \/ GraceOver \/ ServerJoined
ServerStep == SpawnHttp \/ StartGrpc \/ GrpcBindFails \/ Shutdown \/ Drained
ServeRpc == CreateArtifact \/ CreateProgram \/ DropCall
StoreStep(u) == ServePut(u) \/ ForeignAnswer(u)

Running == main # "exited"

Next ==
  /\ Running
  /\ \/ MainStep \/ Signal \/ SendShutdown
     \/ ServerStep \/ HttpBinds \/ ServeRpc
     \/ \E s \in Stream : Accept(s) \/ Answer(s)
     \/ \E u \in Url : StoreStep(u)
     \/ ClientStep \/ UploadBreaks

Spec == Init /\ [][Next]_vars

(* Tasks that can run are run; calls of others end (EveryCallReturns of    *)
(* ProverNetwork); whoever holds the HTTP port answers what was sent to    *)
(* it.  Nothing is assumed of signals, and nothing of the order in which   *)
(* the servers and the client start.                                       *)
Fairness ==
  /\ WF_vars(Running /\ MainStep)
  /\ WF_vars(Running /\ SendShutdown)
  /\ WF_vars(Running /\ ServerStep)
  /\ WF_vars(Running /\ HttpBinds)
  /\ WF_vars(Running /\ ServeRpc)
  /\ WF_vars(Running /\ ClientStep)
  /\ \A s \in Stream : WF_vars(Running /\ Answer(s))
  /\ \A u \in Url : WF_vars(Running /\ StoreStep(u))

FairSpec == Spec /\ Fairness

---------------------------------------------------------------------------
(* Safety *)

(* run_server does not take the HTTP server away under a call that was     *)
(* accepted, while the gRPC server drains or before. (Where the HTTP port  *)
(* was taken there never was one, and a call may find no store all along.) *)
StoreOutlivesCalls == InFlight => http # "aborted"

(* The process does not exit under a call that is open, a client that is   *)
(* half way, or a server that still serves, whatever order the signal, the *)
(* client's end and the servers' failures come in.                         *)
ExitIsClean ==
  main = "exited" =>
    /\ client = "done" /\ grpc \in {"ended", "failed"}
    /\ http \in {"aborted", "failed"}
    /\ ~InFlight

(* The program is registered under the URI of an artifact the store knows, *)
(* and not before its upload was answered.                                 *)
RegisteredAfterUpload ==
  program # Nil => /\ program \in artifacts
                   /\ conn[program].state \in {"stored", "rejected"}

---------------------------------------------------------------------------
(* Refinement *)

LifeStage ==
  CASE main = "exited" -> "exited"
    [] main # "exited" /\ grpc \in {"ended", "failed"} -> "over"
    [] OTHER -> grpc

(* The callers are the other clients and run_client, which is called Nil. *)
OpenCalls ==
  {s \in Stream : stream[s] = "open"} \cup (IF rpc.state = "sent" THEN {Nil} ELSE {})

Life == INSTANCE DrainingServer
          WITH Caller <- Stream \cup {Nil},
               stage <- LifeStage, open <- OpenCalls, kept <- http # "aborted"

(* Whatever order the signal, the start of the servers, their failures and *)
(* the end of the client come in, callers see a server that drains: its    *)
(* calls are neither cut off by the exit nor left without the artifact     *)
(* store, and none is taken once it is told to stop.                       *)
ImplementsDraining == Life!Spec

---------------------------------------------------------------------------
(* Liveness *)

(* After a signal the process comes to its end, wherever the client and    *)
(* the servers are, and also when the message is sent before the server    *)
(* listens for it or after it is gone.                                     *)
SignalEndsProcess == signalled ~> main = "exited"

---------------------------------------------------------------------------
(* What the documentation says, and the code does not keep *)

(* diagram: a prover gets the ELF at program_uri ("GET program_uri (ELF)") *)
(* once the service has uploaded it and called create_program.             *)
RegisteredProgramDownloadable ==
  program # Nil => Store!Download(program) = Elf

===========================================================================
