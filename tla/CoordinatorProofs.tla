------------------------- MODULE CoordinatorProofs -------------------------
(***************************************************************************)
(* The safety of Coordinator, for any number of calls and artifact URLs.   *)
(*                                                                         *)
(* The properties follow from two facts: what each server's state says     *)
(* about the other and about the calls (ServersOK), and what run_client    *)
(* knows at each of its awaits about the artifact it is onboarding         *)
(* (ClientOK).                                                             *)
(***************************************************************************)
EXTENDS Coordinator, TLAPS

Over == {"ended", "failed"}
Answered(u) == conn[u].state \in {"stored", "rejected"}

ServersOK ==
  /\ InFlight => grpc \in {"serving", "draining"}
  /\ grpc \in Over => http \in {"aborted", "failed"}
  /\ http = "aborted" => grpc \in Over
  /\ main # "client" => client = "done"
  /\ main = "exited" => grpc \in Over

ClientOK ==
  /\ rpc.state # "none" =>
       /\ rpc.method \in {"create_artifact", "create_program"}
       /\ client # "done" => rpc.method = client
       /\ rpc.method = "create_program" => rpc.uri \in artifacts /\ Answered(rpc.uri)
       /\ rpc.state = "served" => rpc.uri \in artifacts
  /\ client \in {"upload", "error_body", "create_program", "settle"} =>
       uri \in artifacts
  /\ client \in {"error_body", "create_program", "settle"} => Answered(uri)

IInv == TypeOK /\ ServersOK /\ ClientOK /\ RegisteredAfterUpload

---------------------------------------------------------------------------
LEMMA InitIInv == Init => IInv
<1> SUFFICES ASSUME Init PROVE IInv
  OBVIOUS
<1>1. Store!TypeOK
  BY DEF Init, Store!Init, Store!TypeOK, Store!ConnState
<1>2. TypeOK
  BY <1>1 DEF Init, TypeOK, NoRpc, MainAwait, ClientAwait, RpcState
<1>3. ServersOK /\ ClientOK /\ RegisteredAfterUpload
  BY DEF Init, ServersOK, ClientOK, RegisteredAfterUpload, InFlight, Over, NoRpc
<1> QED
  BY <1>2, <1>3 DEF IInv

(* Every step keeps the types. *)
LEMMA NextTyped ==
  ASSUME IInv, [Next]_vars
  PROVE  TypeOK'
<1> USE DEF IInv, TypeOK, MainAwait, ClientAwait, RpcState
<1>1. ASSUME MainStep \/ Signal \/ SendShutdown PROVE TypeOK'
  <2>1. CASE MainStep
    BY <2>1
    DEF MainStep, ClientJoined, SignalJoined, GraceOver, ServerJoined, MainUnchanged,
        server, net, Store!TypeOK
  <2>2. CASE Signal
    <3>1. signalled' \in BOOLEAN
      BY <2>2 DEF Signal
    <3>2. Store!TypeOK'
      BY <2>2 DEF Signal, net, Store!TypeOK
    <3> QED
      BY <2>2, <3>1, <3>2 DEF Signal, server
  <2>3. CASE SendShutdown
    BY <2>3 DEF SendShutdown, net, Store!TypeOK
  <2> QED
    BY <1>1, <2>1, <2>2, <2>3
<1>2. ASSUME ServerStep \/ HttpBinds PROVE TypeOK'
  BY <1>2
  DEF ServerStep, SpawnHttp, StartGrpc, GrpcBindFails, HttpAborted, Shutdown, Drained,
      HttpBinds, ServerUnchanged, net, Store!TypeOK
<1>3. ASSUME NEW s \in Stream, Accept(s) \/ Answer(s) PROVE TypeOK'
  BY <1>3 DEF Accept, Answer, server, net, Store!TypeOK
<1>4. ASSUME ServeRpc PROVE TypeOK'
  <2>1. CASE CreateArtifact
    <3>1. PICK u \in Url : /\ artifacts' = artifacts \cup {u}
                           /\ rpc' = [rpc EXCEPT !.state = "served", !.uri = u]
      BY <2>1 DEF CreateArtifact
    <3>2. rpc' \in [state: RpcState, method: {"create_artifact", "create_program", Nil},
                    uri: Url \cup {Nil}]
      BY <3>1
    <3>3. artifacts' \in SUBSET Url
      BY <3>1
    <3> QED
      BY <2>1, <3>2, <3>3 DEF CreateArtifact, server, net, Store!TypeOK
  <2>2. CASE CreateProgram
    BY <2>2 DEF CreateProgram, server, net, Store!TypeOK
  <2>3. CASE DropCall
    BY <2>3 DEF DropCall, NoRpc, server, net, Store!TypeOK
  <2> QED
    BY <1>4, <2>1, <2>2, <2>3 DEF ServeRpc
<1>5. ASSUME NEW u \in Url, StoreStep(u) PROVE TypeOK'
  BY <1>5
  DEF StoreStep, ServePut, ForeignAnswer, Store!UploadArtifact, Store!RejectUpload,
      server, Store!TypeOK, Store!ConnState
<1>6. ASSUME ClientStep \/ UploadBreaks PROVE TypeOK'
  <2>1. CASE SendProgram
    <3>1. uri \in Url
      BY <2>1, ElfAssumption DEF SendProgram, ClientOK
    <3>2. Store!TypeOK'
      BY <2>1, <3>1 DEF SendProgram, Store!Send, Store!TypeOK, Store!ConnState
    <3> QED
      BY <2>1, <3>2 DEF SendProgram, ClientUnchanged, server
  <2>2. CASE SendRpc \/ ArtifactCreated
    BY <2>2
    DEF SendRpc, ArtifactCreated, NoRpc, ClientGoes, ClientUnchanged, server, net,
        Store!TypeOK
  <2>3. CASE Wake \/ Connect \/ UploadAnswered \/ ProgramCreated \/ Settle
    BY <2>3
    DEF Wake, Connect, UploadAnswered, ProgramCreated, Settle, NoRpc, ClientGoes,
        ClientUnchanged, server, net, Store!TypeOK
  <2>4. CASE GrpcError \/ UploadUnreachable \/ UploadBreaks
    BY <2>4
    DEF GrpcError, UploadUnreachable, UploadBreaks, NoRpc, ClientGoes, ClientUnchanged,
        server, net, Store!TypeOK
  <2> QED
    BY <1>6, <2>1, <2>2, <2>3, <2>4 DEF ClientStep
<1>7. CASE UNCHANGED vars
  BY <1>7 DEF vars, server, net, Store!TypeOK
<1> QED
  BY <1>1, <1>2, <1>3, <1>4, <1>5, <1>6, <1>7 DEF Next

(* Calls are taken only while the gRPC server serves, and the HTTP server  *)
(* ends with or after it.                                                  *)
LEMMA NextServers ==
  ASSUME IInv, [Next]_vars
  PROVE  ServersOK'
<1> USE DEF IInv, TypeOK, ServersOK, InFlight, Over
<1>1. ASSUME MainStep \/ Signal \/ SendShutdown PROVE ServersOK'
  BY <1>1
  DEF MainStep, ClientJoined, SignalJoined, GraceOver, ServerJoined, MainUnchanged,
      Signal, SendShutdown, server, MainAwait
<1>2. ASSUME ServerStep \/ HttpBinds PROVE ServersOK'
  BY <1>2
  DEF ServerStep, SpawnHttp, StartGrpc, GrpcBindFails, HttpAborted, Shutdown, Drained,
      HttpBinds, ServerUnchanged
<1>3. ASSUME NEW s \in Stream, Accept(s) \/ Answer(s) PROVE ServersOK'
  BY <1>3 DEF Accept, Answer, server
<1>4. ASSUME ServeRpc PROVE ServersOK'
  BY <1>4 DEF ServeRpc, CreateArtifact, CreateProgram, DropCall, NoRpc, server, RpcState
<1>5. ASSUME NEW u \in Url, StoreStep(u) PROVE ServersOK'
  BY <1>5 DEF StoreStep, ServePut, ForeignAnswer, server
<1>6. ASSUME ClientStep \/ UploadBreaks PROVE ServersOK'
  BY <1>6
  DEF ClientStep, Wake, Connect, SendRpc, ArtifactCreated, SendProgram,
      UploadAnswered, ProgramCreated, Settle, GrpcError, UploadUnreachable,
      UploadBreaks, ClientGoes, ClientUnchanged, NoRpc, server
<1>7. CASE UNCHANGED vars
  BY <1>7 DEF vars, server
<1> QED
  BY <1>1, <1>2, <1>3, <1>4, <1>5, <1>6, <1>7 DEF Next

(* A PUT once answered stays answered, and an artifact stays recorded.     *)
LEMMA AnswersStay ==
  ASSUME IInv, [Next]_vars
  PROVE  /\ artifacts \subseteq artifacts'
         /\ \A u \in Url : Answered(u) => Answered(u)'
<1> USE DEF IInv, TypeOK, Answered
<1>1. ASSUME MainStep \/ Signal \/ SendShutdown \/ ServerStep \/ HttpBinds
             \/ (\E s \in Stream : Accept(s) \/ Answer(s)) \/ ServeRpc
      PROVE  artifacts \subseteq artifacts' /\ conn' = conn
  BY <1>1
  DEF MainStep, ClientJoined, SignalJoined, GraceOver, ServerJoined, MainUnchanged,
      Signal, SendShutdown, ServerStep, SpawnHttp, StartGrpc, GrpcBindFails, HttpAborted,
      Shutdown, Drained, HttpBinds, ServerUnchanged, Accept, Answer, ServeRpc, CreateArtifact,
      CreateProgram, DropCall, net
<1>2. ASSUME NEW v \in Url, StoreStep(v)
      PROVE  artifacts' = artifacts /\ \A u \in Url : Answered(u) => Answered(u)'
  BY <1>2
  DEF StoreStep, ServePut, ForeignAnswer, Store!UploadArtifact, Store!RejectUpload,
      Store!TypeOK
<1>3. ASSUME ClientStep \/ UploadBreaks
      PROVE  artifacts' = artifacts /\ \A u \in Url : Answered(u) => Answered(u)'
  <2>1. CASE SendProgram
    BY <2>1 DEF SendProgram, Store!Send, Store!TypeOK, ClientUnchanged
  <2>2. CASE ~SendProgram
    BY <1>3, <2>2
    DEF ClientStep, Wake, Connect, SendRpc, ArtifactCreated, UploadAnswered,
        ProgramCreated, Settle, GrpcError, UploadUnreachable, UploadBreaks,
        ClientUnchanged, net
  <2> QED
    BY <2>1, <2>2
<1>4. CASE UNCHANGED vars
  BY <1>4 DEF vars, net
<1> QED
  BY <1>1, <1>2, <1>3, <1>4 DEF Next

(* What run_client knows at each await survives every step. *)
LEMMA NextClient ==
  ASSUME IInv, [Next]_vars
  PROVE  ClientOK' /\ RegisteredAfterUpload'
<1> USE DEF IInv, TypeOK, ClientOK, RegisteredAfterUpload
<1> USE AnswersStay, ElfAssumption
<1>1. ASSUME UNCHANGED <<client, uri, rpc, program>>
      PROVE  ClientOK' /\ RegisteredAfterUpload'
  BY <1>1 DEF Answered
<1>2. ASSUME MainStep \/ Signal \/ SendShutdown \/ ServerStep \/ HttpBinds
             \/ (\E s \in Stream : Accept(s) \/ Answer(s))
             \/ (\E u \in Url : StoreStep(u)) \/ UNCHANGED vars
      PROVE  UNCHANGED <<client, uri, rpc, program>>
  BY <1>2
  DEF MainStep, ClientJoined, SignalJoined, GraceOver, ServerJoined, MainUnchanged,
      Signal, SendShutdown, ServerStep, SpawnHttp, StartGrpc, GrpcBindFails, HttpAborted,
      Shutdown, Drained, HttpBinds, ServerUnchanged, Accept, Answer, StoreStep, ServePut, ForeignAnswer,
      vars
<1>3. ASSUME ServeRpc PROVE ClientOK' /\ RegisteredAfterUpload'
  <2>1. CASE CreateArtifact
    BY <2>1 DEF CreateArtifact, net, Answered
  <2>2. CASE CreateProgram
    BY <2>2 DEF CreateProgram, net, Answered
  <2>3. CASE DropCall
    BY <2>3 DEF DropCall, NoRpc, net, Answered
  <2> QED
    BY <1>3, <2>1, <2>2, <2>3 DEF ServeRpc
<1>4. ASSUME ClientStep \/ UploadBreaks PROVE ClientOK' /\ RegisteredAfterUpload'
  <2>1. CASE SendProgram
    BY <2>1 DEF SendProgram, ClientUnchanged, Answered
  <2>2. CASE SendRpc
    BY <2>2 DEF SendRpc, ClientUnchanged, net, Answered
  <2>5. CASE ArtifactCreated
    BY <2>5 DEF ArtifactCreated, NoRpc, ClientGoes, ClientUnchanged, net, Answered
  <2>3. CASE Wake \/ Connect \/ UploadAnswered \/ ProgramCreated \/ Settle
    BY <2>3
    DEF Wake, Connect, UploadAnswered, ProgramCreated, Settle, NoRpc, ClientGoes,
        ClientUnchanged, net, Answered
  <2>4. CASE GrpcError \/ UploadUnreachable \/ UploadBreaks
    BY <2>4
    DEF GrpcError, UploadUnreachable, UploadBreaks, NoRpc, ClientGoes,
        ClientUnchanged, net, Answered
  <2> QED
    BY <1>4, <2>1, <2>2, <2>3, <2>4, <2>5 DEF ClientStep
<1> QED
  BY <1>1, <1>2, <1>3, <1>4 DEF Next

LEMMA IInvHolds == Spec => []IInv
<1>1. IInv /\ [Next]_vars => IInv'
  BY NextTyped, NextServers, NextClient DEF IInv
<1> QED
  BY InitIInv, <1>1, PTL DEF Spec

---------------------------------------------------------------------------
(* run_server aborts the HTTP server only when no call is left to use it.  *)
THEOREM StoreAlwaysOutlivesCalls == Spec => []StoreOutlivesCalls
<1>1. IInv => StoreOutlivesCalls
  BY DEF IInv, ServersOK, StoreOutlivesCalls, Over
<1> QED
  BY <1>1, IInvHolds, PTL

(* main returns only when the client and both servers have come to an end. *)
THEOREM ExitAlwaysClean == Spec => []ExitIsClean
<1>1. IInv => ExitIsClean
  BY DEF IInv, ServersOK, ExitIsClean, Over
<1> QED
  BY <1>1, IInvHolds, PTL

(* run_client registers nothing whose upload is not answered.              *)
THEOREM AlwaysRegisteredAfterUpload == Spec => []RegisteredAfterUpload
<1>1. IInv => RegisteredAfterUpload
  BY DEF IInv
<1> QED
  BY <1>1, IInvHolds, PTL

(* Type correctness of the process. *)
THEOREM CoordinatorTyped == Spec => []TypeOK
<1>1. IInv => TypeOK
  BY DEF IInv
<1> QED
  BY <1>1, IInvHolds, PTL

---------------------------------------------------------------------------
(* Draining *)

kept == http # "aborted"

LEMMA InitDrains == Init => Life!Init
BY DEF Init, Life!Init, LifeStage, OpenCalls, NoRpc

LEMMA OpenIsInFlight ==
  /\ OpenCalls = {} <=> ~InFlight
  /\ \A s \in Stream : s \in OpenCalls <=> stream[s] = "open"
  /\ Nil \in OpenCalls <=> rpc.state = "sent"
BY ClientIsNoStream DEF OpenCalls, InFlight

(* The open calls change when a call of another client begins or ends, or  *)
(* one of run_client is sent, served or dropped.                           *)
LEMMA OpenUnchanged ==
  ASSUME stream' = stream, rpc.state = "sent" <=> rpc'.state = "sent"
  PROVE  OpenCalls' = OpenCalls
BY DEF OpenCalls

LEMMA StageUnchanged ==
  ASSUME main' = main, grpc' = grpc
  PROVE  LifeStage' = LifeStage
BY DEF LifeStage

LEMMA MainDrains ==
  ASSUME IInv, MainStep
  PROVE  Life!Exit \/ UNCHANGED Life!lifeVars
<1> USE DEF Life!Exit, Life!lifeVars, server
<1>1. OpenCalls' = OpenCalls /\ UNCHANGED <<grpc, http>>
  BY OpenUnchanged
  DEF MainStep, ClientJoined, SignalJoined, GraceOver, ServerJoined, MainUnchanged
<1>2. CASE ServerJoined
  <2>1. LifeStage = "over" /\ LifeStage' = "exited"
    BY <1>2 DEF ServerJoined, LifeStage
  <2> QED
    BY <1>1, <2>1
<1>3. CASE ClientJoined \/ SignalJoined \/ GraceOver
  <2>1. LifeStage' = LifeStage
    BY <1>1, <1>3 DEF ClientJoined, SignalJoined, GraceOver, LifeStage
  <2> QED
    BY <1>1, <2>1
<1> QED
  BY <1>2, <1>3 DEF MainStep

LEMMA ServerDrains ==
  ASSUME IInv, main # "exited", ServerStep \/ HttpBinds
  PROVE  Life!Next \/ UNCHANGED Life!lifeVars
<1> USE DEF Life!Next, Life!lifeVars
<1>1. OpenCalls' = OpenCalls /\ main' = main
  BY OpenUnchanged
  DEF ServerStep, SpawnHttp, StartGrpc, GrpcBindFails, HttpAborted, Shutdown, Drained,
      HttpBinds, ServerUnchanged
<1>2. CASE StartGrpc
  <2>1. LifeStage = "starting" /\ LifeStage' = "serving" /\ kept' = kept
    BY <1>1, <1>2 DEF StartGrpc, LifeStage, kept
  <2> QED
    BY <1>1, <2>1 DEF Life!Serve, kept
<1>3. CASE GrpcBindFails
  <2>1. LifeStage = "starting" /\ LifeStage' = "over"
    BY <1>1, <1>3 DEF GrpcBindFails, LifeStage
  <2> QED
    BY <1>1, <2>1 DEF Life!GiveUp
<1>4. CASE Shutdown
  <2>1. LifeStage = "serving" /\ LifeStage' = "draining" /\ kept' = kept
    BY <1>1, <1>4 DEF Shutdown, LifeStage, kept
  <2> QED
    BY <1>1, <2>1 DEF Life!StopTaking, kept
<1>5. CASE Drained
  <2>1. LifeStage = "draining" /\ LifeStage' = "over"
    BY <1>1, <1>5 DEF Drained, LifeStage
  <2>2. OpenCalls = {}
    BY <1>5, OpenIsInFlight DEF Drained
  <2> QED
    BY <1>1, <2>1, <2>2 DEF Life!Close
<1>6. CASE SpawnHttp \/ HttpBinds
  <2>1. LifeStage' = LifeStage /\ kept' = kept
    BY <1>1, <1>6, StageUnchanged DEF SpawnHttp, HttpBinds, kept
  <2> QED
    BY <1>1, <2>1 DEF kept
<1> QED
  BY <1>2, <1>3, <1>4, <1>5, <1>6 DEF ServerStep

(* Calls of other clients. *)
LEMMA StreamDrains ==
  ASSUME IInv, main # "exited", NEW s \in Stream, Accept(s) \/ Answer(s)
  PROVE  Life!Take(s) \/ Life!Return(s)
<1>1. LifeStage' = LifeStage /\ http' = http /\ rpc' = rpc
  BY StageUnchanged DEF Accept, Answer, server
<1>2. CASE Accept(s)
  <2>1. LifeStage = "serving" /\ s \notin OpenCalls
    BY <1>2, OpenIsInFlight DEF Accept, LifeStage
  <2>2. OpenCalls' = OpenCalls \cup {s}
    BY <1>1, <1>2 DEF Accept, OpenCalls, IInv, TypeOK
  <2> QED
    BY <1>1, <2>1, <2>2 DEF Life!Take
<1>3. CASE Answer(s)
  <2>1. s \in OpenCalls
    BY <1>3, OpenIsInFlight DEF Answer
  <2>2. OpenCalls' = OpenCalls \ {s}
    BY <1>1, <1>3, ClientIsNoStream DEF Answer, OpenCalls, IInv, TypeOK
  <2> QED
    BY <1>1, <2>1, <2>2 DEF Life!Return
<1> QED
  BY <1>2, <1>3

(* The calls of run_client. *)
LEMMA ClientDrains ==
  ASSUME IInv, main # "exited", ServeRpc \/ ClientStep \/ UploadBreaks
  PROVE  Life!Take(Nil) \/ Life!Return(Nil) \/ UNCHANGED Life!lifeVars
<1>1. LifeStage' = LifeStage /\ http' = http /\ stream' = stream
  BY StageUnchanged
  DEF ServeRpc, CreateArtifact, CreateProgram, DropCall, ClientStep, Wake, Connect,
      SendRpc, ArtifactCreated, SendProgram, UploadAnswered, ProgramCreated, Settle,
      GrpcError, UploadUnreachable, UploadBreaks, ClientUnchanged, server
<1>2. CASE SendRpc
  <2>1. LifeStage = "serving" /\ Nil \notin OpenCalls
    BY <1>2, OpenIsInFlight DEF SendRpc, LifeStage
  <2>2. OpenCalls' = OpenCalls \cup {Nil}
    BY <1>1, <1>2 DEF SendRpc, OpenCalls
  <2> QED
    BY <1>1, <2>1, <2>2 DEF Life!Take
<1>3. CASE ServeRpc
  <2>1. rpc.state = "sent" /\ rpc'.state # "sent"
    <3>1. CASE CreateArtifact
      <4>1. PICK u \in Url : rpc' = [rpc EXCEPT !.state = "served", !.uri = u]
        BY <3>1 DEF CreateArtifact
      <4>2. rpc'.state = "served"
        BY <4>1 DEF IInv, TypeOK
      <4> QED
        BY <3>1, <4>2 DEF CreateArtifact
    <3>2. CASE CreateProgram
      BY <3>2 DEF CreateProgram, IInv, TypeOK
    <3>3. CASE DropCall
      BY <3>3 DEF DropCall, NoRpc
    <3> QED
      BY <1>3, <3>1, <3>2, <3>3 DEF ServeRpc
  <2>2. OpenCalls' = OpenCalls \ {Nil} /\ Nil \in OpenCalls
    BY <1>1, <2>1, ClientIsNoStream DEF OpenCalls
  <2> QED
    BY <1>1, <2>2 DEF Life!Return
<1>4. CASE (ClientStep \/ UploadBreaks) /\ ~SendRpc
  <2>1. rpc.state = "sent" <=> rpc'.state = "sent"
    BY <1>4
    DEF ClientStep, Wake, Connect, ArtifactCreated, SendProgram, UploadAnswered,
        ProgramCreated, Settle, GrpcError, UploadUnreachable, UploadBreaks, NoRpc
  <2> QED
    BY <1>1, <2>1, OpenUnchanged DEF Life!lifeVars
<1> QED
  BY <1>2, <1>3, <1>4

(* The process ends gracefully, for any number of callers.                 *)
THEOREM AlwaysDrains == Spec => ImplementsDraining
<1>1. IInv /\ [Next]_vars => [Life!Next]_(Life!lifeVars)
  <2> SUFFICES ASSUME IInv, [Next]_vars PROVE [Life!Next]_(Life!lifeVars)
    OBVIOUS
  <2>1. CASE MainStep
    BY <2>1, MainDrains DEF Life!Next
  <2>2. CASE Running /\ (ServerStep \/ HttpBinds)
    BY <2>2, ServerDrains DEF Running
  <2>3. CASE Running /\ \E s \in Stream : Accept(s) \/ Answer(s)
    BY <2>3, StreamDrains DEF Running, Life!Next
  <2>4. CASE Running /\ (ServeRpc \/ ClientStep \/ UploadBreaks)
    BY <2>4, ClientDrains DEF Running, Life!Next
  <2>5. CASE Signal \/ SendShutdown \/ (\E u \in Url : StoreStep(u)) \/ UNCHANGED vars
    <3>1. UNCHANGED <<main, grpc, http, stream, rpc>>
      BY <2>5 DEF Signal, SendShutdown, StoreStep, ServePut, ForeignAnswer, vars, server
    <3> QED
      BY <3>1, OpenUnchanged, StageUnchanged DEF Life!lifeVars
  <2> QED
    BY <2>1, <2>2, <2>3, <2>4, <2>5 DEF Next
<1> QED
  BY <1>1, InitDrains, IInvHolds, PTL DEF Spec, ImplementsDraining, Life!Spec

============================================================================
