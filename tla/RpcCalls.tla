----------------------------- MODULE RpcCalls -----------------------------
(***************************************************************************)
(* A call of a page on a server, through the generated stubs               *)
(* (extension/html/rpc/*_grpc_web_pb.js): the page writes its request with *)
(* its classes, the server reads it with its own, runs the handler, and    *)
(* answers once or in a stream; the page reads every answer into a new     *)
(* object.  A server serves the services StartGrpcServer registered        *)
(* (v2/grpc_server.go).  The transport, gRPC-Web over HTTP, delivers the   *)
(* messages of a call in order or breaks the call.                         *)
(*                                                                         *)
(* The stubs keep nothing between calls, so one call at a time is all      *)
(* there is to see.  What the handlers compute is the other modules'       *)
(* matter: here an answer is any object of the response's class.           *)
(***************************************************************************)
EXTENDS RpcMessages

CONSTANTS
  MaxAnswers,       \* bound: messages a handler sends in one stream
  None              \* no method, no object

ASSUME MaxAnswersAssumption == MaxAnswers \in Nat \ {0}

Unary(service, request, response) ==
  [service |-> service, stream |-> FALSE, request |-> request, response |-> response]
Streaming(service, request, response) ==
  [service |-> service, stream |-> TRUE, request |-> request, response |-> response]

-----------------------------------------------------------------------------
(* The page's stubs: a descriptor of each method and the functions that    *)
(* call it.                                                                *)

ListExtensions == Unary("ExtensionHostService", "Empty", "ExtensionList")
Connect        == Streaming("ExtensionHostService", "ExtensionRequest", "ExtensionResponse")
EditExtension  == Unary("ExtensionHostService", "EditExtensionRequest", "ExtensionActionResult")
SubmitForm     == Unary("ExtensionHostService", "SendExtensionDataRequest", "ExtensionActionResult")
Close          == Unary("ExtensionHostService", "ExtensionRequest", "ExtensionActionResult")
GetUI          == Unary("ExtensionHostService", "ExtensionRequest", "ExtensionActionResult")

(* As if the status were asked for once.                                   *)
ListenOnce == Unary("Core", "Empty", "CoreInfoResponse")

SayHello == Unary("Hello", "HelloRequest", "HelloResponse")

Start                   == Unary("Core", "StartRequest", "CoreInfoResponse")
CoreInfoListener        == Streaming("Core", "Empty", "CoreInfoResponse")
OutboundsInfo           == Streaming("Core", "Empty", "OutboundGroupList")
MainOutboundsInfo       == Streaming("Core", "Empty", "OutboundGroupList")
GetSystemInfo           == Streaming("Core", "Empty", "SystemInfo")
Setup                   == Unary("Core", "SetupRequest", "Response")
Parse                   == Unary("Core", "ParseRequest", "ParseResponse")
ChangeRostovVPNSettings == Unary("Core", "ChangeRostovVPNSettingsRequest", "CoreInfoResponse")
StartService            == Unary("Core", "StartRequest", "CoreInfoResponse")
Stop                    == Unary("Core", "Empty", "CoreInfoResponse")
Restart                 == Unary("Core", "StartRequest", "CoreInfoResponse")
SelectOutbound          == Unary("Core", "SelectOutboundRequest", "Response")
UrlTest                 == Unary("Core", "UrlTestRequest", "Response")
GenerateWarpConfig      == Unary("Core", "GenerateWarpConfigRequest", "WarpGenerationResponse")
GetSystemProxyStatus    == Unary("Core", "Empty", "SystemProxyStatus")
SetSystemProxyEnabled   == Unary("Core", "SetSystemProxyEnabledRequest", "Response")
LogListener             == Streaming("Core", "Empty", "LogMessage")

TunnelStart  == Unary("TunnelService", "TunnelStartRequest", "TunnelResponse")
TunnelStop   == Unary("TunnelService", "Empty", "TunnelResponse")
TunnelStatus == Unary("TunnelService", "Empty", "TunnelResponse")
TunnelExit   == Unary("TunnelService", "Empty", "TunnelResponse")

(* The page's methods, by the path they are called under.                  *)
Stubs ==
  [ExtensionHostService_ListExtensions |-> ListExtensions,
   ExtensionHostService_Connect |-> Connect,
   ExtensionHostService_EditExtension |-> EditExtension,
   ExtensionHostService_SubmitForm |-> SubmitForm,
   ExtensionHostService_Close |-> Close, ExtensionHostService_GetUI |-> GetUI,
   Hello_SayHello |-> SayHello,
   Core_Start |-> Start, Core_CoreInfoListener |-> CoreInfoListener,
   Core_OutboundsInfo |-> OutboundsInfo, Core_MainOutboundsInfo |-> MainOutboundsInfo,
   Core_GetSystemInfo |-> GetSystemInfo, Core_Setup |-> Setup, Core_Parse |-> Parse,
   Core_ChangeRostovVPNSettings |-> ChangeRostovVPNSettings,
   Core_StartService |-> StartService, Core_Stop |-> Stop, Core_Restart |-> Restart,
   Core_SelectOutbound |-> SelectOutbound, Core_UrlTest |-> UrlTest,
   Core_GenerateWarpConfig |-> GenerateWarpConfig,
   Core_GetSystemProxyStatus |-> GetSystemProxyStatus,
   Core_SetSystemProxyEnabled |-> SetSystemProxyEnabled,
   Core_LogListener |-> LogListener,
   TunnelService_Start |-> TunnelStart, TunnelService_Stop |-> TunnelStop,
   TunnelService_Status |-> TunnelStatus, TunnelService_Exit |-> TunnelExit]

-----------------------------------------------------------------------------
(* The server: the methods of the .proto files, by the same paths.  The    *)
(* stubs have none for SayHelloStream, which streams both ways.            *)

ExtensionMethods ==
  LET Edit(request) == Unary("ExtensionHostService", request, "ExtensionActionResult")
  IN  [ExtensionHostService_ListExtensions |->
         Unary("ExtensionHostService", "Empty", "ExtensionList"),
       ExtensionHostService_Connect |->
         Streaming("ExtensionHostService", "ExtensionRequest", "ExtensionResponse"),
       ExtensionHostService_EditExtension |-> Edit("EditExtensionRequest"),
       ExtensionHostService_SubmitForm |-> Edit("SendExtensionDataRequest"),
       ExtensionHostService_Close |-> Edit("ExtensionRequest"),
       ExtensionHostService_GetUI |-> Edit("ExtensionRequest")]

CoreMethods ==
  LET Status(request) == Unary("Core", request, "CoreInfoResponse")
      Reply(request)  == Unary("Core", request, "Response")
      Feed(response)  == Streaming("Core", "Empty", response)
  IN  [Core_Start |-> Status("StartRequest"),
       Core_CoreInfoListener |-> Feed("CoreInfoResponse"),
       Core_OutboundsInfo |-> Feed("OutboundGroupList"),
       Core_MainOutboundsInfo |-> Feed("OutboundGroupList"),
       Core_GetSystemInfo |-> Feed("SystemInfo"),
       Core_Setup |-> Reply("SetupRequest"),
       Core_Parse |-> Unary("Core", "ParseRequest", "ParseResponse"),
       Core_ChangeRostovVPNSettings |-> Status("ChangeRostovVPNSettingsRequest"),
       Core_StartService |-> Status("StartRequest"),
       Core_Stop |-> Status("Empty"),
       Core_Restart |-> Status("StartRequest"),
       Core_SelectOutbound |-> Reply("SelectOutboundRequest"),
       Core_UrlTest |-> Reply("UrlTestRequest"),
       Core_GenerateWarpConfig |->
         Unary("Core", "GenerateWarpConfigRequest", "WarpGenerationResponse"),
       Core_GetSystemProxyStatus |-> Unary("Core", "Empty", "SystemProxyStatus"),
       Core_SetSystemProxyEnabled |-> Reply("SetSystemProxyEnabledRequest"),
       Core_LogListener |-> Feed("LogMessage")]

HelloMethods == [Hello_SayHello |-> Unary("Hello", "HelloRequest", "HelloResponse")]

TunnelMethods ==
  [TunnelService_Start |-> Unary("TunnelService", "TunnelStartRequest", "TunnelResponse"),
   TunnelService_Stop |-> Unary("TunnelService", "Empty", "TunnelResponse"),
   TunnelService_Status |-> Unary("TunnelService", "Empty", "TunnelResponse"),
   TunnelService_Exit |-> Unary("TunnelService", "Empty", "TunnelResponse")]

Methods == Merge(Merge(ExtensionMethods, CoreMethods), Merge(HelloMethods, TunnelMethods))

(* What StartGrpcServer registers for each kind of server.                 *)
Registered(kind) == CASE kind = "core"   -> {"Core", "ExtensionHostService"}
                      [] kind = "hello"  -> {"Hello"}
                      [] kind = "tunnel" -> {"TunnelService"}

(* The methods the registered types inherit from their Unimplemented*Server: *)
(* CoreService has no Setup and ExtensionHostService no GetUI.             *)
Unimplemented == {"Core_Setup", "ExtensionHostService_GetUI"}

-----------------------------------------------------------------------------
VARIABLES
  kind,      \* the service StartGrpcServer was started with
  method,    \* the method the page calls, or None
  page,      \* what the call is to the page: idle, waiting, done or failed
  handler,   \* the server's side of the call: none, running or returned
  transit,   \* which message is under way: none, request or answer
  sent,      \* the object it was made of, or the last one was
  got,       \* what was read of it, or None
  answers,   \* messages the handler has sent
  delivered  \* messages the page has read

vars == <<kind, method, page, handler, transit, sent, got, answers, delivered>>

Idle == /\ method = None /\ page = "idle" /\ handler = "none"
        /\ transit = "none" /\ sent = None /\ got = None
        /\ answers = 0 /\ delivered = 0

Init == kind \in {"core", "hello", "tunnel"} /\ Idle

(* A stub's function: the request's setters and serializeBinary.           *)
Call(m, o) ==
  /\ page = "idle"
  /\ method' = m /\ page' = "waiting"
  /\ transit' = "request" /\ sent' = o
  /\ UNCHANGED <<kind, handler, got, answers, delivered>>

(* What serializeBinary made of the request.                               *)
Request == LET T == Stubs[method].request IN Write("page", T, sent, Ascending(T))

(* The server finds the method and reads the request into a new object.    *)
Serve ==
  /\ transit = "request"
  /\ Methods[method].service \in Registered(kind) /\ method \notin Unimplemented
  /\ LET T == Methods[method].request
     IN  got' = ReadInto("server", T, New(T), Request)
  /\ handler' = "running" /\ transit' = "none"
  /\ UNCHANGED <<kind, method, page, sent, answers, delivered>>

(* A method that is not served is answered Unimplemented.                  *)
Refuse ==
  /\ transit = "request"
  /\ Methods[method].service \notin Registered(kind) \/ method \in Unimplemented
  /\ page' = "failed" /\ transit' = "none"
  /\ UNCHANGED <<kind, method, handler, sent, got, answers, delivered>>

(* How a server may write o: in the order of the numbers, in any other     *)
(* (here the reverse), or with a field of a later version of the class.    *)
Encodings(T, o) ==
  LET up == Ascending(T)
      w  == Write("server", T, o, up)
  IN  {w, Write("server", T, o, Reverse(up)), Append(w, Entry(Len(up) + 1, ""))}

(* The handler returns its answer, or sends one more message of a stream.  *)
Answer(o) ==
  /\ handler = "running" /\ transit = "none"
  /\ answers < (IF Methods[method].stream THEN MaxAnswers ELSE 1)
  /\ sent' = o /\ got' = None /\ transit' = "answer" /\ answers' = answers + 1
  /\ handler' = IF Methods[method].stream THEN "running" ELSE "returned"
  /\ UNCHANGED <<kind, method, page, delivered>>

(* The page reads an answer into the object o.  A unary call is over with  *)
(* it; a stream calls its data callback and goes on.                       *)
DeliverInto(o) ==
  /\ transit = "answer" /\ page = "waiting"
  /\ \E w \in Encodings(Methods[method].response, sent) :
       got' = ReadInto("page", Stubs[method].response, o, w)
  /\ page' = IF Stubs[method].stream THEN "waiting" ELSE "done"
  /\ delivered' = delivered + 1 /\ transit' = "none"
  /\ UNCHANGED <<kind, method, handler, sent, answers>>

(* As if the page read every answer into one object it keeps.              *)
DeliverAgain == DeliverInto(Full(Stubs[method].response))

(* deserializeBinary: the object is new.                                   *)
Deliver == DeliverInto(New(Stubs[method].response))

(* The handler of a stream returns.                                        *)
Return ==
  /\ handler = "running" /\ Methods[method].stream
  /\ handler' = "returned"
  /\ UNCHANGED <<kind, method, page, transit, sent, got, answers, delivered>>

(* The page learns that the stream has ended, after its last message.      *)
End ==
  /\ page = "waiting" /\ handler = "returned" /\ transit = "none"
  /\ page' = "done"
  /\ UNCHANGED <<kind, method, handler, transit, sent, got, answers, delivered>>

(* The handler fails or the connection breaks: the page gets an error, and *)
(* nothing of the call after it.                                           *)
Fail ==
  /\ page = "waiting"
  /\ page' = "failed" /\ handler' = "returned" /\ transit' = "none"
  /\ UNCHANGED <<kind, method, sent, got, answers, delivered>>

(* The page goes on to its next call.                                      *)
NextCall ==
  /\ page \in {"done", "failed"} /\ handler # "running" /\ transit = "none"
  /\ method' = None /\ page' = "idle" /\ handler' = "none" /\ transit' = "none"
  /\ sent' = None /\ got' = None /\ answers' = 0 /\ delivered' = 0
  /\ UNCHANGED kind

Next ==
  \/ \E m \in DOMAIN Stubs : \E o \in Objects(Stubs[m].request) : Call(m, o)
  \/ Serve
  \/ Refuse
  \/ method # None /\ \E o \in Objects(Methods[method].response) : Answer(o)
  \/ Deliver
  \/ Return
  \/ End
  \/ Fail
  \/ NextCall

Spec == Init /\ [][Next]_vars

-----------------------------------------------------------------------------
(* o is an object of class T whose fields hold values of their types.      *)
Typed(T, o) ==
  /\ DOMAIN o = DOMAIN New(T)
  /\ \A f \in ToSet(Classes[T]) : o[f.name] \in Values(f)

(* Whatever is read has the class of the method and a value of its type in *)
(* every field, and no more messages are read than were sent.              *)
TypeOK ==
  /\ kind \in {"core", "hello", "tunnel"}
  /\ method \in DOMAIN Stubs \cup {None}
  /\ page \in {"idle", "waiting", "done", "failed"}
  /\ handler \in {"none", "running", "returned"}
  /\ transit \in {"none", "request", "answer"}
  /\ got # None => Typed(IF answers = 0 THEN Methods[method].request
                                        ELSE Stubs[method].response, got)
  /\ 0 <= delivered /\ delivered <= answers /\ answers <= MaxAnswers

(* The handler reads, under each name, what the page set under that name:  *)
(* nothing is lost because the writer left it out, and no field is taken   *)
(* for another because the two sides number them apart.                    *)
RequestArrives == got # None /\ answers = 0 => got = sent

(* The page reads, under each name, what the handler answered: whatever    *)
(* the order of the fields, whatever fields a later server adds, and       *)
(* whatever the stream carried before.                                     *)
ResponseArrives == got # None /\ answers > 0 => got = sent

(* A call that ended well on the page gave it every message the handler    *)
(* sent: no stub takes a stream for a single answer.                       *)
NothingDropped == page = "done" => delivered = answers
=============================================================================
