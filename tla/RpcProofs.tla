----------------------------- MODULE RpcProofs -----------------------------
(***************************************************************************)
(* Theorems about RpcMessages and RpcCalls: whatever a page or a handler   *)
(* sends over the generated stubs arrives as it was.  They hold for any    *)
(* texts and numbers, any bound on repeated fields and any number of       *)
(* messages in a stream.                                                   *)
(*                                                                         *)
(* The proof follows the code down and up again.  The tables of the two    *)
(* sides agree (NumbersAgree, StubsAgree).  The entries of one field give  *)
(* it its value (ReadParts), hence those of all fields in any order        *)
(* (ReadLaid), hence an object without embedded messages comes back        *)
(* (ItemTrip), hence one with one level of them (GroupTrip), hence one     *)
(* with two (RoundTrip): no class nests deeper.  What the calls carry are  *)
(* such objects (ObjectsAre), and the rest is control (RpcInv).            *)
(*                                                                         *)
(* The readers and the joining of sequences are recursive functions.       *)
(* Counting is the induction they need, stated about a set.                *)
(***************************************************************************)
EXTENDS RpcCalls, SequenceTheorems, FiniteSetTheorems, WellFoundedInduction, TLAPS

-----------------------------------------------------------------------------
(* The tables: the page numbers its fields as the server does.             *)

\* The kinds of a field; a field of the last two holds messages.
PlainKinds == {"string", "bool", "int", "enum", "map"}
Kinds      == PlainKinds \cup {"message", "repeated"}

\* The page's class C and the server's numbers P agree, and C's fields are of kinds K.
Tabled(C, P, K) ==
  /\ Len(C) \in Nat /\ DOMAIN C = 1 .. Len(C)
  /\ \A i \in DOMAIN C : P[C[i].name] = i /\ C[i].kind \in K

\* A class of as many fields as the lemma is named for, whose numbers agree one by one.
LEMMA Table1 ==
  ASSUME NEW C, NEW P, NEW K, Len(C) = 1, DOMAIN C = 1 .. 1,
         P[C[1].name] = 1, C[1].kind \in K
  PROVE  Tabled(C, P, K)
<1>1. \A i \in 1 .. 1 : i = 1
  OBVIOUS
<1> QED
  BY <1>1 DEF Tabled

LEMMA Table2 ==
  ASSUME NEW C, NEW P, NEW K, Len(C) = 2, DOMAIN C = 1 .. 2,
         P[C[1].name] = 1, C[1].kind \in K,
         P[C[2].name] = 2, C[2].kind \in K
  PROVE  Tabled(C, P, K)
<1>1. \A i \in 1 .. 2 : i = 1 \/ i = 2
  OBVIOUS
<1> QED
  BY <1>1 DEF Tabled

LEMMA Table3 ==
  ASSUME NEW C, NEW P, NEW K, Len(C) = 3, DOMAIN C = 1 .. 3,
         P[C[1].name] = 1, C[1].kind \in K,
         P[C[2].name] = 2, C[2].kind \in K,
         P[C[3].name] = 3, C[3].kind \in K
  PROVE  Tabled(C, P, K)
<1>1. \A i \in 1 .. 3 : i = 1 \/ i = 2 \/ i = 3
  OBVIOUS
<1> QED
  BY <1>1 DEF Tabled

LEMMA Table4 ==
  ASSUME NEW C, NEW P, NEW K, Len(C) = 4, DOMAIN C = 1 .. 4,
         P[C[1].name] = 1, C[1].kind \in K,
         P[C[2].name] = 2, C[2].kind \in K,
         P[C[3].name] = 3, C[3].kind \in K,
         P[C[4].name] = 4, C[4].kind \in K
  PROVE  Tabled(C, P, K)
<1>1. \A i \in 1 .. 4 : i = 1 \/ i = 2 \/ i = 3 \/ i = 4
  OBVIOUS
<1> QED
  BY <1>1 DEF Tabled

LEMMA Table5 ==
  ASSUME NEW C, NEW P, NEW K, Len(C) = 5, DOMAIN C = 1 .. 5,
         P[C[1].name] = 1, C[1].kind \in K,
         P[C[2].name] = 2, C[2].kind \in K,
         P[C[3].name] = 3, C[3].kind \in K,
         P[C[4].name] = 4, C[4].kind \in K,
         P[C[5].name] = 5, C[5].kind \in K
  PROVE  Tabled(C, P, K)
<1>1. \A i \in 1 .. 5 : i = 1 \/ i = 2 \/ i = 3 \/ i = 4 \/ i = 5
  OBVIOUS
<1> QED
  BY <1>1 DEF Tabled

LEMMA Table6 ==
  ASSUME NEW C, NEW P, NEW K, Len(C) = 6, DOMAIN C = 1 .. 6,
         P[C[1].name] = 1, C[1].kind \in K,
         P[C[2].name] = 2, C[2].kind \in K,
         P[C[3].name] = 3, C[3].kind \in K,
         P[C[4].name] = 4, C[4].kind \in K,
         P[C[5].name] = 5, C[5].kind \in K,
         P[C[6].name] = 6, C[6].kind \in K
  PROVE  Tabled(C, P, K)
<1>1. \A i \in 1 .. 6 : i = 1 \/ i = 2 \/ i = 3 \/ i = 4 \/ i = 5 \/ i = 6
  OBVIOUS
<1> QED
  BY <1>1 DEF Tabled

LEMMA Table9 ==
  ASSUME NEW C, NEW P, NEW K, Len(C) = 9, DOMAIN C = 1 .. 9,
         P[C[1].name] = 1, C[1].kind \in K,
         P[C[2].name] = 2, C[2].kind \in K,
         P[C[3].name] = 3, C[3].kind \in K,
         P[C[4].name] = 4, C[4].kind \in K,
         P[C[5].name] = 5, C[5].kind \in K,
         P[C[6].name] = 6, C[6].kind \in K,
         P[C[7].name] = 7, C[7].kind \in K,
         P[C[8].name] = 8, C[8].kind \in K,
         P[C[9].name] = 9, C[9].kind \in K
  PROVE  Tabled(C, P, K)
<1>1. \A i \in 1 .. 9 : i = 1 \/ i = 2 \/ i = 3 \/ i = 4 \/ i = 5 \/ i = 6 \/ i = 7 \/ i = 8 \/ i = 9
  OBVIOUS
<1> QED
  BY <1>1 DEF Tabled

\* Every class of the page has the numbers the .proto file gives its fields.
LEMMA TableHelloRequest == Tabled(Classes.HelloRequest, Proto.HelloRequest, PlainKinds)
<1>1. Classes.HelloRequest = HelloRequest /\ Proto.HelloRequest = BaseProto.HelloRequest
  BY DEF Classes, Proto, Merge, BaseProto, ExtensionProto, RostovvpnProto
<1>2. Len(HelloRequest) = 1 /\ DOMAIN HelloRequest = 1 .. 1
  BY DEF HelloRequest
<1>3. /\ BaseProto.HelloRequest[HelloRequest[1].name] = 1 /\ HelloRequest[1].kind \in PlainKinds
  BY DEF HelloRequest, BaseProto, PlainKinds, Str, F
<1> QED
  BY <1>1, <1>2, <1>3, Table1

LEMMA TableHelloResponse == Tabled(Classes.HelloResponse, Proto.HelloResponse, PlainKinds)
<1>1. Classes.HelloResponse = HelloResponse /\ Proto.HelloResponse = BaseProto.HelloResponse
  BY DEF Classes, Proto, Merge, BaseProto, ExtensionProto, RostovvpnProto
<1>2. Len(HelloResponse) = 1 /\ DOMAIN HelloResponse = 1 .. 1
  BY DEF HelloResponse
<1>3. /\ BaseProto.HelloResponse[HelloResponse[1].name] = 1 /\ HelloResponse[1].kind \in PlainKinds
  BY DEF HelloResponse, BaseProto, PlainKinds, Str, F
<1> QED
  BY <1>1, <1>2, <1>3, Table1

LEMMA TableEmpty == Tabled(Classes.Empty, Proto.Empty, PlainKinds)
<1>1. Classes.Empty = Empty /\ Proto.Empty = BaseProto.Empty
  BY DEF Classes, Proto, Merge, BaseProto, ExtensionProto, RostovvpnProto
<1> QED
  BY <1>1 DEF Empty, BaseProto, Tabled

LEMMA TableExtensionActionResult == Tabled(Classes.ExtensionActionResult, Proto.ExtensionActionResult, PlainKinds)
<1>1. Classes.ExtensionActionResult = ExtensionActionResult /\ Proto.ExtensionActionResult = ExtensionProto.ExtensionActionResult
  BY DEF Classes, Proto, Merge, BaseProto, ExtensionProto, RostovvpnProto
<1>2. Len(ExtensionActionResult) = 3 /\ DOMAIN ExtensionActionResult = 1 .. 3
  BY DEF ExtensionActionResult
<1>3. /\ ExtensionProto.ExtensionActionResult[ExtensionActionResult[1].name] = 1 /\ ExtensionActionResult[1].kind \in PlainKinds
      /\ ExtensionProto.ExtensionActionResult[ExtensionActionResult[2].name] = 2 /\ ExtensionActionResult[2].kind \in PlainKinds
      /\ ExtensionProto.ExtensionActionResult[ExtensionActionResult[3].name] = 3 /\ ExtensionActionResult[3].kind \in PlainKinds
  BY DEF ExtensionActionResult, ExtensionProto, PlainKinds, Enum, Str, F
<1> QED
  BY <1>1, <1>2, <1>3, Table3

LEMMA TableExtensionList == Tabled(Classes.ExtensionList, Proto.ExtensionList, Kinds)
<1>1. Classes.ExtensionList = ExtensionList /\ Proto.ExtensionList = ExtensionProto.ExtensionList
  BY DEF Classes, Proto, Merge, BaseProto, ExtensionProto, RostovvpnProto
<1>2. Len(ExtensionList) = 1 /\ DOMAIN ExtensionList = 1 .. 1
  BY DEF ExtensionList
<1>3. /\ ExtensionProto.ExtensionList[ExtensionList[1].name] = 1 /\ ExtensionList[1].kind \in Kinds
  BY DEF ExtensionList, ExtensionProto, PlainKinds, Kinds, Rep, F
<1> QED
  BY <1>1, <1>2, <1>3, Table1

LEMMA TableEditExtensionRequest == Tabled(Classes.EditExtensionRequest, Proto.EditExtensionRequest, PlainKinds)
<1>1. Classes.EditExtensionRequest = EditExtensionRequest /\ Proto.EditExtensionRequest = ExtensionProto.EditExtensionRequest
  BY DEF Classes, Proto, Merge, BaseProto, ExtensionProto, RostovvpnProto
<1>2. Len(EditExtensionRequest) = 2 /\ DOMAIN EditExtensionRequest = 1 .. 2
  BY DEF EditExtensionRequest
<1>3. /\ ExtensionProto.EditExtensionRequest[EditExtensionRequest[1].name] = 1 /\ EditExtensionRequest[1].kind \in PlainKinds
      /\ ExtensionProto.EditExtensionRequest[EditExtensionRequest[2].name] = 2 /\ EditExtensionRequest[2].kind \in PlainKinds
  BY DEF EditExtensionRequest, ExtensionProto, PlainKinds, Bool, Str, F
<1> QED
  BY <1>1, <1>2, <1>3, Table2

LEMMA TableExtension == Tabled(Classes.Extension, Proto.Extension, PlainKinds)
<1>1. Classes.Extension = Extension /\ Proto.Extension = ExtensionProto.Extension
  BY DEF Classes, Proto, Merge, BaseProto, ExtensionProto, RostovvpnProto
<1>2. Len(Extension) = 4 /\ DOMAIN Extension = 1 .. 4
  BY DEF Extension
<1>3. /\ ExtensionProto.Extension[Extension[1].name] = 1 /\ Extension[1].kind \in PlainKinds
      /\ ExtensionProto.Extension[Extension[2].name] = 2 /\ Extension[2].kind \in PlainKinds
      /\ ExtensionProto.Extension[Extension[3].name] = 3 /\ Extension[3].kind \in PlainKinds
      /\ ExtensionProto.Extension[Extension[4].name] = 4 /\ Extension[4].kind \in PlainKinds
  BY DEF Extension, ExtensionProto, PlainKinds, Bool, Str, F
<1> QED
  BY <1>1, <1>2, <1>3, Table4

LEMMA TableExtensionRequest == Tabled(Classes.ExtensionRequest, Proto.ExtensionRequest, PlainKinds)
<1>1. Classes.ExtensionRequest = ExtensionRequest /\ Proto.ExtensionRequest = ExtensionProto.ExtensionRequest
  BY DEF Classes, Proto, Merge, BaseProto, ExtensionProto, RostovvpnProto
<1>2. Len(ExtensionRequest) = 2 /\ DOMAIN ExtensionRequest = 1 .. 2
  BY DEF ExtensionRequest
<1>3. /\ ExtensionProto.ExtensionRequest[ExtensionRequest[1].name] = 1 /\ ExtensionRequest[1].kind \in PlainKinds
      /\ ExtensionProto.ExtensionRequest[ExtensionRequest[2].name] = 2 /\ ExtensionRequest[2].kind \in PlainKinds
  BY DEF ExtensionRequest, ExtensionProto, PlainKinds, MapOf, Str, F
<1> QED
  BY <1>1, <1>2, <1>3, Table2

LEMMA TableSendExtensionDataRequest == Tabled(Classes.SendExtensionDataRequest, Proto.SendExtensionDataRequest, PlainKinds)
<1>1. Classes.SendExtensionDataRequest = SendExtensionDataRequest /\ Proto.SendExtensionDataRequest = ExtensionProto.SendExtensionDataRequest
  BY DEF Classes, Proto, Merge, BaseProto, ExtensionProto, RostovvpnProto
<1>2. Len(SendExtensionDataRequest) = 3 /\ DOMAIN SendExtensionDataRequest = 1 .. 3
  BY DEF SendExtensionDataRequest
<1>3. /\ ExtensionProto.SendExtensionDataRequest[SendExtensionDataRequest[1].name] = 1 /\ SendExtensionDataRequest[1].kind \in PlainKinds
      /\ ExtensionProto.SendExtensionDataRequest[SendExtensionDataRequest[2].name] = 2 /\ SendExtensionDataRequest[2].kind \in PlainKinds
      /\ ExtensionProto.SendExtensionDataRequest[SendExtensionDataRequest[3].name] = 3 /\ SendExtensionDataRequest[3].kind \in PlainKinds
  BY DEF SendExtensionDataRequest, ExtensionProto, PlainKinds, MapOf, Str, F
<1> QED
  BY <1>1, <1>2, <1>3, Table3

LEMMA TableExtensionResponse == Tabled(Classes.ExtensionResponse, Proto.ExtensionResponse, PlainKinds)
<1>1. Classes.ExtensionResponse = ExtensionResponse /\ Proto.ExtensionResponse = ExtensionProto.ExtensionResponse
  BY DEF Classes, Proto, Merge, BaseProto, ExtensionProto, RostovvpnProto
<1>2. Len(ExtensionResponse) = 3 /\ DOMAIN ExtensionResponse = 1 .. 3
  BY DEF ExtensionResponse
<1>3. /\ ExtensionProto.ExtensionResponse[ExtensionResponse[1].name] = 1 /\ ExtensionResponse[1].kind \in PlainKinds
      /\ ExtensionProto.ExtensionResponse[ExtensionResponse[2].name] = 2 /\ ExtensionResponse[2].kind \in PlainKinds
      /\ ExtensionProto.ExtensionResponse[ExtensionResponse[3].name] = 3 /\ ExtensionResponse[3].kind \in PlainKinds
  BY DEF ExtensionResponse, ExtensionProto, PlainKinds, Enum, Str, F
<1> QED
  BY <1>1, <1>2, <1>3, Table3

LEMMA TableCoreInfoResponse == Tabled(Classes.CoreInfoResponse, Proto.CoreInfoResponse, PlainKinds)
<1>1. Classes.CoreInfoResponse = CoreInfoResponse /\ Proto.CoreInfoResponse = RostovvpnProto.CoreInfoResponse
  BY DEF Classes, Proto, Merge, BaseProto, ExtensionProto, RostovvpnProto
<1>2. Len(CoreInfoResponse) = 3 /\ DOMAIN CoreInfoResponse = 1 .. 3
  BY DEF CoreInfoResponse
<1>3. /\ RostovvpnProto.CoreInfoResponse[CoreInfoResponse[1].name] = 1 /\ CoreInfoResponse[1].kind \in PlainKinds
      /\ RostovvpnProto.CoreInfoResponse[CoreInfoResponse[2].name] = 2 /\ CoreInfoResponse[2].kind \in PlainKinds
      /\ RostovvpnProto.CoreInfoResponse[CoreInfoResponse[3].name] = 3 /\ CoreInfoResponse[3].kind \in PlainKinds
  BY DEF CoreInfoResponse, RostovvpnProto, PlainKinds, Enum, Str, F
<1> QED
  BY <1>1, <1>2, <1>3, Table3

LEMMA TableStartRequest == Tabled(Classes.StartRequest, Proto.StartRequest, PlainKinds)
<1>1. Classes.StartRequest = StartRequest /\ Proto.StartRequest = RostovvpnProto.StartRequest
  BY DEF Classes, Proto, Merge, BaseProto, ExtensionProto, RostovvpnProto
<1>2. Len(StartRequest) = 6 /\ DOMAIN StartRequest = 1 .. 6
  BY DEF StartRequest
<1>3. /\ RostovvpnProto.StartRequest[StartRequest[1].name] = 1 /\ StartRequest[1].kind \in PlainKinds
      /\ RostovvpnProto.StartRequest[StartRequest[2].name] = 2 /\ StartRequest[2].kind \in PlainKinds
      /\ RostovvpnProto.StartRequest[StartRequest[3].name] = 3 /\ StartRequest[3].kind \in PlainKinds
      /\ RostovvpnProto.StartRequest[StartRequest[4].name] = 4 /\ StartRequest[4].kind \in PlainKinds
      /\ RostovvpnProto.StartRequest[StartRequest[5].name] = 5 /\ StartRequest[5].kind \in PlainKinds
      /\ RostovvpnProto.StartRequest[StartRequest[6].name] = 6 /\ StartRequest[6].kind \in PlainKinds
  BY DEF StartRequest, RostovvpnProto, PlainKinds, Bool, Str, F
<1> QED
  BY <1>1, <1>2, <1>3, Table6

LEMMA TableSetupRequest == Tabled(Classes.SetupRequest, Proto.SetupRequest, PlainKinds)
<1>1. Classes.SetupRequest = SetupRequest /\ Proto.SetupRequest = RostovvpnProto.SetupRequest
  BY DEF Classes, Proto, Merge, BaseProto, ExtensionProto, RostovvpnProto
<1>2. Len(SetupRequest) = 3 /\ DOMAIN SetupRequest = 1 .. 3
  BY DEF SetupRequest
<1>3. /\ RostovvpnProto.SetupRequest[SetupRequest[1].name] = 1 /\ SetupRequest[1].kind \in PlainKinds
      /\ RostovvpnProto.SetupRequest[SetupRequest[2].name] = 2 /\ SetupRequest[2].kind \in PlainKinds
      /\ RostovvpnProto.SetupRequest[SetupRequest[3].name] = 3 /\ SetupRequest[3].kind \in PlainKinds
  BY DEF SetupRequest, RostovvpnProto, PlainKinds, Str, F
<1> QED
  BY <1>1, <1>2, <1>3, Table3

LEMMA TableResponse == Tabled(Classes.Response, Proto.Response, PlainKinds)
<1>1. Classes.Response = Response /\ Proto.Response = RostovvpnProto.Response
  BY DEF Classes, Proto, Merge, BaseProto, ExtensionProto, RostovvpnProto
<1>2. Len(Response) = 2 /\ DOMAIN Response = 1 .. 2
  BY DEF Response
<1>3. /\ RostovvpnProto.Response[Response[1].name] = 1 /\ Response[1].kind \in PlainKinds
      /\ RostovvpnProto.Response[Response[2].name] = 2 /\ Response[2].kind \in PlainKinds
  BY DEF Response, RostovvpnProto, PlainKinds, Enum, Str, F
<1> QED
  BY <1>1, <1>2, <1>3, Table2

LEMMA TableSystemInfo == Tabled(Classes.SystemInfo, Proto.SystemInfo, PlainKinds)
<1>1. Classes.SystemInfo = SystemInfo /\ Proto.SystemInfo = RostovvpnProto.SystemInfo
  BY DEF Classes, Proto, Merge, BaseProto, ExtensionProto, RostovvpnProto
<1>2. Len(SystemInfo) = 9 /\ DOMAIN SystemInfo = 1 .. 9
  BY DEF SystemInfo
<1>3. /\ RostovvpnProto.SystemInfo[SystemInfo[1].name] = 1 /\ SystemInfo[1].kind \in PlainKinds
      /\ RostovvpnProto.SystemInfo[SystemInfo[2].name] = 2 /\ SystemInfo[2].kind \in PlainKinds
      /\ RostovvpnProto.SystemInfo[SystemInfo[3].name] = 3 /\ SystemInfo[3].kind \in PlainKinds
      /\ RostovvpnProto.SystemInfo[SystemInfo[4].name] = 4 /\ SystemInfo[4].kind \in PlainKinds
      /\ RostovvpnProto.SystemInfo[SystemInfo[5].name] = 5 /\ SystemInfo[5].kind \in PlainKinds
      /\ RostovvpnProto.SystemInfo[SystemInfo[6].name] = 6 /\ SystemInfo[6].kind \in PlainKinds
      /\ RostovvpnProto.SystemInfo[SystemInfo[7].name] = 7 /\ SystemInfo[7].kind \in PlainKinds
      /\ RostovvpnProto.SystemInfo[SystemInfo[8].name] = 8 /\ SystemInfo[8].kind \in PlainKinds
      /\ RostovvpnProto.SystemInfo[SystemInfo[9].name] = 9 /\ SystemInfo[9].kind \in PlainKinds
  BY DEF SystemInfo, RostovvpnProto, PlainKinds, Bool, Num, F
<1> QED
  BY <1>1, <1>2, <1>3, Table9

LEMMA TableOutboundGroupItem == Tabled(Classes.OutboundGroupItem, Proto.OutboundGroupItem, PlainKinds)
<1>1. Classes.OutboundGroupItem = OutboundGroupItem /\ Proto.OutboundGroupItem = RostovvpnProto.OutboundGroupItem
  BY DEF Classes, Proto, Merge, BaseProto, ExtensionProto, RostovvpnProto
<1>2. Len(OutboundGroupItem) = 4 /\ DOMAIN OutboundGroupItem = 1 .. 4
  BY DEF OutboundGroupItem
<1>3. /\ RostovvpnProto.OutboundGroupItem[OutboundGroupItem[1].name] = 1 /\ OutboundGroupItem[1].kind \in PlainKinds
      /\ RostovvpnProto.OutboundGroupItem[OutboundGroupItem[2].name] = 2 /\ OutboundGroupItem[2].kind \in PlainKinds
      /\ RostovvpnProto.OutboundGroupItem[OutboundGroupItem[3].name] = 3 /\ OutboundGroupItem[3].kind \in PlainKinds
      /\ RostovvpnProto.OutboundGroupItem[OutboundGroupItem[4].name] = 4 /\ OutboundGroupItem[4].kind \in PlainKinds
  BY DEF OutboundGroupItem, RostovvpnProto, PlainKinds, Num, Str, F
<1> QED
  BY <1>1, <1>2, <1>3, Table4

LEMMA TableOutboundGroup == Tabled(Classes.OutboundGroup, Proto.OutboundGroup, Kinds)
<1>1. Classes.OutboundGroup = OutboundGroup /\ Proto.OutboundGroup = RostovvpnProto.OutboundGroup
  BY DEF Classes, Proto, Merge, BaseProto, ExtensionProto, RostovvpnProto
<1>2. Len(OutboundGroup) = 4 /\ DOMAIN OutboundGroup = 1 .. 4
  BY DEF OutboundGroup
<1>3. /\ RostovvpnProto.OutboundGroup[OutboundGroup[1].name] = 1 /\ OutboundGroup[1].kind \in Kinds
      /\ RostovvpnProto.OutboundGroup[OutboundGroup[2].name] = 2 /\ OutboundGroup[2].kind \in Kinds
      /\ RostovvpnProto.OutboundGroup[OutboundGroup[3].name] = 3 /\ OutboundGroup[3].kind \in Kinds
      /\ RostovvpnProto.OutboundGroup[OutboundGroup[4].name] = 4 /\ OutboundGroup[4].kind \in Kinds
  BY DEF OutboundGroup, RostovvpnProto, PlainKinds, Kinds, Rep, Str, F
<1> QED
  BY <1>1, <1>2, <1>3, Table4

LEMMA TableOutboundGroupList == Tabled(Classes.OutboundGroupList, Proto.OutboundGroupList, Kinds)
<1>1. Classes.OutboundGroupList = OutboundGroupList /\ Proto.OutboundGroupList = RostovvpnProto.OutboundGroupList
  BY DEF Classes, Proto, Merge, BaseProto, ExtensionProto, RostovvpnProto
<1>2. Len(OutboundGroupList) = 1 /\ DOMAIN OutboundGroupList = 1 .. 1
  BY DEF OutboundGroupList
<1>3. /\ RostovvpnProto.OutboundGroupList[OutboundGroupList[1].name] = 1 /\ OutboundGroupList[1].kind \in Kinds
  BY DEF OutboundGroupList, RostovvpnProto, PlainKinds, Kinds, Rep, F
<1> QED
  BY <1>1, <1>2, <1>3, Table1

LEMMA TableWarpAccount == Tabled(Classes.WarpAccount, Proto.WarpAccount, PlainKinds)
<1>1. Classes.WarpAccount = WarpAccount /\ Proto.WarpAccount = RostovvpnProto.WarpAccount
  BY DEF Classes, Proto, Merge, BaseProto, ExtensionProto, RostovvpnProto
<1>2. Len(WarpAccount) = 2 /\ DOMAIN WarpAccount = 1 .. 2
  BY DEF WarpAccount
<1>3. /\ RostovvpnProto.WarpAccount[WarpAccount[1].name] = 1 /\ WarpAccount[1].kind \in PlainKinds
      /\ RostovvpnProto.WarpAccount[WarpAccount[2].name] = 2 /\ WarpAccount[2].kind \in PlainKinds
  BY DEF WarpAccount, RostovvpnProto, PlainKinds, Str, F
<1> QED
  BY <1>1, <1>2, <1>3, Table2

LEMMA TableWarpWireguardConfig == Tabled(Classes.WarpWireguardConfig, Proto.WarpWireguardConfig, PlainKinds)
<1>1. Classes.WarpWireguardConfig = WarpWireguardConfig /\ Proto.WarpWireguardConfig = RostovvpnProto.WarpWireguardConfig
  BY DEF Classes, Proto, Merge, BaseProto, ExtensionProto, RostovvpnProto
<1>2. Len(WarpWireguardConfig) = 5 /\ DOMAIN WarpWireguardConfig = 1 .. 5
  BY DEF WarpWireguardConfig
<1>3. /\ RostovvpnProto.WarpWireguardConfig[WarpWireguardConfig[1].name] = 1 /\ WarpWireguardConfig[1].kind \in PlainKinds
      /\ RostovvpnProto.WarpWireguardConfig[WarpWireguardConfig[2].name] = 2 /\ WarpWireguardConfig[2].kind \in PlainKinds
      /\ RostovvpnProto.WarpWireguardConfig[WarpWireguardConfig[3].name] = 3 /\ WarpWireguardConfig[3].kind \in PlainKinds
      /\ RostovvpnProto.WarpWireguardConfig[WarpWireguardConfig[4].name] = 4 /\ WarpWireguardConfig[4].kind \in PlainKinds
      /\ RostovvpnProto.WarpWireguardConfig[WarpWireguardConfig[5].name] = 5 /\ WarpWireguardConfig[5].kind \in PlainKinds
  BY DEF WarpWireguardConfig, RostovvpnProto, PlainKinds, Str, F
<1> QED
  BY <1>1, <1>2, <1>3, Table5

LEMMA TableWarpGenerationResponse == Tabled(Classes.WarpGenerationResponse, Proto.WarpGenerationResponse, Kinds)
<1>1. Classes.WarpGenerationResponse = WarpGenerationResponse /\ Proto.WarpGenerationResponse = RostovvpnProto.WarpGenerationResponse
  BY DEF Classes, Proto, Merge, BaseProto, ExtensionProto, RostovvpnProto
<1>2. Len(WarpGenerationResponse) = 3 /\ DOMAIN WarpGenerationResponse = 1 .. 3
  BY DEF WarpGenerationResponse
<1>3. /\ RostovvpnProto.WarpGenerationResponse[WarpGenerationResponse[1].name] = 1 /\ WarpGenerationResponse[1].kind \in Kinds
      /\ RostovvpnProto.WarpGenerationResponse[WarpGenerationResponse[2].name] = 2 /\ WarpGenerationResponse[2].kind \in Kinds
      /\ RostovvpnProto.WarpGenerationResponse[WarpGenerationResponse[3].name] = 3 /\ WarpGenerationResponse[3].kind \in Kinds
  BY DEF WarpGenerationResponse, RostovvpnProto, PlainKinds, Kinds, Msg, Str, F
<1> QED
  BY <1>1, <1>2, <1>3, Table3

LEMMA TableSystemProxyStatus == Tabled(Classes.SystemProxyStatus, Proto.SystemProxyStatus, PlainKinds)
<1>1. Classes.SystemProxyStatus = SystemProxyStatus /\ Proto.SystemProxyStatus = RostovvpnProto.SystemProxyStatus
  BY DEF Classes, Proto, Merge, BaseProto, ExtensionProto, RostovvpnProto
<1>2. Len(SystemProxyStatus) = 2 /\ DOMAIN SystemProxyStatus = 1 .. 2
  BY DEF SystemProxyStatus
<1>3. /\ RostovvpnProto.SystemProxyStatus[SystemProxyStatus[1].name] = 1 /\ SystemProxyStatus[1].kind \in PlainKinds
      /\ RostovvpnProto.SystemProxyStatus[SystemProxyStatus[2].name] = 2 /\ SystemProxyStatus[2].kind \in PlainKinds
  BY DEF SystemProxyStatus, RostovvpnProto, PlainKinds, Bool, F
<1> QED
  BY <1>1, <1>2, <1>3, Table2

LEMMA TableParseRequest == Tabled(Classes.ParseRequest, Proto.ParseRequest, PlainKinds)
<1>1. Classes.ParseRequest = ParseRequest /\ Proto.ParseRequest = RostovvpnProto.ParseRequest
  BY DEF Classes, Proto, Merge, BaseProto, ExtensionProto, RostovvpnProto
<1>2. Len(ParseRequest) = 4 /\ DOMAIN ParseRequest = 1 .. 4
  BY DEF ParseRequest
<1>3. /\ RostovvpnProto.ParseRequest[ParseRequest[1].name] = 1 /\ ParseRequest[1].kind \in PlainKinds
      /\ RostovvpnProto.ParseRequest[ParseRequest[2].name] = 2 /\ ParseRequest[2].kind \in PlainKinds
      /\ RostovvpnProto.ParseRequest[ParseRequest[3].name] = 3 /\ ParseRequest[3].kind \in PlainKinds
      /\ RostovvpnProto.ParseRequest[ParseRequest[4].name] = 4 /\ ParseRequest[4].kind \in PlainKinds
  BY DEF ParseRequest, RostovvpnProto, PlainKinds, Bool, Str, F
<1> QED
  BY <1>1, <1>2, <1>3, Table4

LEMMA TableParseResponse == Tabled(Classes.ParseResponse, Proto.ParseResponse, PlainKinds)
<1>1. Classes.ParseResponse = ParseResponse /\ Proto.ParseResponse = RostovvpnProto.ParseResponse
  BY DEF Classes, Proto, Merge, BaseProto, ExtensionProto, RostovvpnProto
<1>2. Len(ParseResponse) = 3 /\ DOMAIN ParseResponse = 1 .. 3
  BY DEF ParseResponse
<1>3. /\ RostovvpnProto.ParseResponse[ParseResponse[1].name] = 1 /\ ParseResponse[1].kind \in PlainKinds
      /\ RostovvpnProto.ParseResponse[ParseResponse[2].name] = 2 /\ ParseResponse[2].kind \in PlainKinds
      /\ RostovvpnProto.ParseResponse[ParseResponse[3].name] = 3 /\ ParseResponse[3].kind \in PlainKinds
  BY DEF ParseResponse, RostovvpnProto, PlainKinds, Enum, Str, F
<1> QED
  BY <1>1, <1>2, <1>3, Table3

LEMMA TableChangeRostovVPNSettingsRequest == Tabled(Classes.ChangeRostovVPNSettingsRequest, Proto.ChangeRostovVPNSettingsRequest, PlainKinds)
<1>1. Classes.ChangeRostovVPNSettingsRequest = ChangeRostovVPNSettingsRequest /\ Proto.ChangeRostovVPNSettingsRequest = RostovvpnProto.ChangeRostovVPNSettingsRequest
  BY DEF Classes, Proto, Merge, BaseProto, ExtensionProto, RostovvpnProto
<1>2. Len(ChangeRostovVPNSettingsRequest) = 1 /\ DOMAIN ChangeRostovVPNSettingsRequest = 1 .. 1
  BY DEF ChangeRostovVPNSettingsRequest
<1>3. /\ RostovvpnProto.ChangeRostovVPNSettingsRequest[ChangeRostovVPNSettingsRequest[1].name] = 1 /\ ChangeRostovVPNSettingsRequest[1].kind \in PlainKinds
  BY DEF ChangeRostovVPNSettingsRequest, RostovvpnProto, PlainKinds, Str, F
<1> QED
  BY <1>1, <1>2, <1>3, Table1

LEMMA TableGenerateConfigRequest == Tabled(Classes.GenerateConfigRequest, Proto.GenerateConfigRequest, PlainKinds)
<1>1. Classes.GenerateConfigRequest = GenerateConfigRequest /\ Proto.GenerateConfigRequest = RostovvpnProto.GenerateConfigRequest
  BY DEF Classes, Proto, Merge, BaseProto, ExtensionProto, RostovvpnProto
<1>2. Len(GenerateConfigRequest) = 3 /\ DOMAIN GenerateConfigRequest = 1 .. 3
  BY DEF GenerateConfigRequest
<1>3. /\ RostovvpnProto.GenerateConfigRequest[GenerateConfigRequest[1].name] = 1 /\ GenerateConfigRequest[1].kind \in PlainKinds
      /\ RostovvpnProto.GenerateConfigRequest[GenerateConfigRequest[2].name] = 2 /\ GenerateConfigRequest[2].kind \in PlainKinds
      /\ RostovvpnProto.GenerateConfigRequest[GenerateConfigRequest[3].name] = 3 /\ GenerateConfigRequest[3].kind \in PlainKinds
  BY DEF GenerateConfigRequest, RostovvpnProto, PlainKinds, Bool, Str, F
<1> QED
  BY <1>1, <1>2, <1>3, Table3

LEMMA TableGenerateConfigResponse == Tabled(Classes.GenerateConfigResponse, Proto.GenerateConfigResponse, PlainKinds)
<1>1. Classes.GenerateConfigResponse = GenerateConfigResponse /\ Proto.GenerateConfigResponse = RostovvpnProto.GenerateConfigResponse
  BY DEF Classes, Proto, Merge, BaseProto, ExtensionProto, RostovvpnProto
<1>2. Len(GenerateConfigResponse) = 1 /\ DOMAIN GenerateConfigResponse = 1 .. 1
  BY DEF GenerateConfigResponse
<1>3. /\ RostovvpnProto.GenerateConfigResponse[GenerateConfigResponse[1].name] = 1 /\ GenerateConfigResponse[1].kind \in PlainKinds
  BY DEF GenerateConfigResponse, RostovvpnProto, PlainKinds, Str, F
<1> QED
  BY <1>1, <1>2, <1>3, Table1

LEMMA TableSelectOutboundRequest == Tabled(Classes.SelectOutboundRequest, Proto.SelectOutboundRequest, PlainKinds)
<1>1. Classes.SelectOutboundRequest = SelectOutboundRequest /\ Proto.SelectOutboundRequest = RostovvpnProto.SelectOutboundRequest
  BY DEF Classes, Proto, Merge, BaseProto, ExtensionProto, RostovvpnProto
<1>2. Len(SelectOutboundRequest) = 2 /\ DOMAIN SelectOutboundRequest = 1 .. 2
  BY DEF SelectOutboundRequest
<1>3. /\ RostovvpnProto.SelectOutboundRequest[SelectOutboundRequest[1].name] = 1 /\ SelectOutboundRequest[1].kind \in PlainKinds
      /\ RostovvpnProto.SelectOutboundRequest[SelectOutboundRequest[2].name] = 2 /\ SelectOutboundRequest[2].kind \in PlainKinds
  BY DEF SelectOutboundRequest, RostovvpnProto, PlainKinds, Str, F
<1> QED
  BY <1>1, <1>2, <1>3, Table2

LEMMA TableUrlTestRequest == Tabled(Classes.UrlTestRequest, Proto.UrlTestRequest, PlainKinds)
<1>1. Classes.UrlTestRequest = UrlTestRequest /\ Proto.UrlTestRequest = RostovvpnProto.UrlTestRequest
  BY DEF Classes, Proto, Merge, BaseProto, ExtensionProto, RostovvpnProto
<1>2. Len(UrlTestRequest) = 1 /\ DOMAIN UrlTestRequest = 1 .. 1
  BY DEF UrlTestRequest
<1>3. /\ RostovvpnProto.UrlTestRequest[UrlTestRequest[1].name] = 1 /\ UrlTestRequest[1].kind \in PlainKinds
  BY DEF UrlTestRequest, RostovvpnProto, PlainKinds, Str, F
<1> QED
  BY <1>1, <1>2, <1>3, Table1

LEMMA TableGenerateWarpConfigRequest == Tabled(Classes.GenerateWarpConfigRequest, Proto.GenerateWarpConfigRequest, PlainKinds)
<1>1. Classes.GenerateWarpConfigRequest = GenerateWarpConfigRequest /\ Proto.GenerateWarpConfigRequest = RostovvpnProto.GenerateWarpConfigRequest
  BY DEF Classes, Proto, Merge, BaseProto, ExtensionProto, RostovvpnProto
<1>2. Len(GenerateWarpConfigRequest) = 3 /\ DOMAIN GenerateWarpConfigRequest = 1 .. 3
  BY DEF GenerateWarpConfigRequest
<1>3. /\ RostovvpnProto.GenerateWarpConfigRequest[GenerateWarpConfigRequest[1].name] = 1 /\ GenerateWarpConfigRequest[1].kind \in PlainKinds
      /\ RostovvpnProto.GenerateWarpConfigRequest[GenerateWarpConfigRequest[2].name] = 2 /\ GenerateWarpConfigRequest[2].kind \in PlainKinds
      /\ RostovvpnProto.GenerateWarpConfigRequest[GenerateWarpConfigRequest[3].name] = 3 /\ GenerateWarpConfigRequest[3].kind \in PlainKinds
  BY DEF GenerateWarpConfigRequest, RostovvpnProto, PlainKinds, Str, F
<1> QED
  BY <1>1, <1>2, <1>3, Table3

LEMMA TableSetSystemProxyEnabledRequest == Tabled(Classes.SetSystemProxyEnabledRequest, Proto.SetSystemProxyEnabledRequest, PlainKinds)
<1>1. Classes.SetSystemProxyEnabledRequest = SetSystemProxyEnabledRequest /\ Proto.SetSystemProxyEnabledRequest = RostovvpnProto.SetSystemProxyEnabledRequest
  BY DEF Classes, Proto, Merge, BaseProto, ExtensionProto, RostovvpnProto
<1>2. Len(SetSystemProxyEnabledRequest) = 1 /\ DOMAIN SetSystemProxyEnabledRequest = 1 .. 1
  BY DEF SetSystemProxyEnabledRequest
<1>3. /\ RostovvpnProto.SetSystemProxyEnabledRequest[SetSystemProxyEnabledRequest[1].name] = 1 /\ SetSystemProxyEnabledRequest[1].kind \in PlainKinds
  BY DEF SetSystemProxyEnabledRequest, RostovvpnProto, PlainKinds, Bool, F
<1> QED
  BY <1>1, <1>2, <1>3, Table1

LEMMA TableLogMessage == Tabled(Classes.LogMessage, Proto.LogMessage, PlainKinds)
<1>1. Classes.LogMessage = LogMessage /\ Proto.LogMessage = RostovvpnProto.LogMessage
  BY DEF Classes, Proto, Merge, BaseProto, ExtensionProto, RostovvpnProto
<1>2. Len(LogMessage) = 3 /\ DOMAIN LogMessage = 1 .. 3
  BY DEF LogMessage
<1>3. /\ RostovvpnProto.LogMessage[LogMessage[1].name] = 1 /\ LogMessage[1].kind \in PlainKinds
      /\ RostovvpnProto.LogMessage[LogMessage[2].name] = 2 /\ LogMessage[2].kind \in PlainKinds
      /\ RostovvpnProto.LogMessage[LogMessage[3].name] = 3 /\ LogMessage[3].kind \in PlainKinds
  BY DEF LogMessage, RostovvpnProto, PlainKinds, Enum, Str, F
<1> QED
  BY <1>1, <1>2, <1>3, Table3

LEMMA TableStopRequest == Tabled(Classes.StopRequest, Proto.StopRequest, PlainKinds)
<1>1. Classes.StopRequest = StopRequest /\ Proto.StopRequest = RostovvpnProto.StopRequest
  BY DEF Classes, Proto, Merge, BaseProto, ExtensionProto, RostovvpnProto
<1> QED
  BY <1>1 DEF StopRequest, RostovvpnProto, Tabled

LEMMA TableTunnelStartRequest == Tabled(Classes.TunnelStartRequest, Proto.TunnelStartRequest, PlainKinds)
<1>1. Classes.TunnelStartRequest = TunnelStartRequest /\ Proto.TunnelStartRequest = RostovvpnProto.TunnelStartRequest
  BY DEF Classes, Proto, Merge, BaseProto, ExtensionProto, RostovvpnProto
<1>2. Len(TunnelStartRequest) = 5 /\ DOMAIN TunnelStartRequest = 1 .. 5
  BY DEF TunnelStartRequest
<1>3. /\ RostovvpnProto.TunnelStartRequest[TunnelStartRequest[1].name] = 1 /\ TunnelStartRequest[1].kind \in PlainKinds
      /\ RostovvpnProto.TunnelStartRequest[TunnelStartRequest[2].name] = 2 /\ TunnelStartRequest[2].kind \in PlainKinds
      /\ RostovvpnProto.TunnelStartRequest[TunnelStartRequest[3].name] = 3 /\ TunnelStartRequest[3].kind \in PlainKinds
      /\ RostovvpnProto.TunnelStartRequest[TunnelStartRequest[4].name] = 4 /\ TunnelStartRequest[4].kind \in PlainKinds
      /\ RostovvpnProto.TunnelStartRequest[TunnelStartRequest[5].name] = 5 /\ TunnelStartRequest[5].kind \in PlainKinds
  BY DEF TunnelStartRequest, RostovvpnProto, PlainKinds, Bool, Num, Str, F
<1> QED
  BY <1>1, <1>2, <1>3, Table5

LEMMA TableTunnelResponse == Tabled(Classes.TunnelResponse, Proto.TunnelResponse, PlainKinds)
<1>1. Classes.TunnelResponse = TunnelResponse /\ Proto.TunnelResponse = RostovvpnProto.TunnelResponse
  BY DEF Classes, Proto, Merge, BaseProto, ExtensionProto, RostovvpnProto
<1>2. Len(TunnelResponse) = 1 /\ DOMAIN TunnelResponse = 1 .. 1
  BY DEF TunnelResponse
<1>3. /\ RostovvpnProto.TunnelResponse[TunnelResponse[1].name] = 1 /\ TunnelResponse[1].kind \in PlainKinds
  BY DEF TunnelResponse, RostovvpnProto, PlainKinds, Str, F
<1> QED
  BY <1>1, <1>2, <1>3, Table1

\* The classes with messages inside.
Nesting == {"ExtensionList", "OutboundGroup", "OutboundGroupList", "WarpGenerationResponse"}

\* The numbers of the page and those of the server agree in every class.
LEMMA TabledAll ==
  ASSUME NEW T \in DOMAIN Classes
  PROVE  Tabled(Classes[T], Proto[T], Kinds) /\ (T \notin Nesting => Tabled(Classes[T], Proto[T], PlainKinds))
<1>1. \/ T = "HelloRequest" \/ T = "HelloResponse"
      \/ T = "Empty" \/ T = "ExtensionActionResult"
      \/ T = "ExtensionList" \/ T = "EditExtensionRequest"
      \/ T = "Extension" \/ T = "ExtensionRequest"
      \/ T = "SendExtensionDataRequest" \/ T = "ExtensionResponse"
      \/ T = "CoreInfoResponse" \/ T = "StartRequest"
      \/ T = "SetupRequest" \/ T = "Response"
      \/ T = "SystemInfo" \/ T = "OutboundGroupItem"
      \/ T = "OutboundGroup" \/ T = "OutboundGroupList"
      \/ T = "WarpAccount" \/ T = "WarpWireguardConfig"
      \/ T = "WarpGenerationResponse" \/ T = "SystemProxyStatus"
      \/ T = "ParseRequest" \/ T = "ParseResponse"
      \/ T = "ChangeRostovVPNSettingsRequest" \/ T = "GenerateConfigRequest"
      \/ T = "GenerateConfigResponse" \/ T = "SelectOutboundRequest"
      \/ T = "UrlTestRequest" \/ T = "GenerateWarpConfigRequest"
      \/ T = "SetSystemProxyEnabledRequest" \/ T = "LogMessage"
      \/ T = "StopRequest" \/ T = "TunnelStartRequest"
      \/ T = "TunnelResponse"
  BY DEF Classes
<1>2. \A C, P : Tabled(C, P, PlainKinds) => Tabled(C, P, Kinds)
  BY DEF Tabled, Kinds
<1> QED
  BY <1>1, <1>2,
     TableHelloRequest, TableHelloResponse, TableEmpty,
     TableExtensionActionResult, TableExtensionList,
     TableEditExtensionRequest, TableExtension, TableExtensionRequest,
     TableSendExtensionDataRequest, TableExtensionResponse,
     TableCoreInfoResponse, TableStartRequest, TableSetupRequest,
     TableResponse, TableSystemInfo, TableOutboundGroupItem,
     TableOutboundGroup, TableOutboundGroupList, TableWarpAccount,
     TableWarpWireguardConfig, TableWarpGenerationResponse,
     TableSystemProxyStatus, TableParseRequest, TableParseResponse,
     TableChangeRostovVPNSettingsRequest, TableGenerateConfigRequest,
     TableGenerateConfigResponse, TableSelectOutboundRequest,
     TableUrlTestRequest, TableGenerateWarpConfigRequest,
     TableSetSystemProxyEnabledRequest, TableLogMessage, TableStopRequest,
     TableTunnelStartRequest, TableTunnelResponse
     DEF Nesting

-----------------------------------------------------------------------------
(* Reading and joining sequences, by induction over their length.          *)

\* Induction over the natural numbers, as a fact about sets.
LEMMA Induction ==
  ASSUME NEW S \in SUBSET Nat, 0 \in S, \A n \in S : n + 1 \in S
  PROVE  S = Nat
<1> DEFINE T == Nat \ S
           R == {p \in Nat \X Nat : p[1] < p[2]}
<1>1. SUFFICES ASSUME T # {} PROVE FALSE
  OBVIOUS
<1>2. IsWellFoundedOn(R, Nat)
  BY NatLessThanWellFounded, Zenon DEF OpToRel
<1>3. PICK x \in T : \A y \in T : <<y, x>> \notin R
  <2> T \subseteq Nat
    OBVIOUS
  <2> HIDE DEF T, R
  <2> QED
    BY <1>1, <1>2, WFMin
<1>4. x - 1 \in T /\ <<x - 1, x>> \in R
  OBVIOUS
<1> QED
  BY <1>3, <1>4

\* A set with 0 that is closed under counting up to n has every number to n.
LEMMA Counting ==
  ASSUME NEW n \in Nat, NEW S, 0 \in S, \A k \in 0 .. n - 1 : k \in S => k + 1 \in S
  PROVE  \A k \in 0 .. n : k \in S
<1> DEFINE A == {k \in Nat : k <= n => k \in S}
<1>1. A = Nat
  <2>1. 0 \in A /\ A \in SUBSET Nat /\ \A k \in A : k + 1 \in A
    OBVIOUS
  <2> HIDE DEF A
  <2> QED
    BY <2>1, Induction
<1> QED
  BY <1>1

\* r[k] is what k entries of w make of the object o.
Reads(side, T, o, w, r) ==
  r[0] = o /\ \A k \in 1 .. Len(w) : r[k] = ReadEntry(side, T, r[k - 1], w[k])

\* ReadEntries is what the entries make of the object one after the other.
LEMMA ReadingIs ==
  ASSUME NEW side, NEW T, NEW o, NEW w, Len(w) \in Nat, NEW r, Reads(side, T, o, w, r)
  PROVE  ReadEntries(side, T, o, w) = r[Len(w)]
<1> DEFINE n == Len(w)
           Eq(f) == f = [k \in 0 .. n |-> IF k = 0 THEN o
                                          ELSE ReadEntry(side, T, f[k - 1], w[k])]
           read == CHOOSE f : Eq(f)
<1>1. Eq([k \in 0 .. n |-> r[k]])
  BY DEF Reads
<1>2. Eq(read)
  <2> HIDE DEF Eq
  <2> QED BY <1>1
<1>3. ReadEntries(side, T, o, w) = read[n]
  BY DEF ReadEntries
<1> HIDE DEF read
<1> DEFINE S == {k \in 0 .. n : read[k] = r[k]}
<1>4. 0 \in S /\ \A k \in 0 .. n - 1 : k \in S => k + 1 \in S
  BY <1>2 DEF Reads
<1>5. \A k \in 0 .. n : k \in S
  <2> HIDE DEF S
  <2> QED BY <1>4, Counting
<1> QED
  BY <1>3, <1>5

\* The entries can be read one after the other, however many they are.
LEMMA Reading ==
  ASSUME NEW side, NEW T, NEW o, NEW w, Len(w) \in Nat
  PROVE  \E r : Reads(side, T, o, w, r)
<1> DEFINE n == Len(w)
           Upto(r, m) == r[0] = o /\ \A k \in 1 .. m : r[k] = ReadEntry(side, T, r[k - 1], w[k])
           S == {m \in 0 .. n : \E r : Upto(r, m)}
<1>1. 0 \in S
  <2>1. Upto([k \in {0} |-> o], 0)
    OBVIOUS
  <2> HIDE DEF Upto
  <2> QED BY <2>1
<1>2. ASSUME NEW m \in 0 .. n - 1, m \in S PROVE m + 1 \in S
  <2>1. PICK r : Upto(r, m)
    BY <1>2
  <2> DEFINE q == [k \in 0 .. m + 1 |-> IF k <= m THEN r[k] ELSE ReadEntry(side, T, r[m], w[m + 1])]
  <2>2. Upto(q, m + 1)
    BY <2>1
  <2> HIDE DEF Upto, q
  <2> QED BY <2>2
<1>3. \A m \in 0 .. n : m \in S
  <2> HIDE DEF S
  <2> QED BY <1>1, <1>2, Counting
<1>4. n \in S
  <2> HIDE DEF S
  <2> QED BY <1>3
<1> QED
  BY <1>4 DEF Reads

\* To read v and then w is to read them joined.
LEMMA ReadConcat ==
  ASSUME NEW side, NEW T, NEW o, NEW S, NEW v \in Seq(S), NEW w \in Seq(S)
  PROVE  ReadEntries(side, T, o, v \o w)
           = ReadEntries(side, T, ReadEntries(side, T, o, v), w)
<1> DEFINE c == v \o w
           m == Len(v)
<1>1. m \in Nat /\ Len(w) \in Nat /\ Len(c) = m + Len(w) /\ Len(c) \in Nat
  OBVIOUS
<1>2. /\ \A k \in 1 .. m : c[k] = v[k]
      /\ \A k \in m + 1 .. m + Len(w) : c[k] = w[k - m]
  OBVIOUS
<1> HIDE DEF c, m
<1>3. PICK a : Reads(side, T, o, v, a)
  BY <1>1, Reading DEF m
<1>4. ReadEntries(side, T, o, v) = a[m]
  BY <1>1, <1>3, ReadingIs DEF m
<1>5. PICK b : Reads(side, T, a[m], w, b)
  BY <1>1, Reading
<1>6. ReadEntries(side, T, a[m], w) = b[Len(w)]
  BY <1>1, <1>5, ReadingIs
<1> DEFINE r == [k \in 0 .. m + Len(w) |-> IF k <= m THEN a[k] ELSE b[k - m]]
<1>7. b[0] = a[m] /\ a[0] = o
  BY <1>3, <1>5 DEF Reads
<1>8. /\ \A k \in 1 .. m : a[k] = ReadEntry(side, T, a[k - 1], v[k])
      /\ \A k \in 1 .. Len(w) : b[k] = ReadEntry(side, T, b[k - 1], w[k])
  BY <1>3, <1>5 DEF Reads, m
<1>9. /\ \A k \in 0 .. m : r[k] = a[k]
      /\ \A k \in m .. m + Len(w) : r[k] = b[k - m]
  BY <1>1, <1>7
<1> HIDE DEF r
<1>10. ASSUME NEW k \in 1 .. m + Len(w)
       PROVE  r[k] = ReadEntry(side, T, r[k - 1], c[k])
  <2>1. CASE k <= m
    <3>1. k \in 1 .. m /\ k \in 0 .. m /\ k - 1 \in 0 .. m
      BY <1>1, <2>1
    <3> QED BY <1>2, <1>8, <1>9, <3>1
  <2>2. CASE k > m
    <3>1. /\ k - m \in 1 .. Len(w) /\ k \in m + 1 .. m + Len(w) /\ k \in m .. m + Len(w)
          /\ k - 1 \in m .. m + Len(w) /\ (k - 1) - m = (k - m) - 1
      BY <1>1, <2>2
    <3> QED BY <1>2, <1>8, <1>9, <3>1
  <2> QED BY <2>1, <2>2, <1>1
<1>11. Reads(side, T, o, c, r)
  BY <1>1, <1>7, <1>9, <1>10 DEF Reads
<1>12. ReadEntries(side, T, o, c) = r[m + Len(w)]
  BY <1>1, <1>11, ReadingIs
<1> QED
  BY <1>1, <1>4, <1>6, <1>9, <1>12 DEF c

\* No entry, no change.
LEMMA ReadNothing ==
  ASSUME NEW side, NEW T, NEW o
  PROVE  ReadEntries(side, T, o, <<>>) = o
<1> DEFINE r == [k \in {0} |-> o]
<1>1. Reads(side, T, o, <<>>, r) /\ Len(<<>>) \in Nat /\ r[Len(<<>>)] = o
  BY DEF Reads
<1> HIDE DEF r
<1> QED
  BY <1>1, ReadingIs

\* f[m] is what the first m sequences of cs make one after the other.
Joins(cs, f) == f[0] = <<>> /\ \A m \in 1 .. Len(cs) : f[m] = f[m - 1] \o cs[m]

\* FlattenSeq joins its sequences one after the other.
LEMMA JoiningIs ==
  ASSUME NEW S, NEW cs \in Seq(Seq(S)), NEW f, Joins(cs, f)
  PROVE  FlattenSeq(cs) = f[Len(cs)] /\ \A m \in 0 .. Len(cs) : f[m] \in Seq(S)
<1> DEFINE n == Len(cs)
           Eq(g) == g = [i \in 1 .. n |-> IF i = 1 THEN cs[i] ELSE g[i - 1] \o cs[i]]
           flat == CHOOSE g : Eq(g)
           A == {m \in 0 .. n : f[m] \in Seq(S)}
           B == {m \in 0 .. n : m > 0 => flat[m] = f[m]}
<1>1. n \in Nat /\ \A m \in 1 .. n : cs[m] \in Seq(S)
  OBVIOUS
<1>2. f[0] = <<>> /\ \A m \in 1 .. n : f[m] = f[m - 1] \o cs[m]
  BY DEF Joins
<1>0. <<>> \in Seq(S)
  BY EmptySeq
<1>3. CASE n = 0
  <2>1. FlattenSeq(cs) = cs /\ cs = <<>>
    BY <1>3 DEF FlattenSeq
  <2> HIDE DEF n
  <2>2. f[0] \in Seq(S) /\ FlattenSeq(cs) = f[0]
    BY <1>0, <1>2, <2>1, Zenon
  <2>3. FlattenSeq(cs) = f[n] /\ \A m \in 0 .. n : f[m] \in Seq(S)
    BY <1>3, <2>2
  <2> QED BY <2>3 DEF n
<1>4. CASE n > 0
  <2>1. \A m \in 0 .. n : m \in A
    <3>1. 0 \in A /\ \A m \in 0 .. n - 1 : m \in A => m + 1 \in A
      <4> HIDE DEF n
      <4>1. 0 \in A
        <5>1. f[0] \in Seq(S)
          BY <1>0, <1>2, Zenon
        <5> QED BY <1>1, <5>1
      <4>2. ASSUME NEW m \in 0 .. n - 1, m \in A PROVE m + 1 \in A
        <5>1. m + 1 \in 1 .. n /\ (m + 1) - 1 = m /\ m + 1 \in 0 .. n
          BY <1>1
        <5>2. f[m + 1] = f[m] \o cs[m + 1] /\ cs[m + 1] \in Seq(S)
          BY <1>1, <1>2, <5>1
        <5>3. f[m] \o cs[m + 1] \in Seq(S)
          BY <4>2, <5>2
        <5> QED BY <5>1, <5>2, <5>3
      <4> QED BY <4>1, <4>2
    <3> HIDE DEF A
    <3> QED BY <1>1, <3>1, Counting
  <2>2. f[1] = cs[1]
    <3> HIDE DEF n
    <3>0. 1 \in 1 .. n /\ 1 - 1 = 0
      BY <1>1, <1>4
    <3>1. cs[1] \in Seq(S) /\ f[1] = <<>> \o cs[1]
      BY <1>1, <1>2, <3>0
    <3> QED BY <3>1, ConcatEmptySeq
  <2>3. Eq([i \in 1 .. n |-> f[i]])
    <3> HIDE DEF n
    <3> DEFINE g == [i \in 1 .. n |-> f[i]]
    <3>1. \A i \in 1 .. n : g[i] = f[i]
      OBVIOUS
    <3>2. ASSUME NEW i \in 1 .. n PROVE f[i] = IF i = 1 THEN cs[i] ELSE g[i - 1] \o cs[i]
      <4>1. CASE i = 1
        BY <4>1, <2>2
      <4>2. CASE i # 1
        <5>1. i - 1 \in 1 .. n
          BY <1>1, <4>2
        <5> HIDE DEF g
        <5> QED BY <1>2, <3>1, <4>2, <5>1
      <4> QED BY <4>1, <4>2
    <3> QED BY <3>2
  <2>4. Eq(flat)
    <3> HIDE DEF Eq
    <3> QED BY <2>3
  <2>5. \A m \in 0 .. n : m \in B
    <3>1. 0 \in B /\ \A m \in 0 .. n - 1 : m \in B => m + 1 \in B
      <4> HIDE DEF n, flat
      <4>1. \A i \in 1 .. n : flat[i] = IF i = 1 THEN cs[i] ELSE flat[i - 1] \o cs[i]
        BY <2>4
      <4>2. ASSUME NEW m \in 0 .. n - 1, m \in B PROVE m + 1 \in B
        <5>1. m + 1 \in 1 .. n /\ (m + 1) - 1 = m /\ m + 1 \in 0 .. n
          BY <1>1
        <5>2. CASE m = 0
          BY <2>2, <4>1, <5>1, <5>2
        <5>3. CASE m > 0
          <6>1. flat[m] = f[m] /\ m + 1 # 1
            BY <1>1, <4>2, <5>3
          <6>2. flat[m + 1] = flat[m] \o cs[m + 1]
            BY <4>1, <5>1, <6>1
          <6>3. f[m + 1] = f[m] \o cs[m + 1]
            BY <1>2, <5>1
          <6> QED BY <5>1, <6>1, <6>2, <6>3
        <5> QED BY <1>1, <5>2, <5>3
      <4> QED BY <1>1, <4>2
    <3> HIDE DEF B
    <3> QED BY <1>1, <3>1, Counting
  <2>6. FlattenSeq(cs) = flat[n]
    BY <1>4 DEF FlattenSeq
  <2> HIDE DEF n, flat
  <2>7. n \in 0 .. n
    BY <1>1
  <2>8. FlattenSeq(cs) = f[n] /\ \A m \in 0 .. n : f[m] \in Seq(S)
    BY <1>4, <2>1, <2>5, <2>6, <2>7
  <2> QED BY <2>8 DEF n
<1> QED
  <2> HIDE DEF n
  <2> QED BY <1>1, <1>3, <1>4 DEF n

\* They can be joined, however many they are.
LEMMA Joining ==
  ASSUME NEW cs, Len(cs) \in Nat
  PROVE  \E f : Joins(cs, f)
<1> DEFINE n == Len(cs)
           Upto(f, m) == f[0] = <<>> /\ \A k \in 1 .. m : f[k] = f[k - 1] \o cs[k]
           A == {m \in 0 .. n : \E f : Upto(f, m)}
<1>1. 0 \in A
  <2>1. Upto([k \in {0} |-> <<>>], 0)
    OBVIOUS
  <2> HIDE DEF Upto
  <2> QED BY <2>1
<1>2. ASSUME NEW m \in 0 .. n - 1, m \in A PROVE m + 1 \in A
  <2>1. PICK f : Upto(f, m)
    BY <1>2
  <2> DEFINE g == [k \in 0 .. m + 1 |-> IF k <= m THEN f[k] ELSE f[m] \o cs[m + 1]]
  <2>2. Upto(g, m + 1)
    BY <2>1
  <2> HIDE DEF Upto, g
  <2> QED BY <2>2
<1>3. \A m \in 0 .. n : m \in A
  <2> HIDE DEF A
  <2> QED BY <1>1, <1>2, Counting
<1>4. n \in A
  <2> HIDE DEF A
  <2> QED BY <1>3
<1> QED
  BY <1>4 DEF Joins

\* Sequences that are read one after the other are read the same when joined.
LEMMA ReadJoined ==
  ASSUME NEW side, NEW T, NEW S, NEW cs \in Seq(Seq(S)), NEW a,
         \A m \in 1 .. Len(cs) : a[m] = ReadEntries(side, T, a[m - 1], cs[m])
  PROVE  ReadEntries(side, T, a[0], FlattenSeq(cs)) = a[Len(cs)]
<1> DEFINE n == Len(cs)
<1>1. n \in Nat /\ \A m \in 1 .. n : cs[m] \in Seq(S)
  OBVIOUS
<1>2. PICK f : Joins(cs, f)
  BY <1>1, Joining
<1>3. FlattenSeq(cs) = f[n] /\ \A m \in 0 .. n : f[m] \in Seq(S)
  BY <1>2, JoiningIs
<1> HIDE DEF n
<1> DEFINE A == {m \in 0 .. n : ReadEntries(side, T, a[0], f[m]) = a[m]}
<1>4. 0 \in A
  BY <1>1, <1>2, ReadNothing DEF Joins
<1>5. ASSUME NEW m \in 0 .. n - 1, m \in A PROVE m + 1 \in A
  <2>1. m + 1 \in 1 .. n /\ (m + 1) - 1 = m /\ m \in 0 .. n /\ m + 1 \in 0 .. n
    BY <1>1
  <2>2. f[m + 1] = f[m] \o cs[m + 1] /\ a[m + 1] = ReadEntries(side, T, a[m], cs[m + 1])
    BY <1>2, <2>1 DEF Joins, n
  <2>3. f[m] \in Seq(S) /\ cs[m + 1] \in Seq(S)
    BY <1>1, <1>3, <2>1
  <2>4. ReadEntries(side, T, a[0], f[m] \o cs[m + 1])
          = ReadEntries(side, T, ReadEntries(side, T, a[0], f[m]), cs[m + 1])
    BY <2>3, ReadConcat
  <2> QED BY <1>5, <2>1, <2>2, <2>4
<1>6. \A m \in 0 .. n : m \in A
  <2> HIDE DEF A
  <2> QED BY <1>1, <1>4, <1>5, Counting
<1> QED
  BY <1>1, <1>3, <1>6 DEF n

\* v and w are of one length, and R relates what they hold at each place.
Alike(v, w, R) == Len(v) = Len(w) /\ \A j \in 1 .. Len(v) : <<v[j], w[j]>> \in R

\* Sequences alike entry by entry are alike when joined.
LEMMA JoinedPointwise ==
  ASSUME NEW S, NEW U, NEW cs \in Seq(Seq(S)), NEW ds \in Seq(Seq(U)), NEW R,
         Len(cs) = Len(ds), \A m \in 1 .. Len(cs) : Alike(cs[m], ds[m], R)
  PROVE  /\ FlattenSeq(cs) \in Seq(S) /\ FlattenSeq(ds) \in Seq(U)
         /\ Alike(FlattenSeq(cs), FlattenSeq(ds), R)
<1> USE DEF Alike
<1> DEFINE n == Len(cs)
           Like(v, w) == Alike(v, w, R)
<1>1. n \in Nat /\ n = Len(ds) /\ \A m \in 1 .. n : cs[m] \in Seq(S) /\ ds[m] \in Seq(U)
  OBVIOUS
<1>2. PICK f : Joins(cs, f)
  BY <1>1, Joining
<1>3. PICK g : Joins(ds, g)
  BY <1>1, Joining
<1>4. /\ FlattenSeq(cs) = f[n] /\ \A m \in 0 .. n : f[m] \in Seq(S)
      /\ FlattenSeq(ds) = g[n] /\ \A m \in 0 .. n : g[m] \in Seq(U)
  BY <1>1, <1>2, <1>3, JoiningIs
<1>5. \A m \in 1 .. n : Like(cs[m], ds[m])
  OBVIOUS
<1>6. f[0] = <<>> /\ g[0] = <<>>
      /\ \A m \in 1 .. n : f[m] = f[m - 1] \o cs[m] /\ g[m] = g[m - 1] \o ds[m]
  BY <1>1, <1>2, <1>3 DEF Joins
<1> HIDE DEF n
<1> DEFINE A == {m \in 0 .. n : Like(f[m], g[m])}
<1>7. 0 \in A
  BY <1>1, <1>6
<1>8. ASSUME NEW m \in 0 .. n - 1, m \in A PROVE m + 1 \in A
  <2>1. m + 1 \in 1 .. n /\ (m + 1) - 1 = m /\ m \in 0 .. n /\ m + 1 \in 0 .. n
    BY <1>1
  <2> DEFINE v == f[m]
             w == g[m]
             x == cs[m + 1]
             y == ds[m + 1]
  <2>2. v \in Seq(S) /\ x \in Seq(S) /\ w \in Seq(U) /\ y \in Seq(U) /\ Like(v, w) /\ Like(x, y)
    BY <1>1, <1>4, <1>5, <1>8, <2>1
  <2>3. f[m + 1] = v \o x /\ g[m + 1] = w \o y
    BY <1>6, <2>1
  <2> HIDE DEF v, w, x, y
  <2>4. Like(v \o x, w \o y)
    <3>1. /\ Len(v \o x) = Len(v) + Len(x) /\ Len(w \o y) = Len(w) + Len(y)
          /\ Len(v) \in Nat /\ Len(x) \in Nat /\ Len(v) = Len(w) /\ Len(x) = Len(y)
      <4>1. Len(v) = Len(w) /\ Len(x) = Len(y) /\ Len(v) \in Nat /\ Len(x) \in Nat
        BY <2>2
      <4>2. Len(v \o x) = Len(v) + Len(x)
        <5>1. v \in Seq(S) /\ x \in Seq(S)
          BY <2>2
        <5> QED BY <5>1
      <4>3. Len(w \o y) = Len(w) + Len(y)
        <5>1. w \in Seq(U) /\ y \in Seq(U)
          BY <2>2
        <5> QED BY <5>1
      <4> QED BY <4>1, <4>2, <4>3
    <3>2. ASSUME NEW j \in 1 .. Len(v) + Len(x) PROVE <<(v \o x)[j], (w \o y)[j]>> \in R
      <4>1. CASE j <= Len(v)
        <5>1. (v \o x)[j] = v[j] /\ (w \o y)[j] = w[j] /\ j \in 1 .. Len(v)
          BY <2>2, <3>1, <4>1
        <5> QED BY <2>2, <3>1, <5>1
      <4>2. CASE j > Len(v)
        <5>1. /\ (v \o x)[j] = x[j - Len(v)] /\ (w \o y)[j] = y[j - Len(v)]
              /\ j - Len(v) \in 1 .. Len(x)
          BY <2>2, <3>1, <4>2
        <5> QED BY <2>2, <5>1
      <4> QED BY <3>1, <4>1, <4>2
    <3> QED BY <3>1, <3>2
  <2> QED BY <2>1, <2>3, <2>4
<1>9. \A m \in 0 .. n : m \in A
  <2> HIDE DEF A
  <2> QED BY <1>1, <1>7, <1>8, Counting
<1> QED
  BY <1>1, <1>4, <1>9

-----------------------------------------------------------------------------
(* Reading one field.                                                      *)

\* What the classes have in common: fields of known kinds, no two of one name.
LEMMA Numbers ==
  ASSUME NEW T \in DOMAIN Classes
  PROVE  /\ Len(Classes[T]) \in Nat /\ DOMAIN Classes[T] = 1 .. Len(Classes[T])
         /\ \A i \in DOMAIN Classes[T] : Classes[T][i].kind \in Kinds
         /\ \A i, j \in DOMAIN Classes[T] : Classes[T][i].name = Classes[T][j].name => i = j
  BY TabledAll DEF Tabled

\* Both sides number the fields of every class alike, by their place in the
\* class: the page's classes were generated from the .proto files the server
\* was generated from.
THEOREM NumbersAgree ==
  ASSUME NEW T \in DOMAIN Classes, NEW side, NEW i \in DOMAIN Classes[T]
  PROVE  Number(side, T, i) = i
  BY TabledAll DEF Tabled, Number

\* A number is that of one field of T, or of none.
LEMMA NumberedIs ==
  ASSUME NEW T \in DOMAIN Classes, NEW side, NEW n
  PROVE  Numbered(side, T, n) = IF n \in DOMAIN Classes[T] THEN {n} ELSE {}
  BY NumbersAgree DEF Numbered

\* A field is found by its name.
LEMMA NamesAre ==
  ASSUME NEW T \in DOMAIN Classes, NEW i \in DOMAIN Classes[T]
  PROVE  Classes[T][i].name \in Names(T) /\ Field(T, Classes[T][i].name) = Classes[T][i]
<1> DEFINE f == Classes[T][i]
<1>1. f \in ToSet(Classes[T])
  BY DEF ToSet
<1>2. ASSUME NEW g \in ToSet(Classes[T]), g.name = f.name PROVE g = f
  BY <1>2, Numbers DEF ToSet
<1> HIDE DEF f
<1>3. Field(T, f.name) = f
  BY <1>1, <1>2 DEF Field
<1>4. f.name \in Names(T)
  BY <1>1 DEF Names
<1> QED
  BY <1>3, <1>4 DEF f

\* A name is that of a field.
LEMMA FieldOf ==
  ASSUME NEW T \in DOMAIN Classes, NEW n \in Names(T)
  PROVE  \E i \in DOMAIN Classes[T] : Classes[T][i].name = n
  BY DEF Names, ToSet

\* An entry with the number of a field changes the field, and nothing else.
LEMMA ReadEntryIs ==
  ASSUME NEW T \in DOMAIN Classes, NEW side, NEW i \in DOMAIN Classes[T], NEW p, NEW x
  PROVE  ReadEntry(side, T, p, Entry(i, x))
           = [p EXCEPT ![Classes[T][i].name] = Put(Classes[T][i], p[Classes[T][i].name], x)]
<1>1. Numbered(side, T, i) = {i}
  BY NumberedIs
<1>2. Entry(i, x).number = i /\ Entry(i, x).value = x
  BY DEF Entry
<1>3. (CHOOSE k \in {i} : TRUE) = i
  OBVIOUS
<1> QED
  BY <1>1, <1>2, <1>3 DEF ReadEntry

\* An entry with the number of no field changes nothing.
LEMMA ReadUnknown ==
  ASSUME NEW T \in DOMAIN Classes, NEW side, NEW n, n \notin DOMAIN Classes[T], NEW p, NEW x
  PROVE  ReadEntry(side, T, p, Entry(n, x)) = p
<1>1. Numbered(side, T, n) = {} /\ Entry(n, x).number = n
  BY NumberedIs DEF Entry
<1> QED
  BY <1>1 DEF ReadEntry

\* t goes from f's default to v, one part at a time.
Grows(f, ps, v, t) ==
  /\ t[0] = Default(f) /\ t[Len(ps)] = v
  /\ \A j \in 1 .. Len(ps) : t[j] = Put(f, t[j - 1], ps[j])

\* Reading the parts ps into a field f at its default makes its value v.
Carries(f, ps, v) == \E t : Grows(f, ps, v, t)

\* f is a function on D; o has the fields of T and no other.
IsOn(D, f) == f = [x \in D |-> f[x]]
HasFields(T, o) == IsOn(Names(T), o)

\* o with v in the field named n.
Updated(o, n, v) == [o EXCEPT ![n] = v]

\* What is written of field i.
Chunk(i, ps) == [j \in DOMAIN ps |-> Entry(i, ps[j])]

\* The entries of one field give it its value, and change nothing else.
LEMMA ReadParts ==
  ASSUME NEW T \in DOMAIN Classes, NEW side, NEW i \in DOMAIN Classes[T],
         NEW p, HasFields(T, p),
         p[Classes[T][i].name] = Default(Classes[T][i]),
         NEW ps, Len(ps) \in Nat, DOMAIN ps = 1 .. Len(ps), NEW v, Carries(Classes[T][i], ps, v)
  PROVE  ReadEntries(side, T, p, Chunk(i, ps)) = Updated(p, Classes[T][i].name, v)
<1> DEFINE f == Classes[T][i]
           c == Chunk(i, ps)
           n == Len(ps)
<1>1. Len(c) = n /\ n \in Nat /\ \A j \in 1 .. n : c[j] = Entry(i, ps[j])
  BY DEF Chunk
<1>2. PICK t : Grows(f, ps, v, t)
  BY DEF Carries
<1>3. t[0] = Default(f) /\ t[n] = v /\ \A j \in 1 .. n : t[j] = Put(f, t[j - 1], ps[j])
  BY <1>2 DEF Grows
<1>4. /\ \A q, x : ReadEntry(side, T, q, Entry(i, x)) = [q EXCEPT ![f.name] = Put(f, q[f.name], x)]
      /\ f.name \in Names(T)
  BY ReadEntryIs, NamesAre
<1>5. p = [m \in Names(T) |-> p[m]] /\ p[f.name] = Default(f)
  BY DEF HasFields, IsOn
<1> HIDE DEF f, c, n
<1> DEFINE r == [k \in 0 .. n |-> [p EXCEPT ![f.name] = t[k]]]
<1>6. r[0] = p /\ r[n] = [p EXCEPT ![f.name] = v]
  <2>1. 0 \in 0 .. n /\ n \in 0 .. n
    BY <1>1
  <2>2. [p EXCEPT ![f.name] = t[0]] = p
    BY <1>3, <1>5
  <2> QED BY <1>3, <2>1, <2>2
<1>7. ASSUME NEW k \in 1 .. n PROVE r[k] = ReadEntry(side, T, r[k - 1], c[k])
  <2>1. k \in 0 .. n /\ k - 1 \in 0 .. n
    BY <1>1
  <2> DEFINE q == [p EXCEPT ![f.name] = t[k - 1]]
  <2>2. r[k] = [p EXCEPT ![f.name] = t[k]] /\ r[k - 1] = q
    BY <2>1
  <2>3. q[f.name] = t[k - 1] /\ \A x : [q EXCEPT ![f.name] = x] = [p EXCEPT ![f.name] = x]
    BY <1>4, <1>5
  <2> HIDE DEF r, q
  <2>4. ReadEntry(side, T, q, c[k]) = [q EXCEPT ![f.name] = Put(f, q[f.name], ps[k])]
    BY <1>1, <1>4
  <2>5. t[k] = Put(f, q[f.name], ps[k])
    BY <1>3, <2>3
  <2>6. [q EXCEPT ![f.name] = t[k]] = [p EXCEPT ![f.name] = t[k]]
    BY <2>3
  <2> QED
    BY <2>2, <2>4, <2>5, <2>6
<1>8. Reads(side, T, p, c, r)
  <2> HIDE DEF r
  <2> QED BY <1>1, <1>6, <1>7 DEF Reads
<1>9. ReadEntries(side, T, p, c) = r[n]
  <2> HIDE DEF r
  <2> QED BY <1>1, <1>8, ReadingIs
<1> QED
  BY <1>6, <1>9 DEF c, f, Updated

-----------------------------------------------------------------------------
(* Reading the fields of an object, in any order.                          *)

\* order lists every field of T once.
Permutes(T, order) ==
  /\ order \in [DOMAIN Classes[T] -> DOMAIN Classes[T]]
  /\ \A k, l \in DOMAIN order : order[k] = order[l] => k = l
  /\ \A i \in DOMAIN Classes[T] : \E k \in DOMAIN order : order[k] = i

\* The sequences of entries that Lay joins, and the entries in them.
Chunks(T, parts, order) == [m \in DOMAIN Classes[T] |-> Chunk(order[m], parts[order[m]])]
EntriesOf(T, U) == {Entry(i, x) : i \in DOMAIN Classes[T], x \in U}

\* Lay joins the entries of the fields, in the order it is given.
LEMMA LayIs ==
  ASSUME NEW T \in DOMAIN Classes, NEW side, NEW U, NEW parts \in [DOMAIN Classes[T] -> Seq(U)],
         NEW order \in [DOMAIN Classes[T] -> DOMAIN Classes[T]]
  PROVE  /\ Chunks(T, parts, order) \in Seq(Seq(EntriesOf(T, U)))
         /\ Len(Chunks(T, parts, order)) = Len(Classes[T])
         /\ Lay(side, T, parts, order) = FlattenSeq(Chunks(T, parts, order))
<1> DEFINE n  == Len(Classes[T])
           S  == {Entry(i, x) : i \in DOMAIN Classes[T], x \in U}
           cs == [m \in DOMAIN Classes[T] |-> Chunk(order[m], parts[order[m]])]
<1>1. n \in Nat /\ DOMAIN Classes[T] = 1 .. n
  BY Numbers
<1>2. ASSUME NEW i \in DOMAIN Classes[T] PROVE Chunk(i, parts[i]) \in Seq(S)
  <2> DEFINE ps == parts[i]
  <2>1. ps \in Seq(U)
    OBVIOUS
  <2> HIDE DEF ps
  <2>2. \A j \in DOMAIN ps : Entry(i, ps[j]) \in S
    BY <2>1
  <2> HIDE DEF S
  <2>3. Chunk(i, ps) \in Seq(S)
    BY <2>1, <2>2 DEF Chunk
  <2> QED BY <2>3 DEF ps
<1>3. cs \in Seq(Seq(S)) /\ Len(cs) = n
  <2> HIDE DEF S
  <2>1. \A m \in 1 .. n : Chunk(order[m], parts[order[m]]) \in Seq(S)
    BY <1>1, <1>2
  <2> HIDE DEF n
  <2> QED BY <1>1, <2>1
<1>4. Lay(side, T, parts, order) = FlattenSeq(cs)
  <2>1. \A i \in DOMAIN Classes[T] : Number(side, T, i) = i
    BY NumbersAgree
  <2>2. cs = [m \in DOMAIN order |->
                [j \in DOMAIN parts[order[m]] |-> Entry(Number(side, T, order[m]), parts[order[m]][j])]]
    BY <2>1 DEF Chunk
  <2> QED BY <2>2 DEF Lay
<1> QED
  BY <1>3, <1>4 DEF Chunks, EntriesOf

\* Whatever the order of the fields, reading gives each its value.
LEMMA ReadLaid ==
  ASSUME NEW T \in DOMAIN Classes, NEW from, NEW to, NEW o, HasFields(T, o),
         NEW U, NEW parts \in [DOMAIN Classes[T] -> Seq(U)],
         \A i \in DOMAIN Classes[T] : Carries(Classes[T][i], parts[i], o[Classes[T][i].name]),
         NEW order, Permutes(T, order)
  PROVE  ReadEntries(to, T, New(T), Lay(from, T, parts, order)) = o
<1> DEFINE C == Classes[T]
           n == Len(C)
           S  == EntriesOf(T, U)
           cs == Chunks(T, parts, order)
           a == [m \in 0 .. n |-> [x \in Names(T) |->
                  IF \E l \in 1 .. m : C[order[l]].name = x THEN o[x] ELSE New(T)[x]]]
<1>1. /\ n \in Nat /\ DOMAIN C = 1 .. n
      /\ \A i, j \in 1 .. n : C[i].name = C[j].name => i = j
  BY Numbers
<1>2. /\ order \in [1 .. n -> 1 .. n]
      /\ \A k, l \in 1 .. n : order[k] = order[l] => k = l
      /\ \A i \in 1 .. n : \E k \in 1 .. n : order[k] = i
  BY <1>1 DEF Permutes
<1>3. cs \in Seq(Seq(S)) /\ Len(cs) = n /\ Lay(from, T, parts, order) = FlattenSeq(cs)
  <2>1. order \in [DOMAIN Classes[T] -> DOMAIN Classes[T]]
    BY DEF Permutes
  <2> HIDE DEF a
  <2> QED BY <2>1, LayIs, Zenon
<1>4. ASSUME NEW i \in 1 .. n
      PROVE  C[i].name \in Names(T) /\ New(T)[C[i].name] = Default(C[i])
  <2>1. C[i].name \in Names(T) /\ Field(T, C[i].name) = C[i]
    BY <1>1, NamesAre
  <2> QED BY <2>1 DEF New
<1>5. \A i \in 1 .. n : cs[i] = Chunk(order[i], parts[order[i]])
  BY <1>1 DEF Chunks
<1>6. \A x \in Names(T) : \E i \in 1 .. n : C[i].name = x
  BY <1>1, FieldOf
<1>7. New(T) = [x \in Names(T) |-> New(T)[x]]
  BY DEF New
<1>8. \A i \in 1 .. n : Carries(C[i], parts[i], o[C[i].name]) /\ parts[i] \in Seq(U)
  BY <1>1
<1>9. ASSUME NEW i \in 1 .. n, NEW p, HasFields(T, p), p[C[i].name] = Default(C[i])
      PROVE  ReadEntries(to, T, p, Chunk(i, parts[i])) = Updated(p, C[i].name, o[C[i].name])
  <2>1. i \in DOMAIN Classes[T]
    BY <1>1
  <2>2. ASSUME NEW ps, NEW v, Len(ps) \in Nat, DOMAIN ps = 1 .. Len(ps), Carries(C[i], ps, v)
        PROVE  ReadEntries(to, T, p, Chunk(i, ps)) = Updated(p, C[i].name, v)
    BY <1>9, <2>1, <2>2, ReadParts
  <2>3. Len(parts[i]) \in Nat /\ DOMAIN parts[i] = 1 .. Len(parts[i])
    BY <1>8
  <2> QED BY <1>8, <2>2, <2>3
<1> HIDE DEF C, n, cs, S
<1>10. a[0] = New(T)
  BY <1>1, <1>7
<1>11. a[n] = o
  <2>1. \A x \in Names(T) : \E l \in 1 .. n : C[order[l]].name = x
    BY <1>2, <1>6
  <2> QED BY <1>1, <2>1 DEF HasFields, IsOn
<1>12. ASSUME NEW m \in 1 .. n PROVE a[m] = ReadEntries(to, T, a[m - 1], cs[m])
  <2> DEFINE i == order[m]
             p == a[m - 1]
  <2>1. i \in 1 .. n /\ m - 1 \in 0 .. n /\ m \in 0 .. n
    BY <1>1, <1>2
  <2>2. p = [x \in Names(T) |-> p[x]]
    BY <2>1
  <2>0. HasFields(T, p)
    BY <2>2 DEF HasFields, IsOn
  <2>3. ASSUME NEW l \in 1 .. m - 1 PROVE C[order[l]].name # C[i].name
    <3>1. l \in 1 .. n /\ l # m
      BY <1>1
    <3>2. order[l] \in 1 .. n /\ order[l] # i
      BY <1>2, <3>1
    <3> QED BY <1>1, <2>1, <3>2
  <2>4. p[C[i].name] = Default(C[i])
    <3>1. C[i].name \in Names(T) /\ New(T)[C[i].name] = Default(C[i])
      BY <1>4, <2>1
    <3> QED BY <2>1, <2>3, <3>1
  <2>5. a[m] = Updated(p, C[i].name, o[C[i].name])
    <3>1. ASSUME NEW x \in Names(T)
          PROVE  a[m][x] = IF x = C[i].name THEN o[x] ELSE p[x]
      <4>1. (\E l \in 1 .. m : C[order[l]].name = x)
              <=> (x = C[i].name \/ \E l \in 1 .. m - 1 : C[order[l]].name = x)
        <5>1. \A l : l \in 1 .. m <=> (l \in 1 .. m - 1 \/ l = m)
          BY <1>1
        <5> HIDE DEF a
        <5> QED BY <5>1
      <4> QED BY <2>1, <4>1
    <3>2. a[m] = [x \in Names(T) |-> a[m][x]]
      BY <2>1
    <3> HIDE DEF a, p, i
    <3> QED BY <2>1, <2>2, <3>1, <3>2, <1>4 DEF Updated
  <2>6. cs[m] = Chunk(i, parts[i])
    BY <1>5
  <2> HIDE DEF a, p, i
  <2>7. ReadEntries(to, T, p, Chunk(i, parts[i])) = Updated(p, C[i].name, o[C[i].name])
    BY <1>9, <2>0, <2>1, <2>4
  <2> QED BY <2>5, <2>6, <2>7 DEF p
<1> HIDE DEF a
<1>13. ReadEntries(to, T, a[0], FlattenSeq(cs)) = a[Len(cs)]
  BY <1>3, <1>12, ReadJoined
<1> QED
  BY <1>3, <1>10, <1>11, <1>13

\* At each place of w and x there is a part of the same field, in the same place of its parts.
SamePlaces(T, parts, qs, w, x) ==
  \A k \in DOMAIN w : \E i \in DOMAIN Classes[T] : \E j \in 1 .. Len(parts[i]) :
    w[k] = Entry(i, parts[i][j]) /\ x[k] = Entry(i, qs[i][j])

\* Two layings of equally many parts have their parts in the same places.
LEMMA LaidPointwise ==
  ASSUME NEW T \in DOMAIN Classes, NEW side, NEW U, NEW V,
         NEW parts \in [DOMAIN Classes[T] -> Seq(U)], NEW qs \in [DOMAIN Classes[T] -> Seq(V)],
         \A i \in DOMAIN Classes[T] : Len(parts[i]) = Len(qs[i]),
         NEW order \in [DOMAIN Classes[T] -> DOMAIN Classes[T]],
         NEW w, w = Lay(side, T, parts, order), NEW x, x = Lay(side, T, qs, order)
  PROVE  /\ Len(w) \in Nat /\ DOMAIN w = 1 .. Len(w) /\ IsOn(DOMAIN w, w) /\ IsOn(DOMAIN w, x)
         /\ SamePlaces(T, parts, qs, w, x)
<1> DEFINE D  == DOMAIN Classes[T]
           S  == EntriesOf(T, U)
           Q  == EntriesOf(T, V)
           cs == Chunks(T, parts, order)
           ds == Chunks(T, qs, order)
           R  == {r \in S \X Q : \E i \in D : \E j \in 1 .. Len(parts[i]) :
                    r = <<Entry(i, parts[i][j]), Entry(i, qs[i][j])>>}
<1>1. Len(Classes[T]) \in Nat /\ D = 1 .. Len(Classes[T])
  BY Numbers
<1>2. cs \in Seq(Seq(S)) /\ Len(cs) = Len(Classes[T]) /\ w = FlattenSeq(cs)
  BY LayIs
<1>3. ds \in Seq(Seq(Q)) /\ Len(ds) = Len(Classes[T]) /\ x = FlattenSeq(ds)
  BY LayIs
<1>4. ASSUME NEW m \in 1 .. Len(cs)
      PROVE  Alike(cs[m], ds[m], R)
  <2> DEFINE i  == order[m]
             ps == parts[i]
             ts == qs[i]
  <2>1. m \in D /\ i \in D /\ ps \in Seq(U) /\ ts \in Seq(V) /\ Len(ps) = Len(ts)
    BY <1>1, <1>2
  <2>2. cs[m] = Chunk(i, ps) /\ ds[m] = Chunk(i, ts)
    BY <2>1 DEF Chunks
  <2> HIDE DEF ps, ts, cs, ds, D
  <2>3. /\ Len(Chunk(i, ps)) = Len(ps) /\ Len(Chunk(i, ts)) = Len(ts)
        /\ \A j \in 1 .. Len(ps) : Chunk(i, ps)[j] = Entry(i, ps[j]) /\ Chunk(i, ts)[j] = Entry(i, ts[j])
    BY <2>1 DEF Chunk
  <2>4. ASSUME NEW j \in 1 .. Len(ps) PROVE <<Entry(i, ps[j]), Entry(i, ts[j])>> \in R
    <3>1. ps[j] \in U /\ ts[j] \in V
      BY <2>1
    <3>2. Entry(i, ps[j]) \in S /\ Entry(i, ts[j]) \in Q
      BY <2>1, <3>1 DEF EntriesOf, D
    <3> HIDE DEF S, Q, i
    <3> QED BY <2>1, <3>2 DEF ps, ts
  <2> HIDE DEF R
  <2> QED BY <2>1, <2>2, <2>3, <2>4 DEF Alike
<1> HIDE DEF S, Q, R, cs, ds
<1>0. Len(cs) = Len(ds)
  BY <1>2, <1>3
<1>5. w \in Seq(S) /\ x \in Seq(Q) /\ Alike(w, x, R)
  <2>1. /\ FlattenSeq(cs) \in Seq(S) /\ FlattenSeq(ds) \in Seq(Q)
        /\ Alike(FlattenSeq(cs), FlattenSeq(ds), R)
    BY <1>0, <1>2, <1>3, <1>4, JoinedPointwise
  <2> QED BY <1>2, <1>3, <2>1
<1>6. Len(w) \in Nat /\ DOMAIN w = 1 .. Len(w) /\ IsOn(DOMAIN w, w) /\ IsOn(DOMAIN w, x)
  BY <1>5 DEF Alike, IsOn
<1>7. ASSUME NEW k \in DOMAIN w
      PROVE  \E i \in D : \E j \in 1 .. Len(parts[i]) :
               w[k] = Entry(i, parts[i][j]) /\ x[k] = Entry(i, qs[i][j])
  BY <1>5, <1>6 DEF R, Alike
<1> QED
  BY <1>6, <1>7 DEF SamePlaces

-----------------------------------------------------------------------------
(* Writing one field.                                                      *)

\* SetToSeq enumerates a finite set.
LEMMA Enumerates ==
  ASSUME NEW S, IsFiniteSet(S)
  PROVE  \E n \in Nat : /\ SetToSeq(S) \in [1 .. n -> S] /\ Len(SetToSeq(S)) = n
                        /\ \A k \in S : \E j \in 1 .. n : SetToSeq(S)[j] = k
<1> DEFINE n == Cardinality(S)
           s == SetToSeq(S)
<1>1. n \in Nat /\ ExistsBijection(1 .. n, S)
  BY FS_CardinalityType
<1>2. \E f \in [1 .. n -> S] : IsInjective(f)
  BY <1>1 DEF ExistsBijection, Bijection, Injection
<1>3. s \in [1 .. n -> S] /\ IsInjective(s)
  BY <1>2 DEF SetToSeq
<1> HIDE DEF n, s
<1>4. s \in Injection(1 .. n, S)
  BY <1>3 DEF Injection
<1>5. Cardinality(1 .. n) = Cardinality(S)
  BY <1>1, FS_Interval DEF n
<1>6. s \in Surjection(1 .. n, S)
  BY <1>4, <1>5, FS_Injection
<1>7. Len(s) = n
  BY <1>1, <1>3
<1> QED
  BY <1>1, <1>3, <1>6, <1>7 DEF Surjection, s

\* s is a sequence.
IsList(s) == Len(s) \in Nat /\ s = [j \in 1 .. Len(s) |-> s[j]]

\* A sequence of elements of S is in Seq(S).
LEMMA ListIs ==
  ASSUME NEW s, IsList(s)
  PROVE  DOMAIN s = 1 .. Len(s) /\ \A S : (\A j \in 1 .. Len(s) : s[j] \in S) => s \in Seq(S)
<1>1. DOMAIN s = 1 .. Len(s)
  BY DEF IsList
<1>2. ASSUME NEW S, \A j \in 1 .. Len(s) : s[j] \in S PROVE s \in Seq(S)
  <2> DEFINE n == Len(s)
  <2>1. n \in Nat /\ s = [j \in 1 .. n |-> s[j]]
    BY DEF IsList
  <2> HIDE DEF n
  <2>2. s \in [1 .. n -> S]
    BY <1>2, <2>1 DEF n
  <2> QED BY <2>1, <2>2
<1> QED
  BY <1>1, <1>2

\* A value a field of f's kind may hold: a list, a map, or anything.
Fits(f, v) ==
  /\ f.kind = "repeated" => IsList(v)
  /\ f.kind = "map" => v = [k \in DOMAIN v |-> v[k]] /\ IsFiniteSet(DOMAIN v)

\* The entries of a map, in the order the writer takes them.
Pairs(v) == LET ks == SetToSeq(DOMAIN v) IN [j \in DOMAIN ks |-> <<ks[j], v[ks[j]]>>]

\* What is written of a field, embedded messages not yet written.
Laid(f, v) ==
  IF Skipped(f, v) THEN <<>>
  ELSE CASE f.kind = "repeated" -> v
         [] f.kind = "map"      -> Pairs(v)
         [] OTHER               -> <<v>>

\* The pairs of a map are its keys with their values.
LEMMA PairsAre ==
  ASSUME NEW v, IsFiniteSet(DOMAIN v)
  PROVE  /\ IsList(Pairs(v))
         /\ \A j \in 1 .. Len(Pairs(v)) : Pairs(v)[j][1] \in DOMAIN v /\ Pairs(v)[j][2] = v[Pairs(v)[j][1]]
         /\ \A k \in DOMAIN v : \E j \in 1 .. Len(Pairs(v)) : Pairs(v)[j][1] = k
<1> DEFINE ks == SetToSeq(DOMAIN v)
           ps == Pairs(v)
<1>1. PICK n \in Nat : /\ ks \in [1 .. n -> DOMAIN v]
                       /\ \A k \in DOMAIN v : \E j \in 1 .. n : ks[j] = k
  BY Enumerates
<1>2. ps = [j \in 1 .. n |-> <<ks[j], v[ks[j]]>>]
  BY <1>1 DEF Pairs
<1> HIDE DEF ks, ps
<1>3. Len(ps) = n
  BY <1>2
<1> QED
  BY <1>1, <1>2, <1>3 DEF IsList, ps

\* What is written of a field is a sequence.
LEMMA LaidIsList ==
  ASSUME NEW f, NEW v, Fits(f, v)
  PROVE  IsList(Laid(f, v))
<1>1. CASE Skipped(f, v)
  BY <1>1 DEF Laid, IsList
<1>2. CASE ~Skipped(f, v) /\ f.kind = "repeated"
  BY <1>2 DEF Laid, Fits
<1>3. CASE ~Skipped(f, v) /\ f.kind = "map"
  BY <1>3, PairsAre DEF Laid, Fits
<1>4. CASE ~Skipped(f, v) /\ f.kind \notin {"repeated", "map"}
  BY <1>4 DEF Laid, IsList
<1> QED
  BY <1>1, <1>2, <1>3, <1>4

\* What is written of a field gives its value back.
LEMMA LaidCarries ==
  ASSUME NEW f, NEW v, f.kind \in Kinds, Fits(f, v)
  PROVE  Carries(f, Laid(f, v), v)
<1>1. CASE Skipped(f, v)
  <2> DEFINE t == [k \in {0} |-> v]
  <2>1. Laid(f, v) = <<>> /\ v = Default(f)
    BY <1>1 DEF Laid, Skipped
  <2>2. Grows(f, <<>>, v, t)
    BY <2>1 DEF Grows
  <2> HIDE DEF t
  <2> QED BY <2>1, <2>2 DEF Carries
<1>2. CASE ~Skipped(f, v) /\ f.kind \notin {"repeated", "map"}
  <2> DEFINE t == [k \in {0, 1} |-> IF k = 0 THEN Default(f) ELSE v]
  <2>1. Laid(f, v) = <<v>> /\ \A x : Put(f, x, v) = v
    BY <1>2 DEF Laid, Put
  <2>2. Grows(f, <<v>>, v, t)
    BY <2>1 DEF Grows
  <2> HIDE DEF t
  <2> QED BY <2>1, <2>2 DEF Carries
<1>3. CASE ~Skipped(f, v) /\ f.kind = "repeated"
  <2> DEFINE n == Len(v)
             t == [k \in 0 .. n |-> [j \in 1 .. k |-> v[j]]]
  <2>1. Laid(f, v) = v /\ Default(f) = <<>> /\ \A x, y : Put(f, x, y) = Append(x, y)
    BY <1>3 DEF Laid, Put, Default
  <2>2. n \in Nat /\ v = [j \in 1 .. n |-> v[j]]
    BY <1>3 DEF Fits, IsList
  <2> HIDE DEF n
  <2>3. t[0] = <<>> /\ t[n] = v
    BY <2>2
  <2>4. ASSUME NEW k \in 1 .. n PROVE t[k] = Append(t[k - 1], v[k])
    BY <2>2
  <2>5. Grows(f, v, v, t)
    <3> HIDE DEF t
    <3> QED BY <2>1, <2>3, <2>4 DEF Grows, n
  <2> HIDE DEF t
  <2> QED BY <2>1, <2>5 DEF Carries
<1>4. CASE ~Skipped(f, v) /\ f.kind = "map"
  <2> DEFINE ps == Pairs(v)
             n == Len(ps)
             K(k) == {ps[j][1] : j \in 1 .. k}
             t == [k \in 0 .. n |-> [x \in K(k) |-> v[x]]]
  <2>1. Laid(f, v) = ps /\ Default(f) = <<>>
    BY <1>4 DEF Laid, Default
  <2>2. /\ n \in Nat
        /\ \A j \in 1 .. n : ps[j][1] \in DOMAIN v /\ ps[j][2] = v[ps[j][1]]
        /\ \A k \in DOMAIN v : \E j \in 1 .. n : ps[j][1] = k
    BY <1>4, PairsAre DEF Fits, IsList
  <2>3. v = [x \in DOMAIN v |-> v[x]]
    BY <1>4 DEF Fits
  <2> HIDE DEF ps, n
  <2>4. t[0] = <<>>
    BY <2>2
  <2>5. t[n] = v
    <3>1. K(n) = DOMAIN v
      BY <2>2
    <3> HIDE DEF K
    <3> QED BY <2>2, <2>3, <3>1
  <2>6. ASSUME NEW k \in 1 .. n PROVE t[k] = Put(f, t[k - 1], ps[k])
    <3>1. k \in 0 .. n /\ k - 1 \in 0 .. n
      BY <2>2
    <3>2. K(k) = K(k - 1) \cup {ps[k][1]}
      <4>1. \A j : j \in 1 .. k <=> (j \in 1 .. k - 1 \/ j = k)
        BY <2>2
      <4> QED BY <4>1
    <3> HIDE DEF K
    <3>3. t[k] = [x \in K(k) |-> v[x]] /\ t[k - 1] = [x \in K(k - 1) |-> v[x]]
      BY <3>1
    <3> HIDE DEF t
    <3>4. Put(f, t[k - 1], ps[k])
            = [x \in K(k - 1) \cup {ps[k][1]} |-> IF x = ps[k][1] THEN ps[k][2] ELSE t[k - 1][x]]
      <4>1. DOMAIN t[k - 1] = K(k - 1)
        BY <3>3
      <4> QED BY <1>4, <4>1 DEF Put, With
    <3> QED BY <2>2, <3>2, <3>3, <3>4
  <2>7. Grows(f, ps, v, t)
    <3> HIDE DEF t
    <3> QED BY <2>1, <2>4, <2>5, <2>6 DEF Grows, n
  <2> HIDE DEF t
  <2> QED BY <2>1, <2>7 DEF Carries
<1> QED
  BY <1>1, <1>2, <1>3, <1>4

-----------------------------------------------------------------------------
(* Writing an object, and reading it again.                                *)

\* The messages inside a field.
Contents(f, v) ==
  IF Skipped(f, v) THEN {}
  ELSE CASE f.kind = "message"  -> {v}
         [] f.kind = "repeated" -> {v[j] : j \in DOMAIN v}
         [] OTHER               -> {}

\* An object of class T, whatever its embedded messages are.
Shaped(T, o) ==
  /\ T \in DOMAIN Classes /\ HasFields(T, o)
  /\ \A i \in DOMAIN Classes[T] : Fits(Classes[T][i], o[Classes[T][i].name])

\* An object without embedded messages, with one level of them, and with two.
IsItem(T, o) ==
  /\ Shaped(T, o)
  /\ \A i \in DOMAIN Classes[T] : Embeds(Classes[T][i]) => Skipped(Classes[T][i], o[Classes[T][i].name])
IsGroup(T, o) ==
  /\ Shaped(T, o)
  /\ \A i \in DOMAIN Classes[T] :
       \A x \in Contents(Classes[T][i], o[Classes[T][i].name]) : IsItem(Classes[T][i].of, x)
IsObject(T, o) ==
  /\ Shaped(T, o)
  /\ \A i \in DOMAIN Classes[T] :
       \A x \in Contents(Classes[T][i], o[Classes[T][i].name]) : IsGroup(Classes[T][i].of, x)

\* Sequences have their elements in a common set.
LEMMA ListsIn ==
  ASSUME NEW D, NEW parts, IsOn(D, parts), \A i \in D : IsList(parts[i])
  PROVE  \E U : parts \in [D -> Seq(U)]
<1> DEFINE U == UNION {{parts[i][j] : j \in 1 .. Len(parts[i])} : i \in D}
<1>1. ASSUME NEW i \in D PROVE parts[i] \in Seq(U)
  <2>1. \A j \in 1 .. Len(parts[i]) : parts[i][j] \in U
    OBVIOUS
  <2> HIDE DEF U
  <2> QED BY <2>1, ListIs
<1> HIDE DEF U
<1>2. parts \in [D -> Seq(U)]
  BY <1>1 DEF IsOn
<1> QED
  BY <1>2

\* What is written of o, embedded messages not yet written.
LaidParts(T, o) == [i \in DOMAIN Classes[T] |-> Laid(Classes[T][i], o[Classes[T][i].name])]

\* So have the parts of an object.
LEMMA LaidPartsIn ==
  ASSUME NEW T, NEW o, Shaped(T, o)
  PROVE  \E U : LaidParts(T, o) \in [DOMAIN Classes[T] -> Seq(U)]
<1> DEFINE D == DOMAIN Classes[T]
           parts == LaidParts(T, o)
<1>1. \A i \in D : IsList(parts[i])
  BY LaidIsList DEF LaidParts, Shaped
<1>2. IsOn(D, parts)
  BY DEF LaidParts, IsOn
<1> HIDE DEF D, parts
<1> QED
  BY <1>1, <1>2, ListsIn DEF D, parts

LaidWire(side, T, o, order) == Lay(side, T, LaidParts(T, o), order)

\* An object comes back from the wire when embedded messages travel as they are.
LEMMA LaidTrip ==
  ASSUME NEW from, NEW to, NEW T, NEW o, Shaped(T, o), NEW order, Permutes(T, order)
  PROVE  ReadEntries(to, T, New(T), LaidWire(from, T, o, order)) = o
<1> DEFINE parts == LaidParts(T, o)
<1>1. T \in DOMAIN Classes /\ HasFields(T, o)
  BY DEF Shaped
<1>2. \A i \in DOMAIN Classes[T] : Carries(Classes[T][i], parts[i], o[Classes[T][i].name])
  BY <1>1, LaidCarries, Numbers DEF Shaped, LaidParts
<1>3. PICK U : parts \in [DOMAIN Classes[T] -> Seq(U)]
  BY LaidPartsIn
<1> HIDE DEF parts
<1>4. ReadEntries(to, T, New(T), Lay(from, T, parts, order)) = o
  BY <1>1, <1>2, <1>3, ReadLaid
<1> QED
  BY <1>4 DEF parts, LaidWire

\* The order of the numbers has every field once.
LEMMA AscendingPermutes ==
  ASSUME NEW T \in DOMAIN Classes
  PROVE  Permutes(T, Ascending(T))
  BY DEF Permutes, Ascending

\* Embedded messages are items, or groups where inner says so.
WriteIn(inner, side, U, x) == IF inner = "group" THEN WriteGroup(side, U, x) ELSE WriteItem(side, U, x)
ReadIn(inner, side, U, x)  == IF inner = "group" THEN ReadGroup(side, U, x) ELSE ReadItem(side, U, x)

\* What is written of a field, without embedded messages and with them.
ItemParts(f, v) == LET Nothing(U, p) == <<>> IN Parts(f, v, Nothing)
PartsOf(inner, side, f, v) == LET Inner(U, p) == WriteIn(inner, side, U, p) IN Parts(f, v, Inner)

\* What is written of an object.
Wire(inner, side, T, o, order) ==
  Lay(side, T, [i \in DOMAIN Classes[T] |-> PartsOf(inner, side, Classes[T][i], o[Classes[T][i].name])], order)

\* w with its embedded messages read.
OpenedIn(inner, side, T, w) == LET Inner(U, x) == ReadIn(inner, side, U, x) IN Opened(side, T, w, Inner)

\* An object without embedded messages has none to write.
LEMMA ItemPartsAre ==
  ASSUME NEW f, NEW v, Embeds(f) => Skipped(f, v)
  PROVE  ItemParts(f, v) = Laid(f, v)
  BY DEF ItemParts, Laid, Parts, Embeds, Pairs

\* An object without embedded messages comes back from the wire.
LEMMA ItemTrip ==
  ASSUME NEW from, NEW to, NEW T, NEW o, IsItem(T, o)
  PROVE  ReadItem(to, T, WriteItem(from, T, o)) = o
<1>1. Shaped(T, o) /\ T \in DOMAIN Classes
  BY DEF IsItem, Shaped
<1>2. WriteItem(from, T, o)
        = Lay(from, T, [i \in DOMAIN Classes[T] |-> ItemParts(Classes[T][i], o[Classes[T][i].name])], Ascending(T))
  BY DEF WriteItem, WriteOver, ItemParts
<1>3. [i \in DOMAIN Classes[T] |-> ItemParts(Classes[T][i], o[Classes[T][i].name])] = LaidParts(T, o)
  BY ItemPartsAre DEF IsItem, LaidParts
<1>4. ReadEntries(to, T, New(T), LaidWire(from, T, o, Ascending(T))) = o
  BY <1>1, LaidTrip, AscendingPermutes
<1> QED
  BY <1>2, <1>3, <1>4 DEF ReadItem, LaidWire

\* A field is written part by part, an embedded message by its own writer.
LEMMA PartsOfAre ==
  ASSUME NEW inner, NEW side, NEW f, NEW v, f.kind \in Kinds, Fits(f, v)
  PROVE  /\ IsList(PartsOf(inner, side, f, v)) /\ Len(PartsOf(inner, side, f, v)) = Len(Laid(f, v))
         /\ \A j \in 1 .. Len(Laid(f, v)) :
              IF Embeds(f)
              THEN /\ Laid(f, v)[j] \in Contents(f, v)
                   /\ PartsOf(inner, side, f, v)[j] = WriteIn(inner, side, f.of, Laid(f, v)[j])
              ELSE PartsOf(inner, side, f, v)[j] = Laid(f, v)[j]
<1> DEFINE ps == PartsOf(inner, side, f, v)
           qs == Laid(f, v)
<1>1. CASE Skipped(f, v)
  <2>1. ps = <<>> /\ qs = <<>>
    BY <1>1 DEF PartsOf, Parts, Laid
  <2> HIDE DEF ps, qs
  <2>2. IsList(ps) /\ Len(ps) = Len(qs) /\ Len(qs) = 0
    BY <2>1 DEF IsList
  <2> QED BY <2>2 DEF ps, qs
<1>2. CASE ~Skipped(f, v) /\ f.kind = "message"
  <2>1. ps = <<WriteIn(inner, side, f.of, v)>> /\ qs = <<v>> /\ Contents(f, v) = {v} /\ Embeds(f)
    BY <1>2 DEF PartsOf, Parts, Laid, Contents, Embeds
  <2> HIDE DEF ps, qs
  <2>2. IsList(ps) /\ Len(ps) = 1 /\ Len(qs) = 1 /\ ps[1] = WriteIn(inner, side, f.of, v) /\ qs[1] = v
    BY <2>1 DEF IsList
  <2>3. \A j \in 1 .. 1 : j = 1
    OBVIOUS
  <2> QED BY <2>1, <2>2, <2>3 DEF ps, qs
<1>3. CASE ~Skipped(f, v) /\ f.kind = "repeated"
  <2>0. DOMAIN v = 1 .. Len(v) /\ Len(v) \in Nat
    BY <1>3 DEF Fits, IsList
  <2>1. ps = [j \in 1 .. Len(v) |-> WriteIn(inner, side, f.of, v[j])] /\ qs = v /\ Embeds(f)
    BY <1>3, <2>0 DEF PartsOf, Parts, Laid, Embeds
  <2>2. Contents(f, v) = {v[j] : j \in DOMAIN v}
    BY <1>3 DEF Contents
  <2> HIDE DEF ps, qs
  <2>3. IsList(ps) /\ Len(ps) = Len(v)
    BY <2>0, <2>1 DEF IsList
  <2> QED BY <2>0, <2>1, <2>2, <2>3 DEF ps, qs
<1>4. CASE ~Skipped(f, v) /\ ~Embeds(f)
  <2>1. ps = qs
    BY <1>4 DEF PartsOf, Parts, Laid, Embeds, Pairs
  <2>2. IsList(qs)
    BY LaidIsList
  <2> HIDE DEF ps, qs
  <2> QED BY <1>4, <2>1, <2>2 DEF ps, qs
<1> QED
  BY <1>1, <1>2, <1>3, <1>4 DEF Embeds

-----------------------------------------------------------------------------
(* Embedded messages on the wire.                                          *)

\* The wire of an object has the same fields in the same places, whether its
\* embedded messages are written or travel as they are.
LEMMA WireIs ==
  ASSUME NEW inner, NEW from, NEW T, NEW o, Shaped(T, o),
         NEW order \in [DOMAIN Classes[T] -> DOMAIN Classes[T]],
         NEW w, w = Wire(inner, from, T, o, order), NEW x, x = LaidWire(from, T, o, order)
  PROVE  /\ Len(w) \in Nat /\ DOMAIN w = 1 .. Len(w) /\ IsOn(DOMAIN w, w) /\ IsOn(DOMAIN w, x)
         /\ \A k \in DOMAIN w : \E i \in DOMAIN Classes[T] : \E p, q :
              /\ w[k] = Entry(i, p) /\ x[k] = Entry(i, q)
              /\ IF Embeds(Classes[T][i])
                 THEN /\ q \in Contents(Classes[T][i], o[Classes[T][i].name])
                      /\ p = WriteIn(inner, from, Classes[T][i].of, q)
                 ELSE p = q
<1> DEFINE D == DOMAIN Classes[T]
           v(i) == o[Classes[T][i].name]
           parts == [i \in DOMAIN Classes[T] |-> PartsOf(inner, from, Classes[T][i], o[Classes[T][i].name])]
           qs == LaidParts(T, o)
<1>1. T \in DOMAIN Classes /\ \A i \in D : Fits(Classes[T][i], v(i)) /\ Classes[T][i].kind \in Kinds
  BY Numbers DEF Shaped
<1>2. \A i \in D : parts[i] = PartsOf(inner, from, Classes[T][i], v(i)) /\ qs[i] = Laid(Classes[T][i], v(i))
  BY DEF LaidParts
<1>3. \A i \in D : IsList(parts[i]) /\ Len(parts[i]) = Len(qs[i])
  BY <1>1, <1>2, PartsOfAre
<1>4. ASSUME NEW i \in D, NEW j \in 1 .. Len(parts[i])
      PROVE  IF Embeds(Classes[T][i])
             THEN /\ qs[i][j] \in Contents(Classes[T][i], v(i))
                  /\ parts[i][j] = WriteIn(inner, from, Classes[T][i].of, qs[i][j])
             ELSE parts[i][j] = qs[i][j]
  <2> DEFINE f == Classes[T][i]
             y == v(i)
             ps == parts[i]
             ls == qs[i]
  <2>1. f.kind \in Kinds /\ Fits(f, y) /\ ps = PartsOf(inner, from, f, y) /\ ls = Laid(f, y) /\ j \in 1 .. Len(ls)
    BY <1>1, <1>2, <1>3
  <2> HIDE DEF f, y, ps, ls
  <2>2. IF Embeds(f) THEN ls[j] \in Contents(f, y) /\ ps[j] = WriteIn(inner, from, f.of, ls[j])
                     ELSE ps[j] = ls[j]
    BY <2>1, PartsOfAre
  <2> QED BY <2>2 DEF f, y, ps, ls
<1>5. PICK V : qs \in [D -> Seq(V)]
  BY LaidPartsIn
<1>6. PICK U : parts \in [D -> Seq(U)]
  <2>1. IsOn(D, parts)
    BY DEF IsOn
  <2> HIDE DEF D, parts
  <2> QED BY <1>3, <2>1, ListsIn
<1>0. w = Lay(from, T, parts, order) /\ x = Lay(from, T, qs, order)
  BY DEF Wire, LaidWire
<1> HIDE DEF qs, parts
<1>7. /\ Len(w) \in Nat /\ DOMAIN w = 1 .. Len(w) /\ IsOn(DOMAIN w, w) /\ IsOn(DOMAIN w, x)
      /\ \A k \in DOMAIN w : \E i \in D : \E j \in 1 .. Len(parts[i]) :
           w[k] = Entry(i, parts[i][j]) /\ x[k] = Entry(i, qs[i][j])
  <2>1. \A i \in DOMAIN Classes[T] : Len(parts[i]) = Len(qs[i])
    BY <1>3
  <2>2. T \in DOMAIN Classes /\ order \in [DOMAIN Classes[T] -> DOMAIN Classes[T]]
    BY <1>1
  <2>3. parts \in [DOMAIN Classes[T] -> Seq(U)] /\ qs \in [DOMAIN Classes[T] -> Seq(V)]
    BY <1>5, <1>6
  <2> HIDE DEF D, v
  <2>4. /\ Len(w) \in Nat /\ DOMAIN w = 1 .. Len(w) /\ IsOn(DOMAIN w, w) /\ IsOn(DOMAIN w, x)
        /\ SamePlaces(T, parts, qs, w, x)
    BY <1>0, <2>1, <2>2, <2>3, LaidPointwise
  <2> QED BY <2>4 DEF D, SamePlaces
<1>8. ASSUME NEW k \in DOMAIN w
      PROVE  \E i \in D : \E p, q :
              /\ w[k] = Entry(i, p) /\ x[k] = Entry(i, q)
              /\ IF Embeds(Classes[T][i])
                 THEN /\ q \in Contents(Classes[T][i], v(i))
                      /\ p = WriteIn(inner, from, Classes[T][i].of, q)
                 ELSE p = q
  <2>0. PICK i \in D : \E j \in 1 .. Len(parts[i]) :
                         w[k] = Entry(i, parts[i][j]) /\ x[k] = Entry(i, qs[i][j])
    BY <1>7
  <2>1. PICK j \in 1 .. Len(parts[i]) : w[k] = Entry(i, parts[i][j]) /\ x[k] = Entry(i, qs[i][j])
    BY <2>0
  <2> QED BY <1>4, <2>1
<1> QED
  BY <1>7, <1>8

\* The two components of an entry.
LEMMA EntryIs ==
  ASSUME NEW i, NEW x
  PROVE  Entry(i, x).number = i /\ Entry(i, x).value = x
  BY DEF Entry

\* An embedded message is read by its own reader, anything else is left as it is.
LEMMA OpenedInIs ==
  ASSUME NEW inner, NEW side, NEW T \in DOMAIN Classes, NEW w, NEW k \in DOMAIN w, NEW i, NEW p, w[k] = Entry(i, p)
  PROVE  OpenedIn(inner, side, T, w)[k]
           = IF i \in DOMAIN Classes[T] /\ Embeds(Classes[T][i])
             THEN Entry(i, ReadIn(inner, side, Classes[T][i].of, p)) ELSE w[k]
<1>1. w[k].number = i /\ w[k].value = p
  BY EntryIs
<1>2. Numbered(side, T, i) = IF i \in DOMAIN Classes[T] THEN {i} ELSE {}
  BY NumberedIs
<1>3. (CHOOSE j \in {i} : TRUE) = i
  OBVIOUS
<1> QED
  BY <1>1, <1>2, <1>3 DEF OpenedIn, Opened

\* The messages inside o are read as they were before they were written.
Returns(inner, from, to, T, o) ==
  \A i \in DOMAIN Classes[T] : \A q \in Contents(Classes[T][i], o[Classes[T][i].name]) :
    ReadIn(inner, to, Classes[T][i].of, WriteIn(inner, from, Classes[T][i].of, q)) = q

\* An entry the class does not know is left as it is.
LEMMA OpenedUnknown ==
  ASSUME NEW inner, NEW side, NEW T \in DOMAIN Classes, NEW w, NEW k \in DOMAIN w,
         w[k].number \notin DOMAIN Classes[T]
  PROVE  OpenedIn(inner, side, T, w)[k] = w[k]
<1>1. Numbered(side, T, w[k].number) = {}
  BY NumberedIs
<1> QED
  BY <1>1 DEF OpenedIn, Opened

\* Opening keeps the places.
LEMMA OpenedOn ==
  ASSUME NEW inner, NEW side, NEW T, NEW w
  PROVE  IsOn(DOMAIN w, OpenedIn(inner, side, T, w))
  BY DEF IsOn, OpenedIn, Opened

\* Opening an entry depends on that entry alone.
LEMMA OpenedAt ==
  ASSUME NEW inner, NEW side, NEW T, NEW v, NEW w, NEW k \in DOMAIN v, k \in DOMAIN w, v[k] = w[k]
  PROVE  OpenedIn(inner, side, T, v)[k] = OpenedIn(inner, side, T, w)[k]
  BY DEF OpenedIn, Opened

\* Reading the embedded messages undoes writing them, when each comes back.
LEMMA OpenedWire ==
  ASSUME NEW inner, NEW from, NEW to, NEW T, NEW o, Shaped(T, o),
         NEW order \in [DOMAIN Classes[T] -> DOMAIN Classes[T]], Returns(inner, from, to, T, o)
  PROVE  /\ IsList(Wire(inner, from, T, o, order)) /\ IsList(LaidWire(from, T, o, order))
         /\ OpenedIn(inner, to, T, Wire(inner, from, T, o, order)) = LaidWire(from, T, o, order)
<1> DEFINE w == Wire(inner, from, T, o, order)
           x == LaidWire(from, T, o, order)
           y == OpenedIn(inner, to, T, w)
<1>1. T \in DOMAIN Classes
  BY DEF Shaped
<1> HIDE DEF w, x
<1>7. /\ Len(w) \in Nat /\ DOMAIN w = 1 .. Len(w) /\ IsOn(DOMAIN w, w) /\ IsOn(DOMAIN w, x)
      /\ \A k \in DOMAIN w : \E i \in DOMAIN Classes[T] : \E p, q :
           /\ w[k] = Entry(i, p) /\ x[k] = Entry(i, q)
           /\ IF Embeds(Classes[T][i])
              THEN /\ q \in Contents(Classes[T][i], o[Classes[T][i].name])
                   /\ p = WriteIn(inner, from, Classes[T][i].of, q)
              ELSE p = q
  BY WireIs DEF w, x
<1>8. ASSUME NEW k \in DOMAIN w PROVE y[k] = x[k]
  <2>0. PICK i \in DOMAIN Classes[T] : \E p, q :
           /\ w[k] = Entry(i, p) /\ x[k] = Entry(i, q)
           /\ IF Embeds(Classes[T][i])
              THEN /\ q \in Contents(Classes[T][i], o[Classes[T][i].name])
                   /\ p = WriteIn(inner, from, Classes[T][i].of, q)
              ELSE p = q
    BY <1>7
  <2>1. PICK p, q :
           /\ w[k] = Entry(i, p) /\ x[k] = Entry(i, q)
           /\ IF Embeds(Classes[T][i])
              THEN /\ q \in Contents(Classes[T][i], o[Classes[T][i].name])
                   /\ p = WriteIn(inner, from, Classes[T][i].of, q)
              ELSE p = q
    BY <2>0
  <2>2. y[k] = IF Embeds(Classes[T][i]) THEN Entry(i, ReadIn(inner, to, Classes[T][i].of, p)) ELSE w[k]
    <3>1. w[k] = Entry(i, p)
      BY <2>1
    <3> QED BY <1>1, <3>1, OpenedInIs
  <2>3. CASE Embeds(Classes[T][i])
    <3>1. ReadIn(inner, to, Classes[T][i].of, p) = q
      BY <2>1, <2>3 DEF Returns
    <3> QED BY <2>1, <2>2, <2>3, <3>1
  <2>4. CASE ~Embeds(Classes[T][i])
    BY <2>1, <2>2, <2>4
  <2> QED BY <2>3, <2>4
<1>9. y = x
  <2>1. y = [k \in DOMAIN w |-> y[k]]
    BY DEF OpenedIn, Opened
  <2>2. x = [k \in DOMAIN w |-> x[k]]
    BY <1>7 DEF IsOn
  <2> HIDE DEF y
  <2> QED BY <1>8, <2>1, <2>2
<1>10. IsList(x)
  <2>1. x = [k \in 1 .. Len(w) |-> x[k]]
    BY <1>7 DEF IsOn
  <2>2. Len(x) = Len(w)
    BY <1>7, <2>1
  <2> QED BY <1>7, <2>1, <2>2 DEF IsList
<1>11. IsList(w)
  BY <1>7 DEF IsOn, IsList
<1> QED
  BY <1>9, <1>10, <1>11 DEF w, x

-----------------------------------------------------------------------------
(* The round trip.                                                         *)

\* An object with one level of embedded messages comes back from the wire.
LEMMA GroupTrip ==
  ASSUME NEW from, NEW to, NEW T, NEW o, IsGroup(T, o)
  PROVE  ReadGroup(to, T, WriteGroup(from, T, o)) = o
<1> DEFINE order == Ascending(T)
<1>1. Shaped(T, o) /\ T \in DOMAIN Classes
  BY DEF IsGroup, Shaped
<1>2. WriteGroup(from, T, o) = Wire("item", from, T, o, order)
  BY DEF WriteGroup, WriteOver, Wire, PartsOf, WriteIn
<1>3. \A w : ReadGroup(to, T, w) = ReadEntries(to, T, New(T), OpenedIn("item", to, T, w))
  BY DEF ReadGroup, OpenedIn, ReadIn
<1>4. Permutes(T, order)
  BY <1>1, AscendingPermutes
<1> HIDE DEF order
<1>5. order \in [DOMAIN Classes[T] -> DOMAIN Classes[T]]
  BY <1>4 DEF Permutes
<1>6. ASSUME NEW i \in DOMAIN Classes[T], NEW q \in Contents(Classes[T][i], o[Classes[T][i].name])
      PROVE  ReadIn("item", to, Classes[T][i].of, WriteIn("item", from, Classes[T][i].of, q)) = q
  BY ItemTrip DEF IsGroup, ReadIn, WriteIn
<1>7. OpenedIn("item", to, T, Wire("item", from, T, o, order)) = LaidWire(from, T, o, order)
  <2>1. Returns("item", from, to, T, o)
    BY <1>6 DEF Returns
  <2> QED BY <1>1, <1>5, <2>1, OpenedWire
<1>8. ReadEntries(to, T, New(T), LaidWire(from, T, o, order)) = o
  BY <1>1, <1>4, LaidTrip
<1> QED
  BY <1>2, <1>3, <1>7, <1>8

\* The embedded messages of an object come back from its wire.
LEMMA ObjectWire ==
  ASSUME NEW from, NEW to, NEW T, NEW o, IsObject(T, o), NEW order, Permutes(T, order)
  PROVE  /\ IsList(LaidWire(from, T, o, order)) /\ IsList(Write(from, T, o, order))
         /\ OpenedIn("group", to, T, Write(from, T, o, order)) = LaidWire(from, T, o, order)
<1>1. Shaped(T, o) /\ T \in DOMAIN Classes
  BY DEF IsObject, Shaped
<1>2. Write(from, T, o, order) = Wire("group", from, T, o, order)
  BY DEF Write, WriteOver, Wire, PartsOf, WriteIn
<1>3. order \in [DOMAIN Classes[T] -> DOMAIN Classes[T]]
  BY DEF Permutes
<1>4. ASSUME NEW i \in DOMAIN Classes[T], NEW q \in Contents(Classes[T][i], o[Classes[T][i].name])
      PROVE  ReadIn("group", to, Classes[T][i].of, WriteIn("group", from, Classes[T][i].of, q)) = q
  BY GroupTrip DEF IsObject, ReadIn, WriteIn
<1>5. /\ IsList(LaidWire(from, T, o, order)) /\ IsList(Wire("group", from, T, o, order))
      /\ OpenedIn("group", to, T, Wire("group", from, T, o, order)) = LaidWire(from, T, o, order)
  <2>1. Returns("group", from, to, T, o)
    BY <1>4 DEF Returns
  <2> QED BY <1>1, <1>3, <2>1, OpenedWire
<1> QED
  BY <1>2, <1>5

\* An object of any of the classes, with embedded messages down to two levels,
\* comes back from the wire as it was: whichever side wrote it, whichever
\* reads it and in whichever order its fields were written, no field is lost
\* because the writer left it out and none is taken for another
\* (serializeBinaryToWriter and deserializeBinaryFromReader of *_pb.js).
THEOREM RoundTrip ==
  ASSUME NEW from, NEW to, NEW T, NEW o, IsObject(T, o), NEW order, Permutes(T, order)
  PROVE  ReadInto(to, T, New(T), Write(from, T, o, order)) = o
<1>1. \A w : ReadInto(to, T, New(T), w) = ReadEntries(to, T, New(T), OpenedIn("group", to, T, w))
  BY DEF ReadInto, OpenedIn, ReadIn
<1>2. ReadEntries(to, T, New(T), LaidWire(from, T, o, order)) = o
  BY LaidTrip DEF IsObject
<1>3. OpenedIn("group", to, T, Write(from, T, o, order)) = LaidWire(from, T, o, order)
  BY ObjectWire
<1> QED
  BY <1>1, <1>2, <1>3

\* One more entry is read last.
LEMMA ReadAppend ==
  ASSUME NEW side, NEW T, NEW o, NEW w, IsList(w), NEW e
  PROVE  ReadEntries(side, T, o, Append(w, e))
           = ReadEntry(side, T, ReadEntries(side, T, o, w), e)
<1> DEFINE n == Len(w)
           c == Append(w, e)
<1>1. n \in Nat /\ w = [j \in 1 .. n |-> w[j]]
  BY DEF IsList
<1>2. Len(c) = n + 1 /\ c[n + 1] = e /\ \A k \in 1 .. n : c[k] = w[k]
  BY <1>1
<1> HIDE DEF c
<1>3. PICK r : Reads(side, T, o, c, r)
  BY <1>1, <1>2, Reading
<1>4. Reads(side, T, o, w, r)
  BY <1>1, <1>2, <1>3 DEF Reads
<1>5. ReadEntries(side, T, o, c) = r[n + 1] /\ ReadEntries(side, T, o, w) = r[n]
  BY <1>1, <1>2, <1>3, <1>4, ReadingIs
<1>6. r[n + 1] = ReadEntry(side, T, r[n], e)
  <2>1. n + 1 \in 1 .. Len(c) /\ (n + 1) - 1 = n
    BY <1>1, <1>2
  <2> QED BY <1>2, <1>3, <2>1 DEF Reads
<1> QED
  BY <1>5, <1>6 DEF c

\* One more entry, of no field, is left as it is.
LEMMA OpenedAppend ==
  ASSUME NEW inner, NEW side, NEW T \in DOMAIN Classes, NEW w, IsList(w),
         NEW n, n \notin DOMAIN Classes[T], NEW x
  PROVE  OpenedIn(inner, side, T, Append(w, Entry(n, x)))
           = Append(OpenedIn(inner, side, T, w), Entry(n, x))
<1> DEFINE m == Len(w)
           c == Append(w, Entry(n, x))
           y == OpenedIn(inner, side, T, w)
           z == OpenedIn(inner, side, T, c)
<1>1. m \in Nat /\ DOMAIN w = 1 .. m
  BY DEF IsList
<1>2. Len(c) = m + 1 /\ DOMAIN c = 1 .. m + 1 /\ c[m + 1] = Entry(n, x) /\ \A k \in 1 .. m : c[k] = w[k]
  BY <1>1 DEF IsList
<1> HIDE DEF c
<1>3. y = [k \in 1 .. m |-> y[k]] /\ z = [k \in 1 .. m + 1 |-> z[k]]
  <2>1. IsOn(1 .. m, y) /\ IsOn(1 .. m + 1, z)
    BY <1>1, <1>2, OpenedOn
  <2> HIDE DEF y, z
  <2> QED BY <2>1 DEF IsOn
<1>4. ASSUME NEW k \in 1 .. m PROVE z[k] = y[k]
  <2>1. k \in DOMAIN c /\ k \in DOMAIN w /\ c[k] = w[k]
    BY <1>1, <1>2
  <2> QED BY <2>1, OpenedAt
<1>5. z[m + 1] = Entry(n, x)
  <2>1. m + 1 \in DOMAIN c /\ c[m + 1] = Entry(n, x)
    BY <1>1, <1>2
  <2>2. c[m + 1].number \notin DOMAIN Classes[T]
    BY <2>1, EntryIs
  <2>3. z[m + 1] = c[m + 1]
    BY <2>1, <2>2, OpenedUnknown
  <2> QED BY <2>1, <2>3
<1> HIDE DEF y, z
<1>6. Len(y) = m
  BY <1>1, <1>3
<1>7. Append(y, Entry(n, x)) = [k \in 1 .. m + 1 |-> IF k = m + 1 THEN Entry(n, x) ELSE y[k]]
  BY <1>1, <1>3, <1>6
<1>8. z = Append(y, Entry(n, x))
  <2>1. \A k \in 1 .. m + 1 : z[k] = IF k = m + 1 THEN Entry(n, x) ELSE y[k]
    BY <1>1, <1>4, <1>5
  <2> QED BY <1>3, <1>7, <2>1
<1> QED
  BY <1>8 DEF c, y, z

\* The same when the writer adds an entry whose number the class does not
\* have: a field of a later version is skipped (skipField of the readers).
THEOREM RoundTripLater ==
  ASSUME NEW from, NEW to, NEW T, NEW o, IsObject(T, o), NEW order, Permutes(T, order),
         NEW n, n \notin DOMAIN Classes[T], NEW x
  PROVE  ReadInto(to, T, New(T), Append(Write(from, T, o, order), Entry(n, x))) = o
<1> DEFINE w == Write(from, T, o, order)
           l == LaidWire(from, T, o, order)
<1>0. T \in DOMAIN Classes /\ Shaped(T, o)
  BY DEF IsObject, Shaped
<1>1. \A v : ReadInto(to, T, New(T), v) = ReadEntries(to, T, New(T), OpenedIn("group", to, T, v))
  BY DEF ReadInto, OpenedIn, ReadIn
<1>2. IsList(l) /\ IsList(w) /\ OpenedIn("group", to, T, w) = l
  BY ObjectWire
<1> HIDE DEF w, l
<1>4. OpenedIn("group", to, T, Append(w, Entry(n, x))) = Append(l, Entry(n, x))
  BY <1>0, <1>2, OpenedAppend
<1>5. ReadEntries(to, T, New(T), Append(l, Entry(n, x)))
        = ReadEntry(to, T, ReadEntries(to, T, New(T), l), Entry(n, x))
  BY <1>2, ReadAppend
<1>6. ReadEntries(to, T, New(T), l) = o
  BY <1>0, LaidTrip DEF l
<1>7. ReadEntry(to, T, o, Entry(n, x)) = o
  BY <1>0, ReadUnknown
<1> QED
  BY <1>1, <1>4, <1>5, <1>6, <1>7 DEF w

-----------------------------------------------------------------------------
(* The values of a field are values the round trip is about.               *)

\* The classes of embedded messages.
Nested == {"Extension", "OutboundGroupItem", "OutboundGroup", "WarpAccount", "WarpWireguardConfig"}

\* The fields that hold messages, and the classes of those messages.
LEMMA NestingOf ==
  ASSUME NEW T \in DOMAIN Classes, NEW i \in DOMAIN Classes[T], Embeds(Classes[T][i])
  PROVE  /\ T \in Nesting /\ Classes[T][i].of \in Nested
         /\ T = "OutboundGroup" => Classes[T][i].of = "OutboundGroupItem"
<1>1. T \in Nesting
  BY TabledAll DEF Tabled, PlainKinds, Embeds
<1>2. CASE T = "ExtensionList"
  <2>1. Classes[T] = ExtensionList /\ i = 1
    BY <1>2 DEF Classes, ExtensionList
  <2>2. ExtensionList[1].of = "Extension"
    BY DEF ExtensionList, Rep, F
  <2> QED BY <1>1, <1>2, <2>1, <2>2 DEF Nested
<1>3. CASE T = "OutboundGroup"
  <2>1. Classes[T] = OutboundGroup /\ i \in 1 .. 4
    BY <1>3 DEF Classes, OutboundGroup
  <2>2. OutboundGroup[1].kind = "string" /\ OutboundGroup[2].kind = "string" /\ OutboundGroup[3].kind = "string"
    BY DEF OutboundGroup, Str, Rep, F
  <2>3. OutboundGroup[4].of = "OutboundGroupItem"
    BY DEF OutboundGroup, Str, Rep, F
  <2> QED BY <1>1, <2>1, <2>2, <2>3 DEF Embeds, Nested
<1>4. CASE T = "OutboundGroupList"
  <2>1. Classes[T] = OutboundGroupList /\ i = 1
    BY <1>4 DEF Classes, OutboundGroupList
  <2>2. OutboundGroupList[1].of = "OutboundGroup"
    BY DEF OutboundGroupList, Rep, F
  <2> QED BY <1>1, <1>4, <2>1, <2>2 DEF Nested
<1>5. CASE T = "WarpGenerationResponse"
  <2>1. Classes[T] = WarpGenerationResponse /\ i \in 1 .. 3
    BY <1>5 DEF Classes, WarpGenerationResponse
  <2>2. /\ WarpGenerationResponse[1].of = "WarpAccount" /\ WarpGenerationResponse[2].kind = "string"
        /\ WarpGenerationResponse[3].of = "WarpWireguardConfig"
    BY DEF WarpGenerationResponse, Str, Msg, F
  <2> QED BY <1>1, <1>5, <2>1, <2>2 DEF Embeds, Nested
<1> QED
  BY <1>1, <1>2, <1>3, <1>4, <1>5 DEF Nesting

\* Groups are the only embedded messages that embed messages, and items embed none.
LEMMA NestedAre ==
  /\ Nested \subseteq DOMAIN Classes /\ Nested \cap Nesting = {"OutboundGroup"}
  /\ "OutboundGroupItem" \notin Nesting
  BY DEF Nested, Nesting, Classes

\* The other classes have no field that holds a message.
LEMMA PlainClass ==
  ASSUME NEW T \in DOMAIN Classes, T \notin Nesting, NEW i \in DOMAIN Classes[T]
  PROVE  ~Embeds(Classes[T][i])
  BY NestingOf

\* An object without embedded messages has none that embed any.
LEMMA ItemIsGroup ==
  ASSUME NEW T, NEW o, IsItem(T, o)
  PROVE  IsGroup(T, o)
  BY DEF IsItem, IsGroup, Contents, Embeds

\* The default of a field is a value of its kind.
LEMMA EmptyFits ==
  ASSUME NEW f, f.kind \in Kinds
  PROVE  Fits(f, Default(f))
<1>1. f.kind \in {"repeated", "map"} => Default(f) = <<>>
  BY DEF Default
<1>2. IsList(<<>>) /\ <<>> = [k \in DOMAIN <<>> |-> <<>>[k]] /\ DOMAIN <<>> = {}
  BY DEF IsList
<1>3. IsFiniteSet({})
  BY FS_EmptySet
<1> QED
  BY <1>1, <1>2, <1>3 DEF Fits

\* A new object is well formed and empty.
LEMMA NewIs ==
  ASSUME NEW T \in DOMAIN Classes
  PROVE  IsItem(T, New(T))
<1>1. HasFields(T, New(T))
  BY DEF HasFields, IsOn, New
<1>2. ASSUME NEW i \in DOMAIN Classes[T]
      PROVE  /\ New(T)[Classes[T][i].name] = Default(Classes[T][i])
             /\ Fits(Classes[T][i], New(T)[Classes[T][i].name])
  <2>1. New(T)[Classes[T][i].name] = Default(Classes[T][i])
    BY NamesAre DEF New
  <2> QED BY <2>1, EmptyFits, Numbers
<1> QED
  BY <1>1, <1>2 DEF IsItem, Shaped, Skipped

\* An object of a class without embedded messages with every field set is well formed.
LEMMA FullPlain ==
  ASSUME NEW T \in DOMAIN Classes, T \notin Nesting
  PROVE  IsItem(T, Full(T)) /\ IsItem(T, FullGroup(T))
<1> DEFINE t == CHOOSE x \in Texts : x # ""
<1>1. /\ HasFields(T, Full(T)) /\ HasFields(T, FullGroup(T))
  BY DEF HasFields, IsOn, Full, FullGroup
<1>2. ASSUME NEW i \in DOMAIN Classes[T]
      PROVE  /\ ~Embeds(Classes[T][i])
             /\ Fits(Classes[T][i], Full(T)[Classes[T][i].name])
             /\ Fits(Classes[T][i], FullGroup(T)[Classes[T][i].name])
  <2> DEFINE f == Classes[T][i]
  <2>1. ~Embeds(f) /\ f.kind # "repeated"
    BY PlainClass DEF Embeds
  <2>2. f.name \in Names(T) /\ Field(T, f.name) = f
    BY NamesAre
  <2>3. f.kind = "map" => /\ Full(T)[f.name] = [k \in {"", t} |-> t]
                          /\ FullGroup(T)[f.name] = [k \in {"", t} |-> t]
    BY <2>2 DEF Full, FullGroup, FullValue
  <2>4. IsFiniteSet({"", t})
    <3>1. IsFiniteSet({""}) /\ {"", t} = {""} \cup {t}
      BY FS_Singleton
    <3> HIDE DEF t
    <3> QED BY <3>1, FS_AddElement
  <2> QED BY <2>1, <2>3, <2>4 DEF Fits
<1> QED
  BY <1>1, <1>2 DEF IsItem, Shaped

\* So is one that is embedded.
LEMMA FullNested ==
  ASSUME NEW T \in Nested
  PROVE  IsGroup(T, Full(T))
<1>1. CASE T \notin Nesting
  BY <1>1, NestedAre, FullPlain, ItemIsGroup
<1>2. CASE T \in Nesting
  <2> DEFINE U == "OutboundGroupItem"
  <2>1. T = "OutboundGroup" /\ T \in DOMAIN Classes /\ U \in DOMAIN Classes /\ U \notin Nesting
    BY <1>2, NestedAre DEF Nested
  <2>2. HasFields(T, Full(T))
    BY DEF HasFields, IsOn, Full
  <2>3. ASSUME NEW i \in DOMAIN Classes[T]
        PROVE  /\ Fits(Classes[T][i], Full(T)[Classes[T][i].name])
               /\ \A x \in Contents(Classes[T][i], Full(T)[Classes[T][i].name]) : IsItem(Classes[T][i].of, x)
    <3> DEFINE f == Classes[T][i]
    <3>1. f.name \in Names(T) /\ Field(T, f.name) = f
      BY <2>1, NamesAre
    <3>2. Classes[T] = OutboundGroup /\ (i = 1 \/ i = 2 \/ i = 3 \/ i = 4)
      BY <2>1 DEF Classes, OutboundGroup
    <3>3. f.kind = "string" \/ (f.kind = "repeated" /\ f.of = U)
      <4>1. OutboundGroup[1].kind = "string" /\ OutboundGroup[2].kind = "string" /\ OutboundGroup[3].kind = "string"
        BY DEF OutboundGroup, Str, Rep, F
      <4>2. OutboundGroup[4].kind = "repeated" /\ OutboundGroup[4].of = U
        BY DEF OutboundGroup, Str, Rep, F
      <4> QED BY <3>2, <4>1, <4>2
    <3>4. CASE f.kind = "string"
      BY <3>4 DEF Fits, Contents
    <3>5. CASE f.kind = "repeated" /\ f.of = U
      <4>1. Full(T)[f.name] = <<FullGroup(U), New(U)>>
        BY <3>1, <3>5 DEF Full, FullValue
      <4>2. IsItem(U, FullGroup(U)) /\ IsItem(U, New(U))
        BY <2>1, FullPlain, NewIs
      <4> DEFINE y == <<FullGroup(U), New(U)>>
      <4>3. IsList(y) /\ \A j \in DOMAIN y : y[j] = FullGroup(U) \/ y[j] = New(U)
        BY DEF IsList
      <4> HIDE DEF y
      <4>4. Contents(f, y) \subseteq {FullGroup(U), New(U)}
        BY <3>5, <4>3 DEF Contents
      <4> QED BY <3>5, <4>1, <4>2, <4>3, <4>4 DEF Fits, y
    <3> QED BY <3>3, <3>4, <3>5
  <2> QED BY <2>1, <2>2, <2>3 DEF IsGroup, Shaped
<1> QED
  BY <1>1, <1>2

\* So is every value of a field.
LEMMA ValuesAre ==
  ASSUME NEW T \in DOMAIN Classes, NEW i \in DOMAIN Classes[T], NEW v \in Values(Classes[T][i])
  PROVE  /\ Fits(Classes[T][i], v)
         /\ \A x \in Contents(Classes[T][i], v) : IsGroup(Classes[T][i].of, x)
<1> DEFINE f == Classes[T][i]
<1>1. f.kind \in Kinds
  BY Numbers
<1>2. Embeds(f) => f.of \in Nested /\ IsGroup(f.of, New(f.of)) /\ IsGroup(f.of, Full(f.of))
  BY NestingOf, NestedAre, NewIs, FullNested, ItemIsGroup
<1> HIDE DEF f
<1>3. CASE f.kind \notin {"message", "repeated", "map"}
  <2>1. Contents(f, v) = {} /\ Fits(f, v)
    BY <1>3 DEF Fits, Contents
  <2> QED BY <2>1 DEF f
<1>4. CASE f.kind = "map"
  <2>1. PICK K : IsFiniteSet(K) /\ v \in [K -> Texts]
    BY <1>4 DEF Values, f
  <2> QED BY <1>4, <2>1 DEF Fits, Contents, f
<1>5. CASE f.kind = "message"
  <2>1. v \in {Unset, New(f.of), Full(f.of)}
    BY <1>5 DEF Values, f
  <2>2. Contents(f, v) \subseteq {New(f.of), Full(f.of)}
    BY <1>5, <2>1 DEF Contents, Skipped, Default
  <2> QED BY <1>2, <1>5, <2>2 DEF Fits, Embeds, f
<1>6. CASE f.kind = "repeated"
  <2>1. PICK n \in Nat : v \in [1 .. n -> {New(f.of), Full(f.of)}]
    <3> DEFINE S == {New(f.of), Full(f.of)}
    <3>1. v \in BoundedSeq(S, MaxEntries)
      BY <1>6 DEF Values, f
    <3> HIDE DEF S
    <3>2. v \in UNION {[1 .. m -> S] : m \in 0 .. MaxEntries}
      BY <3>1 DEF BoundedSeq, SeqOf
    <3>3. PICK n \in 0 .. MaxEntries : v \in [1 .. n -> S]
      BY <3>2
    <3> QED BY <3>3 DEF S
  <2>2. IsList(v)
    BY <2>1 DEF IsList
  <2>3. Contents(f, v) \subseteq {New(f.of), Full(f.of)}
    BY <1>6, <2>1 DEF Contents
  <2> QED BY <1>2, <1>6, <2>2, <2>3 DEF Fits, Embeds, f
<1> QED
  BY <1>3, <1>4, <1>5, <1>6 DEF f

-----------------------------------------------------------------------------
(* So are the objects of a class.                                          *)

\* The partial objects in S with the field f too.
Extended(S, f) == {With(o, f.name, v) : o \in S, v \in Values(f)}

\* s[i] is the set of the objects with the first i fields of T.
Makes(T, s) == s[0] = {<<>>} /\ \A i \in 1 .. Len(Classes[T]) : s[i] = Extended(s[i - 1], Classes[T][i])

\* The objects of a class are made field by field.
LEMMA Making ==
  ASSUME NEW T \in DOMAIN Classes
  PROVE  \E s : Makes(T, s) /\ Objects(T) = s[Len(Classes[T])]
<1> DEFINE n == Len(Classes[T])
           C == Classes[T]
           Upto(r, m) == r[0] = {<<>>} /\ \A k \in 1 .. m : r[k] = Extended(r[k - 1], C[k])
           S == {m \in 0 .. n : \E r : Upto(r, m)}
           Eq(f) == f = [k \in 0 .. n |-> IF k = 0 THEN {<<>>} ELSE Extended(f[k - 1], C[k])]
           set == CHOOSE f : Eq(f)
<1>0. n \in Nat
  BY Numbers
<1>1. 0 \in S
  <2>1. Upto([k \in {0} |-> {<<>>}], 0)
    OBVIOUS
  <2> HIDE DEF Upto
  <2> QED BY <1>0, <2>1
<1>2. ASSUME NEW m \in 0 .. n - 1, m \in S PROVE m + 1 \in S
  <2>1. PICK r : Upto(r, m)
    BY <1>2
  <2> DEFINE q == [k \in 0 .. m + 1 |-> IF k <= m THEN r[k] ELSE Extended(r[m], C[m + 1])]
  <2> HIDE DEF C, n
  <2>2. Upto(q, m + 1)
    BY <1>0, <2>1
  <2> HIDE DEF Upto, q
  <2> QED BY <1>0, <2>2
<1>3. n \in S
  <2> HIDE DEF S, n, C
  <2> QED BY <1>0, <1>1, <1>2, Counting
<1>4. PICK r : Upto(r, n)
  BY <1>3
<1>5. Eq([k \in 0 .. n |-> r[k]])
  <2> DEFINE g == [k \in 0 .. n |-> r[k]]
  <2> HIDE DEF C, n
  <2>1. \A k \in 0 .. n : g[k] = IF k = 0 THEN {<<>>} ELSE Extended(g[k - 1], C[k])
    <3> SUFFICES ASSUME NEW k \in 0 .. n PROVE g[k] = IF k = 0 THEN {<<>>} ELSE Extended(g[k - 1], C[k])
      OBVIOUS
    <3>1. CASE k = 0
      BY <1>0, <1>4, <3>1
    <3>2. CASE k # 0
      <4>1. k \in 1 .. n /\ k - 1 \in 0 .. n
        BY <1>0, <3>2
      <4>2. g[k] = r[k] /\ g[k - 1] = r[k - 1]
        BY <4>1
      <4> QED BY <1>4, <3>2, <4>1, <4>2
    <3> QED BY <3>1, <3>2
  <2>2. g = [k \in 0 .. n |-> g[k]]
    OBVIOUS
  <2> HIDE DEF g
  <2>3. g = [k \in 0 .. n |-> IF k = 0 THEN {<<>>} ELSE Extended(g[k - 1], C[k])]
    BY <2>1, <2>2
  <2> QED BY <2>3 DEF g
<1>6. Eq(set)
  <2> HIDE DEF Eq
  <2> QED BY <1>5
<1>7. Objects(T) = set[n]
  BY DEF Objects, Extended
<1> HIDE DEF set
<1>8. Makes(T, set)
  <2> HIDE DEF C, n
  <2>1. set[0] = {<<>>} /\ \A k \in 1 .. n : set[k] = Extended(set[k - 1], C[k])
    <3>1. set = [k \in 0 .. n |-> IF k = 0 THEN {<<>>} ELSE Extended(set[k - 1], C[k])]
      BY <1>6
    <3>2. 0 \in 0 .. n /\ \A k \in 1 .. n : k \in 0 .. n /\ k # 0
      BY <1>0
    <3> QED BY <3>1, <3>2
  <2> QED BY <2>1 DEF Makes, C, n
<1> QED
  BY <1>7, <1>8

\* o has the first m fields of T, each with one of its values.
HasFirst(T, m, o) ==
  /\ IsOn({Classes[T][i].name : i \in 1 .. m}, o)
  /\ \A i \in 1 .. m : o[Classes[T][i].name] \in Values(Classes[T][i])

\* No field, no value.
LEMMA FirstNone ==
  ASSUME NEW T
  PROVE  HasFirst(T, 0, <<>>)
<1>1. {Classes[T][i].name : i \in 1 .. 0} = {}
  OBVIOUS
<1>2. IsOn({}, <<>>)
  BY DEF IsOn
<1> QED
  BY <1>1, <1>2 DEF HasFirst

\* One more field with a value of its type.
LEMMA FirstMore ==
  ASSUME NEW T \in DOMAIN Classes, NEW m \in Nat, m + 1 \in DOMAIN Classes[T],
         NEW o, HasFirst(T, m, o), NEW v \in Values(Classes[T][m + 1])
  PROVE  HasFirst(T, m + 1, With(o, Classes[T][m + 1].name, v))
<1> DEFINE C == Classes[T]
           n == C[m + 1].name
           D == {C[i].name : i \in 1 .. m}
           p == With(o, n, v)
<1>1. IsOn(D, o) /\ DOMAIN o = D
  BY DEF HasFirst, IsOn
<1>2. {C[i].name : i \in 1 .. m + 1} = D \cup {n}
  <2> HIDE DEF C
  <2> QED OBVIOUS
<1>3. \A i \in 1 .. m : i \in DOMAIN C /\ C[i].name # n
  BY Numbers
<1>4. DOMAIN p = D \cup {n} /\ IsOn(D \cup {n}, p)
  BY <1>1 DEF With, IsOn
<1>5. p[n] = v /\ \A x \in D : x # n => p[x] = o[x]
  BY <1>1 DEF With
<1>6. \A i \in 1 .. m : o[C[i].name] \in Values(C[i])
  BY DEF HasFirst
<1> HIDE DEF p, n, D, C
<1>7. ASSUME NEW i \in 1 .. m + 1 PROVE p[C[i].name] \in Values(C[i])
  <2>1. CASE i = m + 1
    BY <1>5, <2>1 DEF n, C
  <2>2. CASE i \in 1 .. m
    BY <1>3, <1>5, <1>6, <2>2 DEF D
  <2> QED BY <2>1, <2>2
<1> QED
  BY <1>2, <1>4, <1>7 DEF HasFirst, p, n, C

\* An object of Objects(T) has the fields of T, each with a value of its type.
LEMMA ObjectsHave ==
  ASSUME NEW T \in DOMAIN Classes, NEW o \in Objects(T)
  PROVE  /\ HasFields(T, o)
         /\ \A i \in DOMAIN Classes[T] : o[Classes[T][i].name] \in Values(Classes[T][i])
<1> DEFINE n == Len(Classes[T])
<1>1. n \in Nat /\ DOMAIN Classes[T] = 1 .. n
  BY Numbers
<1>2. PICK s : Makes(T, s) /\ Objects(T) = s[n]
  BY Making
<1> DEFINE S == {m \in 0 .. n : \A p \in s[m] : HasFirst(T, m, p)}
<1> HIDE DEF n
<1>3. 0 \in S
  BY <1>1, <1>2, FirstNone DEF Makes
<1>4. ASSUME NEW m \in 0 .. n - 1, m \in S PROVE m + 1 \in S
  <2>1. m \in Nat /\ m + 1 \in 1 .. n
    BY <1>1
  <2>2. s[m + 1] = Extended(s[m], Classes[T][m + 1])
    BY <1>1, <1>2, <2>1 DEF Makes, n
  <2>3. ASSUME NEW p \in s[m + 1] PROVE HasFirst(T, m + 1, p)
    <3>1. PICK q \in s[m], v \in Values(Classes[T][m + 1]) : p = With(q, Classes[T][m + 1].name, v)
      BY <2>2 DEF Extended
    <3> QED BY <1>1, <1>4, <2>1, <3>1, FirstMore
  <2> QED BY <2>1, <2>3
<1>5. \A m \in 0 .. n : m \in S
  <2> HIDE DEF S
  <2> QED BY <1>1, <1>3, <1>4, Counting
<1>6. HasFirst(T, n, o)
  BY <1>1, <1>2, <1>5
<1>7. {Classes[T][i].name : i \in 1 .. n} = Names(T)
  BY <1>1 DEF Names, ToSet
<1> QED
  BY <1>1, <1>6, <1>7 DEF HasFirst, HasFields

\* The objects the calls carry are objects the round trip is about.
LEMMA ObjectsAre ==
  ASSUME NEW T \in DOMAIN Classes, NEW o \in Objects(T)
  PROVE  IsObject(T, o) /\ Typed(T, o)
<1>1. HasFields(T, o)
  BY ObjectsHave
<1>2. \A i \in DOMAIN Classes[T] : o[Classes[T][i].name] \in Values(Classes[T][i])
  BY ObjectsHave
<1>3. \A i \in DOMAIN Classes[T] :
        /\ Fits(Classes[T][i], o[Classes[T][i].name])
        /\ \A x \in Contents(Classes[T][i], o[Classes[T][i].name]) : IsGroup(Classes[T][i].of, x)
  BY <1>2, ValuesAre
<1>4. DOMAIN o = Names(T) /\ DOMAIN New(T) = Names(T)
  BY <1>1 DEF HasFields, IsOn, New
<1>5. ASSUME NEW f \in ToSet(Classes[T]) PROVE o[f.name] \in Values(f)
  BY <1>2 DEF ToSet
<1> QED
  BY <1>1, <1>3, <1>4, <1>5 DEF IsObject, Shaped, Typed

-----------------------------------------------------------------------------
(* The page's stubs and the server's methods.                              *)

ExtensionPaths == {"ExtensionHostService_ListExtensions", "ExtensionHostService_Connect",
  "ExtensionHostService_EditExtension", "ExtensionHostService_SubmitForm",
  "ExtensionHostService_Close", "ExtensionHostService_GetUI"}
TunnelPaths == {"TunnelService_Start", "TunnelService_Stop", "TunnelService_Status", "TunnelService_Exit"}
CorePaths == {"Core_Start", "Core_CoreInfoListener", "Core_OutboundsInfo", "Core_MainOutboundsInfo",
  "Core_GetSystemInfo", "Core_Setup", "Core_Parse", "Core_ChangeRostovVPNSettings",
  "Core_StartService", "Core_Stop", "Core_Restart", "Core_SelectOutbound", "Core_UrlTest",
  "Core_GenerateWarpConfig", "Core_GetSystemProxyStatus", "Core_SetSystemProxyEnabled", "Core_LogListener"}

\* d is the descriptor of a method whose messages have classes.
IsMethod(d) == d.request \in DOMAIN Classes /\ d.response \in DOMAIN Classes

\* The domain of two functions merged.
LEMMA MergeIs ==
  ASSUME NEW f, NEW g
  PROVE  /\ DOMAIN Merge(f, g) = DOMAIN f \cup DOMAIN g
         /\ \A x \in DOMAIN f : Merge(f, g)[x] = f[x]
         /\ \A x \in DOMAIN g : x \notin DOMAIN f => Merge(f, g)[x] = g[x]
  BY DEF Merge

\* The first function goes first.
LEMMA MergeLeft ==
  ASSUME NEW f, NEW g, NEW x, x \in DOMAIN f
  PROVE  Merge(f, g)[x] = f[x]
  BY DEF Merge

\* The second is taken where the first is not defined.
LEMMA MergeRight ==
  ASSUME NEW f, NEW g, NEW x, x \in DOMAIN g, x \notin DOMAIN f
  PROVE  Merge(f, g)[x] = g[x]
  BY DEF Merge

\* The methods of the services.
LEMMA Domains ==
  /\ DOMAIN ExtensionMethods = ExtensionPaths /\ DOMAIN CoreMethods = CorePaths
  /\ DOMAIN HelloMethods = {"Hello_SayHello"} /\ DOMAIN TunnelMethods = TunnelPaths
<1>1. DOMAIN ExtensionMethods = ExtensionPaths
  BY DEF ExtensionMethods, ExtensionPaths
<1>2. DOMAIN CoreMethods = CorePaths
  BY DEF CoreMethods, CorePaths
<1>3. DOMAIN HelloMethods = {"Hello_SayHello"} /\ DOMAIN TunnelMethods = TunnelPaths
  BY DEF HelloMethods, TunnelMethods, TunnelPaths
<1> QED BY <1>1, <1>2, <1>3

\* The page's methods.
LEMMA StubPaths ==
  DOMAIN Stubs = ExtensionPaths \cup CorePaths \cup {"Hello_SayHello"} \cup TunnelPaths
  BY DEF Stubs, ExtensionPaths, CorePaths, TunnelPaths

\* The page's stubs of the extension service describe the methods it has.
LEMMA ExtensionStubs ==
  ASSUME NEW m \in ExtensionPaths
  PROVE  Stubs[m] = ExtensionMethods[m]
  BY DEF ExtensionPaths, Stubs, ExtensionMethods, ListExtensions, Connect, EditExtension, SubmitForm, Close, GetUI

\* The page's stubs of the core service describe the methods it has.
LEMMA CoreStubs ==
  ASSUME NEW m \in CorePaths
  PROVE  Stubs[m] = CoreMethods[m]
  BY DEF CorePaths, Stubs, CoreMethods, Start, CoreInfoListener, OutboundsInfo, MainOutboundsInfo,
     GetSystemInfo, Setup, Parse, ChangeRostovVPNSettings, StartService, Stop, Restart, SelectOutbound,
     UrlTest, GenerateWarpConfig, GetSystemProxyStatus, SetSystemProxyEnabled, LogListener

\* The messages of the extension service have classes.
LEMMA ExtensionClasses == \A m \in ExtensionPaths : IsMethod(ExtensionMethods[m])
  BY DEF ExtensionPaths, ExtensionMethods, IsMethod, Unary, Streaming, Classes

\* The messages of the core service have classes.
LEMMA CoreClasses == \A m \in CorePaths : IsMethod(CoreMethods[m])
  BY DEF CorePaths, CoreMethods, IsMethod, Unary, Streaming, Classes

\* The messages of the tunnel service have classes.
LEMMA TunnelClasses == \A m \in TunnelPaths : IsMethod(TunnelMethods[m])
  BY DEF TunnelPaths, TunnelMethods, IsMethod, Unary, Classes

\* Every stub of the page describes the method the server has under its path:
\* the same service, the same messages, and a stream where it streams.
THEOREM StubsAgree ==
  ASSUME NEW m \in DOMAIN Stubs
  PROVE  Stubs[m] = Methods[m] /\ IsMethod(Stubs[m])
<1> DEFINE L == Merge(ExtensionMethods, CoreMethods)
           R == Merge(HelloMethods, TunnelMethods)
<1>0. /\ DOMAIN L = ExtensionPaths \cup CorePaths /\ DOMAIN R = {"Hello_SayHello"} \cup TunnelPaths
      /\ \A x \in DOMAIN L : Methods[x] = L[x]
      /\ \A x \in DOMAIN R : x \notin DOMAIN L => Methods[x] = R[x]
  BY MergeIs, Domains DEF Methods
<1>1. ASSUME m \in ExtensionPaths PROVE Methods[m] = ExtensionMethods[m]
  <2>1. L[m] = ExtensionMethods[m]
    BY <1>1, MergeLeft, Domains, Zenon
  <2> HIDE DEF L, R
  <2> QED BY <1>0, <1>1, <2>1
<1>2. ASSUME m \in CorePaths PROVE Methods[m] = CoreMethods[m]
  <2>1. m \notin ExtensionPaths
    BY <1>2 DEF CorePaths, ExtensionPaths
  <2>2. L[m] = CoreMethods[m]
    BY <1>2, <2>1, MergeRight, Domains, Zenon
  <2> HIDE DEF L, R
  <2> QED BY <1>0, <1>2, <2>2
<1>3. ASSUME m = "Hello_SayHello" PROVE Methods[m] = HelloMethods[m]
  <2>1. m \notin ExtensionPaths /\ m \notin CorePaths
    BY <1>3 DEF CorePaths, ExtensionPaths
  <2>2. R[m] = HelloMethods[m]
    BY <1>3, MergeLeft, Domains, Zenon
  <2> HIDE DEF L, R
  <2> QED BY <1>0, <1>3, <2>1, <2>2
<1>4. ASSUME m \in TunnelPaths PROVE Methods[m] = TunnelMethods[m]
  <2>1. m \notin ExtensionPaths /\ m \notin CorePaths /\ m # "Hello_SayHello"
    BY <1>4 DEF CorePaths, ExtensionPaths, TunnelPaths
  <2>2. R[m] = TunnelMethods[m]
    BY <1>4, <2>1, MergeRight, Domains, Zenon
  <2> HIDE DEF L, R
  <2> QED BY <1>0, <1>4, <2>1, <2>2
<1> HIDE DEF L, R
<1>5. CASE m \in ExtensionPaths
  BY <1>1, <1>5, ExtensionStubs, ExtensionClasses
<1>6. CASE m \in CorePaths
  BY <1>2, <1>6, CoreStubs, CoreClasses
<1>7. CASE m = "Hello_SayHello"
  <2>1. Stubs[m] = HelloMethods[m] /\ IsMethod(Stubs[m])
    BY <1>7 DEF Stubs, HelloMethods, SayHello, IsMethod, Unary, Classes
  <2> QED BY <1>3, <1>7, <2>1
<1>8. CASE m \in TunnelPaths
  <2>1. Stubs[m] = TunnelMethods[m]
    BY <1>8 DEF TunnelPaths, Stubs, TunnelMethods, TunnelStart, TunnelStop, TunnelStatus, TunnelExit
  <2> QED BY <1>4, <1>8, <2>1, TunnelClasses
<1> QED
  BY <1>5, <1>6, <1>7, <1>8, StubPaths

\* The reverse order has every field once.
LEMMA ReversePermutes ==
  ASSUME NEW T \in DOMAIN Classes
  PROVE  Permutes(T, Reverse(Ascending(T)))
<1> DEFINE n == Len(Classes[T])
           r == Reverse(Ascending(T))
<1>1. n \in Nat /\ DOMAIN Classes[T] = 1 .. n
  BY Numbers
<1>2. Ascending(T) = [i \in 1 .. n |-> i] /\ Len(Ascending(T)) = n
  BY <1>1 DEF Ascending
<1>3. r = [i \in 1 .. n |-> Ascending(T)[(n - i) + 1]]
  BY <1>2 DEF Reverse
<1>4. r = [i \in 1 .. n |-> (n - i) + 1]
  <2> HIDE DEF n
  <2>1. \A i \in 1 .. n : (n - i) + 1 \in 1 .. n
    BY <1>1
  <2>2. \A i \in 1 .. n : Ascending(T)[(n - i) + 1] = (n - i) + 1
    BY <1>2, <2>1
  <2> QED BY <1>3, <2>2
<1> HIDE DEF r, n
<1>5. \A i \in 1 .. n : r[(n - i) + 1] = i /\ (n - i) + 1 \in 1 .. n
  BY <1>1, <1>4
<1> QED
  <2>1. r \in [1 .. n -> 1 .. n] /\ DOMAIN r = 1 .. n
    BY <1>1, <1>4
  <2>2. \A k, l \in 1 .. n : r[k] = r[l] => k = l
    BY <1>1, <1>4
  <2>3. \A i \in 1 .. n : \E k \in 1 .. n : r[k] = i
    BY <1>5
  <2>4. Permutes(T, r)
    BY <1>1, <2>1, <2>2, <2>3 DEF Permutes
  <2> QED BY <2>4 DEF r

-----------------------------------------------------------------------------
(* The calls.                                                              *)

\* A request the page wrote is read as it was.
LEMMA RequestRead ==
  ASSUME NEW m \in DOMAIN Stubs, NEW o \in Objects(Stubs[m].request)
  PROVE  LET T == Stubs[m].request
         IN  ReadInto("server", T, New(T), Write("page", T, o, Ascending(T))) = o
<1>1. Stubs[m].request \in DOMAIN Classes
  BY StubsAgree DEF IsMethod
<1> QED
  BY <1>1, ObjectsAre, AscendingPermutes, RoundTrip

\* An answer is read as it was, however the server wrote it.
LEMMA AnswerRead ==
  ASSUME NEW T \in DOMAIN Classes, NEW o \in Objects(T), NEW w \in Encodings(T, o)
  PROVE  ReadInto("page", T, New(T), w) = o
<1> DEFINE up == Ascending(T)
           n  == Len(up) + 1
           x  == ""
<1>1. IsObject(T, o) /\ Permutes(T, up) /\ Permutes(T, Reverse(up))
  BY ObjectsAre, AscendingPermutes, ReversePermutes
<1>2. n \notin DOMAIN Classes[T]
  BY Numbers DEF Ascending
<1> HIDE DEF up, n, x
<1>3. \/ w = Write("server", T, o, up) \/ w = Write("server", T, o, Reverse(up))
      \/ w = Append(Write("server", T, o, up), Entry(n, x))
  BY DEF Encodings, up, n, x
<1>4. CASE w = Write("server", T, o, up)
  BY <1>1, <1>4, RoundTrip
<1>5. CASE w = Write("server", T, o, Reverse(up))
  BY <1>1, <1>5, RoundTrip
<1>6. CASE w = Append(Write("server", T, o, up), Entry(n, x))
  <2> DEFINE later == Append(Write("server", T, o, up), Entry(n, x))
  <2>1. ReadInto("page", T, New(T), later) = o
    BY <1>1, <1>2, RoundTripLater
  <2> QED BY <1>6, <2>1
<1> QED
  BY <1>3, <1>4, <1>5, <1>6

\* The page's stage of the call, and the methods the page may call.
Staged ==
  /\ kind \in {"core", "hello", "tunnel"} /\ method \in DOMAIN Stubs \cup {None}
  /\ page \in {"idle", "waiting", "done", "failed"}
  /\ handler \in {"none", "running", "returned"}
  /\ transit \in {"none", "request", "answer"}
  /\ page # "idle" => method \in DOMAIN Stubs
  /\ page = "idle" => handler = "none" /\ transit = "none" /\ got = None
  /\ handler = "running" => page = "waiting"
  /\ transit # "none" => page = "waiting"

\* The messages of the call are read in turn: all but the one under way.
Counted ==
  /\ answers \in 0 .. MaxAnswers /\ delivered \in 0 .. answers
  /\ page = "idle" => answers = 0
  /\ page \in {"idle", "waiting", "done"} =>
       answers = IF transit = "answer" THEN delivered + 1 ELSE delivered
  /\ handler = "running" /\ ~Methods[method].stream => answers = 0

\* What is under way is an object of the method's class and nothing was read
\* of it yet; what was read is what was under way.
Carried ==
  /\ transit = "request" => /\ handler = "none" /\ answers = 0 /\ got = None
                            /\ sent \in Objects(Stubs[method].request)
  /\ transit = "answer" => /\ answers > 0 /\ got = None
                           /\ sent \in Objects(Methods[method].response)
  /\ got # None => /\ got = sent
                   /\ got \in Objects(IF answers = 0 THEN Methods[method].request
                                                     ELSE Stubs[method].response)

RpcInv == Staged /\ Counted /\ Carried

\* The invariant holds where a page makes no call yet.
LEMMA InitInv == Init => RpcInv
  BY MaxAnswersAssumption DEF Init, Idle, RpcInv, Staged, Counted, Carried

\* Every step keeps the invariant.
LEMMA StepInv == RpcInv /\ [Next]_vars => RpcInv'
<1> SUFFICES ASSUME RpcInv, [Next]_vars PROVE RpcInv'
  OBVIOUS
<1> USE MaxAnswersAssumption
<1>1. ASSUME NEW m \in DOMAIN Stubs, NEW o \in Objects(Stubs[m].request), Call(m, o) PROVE RpcInv'
  BY <1>1 DEF RpcInv, Staged, Counted, Carried, Call
<1>2. CASE Serve
  <2>0. method \in DOMAIN Stubs /\ Methods[method] = Stubs[method] /\ sent \in Objects(Stubs[method].request)
    BY <1>2, StubsAgree DEF RpcInv, Staged, Carried, Serve
  <2>1. got' = sent
    BY <1>2, <2>0, RequestRead DEF Serve, Request
  <2>2. Staged'
    BY <1>2 DEF RpcInv, Staged, Carried, Serve
  <2>3. Counted'
    BY <1>2 DEF RpcInv, Counted, Carried, Serve, Staged
  <2>4. Carried'
    BY <1>2, <2>0, <2>1 DEF RpcInv, Carried, Serve
  <2> QED BY <2>2, <2>3, <2>4 DEF RpcInv
<1>3. CASE Refuse
  BY <1>3 DEF RpcInv, Staged, Counted, Carried, Refuse
<1>4. ASSUME NEW o \in Objects(Methods[method].response), Answer(o) PROVE RpcInv'
  <2>1. Staged'
    BY <1>4 DEF RpcInv, Staged, Answer
  <2>2. Counted'
    BY <1>4 DEF RpcInv, Counted, Staged, Answer
  <2>3. Carried'
    BY <1>4 DEF RpcInv, Counted, Carried, Answer
  <2> QED BY <2>1, <2>2, <2>3 DEF RpcInv
<1>5. CASE Deliver
  <2> DEFINE T == Stubs[method].response
  <2>0. /\ method \in DOMAIN Stubs /\ Methods[method] = Stubs[method] /\ T \in DOMAIN Classes
        /\ sent \in Objects(T) /\ answers > 0 /\ page = "waiting"
    BY <1>5, StubsAgree DEF RpcInv, Staged, Carried, Deliver, DeliverInto, IsMethod
  <2>1. got' = sent
    BY <1>5, <2>0, AnswerRead DEF Deliver, DeliverInto
  <2>2. Staged'
    BY <1>5, <2>0 DEF RpcInv, Staged, Counted, Deliver, DeliverInto, Carried
  <2>3. Counted'
    BY <1>5 DEF RpcInv, Counted, Staged, Deliver, DeliverInto
  <2>4. Carried'
    BY <1>5, <2>0, <2>1 DEF RpcInv, Carried, Deliver, DeliverInto
  <2> QED BY <2>2, <2>3, <2>4 DEF RpcInv
<1>6. CASE Return
  BY <1>6 DEF RpcInv, Staged, Counted, Carried, Return
<1>7. CASE End
  BY <1>7 DEF RpcInv, Staged, Counted, Carried, End
<1>8. CASE Fail
  BY <1>8 DEF RpcInv, Staged, Counted, Carried, Fail
<1>9. CASE NextCall
  BY <1>9 DEF RpcInv, Staged, Counted, Carried, NextCall
<1>10. CASE UNCHANGED vars
  BY <1>10 DEF RpcInv, Staged, Counted, Carried, vars
<1> QED
  BY <1>1, <1>2, <1>3, <1>4, <1>5, <1>6, <1>7, <1>8, <1>9, <1>10 DEF Next

\* The invariant holds in every behaviour.
LEMMA Invariance == Spec => []RpcInv
  BY InitInv, StepInv, PTL DEF Spec

\* Whatever either side reads has the class of the method and a value of its
\* type in every field, and a page reads no more messages than were sent.
THEOREM TypeCorrect == Spec => []TypeOK
<1>1. ASSUME RpcInv PROVE TypeOK
  <2>1. ASSUME got # None
        PROVE  Typed(IF answers = 0 THEN Methods[method].request ELSE Stubs[method].response, got)
    <3>1. method \in DOMAIN Stubs
      BY <1>1, <2>1 DEF RpcInv, Staged
    <3>2. /\ Methods[method] = Stubs[method] /\ Stubs[method].request \in DOMAIN Classes
          /\ Stubs[method].response \in DOMAIN Classes
      BY <3>1, StubsAgree DEF IsMethod
    <3>3. got \in Objects(IF answers = 0 THEN Methods[method].request ELSE Stubs[method].response)
      BY <1>1, <2>1 DEF RpcInv, Carried
    <3> QED BY <3>2, <3>3, ObjectsAre
  <2>2. 0 <= delivered /\ delivered <= answers /\ answers <= MaxAnswers
    BY <1>1, MaxAnswersAssumption DEF RpcInv, Counted
  <2> QED BY <1>1, <2>1, <2>2 DEF TypeOK, RpcInv, Staged
<1> QED
  BY <1>1, Invariance, PTL

\* The handler of a call reads what the page set, under every name, for any
\* request of any method (serializeBinary, MethodDescriptor).
THEOREM RequestArrivesEver == Spec => []RequestArrives
<1>1. RpcInv => RequestArrives
  BY DEF RpcInv, Carried, RequestArrives
<1> QED
  BY <1>1, Invariance, PTL

\* The page reads what the handler answered, in a single answer and in every
\* message of a stream, whatever the stream carried before.
THEOREM ResponseArrivesEver == Spec => []ResponseArrives
<1>1. RpcInv => ResponseArrives
  BY DEF RpcInv, Carried, ResponseArrives
<1> QED
  BY <1>1, Invariance, PTL

\* A call that ended well on the page gave it every message the handler sent.
THEOREM NothingDroppedEver == Spec => []NothingDropped
<1>1. RpcInv => NothingDropped
  BY DEF RpcInv, Staged, Counted, NothingDropped
<1> QED
  BY <1>1, Invariance, PTL
=============================================================================
