---------------------------- MODULE RpcMessages ----------------------------
(***************************************************************************)
(* The messages of the RPC services as the web client's generated classes  *)
(* know them (extension/html/rpc/*_pb.js), and as the server does (the     *)
(* .proto files).                                                          *)
(*                                                                         *)
(* A class is the sequence of its fields, in the order of their numbers,   *)
(* which start at 1 and leave none out.  Its accessors, its reader and its *)
(* writer say the same of every field of a kind, so the kind is all a      *)
(* field has besides its name: the kind fixes the default of the getter,   *)
(* the test of the writer and the method of the reader.  A name is a value *)
(* here: no text is put together from it.                                  *)
(*                                                                         *)
(* The server's numbers are written down a second time, from the .proto    *)
(* files: the page's classes and the server's code are generated apart and *)
(* both checked in, and an object travels by number, never by name.        *)
(***************************************************************************)
EXTENDS Naturals, SequencesExt

CONSTANTS
  Unset,            \* what the getter of an embedded message returns for none
  Texts, Integers32,\* the strings and the numbers a field may hold
  MaxEntries        \* bound: entries of a repeated field

ASSUME FieldAssumption ==
  /\ "" \in Texts /\ Texts # {""}
  /\ 0 \in Integers32 /\ Integers32 # {0}
  /\ MaxEntries \in Nat

\* f, and g where f is not defined.
Merge(f, g) == [x \in DOMAIN f \cup DOMAIN g |-> IF x \in DOMAIN f THEN f[x] ELSE g[x]]

\* f with v at x, which f may not have had.
With(f, x, v) == [y \in DOMAIN f \cup {x} |-> IF y = x THEN v ELSE f[y]]

F(name, kind, of) == [name |-> name, kind |-> kind, of |-> of]

Str(name)      == F(name, "string", "")
Bool(name)     == F(name, "bool", "")
Num(name)      == F(name, "int", "")
Enum(name, E)  == F(name, "enum", E)
Msg(name, T)   == F(name, "message", T)
Rep(name, T)   == F(name, "repeated", T)
MapOf(name)    == F(name, "map", "")

-----------------------------------------------------------------------------
(* Enumerations: the numbers from 0 to the last.                           *)

ResponseCode          == 0 .. 1
ExtensionResponseType == 0 .. 3
CoreState             == 0 .. 3
MessageType           == 0 .. 13
LogLevel              == 0 .. 4
LogType               == 0 .. 2

Enums == [ResponseCode |-> ResponseCode, ExtensionResponseType |-> ExtensionResponseType,
          CoreState |-> CoreState, MessageType |-> MessageType,
          LogLevel |-> LogLevel, LogType |-> LogType]

-----------------------------------------------------------------------------
(* base_pb.js *)

HelloRequest  == <<Str("name")>>
HelloResponse == <<Str("message")>>
Empty         == <<>>

(* extension_pb.js *)

ExtensionActionResult ==
  <<Str("extension_id"), Enum("code", "ResponseCode"), Str("message")>>

ExtensionList == <<Rep("extensions", "Extension")>>

EditExtensionRequest == <<Str("extension_id"), Bool("enable")>>

Extension == <<Str("id"), Str("title"), Str("description"), Bool("enable")>>

ExtensionRequest == <<Str("extension_id"), MapOf("data")>>

SendExtensionDataRequest == <<Str("extension_id"), Str("button"), MapOf("data")>>

ExtensionResponse ==
  <<Enum("type", "ExtensionResponseType"), Str("extension_id"), Str("json_ui")>>

(* rostovvpn_pb.js *)

CoreInfoResponse ==
  <<Enum("core_state", "CoreState"), Enum("message_type", "MessageType"), Str("message")>>

StartRequest ==
  <<Str("config_path"), Str("config_content"), Bool("disable_memory_limit"),
    Bool("delay_start"), Bool("enable_old_command_server"), Bool("enable_raw_config")>>

SetupRequest == <<Str("base_path"), Str("working_path"), Str("temp_path")>>

Response == <<Enum("response_code", "ResponseCode"), Str("message")>>

SystemInfo ==
  <<Num("memory"), Num("goroutines"), Num("connections_in"), Num("connections_out"),
    Bool("traffic_available"), Num("uplink"), Num("downlink"), Num("uplink_total"),
    Num("downlink_total")>>

OutboundGroupItem ==
  <<Str("tag"), Str("type"), Num("url_test_time"), Num("url_test_delay")>>

OutboundGroup ==
  <<Str("tag"), Str("type"), Str("selected"), Rep("items", "OutboundGroupItem")>>

OutboundGroupList == <<Rep("items", "OutboundGroup")>>

WarpAccount == <<Str("account_id"), Str("access_token")>>

WarpWireguardConfig ==
  <<Str("private_key"), Str("local_address_ipv4"), Str("local_address_ipv6"),
    Str("peer_public_key"), Str("client_id")>>

WarpGenerationResponse ==
  <<Msg("account", "WarpAccount"), Str("log"), Msg("config", "WarpWireguardConfig")>>

SystemProxyStatus == <<Bool("available"), Bool("enabled")>>

ParseRequest == <<Str("content"), Str("config_path"), Str("temp_path"), Bool("debug")>>

ParseResponse == <<Enum("response_code", "ResponseCode"), Str("content"), Str("message")>>

ChangeRostovVPNSettingsRequest == <<Str("rostovvpn_settings_json")>>

GenerateConfigRequest == <<Str("path"), Str("temp_path"), Bool("debug")>>

GenerateConfigResponse == <<Str("config_content")>>

(* As if the two sides had been generated from different files.            *)
SelectOutboundSwapped == <<Str("outbound_tag"), Str("group_tag")>>

SelectOutboundRequest == <<Str("group_tag"), Str("outbound_tag")>>

UrlTestRequest == <<Str("group_tag")>>

GenerateWarpConfigRequest == <<Str("license_key"), Str("account_id"), Str("access_token")>>

SetSystemProxyEnabledRequest == <<Bool("is_enabled")>>

LogMessage == <<Enum("level", "LogLevel"), Enum("type", "LogType"), Str("message")>>

StopRequest == <<>>

TunnelStartRequest ==
  <<Bool("ipv6"), Num("server_port"), Bool("strict_route"),
    Bool("endpoint_independent_nat"), Str("stack")>>

TunnelResponse == <<Str("message")>>

Classes ==
  [HelloRequest |-> HelloRequest, HelloResponse |-> HelloResponse, Empty |-> Empty,
   ExtensionActionResult |-> ExtensionActionResult, ExtensionList |-> ExtensionList,
   EditExtensionRequest |-> EditExtensionRequest, Extension |-> Extension,
   ExtensionRequest |-> ExtensionRequest, ExtensionResponse |-> ExtensionResponse,
   SendExtensionDataRequest |-> SendExtensionDataRequest,
   CoreInfoResponse |-> CoreInfoResponse, StartRequest |-> StartRequest,
   SetupRequest |-> SetupRequest, Response |-> Response, SystemInfo |-> SystemInfo,
   OutboundGroupItem |-> OutboundGroupItem, OutboundGroup |-> OutboundGroup,
   OutboundGroupList |-> OutboundGroupList, WarpAccount |-> WarpAccount,
   WarpWireguardConfig |-> WarpWireguardConfig,
   WarpGenerationResponse |-> WarpGenerationResponse,
   SystemProxyStatus |-> SystemProxyStatus, ParseRequest |-> ParseRequest,
   ParseResponse |-> ParseResponse, GenerateConfigRequest |-> GenerateConfigRequest,
   ChangeRostovVPNSettingsRequest |-> ChangeRostovVPNSettingsRequest,
   GenerateConfigResponse |-> GenerateConfigResponse, UrlTestRequest |-> UrlTestRequest,
   SelectOutboundRequest |-> SelectOutboundRequest, LogMessage |-> LogMessage,
   GenerateWarpConfigRequest |-> GenerateWarpConfigRequest, StopRequest |-> StopRequest,
   SetSystemProxyEnabledRequest |-> SetSystemProxyEnabledRequest,
   TunnelStartRequest |-> TunnelStartRequest, TunnelResponse |-> TunnelResponse]

-----------------------------------------------------------------------------
(* The server's numbers.                                                    *)

BaseProto ==
  [HelloRequest |-> [name |-> 1], HelloResponse |-> [message |-> 1], Empty |-> <<>>]

ExtensionProto ==
  [ExtensionActionResult |-> [extension_id |-> 1, code |-> 2, message |-> 3],
   ExtensionList |-> [extensions |-> 1],
   EditExtensionRequest |-> [extension_id |-> 1, enable |-> 2],
   Extension |-> [id |-> 1, title |-> 2, description |-> 3, enable |-> 4],
   ExtensionRequest |-> [extension_id |-> 1, data |-> 2],
   SendExtensionDataRequest |-> [extension_id |-> 1, button |-> 2, data |-> 3],
   ExtensionResponse |-> [type |-> 1, extension_id |-> 2, json_ui |-> 3]]

RostovvpnProto ==
  [CoreInfoResponse |-> [core_state |-> 1, message_type |-> 2, message |-> 3],
   StartRequest |->
     [config_path |-> 1, config_content |-> 2, disable_memory_limit |-> 3,
      delay_start |-> 4, enable_old_command_server |-> 5, enable_raw_config |-> 6],
   SetupRequest |-> [base_path |-> 1, working_path |-> 2, temp_path |-> 3],
   Response |-> [response_code |-> 1, message |-> 2],
   SystemInfo |->
     [memory |-> 1, goroutines |-> 2, connections_in |-> 3, connections_out |-> 4,
      traffic_available |-> 5, uplink |-> 6, downlink |-> 7, uplink_total |-> 8,
      downlink_total |-> 9],
   OutboundGroupItem |->
     [tag |-> 1, type |-> 2, url_test_time |-> 3, url_test_delay |-> 4],
   OutboundGroup |-> [tag |-> 1, type |-> 2, selected |-> 3, items |-> 4],
   OutboundGroupList |-> [items |-> 1],
   WarpAccount |-> [account_id |-> 1, access_token |-> 2],
   WarpWireguardConfig |->
     [private_key |-> 1, local_address_ipv4 |-> 2, local_address_ipv6 |-> 3,
      peer_public_key |-> 4, client_id |-> 5],
   WarpGenerationResponse |-> [account |-> 1, log |-> 2, config |-> 3],
   SystemProxyStatus |-> [available |-> 1, enabled |-> 2],
   ParseRequest |-> [content |-> 1, config_path |-> 2, temp_path |-> 3, debug |-> 4],
   ParseResponse |-> [response_code |-> 1, content |-> 2, message |-> 3],
   ChangeRostovVPNSettingsRequest |-> [rostovvpn_settings_json |-> 1],
   GenerateConfigRequest |-> [path |-> 1, temp_path |-> 2, debug |-> 3],
   GenerateConfigResponse |-> [config_content |-> 1],
   SelectOutboundRequest |-> [group_tag |-> 1, outbound_tag |-> 2],
   UrlTestRequest |-> [group_tag |-> 1],
   GenerateWarpConfigRequest |->
     [license_key |-> 1, account_id |-> 2, access_token |-> 3],
   SetSystemProxyEnabledRequest |-> [is_enabled |-> 1],
   LogMessage |-> [level |-> 1, type |-> 2, message |-> 3],
   StopRequest |-> <<>>,
   TunnelStartRequest |->
     [ipv6 |-> 1, server_port |-> 2, strict_route |-> 3,
      endpoint_independent_nat |-> 4, stack |-> 5],
   TunnelResponse |-> [message |-> 1]]

Proto == Merge(BaseProto, Merge(ExtensionProto, RostovvpnProto))

(* The number of the i-th field of class T, to the page and to the server. *)
Number(side, T, i) == IF side = "page" THEN i ELSE Proto[T][Classes[T][i].name]

-----------------------------------------------------------------------------
(* Objects: functions from the names of a class's fields to their values.   *)

Default(f) ==
  CASE f.kind = "string"             -> ""
    [] f.kind = "bool"               -> FALSE
    [] f.kind \in {"int", "enum"}    -> 0
    [] f.kind = "message"            -> Unset
    [] f.kind \in {"repeated", "map"} -> <<>>

Names(T)    == {f.name : f \in ToSet(Classes[T])}
Field(T, n) == CHOOSE f \in ToSet(Classes[T]) : f.name = n

(* new T(): every getter returns its default.                              *)
New(T) == [n \in Names(T) |-> Default(Field(T, n))]

(* What a field of an object with every field set holds: full is such an    *)
(* object of the embedded class.                                           *)
FullValue(f, full) ==
  LET text == CHOOSE t \in Texts : t # ""
  IN  CASE f.kind = "string"   -> text
        [] f.kind = "bool"     -> TRUE
        [] f.kind = "int"      -> CHOOSE n \in Integers32 : n # 0
        [] f.kind = "enum"     -> 1
        [] f.kind = "message"  -> full
        [] f.kind = "repeated" -> <<full, New(f.of)>>
        [] f.kind = "map"      -> [k \in {"", text} |-> text]

(* An object with every field set, embedded ones down to the leaves.  The   *)
(* classes nest three deep: a list of groups of items.                     *)
FullItem(T)  == [n \in Names(T) |-> FullValue(Field(T, n), New(Field(T, n).of))]
FullGroup(T) == [n \in Names(T) |-> FullValue(Field(T, n), FullItem(Field(T, n).of))]
Full(T)      == [n \in Names(T) |-> FullValue(Field(T, n), FullGroup(Field(T, n).of))]

(* The values of a field: an embedded message is one of three.             *)
Values(f) ==
  CASE f.kind = "string"   -> Texts
    [] f.kind = "bool"     -> BOOLEAN
    [] f.kind = "int"      -> Integers32
    [] f.kind = "enum"     -> Enums[f.of]
    [] f.kind = "message"  -> {Unset, New(f.of), Full(f.of)}
    [] f.kind = "repeated" -> BoundedSeq({New(f.of), Full(f.of)}, MaxEntries)
    [] f.kind = "map"      -> UNION {[K -> Texts] : K \in {S \in SUBSET Texts : IsFiniteSet(S)}}

Objects(T) ==
  LET set[i \in 0 .. Len(Classes[T])] ==
        IF i = 0 THEN {<<>>}
        ELSE {With(o, Classes[T][i].name, v) : o \in set[i - 1], v \in Values(Classes[T][i])}
  IN  set[Len(Classes[T])]

-----------------------------------------------------------------------------
(* serializeBinaryToWriter: a message on the wire is a sequence of entries, *)
(* each a field's number and a value.                                      *)

Entry(n, v) == [number |-> n, value |-> v]

(* The writer leaves out a scalar at its default, an embedded message that  *)
(* is not set, and a list or a map without entries.                         *)
Skipped(f, v) == v = Default(f)

(* The order of the numbers, in which the writers put the fields.          *)
Ascending(T) == [i \in DOMAIN Classes[T] |-> i]

(* What is written of a field: a value, or one for each entry.             *)
Parts(f, v, Inner(_, _)) ==
  IF Skipped(f, v) THEN <<>>
  ELSE CASE f.kind = "message"  -> <<Inner(f.of, v)>>
         [] f.kind = "repeated" -> [j \in DOMAIN v |-> Inner(f.of, v[j])]
         [] f.kind = "map"      -> LET ks == SetToSeq(DOMAIN v)
                                   IN  [j \in DOMAIN ks |-> <<ks[j], v[ks[j]]>>]
         [] OTHER               -> <<v>>

(* The parts of the fields of T, one field after the other.                *)
Lay(side, T, parts, order) ==
  LET Entries(i) == LET ps == parts[i] IN [j \in DOMAIN ps |-> Entry(Number(side, T, i), ps[j])]
  IN  FlattenSeq([m \in DOMAIN order |-> Entries(order[m])])

(* The object o of class T, whose embedded messages Inner writes.          *)
WriteOver(side, T, o, order, Inner(_, _)) ==
  Lay(side, T,
      [i \in DOMAIN Classes[T] |-> Parts(Classes[T][i], o[Classes[T][i].name], Inner)], order)

WriteItem(side, T, o) ==
  LET Nothing(U, p) == <<>> IN WriteOver(side, T, o, Ascending(T), Nothing)
WriteGroup(side, T, o) ==
  LET Item(U, p) == WriteItem(side, U, p) IN WriteOver(side, T, o, Ascending(T), Item)
Write(side, T, o, order) ==
  LET Group(U, p) == WriteGroup(side, U, p) IN WriteOver(side, T, o, order, Group)

-----------------------------------------------------------------------------
(* deserializeBinaryFromReader.                                            *)

(* The fields of T with number n: one, or none.                            *)
Numbered(side, T, n) == {i \in DOMAIN Classes[T] : Number(side, T, i) = n}

(* As if the reader called setItems and setExtensions.                     *)
PutSets(f, old, v) ==
  IF f.kind = "map" THEN With(old, v[1], v[2]) ELSE v

(* What the reader makes of a field's old value: the setters replace it,    *)
(* addItems and addExtensions append, a map entry sets its key.             *)
Put(f, old, v) ==
  CASE f.kind = "repeated" -> Append(old, v)
    [] f.kind = "map"      -> With(old, v[1], v[2])
    [] OTHER               -> v

(* One entry is read into o: a number the class does not have is skipped.   *)
ReadEntry(side, T, o, e) ==
  LET is == Numbered(side, T, e.number)
      f  == Classes[T][CHOOSE i \in is : TRUE]
  IN  IF is = {} THEN o ELSE [o EXCEPT ![f.name] = Put(f, @, e.value)]

ReadEntries(side, T, o, w) ==
  LET read[k \in 0 .. Len(w)] ==
        IF k = 0 THEN o ELSE ReadEntry(side, T, read[k - 1], w[k])
  IN  read[Len(w)]

(* An embedded message is read into a new object of its class, by Inner.    *)
Embeds(f) == f.kind \in {"message", "repeated"}

Opened(side, T, w, Inner(_, _)) ==
  LET Open(e) == IF \E i \in Numbered(side, T, e.number) : Embeds(Classes[T][i])
                 THEN LET f == Classes[T][CHOOSE i \in Numbered(side, T, e.number) : TRUE]
                      IN  Entry(e.number, Inner(f.of, e.value))
                 ELSE e
  IN  [k \in DOMAIN w |-> Open(w[k])]

ReadItem(side, T, w) == ReadEntries(side, T, New(T), w)
ReadGroup(side, T, w) ==
  LET Item(U, x) == ReadItem(side, U, x)
  IN  ReadEntries(side, T, New(T), Opened(side, T, w, Item))
ReadInto(side, T, o, w) ==
  LET Group(U, x) == ReadGroup(side, U, x)
  IN  ReadEntries(side, T, o, Opened(side, T, w, Group))
=============================================================================
