-------------------------------- MODULE Wire --------------------------------
(***************************************************************************)
(* The frames that the service and the daemon exchange, and the four       *)
(* hand-written tables that carry them.  A frame is a JSON object.  On a   *)
(* gRPC stream it travels as JSON inside a typed payload; on a WebSocket   *)
(* it travels, for the types both sides list as field level, as numbered   *)
(* protobuf fields written by one program and read by the other; before    *)
(* the two have agreed on that, it travels as plain JSON text.  The        *)
(* receiver then parses the decoded object into a struct or a schema: the  *)
(* daemon ends its connection over a frame that does not parse, the        *)
(* service drops such a frame.                                             *)
(*                                                                         *)
(* A field's value is one of a few classes that the writers and the        *)
(* readers tell apart.  A nested field is named by its path, and a         *)
(* repeated message is represented by one element.                         *)
(***************************************************************************)
EXTENDS Naturals, Sequences, FiniteSets, TLC

VARIABLES
    transport,    \* "websocket" or "grpc"
    service,    \* the service's connection state
    daemonEnd,     \* "hello" until a hello_ack arrives, then "connected"; "torn"
    binary,     \* the daemon has received a binary frame (envelope_binary)
    wire,       \* the frame in flight, encoded
    sent,       \* the frame in flight, as its builder made it
    seen,       \* what the receiver's struct holds
    outcome     \* what became of the last frame

wireVars == <<transport, service, daemonEnd, binary, wire, sent, seen, outcome>>

----------------------------------------------------------------------------
(* Values and tables.                                                      *)

NotStrings == {"null", "nil", "true", "false", "zero", "small", "over16", "over32",
               "negative", "object", "list"}

IsString(v) == v \notin NotStrings

IsUnsigned(v) == v \in {"zero", "small", "over16", "over32"}

\* One field of a message: its number, its name and how it is written or read.
E(n, name, as) == {[n |-> <<n>>, field |-> name, as |-> as]}

\* Fields 1, 2, ... that are all strings.
Strs(names) == UNION {E(i, names[i], "string") : i \in 1..Len(names)}

\* A message inside field n.
Nested(n, name, as, table) ==
    E(n, name, as) \cup
    {[n |-> <<n>> \o e.n, field |-> name \o "." \o e.field, as |-> e.as] : e \in table}

Enumerations == {"stream_type", "operation_state", "stream_state", "reset_reason"}

WireType(as) ==
    IF as \in {"bool", "uint", "uint32", "int"} \cup Enumerations
    THEN "varint"
    ELSE "bytes"

----------------------------------------------------------------------------
(* The enumerations, as each side numbers them.                            *)

StreamTypes ==
    <<"terminal_interactive", "localhost_http_proxy", "file_read",
      "localhost_websocket_proxy", "local_llm_http">>

ServiceEnums ==
    [stream_type |-> StreamTypes,
     operation_state |-> <<"offered", "accepted", "rejected", "running", "succeeded",
                           "failed", "canceled", "unknown", "expired">>,
     stream_state |-> <<"opening", "open", "half_closed_local", "half_closed_remote",
                        "closed", "reset", "unknown", "expired">>,
     reset_reason |-> <<"canceled", "policy_denied", "transport_lost", "timeout",
                        "backpressure", "protocol_error", "local_error",
                        "remote_error">>]

DaemonEnums ==
    [stream_type |-> StreamTypes,
     operation_state |-> <<"offered", "accepted", "rejected", "running", "succeeded",
                           "failed", "canceled", "unknown", "expired">>,
     stream_state |-> <<"opening", "open", "half_closed_local", "half_closed_remote",
                        "closed", "reset", "unknown", "expired">>,
     reset_reason |-> <<"canceled", "policy_denied", "transport_lost", "timeout",
                        "backpressure", "protocol_error", "local_error",
                        "remote_error">>]

\* A word outside the enumeration has no number, and the field is not written.
Number(enum, word) ==
    IF \E i \in 1..Len(enum) : enum[i] = word
    THEN CHOOSE i \in 1..Len(enum) : enum[i] = word
    ELSE 0

----------------------------------------------------------------------------
(* Writers.  Whether a value is written at all, in each program.           *)

ServiceWrites(as, v) ==
    CASE as = "string" -> IsString(v) /\ v # "empty"
      [] as = "nullable" -> IsString(v)
      [] as = "bytes" -> IsString(v)
      [] as = "bool" -> v \in {"true", "false"}
      [] as \in {"uint", "uint32"} -> IsUnsigned(v)
      [] as = "int" -> IsUnsigned(v) \/ v = "negative"
      [] as = "json" -> v # "null"
      [] as \in {"map", "message"} -> v = "object"
      [] as \in {"messages", "strings"} -> v = "list"
      [] as \in Enumerations -> Number(ServiceEnums[as], v) # 0

DaemonWrites(as, v) ==
    CASE as = "string" -> IsString(v) /\ v # "empty"
      [] as = "bytes" -> IsString(v)
      [] as = "bool" -> v \in {"true", "false"}
      [] as = "uint" -> IsUnsigned(v)
      [] as = "uint32" -> IsUnsigned(v) /\ v # "over32"
      [] as = "json" -> v # "null"
      [] as = "map" -> v = "object"
      [] as = "message" -> v = "object"
      [] as \in {"messages", "strings"} -> v = "list"
      [] as \in Enumerations -> Number(DaemonEnums[as], v) # 0

----------------------------------------------------------------------------
(* The service's messages.                                                 *)

BudErrorOut ==
    Strs(<<"code", "message">>) \cup E(3, "retryable", "bool") \cup E(4, "details", "map")

OperationStatusOut ==
    E(1, "operation_id", "string") \cup E(2, "state", "operation_state") \cup
    Nested(3, "error", "message", BudErrorOut) \cup
    E(4, "operation_type", "string") \cup E(5, "updated_at", "string")

StreamStatusOut ==
    Strs(<<"stream_id", "operation_id">>) \cup E(3, "stream_type", "stream_type") \cup
    E(4, "state", "stream_state") \cup E(5, "send_offset", "uint") \cup
    E(6, "receive_offset", "uint") \cup E(7, "reset_reason", "reset_reason") \cup
    Nested(8, "error", "message", BudErrorOut) \cup E(9, "updated_at", "string")

EnsureConfigOut ==
    Strs(<<"shell", "cwd">>) \cup E(3, "env", "map") \cup
    E(4, "cols", "uint") \cup E(5, "rows", "uint")

AttachOut(third) ==
    Strs(<<"bud_id", "device_session_id", third>>) \cup E(4, "streams", "strings") \cup
    E(5, "max_chunk_bytes", "uint32") \cup E(6, "initial_credit_bytes", "uint")

ServiceEncodes ==
    [error |-> BudErrorOut,
     hello |-> Strs(<<"name", "os", "arch", "version", "installation_id", "token",
                      "bud_id">>) \cup E(8, "capabilities", "json"),
     hello_ack |-> Strs(<<"session_id", "bud_id">>) \cup
                   E(3, "heartbeat_sec", "uint") \cup E(4, "device_secret", "string"),
     hello_challenge |-> Strs(<<"nonce">>),
     hello_proof |-> Strs(<<"bud_id", "hmac">>),
     heartbeat |-> Strs(<<"session_id">>),
     heartbeat_ack |-> Strs(<<"session_id">>),
     terminal_ensure |-> E(1, "session_id", "string") \cup
                         Nested(2, "config", "message", EnsureConfigOut) \cup
                         E(3, "resume_from_offset", "uint"),
     terminal_status |-> Strs(<<"session_id", "state">>) \cup E(3, "info", "json"),
     terminal_input |-> E(1, "session_id", "string") \cup E(2, "data", "bytes") \cup
                        E(4, "input_seq", "uint"),
     terminal_resize |-> E(1, "session_id", "string") \cup E(2, "cols", "uint") \cup
                         E(3, "rows", "uint"),
     terminal_close |-> Strs(<<"session_id", "reason">>),
     terminal_send |-> Strs(<<"session_id", "request_id", "text">>) \cup
                       E(4, "submit", "bool") \cup E(5, "key", "string") \cup
                       E(9, "await", "string"),
     terminal_send_result |-> Strs(<<"session_id", "request_id">>) \cup
                              E(6, "error", "nullable") \cup
                              E(8, "dispatched", "bool") \cup E(9, "outcome", "json"),
     terminal_observe |-> Strs(<<"session_id", "request_id", "view">>) \cup
                          E(4, "lines", "int") \cup E(7, "await", "string") \cup
                          E(8, "quiet_ms", "uint"),
     terminal_observe_result |->
         Strs(<<"session_id", "request_id", "view">>) \cup E(4, "output", "bytes") \cup
         E(6, "lines_captured", "uint") \cup E(7, "changed", "bool") \cup
         E(10, "error", "nullable") \cup E(12, "mode", "string") \cup
         E(13, "integration", "string") \cup E(14, "alt_screen", "bool") \cup
         E(15, "cursor_row", "uint") \cup E(16, "cursor_col", "uint"),
     terminal_output |-> E(1, "session_id", "string") \cup E(3, "data", "bytes") \cup
                         E(4, "byte_offset", "uint"),
     terminal_event |-> Strs(<<"session_id", "event">>) \cup E(3, "data", "json"),
     reconnect_report |-> Strs(<<"bud_id", "device_session_id">>) \cup
                          Nested(3, "operations", "messages", OperationStatusOut) \cup
                          Nested(4, "streams", "messages", StreamStatusOut) \cup
                          E(5, "local_policy_version", "string") \cup
                          E(6, "terminal_sessions", "strings"),
     reconciliation_decision |->
         Nested(1, "operations", "messages", OperationStatusOut) \cup
         Nested(2, "streams", "messages", StreamStatusOut),
     data_attach |-> AttachOut("control_transport_session_id"),
     data_attach_ack |-> AttachOut("transport_session_id"),
     stream_data |-> E(1, "stream_id", "string") \cup
                     E(2, "stream_type", "stream_type") \cup E(3, "offset", "uint") \cup
                     E(4, "data", "bytes") \cup E(5, "end_stream", "bool"),
     stream_credit |-> E(1, "stream_id", "string") \cup
                       E(2, "receive_offset", "uint") \cup E(3, "credit_bytes", "uint"),
     stream_reset |-> E(1, "stream_id", "string") \cup
                      E(2, "reason", "reset_reason") \cup
                      Nested(3, "error", "message", BudErrorOut),
     stream_close |-> E(1, "stream_id", "string") \cup E(2, "final_offset", "uint")]

\* What the service reads, number by number.
BudErrorRead ==
    Strs(<<"code", "message">>) \cup E(3, "retryable", "bool") \cup E(4, "details", "map")

OperationStatusRead ==
    E(1, "operation_id", "string") \cup E(2, "state", "operation_state") \cup
    Nested(3, "error", "message", BudErrorRead) \cup
    E(4, "operation_type", "string") \cup E(5, "updated_at", "string")

StreamStatusRead ==
    Strs(<<"stream_id", "operation_id">>) \cup E(3, "stream_type", "stream_type") \cup
    E(4, "state", "stream_state") \cup E(5, "send_offset", "uint") \cup
    E(6, "receive_offset", "uint") \cup E(7, "reset_reason", "reset_reason") \cup
    Nested(8, "error", "message", BudErrorRead) \cup E(9, "updated_at", "string")

HandshakeReads ==
    [error |-> BudErrorRead,
     hello |-> Strs(<<"name", "os", "arch", "version", "installation_id", "token",
                      "bud_id">>) \cup E(8, "capabilities", "json"),
     hello_proof |-> Strs(<<"bud_id", "hmac">>),
     heartbeat |-> Strs(<<"session_id">>)]

StreamReads ==
    [reconnect_report |-> Strs(<<"bud_id", "device_session_id">>) \cup
                          Nested(3, "operations", "messages", OperationStatusRead) \cup
                          Nested(4, "streams", "messages", StreamStatusRead) \cup
                          E(5, "local_policy_version", "string") \cup
                          E(6, "terminal_sessions", "strings"),
     stream_data |-> E(1, "stream_id", "string") \cup
                     E(2, "stream_type", "stream_type") \cup E(3, "offset", "uint") \cup
                     E(4, "data", "bytes") \cup E(5, "end_stream", "bool"),
     stream_credit |-> E(1, "stream_id", "string") \cup
                       E(2, "receive_offset", "uint") \cup E(3, "credit_bytes", "uint"),
     stream_reset |-> E(1, "stream_id", "string") \cup
                      E(2, "reason", "reset_reason") \cup
                      Nested(3, "error", "message", BudErrorRead),
     stream_close |-> E(1, "stream_id", "string") \cup E(2, "final_offset", "uint")]

\* The frames of its own direction it reads by the numbers it writes them with.
ServiceDecodes ==
    HandshakeReads @@ StreamReads @@
    [type \in DOMAIN ServiceEncodes |->
        {IF e.as = "nullable" THEN [e EXCEPT !.as = "string"] ELSE e :
             e \in ServiceEncodes[type]}]

----------------------------------------------------------------------------
(* The daemon's messages.  It reads the terminal frames the service sends  *)
(* field by field, and writes none of its own that way.                    *)

BudErrorIn ==
    Strs(<<"code", "message">>) \cup E(3, "retryable", "bool") \cup E(4, "details", "map")

OperationStatusIn ==
    E(1, "operation_id", "string") \cup E(2, "state", "operation_state") \cup
    Nested(3, "error", "message", BudErrorIn) \cup
    E(4, "operation_type", "string") \cup E(5, "updated_at", "string")

\* Mutant: the daemon numbers the two offsets the other way round.
MutSwappedOffsets ==
    Strs(<<"stream_id", "operation_id">>) \cup E(3, "stream_type", "stream_type") \cup
    E(4, "state", "stream_state") \cup E(6, "send_offset", "uint") \cup
    E(5, "receive_offset", "uint") \cup E(7, "reset_reason", "reset_reason") \cup
    Nested(8, "error", "message", BudErrorIn) \cup E(9, "updated_at", "string")

StreamStatusIn ==
    Strs(<<"stream_id", "operation_id">>) \cup E(3, "stream_type", "stream_type") \cup
    E(4, "state", "stream_state") \cup E(5, "send_offset", "uint") \cup
    E(6, "receive_offset", "uint") \cup E(7, "reset_reason", "reset_reason") \cup
    Nested(8, "error", "message", BudErrorIn) \cup E(9, "updated_at", "string")

EnsureConfigIn ==
    Strs(<<"shell", "cwd">>) \cup E(3, "env", "map") \cup
    E(4, "cols", "uint") \cup E(5, "rows", "uint")

AttachIn(third) ==
    Strs(<<"bud_id", "device_session_id", third>>) \cup E(4, "streams", "strings") \cup
    E(5, "max_chunk_bytes", "uint32") \cup E(6, "initial_credit_bytes", "uint")

TerminalFramesIn ==
    [terminal_ensure |-> E(1, "session_id", "string") \cup
                         Nested(2, "config", "message", EnsureConfigIn) \cup
                         E(3, "resume_from_offset", "uint"),
     terminal_input |-> E(1, "session_id", "string") \cup E(2, "data", "bytes") \cup
                        E(4, "input_seq", "uint"),
     terminal_resize |-> E(1, "session_id", "string") \cup E(2, "cols", "uint") \cup
                         E(3, "rows", "uint"),
     terminal_close |-> Strs(<<"session_id", "reason">>),
     terminal_send |-> Strs(<<"session_id", "request_id", "text">>) \cup
                       E(4, "submit", "bool") \cup E(5, "key", "string") \cup
                       E(9, "await", "string"),
     terminal_observe |-> Strs(<<"session_id", "request_id", "view">>) \cup
                          E(4, "lines", "int") \cup E(7, "await", "string") \cup
                          E(8, "quiet_ms", "uint")]

StreamFramesIn ==
    [stream_data |-> E(1, "stream_id", "string") \cup
                     E(2, "stream_type", "stream_type") \cup E(3, "offset", "uint") \cup
                     E(4, "data", "bytes") \cup E(5, "end_stream", "bool"),
     stream_credit |-> E(1, "stream_id", "string") \cup
                       E(2, "receive_offset", "uint") \cup E(3, "credit_bytes", "uint"),
     stream_reset |-> E(1, "stream_id", "string") \cup
                      E(2, "reason", "reset_reason") \cup
                      Nested(3, "error", "message", BudErrorIn),
     stream_close |-> E(1, "stream_id", "string") \cup E(2, "final_offset", "uint")]

DaemonEncodes ==
    [error |-> BudErrorIn,
     hello |-> Strs(<<"name", "os", "arch", "version", "installation_id", "token",
                      "bud_id">>) \cup E(8, "capabilities", "json"),
     hello_ack |-> Strs(<<"session_id", "bud_id">>) \cup
                   E(3, "heartbeat_sec", "uint32") \cup E(4, "device_secret", "string"),
     hello_challenge |-> Strs(<<"nonce">>),
     hello_proof |-> Strs(<<"bud_id", "hmac">>),
     heartbeat |-> Strs(<<"session_id">>),
     heartbeat_ack |-> Strs(<<"session_id">>),
     reconnect_report |-> Strs(<<"bud_id", "device_session_id">>) \cup
                          Nested(3, "operations", "messages", OperationStatusIn) \cup
                          Nested(4, "streams", "messages", StreamStatusIn) \cup
                          E(5, "local_policy_version", "string") \cup
                          E(6, "terminal_sessions", "strings"),
     reconciliation_decision |->
         Nested(1, "operations", "messages", OperationStatusIn) \cup
         Nested(2, "streams", "messages", StreamStatusIn),
     data_attach |-> AttachIn("control_transport_session_id"),
     data_attach_ack |-> AttachIn("transport_session_id")] @@ StreamFramesIn

DaemonDecodes == DaemonEncodes @@ TerminalFramesIn

----------------------------------------------------------------------------
(* The number of the payload that carries a frame type.  A type without    *)
(* one travels in the legacy_json payload.                                 *)

HandshakeSlots ==
    <<"error", "hello", "hello_ack", "hello_challenge", "hello_proof", "heartbeat",
      "heartbeat_ack">>

TerminalSlots ==
    <<"terminal_ensure", "terminal_status", "terminal_input", "terminal_resize",
      "terminal_close", "terminal_send", "terminal_send_result", "terminal_observe",
      "terminal_observe_result", "terminal_output">>

DataSlots ==
    <<"data_attach", "data_attach_ack", "stream_data", "stream_credit", "stream_reset",
      "stream_close", "proxy_open", "proxy_open_result", "file_open",
      "file_open_result", "file_resolve", "file_resolve_result", "proxy_ws_open",
      "proxy_ws_open_result", "proxy_ws_message", "proxy_ws_close", "proxy_ws_error">>

\* The names at consecutive numbers from base, as a function from name to number.
Slots(base, names) ==
    [name \in {names[i] : i \in 1..Len(names)} |->
        base + (CHOOSE i \in 1..Len(names) : names[i] = name) - 1]

LegacyJson == 100

ServiceSlots ==
    Slots(101, HandshakeSlots) @@ Slots(120, TerminalSlots) @@ ("terminal_event" :> 131) @@
    Slots(150, <<"reconnect_report", "reconciliation_decision">>) @@
    Slots(170, DataSlots) @@ Slots(190, <<"browser_command", "browser_result">>)

DaemonSlots ==
    Slots(101, HandshakeSlots) @@ Slots(120, TerminalSlots) @@
    Slots(150, <<"reconnect_report", "reconciliation_decision">>) @@
    Slots(170, DataSlots) @@ Slots(190, <<"browser_command", "browser_result">>)

SlotOf(slots, type) == IF type \in DOMAIN slots THEN slots[type] ELSE LegacyJson

TypeOfSlot(slots, n) ==
    IF \E type \in DOMAIN slots : slots[type] = n
    THEN CHOOSE type \in DOMAIN slots : slots[type] = n
    ELSE "none"

----------------------------------------------------------------------------
(* Encoding and decoding one message.                                      *)

Fields(table, writes(_, _), enums, f) ==
    LET written == {e \in table : e.field \in DOMAIN f /\ writes(e.as, f[e.field])}
        EntryOf(n) == CHOOSE e \in written : e.n = n
    IN  [n \in {e.n : e \in written} |->
            LET e == EntryOf(n)
            IN  [as |-> WireType(e.as),
                 v |-> f[e.field],
                 number |-> IF e.as \in Enumerations
                            THEN Number(enums[e.as], f[e.field])
                            ELSE 0]]

\* A number outside the reader's enumeration reads as the reader's default.
ReadValue(e, w, enums, default) ==
    IF e.as \notin Enumerations THEN w.v
    ELSE IF w.number \in 1..Len(enums[e.as]) THEN enums[e.as][w.number] ELSE default[e.as]

EnumDefaults ==
    [stream_type |-> "terminal_interactive", operation_state |-> "unknown",
     stream_state |-> "unknown", reset_reason |-> "protocol_error"]

\* Fields the reader does not know are skipped.
ReadFields(table, enums, fields) ==
    LET known == {e \in table : e.n \in DOMAIN fields}
    IN  [name \in {e.field : e \in known} |->
            LET e == CHOOSE e \in known : e.field = name
            IN  ReadValue(e, fields[e.n], enums, EnumDefaults)]

\* A field read with another wire type than it was written with fails.
Readable(table, fields) ==
    \A e \in table : e.n \in DOMAIN fields => WireType(e.as) = fields[e.n].as

----------------------------------------------------------------------------
(* What the receivers require.  The daemon's structs are serde's: null     *)
(* stands for an absent Option.  The service's schemas are zod's: null is  *)
(* refused unless the field is nullable.                                   *)

R(name, type) == {[field |-> name, type |-> type, need |-> "required"]}
O(name, type) == {[field |-> name, type |-> type, need |-> "optional"]}
N(name, type) == {[field |-> name, type |-> type, need |-> "nullable"]}
P(name, type) == {[field |-> name, type |-> type, need |-> "present"]}
Required(names) == UNION {R(name, "string") : name \in names}

TerminalStructs ==
    [terminal_ensure |-> R("session_id", "string") \cup N("config", "object") \cup
                         N("config.cols", "u16") \cup N("config.rows", "u16") \cup
                         N("resume_from_offset", "unsigned"),
     terminal_input |-> Required({"session_id", "data"}) \cup N("input_seq", "unsigned"),
     terminal_resize |-> R("session_id", "string") \cup R("cols", "u16") \cup R("rows", "u16"),
     terminal_close |-> R("session_id", "string") \cup N("reason", "string"),
     terminal_send |-> Required({"session_id", "request_id"}) \cup N("text", "string") \cup
                       N("submit", "bool") \cup N("key", "string") \cup N("await", "await"),
     terminal_grid_watch |-> R("session_id", "string") \cup R("enabled", "bool"),
     terminal_observe |-> Required({"session_id", "request_id"}) \cup N("view", "string") \cup
                          N("lines", "integer") \cup N("await", "await") \cup
                          N("quiet_ms", "unsigned")]

StreamStructs ==
    [stream_data |-> Required({"stream_id", "stream_type", "data"}) \cup
                     R("offset", "unsigned") \cup O("end_stream", "bool"),
     stream_credit |-> R("stream_id", "string") \cup R("receive_offset", "unsigned") \cup
                       R("credit_bytes", "unsigned"),
     stream_reset |-> Required({"stream_id", "reason"}) \cup N("error", "object"),
     stream_close |-> R("stream_id", "string") \cup R("final_offset", "unsigned")]

OpenStructs ==
    LET body == N("headers", "object") \cup N("request_body_bytes", "unsigned") \cup
                N("initial_credit_bytes", "unsigned") \cup N("max_chunk_bytes", "unsigned")
    IN  [proxy_open |-> Required({"operation_id", "stream_id", "proxy_session_id",
                                  "stream_type", "target_host", "method", "path"}) \cup
                        R("target_port", "u16") \cup body,
         local_llm_open |-> Required({"operation_id", "stream_id", "stream_type",
                                      "local_llm_server_id", "method", "path"}) \cup body,
         proxy_ws_open |-> Required({"operation_id", "ws_session_id", "stream_type",
                                     "target_host", "path"}) \cup R("target_port", "u16") \cup
                           N("proxied_site_id", "string") \cup N("protocols", "list") \cup
                           N("max_message_bytes", "unsigned"),
         proxy_ws_message |-> Required({"ws_session_id", "message_type", "data"}),
         proxy_ws_close |-> R("ws_session_id", "string") \cup N("code", "u16") \cup
                            N("reason", "string"),
         proxy_ws_error |-> R("ws_session_id", "string") \cup R("error", "object"),
         file_open |-> Required({"operation_id", "stream_id", "file_session_id",
                                 "stream_type", "root_key", "relative_path", "mode"}) \cup
                       N("terminal_session_id", "string") \cup
                       N("resolution_hint", "object") \cup N("range_start", "unsigned") \cup
                       N("range_end", "unsigned") \cup N("range_suffix_bytes", "unsigned") \cup
                       N("expected_content_identity", "object") \cup
                       N("max_bytes", "unsigned") \cup
                       N("initial_credit_bytes", "unsigned") \cup
                       N("max_chunk_bytes", "unsigned"),
         file_resolve |-> Required({"operation_id", "root_key", "requested_path",
                                    "requested_path_kind"}) \cup N("max_bytes", "unsigned")]

DaemonStructs ==
    [hello_ack |-> Required({"session_id", "bud_id"}) \cup N("heartbeat_sec", "unsigned") \cup
                   N("device_secret", "string"),
     hello_challenge |-> Required({"nonce"}),
     error |-> Required({"code", "message"}),
     reconciliation_decision |-> O("operations", "list") \cup O("streams", "list"),
     browser_command |-> R("request", "object")] @@
    TerminalStructs @@ StreamStructs @@ OpenStructs

TerminalSchemas ==
    [terminal_status |-> Required({"session_id", "state"}) \cup O("info", "object"),
     terminal_output |-> Required({"session_id", "data"}) \cup R("byte_offset", "unsigned"),
     terminal_event |-> Required({"session_id", "event"}) \cup O("data", "object"),
     terminal_grid |-> R("session_id", "string") \cup R("generation", "unsigned") \cup
                       R("full", "bool") \cup R("cursor", "object") \cup
                       R("dirty_rows", "list"),
     terminal_observe_result |->
         Required({"session_id", "request_id", "output"}) \cup R("view", "view") \cup
         R("lines_captured", "unsigned") \cup N("changed", "bool") \cup
         O("mode", "string") \cup O("integration", "string") \cup O("alt_screen", "bool") \cup
         O("cursor_row", "integer") \cup O("cursor_col", "integer") \cup
         O("ring_next_offset", "unsigned") \cup O("output_ansi", "string") \cup
         N("outcome", "object") \cup P("error", "string"),
     terminal_send_result |->
         Required({"session_id", "request_id"}) \cup R("dispatched", "bool") \cup
         N("outcome", "object") \cup P("error", "string") \cup
         O("resolved_await", "await") \cup O("gated_ms", "unsigned") \cup
         O("program_ready", "bool")]

ReportSchemas ==
    [hello |-> Required({"name", "os", "arch"}) \cup R("capabilities", "object") \cup
               O("version", "string") \cup O("installation_id", "string") \cup
               O("token", "string") \cup O("bud_id", "string"),
     hello_proof |-> Required({"bud_id", "hmac"}),
     reconnect_report |-> R("bud_id", "string") \cup O("device_session_id", "string") \cup
                          O("operations", "list") \cup O("operations.state", "string") \cup
                          N("operations.updated_at", "string") \cup O("streams", "list") \cup
                          O("streams.stream_type", "string") \cup
                          O("streams.send_offset", "unsigned") \cup
                          N("streams.operation_id", "string") \cup
                          O("terminal_sessions", "list") \cup
                          N("local_policy_version", "string")]

StreamSchemas ==
    [stream_data |-> Required({"stream_id", "stream_type", "data"}) \cup
                     R("offset", "unsigned") \cup O("end_stream", "bool"),
     stream_credit |-> R("stream_id", "string") \cup R("receive_offset", "unsigned") \cup
                       R("credit_bytes", "unsigned"),
     stream_reset |-> Required({"stream_id", "reason"}) \cup O("error", "object") \cup
                      O("error.code", "string") \cup O("error.retryable", "bool"),
     stream_close |-> R("stream_id", "string") \cup R("final_offset", "unsigned")]

AcceptedOr(extra) ==
    R("accepted", "bool") \cup O("status_code", "unsigned") \cup O("error", "object") \cup extra

ProxySchemas ==
    [proxy_open_result |-> AcceptedOr(O("operation_id", "string") \cup
                                      R("stream_id", "string") \cup O("headers", "object") \cup
                                      O("set_cookies", "list"))]

ProxyWebSocketSchemas ==
    [proxy_ws_open_result |-> O("operation_id", "string") \cup R("ws_session_id", "string") \cup
                              R("accepted", "bool") \cup N("selected_protocol", "string") \cup
                              O("error", "object"),
     proxy_ws_message |-> Required({"ws_session_id", "data"}) \cup
                          R("message_type", "message_type"),
     proxy_ws_close |-> R("ws_session_id", "string") \cup O("code", "unsigned") \cup
                        O("reason", "string"),
     proxy_ws_error |-> R("ws_session_id", "string") \cup R("error", "object")]

FileOpenSchema ==
    [file_open_result |-> AcceptedOr(O("operation_id", "string") \cup
                                     R("stream_id", "string") \cup O("headers", "object") \cup
                                     O("content_identity", "object") \cup
                                     O("resolved_against", "string") \cup
                                     O("resolved_relative_path", "string") \cup
                                     O("size", "unsigned"))]

FileResolveSchema ==
    [file_resolve_result |-> R("operation_id", "string") \cup R("accepted", "bool") \cup
                             O("root_key", "string") \cup O("requested_path_kind", "string") \cup
                             O("resolved_against", "string") \cup
                             O("resolved_relative_path", "string") \cup
                             O("content_identity", "object") \cup O("size", "unsigned") \cup
                             O("error", "object")]

LocalLlmSchema ==
    [local_llm_open_result |-> AcceptedOr(Required({"operation_id", "stream_id"}) \cup
                                          O("headers", "object") \cup
                                          O("compatibility", "string") \cup
                                          O("request_mode", "string"))]

ServiceSchemas ==
    TerminalSchemas @@ ReportSchemas @@ StreamSchemas @@ ProxySchemas @@
    ProxyWebSocketSchemas @@ FileOpenSchema @@ FileResolveSchema @@ LocalLlmSchema @@
    [heartbeat |-> {}, browser_result |-> R("result", "object")]

Fits(type, v) ==
    CASE type = "string" -> IsString(v)
      [] type = "bool" -> v \in {"true", "false"}
      [] type = "u16" -> v \in {"zero", "small"}
      [] type = "unsigned" -> IsUnsigned(v)
      [] type = "integer" -> IsUnsigned(v) \/ v = "negative"
      [] type = "object" -> v = "object"
      [] type = "list" -> v \in {"list", "nil"}
      [] type = "await" -> v \in {"command", "settled", "auto"}
      [] type = "view" -> v \in {"delta", "screen", "history"}
      [] type = "message_type" -> v \in {"text", "binary"}

Parses(schema, f) ==
    \A s \in schema :
        IF s.field \notin DOMAIN f THEN s.need \in {"optional", "nullable"}
        ELSE \/ f[s.field] = "null" /\ s.need \in {"nullable", "present"}
             \/ Fits(s.type, f[s.field])

\* What the receiver's code sees: an absent field, a null one and an empty list are alike.
View(schema, f) ==
    [name \in {s.field : s \in schema} |->
        IF name \in DOMAIN f /\ f[name] \notin {"null", "nil"} THEN f[name] ELSE "none"]

----------------------------------------------------------------------------
(* The frames each builder makes: one with every field, and one for each   *)
(* field that may be missing or take another class of value.               *)

Texts(names) == [name \in names |-> "text"]

Frame(type, f) == [type |-> type, f |-> f]

Without(f, name) == [x \in DOMAIN f \ {name} |-> f[x]]

\* alts is a set of pairs: a field, and the value it may have instead or "absent".
Frames(type, f, alts) ==
    {Frame(type, f)} \cup
    {Frame(type, IF a[2] = "absent" THEN Without(f, a[1]) ELSE [f EXCEPT ![a[1]] = a[2]]) :
         a \in alts}

Missing(names) == {<<name, "absent">> : name \in names}

AckFrames ==
    Frames("hello_ack", Texts({"session_id", "bud_id", "device_secret"}) @@
                        ("heartbeat_sec" :> "small"), Missing({"device_secret"}))

ChallengeFrames == {Frame("hello_challenge", Texts({"nonce"}))}

ErrorFrames == {Frame("error", Texts({"code", "message"}))}

DecisionFrames ==
    Frames("reconciliation_decision",
           [operations |-> "list", streams |-> "list"],
           {<<"operations", "nil">>, <<"streams", "nil">>})

EnsureFrames ==
    Frames("terminal_ensure",
           Texts({"session_id"}) @@ ("config" :> "object") @@ ("config.cols" :> "small") @@
           ("config.rows" :> "small") @@ ("resume_from_offset" :> "over32"),
           Missing({"resume_from_offset"}))

InputFrames ==
    Frames("terminal_input", Texts({"session_id", "data"}) @@ ("input_seq" :> "small"),
           Missing({"input_seq"}) \cup {<<"input_seq", "zero">>})

ResizeFrames ==
    {Frame("terminal_resize", Texts({"session_id"}) @@ [cols |-> "small", rows |-> "small"])}

CloseFrames == {Frame("terminal_close", Texts({"session_id", "reason"}))}

GridWatchFrames ==
    Frames("terminal_grid_watch", Texts({"session_id"}) @@ ("enabled" :> "true"),
           {<<"enabled", "false">>})

\* A line is never empty: resolveTerminalSendGesture refuses one before it gets here.
SendFrames ==
    LET common == Texts({"session_id", "request_id"})
    IN  Frames("terminal_send", common @@ [text |-> "text", submit |-> "true", await |-> "auto"],
               Missing({"await"}) \cup {<<"submit", "false">>, <<"await", "command">>,
                                        <<"await", "settled">>}) \cup
        Frames("terminal_send", common @@ [key |-> "text", await |-> "auto"],
               Missing({"await"}) \cup {<<"await", "settled">>})

ObserveFrames ==
    Frames("terminal_observe",
           Texts({"session_id", "request_id"}) @@
           [view |-> "delta", lines |-> "small", await |-> "settled", quiet_ms |-> "small"],
           Missing({"lines", "await", "quiet_ms"}) \cup
           {<<"view", "screen">>, <<"view", "history">>, <<"await", "command">>,
            <<"lines", "negative">>})

ServiceStreamFrames ==
    UNION {Frames("stream_data",
                  Texts({"stream_id", "data"}) @@
                  [stream_type |-> t, offset |-> "zero", end_stream |-> "false"],
                  {<<"data", "empty">>, <<"offset", "over32">>, <<"end_stream", "true">>}) :
               t \in {"localhost_http_proxy", "local_llm_http"}} \cup
    Frames("stream_credit",
           Texts({"stream_id"}) @@ [receive_offset |-> "over32", credit_bytes |-> "small"],
           {<<"receive_offset", "small">>}) \cup
    Frames("stream_close", Texts({"stream_id"}) @@ ("final_offset" :> "over32"),
           {<<"final_offset", "zero">>})

ResetFrame(reason) ==
    Frame("stream_reset",
          Texts({"stream_id"}) @@ ("reason" :> reason) @@ ("error" :> "object") @@
          ("error.code" :> "text") @@ ("error.message" :> "text") @@
          ("error.retryable" :> "false"))

\* The router, the edges' own failures and the disconnects.
ServiceResets ==
    {ResetFrame(reason) : reason \in {"canceled", "timeout", "protocol_error",
                                      "local_error", "backpressure"}}

\* An edge's idle timeout and absolute limit name the limit that was reached.
LimitReasons == {"idle_timeout", "ttl_exceeded"}

LimitResets == {ResetFrame(reason) : reason \in LimitReasons}

ProxyOpenFrames ==
    {Frame("proxy_open",
           Texts({"operation_id", "stream_id", "proxy_session_id", "target_host", "method",
                  "path"}) @@
           [stream_type |-> "localhost_http_proxy", target_port |-> "small",
            headers |-> "object", request_body_bytes |-> "zero",
            initial_credit_bytes |-> "small", max_chunk_bytes |-> "small"])}

ProxyWebSocketOpenFrames ==
    {Frame("proxy_ws_open",
           Texts({"operation_id", "ws_session_id", "proxied_site_id", "target_host",
                  "path"}) @@
           [stream_type |-> "localhost_websocket_proxy", target_port |-> "small",
            protocols |-> "list", max_message_bytes |-> "small"])}

BrowserSocketFrames ==
    Frames("proxy_ws_message",
           Texts({"ws_session_id", "data"}) @@ ("message_type" :> "text"),
           {<<"message_type", "binary">>, <<"data", "empty">>}) \cup
    Frames("proxy_ws_close", Texts({"ws_session_id", "reason"}) @@ ("code" :> "small"),
           Missing({"code", "reason"})) \cup
    {Frame("proxy_ws_error", Texts({"ws_session_id"}) @@ ("error" :> "object"))}

FileOpenFrames ==
    Frames("file_open",
           Texts({"operation_id", "stream_id", "file_session_id", "terminal_session_id",
                  "root_key", "relative_path", "mode"}) @@
           [stream_type |-> "file_read", resolution_hint |-> "object",
            range_start |-> "zero", range_end |-> "over32",
            expected_content_identity |-> "object", max_bytes |-> "small",
            initial_credit_bytes |-> "small", max_chunk_bytes |-> "small"],
           Missing({"terminal_session_id", "resolution_hint", "range_start", "range_end",
                    "expected_content_identity"}))

FileResolveFrames ==
    {Frame("file_resolve", Texts({"operation_id", "root_key", "requested_path",
                                  "requested_path_kind"}) @@ ("max_bytes" :> "small"))}

LocalLlmOpenFrames ==
    {Frame("local_llm_open",
           Texts({"operation_id", "stream_id", "local_llm_server_id", "method", "path"}) @@
           [stream_type |-> "local_llm_http", headers |-> "object",
            request_body_bytes |-> "small", initial_credit_bytes |-> "small",
            max_chunk_bytes |-> "small"])}

BrowserCommandFrames == {Frame("browser_command", [request |-> "object"])}

ServiceFrames ==
    DecisionFrames \cup EnsureFrames \cup InputFrames \cup ResizeFrames \cup CloseFrames \cup
    GridWatchFrames \cup SendFrames \cup ObserveFrames \cup ServiceStreamFrames \cup
    ServiceResets \cup LimitResets \cup ProxyOpenFrames \cup ProxyWebSocketOpenFrames \cup
    BrowserSocketFrames \cup FileOpenFrames \cup FileResolveFrames \cup LocalLlmOpenFrames \cup
    BrowserCommandFrames

\* A device with a credential names its bud; another names its enrollment token.
HelloFrames ==
    LET common == Texts({"name", "os", "arch", "version", "installation_id"}) @@
                  ("capabilities" :> "object")
    IN  {Frame("hello", common @@ ("bud_id" :> "text")),
         Frame("hello", common @@ ("token" :> "text"))}

ProofFrames == {Frame("hello_proof", Texts({"bud_id", "hmac"}))}

HeartbeatFrames == {Frame("heartbeat", Texts({"session_id"}))}

ReportFrames ==
    Frames("reconnect_report",
           Texts({"bud_id", "device_session_id", "local_policy_version"}) @@
           [operations |-> "list", streams |-> "list", terminal_sessions |-> "list"] @@
           ("operations.operation_id" :> "text") @@ ("operations.state" :> "running") @@
           ("operations.updated_at" :> "text") @@ ("streams.stream_id" :> "text") @@
           ("streams.operation_id" :> "text") @@ ("streams.stream_type" :> "file_read") @@
           ("streams.state" :> "open") @@ ("streams.send_offset" :> "over32") @@
           ("streams.receive_offset" :> "zero"),
           {<<"local_policy_version", "null">>, <<"operations.updated_at", "null">>,
            <<"streams.operation_id", "null">>, <<"terminal_sessions", "nil">>,
            <<"operations.state", "expired">>, <<"streams.stream_type", "local_llm_http">>})

StatusFrames ==
    Frames("terminal_status", Texts({"session_id", "state"}) @@ ("info" :> "object"),
           Missing({"info"}))

OutputFrames ==
    Frames("terminal_output", Texts({"session_id", "data"}) @@ ("byte_offset" :> "over32"),
           {<<"byte_offset", "zero">>})

EventFrames ==
    {Frame("terminal_event", Texts({"session_id", "event"}) @@ ("data" :> "object"))}

GridFrames ==
    Frames("terminal_grid",
           Texts({"session_id"}) @@ [generation |-> "small", full |-> "true",
                                     cursor |-> "object", dirty_rows |-> "list"],
           {<<"full", "false">>, <<"dirty_rows", "nil">>})

SendResultFrames ==
    Frames("terminal_send_result",
           Texts({"session_id", "request_id"}) @@
           [dispatched |-> "true", outcome |-> "object", error |-> "null",
            resolved_await |-> "command", gated_ms |-> "small", program_ready |-> "true"],
           Missing({"resolved_await", "gated_ms", "program_ready"}) \cup
           {<<"outcome", "null">>, <<"error", "TIMEOUT">>, <<"dispatched", "false">>,
            <<"resolved_await", "settled">>})

\* An observation, or an error and no observation.
ObserveResultFrames ==
    LET common == Texts({"session_id", "request_id"})
    IN  Frames("terminal_observe_result",
               common @@
               [view |-> "screen", output |-> "text", lines_captured |-> "small",
                changed |-> "true", mode |-> "text", integration |-> "text",
                alt_screen |-> "false", ring_next_offset |-> "over32",
                output_ansi |-> "text", outcome |-> "object", cursor_row |-> "small",
                cursor_col |-> "zero", error |-> "null"],
               Missing({"output_ansi", "outcome"}) \cup
               {<<"output", "empty">>, <<"changed", "false">>, <<"view", "delta">>}) \cup
        {Frame("terminal_observe_result", common @@ ("error" :> "session_not_found"))}

DaemonStreamFrames ==
    UNION {Frames("stream_data",
                  Texts({"stream_id", "data"}) @@
                  [stream_type |-> t, offset |-> "over32", end_stream |-> "false"],
                  {<<"data", "empty">>, <<"offset", "zero">>, <<"end_stream", "true">>}) :
               t \in {"localhost_http_proxy", "file_read", "local_llm_http"}} \cup
    Frames("stream_credit",
           Texts({"stream_id"}) @@ [receive_offset |-> "over32", credit_bytes |-> "small"],
           {<<"receive_offset", "small">>}) \cup
    {Frame("stream_close", Texts({"stream_id"}) @@ ("final_offset" :> "over32"))} \cup
    {ResetFrame(reason) : reason \in {"timeout", "protocol_error", "remote_error",
                                      "local_error"}}

Rejected(type, names) ==
    {Frame(type, Texts(names) @@ [accepted |-> "false", error |-> "object"])}

ProxyResultFrames ==
    {Frame("proxy_open_result",
           Texts({"operation_id", "stream_id"}) @@
           [accepted |-> "true", status_code |-> "small", headers |-> "object",
            set_cookies |-> "nil"])} \cup
    Rejected("proxy_open_result", {"operation_id", "stream_id"})

\* A local socket that ends without a close frame is reported with a null code.
LocalSocketFrames ==
    Frames("proxy_ws_open_result",
           Texts({"operation_id", "ws_session_id", "selected_protocol"}) @@
           ("accepted" :> "true"), {<<"selected_protocol", "null">>}) \cup
    Rejected("proxy_ws_open_result", {"operation_id", "ws_session_id"}) \cup
    Frames("proxy_ws_message",
           Texts({"ws_session_id", "data"}) @@ ("message_type" :> "text"),
           {<<"message_type", "binary">>, <<"data", "empty">>}) \cup
    Frames("proxy_ws_close", Texts({"ws_session_id", "reason"}) @@ ("code" :> "small"),
           {<<"code", "null">>, <<"reason", "empty">>}) \cup
    {Frame("proxy_ws_error", Texts({"ws_session_id"}) @@ ("error" :> "object"))}

FileResultFrames ==
    LET resolved == Texts({"resolved_against", "resolved_relative_path"}) @@
                    [accepted |-> "true", content_identity |-> "object", size |-> "over32"]
    IN  {Frame("file_open_result",
               Texts({"operation_id", "stream_id"}) @@ resolved @@
               [status_code |-> "small", headers |-> "object"]),
         Frame("file_resolve_result",
               Texts({"operation_id", "root_key", "requested_path_kind"}) @@ resolved)} \cup
        Rejected("file_open_result", {"operation_id", "stream_id"}) \cup
        Rejected("file_resolve_result", {"operation_id"})

LocalLlmResultFrames ==
    {Frame("local_llm_open_result",
           Texts({"operation_id", "stream_id", "compatibility", "request_mode"}) @@
           [accepted |-> "true", status_code |-> "small", headers |-> "object"])} \cup
    Rejected("local_llm_open_result", {"operation_id", "stream_id"})

BrowserResultFrames == {Frame("browser_result", [result |-> "object"])}

DaemonFrames ==
    HeartbeatFrames \cup ReportFrames \cup StatusFrames \cup OutputFrames \cup EventFrames \cup
    GridFrames \cup SendResultFrames \cup ObserveResultFrames \cup DaemonStreamFrames \cup
    ProxyResultFrames \cup LocalSocketFrames \cup FileResultFrames \cup
    LocalLlmResultFrames \cup BrowserResultFrames

----------------------------------------------------------------------------
(* Putting a frame on the wire and taking it off.                          *)

NoWire == [to |-> "nobody", as |-> "none", slot |-> 0, type |-> "none", f |-> <<>>,
           fields |-> <<>>]

AsText(to, frame) ==
    [NoWire EXCEPT !.to = to, !.as = "text", !.type = frame.type, !.f = frame.f]

\* JSON inside the payload of its type, or inside legacy_json.
AsFrameJson(to, slots, frame) ==
    [AsText(to, frame) EXCEPT !.as = "frame_json", !.slot = SlotOf(slots, frame.type)]

AsFields(to, slots, frame, fields) ==
    [NoWire EXCEPT !.to = to, !.as = "fields", !.slot = slots[frame.type], !.fields = fields]

ServiceEncodesFrame(frame) ==
    IF frame.type \in DOMAIN ServiceEncodes
    THEN AsFields("daemon", ServiceSlots, frame,
                  Fields(ServiceEncodes[frame.type], ServiceWrites, ServiceEnums, frame.f))
    ELSE AsFrameJson("daemon", ServiceSlots, frame)

\* Over gRPC both sides put the JSON of the frame into the payload of its type.
GrpcServiceFrame(frame) == AsFrameJson("daemon", ServiceSlots, frame)

GrpcDaemonFrame(frame) == AsFrameJson("service", DaemonSlots, frame)

DaemonEncodesFrame(frame) ==
    IF frame.type \in DOMAIN DaemonEncodes
    THEN AsFields("service", DaemonSlots, frame,
                  Fields(DaemonEncodes[frame.type], DaemonWrites, DaemonEnums, frame.f))
    ELSE AsFrameJson("service", DaemonSlots, frame)

Undecoded == Frame("none", <<>>)

Decoded(slots, tables, enums, w) ==
    LET type == TypeOfSlot(slots, w.slot)
    IN  IF w.as = "text" \/ w.slot = LegacyJson THEN Frame(w.type, w.f)
        ELSE IF type = "none" THEN Undecoded
        ELSE IF w.as = "frame_json" THEN Frame(w.type, w.f)
        ELSE IF type \in DOMAIN tables /\ Readable(tables[type], w.fields)
             THEN Frame(type, ReadFields(tables[type], enums, w.fields))
             ELSE Undecoded

ServiceDecodesFrame(w) ==
    LET frame == Decoded(ServiceSlots, ServiceDecodes, ServiceEnums, w)
        Given(f, name, v) == IF name \in DOMAIN f THEN f ELSE (name :> v) @@ f
    IN  IF w.as # "fields" THEN frame
        ELSE CASE frame.type = "terminal_send_result" ->
                    Frame(frame.type, Given(Given(frame.f, "error", "null"), "outcome", "null"))
               [] frame.type = "terminal_observe_result" ->
                    Frame(frame.type, Given(frame.f, "error", "null"))
               [] frame.type = "terminal_event" ->
                    Frame(frame.type, Given(frame.f, "data", "object"))
               [] OTHER -> frame

DaemonDecodesFrame(w) == Decoded(DaemonSlots, DaemonDecodes, DaemonEnums, w)

----------------------------------------------------------------------------
(* The connection.                                                         *)

NotSent == [to |-> "nobody", type |-> "none", f |-> <<>>]

\* The service sends text until a hello has told it that the daemon reads binary frames.
ServiceSend(frame) ==
    /\ sent' = [to |-> "daemon", type |-> frame.type, f |-> frame.f]
    /\ wire' = IF transport = "grpc" THEN GrpcServiceFrame(frame)
               ELSE IF service = "said_hello" /\ frame.type = "error"
               THEN AsText("daemon", frame)
               ELSE ServiceEncodesFrame(frame)
    /\ seen' = <<>>
    /\ outcome' = "none"

\* Mutant: the daemon never learns that the service speaks binary.
MutStaysText(frame) ==
    /\ sent' = [to |-> "service", type |-> frame.type, f |-> frame.f]
    /\ wire' = IF transport = "grpc" THEN GrpcDaemonFrame(frame)
               ELSE IF frame.type = "hello" THEN DaemonEncodesFrame(frame)
               ELSE AsText("service", frame)
    /\ seen' = <<>>
    /\ outcome' = "none"

\* The daemon's hello is binary; after it, the daemon answers in the form it was answered in.
DaemonSend(frame) ==
    /\ sent' = [to |-> "service", type |-> frame.type, f |-> frame.f]
    /\ wire' = IF transport = "grpc" THEN GrpcDaemonFrame(frame)
               ELSE IF binary \/ frame.type = "hello" THEN DaemonEncodesFrame(frame)
               ELSE AsText("service", frame)
    /\ seen' = <<>>
    /\ outcome' = "none"

SendHello ==
    /\ daemonEnd = "hello" /\ wire = NoWire
    /\ \E frame \in HelloFrames : DaemonSend(frame)
    /\ daemonEnd' = "waiting"
    /\ UNCHANGED <<transport, service, binary>>

\* A bad hello or a bad proof is refused and the connection closed.
RefuseHello ==
    /\ wire = NoWire /\ daemonEnd = "waiting" /\ service \in {"said_hello", "proved"}
    /\ \E frame \in ErrorFrames : ServiceSend(frame)
    /\ service' = "closed"
    /\ UNCHANGED <<transport, daemonEnd, binary>>

IssueChallenge ==
    /\ wire = NoWire /\ daemonEnd = "waiting"
    /\ service = "said_hello" /\ "bud_id" \in DOMAIN sent.f
    /\ \E frame \in ChallengeFrames : ServiceSend(frame)
    /\ service' = "awaiting_proof"
    /\ UNCHANGED <<transport, daemonEnd, binary>>

\* The session is registered before the hello_ack is sent.
AcceptHello ==
    /\ wire = NoWire /\ daemonEnd = "waiting"
    /\ \/ service = "said_hello" /\ "token" \in DOMAIN sent.f
       \/ service = "proved"
    /\ \E frame \in AckFrames :
          /\ ("device_secret" \in DOMAIN frame.f) = (service = "said_hello")
          /\ ServiceSend(frame)
    /\ service' = "connected"
    /\ UNCHANGED <<transport, daemonEnd, binary>>

SendProof ==
    /\ daemonEnd = "challenged" /\ wire = NoWire
    /\ \E frame \in ProofFrames : DaemonSend(frame)
    /\ daemonEnd' = "waiting"
    /\ UNCHANGED <<transport, service, binary>>

ServiceWorks ==
    /\ service = "connected" /\ daemonEnd = "connected" /\ wire = NoWire
    /\ \E frame \in ServiceFrames : ServiceSend(frame)
    /\ UNCHANGED <<transport, service, daemonEnd, binary>>

DaemonWorks ==
    /\ service = "connected" /\ daemonEnd = "connected" /\ wire = NoWire
    /\ \E frame \in DaemonFrames : DaemonSend(frame)
    /\ UNCHANGED <<transport, service, daemonEnd, binary>>

\* Any frame that does not parse ends the daemon's session.
DaemonReceives ==
    /\ wire.to = "daemon"
    /\ LET frame == DaemonDecodesFrame(wire)
           understood == frame.type \in DOMAIN DaemonStructs /\
                         Parses(DaemonStructs[frame.type], frame.f)
       IN  /\ seen' = IF understood THEN View(DaemonStructs[frame.type], frame.f) ELSE <<>>
           /\ outcome' = IF understood THEN "handled" ELSE "torn"
           /\ daemonEnd' = IF ~understood \/ frame.type = "error" THEN "torn"
                        ELSE CASE frame.type = "hello_ack" -> "connected"
                               [] frame.type = "hello_challenge" -> "challenged"
                               [] OTHER -> daemonEnd
    /\ binary' = (binary \/ wire.as \in {"fields", "frame_json"})
    /\ wire' = NoWire
    /\ UNCHANGED <<transport, service, sent>>

\* After the hello the service refuses text, and at any time an envelope it cannot decode;
\* both close the connection. A decoded frame that does not parse is dropped.
ServiceReceives ==
    /\ wire.to = "service"
    /\ LET frame == ServiceDecodesFrame(wire)
           refused == frame = Undecoded \/ (wire.as = "text" /\ service # "awaiting_hello")
           understood == ~refused /\ frame.type \in DOMAIN ServiceSchemas /\
                         Parses(ServiceSchemas[frame.type], frame.f)
       IN  /\ seen' = IF understood THEN View(ServiceSchemas[frame.type], frame.f) ELSE <<>>
           /\ outcome' = IF understood THEN "handled" ELSE IF refused THEN "torn" ELSE "dropped"
           /\ service' = IF refused \/ (~understood /\ service # "connected") THEN "closed"
                         ELSE CASE frame.type = "hello" /\ understood -> "said_hello"
                                [] frame.type = "hello_proof" /\ understood -> "proved"
                                [] OTHER -> service
    /\ daemonEnd' = IF service' = "closed" THEN "torn" ELSE daemonEnd
    /\ wire' = NoWire
    /\ UNCHANGED <<transport, binary, sent>>

\* The daemon's run loop connects again, over the carrier its server offers.
ConnectAgain ==
    /\ daemonEnd = "torn"
    /\ transport' \in {"websocket", "grpc"}
    /\ service' = "awaiting_hello" /\ daemonEnd' = "hello" /\ binary' = FALSE
    /\ wire' = NoWire /\ sent' = NotSent /\ seen' = <<>> /\ outcome' = "none"

WireInit ==
    /\ transport \in {"websocket", "grpc"}
    /\ service = "awaiting_hello" /\ daemonEnd = "hello" /\ binary = FALSE
    /\ wire = NoWire /\ sent = NotSent /\ seen = <<>> /\ outcome = "none"

WireNext ==
    \/ SendHello \/ RefuseHello \/ IssueChallenge \/ AcceptHello \/ SendProof \/ ServiceWorks \/ DaemonWorks
    \/ DaemonReceives \/ ServiceReceives \/ ConnectAgain

WireSpec == WireInit /\ [][WireNext]_wireVars

----------------------------------------------------------------------------
(* Properties.                                                             *)

\* One frame is in flight at a time, on its way to one side, in one of the three forms; a
\* connection the daemon considers up is up at the service.
WireTypeOK ==
    /\ transport \in {"websocket", "grpc"} /\ binary \in BOOLEAN
    /\ service \in {"awaiting_hello", "said_hello", "awaiting_proof", "proved", "connected",
                    "closed"}
    /\ daemonEnd \in {"hello", "waiting", "challenged", "connected", "torn"}
    /\ wire.to \in {"nobody", "daemon", "service"}
    /\ wire.as \in {"none", "text", "frame_json", "fields"}
    /\ outcome \in {"none", "handled", "dropped", "torn"}
    /\ daemonEnd = "connected" => service = "connected"

\* What the receiving handler acts on is what the sending one meant: every field its parser
\* keeps has the value the sender gave it, whichever of text, frame_json and numbered
\* protobuf fields the frame travelled in, and an absent field arrives absent. The two codecs
\* (proto_wire.rs and wire.ts) are written by hand, in two languages.
MeaningKept ==
    outcome = "handled" =>
        seen = View(IF sent.to = "service" THEN ServiceSchemas[sent.type]
                    ELSE DaemonStructs[sent.type], sent.f)

\* The frames the receiver cannot read although the sender means them.
KnownGap ==
    \/ /\ sent.type = "stream_reset" /\ sent.f["reason"] \in LimitReasons
       /\ transport = "websocket"
    \/ sent.type = "terminal_observe_result" /\ sent.f["error"] # "null"
    \/ sent.type = "proxy_ws_close" /\ sent.f["code"] = "null"

\* Every other frame that one side builds in a live session is read by the other: no frame is
\* dropped by the service's parser and none makes the daemon end its session.
NothingElseLost == outcome \in {"dropped", "torn"} => KnownGap

\* A stream_reset the service sends is understood by the daemon (docs/proto.md:361).
ResetsUnderstood == sent.type = "stream_reset" /\ daemonEnd = "torn" => outcome = "none"

\* A terminal_observe_result reaches the waiting request, errors included
\* (protocol.rs, terminal_observe_result_frame).
ObserveErrorsArrive == sent.type = "terminal_observe_result" => outcome # "dropped"

\* A daemon-side WebSocket close reaches the browser's socket
\* (service/src/proxy/proxy.spec.md:90).
ClosesArrive == sent.type = "proxy_ws_close" => outcome # "dropped"
====
