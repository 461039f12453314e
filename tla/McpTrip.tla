------------------------------- MODULE McpTrip -------------------------------
(***************************************************************************)
(* One MCP request on its way: the agent sends a JSON document, the relay  *)
(* reads it for its activity log and tunnels it, the central proxy reads   *)
(* it again, judges it, logs it and sends it, or another, to MCP servers.  *)
(* McpGateway models the awaits of the central proxy, and policies that    *)
(* change under a request; here they stand still, and what counts is what  *)
(* each reader makes of one document.                                      *)
(*                                                                         *)
(* A tool is named by itself or, at the hub, behind the name of a server   *)
(* (ToolNames has the strings).  A missing, an empty or an unreadable tool *)
(* name are as good as none.  What is granted is a set of tools of servers *)
(* here; McpGateway has the strings that stand for them.                   *)
(***************************************************************************)
EXTENDS Sequences

CONSTANTS
  McpServers, McpTools,
  Hub,       \* what the logs call the combined endpoint /mcp
  Nothing

CalledNames == McpTools \cup (McpServers \X McpTools)

ASSUME HubAssumption == Hub \notin McpServers

VARIABLES
  trip,      \* the request: its document and headers, and where it is
  granted,   \* the tools that the policies of the user allow
  received,  \* the documents that MCP servers received
  activity,  \* the row of the relay's activity log
  audit      \* the row of the central audit log

tripVars == <<trip, granted, received, activity, audit>>

-----------------------------------------------------------------------------
(* Documents, and what the readers make of them *)

ClientMethods == {"initialize", "tools/list", "tools/call", "resources/read", "ping"}
Methods == ClientMethods \cup {"notifications/initialized", "other"}

ASSUME NothingAssumption == Nothing \notin CalledNames \cup Methods

Ids == {"absent", "null", "given"}

\* The parameters of a call are an object or, which serde reads as well, a list.
NoRequest(form) ==
  [form |-> form, version |-> Nothing, method |-> Nothing, id |-> "absent",
   params |-> "object", name |-> Nothing]
Documents ==
  {NoRequest(form) : form \in {"unreadable", "batch", "scalar"}} \cup
  [form : {"object"}, version : {"2.0"}, method : Methods \cup {Nothing}, id : Ids,
   params : {"object"}, name : {Nothing}] \cup
  [form : {"object"}, version : {"2.0", "1.0"}, method : {"tools/call"}, id : Ids,
   params : {"object", "list"}, name : CalledNames]

\* Deliberately wrong: a batch is no request, so nobody looks at it.
ParseBatchAsNone(d) ==
  IF d.form \in {"scalar", "batch"} THEN "none"
  ELSE IF d.form = "object" /\ d.version = "2.0" /\ d.method # Nothing THEN "request"
  ELSE "error"

ParseRequestBody(d) ==
  IF d.form = "scalar" THEN "none"
  ELSE IF d.form = "batch" THEN "batch"
  ELSE IF d.form = "object" /\ d.version = "2.0" /\ d.method # Nothing THEN "request"
  ELSE "error"

\* A null id is read as none.
IsClientRequest(d) == d.id = "given" /\ d.method \in ClientMethods

ToolCall(outcome, method, tool) == [outcome |-> outcome, method |-> method, tool |-> tool]

\* An error, none, or the method and, of a tools/call, the tool.
ExtractToolCall(d) ==
  IF ParseRequestBody(d) \in {"error", "batch"} THEN ToolCall("error", Nothing, Nothing)
  ELSE IF ParseRequestBody(d) = "none" \/ ~IsClientRequest(d)
    THEN ToolCall("none", Nothing, Nothing)
  ELSE IF d.method # "tools/call" THEN ToolCall("call", d.method, Nothing)
  ELSE IF d.name = Nothing THEN ToolCall("error", Nothing, Nothing)
  ELSE ToolCall("call", d.method, d.name)

NamesServer(name) == name \in McpServers \X McpTools

RewriteToolName(d, tool) ==
  IF d.params = "object" THEN [d EXCEPT !.name = tool] ELSE d

-----------------------------------------------------------------------------
(* The relay *)

Sends == {"content-type", "x-oac-request-id", "x-oac-device-fingerprint"}
Forwardable == {"content-type"}

\* Deliberately wrong: every end-to-end header is forwarded.
ForwardAll(headers) == headers

BuildForwardHeaders(headers) == headers \cap Forwardable

\* Whose request ids central gets, in order: the relay appends its own.
ForwardRequest(headers) ==
  (IF "x-oac-request-id" \in BuildForwardHeaders(headers) THEN <<"agent">> ELSE <<>>)
    \o <<"relay">>

\* Of several headers of one name the first counts.
RequestId == Head(ForwardRequest(trip.headers))

Go(place) == trip' = [trip EXCEPT !.at = place]

TripInit ==
  /\ trip \in [at : {"agent"}, doc : Documents, endpoint : McpServers \cup {Hub},
               headers : SUBSET Sends]
  /\ granted \in SUBSET (McpServers \X McpTools)
  /\ received = {}
  /\ activity = Nothing /\ audit = Nothing

\* A body that cannot be read is answered and not logged; one that central
\* does not get is logged.
RunHandler ==
  /\ trip.at = "agent"
  /\ \E place \in {IF trip.endpoint = Hub THEN "hub" ELSE "permissions", "relay", "over"} :
       Go(place)
  /\ UNCHANGED <<granted, received, activity, audit>>

\* The tool and the method, as far as the relay can tell.
ParseMcpMeta(d) ==
  LET call == ExtractToolCall(d)
  IN [server |-> trip.endpoint, method |-> call.method, tool |-> call.tool,
      request |-> "relay"]

\* Central has answered, or the relay has given up on it.
RecordActivity ==
  /\ trip.at = "relay"
  /\ \E row \in {ParseMcpMeta(trip.doc), Nothing} : activity' = row
  /\ Go("over")
  /\ UNCHANGED <<granted, received, audit>>

GiveUp ==
  /\ trip.at \in {"permissions", "server", "hub", "call", "fanOut"}
  /\ Go("relay")
  /\ UNCHANGED <<granted, received, activity, audit>>

-----------------------------------------------------------------------------
(* The central proxy *)

Reaches(s) == \E t \in McpTools : <<s, t>> \in granted

\* record_mcp_audit, after which the request is answered.
RecordMcpAudit(server, method, tool, decision) ==
  /\ \E row \in {[server |-> server, method |-> method, tool |-> tool,
                  decision |-> decision, request |-> RequestId], Nothing} : audit' = row
  /\ Go("relay")
  /\ UNCHANGED <<granted, activity>>

RecordHubAudit(method, tool, decision) == RecordMcpAudit(Hub, method, tool, decision)
RecordAudit(method, tool) == RecordMcpAudit(trip.endpoint, method, tool, "allowed")

\* A server that is called may be out of reach.
Forward ==
  \E sent \in SUBSET {[server |-> trip.endpoint, doc |-> trip.doc]} :
    received' = received \cup sent
CallUpstream(server, doc) ==
  \E sent \in SUBSET {[server |-> server, doc |-> doc]} : received' = received \cup sent

\* At /mcp/{server}.  The policy of a request may be out of reach; a document
\* that is no request of a client passes.
McpPermissions ==
  LET call    == ExtractToolCall(trip.doc)
      method  == IF call.outcome = "call" THEN call.method ELSE "unknown"
      allowed ==
        \/ call.outcome = "none"
        \/ /\ call.outcome = "call"
           /\ IF call.method = "tools/call" THEN <<trip.endpoint, call.tool>> \in granted
              ELSE Reaches(trip.endpoint)
  IN /\ trip.at = "permissions"
     /\ \/ /\ allowed
           /\ Go("server")
           /\ UNCHANGED <<granted, activity, audit>>
        \/ /\ ~allowed \/ call.outcome = "call"
           /\ RecordMcpAudit(trip.endpoint, method, call.tool, "denied")
     /\ UNCHANGED received

\* A server that is not registered is not audited; a failed call of it is.
McpHandler ==
  LET call   == ExtractToolCall(trip.doc)
      method == IF call.outcome = "call" THEN call.method ELSE "unknown"
  IN /\ trip.at = "server"
     /\ \/ /\ Go("relay")
           /\ UNCHANGED <<granted, received, activity, audit>>
        \/ Forward /\ RecordAudit(method, call.tool)

\* At /mcp.  Only a request object goes further, and every one is audited if
\* its policies are out of reach.
McpHubHandler ==
  LET d == trip.doc
  IN /\ trip.at = "hub"
     /\ IF ParseRequestBody(d) # "request"
        THEN Go("relay") /\ UNCHANGED <<granted, activity, audit>>
        ELSE \/ RecordHubAudit(d.method, Nothing, "denied")
             \/ /\ d.method = "tools/call"
                /\ Go("call") /\ UNCHANGED <<granted, activity, audit>>
             \/ /\ d.method \in {"tools/list", "initialize", "notifications/initialized"}
                /\ Go("fanOut") /\ UNCHANGED <<granted, activity, audit>>
             \/ /\ d.method \in {"ping", "resources/read", "other"}
                /\ RecordHubAudit(d.method, Nothing, "allowed")
     /\ UNCHANGED received

\* A call that cannot be read, has no server before its tool, or whose policy
\* or server is out of reach is audited as the hub's.
HubRefuses ==
  /\ trip.at = "call"
  /\ RecordHubAudit("tools/call", ExtractToolCall(trip.doc).tool, "denied")
  /\ UNCHANGED received

\* Otherwise the audit names the server and its tool, and the server gets the
\* call under the name it knows.
HandleToolsCall ==
  LET call == ExtractToolCall(trip.doc)
  IN /\ trip.at = "call"
     /\ call.outcome = "call" /\ NamesServer(call.tool)
     /\ LET server == call.tool[1]
            tool   == call.tool[2]
        IN IF call.tool \in granted
           THEN /\ RecordMcpAudit(server, "tools/call", tool, "allowed")
                /\ CallUpstream(server, RewriteToolName(trip.doc, tool))
           ELSE RecordMcpAudit(server, "tools/call", tool, "denied") /\ UNCHANGED received

\* Some of the servers that the user reaches get it.
FanOut(d) ==
  \E some \in SUBSET {s \in McpServers : Reaches(s)} :
    received' = received \cup {[server |-> s, doc |-> d] : s \in some}

\* Not audited if the policies or the servers cannot be read.
HandleToolsList ==
  /\ trip.at = "fanOut" /\ trip.doc.method = "tools/list"
  /\ \/ FanOut(trip.doc) /\ RecordHubAudit("tools/list", Nothing, "allowed")
     \/ Go("relay") /\ UNCHANGED <<granted, received, activity, audit>>

\* The hub shakes hands in its own name.
InitializeRequest ==
  [form |-> "object", version |-> "2.0", method |-> "initialize", id |-> "null",
   params |-> "object", name |-> Nothing]

HandleInitialize ==
  /\ trip.at = "fanOut" /\ trip.doc.method = "initialize"
  /\ FanOut(InitializeRequest)
  /\ Go("relay")
  /\ UNCHANGED <<granted, activity, audit>>

BroadcastNotification ==
  /\ trip.at = "fanOut" /\ trip.doc.method = "notifications/initialized"
  /\ FanOut(trip.doc)
  /\ Go("relay")
  /\ UNCHANGED <<granted, activity, audit>>

TripNext ==
  \/ RunHandler \/ RecordActivity \/ GiveUp
  \/ McpPermissions \/ McpHandler
  \/ McpHubHandler \/ HubRefuses \/ HandleToolsCall
  \/ HandleToolsList \/ HandleInitialize \/ BroadcastNotification

TripSpec == TripInit /\ [][TripNext]_tripVars

-----------------------------------------------------------------------------
\* The tool that a document names to a server; the hub leaves the name in a
\* list of parameters as it is.
Named(r) ==
  IF trip.endpoint = Hub /\ r.doc.params = "list" THEN r.doc.name
  ELSE <<r.server, r.doc.name>>

(* Whatever way a document takes, a tool call that a server receives is of *)
(* a tool that the policies allow, and of that server, and no server       *)
(* receives a batch, whose calls nobody has looked at                      *)
(* (mcp_permissions_middleware, handle_tools_call and the documents that   *)
(* the hub fans out).  Except, and only at /mcp/{server}, a call without   *)
(* an id or with a null id: extract_tool_call takes it for a notification, *)
(* and it reaches the server whether its tool was granted or not, though   *)
(* threat-model.md has such a call refused.  The hub passes on none.       *)
ServersGetWhatWasJudged ==
  \A r \in received :
    /\ r.doc.form # "batch"
    /\ r.doc.method = "tools/call" =>
         \/ Named(r) \in granted /\ Named(r)[1] = r.server
         \/ trip.endpoint # Hub /\ r.doc.id # "given"

(* The two logs of one request can be put side by side: they have the same *)
(* request id, whatever headers the agent sends, central knows the method  *)
(* that the relay knows, and a tool in the audit log is the tool in the    *)
(* activity log, at the hub with its server before it.                     *)
LogsAgree ==
  (activity # Nothing /\ audit # Nothing) =>
    /\ audit.request = activity.request
    /\ activity.method # Nothing => audit.method = activity.method
    /\ activity.server # Hub => audit.server = activity.server
    /\ audit.tool # Nothing =>
         activity.tool = IF audit.server = activity.server THEN audit.tool
                         ELSE <<audit.server, audit.tool>>

(* What was judged is what was sent, and what both logs have.              *)
OneRequestThroughout == ServersGetWhatWasJudged /\ LogsAgree
=============================================================================
