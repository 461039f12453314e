--------------------------- MODULE Traffic_proofs ---------------------------
(***************************************************************************)
(* What comes in and is passed on: MCP requests that are read twice on     *)
(* their way (McpTrip), the rate limiter (RateLimiter), the names of MCP   *)
(* tools (ToolNames) and the usage of a streamed answer (UsageStream), for *)
(* any users, tools, addresses, names and streams.                         *)
(***************************************************************************)
EXTENDS McpTrip, RateLimiter, ToolNames, UsageStream, SequenceTheorems, TLAPS

-----------------------------------------------------------------------------
(* McpTrip *)

TripPlaces == {"agent", "relay", "over", "permissions", "server", "hub", "call", "fanOut"}

\* A request that is a call by the reading of both programs.
CallsTool(d) == ExtractToolCall(d).outcome = "call" /\ d.method = "tools/call"

\* What the handlers know of a request where it is.
RightPlace ==
  /\ trip.at \in {"permissions", "server"} => trip.endpoint \in McpServers
  /\ trip.at \in {"hub", "call", "fanOut"} => trip.endpoint = Hub
  /\ trip.at = "server" =>
       /\ ExtractToolCall(trip.doc).outcome # "error"
       /\ CallsTool(trip.doc) =>
            <<trip.endpoint, ExtractToolCall(trip.doc).tool>> \in granted
  /\ trip.at \in {"call", "fanOut"} => ParseRequestBody(trip.doc) = "request"
  /\ trip.at = "call" => trip.doc.method = "tools/call"
  /\ trip.at = "fanOut" =>
       trip.doc.method \in {"tools/list", "initialize", "notifications/initialized"}

\* A row of the audit log next to that of the activity log.
Matches(entry, meta) ==
  /\ entry.request = meta.request
  /\ meta.method # Nothing => entry.method = meta.method
  /\ meta.server # Hub => entry.server = meta.server
  /\ entry.tool # Nothing =>
       meta.tool = IF entry.server = meta.server THEN entry.tool
                   ELSE <<entry.server, entry.tool>>

TripInv ==
  /\ trip \in [at : TripPlaces, doc : Documents, endpoint : McpServers \cup {Hub},
               headers : SUBSET Sends]
  /\ granted \subseteq McpServers \X McpTools
  /\ RightPlace
  /\ activity \in {Nothing, ParseMcpMeta(trip.doc)}
  /\ audit = Nothing \/ Matches(audit, ParseMcpMeta(trip.doc))
  /\ ServersGetWhatWasJudged

\* What a document has, whatever it is.
LEMMA DocumentFields ==
  ASSUME NEW d \in Documents
  PROVE  /\ DOMAIN d = {"form", "version", "method", "id", "params", "name"}
         /\ d.form \in {"unreadable", "batch", "scalar", "object"}
         /\ d.method \in Methods \cup {Nothing} /\ d.name \in CalledNames \cup {Nothing}
         /\ d.method # Nothing => d.form = "object"
         /\ d.params \in {"object", "list"}
<1>1. CASE \E form \in {"unreadable", "batch", "scalar"} : d = NoRequest(form)
  BY <1>1 DEF NoRequest
<1>2. CASE d \in [form : {"object"}, version : {"2.0"}, method : Methods \cup {Nothing},
                  id : Ids, params : {"object"}, name : {Nothing}]
  BY <1>2
<1>3. CASE d \in [form : {"object"}, version : {"2.0", "1.0"}, method : {"tools/call"},
                  id : Ids, params : {"object", "list"}, name : CalledNames]
  <2>1. d.method \in Methods
    BY <1>3 DEF Methods, ClientMethods
  <2>. QED
    BY <1>3, <2>1
<1>. QED
  BY <1>1, <1>2, <1>3 DEF Documents

\* Both programs make the same of one document.
LEMMA CallOfDocument ==
  ASSUME NEW d \in Documents
  PROVE  LET call == ExtractToolCall(d) IN
         /\ call.outcome \in {"error", "none", "call"}
         /\ call.outcome = "call" =>
              d.form = "object" /\ d.id = "given" /\ call.method = d.method /\ call.method # Nothing
         /\ call.outcome # "call" => call.method = Nothing /\ call.tool = Nothing
         /\ CallsTool(d) => call.tool = d.name /\ d.name # Nothing
         /\ ~CallsTool(d) => call.tool = Nothing
         /\ call.outcome # "error" /\ d.method = "tools/call" /\ d.id = "given" => CallsTool(d)
         /\ call.outcome # "error" => d.form # "batch"
<1>. DEFINE call == ExtractToolCall(d)
<1>1. /\ d.form \in {"unreadable", "batch", "scalar", "object"}
      /\ d.method \in Methods \cup {Nothing}
      /\ d.method # Nothing => d.form = "object"
  BY DocumentFields
<1>2. "tools/call" # Nothing /\ Nothing \notin ClientMethods
  BY NothingAssumption DEF Methods, ClientMethods
<1>3. CASE ParseRequestBody(d) \in {"error", "batch"}
  BY <1>3, <1>1, <1>2 DEF ExtractToolCall, ToolCall, CallsTool
<1>4. CASE ParseRequestBody(d) = "none"
  <2>1. d.form = "scalar"
    BY <1>4 DEF ParseRequestBody
  <2>2. call.outcome = "none" /\ call.method = Nothing /\ call.tool = Nothing
    BY <1>4 DEF ExtractToolCall, ToolCall
  <2>. QED
    BY <1>1, <1>2, <2>1, <2>2 DEF CallsTool
<1>5. CASE ParseRequestBody(d) = "request"
  <2>1. d.form = "object"
    BY <1>5 DEF ParseRequestBody
  <2>2. CASE ~IsClientRequest(d)
    <3>1. call.outcome = "none" /\ call.method = Nothing /\ call.tool = Nothing
      BY <1>5, <2>2 DEF ExtractToolCall, ToolCall
    <3>2. ~(d.method = "tools/call" /\ d.id = "given")
      BY <2>2 DEF IsClientRequest, ClientMethods
    <3>. QED
      BY <2>1, <3>1, <3>2 DEF CallsTool
  <2>3. CASE IsClientRequest(d) /\ d.method # "tools/call"
    <3>1. call.outcome = "call" /\ call.method = d.method /\ call.tool = Nothing
      BY <1>5, <2>3 DEF ExtractToolCall, ToolCall
    <3>. QED
      BY <1>2, <2>1, <2>3, <3>1 DEF CallsTool, IsClientRequest
  <2>4. CASE IsClientRequest(d) /\ d.method = "tools/call"
    <3>1. IF d.name = Nothing
          THEN call.outcome = "error" /\ call.method = Nothing /\ call.tool = Nothing
          ELSE call.outcome = "call" /\ call.method = d.method /\ call.tool = d.name
      BY <1>5, <2>4 DEF ExtractToolCall, ToolCall
    <3>. QED
      BY <1>2, <2>1, <2>4, <3>1 DEF CallsTool, IsClientRequest
  <2>. QED
    BY <2>2, <2>3, <2>4
<1>. QED
  BY <1>3, <1>4, <1>5 DEF ParseRequestBody

\* The relay's own id is the only one that arrives, whatever the agent sends.
LEMMA RequestIdIsOurs ==
  ASSUME TripInv
  PROVE  RequestId = "relay"
<1>1. ForwardRequest(trip.headers) = <<>> \o <<"relay">>
  BY DEF ForwardRequest, BuildForwardHeaders, Forwardable
<1>. QED
  BY <1>1 DEF RequestId

LEMMA MetaFields ==
  ASSUME NEW d \in Documents
  PROVE  /\ ParseMcpMeta(d).server = trip.endpoint /\ ParseMcpMeta(d).request = "relay"
         /\ ParseMcpMeta(d).method = ExtractToolCall(d).method
         /\ ParseMcpMeta(d).tool = ExtractToolCall(d).tool
BY DEF ParseMcpMeta

\* A step that leaves the document alone and audits at most what matches.
LEMMA TripGoesOn ==
  ASSUME TripInv, NEW place \in TripPlaces, Go(place), RightPlace', UNCHANGED granted,
         activity' \in {activity, Nothing, ParseMcpMeta(trip.doc)},
         audit' \in {audit, Nothing} \/ Matches(audit', ParseMcpMeta(trip.doc)),
         ServersGetWhatWasJudged'
  PROVE  TripInv'
<1>1. /\ trip' \in [at : TripPlaces, doc : Documents, endpoint : McpServers \cup {Hub},
                    headers : SUBSET Sends]
      /\ trip'.doc = trip.doc /\ trip'.endpoint = trip.endpoint
  BY DEF TripInv, Go
<1>2. ParseMcpMeta(trip.doc)' = ParseMcpMeta(trip.doc)
  BY <1>1 DEF ParseMcpMeta
<1>3. (activity \in {Nothing, ParseMcpMeta(trip.doc)})'
  BY <1>2 DEF TripInv
<1>4. (audit = Nothing \/ Matches(audit, ParseMcpMeta(trip.doc)))'
  BY <1>2 DEF TripInv, Matches
<1>. QED
  BY <1>1, <1>3, <1>4 DEF TripInv

LEMMA GoChanges ==
  ASSUME TripInv, NEW place \in TripPlaces, Go(place)
  PROVE  trip'.at = place /\ trip'.doc = trip.doc /\ trip'.endpoint = trip.endpoint
BY DEF TripInv, Go

\* Nobody judges a request that is answered.
LEMMA AnsweredIsRight ==
  ASSUME TripInv, NEW place \in {"relay", "over"}, Go(place)
  PROVE  RightPlace'
<1>1. trip'.at = place
  BY GoChanges DEF TripPlaces
<1>. QED
  BY <1>1 DEF RightPlace

\* What ServersGetWhatWasJudged says of one received document.
JudgedAt(r, endpoint) ==
  LET named == IF endpoint = Hub /\ r.doc.params = "list" THEN r.doc.name
               ELSE <<r.server, r.doc.name>>
  IN /\ r.doc.form # "batch"
     /\ r.doc.method = "tools/call" =>
          \/ named \in granted /\ named[1] = r.server
          \/ endpoint # Hub /\ r.doc.id # "given"

LEMMA OnlyJudgedReceived ==
  ASSUME TripInv, NEW place \in TripPlaces, Go(place), UNCHANGED granted,
         \A r \in received' : r \in received \/ JudgedAt(r, trip.endpoint)
  PROVE  ServersGetWhatWasJudged'
<1>1. trip'.endpoint = trip.endpoint
  BY GoChanges
<1>2. \A r \in received : JudgedAt(r, trip.endpoint)
  BY DEF TripInv, ServersGetWhatWasJudged, Named, JudgedAt
<1>3. \A r \in received' : JudgedAt(r, trip.endpoint)
  BY <1>2
<1>. QED
  BY <1>1, <1>3 DEF ServersGetWhatWasJudged, Named, JudgedAt

LEMMA NothingReceived ==
  ASSUME TripInv, NEW place \in TripPlaces, Go(place), UNCHANGED <<received, granted>>
  PROVE  ServersGetWhatWasJudged'
BY OnlyJudgedReceived

LEMMA NothingReceivedWithAudit ==
  ASSUME TripInv, NEW server, NEW method, NEW tool, NEW decision,
         RecordMcpAudit(server, method, tool, decision), UNCHANGED received
  PROVE  ServersGetWhatWasJudged'
BY NothingReceived DEF RecordMcpAudit, TripPlaces

\* An answer that is audited, with a row that matches.
LEMMA AuditKeeps ==
  ASSUME TripInv, NEW server, NEW method, NEW tool, NEW decision,
         RecordMcpAudit(server, method, tool, decision),
         LET meta == ParseMcpMeta(trip.doc) IN
           /\ meta.method # Nothing => method = meta.method
           /\ meta.server # Hub => server = meta.server
           /\ tool # Nothing =>
                meta.tool = IF server = meta.server THEN tool ELSE <<server, tool>>,
         ServersGetWhatWasJudged'
  PROVE  TripInv'
<1>. DEFINE entry == [server |-> server, method |-> method, tool |-> tool,
                      decision |-> decision, request |-> RequestId]
<1>1. audit' \in {entry, Nothing} /\ Go("relay") /\ UNCHANGED <<granted, activity>>
  BY DEF RecordMcpAudit
<1>2. trip.doc \in Documents
  BY DEF TripInv
<1>3. /\ entry.server = server /\ entry.method = method /\ entry.tool = tool
      /\ entry.request = ParseMcpMeta(trip.doc).request
  BY <1>2, RequestIdIsOurs, MetaFields
<1>. HIDE DEF entry
<1>4. Matches(entry, ParseMcpMeta(trip.doc))
  BY <1>3 DEF Matches
<1>5. RightPlace'
  BY <1>1, AnsweredIsRight
<1>6. audit' \in {audit, Nothing} \/ Matches(audit', ParseMcpMeta(trip.doc))
  BY <1>1, <1>4
<1>. QED
  BY <1>1, <1>5, <1>6, TripGoesOn DEF TripPlaces

\* What fits a row of the hub, of which a request that is none has no method.
LEMMA HubAuditKeeps ==
  ASSUME TripInv, trip.at \in {"hub", "call", "fanOut"}, NEW tool, NEW decision,
         tool \in {Nothing, ExtractToolCall(trip.doc).tool},
         RecordHubAudit(trip.doc.method, tool, decision),
         ServersGetWhatWasJudged'
  PROVE  TripInv'
<1>1. trip.endpoint = Hub /\ trip.doc \in Documents
  BY DEF TripInv, RightPlace
<1>2. ParseMcpMeta(trip.doc).method # Nothing =>
        ParseMcpMeta(trip.doc).method = trip.doc.method
  BY <1>1, MetaFields, CallOfDocument
<1>3. ParseMcpMeta(trip.doc).server = Hub
  BY <1>1, MetaFields
<1>4. tool # Nothing => ParseMcpMeta(trip.doc).tool = tool
  BY <1>1, MetaFields
<1>. QED
  BY <1>2, <1>3, <1>4, AuditKeeps DEF RecordHubAudit

LEMMA RunHandlerKeeps ==
  ASSUME TripInv, RunHandler
  PROVE  TripInv'
<1>1. PICK place \in {IF trip.endpoint = Hub THEN "hub" ELSE "permissions", "relay", "over"} :
        Go(place)
  BY DEF RunHandler
<1>2. place \in TripPlaces
  BY DEF TripPlaces
<1>3. trip'.at = place /\ trip'.doc = trip.doc /\ trip'.endpoint = trip.endpoint
  BY <1>1, <1>2, GoChanges
<1>4. UNCHANGED <<granted, received, activity, audit>>
  BY DEF RunHandler
<1>5. trip.endpoint \in McpServers \cup {Hub}
  BY DEF TripInv
<1>6. RightPlace'
  BY <1>3, <1>5, HubAssumption DEF RightPlace
<1>7. ServersGetWhatWasJudged'
  BY <1>1, <1>2, <1>4, NothingReceived
<1>. QED
  BY <1>1, <1>2, <1>4, <1>6, <1>7, TripGoesOn

LEMMA RelayKeeps ==
  ASSUME TripInv, RecordActivity \/ GiveUp
  PROVE  TripInv'
<1>1. PICK place \in {"relay", "over"} : Go(place)
  BY DEF RecordActivity, GiveUp
<1>2. /\ UNCHANGED <<granted, received, audit>>
      /\ activity' \in {activity, Nothing, ParseMcpMeta(trip.doc)}
  BY DEF RecordActivity, GiveUp
<1>3. RightPlace'
  BY <1>1, AnsweredIsRight
<1>4. ServersGetWhatWasJudged'
  BY <1>1, <1>2, NothingReceived DEF TripPlaces
<1>. QED
  BY <1>1, <1>2, <1>3, <1>4, TripGoesOn DEF TripPlaces

\* The rows of /mcp/{server} name the server, and the tool that both read.
LEMMA ServerAuditKeeps ==
  ASSUME TripInv, trip.at \in {"permissions", "server"}, NEW method, NEW decision,
         method = IF ExtractToolCall(trip.doc).outcome = "call"
                  THEN ExtractToolCall(trip.doc).method ELSE "unknown",
         RecordMcpAudit(trip.endpoint, method, ExtractToolCall(trip.doc).tool, decision),
         ServersGetWhatWasJudged'
  PROVE  TripInv'
<1>1. trip.doc \in Documents
  BY DEF TripInv
<1>2. ParseMcpMeta(trip.doc).method # Nothing => method = ParseMcpMeta(trip.doc).method
  BY <1>1, MetaFields, CallOfDocument
<1>3. /\ ParseMcpMeta(trip.doc).server = trip.endpoint
      /\ ParseMcpMeta(trip.doc).tool = ExtractToolCall(trip.doc).tool
  BY <1>1, MetaFields
<1>. QED
  BY <1>2, <1>3, AuditKeeps

LEMMA PermissionsKeep ==
  ASSUME TripInv, McpPermissions
  PROVE  TripInv'
<1>. DEFINE call   == ExtractToolCall(trip.doc)
            method == IF call.outcome = "call" THEN call.method ELSE "unknown"
<1>1. trip.at = "permissions" /\ UNCHANGED received /\ trip.doc \in Documents
  BY DEF McpPermissions, TripInv
<1>2. CASE RecordMcpAudit(trip.endpoint, method, call.tool, "denied")
  <2>1. ServersGetWhatWasJudged'
    BY <1>1, <1>2, NothingReceivedWithAudit
  <2>. QED
    BY <1>1, <1>2, <2>1, ServerAuditKeeps
<1>3. CASE ~RecordMcpAudit(trip.endpoint, method, call.tool, "denied")
  <2>1. /\ Go("server") /\ UNCHANGED <<granted, activity, audit>>
        /\ call.outcome # "error"
        /\ (call.outcome # "none" /\ call.method = "tools/call") =>
             <<trip.endpoint, call.tool>> \in granted
    BY <1>3 DEF McpPermissions
  <2>2. trip'.at = "server" /\ trip'.doc = trip.doc /\ trip'.endpoint = trip.endpoint
    BY <2>1, GoChanges DEF TripPlaces
  <2>3. trip.endpoint \in McpServers
    BY <1>1 DEF TripInv, RightPlace
  <2>4. CallsTool(trip.doc) => call.outcome # "none" /\ call.method = "tools/call"
    BY <1>1, CallOfDocument DEF CallsTool
  <2>5. RightPlace'
    BY <2>1, <2>2, <2>3, <2>4 DEF RightPlace
  <2>6. ServersGetWhatWasJudged'
    BY <1>1, <2>1, NothingReceived DEF TripPlaces
  <2>. QED
    BY <2>1, <2>5, <2>6, TripGoesOn DEF TripPlaces
<1>. QED
  BY <1>2, <1>3

\* The document that passed is the document that is sent.
LEMMA McpHandlerKeeps ==
  ASSUME TripInv, McpHandler
  PROVE  TripInv'
<1>. DEFINE call   == ExtractToolCall(trip.doc)
            method == IF call.outcome = "call" THEN call.method ELSE "unknown"
<1>1. trip.at = "server" /\ trip.doc \in Documents
  BY DEF McpHandler, TripInv
<1>2. CASE Forward /\ RecordAudit(method, call.tool)
  <2>1. RecordMcpAudit(trip.endpoint, method, call.tool, "allowed") /\ granted' = granted
    BY <1>2 DEF RecordAudit, RecordMcpAudit
  <2>2. /\ call.outcome # "error"
        /\ CallsTool(trip.doc) => <<trip.endpoint, call.tool>> \in granted
    BY <1>1 DEF TripInv, RightPlace
  <2>3. /\ trip.doc.form # "batch"
        /\ trip.doc.method = "tools/call" /\ trip.doc.id = "given" =>
             <<trip.endpoint, trip.doc.name>> \in granted
    BY <1>1, <2>2, CallOfDocument
  <2>4. \A r \in received' \ received : r = [server |-> trip.endpoint, doc |-> trip.doc]
    BY <1>2 DEF Forward
  <2>5. trip.endpoint # Hub
    BY <1>1, HubAssumption DEF TripInv, RightPlace
  <2>6. ASSUME NEW r \in received'
        PROVE  r \in received \/ JudgedAt(r, trip.endpoint)
    <3>1. CASE r \notin received
      <4>1. r.server = trip.endpoint /\ r.doc = trip.doc
        BY <2>4, <3>1
      <4>. QED
        BY <2>3, <2>5, <4>1 DEF JudgedAt
    <3>. QED
      BY <3>1
  <2>7. ServersGetWhatWasJudged'
    BY <2>1, <2>6, OnlyJudgedReceived DEF RecordMcpAudit, TripPlaces
  <2>. QED
    BY <1>1, <2>1, <2>7, ServerAuditKeeps
<1>3. CASE Go("relay") /\ UNCHANGED <<granted, received, activity, audit>>
  <2>1. RightPlace' /\ ServersGetWhatWasJudged'
    BY <1>3, AnsweredIsRight, NothingReceived DEF TripPlaces
  <2>. QED
    BY <1>3, <2>1, TripGoesOn DEF TripPlaces
<1>. QED
  BY <1>2, <1>3 DEF McpHandler

LEMMA HubKeeps ==
  ASSUME TripInv, McpHubHandler
  PROVE  TripInv'
<1>. DEFINE d == trip.doc
<1>1. trip.at = "hub" /\ UNCHANGED received
  BY DEF McpHubHandler
<1>2. PICK place \in TripPlaces, decision \in {"denied", "allowed"} :
        \/ RecordHubAudit(d.method, Nothing, decision)
        \/ /\ Go(place) /\ UNCHANGED <<granted, activity, audit>>
           /\ \/ place = "relay"
              \/ /\ ParseRequestBody(d) = "request"
                 /\ \/ place = "call" /\ d.method = "tools/call"
                    \/ /\ place = "fanOut"
                       /\ d.method \in {"tools/list", "initialize", "notifications/initialized"}
  <2>1. {"relay", "call", "fanOut"} \subseteq TripPlaces
    BY DEF TripPlaces
  <2>2. \/ \E decision \in {"denied", "allowed"} : RecordHubAudit(d.method, Nothing, decision)
        \/ \E place \in {"relay", "call", "fanOut"} :
             /\ Go(place) /\ UNCHANGED <<granted, activity, audit>>
             /\ \/ place = "relay"
                \/ /\ ParseRequestBody(d) = "request"
                   /\ \/ place = "call" /\ d.method = "tools/call"
                      \/ /\ place = "fanOut"
                         /\ d.method \in {"tools/list", "initialize", "notifications/initialized"}
    BY DEF McpHubHandler
  <2>. QED
    BY <2>1, <2>2
<1>3. CASE RecordHubAudit(d.method, Nothing, decision)
  <2>1. ServersGetWhatWasJudged'
    BY <1>1, <1>3, NothingReceivedWithAudit DEF RecordHubAudit
  <2>. QED
    BY <1>1, <1>3, <2>1, HubAuditKeeps
<1>4. CASE ~RecordHubAudit(d.method, Nothing, decision)
  <2>1. /\ Go(place) /\ UNCHANGED <<granted, activity, audit>>
        /\ \/ place = "relay"
           \/ /\ ParseRequestBody(d) = "request"
              /\ \/ place = "call" /\ d.method = "tools/call"
                 \/ /\ place = "fanOut"
                    /\ d.method \in {"tools/list", "initialize", "notifications/initialized"}
    BY <1>2, <1>4
  <2>2. trip'.at = place /\ trip'.doc = d /\ trip'.endpoint = Hub
    BY <1>1, <2>1, GoChanges DEF TripInv, RightPlace
  <2>3. RightPlace'
    BY <2>1, <2>2 DEF RightPlace
  <2>4. ServersGetWhatWasJudged'
    BY <1>1, <2>1, NothingReceived
  <2>. QED
    BY <2>1, <2>3, <2>4, TripGoesOn
<1>. QED
  BY <1>3, <1>4

LEMMA RefusesKeeps ==
  ASSUME TripInv, HubRefuses
  PROVE  TripInv'
<1>1. trip.at = "call" /\ trip.doc.method = "tools/call"
  BY DEF HubRefuses, TripInv, RightPlace
<1>2. RecordHubAudit(trip.doc.method, ExtractToolCall(trip.doc).tool, "denied")
  BY <1>1 DEF HubRefuses
<1>3. ServersGetWhatWasJudged'
  BY <1>2, NothingReceivedWithAudit DEF HubRefuses, RecordHubAudit
<1>. QED
  BY <1>1, <1>2, <1>3, HubAuditKeeps

\* What a server receives of a call is the tool that was granted.
LEMMA ToolsCallKeeps ==
  ASSUME TripInv, HandleToolsCall
  PROVE  TripInv'
<1>. DEFINE d      == trip.doc
            call   == ExtractToolCall(d)
            server == call.tool[1]
            tool   == call.tool[2]
<1>1. /\ trip.at = "call" /\ d \in Documents /\ d.method = "tools/call"
      /\ trip.endpoint = Hub /\ CallsTool(d)
      /\ call.tool = d.name /\ call.method = d.method
      /\ call.tool \in McpServers \X McpTools
  <2>1. trip.at = "call" /\ d \in Documents /\ call.outcome = "call" /\ NamesServer(call.tool)
    BY DEF HandleToolsCall, TripInv
  <2>2. d.method = "tools/call" /\ trip.endpoint = Hub
    BY <2>1 DEF TripInv, RightPlace
  <2>. QED
    BY <2>1, <2>2, CallOfDocument DEF NamesServer, CallsTool
<1>2. server \in McpServers /\ tool \in McpTools /\ call.tool = <<server, tool>>
  BY <1>1
<1>3. server # Hub
  BY <1>2, HubAssumption
<1>4. PICK decision \in {"allowed", "denied"} :
        /\ RecordMcpAudit(server, "tools/call", tool, decision)
        /\ \/ call.tool \in granted /\ CallUpstream(server, RewriteToolName(d, tool))
           \/ UNCHANGED received
  BY DEF HandleToolsCall
<1>5. granted' = granted /\ Go("relay")
  BY <1>4 DEF RecordMcpAudit
<1>6. ServersGetWhatWasJudged'
  <2>1. CASE UNCHANGED received
    BY <1>5, <2>1, NothingReceived DEF TripPlaces
  <2>2. CASE call.tool \in granted /\ CallUpstream(server, RewriteToolName(d, tool))
    <3>. DEFINE sent == RewriteToolName(d, tool)
    <3>1. /\ sent.form = d.form /\ sent.params = d.params
          /\ sent.name = IF d.params = "list" THEN d.name ELSE tool
      <4>1. CASE d.params = "object"
        <5>1. sent = [d EXCEPT !.name = tool]
              /\ DOMAIN d = {"form", "version", "method", "id", "params", "name"}
          BY <1>1, <4>1, DocumentFields DEF RewriteToolName
        <5>. QED
          BY <4>1, <5>1
      <4>2. CASE d.params = "list"
        BY <4>2 DEF RewriteToolName
      <4>. QED
        BY <1>1, <4>1, <4>2, DocumentFields
    <3>2. d.form = "object"
      BY <1>1, CallOfDocument DEF CallsTool
    <3>3. \A r \in received' : r \in received \/ r = [server |-> server, doc |-> sent]
      BY <2>2 DEF CallUpstream
    <3>. HIDE DEF sent
    <3>4. ASSUME NEW r \in received', r = [server |-> server, doc |-> sent]
          PROVE  JudgedAt(r, trip.endpoint)
      <4>1. r.server = server /\ r.doc = sent /\ r.doc.form # "batch"
        BY <3>1, <3>2, <3>4
      <4>2. d.name = <<server, tool>> /\ <<server, tool>> \in granted
        BY <1>1, <1>2, <2>2
      <4>3. (IF trip.endpoint = Hub /\ r.doc.params = "list" THEN r.doc.name
             ELSE <<r.server, r.doc.name>>) = <<server, tool>>
        BY <1>1, <3>1, <4>1, <4>2
      <4>. HIDE DEF server, tool, d
      <4>. QED
        BY <4>1, <4>2, <4>3 DEF JudgedAt
    <3>. QED
      BY <1>5, <3>3, <3>4, OnlyJudgedReceived DEF TripPlaces
  <2>. QED
    BY <1>4, <2>1, <2>2
<1>7. /\ ParseMcpMeta(d).method = "tools/call" /\ ParseMcpMeta(d).server = Hub
      /\ ParseMcpMeta(d).tool = <<server, tool>>
  BY <1>1, <1>2, MetaFields
<1>. HIDE DEF server, tool, d
<1>. QED
  BY <1>3, <1>4, <1>6, <1>7, AuditKeeps DEF d

\* What the hub fans out is no call.
LEMMA FanOutKeeps ==
  ASSUME TripInv, NEW d, d.form # "batch", d.method # "tools/call", FanOut(d),
         UNCHANGED granted, Go("relay")
  PROVE  ServersGetWhatWasJudged'
<1>1. ASSUME NEW r \in received'
      PROVE  r \in received \/ JudgedAt(r, trip.endpoint)
  <2>1. CASE r \notin received
    <3>1. PICK s \in McpServers : r = [server |-> s, doc |-> d]
      BY <2>1 DEF FanOut
    <3>2. r.doc = d
      BY <3>1
    <3>. QED
      BY <3>2 DEF JudgedAt
  <2>. QED
    BY <2>1
<1>. QED
  BY <1>1, OnlyJudgedReceived DEF TripPlaces

LEMMA FannedOutKeeps ==
  ASSUME TripInv, HandleToolsList \/ HandleInitialize \/ BroadcastNotification
  PROVE  TripInv'
<1>. DEFINE d == trip.doc
<1>1. trip.at = "fanOut" /\ d \in Documents
  BY DEF HandleToolsList, HandleInitialize, BroadcastNotification, TripInv
<1>2. d.form = "object" /\ d.method # "tools/call"
  <2>1. ParseRequestBody(d) = "request"
        /\ d.method \in {"tools/list", "initialize", "notifications/initialized"}
    BY <1>1 DEF TripInv, RightPlace
  <2>. QED
    BY <2>1, <1>1, DocumentFields DEF ParseRequestBody
<1>3. InitializeRequest.form = "object" /\ InitializeRequest.method = "initialize"
  BY DEF InitializeRequest
<1>4. CASE FanOut(d) /\ RecordHubAudit("tools/list", Nothing, "allowed") /\ d.method = "tools/list"
  <2>1. UNCHANGED granted /\ Go("relay")
    BY <1>4 DEF RecordHubAudit, RecordMcpAudit
  <2>2. ServersGetWhatWasJudged'
    BY <1>2, <1>4, <2>1, FanOutKeeps
  <2>3. RecordHubAudit(d.method, Nothing, "allowed")
    BY <1>4
  <2>. QED
    BY <1>1, <2>2, <2>3, HubAuditKeeps
<1>5. CASE /\ Go("relay") /\ UNCHANGED <<granted, activity, audit>>
           /\ FanOut(d) \/ FanOut(InitializeRequest) \/ UNCHANGED received
  <2>1. ServersGetWhatWasJudged'
    BY <1>2, <1>3, <1>5, FanOutKeeps, NothingReceived DEF TripPlaces
  <2>2. RightPlace'
    BY <1>5, AnsweredIsRight
  <2>. QED
    BY <1>5, <2>1, <2>2, TripGoesOn DEF TripPlaces
<1>. QED
  BY <1>4, <1>5 DEF HandleToolsList, HandleInitialize, BroadcastNotification

\* What a request has passed it has passed as the document it is, and both
\* logs have what both programs read in it (mcp_permissions_middleware,
\* handle_tools_call; run_handler of the relay).
THEOREM TripInvariant == TripSpec => []TripInv
<1>1. TripInit => TripInv
  <2>. SUFFICES ASSUME TripInit PROVE TripInv
    OBVIOUS
  <2>1. trip \in [at : {"agent"}, doc : Documents, endpoint : McpServers \cup {Hub},
                  headers : SUBSET Sends]
    BY DEF TripInit
  <2>2. trip.at = "agent"
    BY <2>1
  <2>3. trip \in [at : TripPlaces, doc : Documents, endpoint : McpServers \cup {Hub},
                  headers : SUBSET Sends]
    BY <2>1 DEF TripPlaces
  <2>. QED
    BY <2>2, <2>3 DEF TripInit, TripInv, RightPlace, ServersGetWhatWasJudged
<1>2. TripInv /\ [TripNext]_tripVars => TripInv'
  <2>. SUFFICES ASSUME TripInv, [TripNext]_tripVars PROVE TripInv'
    OBVIOUS
  <2>1. CASE RunHandler
    BY <2>1, RunHandlerKeeps
  <2>2. CASE RecordActivity \/ GiveUp
    BY <2>2, RelayKeeps
  <2>3. CASE McpPermissions
    BY <2>3, PermissionsKeep
  <2>4. CASE McpHandler
    BY <2>4, McpHandlerKeeps
  <2>5. CASE McpHubHandler
    BY <2>5, HubKeeps
  <2>6. CASE HubRefuses
    BY <2>6, RefusesKeeps
  <2>7. CASE HandleToolsCall
    BY <2>7, ToolsCallKeeps
  <2>8. CASE HandleToolsList \/ HandleInitialize \/ BroadcastNotification
    BY <2>8, FannedOutKeeps
  <2>9. CASE UNCHANGED tripVars
    BY <2>9 DEF tripVars, TripInv, RightPlace, Matches, ParseMcpMeta, CallsTool,
                ServersGetWhatWasJudged, Named
  <2>. QED
    BY <2>1, <2>2, <2>3, <2>4, <2>5, <2>6, <2>7, <2>8, <2>9 DEF TripNext
<1>. QED
  BY <1>1, <1>2, PTL DEF TripSpec

\* A call that a server receives was granted under the name that the server
\* reads, and the two logs of a request name the same method, server and tool
\* (mcp_permissions_middleware and handle_tools_call; forward_request of the
\* relay, whose request id is the one that counts).
THEOREM OneRequest == TripSpec => []OneRequestThroughout
<1>1. TripInv => OneRequestThroughout
  <2>. SUFFICES ASSUME TripInv PROVE LogsAgree
    BY DEF OneRequestThroughout, TripInv
  <2>1. activity \in {Nothing, ParseMcpMeta(trip.doc)}
        /\ (audit = Nothing \/ Matches(audit, ParseMcpMeta(trip.doc)))
    BY DEF TripInv
  <2>2. (activity # Nothing /\ audit # Nothing) => Matches(audit, activity)
    BY <2>1
  <2>. QED
    BY <2>2 DEF LogsAgree, Matches
<1>. QED
  BY <1>1, TripInvariant, PTL

-----------------------------------------------------------------------------
(* RateLimiter *)

LEMMA SmallerOfTwo ==
  ASSUME NEW a \in Int, NEW b \in Int
  PROVE  Min({a, b}) = IF a <= b THEN a ELSE b
BY DEF Min

LEMMA LargerOfTwo ==
  ASSUME NEW a \in Int, NEW b \in Int
  PROVE  Max({a, b}) = IF a >= b THEN a ELSE b
BY DEF Max

LEMMA RoundedUp ==
  ASSUME NEW a \in Int, NEW c \in Nat \ {0}
  PROVE  LET q == (a + c - 1) \div c IN q \in Int /\ c * q >= a
OBVIOUS

LEMMA MoreTimes ==
  ASSUME NEW a \in Int, NEW b \in Int, NEW c \in Nat, a <= b
  PROVE  c * a \in Int /\ c * b \in Int /\ c * a <= c * b
OBVIOUS

LEMMA RateConstants ==
  /\ Capacity \in Nat \ {0} /\ Window \in Nat \ {0} /\ MaxClock \in Nat
  /\ EvictAfterWindows \in Nat \ {0} /\ EvictEveryNCalls \in Nat \ {0}
  /\ FullLevel \in Nat /\ FullLevel >= Window /\ FullLevel = Capacity * Window
<1>1. /\ Capacity \in Nat \ {0} /\ Window \in Nat \ {0} /\ MaxClock \in Nat
      /\ EvictAfterWindows \in Nat \ {0} /\ EvictEveryNCalls \in Nat \ {0}
  BY RateAssumption
<1>2. Window * 1 <= Window * Capacity
  BY <1>1, MoreTimes
<1>. QED
  BY <1>1, <1>2 DEF FullLevel

\* What is refilled in some seconds, what some requests take, and what a bucket
\* that was set at a time is worth at another.  The proofs go by the facts that
\* follow, and never multiply.
Refilled(seconds) == Capacity * seconds
Taken(requests) == requests * Window
Worth(level, set, time) ==
  LET l == level + Refilled(Since(time, set)) IN IF FullLevel <= l THEN FullLevel ELSE l

LEMMA RefilledFacts ==
  /\ \A a \in Nat : Refilled(a) \in Nat
  /\ \A a, b \in Nat : a <= b => Refilled(a) <= Refilled(b)
  /\ \A a, b \in Nat : Refilled(a + b) = Refilled(a) + Refilled(b)
  /\ FullLevel = Refilled(Window) /\ Refilled(0) = 0
BY RateConstants, MoreTimes DEF Refilled

LEMMA TakenFacts ==
  /\ \A n \in Nat : Taken(n) \in Nat /\ Taken(n + 1) = Taken(n) + Window
  /\ Taken(1) = Window
BY RateConstants DEF Taken

LEMMA SinceFacts ==
  ASSUME NEW time \in Nat, NEW set \in Nat
  PROVE  /\ Since(time, set) \in Nat
         /\ set <= time => Since(time, set) = time - set
         /\ time <= set => Since(time, set) = 0
BY DEF Since

LEMMA WorthRange ==
  ASSUME NEW l \in 0..FullLevel, NEW u \in Nat, NEW t \in Nat
  PROVE  /\ Worth(l, u, t) \in 0..FullLevel
         /\ l <= Worth(l, u, t)
         /\ Refilled(Since(t, u)) \in Nat
         /\ Worth(l, u, t) <= l + Refilled(Since(t, u))
<1>. DEFINE refill == Refilled(Since(t, u))
<1>1. refill \in Nat
  BY SinceFacts, RefilledFacts
<1>2. Worth(l, u, t) = IF FullLevel <= l + refill THEN FullLevel ELSE l + refill
  BY DEF Worth
<1>. HIDE DEF refill
<1>3. /\ Worth(l, u, t) \in 0..FullLevel /\ l <= Worth(l, u, t)
      /\ Worth(l, u, t) <= l + refill
  BY <1>1, <1>2, RateConstants
<1>. QED
  BY <1>1, <1>3 DEF refill

\* Time adds to a bucket, but no more than it refills.
LEMMA WorthGrows ==
  ASSUME NEW l \in 0..FullLevel, NEW u \in Nat, NEW s \in Nat, NEW t \in Nat, s <= t
  PROVE  /\ Worth(l, u, s) <= Worth(l, u, t)
         /\ Worth(l, u, t) <= Worth(l, u, s) + Refilled(t - s)
<1>. DEFINE a == Since(s, u)
            b == Since(t, u)
            d == t - s
<1>1. a \in Nat /\ b \in Nat /\ d \in Nat /\ a <= b /\ b <= a + d
  BY DEF Since
<1>2. /\ Worth(l, u, s) = IF FullLevel <= l + Refilled(a) THEN FullLevel ELSE l + Refilled(a)
      /\ Worth(l, u, t) = IF FullLevel <= l + Refilled(b) THEN FullLevel ELSE l + Refilled(b)
  BY DEF Worth
<1>. HIDE DEF a, b, d
<1>3. /\ Refilled(a) \in Nat /\ Refilled(b) \in Nat /\ Refilled(d) \in Nat
      /\ Refilled(a) <= Refilled(b) /\ Refilled(b) <= Refilled(a + d)
      /\ Refilled(a + d) = Refilled(a) + Refilled(d)
  <2>1. a + d \in Nat
    BY <1>1
  <2>. QED
    BY <1>1, <2>1, RefilledFacts
<1>4. /\ Worth(l, u, s) <= Worth(l, u, t)
      /\ Worth(l, u, t) <= Worth(l, u, s) + Refilled(d)
  BY <1>2, <1>3, RateConstants
<1>. QED
  BY <1>4 DEF d

\* A call that read the clock before time, and sets the level to x: what the
\* bucket is worth gains no more than what is refilled in the call's wait.
LEMMA LateGain ==
  ASSUME NEW l \in 0..FullLevel, NEW u \in Nat, NEW read \in Nat, NEW time \in Nat,
         read <= time, NEW x \in 0..Worth(l, u, read)
  PROVE  Worth(x, read, time) + (Worth(l, u, read) - x)
           <= Worth(l, u, time) + Refilled(time - read)
<1>. DEFINE v == Worth(l, u, read)
            w == Worth(l, u, time)
            y == Worth(x, read, time)
            g == Refilled(time - read)
<1>1. v \in 0..FullLevel /\ w \in 0..FullLevel /\ v <= w
  BY WorthRange, WorthGrows
<1>2. x \in 0..FullLevel
  BY <1>1, RateConstants
<1>3. Since(time, read) = time - read /\ time - read \in Nat
  BY SinceFacts
<1>4. y \in 0..FullLevel /\ y <= x + g /\ g \in Nat
  BY <1>2, <1>3, WorthRange
<1>. HIDE DEF v, w, y, g
<1>5. y + (v - x) <= w + g
  BY <1>1, <1>2, <1>4
<1>. QED
  BY <1>5 DEF v, w, y, g

\* A refusal takes no token from those that are promised.
LEMMA StillPromised ==
  ASSUME NEW l \in 0..FullLevel, NEW u \in Nat, NEW read \in Nat, NEW t \in Nat,
         Worth(l, u, read) < Window, Worth(l, u, t) >= Window
  PROVE  Worth(Worth(l, u, read), read, t) >= Window
<1>. DEFINE v == Worth(l, u, read)
            w == Worth(l, u, t)
            y == Worth(v, read, t)
<1>1. v \in 0..FullLevel /\ w \in 0..FullLevel
  BY WorthRange
<1>2. read < t
  <2>1. CASE t <= read
    BY <1>1, <2>1, WorthGrows, RateConstants
  <2>. QED
    BY <2>1
<1>. DEFINE a == Refilled(Since(read, u))
            b == Refilled(Since(t, read))
            c == Refilled(Since(t, u))
<1>3. a \in Nat /\ b \in Nat /\ c \in Nat
  BY SinceFacts, RefilledFacts
<1>4. /\ v = IF FullLevel <= l + a THEN FullLevel ELSE l + a
      /\ w = IF FullLevel <= l + c THEN FullLevel ELSE l + c
      /\ y = IF FullLevel <= v + b THEN FullLevel ELSE v + b
  BY DEF Worth
<1>5. c <= a + b
  <2>. DEFINE i == Since(read, u)
              j == Since(t, read)
              k == Since(t, u)
  <2>1. i \in Nat /\ j \in Nat /\ k \in Nat /\ k <= i + j /\ i + j \in Nat
    BY <1>2 DEF Since
  <2>. HIDE DEF i, j, k
  <2>2. Refilled(k) <= Refilled(i + j) /\ Refilled(i + j) = Refilled(i) + Refilled(j)
    BY <2>1, RefilledFacts
  <2>. QED
    BY <2>2 DEF i, j, k
<1>. HIDE DEF a, b, c
<1>6. v = l + a
  <2>. HIDE DEF v
  <2>. QED
    BY <1>3, <1>4, RateConstants DEF v
<1>7. w <= l + c
  BY <1>3, <1>4, RateConstants
<1>. HIDE DEF v, w, y
<1>8. y >= Window
  BY <1>3, <1>4, <1>5, <1>6, <1>7, RateConstants DEF w
<1>. QED
  BY <1>8 DEF v, y

\* What is promised is there when it was promised for.
LEMMA NewlyPromised ==
  ASSUME NEW v \in 0..FullLevel, v < Window, NEW read \in Nat, NEW time \in Nat,
         read <= time
  PROVE  /\ RetryAfter(v) \in Nat
         /\ Worth(v, read, time + RetryAfter(v)) >= Window
<1>. DEFINE q == (Window - v + Capacity - 1) \div Capacity
            wait == RetryAfter(v)
<1>1. q \in Int /\ Capacity * q >= Window - v
  BY RateConstants, RoundedUp
<1>2. wait = IF 1 >= q THEN 1 ELSE q
  BY <1>1, LargerOfTwo DEF RetryAfter
<1>. HIDE DEF q
<1>3. wait \in Nat /\ q <= wait
  BY <1>1, <1>2
<1>. HIDE DEF wait
<1>4. Capacity * q <= Capacity * wait
  BY <1>1, <1>3, RateConstants, MoreTimes
<1>5. Refilled(wait) >= Window - v /\ Refilled(wait) \in Nat
  BY <1>1, <1>3, <1>4, RateConstants DEF Refilled
<1>6. Since(time + wait, read) \in Nat /\ wait <= Since(time + wait, read)
  BY <1>3 DEF Since
<1>. DEFINE refill == Refilled(Since(time + wait, read))
<1>7. refill \in Nat /\ Refilled(wait) <= refill
  BY <1>3, <1>6, RefilledFacts
<1>8. Worth(v, read, time + wait) = IF FullLevel <= v + refill THEN FullLevel ELSE v + refill
  BY DEF Worth
<1>. HIDE DEF refill
<1>9. Worth(v, read, time + wait) >= Window
  BY <1>5, <1>7, <1>8, RateConstants
<1>. QED
  BY <1>3, <1>9 DEF wait

-----------------------------------------------------------------------------
Buckets == [level : 0..FullLevel, lastUpdate : Nat]
Admissions == [at : Nat, waited : Nat]

\* No more than what fits a window has been let through since any request, and
\* what the bucket holds on top, but for what is refilled in waits.
WithinRate(times, time, wait, level) ==
  \A i \in 1..Len(times) :
    Taken(Len(times) - i + 1) + level
      <= FullLevel + Refilled((time - times[i].at) + (wait - times[i].waited))

NoneAbove(times) ==
  \A j \in 1..Len(times) : \A i \in 1..j :
    Taken(j - i + 1)
      <= FullLevel + Refilled((times[j].at - times[i].at) + (times[j].waited - times[i].waited))

InOrder(times, time, wait) ==
  /\ \A i \in 1..Len(times) : times[i].at <= time /\ times[i].waited <= wait
  /\ \A j \in 1..Len(times) : \A i \in 1..j :
       times[i].at <= times[j].at /\ times[i].waited <= times[j].waited

RateKept(times, time, wait, level) ==
  InOrder(times, time, wait) /\ NoneAbove(times) /\ WithinRate(times, time, wait, level)

PromisesKept(dates, buckets, ip) == \A t \in dates : Level(buckets, ip, t) >= Window

RateInv ==
  /\ clock \in Nat /\ callCount \in Nat
  /\ DOMAIN bucket \subseteq Ips
  /\ \A ip \in DOMAIN bucket : bucket[ip] \in Buckets
  /\ waited \in [Ips -> Nat] /\ promised \in [Ips -> SUBSET Nat]
  /\ admitted \in [Ips -> Seq(Admissions)]
  /\ \A ip \in Ips :
       /\ RateKept(admitted[ip], clock, waited[ip], Level(bucket, ip, clock))
       /\ PromisesKept(promised[ip], bucket, ip)

LEMMA AdmissionTimes ==
  ASSUME NEW times \in Seq(Admissions)
  PROVE  \A i \in 1..Len(times) : times[i].at \in Nat /\ times[i].waited \in Nat
<1>1. \A i \in 1..Len(times) : times[i] \in Admissions
  BY ElementOfSeq
<1>. QED
  BY <1>1 DEF Admissions

\* The bucket is worth no more than before and what was refilled in the time
\* that has passed or that a call has waited.
LEMMA LaterKept ==
  ASSUME NEW times \in Seq(Admissions), NEW time \in Nat, NEW wait \in Nat,
         NEW level \in Nat, NEW more \in Nat, NEW longer \in Nat, NEW level2 \in Nat,
         RateKept(times, time, wait, level),
         level2 <= level + Refilled(more + longer)
  PROVE  RateKept(times, time + more, wait + longer, level2)
<1>1. \A i \in 1..Len(times) : times[i].at \in Nat /\ times[i].waited \in Nat
  BY AdmissionTimes
<1>2. InOrder(times, time + more, wait + longer) /\ NoneAbove(times)
  BY <1>1 DEF RateKept, InOrder
<1>3. ASSUME NEW i \in 1..Len(times)
      PROVE  Taken(Len(times) - i + 1) + level2
               <= FullLevel + Refilled(((time + more) - times[i].at)
                                         + ((wait + longer) - times[i].waited))
  <2>. DEFINE n == Len(times) - i + 1
              d == (time - times[i].at) + (wait - times[i].waited)
              e == more + longer
              f == ((time + more) - times[i].at) + ((wait + longer) - times[i].waited)
  <2>1. n \in Nat /\ Len(times) \in Nat
    OBVIOUS
  <2>. DEFINE at == times[i].at
              w == times[i].waited
  <2>2. at \in Nat /\ w \in Nat /\ at <= time /\ w <= wait
    BY <1>1 DEF RateKept, InOrder
  <2>3. d \in Nat /\ e \in Nat /\ f = d + e
    <3>1. /\ d = (time - at) + (wait - w) /\ e = more + longer
          /\ f = ((time + more) - at) + ((wait + longer) - w)
      OBVIOUS
    <3>. HIDE DEF at, w, d, e, f
    <3>. QED
      BY <2>2, <3>1
  <2>4. Taken(n) + level <= FullLevel + Refilled(d) /\ level2 <= level + Refilled(e)
    BY DEF RateKept, WithinRate
  <2>. HIDE DEF n, d, e, f
  <2>5. /\ Taken(n) \in Nat /\ Refilled(d) \in Nat /\ Refilled(e) \in Nat
        /\ Refilled(f) = Refilled(d) + Refilled(e)
    BY <2>1, <2>3, TakenFacts, RefilledFacts
  <2>6. Taken(n) + level2 <= FullLevel + Refilled(f)
    BY <2>4, <2>5, RateConstants
  <2>. QED
    BY <2>6 DEF n, f
<1>. QED
  BY <1>2, <1>3 DEF RateKept, WithinRate

LEMMA AdmittedKept ==
  ASSUME NEW times \in Seq(Admissions), NEW time \in Nat, NEW wait \in Nat,
         NEW level \in Nat, NEW longer \in Nat, NEW level2 \in Nat,
         RateKept(times, time, wait, level),
         Window <= level, level <= FullLevel,
         level2 + Window <= level + Refilled(longer)
  PROVE  RateKept(Append(times, [at |-> time, waited |-> wait]), time, wait + longer, level2)
<1>. DEFINE last == [at |-> time, waited |-> wait]
            new == Append(times, last)
            n == Len(times)
<1>1. /\ last \in Admissions /\ last.at = time /\ last.waited = wait
      /\ \A i \in 1..n : times[i].at \in Nat /\ times[i].waited \in Nat
  BY AdmissionTimes DEF Admissions
<1>. HIDE DEF last
<1>2. n \in Nat /\ Len(new) = n + 1 /\ new[n + 1] = last
  OBVIOUS
<1>3. \A i \in 1..n : new[i] = times[i]
  OBVIOUS
<1>. HIDE DEF new
<1>4. \A i \in 1..n : times[i].at <= time /\ times[i].waited <= wait
  BY DEF RateKept, InOrder
<1>5. InOrder(new, time, wait + longer)
  <2>1. \A i \in 1..n + 1 : new[i].at <= time /\ new[i].waited <= wait
    BY <1>1, <1>2, <1>3, <1>4
  <2>2. \A i \in 1..n + 1 : new[i].waited \in Nat
    BY <1>1, <1>2, <1>3
  <2>3. \A i \in 1..n + 1 : new[i].waited <= wait + longer
    BY <2>1, <2>2
  <2>4. ASSUME NEW j \in 1..n + 1, NEW i \in 1..j
        PROVE  new[i].at <= new[j].at /\ new[i].waited <= new[j].waited
    <3>1. CASE j = n + 1
      BY <1>1, <1>2, <2>1, <3>1
    <3>2. CASE j \in 1..n
      <4>1. i \in 1..n /\ new[i] = times[i] /\ new[j] = times[j]
        BY <1>3, <3>2
      <4>. QED
        BY <3>2, <4>1 DEF RateKept, InOrder
    <3>. QED
      BY <1>2, <3>1, <3>2
  <2>. QED
    BY <1>2, <2>1, <2>3, <2>4 DEF InOrder
<1>6. ASSUME NEW i \in 1..n
      PROVE  LET d == (time - times[i].at) + (wait - times[i].waited) IN
             /\ d \in Nat /\ n - i + 1 \in Nat
             /\ Taken(n - i + 1) \in Nat
             /\ Taken(n - i + 1) + level <= FullLevel + Refilled(d)
  <2>. DEFINE at == times[i].at
              w == times[i].waited
              d == (time - at) + (wait - w)
              m == n - i + 1
  <2>1. at \in Nat /\ w \in Nat /\ at <= time /\ w <= wait
    BY <1>1, <1>4
  <2>2. Taken(m) + level <= FullLevel + Refilled(d)
    BY DEF RateKept, WithinRate
  <2>3. m \in Nat
    BY <1>2
  <2>4. Taken(m) \in Nat
    BY <2>3, TakenFacts
  <2>5. d \in Nat
    <3>. HIDE DEF at, w
    <3>. QED
      BY <2>1
  <2>. QED
    BY <2>2, <2>3, <2>4, <2>5
<1>7. NoneAbove(new)
  <2>1. ASSUME NEW j \in 1..n + 1, NEW i \in 1..j
        PROVE  Taken(j - i + 1) <= FullLevel + Refilled((new[j].at - new[i].at)
                                                        + (new[j].waited - new[i].waited))
    <3>1. CASE j = n + 1 /\ i = n + 1
      <4>1. /\ j - i + 1 = 1
            /\ (new[j].at - new[i].at) + (new[j].waited - new[i].waited) = 0
        BY <1>1, <1>2, <3>1
      <4>. QED
        BY <4>1, TakenFacts, RefilledFacts, RateConstants
    <3>2. CASE j = n + 1 /\ i \in 1..n
      <4>. DEFINE d == (time - times[i].at) + (wait - times[i].waited)
                  m == n - i + 1
      <4>1. /\ (new[j].at - new[i].at) + (new[j].waited - new[i].waited) = d
            /\ j - i + 1 = m + 1
        BY <1>1, <1>2, <1>3, <3>2
      <4>2. d \in Nat /\ m \in Nat /\ Taken(m) + level <= FullLevel + Refilled(d)
        BY <1>6, <3>2
      <4>. HIDE DEF d, m
      <4>3. Taken(m + 1) = Taken(m) + Window /\ Taken(m) \in Nat /\ Refilled(d) \in Nat
        BY <4>2, TakenFacts, RefilledFacts
      <4>4. Taken(m + 1) <= FullLevel + Refilled(d)
        BY <4>2, <4>3, RateConstants
      <4>. QED
        BY <4>1, <4>4
    <3>3. CASE j \in 1..n
      <4>1. i \in 1..n /\ new[i] = times[i] /\ new[j] = times[j]
        BY <1>3, <3>3
      <4>. QED
        BY <3>3, <4>1 DEF RateKept, NoneAbove
    <3>. QED
      BY <1>2, <3>1, <3>2, <3>3
  <2>. QED
    BY <1>2, <2>1 DEF NoneAbove
<1>8. ASSUME NEW i \in 1..n + 1
      PROVE  Taken((n + 1) - i + 1) + level2
               <= FullLevel + Refilled((time - new[i].at) + ((wait + longer) - new[i].waited))
  <2>1. Refilled(longer) \in Nat
    BY RefilledFacts
  <2>2. CASE i = n + 1
    <3>1. /\ (n + 1) - i + 1 = 1
          /\ (time - new[i].at) + ((wait + longer) - new[i].waited) = longer
      BY <1>1, <1>2, <2>2
    <3>2. Window + level2 <= FullLevel + Refilled(longer)
      BY <2>1, RateConstants
    <3>. QED
      BY <3>1, <3>2, TakenFacts
  <2>3. CASE i \in 1..n
    <3>. DEFINE d == (time - times[i].at) + (wait - times[i].waited)
                m == n - i + 1
                e == (time - new[i].at) + ((wait + longer) - new[i].waited)
    <3>1. e = d + longer /\ (n + 1) - i + 1 = m + 1
      BY <1>1, <1>2, <1>3, <2>3
    <3>2. d \in Nat /\ m \in Nat /\ Taken(m) + level <= FullLevel + Refilled(d)
      BY <1>6, <2>3
    <3>. HIDE DEF d, m, e
    <3>3. /\ Taken(m + 1) = Taken(m) + Window /\ Taken(m) \in Nat /\ Refilled(d) \in Nat
          /\ Refilled(d + longer) = Refilled(d) + Refilled(longer)
      BY <3>2, TakenFacts, RefilledFacts
    <3>4. Taken(m + 1) + level2 <= FullLevel + Refilled(d + longer)
      <4>. DEFINE a == Taken(m)
                  b == Refilled(d)
                  c == Refilled(longer)
      <4>1. /\ a \in Nat /\ b \in Nat /\ c \in Nat
            /\ a + level <= FullLevel + b /\ level2 + Window <= level + c
            /\ Taken(m + 1) = a + Window /\ Refilled(d + longer) = b + c
        BY <2>1, <3>2, <3>3
      <4>. HIDE DEF a, b, c
      <4>2. (a + Window) + level2 <= FullLevel + (b + c)
        BY <4>1, RateConstants
      <4>. QED
        BY <4>1, <4>2
    <3>. QED
      BY <3>1, <3>4 DEF e
  <2>. QED
    BY <1>2, <2>2, <2>3
<1>9. WithinRate(new, time, wait + longer, level2)
  BY <1>2, <1>8 DEF WithinRate
<1>. QED
  BY <1>5, <1>7, <1>9 DEF RateKept, new, last

\* The level of an address is what its bucket is worth, or a full one.
LEMMA LevelIsWorth ==
  ASSUME NEW buckets, NEW ip, NEW t \in Nat,
         ip \in DOMAIN buckets => buckets[ip] \in Buckets
  PROVE  /\ ip \in DOMAIN buckets =>
              Level(buckets, ip, t) = Worth(buckets[ip].level, buckets[ip].lastUpdate, t)
         /\ ip \notin DOMAIN buckets => Level(buckets, ip, t) = FullLevel
         /\ Level(buckets, ip, t) \in 0..FullLevel
<1>1. CASE ip \notin DOMAIN buckets
  BY <1>1, RateConstants DEF Level
<1>2. CASE ip \in DOMAIN buckets
  <2>. DEFINE l == buckets[ip].level
              u == buckets[ip].lastUpdate
              v == l + Refilled(Since(t, u))
  <2>1. l \in 0..FullLevel /\ u \in Nat
    BY <1>2 DEF Buckets
  <2>2. Level(buckets, ip, t) = Min({FullLevel, v})
    BY <1>2 DEF Level, Refilled
  <2>3. Worth(l, u, t) = IF FullLevel <= v THEN FullLevel ELSE v
    BY DEF Worth
  <2>4. v \in Nat /\ Worth(l, u, t) \in 0..FullLevel
    <3>1. Refilled(Since(t, u)) \in Nat /\ Worth(l, u, t) \in 0..FullLevel
      BY <2>1, WorthRange
    <3>. HIDE DEF l
    <3>. QED
      BY <2>1, <3>1, RateConstants
  <2>. HIDE DEF v
  <2>5. Level(buckets, ip, t) = Worth(l, u, t)
    BY <2>2, <2>3, <2>4, RateConstants, SmallerOfTwo
  <2>. QED
    BY <1>2, <2>4, <2>5
<1>. QED
  BY <1>1, <1>2

\* An untracked bucket is like a full one of any time.
LEMMA SomeWorth ==
  ASSUME NEW buckets, NEW ip, ip \in DOMAIN buckets => buckets[ip] \in Buckets
  PROVE  \E l \in 0..FullLevel, u \in Nat : \A t \in Nat :
           Level(buckets, ip, t) = Worth(l, u, t)
<1>1. CASE ip \in DOMAIN buckets
  <2>1. buckets[ip].level \in 0..FullLevel /\ buckets[ip].lastUpdate \in Nat
    BY <1>1 DEF Buckets
  <2>. QED
    BY <1>1, <2>1, LevelIsWorth
<1>2. CASE ip \notin DOMAIN buckets
  <2>1. ASSUME NEW t \in Nat PROVE Worth(FullLevel, 0, t) = FullLevel
    <3>1. FullLevel \in 0..FullLevel /\ 0 \in Nat
      BY RateConstants
    <3>2. Worth(FullLevel, 0, t) \in 0..FullLevel /\ FullLevel <= Worth(FullLevel, 0, t)
      BY <3>1, WorthRange
    <3>. QED
      BY <3>2, RateConstants
  <2>2. \A t \in Nat : Level(buckets, ip, t) = Worth(FullLevel, 0, t)
    BY <1>2, <2>1, LevelIsWorth
  <2>. QED
    BY <2>2, RateConstants
<1>. QED
  BY <1>1, <1>2

\* What the sweep forgets was full again.
LEMMA SweepForgetsFull ==
  ASSUME RateInv, NEW ip \in Ips, NEW read \in Nat, read <= clock
  PROVE  /\ DOMAIN Swept(read) \subseteq DOMAIN bucket
         /\ \A r \in DOMAIN Swept(read) : Swept(read)[r] = bucket[r]
         /\ Level(Swept(read), ip, clock) = Level(bucket, ip, clock)
         /\ \A t \in Nat : Level(Swept(read), ip, t) >= Level(bucket, ip, t)
<1>. DEFINE kept == Swept(read)
<1>1. /\ DOMAIN kept \subseteq DOMAIN bucket
      /\ \A r \in DOMAIN kept : kept[r] = bucket[r]
      /\ \A r \in DOMAIN bucket \ DOMAIN kept : Stale(r, read)
  BY DEF Swept, Restrict
<1>2. clock \in Nat /\ \A r \in DOMAIN bucket : bucket[r] \in Buckets
  BY DEF RateInv
<1>. HIDE DEF kept
<1>3. /\ \A t \in Nat : Level(bucket, ip, t) \in 0..FullLevel
      /\ ip \notin DOMAIN kept => \A t \in Nat : Level(kept, ip, t) = FullLevel
      /\ ip \notin DOMAIN bucket => \A t \in Nat : Level(bucket, ip, t) = FullLevel
  BY <1>1, <1>2, LevelIsWorth
<1>4. CASE ip \in DOMAIN kept
  <2>1. ip \in DOMAIN bucket /\ kept[ip] = bucket[ip]
    BY <1>1, <1>4
  <2>2. \A t \in Nat : Level(kept, ip, t) = Level(bucket, ip, t)
    BY <1>4, <2>1 DEF Level
  <2>. QED
    BY <1>1, <1>2, <1>3, <2>2 DEF kept
<1>5. CASE ip \notin DOMAIN kept /\ ip \notin DOMAIN bucket
  BY <1>1, <1>2, <1>3, <1>5 DEF kept
<1>6. CASE ip \notin DOMAIN kept /\ ip \in DOMAIN bucket
  <2>. DEFINE l == bucket[ip].level
              u == bucket[ip].lastUpdate
              away == Since(read, u)
  <2>1. l \in 0..FullLevel /\ u \in Nat /\ Stale(ip, read)
    BY <1>1, <1>2, <1>6 DEF Buckets
  <2>2. away \in Nat /\ away >= EvictAfterWindows * Window
    BY <2>1, SinceFacts DEF Stale
  <2>3. Window * 1 <= Window * EvictAfterWindows
    BY RateConstants, MoreTimes
  <2>. HIDE DEF away
  <2>4. Window <= away
    BY <2>2, <2>3, RateConstants
  <2>5. FullLevel <= l + Refilled(away)
    <3>1. FullLevel <= Refilled(away) /\ Refilled(away) \in Nat
      BY <2>2, <2>4, RefilledFacts, RateConstants
    <3>. HIDE DEF l
    <3>. QED
      BY <2>1, <3>1, RateConstants
  <2>6. Worth(l, u, read) = FullLevel
    BY <2>5 DEF Worth, away
  <2>7. Worth(l, u, clock) = FullLevel
    <3>. HIDE DEF l, u
    <3>1. Worth(l, u, clock) \in 0..FullLevel
      BY <1>2, <2>1, WorthRange
    <3>2. Worth(l, u, read) <= Worth(l, u, clock)
      BY <1>2, <2>1, WorthGrows
    <3>. QED
      BY <2>6, <3>1, <3>2, RateConstants
  <2>8. Level(bucket, ip, clock) = FullLevel
    BY <1>2, <1>6, <2>7, LevelIsWorth
  <2>. QED
    BY <1>1, <1>2, <1>3, <1>6, <2>8, RateConstants DEF kept
<1>. QED
  BY <1>4, <1>5, <1>6

\* A second refills what it promises.
LEMMA TickKeeps ==
  ASSUME RateInv, Tick
  PROVE  RateInv'
<1>1. /\ clock \in Nat /\ clock' = clock + 1
      /\ UNCHANGED <<bucket, callCount, waited, admitted, promised>>
  BY DEF RateInv, Tick
<1>2. ASSUME NEW ip \in Ips
      PROVE  RateKept(admitted[ip], clock + 1, waited[ip], Level(bucket, ip, clock + 1))
  <2>. DEFINE level == Level(bucket, ip, clock)
              level2 == Level(bucket, ip, clock + 1)
  <2>1. ip \in DOMAIN bucket => bucket[ip] \in Buckets
    BY DEF RateInv
  <2>2. PICK l \in 0..FullLevel, u \in Nat : \A t \in Nat : Level(bucket, ip, t) = Worth(l, u, t)
    BY <2>1, SomeWorth
  <2>3. (clock + 1) - clock = 1 /\ clock + 1 \in Nat /\ clock <= clock + 1
    BY <1>1
  <2>4. level = Worth(l, u, clock) /\ level2 = Worth(l, u, clock + 1)
    BY <1>1, <2>2, <2>3
  <2>5. level \in 0..FullLevel /\ level2 \in 0..FullLevel
    BY <1>1, <2>3, <2>4, WorthRange
  <2>6. level2 <= level + Refilled(1)
    BY <1>1, <2>3, <2>4, WorthGrows
  <2>. HIDE DEF level, level2
  <2>7. /\ admitted[ip] \in Seq(Admissions) /\ waited[ip] \in Nat
        /\ RateKept(admitted[ip], clock, waited[ip], level)
    BY DEF RateInv, level
  <2>8. RateKept(admitted[ip], clock + 1, waited[ip] + 0, level2)
    <3>1. level \in Nat /\ level2 \in Nat /\ 1 + 0 = 1
      BY <2>5, RateConstants
    <3>. QED
      BY <1>1, <2>6, <2>7, <3>1, LaterKept
  <2>9. waited[ip] + 0 = waited[ip]
    BY <2>7
  <2>. QED
    BY <2>8, <2>9 DEF level2
<1>. QED
  BY <1>1, <1>2 DEF RateInv

\* What a call leaves in the table, when it sets the level to x.
LEMMA TableAfter ==
  ASSUME RateInv, NEW ip \in Ips, NEW read \in 0..clock,
         NEW x \in 0..Level(Swept(read), ip, read),
         bucket' = [i \in DOMAIN Swept(read) \cup {ip} |->
                      IF i = ip THEN [level |-> x, lastUpdate |-> read] ELSE Swept(read)[i]]
  PROVE  /\ DOMAIN bucket' \subseteq Ips
         /\ \A r \in DOMAIN bucket' : bucket'[r] \in Buckets
         /\ \A r \in Ips \ {ip} :
              /\ Level(bucket', r, clock) = Level(bucket, r, clock)
              /\ \A t \in Nat : Level(bucket', r, t) >= Level(bucket, r, t)
         /\ \A t \in Nat : Level(bucket', ip, t) = Worth(x, read, t)
         /\ Level(bucket', ip, clock) + (Level(Swept(read), ip, read) - x)
              <= Level(bucket, ip, clock) + Refilled(clock - read)
         /\ Level(Swept(read), ip, read) <= Level(bucket, ip, clock)
         /\ x \in 0..FullLevel
<1>. DEFINE kept == Swept(read)
            v == Level(kept, ip, read)
<1>1. /\ clock \in Nat /\ read \in Nat /\ read <= clock
      /\ DOMAIN bucket \subseteq Ips /\ \A r \in DOMAIN bucket : bucket[r] \in Buckets
  BY DEF RateInv
<1>2. /\ DOMAIN kept \subseteq DOMAIN bucket
      /\ \A r \in DOMAIN kept : kept[r] = bucket[r]
      /\ \A r \in Ips : Level(kept, r, clock) = Level(bucket, r, clock)
      /\ \A r \in Ips : \A t \in Nat : Level(kept, r, t) >= Level(bucket, r, t)
  BY <1>1, SweepForgetsFull
<1>. HIDE DEF kept
<1>3. bucket' = [i \in DOMAIN kept \cup {ip} |->
                   IF i = ip THEN [level |-> x, lastUpdate |-> read] ELSE kept[i]]
  BY DEF kept
<1>4. ip \in DOMAIN kept => kept[ip] \in Buckets
  BY <1>1, <1>2
<1>5. PICK l \in 0..FullLevel, u \in Nat : \A t \in Nat : Level(kept, ip, t) = Worth(l, u, t)
  BY <1>4, SomeWorth
<1>6. v = Worth(l, u, read) /\ v \in 0..FullLevel /\ v <= Worth(l, u, clock)
  BY <1>1, <1>5, WorthRange, WorthGrows
<1>7. x \in 0..Worth(l, u, read) /\ x \in 0..FullLevel
  <2>1. x \in 0..v
    BY DEF kept
  <2>. HIDE DEF v
  <2>. QED
    BY <1>6, <2>1, RateConstants
<1>8. Worth(l, u, clock) = Level(bucket, ip, clock)
  BY <1>1, <1>2, <1>5
<1>9. /\ DOMAIN bucket' \subseteq Ips /\ DOMAIN bucket' = DOMAIN kept \cup {ip}
      /\ bucket'[ip] = [level |-> x, lastUpdate |-> read]
      /\ \A r \in DOMAIN kept \ {ip} : bucket'[r] = kept[r]
  BY <1>1, <1>2, <1>3
<1>10. bucket'[ip] \in Buckets /\ bucket'[ip].level = x /\ bucket'[ip].lastUpdate = read
  BY <1>1, <1>7, <1>9 DEF Buckets
<1>11. \A r \in DOMAIN bucket' : bucket'[r] \in Buckets
  BY <1>1, <1>2, <1>9, <1>10
<1>12. \A t \in Nat : Level(bucket', ip, t) = Worth(x, read, t)
  BY <1>9, <1>10, LevelIsWorth
<1>13. \A r \in Ips \ {ip}, t \in Nat : Level(bucket', r, t) = Level(kept, r, t)
  BY <1>9 DEF Level
<1>14. Worth(x, read, clock) + (v - x) <= Worth(l, u, clock) + Refilled(clock - read)
  BY <1>1, <1>6, <1>7, LateGain
<1>. QED
  BY <1>1, <1>2, <1>6, <1>7, <1>8, <1>9, <1>11, <1>12, <1>13, <1>14 DEF kept

LEMMA TryTakeKeeps ==
  ASSUME RateInv, NEW ip \in Ips, NEW read \in 0..clock, TryTake(ip, read)
  PROVE  RateInv'
<1>. DEFINE kept == Swept(read)
            v == Level(kept, ip, read)
            level == Level(bucket, ip, clock)
            Keep(x) == bucket' = [i \in DOMAIN kept \cup {ip} |->
                         IF i = ip THEN [level |-> x, lastUpdate |-> read] ELSE kept[i]]
<1>1. /\ clock \in Nat /\ read \in Nat /\ read <= clock /\ clock - read \in Nat
      /\ waited \in [Ips -> Nat] /\ promised \in [Ips -> SUBSET Nat]
      /\ admitted \in [Ips -> Seq(Admissions)] /\ callCount \in Nat
      /\ \A r \in DOMAIN bucket : bucket[r] \in Buckets
      /\ \A r \in Ips :
           /\ RateKept(admitted[r], clock, waited[r], Level(bucket, r, clock))
           /\ PromisesKept(promised[r], bucket, r)
  BY DEF RateInv
<1>2. /\ clock' = clock
      /\ waited' = [waited EXCEPT ![ip] = waited[ip] + (clock - read)]
      /\ callCount' = (callCount + 1) % EvictEveryNCalls
  BY <1>1 DEF TryTake
<1>3. callCount' \in Nat
  BY <1>1, <1>2, RateConstants
<1>4. /\ waited' \in [Ips -> Nat] /\ waited'[ip] = waited[ip] + (clock - read)
      /\ \A r \in Ips \ {ip} : waited'[r] = waited[r]
  BY <1>1, <1>2
<1>5. v \in 0..FullLevel /\ level \in 0..FullLevel /\ v \in Nat /\ level \in Nat
  <2>1. /\ DOMAIN kept \subseteq DOMAIN bucket
        /\ \A r \in DOMAIN kept : kept[r] = bucket[r]
    BY <1>1, SweepForgetsFull
  <2>2. ip \in DOMAIN kept => kept[ip] \in Buckets
    BY <1>1, <2>1
  <2>. QED
    BY <1>1, <2>2, LevelIsWorth, RateConstants
<1>6. ASSUME NEW x \in 0..v, Keep(x)
      PROVE  /\ DOMAIN bucket' \subseteq Ips
             /\ \A r \in DOMAIN bucket' : bucket'[r] \in Buckets
             /\ \A r \in Ips \ {ip} :
                  /\ RateKept(admitted[r], clock, waited[r], Level(bucket', r, clock))
                  /\ PromisesKept(promised[r], bucket', r)
             /\ \A t \in Nat : Level(bucket', ip, t) = Worth(x, read, t)
             /\ Level(bucket', ip, clock) + (v - x) <= level + Refilled(clock - read)
             /\ v <= level /\ x \in 0..FullLevel /\ Level(bucket', ip, clock) \in Nat
  <2>1. /\ DOMAIN bucket' \subseteq Ips
        /\ \A r \in DOMAIN bucket' : bucket'[r] \in Buckets
        /\ \A r \in Ips \ {ip} :
             /\ Level(bucket', r, clock) = Level(bucket, r, clock)
             /\ \A t \in Nat : Level(bucket', r, t) >= Level(bucket, r, t)
        /\ \A t \in Nat : Level(bucket', ip, t) = Worth(x, read, t)
        /\ Level(bucket', ip, clock) + (v - x) <= level + Refilled(clock - read)
        /\ v <= level /\ x \in 0..FullLevel
    BY <1>6, TableAfter
  <2>2. ASSUME NEW r \in Ips \ {ip}
        PROVE  PromisesKept(promised[r], bucket', r)
    <3>1. ASSUME NEW t \in promised[r] PROVE Level(bucket', r, t) >= Window
      <4>1. t \in Nat /\ Level(bucket, r, t) >= Window
        BY <1>1 DEF PromisesKept
      <4>2. Level(bucket', r, t) >= Level(bucket, r, t)
        BY <2>1, <4>1
      <4>3. Level(bucket, r, t) \in Nat /\ Level(bucket', r, t) \in Nat
        <5>1. /\ r \in DOMAIN bucket => bucket[r] \in Buckets
              /\ r \in DOMAIN bucket' => bucket'[r] \in Buckets
          BY <1>1, <2>1
        <5>2. Level(bucket, r, t) \in 0..FullLevel /\ Level(bucket', r, t) \in 0..FullLevel
          BY <4>1, <5>1, LevelIsWorth
        <5>. QED
          BY <5>2, RateConstants
      <4>. QED
        BY <4>1, <4>2, <4>3, RateConstants
    <3>. QED
      BY <3>1 DEF PromisesKept
  <2>3. Level(bucket', ip, clock) \in Nat
    <3>1. ip \in DOMAIN bucket' => bucket'[ip] \in Buckets
      BY <2>1
    <3>2. Level(bucket', ip, clock) \in 0..FullLevel
      BY <1>1, <3>1, LevelIsWorth
    <3>. QED
      BY <3>2, RateConstants
  <2>. QED
    BY <1>1, <2>1, <2>2, <2>3
<1>. HIDE DEF Keep, v, kept, level
<1>7. CASE v >= Window
  <2>. DEFINE x == v - Window
              last == [at |-> clock, waited |-> waited[ip]]
              level2 == Level(bucket', ip, clock)
  <2>1. /\ x \in 0..v /\ v - x = Window
        /\ Keep(x) /\ promised' = [promised EXCEPT ![ip] = {}]
        /\ admitted' = [admitted EXCEPT ![ip] = Append(admitted[ip], last)]
    BY <1>5, <1>7, RateConstants DEF TryTake, Keep, v, kept
  <2>2. /\ level2 + Window <= level + Refilled(clock - read) /\ v <= level
        /\ level2 \in Nat
    BY <1>6, <2>1
  <2>3. Window <= level /\ level <= FullLevel
    BY <1>5, <1>7, <2>2, RateConstants
  <2>4. last \in Admissions
    BY <1>1 DEF Admissions
  <2>. HIDE DEF level2, x
  <2>5. RateKept(Append(admitted[ip], last), clock, waited[ip] + (clock - read), level2)
    BY <1>1, <1>5, <2>2, <2>3, AdmittedKept DEF level
  <2>. HIDE DEF last
  <2>6. /\ admitted' \in [Ips -> Seq(Admissions)] /\ promised' \in [Ips -> SUBSET Nat]
        /\ admitted'[ip] = Append(admitted[ip], last) /\ promised'[ip] = {}
        /\ \A r \in Ips \ {ip} : admitted'[r] = admitted[r] /\ promised'[r] = promised[r]
    BY <1>1, <2>1, <2>4
  <2>7. ASSUME NEW r \in Ips
        PROVE  /\ RateKept(admitted'[r], clock, waited'[r], Level(bucket', r, clock))
               /\ PromisesKept(promised'[r], bucket', r)
    <3>1. CASE r = ip
      BY <1>4, <2>5, <2>6, <3>1 DEF PromisesKept, level2
    <3>2. CASE r # ip
      BY <1>4, <1>6, <2>1, <2>6, <3>2
    <3>. QED
      BY <3>1, <3>2
  <2>. QED
    BY <1>1, <1>2, <1>3, <1>4, <1>6, <2>1, <2>6, <2>7 DEF RateInv
<1>8. CASE v < Window
  <2>. DEFINE date == clock + RetryAfter(v)
              level2 == Level(bucket', ip, clock)
  <2>1. /\ v \in 0..v /\ v - v = 0
        /\ Keep(v) /\ UNCHANGED admitted
        /\ promised' = [promised EXCEPT ![ip] = promised[ip] \cup {date}]
    BY <1>5, <1>8, RateConstants DEF TryTake, Keep, v, kept
  <2>2. /\ level2 + 0 <= level + Refilled(clock - read) /\ level2 \in Nat
        /\ \A t \in Nat : Level(bucket', ip, t) = Worth(v, read, t)
    BY <1>6, <2>1
  <2>3. RetryAfter(v) \in Nat /\ Worth(v, read, date) >= Window
    BY <1>1, <1>5, <1>8, NewlyPromised
  <2>4. date \in Nat
    BY <1>1, <2>3
  <2>. HIDE DEF level2, date
  <2>5. RateKept(admitted[ip], clock, waited[ip] + (clock - read), level2)
    <3>1. 0 + (clock - read) = clock - read /\ clock + 0 = clock /\ level2 + 0 = level2
      BY <1>1, <2>2
    <3>2. admitted[ip] \in Seq(Admissions) /\ waited[ip] \in Nat
          /\ RateKept(admitted[ip], clock, waited[ip], level)
      BY <1>1 DEF level
    <3>3. RateKept(admitted[ip], clock + 0, waited[ip] + (clock - read), level2)
      BY <1>1, <1>5, <2>2, <3>1, <3>2, LaterKept
    <3>. QED
      BY <3>1, <3>3
  <2>6. ASSUME NEW t \in promised[ip]
        PROVE  Level(bucket', ip, t) >= Window
    <3>1. t \in Nat /\ Level(bucket, ip, t) >= Window
      BY <1>1 DEF PromisesKept
    <3>2. /\ DOMAIN kept \subseteq DOMAIN bucket
          /\ \A r \in DOMAIN kept : kept[r] = bucket[r]
          /\ Level(kept, ip, t) >= Level(bucket, ip, t)
      BY <1>1, <3>1, SweepForgetsFull DEF kept
    <3>3. ip \in DOMAIN kept => kept[ip] \in Buckets
      BY <1>1, <3>2
    <3>4. PICK l \in 0..FullLevel, u \in Nat : \A s \in Nat : Level(kept, ip, s) = Worth(l, u, s)
      BY <3>3, SomeWorth
    <3>5. Level(bucket, ip, t) \in Nat /\ Level(kept, ip, t) \in Nat
      BY <1>1, <3>1, <3>3, LevelIsWorth, RateConstants
    <3>6. Level(kept, ip, t) >= Window
      BY <3>1, <3>2, <3>5, RateConstants
    <3>7. Worth(l, u, t) >= Window /\ Worth(l, u, read) = v
      BY <1>1, <3>1, <3>4, <3>6 DEF v
    <3>8. Worth(v, read, t) >= Window
      BY <1>1, <1>8, <3>1, <3>7, StillPromised
    <3>. QED
      BY <2>2, <3>1, <3>8
  <2>7. /\ admitted' = admitted /\ promised' \in [Ips -> SUBSET Nat]
        /\ promised'[ip] = promised[ip] \cup {date}
        /\ \A r \in Ips \ {ip} : promised'[r] = promised[r]
    BY <1>1, <2>1, <2>4
  <2>8. ASSUME NEW r \in Ips
        PROVE  /\ RateKept(admitted'[r], clock, waited'[r], Level(bucket', r, clock))
               /\ PromisesKept(promised'[r], bucket', r)
    <3>1. CASE r = ip
      BY <1>4, <2>2, <2>3, <2>4, <2>5, <2>6, <2>7, <3>1 DEF PromisesKept, level2
    <3>2. CASE r # ip
      BY <1>4, <1>6, <2>1, <2>7, <3>2
    <3>. QED
      BY <3>1, <3>2
  <2>. QED
    BY <1>1, <1>2, <1>3, <1>4, <1>6, <2>1, <2>7, <2>8 DEF RateInv
<1>. QED
  BY <1>5, <1>7, <1>8, RateConstants

\* No sweep and no other address changes what a bucket is worth, and a late call
\* adds no more than what is refilled while it waits: that bounds what an address
\* was given and keeps what it was promised (rate_limit.rs, try_take and
\* evict_stale_locked).
THEOREM RateInvariant == RateSpec => []RateInv
<1>1. RateInit => RateInv
  <2>. SUFFICES ASSUME RateInit PROVE RateInv
    OBVIOUS
  <2>1. /\ clock = 0 /\ callCount = 0 /\ DOMAIN bucket = {}
        /\ admitted = [ip \in Ips |-> <<>>] /\ promised = [ip \in Ips |-> {}]
        /\ waited = [ip \in Ips |-> 0]
    BY DEF RateInit
  <2>2. <<>> \in Seq(Admissions) /\ Len(<<>>) = 0
    OBVIOUS
  <2>3. /\ admitted \in [Ips -> Seq(Admissions)] /\ promised \in [Ips -> SUBSET Nat]
        /\ waited \in [Ips -> Nat]
    BY <2>1, <2>2
  <2>4. \A ip \in Ips : admitted[ip] = <<>> /\ promised[ip] = {}
    BY <2>1
  <2>5. \A time, wait, level : RateKept(<<>>, time, wait, level)
    BY <2>2 DEF RateKept, InOrder, NoneAbove, WithinRate
  <2>. QED
    BY <2>1, <2>3, <2>4, <2>5 DEF RateInv, PromisesKept
<1>2. RateInv /\ [RateNext]_rateVars => RateInv'
  <2>. SUFFICES ASSUME RateInv, [RateNext]_rateVars PROVE RateInv'
    OBVIOUS
  <2>1. CASE Tick
    BY <2>1, TickKeeps
  <2>2. ASSUME NEW ip \in Ips, NEW read \in 0..clock, TryTake(ip, read) PROVE RateInv'
    BY <2>2, TryTakeKeeps
  <2>3. CASE UNCHANGED rateVars
    BY <2>3 DEF rateVars, RateInv
  <2>. QED
    BY <2>1, <2>2, <2>3 DEF RateNext
<1>. QED
  BY <1>1, <1>2, PTL DEF RateSpec

LEMMA KeptIsRate == RateInv => RateHolds
<1>. SUFFICES ASSUME RateInv PROVE RateHolds
  OBVIOUS
<1>1. NeverAboveRate
  <2>1. ASSUME NEW ip \in Ips, NEW j \in DOMAIN admitted[ip], NEW i \in 1..j
        PROVE  LET first == admitted[ip][i]
                   last == admitted[ip][j] IN
               (j - i + 1) * Window
                 <= Capacity * (Window + (last.at - first.at) + (last.waited - first.waited))
    <3>. DEFINE times == admitted[ip]
                d == (times[j].at - times[i].at) + (times[j].waited - times[i].waited)
    <3>1. times \in Seq(Admissions)
      BY DEF RateInv
    <3>2. j \in 1..Len(times) /\ i \in 1..Len(times)
      BY <3>1
    <3>3. /\ times[i].at <= times[j].at /\ times[i].waited <= times[j].waited
          /\ Taken(j - i + 1) <= FullLevel + Refilled(d)
      BY <3>1, <3>2 DEF RateInv, RateKept, InOrder, NoneAbove
    <3>4. /\ times[i].at \in Nat /\ times[j].at \in Nat
          /\ times[i].waited \in Nat /\ times[j].waited \in Nat
      BY <3>1, <3>2, AdmissionTimes
    <3>5. /\ d \in Nat
          /\ Window + (times[j].at - times[i].at) + (times[j].waited - times[i].waited)
               = Window + d
      BY <3>3, <3>4, RateConstants
    <3>. HIDE DEF d
    <3>6. FullLevel + Refilled(d) = Refilled(Window + d)
      <4>1. d \in Nat /\ Window \in Nat
        BY <3>5, RateConstants
      <4>2. Refilled(Window + d) = Refilled(Window) + Refilled(d)
        BY <4>1, RefilledFacts
      <4>. QED
        BY <4>2, RefilledFacts
    <3>. QED
      BY <3>3, <3>5, <3>6 DEF Taken, Refilled
  <2>. QED
    BY <2>1 DEF NeverAboveRate
<1>2. ASSUME NEW ip \in Ips, NEW t \in promised[ip], NEW read \in t..clock
      PROVE  Level(bucket, ip, read) >= Window
  <2>1. t \in Nat /\ read \in Nat /\ t <= read /\ Level(bucket, ip, t) >= Window
    BY DEF RateInv, PromisesKept
  <2>2. ip \in DOMAIN bucket => bucket[ip] \in Buckets
    BY DEF RateInv
  <2>3. PICK l \in 0..FullLevel, u \in Nat : \A s \in Nat : Level(bucket, ip, s) = Worth(l, u, s)
    BY <2>2, SomeWorth
  <2>. QED
    BY <2>1, <2>3, WorthRange, WorthGrows, RateConstants
<1>. QED
  BY <1>1, <1>2 DEF RateHolds, RetryAfterSuffices

\* In any interval, no address gets more than a full bucket and what is
\* refilled meanwhile and in the waits of its calls, and a client that comes back
\* when it was told to finds a token (rate_limit.rs, try_take;
\* too_many_requests_response).
THEOREM RateIsHeld == RateSpec => []RateHolds
BY KeptIsRate, RateInvariant, PTL

-----------------------------------------------------------------------------
(* ToolNames *)

Characters == Letters \cup {Underscore}

NamesInv == listed \subseteq {entry \in Names \X Names : Validate(entry[1])}

LEMMA NameIsSequence ==
  ASSUME NEW name \in Names
  PROVE  name \in Seq(Characters) /\ Len(name) \in Nat \ {0}
<1>1. PICK n \in 1..MaxName : name \in [1..n -> Characters]
  BY DEF Names, Characters
<1>2. n \in Nat \ {0}
  OBVIOUS
<1>. QED
  BY <1>1, <1>2

\* A separator is two characters that follow one another.
LEMMA SeparatorAt ==
  ASSUME NEW name \in Seq(Characters), NEW i \in 1..(Len(name) - 1)
  PROVE  i \in SeparatorsIn(name) <=> name[i] = Underscore /\ name[i + 1] = Underscore
<1>. DEFINE two == SubSeq(name, i, i + 1)
<1>1. Len(two) = 2 /\ two[1] = name[i] /\ two[2] = name[i + 1] /\ two \in Seq(Characters)
  OBVIOUS
<1>2. two = Separator <=> two[1] = Underscore /\ two[2] = Underscore
  <2>1. Len(Separator) = 2 /\ Separator[1] = Underscore /\ Separator[2] = Underscore
        /\ Separator \in Seq(Characters)
    BY DEF Separator, Characters
  <2>. HIDE DEF two
  <2>2. ASSUME two[1] = Underscore, two[2] = Underscore
        PROVE  two = Separator
    <3>1. \A k \in 1..2 : two[k] = Separator[k]
      BY <2>1, <2>2
    <3>. QED
      BY <1>1, <2>1, <3>1
  <2>. QED
    BY <2>1, <2>2
<1>. QED
  BY <1>1, <1>2 DEF SeparatorsIn

\* Instances of two theorems of the library.
LEMMA Joined ==
  ASSUME NEW s \in Seq(Characters), NEW t \in Seq(Characters)
  PROVE  /\ s \o t \in Seq(Characters) /\ Len(s \o t) = Len(s) + Len(t)
         /\ \A i \in 1..(Len(s) + Len(t)) :
              (s \o t)[i] = IF i <= Len(s) THEN s[i] ELSE t[i - Len(s)]
<1>1. /\ s \o t \in Seq(Characters) /\ Len(s \o t) = Len(s) + Len(t)
      /\ \A i \in 1 .. Len(s) + Len(t) :
           (s \o t)[i] = IF i <= Len(s) THEN s[i] ELSE t[i - Len(s)]
  BY ConcatProperties, Zenon
<1>. QED
  BY <1>1

LEMMA SameSequence ==
  \A s, t \in Seq(Characters) :
    Len(s) = Len(t) /\ (\A i \in 1..Len(s) : s[i] = t[i]) => s = t
BY SeqEqual, Zenon

\* What is where in a joined name.
LEMMA JoinedName ==
  ASSUME NEW server \in Seq(Characters), NEW tool \in Seq(Characters)
  PROVE  LET name == JoinToolName(server, tool)
             n    == Len(server) IN
         /\ name \in Seq(Characters) /\ Len(name) = n + 2 + Len(tool)
         /\ \A k \in 1..n : name[k] = server[k]
         /\ name[n + 1] = Underscore /\ name[n + 2] = Underscore
         /\ \A k \in 1..Len(tool) : name[n + 2 + k] = tool[k]
<1>1. /\ Separator \in Seq(Characters) /\ Len(Separator) = 2
      /\ Separator[1] = Underscore /\ Separator[2] = Underscore
  BY DEF Separator, Characters
<1>. DEFINE n == Len(server)  head == server \o Separator  name == head \o tool
<1>2. /\ head \in Seq(Characters) /\ Len(head) = n + 2
      /\ \A k \in 1..n : head[k] = server[k]
      /\ head[n + 1] = Underscore /\ head[n + 2] = Underscore
  <2>1. /\ head \in Seq(Characters) /\ Len(head) = n + 2
        /\ \A i \in 1..(n + 2) : head[i] = IF i <= n THEN server[i] ELSE Separator[i - n]
    <3>1. Len(server) + Len(Separator) = n + 2
      BY <1>1
    <3>. QED
      BY <1>1, <3>1, Joined, ZenonT(40)
  <2>2. n \in Nat
    OBVIOUS
  <2>. HIDE DEF head, n
  <2>3. n + 1 \in 1..(n + 2) /\ n + 2 \in 1..(n + 2) /\ (n + 1) - n = 1 /\ (n + 2) - n = 2
    BY <2>2
  <2>4. \A k \in 1..n : k \in 1..(n + 2) /\ k <= n
    BY <2>2
  <2>. QED
    BY <1>1, <2>1, <2>2, <2>3, <2>4
<1>. HIDE DEF head
<1>3. /\ name \in Seq(Characters) /\ Len(name) = n + 2 + Len(tool)
      /\ \A k \in 1..(n + 2) : name[k] = head[k]
      /\ \A k \in 1..Len(tool) : name[n + 2 + k] = tool[k]
  <2>1. /\ name \in Seq(Characters) /\ Len(name) = n + 2 + Len(tool)
        /\ \A i \in 1..(n + 2 + Len(tool)) :
             name[i] = IF i <= n + 2 THEN head[i] ELSE tool[i - (n + 2)]
    <3>1. Len(head) + Len(tool) = n + 2 + Len(tool)
      BY <1>2
    <3>2. /\ name \in Seq(Characters) /\ Len(name) = Len(head) + Len(tool)
          /\ \A i \in 1..(Len(head) + Len(tool)) :
               name[i] = IF i <= Len(head) THEN head[i] ELSE tool[i - Len(head)]
      BY <1>2, Joined, Zenon
    <3>. HIDE DEF name, n
    <3>. QED
      BY <1>2, <3>1, <3>2
  <2>2. n \in Nat /\ Len(tool) \in Nat
    OBVIOUS
  <2>. HIDE DEF name, n
  <2>3. \A k \in 1..Len(tool) :
          /\ n + 2 + k \in 1..(n + 2 + Len(tool)) /\ ~(n + 2 + k <= n + 2)
          /\ (n + 2 + k) - (n + 2) = k
    BY <2>2
  <2>4. \A k \in 1..(n + 2) : k \in 1..(n + 2 + Len(tool)) /\ k <= n + 2
    BY <2>2
  <2>. QED
    BY <2>1, <2>3, <2>4
<1>4. JoinToolName(server, tool) = name
  BY DEF JoinToolName, head
<1>. HIDE DEF name
<1>5. n \in Nat
  OBVIOUS
<1>. HIDE DEF n
<1>6. \A k \in 1..n : k \in 1..(n + 2)
  BY <1>5
<1>7. n + 1 \in 1..(n + 2) /\ n + 2 \in 1..(n + 2)
  BY <1>5
<1>. QED
  BY <1>2, <1>3, <1>4, <1>6, <1>7 DEF n

\* The first separator is the one that was put there.
LEMMA FirstSeparator ==
  ASSUME NEW server \in Names, NEW tool \in Names, Validate(server),
         server[Len(server)] # Underscore
  PROVE  SplitToolName(JoinToolName(server, tool)) = <<server, tool>>
<1>. DEFINE name == JoinToolName(server, tool)  n == Len(server)  m == Len(tool)
<1>1. /\ server \in Seq(Characters) /\ n \in Nat \ {0}
      /\ tool \in Seq(Characters) /\ m \in Nat \ {0}
  BY NameIsSequence
<1>2. /\ name \in Seq(Characters) /\ Len(name) = n + 2 + m
      /\ \A k \in 1..n : name[k] = server[k]
      /\ name[n + 1] = Underscore /\ name[n + 2] = Underscore
      /\ \A k \in 1..m : name[n + 2 + k] = tool[k]
  BY <1>1, JoinedName
<1>. HIDE DEF name
<1>3. n + 1 \in SeparatorsIn(name)
  <2>1. n + 1 \in 1..(Len(name) - 1) /\ (n + 1) + 1 = n + 2
    BY <1>1, <1>2
  <2>. QED
    BY <1>2, <2>1, SeparatorAt
<1>4. ASSUME NEW i \in SeparatorsIn(name), i < n + 1
      PROVE  FALSE
  <2>1. i \in 1..(Len(name) - 1)
    BY DEF SeparatorsIn
  <2>2. name[i] = Underscore /\ name[i + 1] = Underscore
    BY <1>2, <2>1, SeparatorAt
  <2>3. i \in 1..n /\ server[i] = Underscore /\ i # n
    BY <1>1, <1>2, <1>4, <2>1, <2>2
  <2>4. i \in 1..(n - 1) /\ i + 1 \in 1..n
    BY <1>1, <2>3
  <2>5. server[i + 1] = Underscore
    BY <1>2, <2>2, <2>4
  <2>6. i \in SeparatorsIn(server)
    BY <1>1, <2>3, <2>4, <2>5, SeparatorAt
  <2>. QED
    BY <2>6 DEF Validate
<1>5. SeparatorsIn(name) \subseteq Int
  BY <1>1, <1>2 DEF SeparatorsIn
<1>. DEFINE first == CHOOSE i \in SeparatorsIn(name) : \A j \in SeparatorsIn(name) : i <= j
<1>6. first = n + 1
  <2>1. \A j \in SeparatorsIn(name) : n + 1 <= j
    BY <1>1, <1>4, <1>5
  <2>2. first \in SeparatorsIn(name) /\ \A j \in SeparatorsIn(name) : first <= j
    BY <1>3, <2>1
  <2>. QED
    BY <1>1, <1>3, <1>5, <2>1, <2>2
<1>. HIDE DEF first
<1>7. SubSeq(name, 1, first - 1) = server
  <2>. DEFINE part == SubSeq(name, 1, n)
  <2>1. part \in Seq(Characters) /\ Len(part) = n /\ \A k \in 1..n : part[k] = name[k]
    BY <1>1, <1>2
  <2>. HIDE DEF part
  <2>2. part = server
    <3>1. Len(part) = Len(server) /\ part \in Seq(Characters) /\ server \in Seq(Characters)
      BY <1>1, <2>1
    <3>2. \A k \in 1..Len(part) : part[k] = server[k]
      BY <1>1, <1>2, <2>1
    <3>. QED
      BY <3>1, <3>2, SameSequence, Zenon
  <2>3. first - 1 = n
    BY <1>1, <1>6
  <2>. QED
    BY <2>2, <2>3 DEF part
<1>8. SubSeq(name, first + 2, Len(name)) = tool
  <2>. DEFINE part == SubSeq(name, n + 3, n + 2 + m)
  <2>1. /\ part \in Seq(Characters) /\ Len(part) = m
        /\ \A k \in 1..m : part[k] = name[n + 3 + k - 1]
    BY <1>1, <1>2
  <2>2. \A k \in 1..m : part[k] = tool[k]
    BY <1>1, <1>2, <2>1
  <2>. HIDE DEF part
  <2>3. part = tool
    <3>1. Len(part) = Len(tool) /\ part \in Seq(Characters) /\ tool \in Seq(Characters)
      BY <1>1, <2>1
    <3>2. \A k \in 1..Len(part) : part[k] = tool[k]
      BY <1>1, <2>1, <2>2
    <3>. QED
      BY <3>1, <3>2, SameSequence, Zenon
  <2>4. first + 2 = n + 3 /\ Len(name) = n + 2 + m
    BY <1>1, <1>2, <1>6
  <2>. QED
    BY <2>3, <2>4 DEF part
<1>. QED
  BY <1>7, <1>8 DEF SplitToolName, SplitBehind, name, first

\* A call by the name under which a tool was listed reaches that tool, for
\* names of any length over any letters, if no id of a server ends in an
\* underscore (hub.rs, join_tool_name and split_tool_name).
THEOREM CallReachesTool == NamesSpec => []CallReachesListedTool
<1>1. NamesInit => NamesInv
  BY DEF NamesInit, NamesInv
<1>2. NamesInv /\ [NamesNext]_nameVars => NamesInv'
  <2>. SUFFICES ASSUME NamesInv, [NamesNext]_nameVars PROVE NamesInv'
    OBVIOUS
  <2>1. ASSUME NEW server \in Names, NEW tool \in Names, ListTool(server, tool)
        PROVE  NamesInv'
    BY <2>1 DEF ListTool, NamesInv
  <2>2. CASE UNCHANGED nameVars
    BY <2>2 DEF nameVars, NamesInv
  <2>. QED
    BY <2>1, <2>2 DEF NamesNext
<1>3. NamesInv => CallReachesListedTool
  <2>. SUFFICES ASSUME NamesInv PROVE CallReachesListedTool
    OBVIOUS
  <2>1. ASSUME NEW entry \in listed
        PROVE  /\ entry[1] \in Names /\ entry[2] \in Names /\ Validate(entry[1])
               /\ entry = <<entry[1], entry[2]>>
    BY DEF NamesInv
  <2>2. ASSUME NEW entry \in listed, entry[1][Len(entry[1])] # Underscore
        PROVE  SplitToolName(JoinToolName(entry[1], entry[2])) = entry
    BY <2>1, <2>2, FirstSeparator
  <2>3. ASSUME NEW entry \in listed, entry[1][Len(entry[1])] # Underscore,
               NEW other \in listed, other # entry, other[1][Len(other[1])] # Underscore
        PROVE  JoinToolName(other[1], other[2]) # JoinToolName(entry[1], entry[2])
    BY <2>2, <2>3
  <2>. QED
    BY <2>1, <2>2, <2>3 DEF CallReachesListedTool
<1>. QED
  BY <1>1, <1>2, <1>3, PTL DEF NamesSpec

-----------------------------------------------------------------------------
(* UsageStream *)

\* A line of s, from i to the newline or the end at j.
LineOf(s, i, j) ==
  /\ i \in 1..(Len(s) + 1) /\ j \in i..(Len(s) + 1)
  /\ i = 1 \/ (i > 1 /\ s[i - 1] = "newline")
  /\ \A k \in i..(j - 1) : s[k] # "newline"
  /\ j <= Len(s) => s[j] = "newline"

ReportAt(s, i, j, r) == LineOf(s, i, j) /\ SubSeq(s, i, j - 1) = <<"data", r>>

\* u is the last report in the lines of s that end at b or before.
LastUpTo(s, b, u) ==
  LET places == 1..(Len(s) + 1) IN
  IF u = NoUsage
    THEN \A i, j \in places, r \in Reports : j <= b => ~ReportAt(s, i, j, r)
    ELSE \E i, j \in places :
           /\ j <= b /\ ReportAt(s, i, j, u)
           /\ \A k, l \in places, r \in Reports : k > i /\ l <= b => ~ReportAt(s, k, l, r)

\* How much of the stream has been cut into lines.
Cut == IF phase = "over" THEN Len(stream) + 1 ELSE Len(stream) - Len(buffer)

StreamInv ==
  /\ stream \in Seq(Bytes) /\ buffer \in Seq(Bytes)
  /\ usage \in Reports \cup {NoUsage}
  /\ phase \in {"open", "over", "dropped"}
  /\ signal = "none" <=> phase = "open"
  /\ phase # "over" =>
       /\ Len(buffer) <= Len(stream)
       /\ buffer = SubSeq(stream, Cut + 1, Len(stream))
       /\ Cut = 0 \/ (Cut > 0 /\ stream[Cut] = "newline")
  /\ phase = "dropped" => Drained
  /\ LastUpTo(stream, Cut, usage)
  /\ counted = <<>> \/ (counted = <<usage>> /\ phase # "open")

LEMMA ExtractedIsUsage ==
  ASSUME NEW line
  PROVE  /\ Extracted(line) \in Reports \cup {NoUsage}
         /\ \A r \in Reports : line = <<"data", r>> => Extracted(line) = r
         /\ Extracted(line) # NoUsage /\ line \in Seq(Bytes)
              => line = <<"data", Extracted(line)>>
<1>1. Extracted(line) \in Reports \cup {NoUsage}
  BY DEF Extracted
<1>2. ASSUME NEW r \in Reports, line = <<"data", r>>
      PROVE  Extracted(line) = r
  BY <1>2 DEF Extracted
<1>3. ASSUME Extracted(line) # NoUsage, line \in Seq(Bytes)
      PROVE  line = <<"data", Extracted(line)>>
  <2>1. Len(line) = 2 /\ line[1] = "data" /\ Extracted(line) = line[2]
    BY <1>3 DEF Extracted
  <2>. QED BY <2>1, <1>3
<1>. QED BY <1>1, <1>2, <1>3

\* Between two newlines, or between the last one and the end, there is one line.
LEMMA OneLineBetween ==
  ASSUME NEW s \in Seq(Bytes), NEW n \in 0..Len(s), NEW m \in (n + 1)..(Len(s) + 1),
         n = 0 \/ (n > 0 /\ s[n] = "newline"),
         \A k \in (n + 1)..(m - 1) : s[k] # "newline",
         m <= Len(s) => s[m] = "newline"
  PROVE  /\ LineOf(s, n + 1, m)
         /\ \A i, j \in 1..(Len(s) + 1) :
              LineOf(s, i, j) /\ j <= m /\ j > n => i = n + 1 /\ j = m
<1>. Len(s) \in Nat
  OBVIOUS
<1>1. LineOf(s, n + 1, m)
  BY DEF LineOf
<1>2. ASSUME NEW i \in 1..(Len(s) + 1), NEW j \in 1..(Len(s) + 1),
             LineOf(s, i, j), j <= m, j > n
      PROVE  i = n + 1 /\ j = m
  <2>1. j = m
    <3>1. j < m => j \in (n + 1)..(m - 1) /\ j <= Len(s)
      BY <1>2
    <3>. QED BY <3>1, <1>2 DEF LineOf
  <2>2. ~(i <= n)
    <3>1. SUFFICES ASSUME i <= n PROVE FALSE
      OBVIOUS
    <3>2. n \in i..(j - 1) /\ s[n] = "newline"
      BY <3>1, <1>2
    <3>. QED BY <3>2, <1>2 DEF LineOf
  <2>3. ~(i > n + 1)
    <3>1. SUFFICES ASSUME i > n + 1 PROVE FALSE
      OBVIOUS
    <3>2. i <= j
      BY <1>2 DEF LineOf
    <3>3. i - 1 \in (n + 1)..(m - 1)
      BY <3>1, <3>2, <2>1
    <3>4. s[i - 1] = "newline"
      BY <3>1, <1>2 DEF LineOf
    <3>. QED BY <3>3, <3>4
  <2>. QED BY <2>1, <2>2, <2>3
<1>. QED BY <1>1, <1>2

\* The line that is cut next is the last one so far.
LEMMA NextLine ==
  ASSUME NEW s \in Seq(Bytes), NEW n \in 0..Len(s), NEW m \in (n + 1)..(Len(s) + 1),
         n = 0 \/ (n > 0 /\ s[n] = "newline"),
         \A k \in (n + 1)..(m - 1) : s[k] # "newline",
         m <= Len(s) => s[m] = "newline",
         NEW u \in Reports \cup {NoUsage}, LastUpTo(s, n, u),
         NEW found, found = Extracted(SubSeq(s, n + 1, m - 1))
  PROVE  LastUpTo(s, m, IF found = NoUsage THEN u ELSE found)
<1>. DEFINE places == 1..(Len(s) + 1)
<1>0. Len(s) \in Nat /\ n \in Nat /\ m \in Nat /\ n < m /\ n + 1 \in places /\ m \in places
  OBVIOUS
<1>1. /\ LineOf(s, n + 1, m)
      /\ \A i, j \in places : LineOf(s, i, j) /\ j <= m /\ j > n => i = n + 1 /\ j = m
  BY OneLineBetween
<1>2. CASE found # NoUsage
  <2>1. SubSeq(s, n + 1, m - 1) \in Seq(Bytes)
    BY SubSeqProperties
  <2>2. SubSeq(s, n + 1, m - 1) = <<"data", found>>
    BY <1>2, <2>1, ExtractedIsUsage
  <2>3. m <= m /\ ReportAt(s, n + 1, m, found)
    BY <1>0, <1>1, <2>2 DEF ReportAt
  <2>4. ASSUME NEW k \in places, NEW l \in places, NEW r \in Reports,
               k > n + 1, l <= m, ReportAt(s, k, l, r)
        PROVE  FALSE
    <3>1. LineOf(s, k, l) /\ k <= l
      BY <2>4 DEF ReportAt, LineOf
    <3>. HIDE DEF places
    <3>2. l > n
      BY <3>1, <2>4, <1>0 DEF places
    <3>. QED BY <3>1, <3>2, <2>4, <1>1, <1>0 DEF places
  <2>. QED BY <1>2, <1>0, <2>3, <2>4 DEF LastUpTo
<1>3. CASE found = NoUsage
  <2>1. ASSUME NEW i \in places, NEW j \in places, NEW r \in Reports, j <= m,
               ReportAt(s, i, j, r)
        PROVE  j <= n
    <3>1. SUFFICES ASSUME j > n PROVE FALSE
      BY <1>0
    <3>2. i = n + 1 /\ j = m
      BY <2>1, <3>1, <1>1 DEF ReportAt
    <3>3. SubSeq(s, n + 1, m - 1) = <<"data", r>>
      BY <2>1, <3>2 DEF ReportAt
    <3>4. found = r
      BY <3>3, ExtractedIsUsage
    <3>. QED BY <3>4, <1>3, NoUsageIsNoReport
  <2>2. CASE u = NoUsage
    BY <2>1, <2>2, <1>3 DEF LastUpTo
  <2>3. CASE u # NoUsage
    <3>1. PICK i \in places, j \in places :
             /\ j <= n /\ ReportAt(s, i, j, u)
             /\ \A k, l \in places, r \in Reports : k > i /\ l <= n => ~ReportAt(s, k, l, r)
      BY <2>3 DEF LastUpTo
    <3>2. j <= m
      BY <3>1, <1>0
    <3>3. \A k, l \in places, r \in Reports : k > i /\ l <= m => ~ReportAt(s, k, l, r)
      BY <3>1, <2>1
    <3>. QED BY <3>1, <3>2, <3>3, <2>3, <1>3 DEF LastUpTo
  <2>. QED BY <2>2, <2>3
<1>. QED BY <1>2, <1>3

\* What comes later changes no line that has ended.
LEMMA EarlierLinesStay ==
  ASSUME NEW s \in Seq(Bytes), NEW t \in Seq(Bytes), NEW b \in 0..Len(s),
         NEW u \in Reports \cup {NoUsage}, LastUpTo(s, b, u)
  PROVE  LastUpTo(s \o t, b, u)
<1>. DEFINE w == s \o t
<1>0. /\ w \in Seq(Bytes) /\ Len(s) \in Nat /\ Len(w) \in Nat /\ Len(w) >= Len(s)
      /\ \A i \in 1..Len(s) : w[i] = s[i]
  BY ConcatProperties, LenProperties
<1>. HIDE DEF w
<1>1. ASSUME NEW i \in Nat \ {0}, NEW j \in Nat, j <= b, NEW r
      PROVE  ReportAt(w, i, j, r) <=> ReportAt(s, i, j, r)
  <2>1. LineOf(w, i, j) <=> LineOf(s, i, j)
    <3>1. /\ i \in 1..(Len(w) + 1) /\ j \in i..(Len(w) + 1)
            <=> i \in 1..(Len(s) + 1) /\ j \in i..(Len(s) + 1)
      BY <1>0, <1>1
    <3>2. SUFFICES ASSUME i <= j, i \in 1..(Len(s) + 1), j \in 1..Len(s)
                   PROVE  LineOf(w, i, j) <=> LineOf(s, i, j)
      BY <1>0, <1>1, <3>1 DEF LineOf
    <3>3. \A k \in i..(j - 1) : w[k] = s[k]
      BY <1>0, <3>2
    <3>4. w[j] = s[j] /\ (i > 1 => w[i - 1] = s[i - 1])
      BY <1>0, <3>2
    <3>. QED BY <1>0, <3>1, <3>2, <3>3, <3>4, SMTT(30) DEF LineOf
  <2>2. ASSUME LineOf(s, i, j)
        PROVE  SubSeq(w, i, j - 1) = SubSeq(s, i, j - 1)
    <3>1. i <= j /\ j <= Len(s) /\ i \in 1..(Len(s) + 1) /\ j - 1 \in (i - 1)..Len(s)
      BY <1>1, <1>0, <2>2 DEF LineOf
    <3>2. i \in 1..(Len(w) + 1) /\ j - 1 \in (i - 1)..Len(w)
      BY <3>1, <1>0
    <3>3. /\ SubSeq(s, i, j - 1) \in Seq(Bytes) /\ SubSeq(w, i, j - 1) \in Seq(Bytes)
          /\ Len(SubSeq(s, i, j - 1)) = (j - 1) - i + 1
          /\ Len(SubSeq(w, i, j - 1)) = (j - 1) - i + 1
          /\ \A k \in 1..((j - 1) - i + 1) : SubSeq(s, i, j - 1)[k] = s[i + k - 1]
          /\ \A k \in 1..((j - 1) - i + 1) : SubSeq(w, i, j - 1)[k] = w[i + k - 1]
      BY <3>1, <3>2, <1>0, SubSeqProperties
    <3>4. \A k \in 1..((j - 1) - i + 1) : i + k - 1 \in 1..Len(s)
      BY <3>1, <1>0
    <3>. QED BY <3>3, <3>4, <1>0, SeqEqual
  <2>. QED BY <2>1, <2>2 DEF ReportAt
<1>2. 1..(Len(s) + 1) \subseteq 1..(Len(w) + 1) /\ 1..(Len(w) + 1) \subseteq Nat \ {0}
  BY <1>0
<1>3. ASSUME NEW i \in 1..(Len(w) + 1), NEW j \in 1..(Len(w) + 1), NEW r \in Reports,
             j <= b, ReportAt(w, i, j, r)
      PROVE  i \in 1..(Len(s) + 1) /\ j \in 1..(Len(s) + 1) /\ ReportAt(s, i, j, r)
  <2>1. ReportAt(s, i, j, r)
    BY <1>0, <1>1, <1>2, <1>3
  <2>2. i \in 1..(Len(s) + 1) /\ j \in i..(Len(s) + 1)
    BY <2>1 DEF ReportAt, LineOf
  <2>. QED BY <2>1, <2>2, <1>0
<1>4. CASE u = NoUsage
  BY <1>3, <1>4 DEF LastUpTo, w
<1>5. CASE u # NoUsage
  <2>1. PICK i \in 1..(Len(s) + 1), j \in 1..(Len(s) + 1) :
           /\ j <= b /\ ReportAt(s, i, j, u)
           /\ \A k, l \in 1..(Len(s) + 1), r \in Reports :
                k > i /\ l <= b => ~ReportAt(s, k, l, r)
    BY <1>5 DEF LastUpTo
  <2>2. i \in 1..(Len(w) + 1) /\ j \in 1..(Len(w) + 1) /\ ReportAt(w, i, j, u)
    BY <2>1, <1>1, <1>2
  <2>3. \A k, l \in 1..(Len(w) + 1), r \in Reports :
           k > i /\ l <= b => ~ReportAt(w, k, l, r)
    BY <2>1, <1>3
  <2>. QED BY <2>1, <2>2, <2>3, <1>5 DEF LastUpTo, w
<1>. QED BY <1>4, <1>5

\* What is in a piece of a sequence.
LEMMA Piece ==
  ASSUME NEW S, NEW s \in Seq(S), NEW m \in 0..Len(s), NEW n \in 0..m,
         NEW t, t = SubSeq(s, n + 1, m)
  PROVE  /\ t \in Seq(S) /\ Len(t) = m - n
         /\ \A k \in 1..(m - n) : t[k] = s[n + k]
<1>1. Len(s) \in Nat
  OBVIOUS
<1>2. n + 1 \in 1..(Len(s) + 1) /\ m \in ((n + 1) - 1)..Len(s)
      /\ m - (n + 1) + 1 = m - n
  BY <1>1
<1>3. /\ SubSeq(s, n + 1, m) \in Seq(S) /\ Len(SubSeq(s, n + 1, m)) = m - n
      /\ \A k \in 1..(m - n) : SubSeq(s, n + 1, m)[k] = s[(n + 1) + k - 1]
  BY <1>2, SubSeqProperties
<1>4. \A k \in 1..(m - n) : (n + 1) + k - 1 = n + k
  BY <1>1
<1>. QED BY <1>3, <1>4

\* Between the polls of a streamed answer the buffer holds what came after the
\* last newline that was found, and the handle the last usage before it
\* (forward.rs, extract_usage_from_sse_buffer).
THEOREM StreamInvariant == StreamSpec => []StreamInv
<1>1. StreamInit => StreamInv
  <2>1. SUFFICES ASSUME StreamInit PROVE StreamInv
    OBVIOUS
  <2>2. stream = <<>> /\ buffer = <<>> /\ usage = NoUsage /\ phase = "open"
        /\ signal = "none" /\ counted = <<>> /\ Len(stream) = 0 /\ Len(buffer) = 0
    BY <2>1 DEF StreamInit
  <2>3. Cut = 0 /\ SubSeq(stream, 1, 0) = <<>>
    BY <2>2 DEF Cut
  <2>4. LastUpTo(stream, Cut, usage)
    BY <2>2, <2>3 DEF LastUpTo
  <2>. QED BY <2>2, <2>3, <2>4 DEF StreamInv
<1>2. StreamInv /\ [StreamNext]_streamVars => StreamInv'
  <2>. SUFFICES ASSUME StreamInv, [StreamNext]_streamVars PROVE StreamInv'
    OBVIOUS
  <2>0. /\ stream \in Seq(Bytes) /\ buffer \in Seq(Bytes)
        /\ Len(stream) \in Nat /\ Len(buffer) \in Nat
        /\ usage \in Reports \cup {NoUsage} /\ LastUpTo(stream, Cut, usage)
    BY DEF StreamInv
  <2>5. CASE phase = "open" /\ StreamNext
    <3>1. /\ Cut = Len(stream) - Len(buffer) /\ Cut \in 0..Len(stream)
          /\ Cut = 0 \/ (Cut > 0 /\ stream[Cut] = "newline")
          /\ signal = "none" /\ counted = <<>>
      BY <2>5, <2>0 DEF StreamInv, Cut
    <3>9. buffer = SubSeq(stream, Cut + 1, Len(stream))
      BY <2>5 DEF StreamInv
    <3>2. \A k \in 1..Len(buffer) : buffer[k] = stream[Cut + k]
      <4>1. Len(stream) \in 0..Len(stream) /\ Cut \in 0..Len(stream)
            /\ Len(stream) - Cut = Len(buffer)
        BY <3>1, <2>0
      <4>2. \A k \in 1..(Len(stream) - Cut) : buffer[k] = stream[Cut + k]
        BY <4>1, <3>9, <2>0, Piece
      <4>. QED BY <4>1, <4>2
    <3>3. ASSUME NEW bytes \in Seq(Bytes), Chunk(bytes)
          PROVE  StreamInv'
      <4>1. /\ phase' = "open" /\ signal' = "none" /\ counted' = <<>> /\ usage' = usage
            /\ stream' = stream \o bytes /\ buffer' = buffer \o bytes
        BY <3>3, <3>1 DEF Chunk
      <4>2. /\ stream' \in Seq(Bytes) /\ buffer' \in Seq(Bytes)
            /\ Len(stream') = Len(stream) + Len(bytes) /\ Len(bytes) \in Nat
            /\ Len(buffer') = Len(buffer) + Len(bytes)
            /\ \A i \in 1..Len(stream) : stream'[i] = stream[i]
            /\ \A i \in (Len(stream) + 1)..(Len(stream) + Len(bytes)) :
                 stream'[i] = bytes[i - Len(stream)]
            /\ \A i \in 1..Len(buffer) : buffer'[i] = buffer[i]
            /\ \A i \in (Len(buffer) + 1)..(Len(buffer) + Len(bytes)) :
                 buffer'[i] = bytes[i - Len(buffer)]
        BY <4>1, <2>0, ConcatProperties, LenProperties
      <4>3. Cut' = Cut
        BY <4>1, <4>2, <3>1, <2>0 DEF Cut
      <4>4. buffer' = SubSeq(stream', Cut + 1, Len(stream'))
        <5>1. /\ Len(stream') \in 0..Len(stream') /\ Cut \in 0..Len(stream')
              /\ Len(stream') - Cut = Len(buffer')
          BY <4>2, <3>1, <2>0
        <5>2. /\ SubSeq(stream', Cut + 1, Len(stream')) \in Seq(Bytes)
              /\ Len(SubSeq(stream', Cut + 1, Len(stream'))) = Len(stream') - Cut
              /\ \A k \in 1..(Len(stream') - Cut) :
                   SubSeq(stream', Cut + 1, Len(stream'))[k] = stream'[Cut + k]
          BY <5>1, <4>2, Piece
        <5>3. \A k \in 1..Len(buffer') : buffer'[k] = stream'[Cut + k]
          <6>1. ASSUME NEW k \in 1..Len(buffer'), k <= Len(buffer)
                PROVE  buffer'[k] = stream'[Cut + k]
            <7>1. k \in 1..Len(buffer) /\ Cut + k \in 1..Len(stream)
              BY <6>1, <4>2, <3>1, <2>0
            <7>. QED BY <7>1, <4>2, <3>2
          <6>2. ASSUME NEW k \in 1..Len(buffer'), k > Len(buffer)
                PROVE  buffer'[k] = stream'[Cut + k]
            <7>1. /\ k \in (Len(buffer) + 1)..(Len(buffer) + Len(bytes))
                  /\ Cut + k \in (Len(stream) + 1)..(Len(stream) + Len(bytes))
                  /\ (Cut + k) - Len(stream) = k - Len(buffer)
              BY <6>2, <4>2, <3>1, <2>0
            <7>. QED BY <7>1, <4>2
          <6>. QED BY <6>1, <6>2, <4>2, <2>0
        <5>. QED BY <5>1, <5>2, <5>3, <4>2, SeqEqual
      <4>5. LastUpTo(stream', Cut, usage)
        BY <4>1, <3>1, <2>0, EarlierLinesStay
      <4>6. Cut = 0 \/ (Cut > 0 /\ stream'[Cut] = "newline")
        <5>1. Cut > 0 => Cut \in 1..Len(stream)
          BY <3>1, <2>0
        <5>2. \A k \in 1..Len(stream) : stream'[k] = stream[k]
          BY <4>2
        <5>. QED BY <5>1, <5>2, <3>1
      <4>7. Len(buffer') <= Len(stream')
        <5>1. Len(buffer) <= Len(stream)
          BY <3>1, <2>0
        <5>. QED BY <5>1, <4>2, <2>0
      <4>. QED
        BY <4>1, <4>2, <4>3, <4>4, <4>5, <4>6, <4>7, <2>0 DEF StreamInv
    <3>4. ASSUME TakeLine
          PROVE  StreamInv'
      <4>1. PICK i \in DOMAIN buffer :
               /\ EndsLine(i)
               /\ usage' = Scanned(SubSeq(buffer, 1, i - 1))
               /\ buffer' = SubSeq(buffer, i + 1, Len(buffer))
        BY <3>4 DEF TakeLine
      <4>2. /\ stream' = stream /\ phase' = "open" /\ signal' = "none" /\ counted' = <<>>
        BY <3>4, <3>1, <2>5 DEF TakeLine
      <4>3. i \in 1..Len(buffer) /\ Cut + i \in (Cut + 1)..Len(stream)
        <5>1. i \in 1..Len(buffer)
          BY <2>0
        <5>. QED BY <5>1, <3>1, <2>0
      <4>4. /\ buffer' \in Seq(Bytes) /\ Len(buffer') = Len(buffer) - i
            /\ \A k \in 1..(Len(buffer) - i) : buffer'[k] = buffer[i + k]
        <5>1. i \in 0..Len(buffer) /\ Len(buffer) \in 0..Len(buffer)
          BY <4>3, <2>0
        <5>. QED BY <5>1, <4>1, <2>0, Piece
      <4>5. Cut' = Cut + i
        BY <4>2, <4>3, <4>4, <3>1, <2>0 DEF Cut
      <4>6. buffer' = SubSeq(stream, Cut + i + 1, Len(stream))
        <5>1. /\ Cut + i \in 0..Len(stream) /\ Len(stream) \in 0..Len(stream)
              /\ Len(stream) - (Cut + i) = Len(buffer) - i
          BY <4>3, <3>1, <2>0
        <5>2. /\ SubSeq(stream, Cut + i + 1, Len(stream)) \in Seq(Bytes)
              /\ Len(SubSeq(stream, Cut + i + 1, Len(stream))) = Len(stream) - (Cut + i)
              /\ \A k \in 1..(Len(stream) - (Cut + i)) :
                   SubSeq(stream, Cut + i + 1, Len(stream))[k] = stream[(Cut + i) + k]
          BY <5>1, <2>0, Piece
        <5>3. ASSUME NEW k \in 1..(Len(buffer) - i)
              PROVE  buffer[i + k] = stream[(Cut + i) + k]
          <6>1. i \in Nat /\ k \in Nat /\ Cut \in Nat /\ i <= Len(buffer)
            BY <4>3, <3>1, <2>0
          <6>2. i + k \in 1..Len(buffer)
            BY <6>1, <2>0
          <6>3. Cut + (i + k) = (Cut + i) + k
            BY <6>1
          <6>. QED BY <6>2, <6>3, <3>2
        <5>. QED BY <5>1, <5>2, <5>3, <4>4, SeqEqual
      <4>7. SubSeq(buffer, 1, i - 1) = SubSeq(stream, Cut + 1, Cut + i - 1)
        <5>1. /\ i - 1 \in 0..Len(buffer) /\ 0 \in 0..(i - 1) /\ (i - 1) - 0 = i - 1
              /\ Cut + i - 1 \in 0..Len(stream) /\ Cut \in 0..(Cut + i - 1)
              /\ (Cut + i - 1) - Cut = i - 1
          BY <4>3, <3>1, <2>0
        <5>2. /\ SubSeq(buffer, 0 + 1, i - 1) \in Seq(Bytes)
              /\ Len(SubSeq(buffer, 0 + 1, i - 1)) = (i - 1) - 0
              /\ \A k \in 1..((i - 1) - 0) : SubSeq(buffer, 0 + 1, i - 1)[k] = buffer[0 + k]
          BY <5>1, <2>0, Piece
        <5>3. /\ SubSeq(stream, Cut + 1, Cut + i - 1) \in Seq(Bytes)
              /\ Len(SubSeq(stream, Cut + 1, Cut + i - 1)) = (Cut + i - 1) - Cut
              /\ \A k \in 1..((Cut + i - 1) - Cut) :
                   SubSeq(stream, Cut + 1, Cut + i - 1)[k] = stream[Cut + k]
          BY <5>1, <2>0, Piece, SMTT(30)
        <5>5. 0 + 1 = 1 /\ \A k \in 1..(i - 1) : 0 + k = k
          BY <4>3
        <5>4. \A k \in 1..(i - 1) : buffer[k] = stream[Cut + k]
          BY <3>2, <4>3, <2>0
        <5>6. \A k \in 1..(i - 1) : SubSeq(buffer, 1, i - 1)[k] = stream[Cut + k]
          BY <5>1, <5>2, <5>4, <5>5
        <5>7. Len(SubSeq(buffer, 1, i - 1)) = i - 1 /\ SubSeq(buffer, 1, i - 1) \in Seq(Bytes)
          BY <5>1, <5>2, <5>5
        <5>8. /\ Len(SubSeq(stream, Cut + 1, Cut + i - 1)) = i - 1
              /\ \A k \in 1..(i - 1) :
                   SubSeq(stream, Cut + 1, Cut + i - 1)[k] = stream[Cut + k]
          BY <5>1, <5>3
        <5>. HIDE DEF Cut
        <5>. QED BY <5>3, <5>6, <5>7, <5>8, SeqEqual
      <4>8. /\ \A k \in (Cut + 1)..(Cut + i - 1) : stream[k] # "newline"
            /\ stream[Cut + i] = "newline"
        <5>1. buffer[i] = "newline" /\ \A k \in 1..(i - 1) : buffer[k] # "newline"
          BY <4>1 DEF EndsLine
        <5>2. ASSUME NEW k \in (Cut + 1)..(Cut + i - 1)
              PROVE  stream[k] # "newline"
          <6>1. k - Cut \in 1..(i - 1) /\ k - Cut \in 1..Len(buffer) /\ Cut + (k - Cut) = k
            BY <4>3, <3>1, <2>0, SMTT(30)
          <6>. QED BY <6>1, <5>1, <3>2
        <5>. QED BY <5>1, <5>2, <4>3, <3>2
      <4>9. usage' \in Reports \cup {NoUsage} /\ LastUpTo(stream, Cut + i, usage')
        <5>. DEFINE found == Extracted(SubSeq(stream, Cut + 1, Cut + i - 1))
        <5>1. usage' = IF found = NoUsage THEN usage ELSE found
          BY <4>1, <4>7 DEF Scanned
        <5>2. found \in Reports \cup {NoUsage}
          BY ExtractedIsUsage
        <5>3. /\ Cut + i \in (Cut + 1)..(Len(stream) + 1)
              /\ Cut + i - 1 = (Cut + i) - 1
          BY <4>3, <3>1, <2>0
        <5>4. LastUpTo(stream, Cut + i, IF found = NoUsage THEN usage ELSE found)
          BY <5>3, <4>8, <3>1, <2>0, NextLine
        <5>. HIDE DEF found
        <5>. QED BY <5>1, <5>2, <5>4, <2>0
      <4>10. /\ Len(buffer') <= Len(stream)
             /\ Cut + i > 0
        BY <4>4, <4>3, <3>1, <2>0
      <4>. QED
        BY <4>2, <4>4, <4>5, <4>6, <4>8, <4>9, <4>10, <2>0 DEF StreamInv
    <3>5. ASSUME Finish
          PROVE  StreamInv'
      <4>1. /\ stream' = stream /\ phase' = "over" /\ signal' = "sent" /\ counted' = <<>>
            /\ buffer' = <<>> /\ usage' = Scanned(buffer) /\ Drained
        BY <3>5, <3>1 DEF Finish
      <4>2. Cut' = Len(stream) + 1
        BY <4>1 DEF Cut
      <4>3. \A k \in (Cut + 1)..Len(stream) : stream[k] # "newline"
        <5>1. ASSUME NEW k \in (Cut + 1)..Len(stream)
              PROVE  stream[k] # "newline"
          <6>1. k - Cut \in 1..Len(buffer) /\ Cut + (k - Cut) = k /\ k - Cut \in DOMAIN buffer
            BY <3>1, <2>0
          <6>. QED BY <6>1, <4>1, <3>2 DEF Drained
        <5>. QED BY <5>1
      <4>4. usage' \in Reports \cup {NoUsage} /\ LastUpTo(stream, Len(stream) + 1, usage')
        <5>. DEFINE m == Len(stream) + 1
                    found == Extracted(SubSeq(stream, Cut + 1, m - 1))
        <5>1. m - 1 = Len(stream) /\ m \in (Cut + 1)..(Len(stream) + 1) /\ ~(m <= Len(stream))
          BY <3>1, <2>0
        <5>. HIDE DEF m
        <5>2. usage' = IF found = NoUsage THEN usage ELSE found
          BY <4>1, <5>1, <3>9 DEF Scanned
        <5>3. found \in Reports \cup {NoUsage}
          BY ExtractedIsUsage
        <5>4. LastUpTo(stream, m, IF found = NoUsage THEN usage ELSE found)
          BY <5>1, <4>3, <3>1, <2>0, NextLine
        <5>. HIDE DEF found
        <5>. QED BY <5>2, <5>3, <5>4, <2>0 DEF m
      <4>. QED BY <4>1, <4>2, <4>4, <2>0 DEF StreamInv
    <3>6. ASSUME DropStream
          PROVE  StreamInv'
      <4>1. /\ UNCHANGED <<stream, buffer, usage, counted>> /\ phase' = "dropped"
            /\ signal' = "closed" /\ Drained
        BY <3>6 DEF DropStream
      <4>2. Cut' = Cut
        BY <4>1, <2>5 DEF Cut
      <4>3. Drained'
        BY <4>1 DEF Drained
      <4>. QED BY <4>1, <4>2, <4>3, <3>1, <2>0, <2>5 DEF StreamInv
    <3>7. ASSUME NEW n \in 1..MaxChunk, NEW bytes \in [1..n -> Bytes]
          PROVE  bytes \in Seq(Bytes)
      <4>1. n \in Nat
        OBVIOUS
      <4>. QED BY <4>1, <3>7
    <3>8. ~Count
      BY <3>1 DEF Count
    <3>. QED BY <2>5, <3>3, <3>4, <3>5, <3>6, <3>7, <3>8 DEF StreamNext
  <2>6. CASE phase # "open" /\ StreamNext
    <3>1. Count
      BY <2>6 DEF StreamNext, Chunk, TakeLine, Finish, DropStream
    <3>2. UNCHANGED <<stream, buffer, usage, phase, signal>> /\ counted' = <<usage>>
      BY <3>1 DEF Count
    <3>3. Cut' = Cut /\ (Drained' <=> Drained)
      BY <3>2 DEF Cut, Drained
    <3>. QED BY <2>6, <3>2, <3>3 DEF StreamInv
  <2>7. CASE UNCHANGED streamVars
    <3>1. UNCHANGED <<stream, buffer, usage, phase, signal, counted>>
      BY <2>7 DEF streamVars
    <3>2. Cut' = Cut /\ (Drained' <=> Drained)
      BY <3>1 DEF Cut, Drained
    <3>. QED BY <3>1, <3>2 DEF StreamInv
  <2>. QED BY <2>5, <2>6, <2>7
<1>. QED BY <1>1, <1>2, PTL DEF StreamSpec

(***************************************************************************)
(* However the bytes of a streamed answer are cut into chunks, what is     *)
(* counted is the last usage reported in the lines that were completed, or *)
(* nothing if there is none, for any stream of any length (forward.rs,     *)
(* wrap_stream_with_usage_extraction and extract_usage_from_sse_buffer).   *)
(***************************************************************************)
THEOREM LastReportIsCounted == StreamSpec => []CountsLastReport
<1>1. StreamInv => CountsLastReport
  <2>. SUFFICES ASSUME StreamInv PROVE CountsLastReport
    OBVIOUS
  <2>. DEFINE places == 1..(Len(stream) + 1)
  <2>1. CASE counted = <<>>
    BY <2>1 DEF CountsLastReport
  <2>2. CASE counted = <<usage>> /\ phase # "open"
    <3>0. /\ stream \in Seq(Bytes) /\ buffer \in Seq(Bytes)
          /\ Len(stream) \in Nat /\ Len(buffer) \in Nat
          /\ usage \in Reports \cup {NoUsage} /\ LastUpTo(stream, Cut, usage)
      BY DEF StreamInv
    <3>1. ASSUME NEW i \in places, NEW j \in places, NEW r
          PROVE  Reported(i, j, r) <=> ReportAt(stream, i, j, r) /\ j <= Cut
      <4>1. CASE phase = "over"
        <5>1. Cut = Len(stream) + 1
          BY <4>1 DEF Cut
        <5>2. LineAt(i, j) <=> LineOf(stream, i, j)
          BY <4>1, <3>0 DEF LineAt, LineOf
        <5>3. j <= Cut
          BY <5>1, <3>0
        <5>. QED BY <5>2, <5>3 DEF Reported, ReportAt
      <4>2. CASE phase = "dropped"
        <5>1. /\ Cut = Len(stream) - Len(buffer) /\ Cut \in 0..Len(stream) /\ Drained
          BY <4>2, <3>0 DEF StreamInv, Cut
        <5>6. buffer = SubSeq(stream, Cut + 1, Len(stream))
          BY <4>2 DEF StreamInv
        <5>2. \A k \in 1..Len(buffer) : buffer[k] = stream[Cut + k]
          <6>1. Len(stream) \in 0..Len(stream) /\ Cut \in 0..Len(stream)
                /\ Len(stream) - Cut = Len(buffer)
            BY <5>1, <3>0
          <6>2. \A k \in 1..(Len(stream) - Cut) : buffer[k] = stream[Cut + k]
            BY <6>1, <5>6, <3>0, Piece
          <6>. QED BY <6>1, <6>2
        <5>3. LineAt(i, j) <=> LineOf(stream, i, j) /\ j <= Len(stream)
          BY <4>2, <3>0 DEF LineAt, LineOf
        <5>4. LineOf(stream, i, j) /\ j <= Len(stream) => j <= Cut
          <6>1. SUFFICES ASSUME LineOf(stream, i, j), j <= Len(stream), j > Cut PROVE FALSE
            BY <5>1, <3>0
          <6>2. j - Cut \in 1..Len(buffer) /\ j - Cut \in DOMAIN buffer /\ Cut + (j - Cut) = j
            BY <6>1, <5>1, <3>0
          <6>. QED BY <6>1, <6>2, <5>1, <5>2 DEF Drained, LineOf
        <5>5. j <= Cut => j <= Len(stream)
          BY <5>1, <3>0
        <5>. QED BY <5>3, <5>4, <5>5 DEF Reported, ReportAt
      <4>. QED BY <4>1, <4>2, <2>2 DEF StreamInv
    <3>2. CASE usage = NoUsage
      <4>1. ~\E i, j \in places, r \in Reports : Reported(i, j, r)
        BY <3>0, <3>1, <3>2 DEF LastUpTo
      <4>. HIDE DEF places
      <4>. QED BY <2>2, <3>2, <4>1 DEF CountsLastReport, places
    <3>3. CASE usage # NoUsage
      <4>1. PICK i \in places, j \in places :
               /\ j <= Cut /\ ReportAt(stream, i, j, usage)
               /\ \A k, l \in places, r \in Reports :
                    k > i /\ l <= Cut => ~ReportAt(stream, k, l, r)
        BY <3>0, <3>3 DEF LastUpTo
      <4>2. Reported(i, j, usage)
        BY <4>1, <3>1
      <4>3. ~\E k, l \in places, r \in Reports : k > i /\ Reported(k, l, r)
        BY <4>1, <3>1
      <4>4. \E x, y \in places :
               /\ Reported(x, y, usage)
               /\ ~\E k, l \in places, r \in Reports : k > x /\ Reported(k, l, r)
        BY <4>2, <4>3
      <4>. HIDE DEF places
      <4>. QED BY <2>2, <3>3, <4>4 DEF CountsLastReport, places
    <3>. QED BY <3>2, <3>3
  <2>. QED BY <2>1, <2>2 DEF StreamInv
<1>. QED BY <1>1, StreamInvariant, PTL
=============================================================================
