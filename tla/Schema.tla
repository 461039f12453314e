------------------------------- MODULE Schema -------------------------------
(***************************************************************************)
(* The databases of the central proxy and of the relay.  Every process     *)
(* that opens one (the servers, and the relay's commands beside a running  *)
(* relay) first runs the migrations that are not recorded yet.  On SQLite  *)
(* there is no transaction around a migration: each statement is committed *)
(* by itself, and the migration is recorded after the last of them.        *)
(*                                                                         *)
(* A schema is a set of pairs of a table and something it has: a column,   *)
(* a trigger or an index.  Types, defaults and keys are left out, except   *)
(* for the index that an upsert names.                                     *)
(***************************************************************************)
EXTENDS Integers, Sequences

CONSTANTS Processes, Databases

ASSUME DatabasesAreKnown == Databases \subseteq {"central", "relay"}

VARIABLES
  database,   \* which of the databases this behaviour is about
  made,       \* its schema
  recorded,   \* the numbers of the migrations in seaql_migrations
  process,    \* what each process does
  killed      \* what has been interrupted: "up", a migration; "down", a reset

schemaVars == <<database, made, recorded, process, killed>>

-----------------------------------------------------------------------------
(* Statements *)

CreateTable(t, columns) == [does |-> "create", on |-> t, items |-> columns]
AddColumns(t, columns) ==
  [i \in DOMAIN columns |-> [does |-> "add", on |-> t, items |-> {columns[i]}]]
CreateIndex(t, index) == [does |-> "add", on |-> t, items |-> {index}]
AppendOnly(t) ==   \* CREATE TRIGGER IF NOT EXISTS
  <<[does |-> "ensure", on |-> t, items |-> {"no_update"}],
    [does |-> "ensure", on |-> t, items |-> {"no_delete"}]>>
DropTable(t) == [does |-> "drop", on |-> t, items |-> {}]
DropItem(t, item) == [does |-> "remove", on |-> t, items |-> {item}]

Adds(statements) == UNION {{s.on} \X s.items : s \in statements}

\* What a statement takes away with x in it.
Takes(s, x) == x[1] = s.on /\ (s.does = "drop" \/ (s.does = "remove" /\ x[2] \in s.items))

Possible(s, schema) ==
  LET there == \E x \in schema : x[1] = s.on
      has   == \E x \in schema : x[1] = s.on /\ x[2] \in s.items
  IN \/ s.does = "create" /\ ~there
     \/ s.does = "add" /\ there /\ ~has
     \/ s.does \in {"ensure", "drop"} /\ there
     \/ s.does = "remove" /\ has

Outcome(s, schema) ==
  IF s.does \in {"drop", "remove"} THEN {x \in schema : ~Takes(s, x)}
  ELSE schema \cup Adds({s})

-----------------------------------------------------------------------------
(* The migrations of the central proxy *)

CentralInitial ==
  [up |->
     <<CreateTable("devices",
         {"id", "cert_fingerprint", "user_subject", "user_email", "revoked",
          "created_at", "last_seen_at"}),
       CreateTable("audit_log",
         {"id", "device_id", "user_subject", "model", "backend", "status",
          "latency_ms", "stream", "prompt_tokens", "completion_tokens",
          "total_tokens", "created_at"})>>
     \o AppendOnly("audit_log"),
   down |-> <<DropTable("audit_log"), DropTable("devices")>>]

Migration0002AuditEnrichment ==
  [up |-> AddColumns("audit_log",
     <<"identity_id", "email", "groups", "endpoint", "request_id",
       "permission_decision", "denial_reason", "cost_usd">>),
   down |-> <<>>]

Migration0003GroupPolicies ==
  [up |->
     <<CreateTable("group_policies",
         {"id", "group_name", "allowed_models", "allowed_endpoints",
          "daily_token_quota", "daily_request_quota", "created_at", "updated_at"}),
       CreateTable("admin_audit_log",
         {"id", "admin_subject", "action", "target", "payload", "created_at"})>>
     \o AppendOnly("admin_audit_log"),
   down |-> <<DropTable("admin_audit_log"), DropTable("group_policies")>>]

\* Deliberately wrong: a reset does not undo this migration.
UsageCountersStay ==
  [up |->
     <<CreateTable("usage_counters",
         {"id", "user_subject", "group_name", "period_date", "period_kind",
          "request_count", "token_count", "cost_usd", "idx_usage_counters_unique"})>>,
   down |-> <<>>]

Migration0004UsageCounters ==
  [up |->
     <<CreateTable("usage_counters",
         {"id", "user_subject", "group_name", "period_date", "period_kind",
          "request_count", "token_count", "cost_usd", "idx_usage_counters_unique"})>>,
   down |-> <<DropTable("usage_counters")>>]

Migration0005Providers ==
  [up |->
     <<CreateTable("providers",
         {"id", "name", "base_url", "enabled", "is_default", "models",
          "created_at", "updated_at"}),
       CreateTable("provider_keys",
         {"id", "provider_id", "label", "priority", "ciphertext", "nonce",
          "key_digest", "enabled", "created_at", "updated_at"}),
       CreateTable("provider_key_access", {"provider_key_id", "group_name"})>>,
   down |-> <<DropTable("provider_key_access"), DropTable("provider_keys"),
              DropTable("providers")>>]

Migration0006TokenSaver ==
  [up |-> AddColumns("group_policies", <<"token_saver_enabled", "max_input_tokens">>)
       \o AddColumns("audit_log",
            <<"token_saver_applied", "tokens_saved", "messages_dropped", "saver_reasons">>),
   down |-> <<>>]

Migration0007CollapseRepeatedLines ==
  [up |-> AddColumns("group_policies", <<"collapse_repeated_lines">>), down |-> <<>>]

Migration0008StripAnsi ==
  [up |-> AddColumns("group_policies", <<"strip_ansi">>), down |-> <<>>]

Migration0009Mcp ==
  [up |->
     <<CreateTable("mcp_servers",
         {"id", "name", "base_url", "enabled", "auth_ciphertext", "auth_nonce",
          "created_at", "updated_at"}),
       CreateTable("mcp_server_policies",
         {"id", "group_name", "allowed_tools", "created_at", "updated_at"})>>
     \o AddColumns("audit_log",
          <<"mcp_server", "mcp_tool", "mcp_method", "mcp_args_preview">>),
   down |-> <<DropTable("mcp_server_policies"), DropTable("mcp_servers")>>]

Migration0010Tokens ==
  [up |-> AddColumns("group_policies", <<"max_token_ttl_seconds">>)
       \o <<CreateTable("tokens",
              {"id", "subject", "issuer", "email", "display_name", "groups",
               "identity_id", "label", "token_hash", "created_at", "expires_at",
               "last_used_at", "revoked"})>>,
   down |-> <<DropTable("tokens")>>]

Migration0011DeviceFingerprint ==
  [up |-> AddColumns("tokens", <<"device_fingerprint">>), down |-> <<>>]

Migration0012TokenHashIndex ==
  [up |-> <<CreateIndex("tokens", "idx_tokens_token_hash")>>,
   down |-> <<DropItem("tokens", "idx_tokens_token_hash")>>]

\* Deliberately wrong: a new migration is written and not registered.
FingerprintUnregistered ==
  <<CentralInitial, Migration0002AuditEnrichment, Migration0003GroupPolicies,
    Migration0004UsageCounters, Migration0005Providers, Migration0006TokenSaver,
    Migration0007CollapseRepeatedLines, Migration0008StripAnsi, Migration0009Mcp,
    Migration0010Tokens, Migration0012TokenHashIndex>>

CentralMigrations ==
  <<CentralInitial, Migration0002AuditEnrichment, Migration0003GroupPolicies,
    Migration0004UsageCounters, Migration0005Providers, Migration0006TokenSaver,
    Migration0007CollapseRepeatedLines, Migration0008StripAnsi, Migration0009Mcp,
    Migration0010Tokens, Migration0011DeviceFingerprint, Migration0012TokenHashIndex>>

-----------------------------------------------------------------------------
(* The migrations of the relay *)

RelayInitial ==
  [up |->
     <<CreateTable("identities",
         {"id", "issuer", "subject", "email", "display_name", "groups", "created_at"}),
       CreateTable("api_keys",
         {"id", "identity_id", "key_hash", "label", "created_at", "last_used_at"})>>,
   down |-> <<DropTable("api_keys"), DropTable("identities")>>]

Migration0002RelayActivityLog ==
  [up |->
     <<CreateTable("relay_activity_log",
         {"id", "identity_id", "key_id", "method", "endpoint", "model",
          "central_status", "latency_ms", "request_id", "created_at"})>>
     \o AppendOnly("relay_activity_log"),
   down |-> <<DropTable("relay_activity_log")>>]

Migration0003ApiKeyExpiry ==
  [up   |-> AddColumns("api_keys", <<"expires_at">>),
   down |-> <<DropItem("api_keys", "expires_at")>>]

Migration0004McpActivity ==
  [up |-> AddColumns("relay_activity_log", <<"mcp_server", "mcp_tool", "mcp_method">>),
   down |-> <<>>]

RelayMigrations ==
  <<RelayInitial, Migration0002RelayActivityLog, Migration0003ApiKeyExpiry,
    Migration0004McpActivity>>

-----------------------------------------------------------------------------
(* What the code asks of the schema: the columns of its entities, the      *)
(* triggers of the logs that are append-only, and the index of the upsert  *)
(* of a usage counter.                                                     *)

DeviceModel ==
  {"id", "cert_fingerprint", "user_subject", "user_email", "revoked",
   "created_at", "last_seen_at"}
AuditLogModel ==
  {"id", "device_id", "user_subject", "model", "backend", "status", "latency_ms",
   "stream", "prompt_tokens", "completion_tokens", "total_tokens", "created_at",
   "identity_id", "email", "groups", "endpoint", "request_id",
   "permission_decision", "denial_reason", "cost_usd", "token_saver_applied",
   "tokens_saved", "messages_dropped", "saver_reasons", "mcp_server", "mcp_tool",
   "mcp_method", "mcp_args_preview"}
GroupPolicyModel ==
  {"id", "group_name", "allowed_models", "allowed_endpoints", "daily_token_quota",
   "daily_request_quota", "token_saver_enabled", "collapse_repeated_lines",
   "strip_ansi", "max_input_tokens", "max_token_ttl_seconds", "created_at",
   "updated_at"}
AdminAuditLogModel ==
  {"id", "admin_subject", "action", "target", "payload", "created_at"}
UsageCounterModel ==
  {"id", "user_subject", "group_name", "period_date", "period_kind",
   "request_count", "token_count", "cost_usd"}
UsageUpsertIndex == "idx_usage_counters_unique"
ProviderModel ==
  {"id", "name", "base_url", "enabled", "is_default", "models", "created_at", "updated_at"}
ProviderKeyModel ==
  {"id", "provider_id", "label", "priority", "ciphertext", "nonce", "key_digest",
   "enabled", "created_at", "updated_at"}
ProviderKeyAccessModel == {"provider_key_id", "group_name"}
McpServerModel ==
  {"id", "name", "base_url", "enabled", "auth_ciphertext", "auth_nonce",
   "created_at", "updated_at"}
McpServerPolicyModel == {"id", "group_name", "allowed_tools", "created_at", "updated_at"}
TokenModel ==
  {"id", "subject", "issuer", "email", "display_name", "groups", "identity_id",
   "label", "token_hash", "created_at", "expires_at", "last_used_at", "revoked",
   "device_fingerprint"}

CentralEntities ==
  [devices |-> DeviceModel,
   audit_log |-> AuditLogModel,
   group_policies |-> GroupPolicyModel,
   admin_audit_log |-> AdminAuditLogModel,
   usage_counters |-> UsageCounterModel \cup {UsageUpsertIndex},
   providers |-> ProviderModel,
   provider_keys |-> ProviderKeyModel,
   provider_key_access |-> ProviderKeyAccessModel,
   mcp_servers |-> McpServerModel,
   mcp_server_policies |-> McpServerPolicyModel,
   tokens |-> TokenModel]

IdentityModel ==
  {"id", "issuer", "subject", "email", "display_name", "groups", "created_at"}
RelayActivityLogModel ==
  {"id", "identity_id", "key_id", "method", "endpoint", "model", "central_status",
   "latency_ms", "request_id", "mcp_server", "mcp_tool", "mcp_method", "created_at"}

RelayEntities ==
  [identities |-> IdentityModel, relay_activity_log |-> RelayActivityLogModel]

AppendOnlyLogs == {"audit_log", "admin_audit_log", "relay_activity_log"}

Asked(entities) ==
  UNION {{t} \X (entities[t] \cup
                   IF t \in AppendOnlyLogs THEN {"no_update", "no_delete"} ELSE {})
           : t \in DOMAIN entities}

-----------------------------------------------------------------------------
(* The migrator *)

Migrations == IF database = "central" THEN CentralMigrations ELSE RelayMigrations
Entities == IF database = "central" THEN CentralEntities ELSE RelayEntities
Numbered == 1..Len(Migrations)

FirstOf(statements, k) == {statements[i] : i \in 1..k}

\* The schema after the first n migrations of a list: none of them takes away.
UpTo(list, n) == UNION {Adds(FirstOf(list[m].up, Len(list[m].up))) : m \in 1..n}
Whole(n) == UpTo(Migrations, n)

Idle == [step |-> "off", todo |-> {}, at |-> 1]

\* The database is new, or an earlier release has left it.
SchemaInit ==
  /\ database \in Databases
  /\ \E n \in {0} \cup Numbered : recorded = 1..n /\ made = Whole(n)
  /\ process = [p \in Processes |-> Idle]
  /\ killed = {}

Goto(p, step, todo) ==
  process' = [process EXCEPT ![p] = [step |-> step, todo |-> todo, at |-> 1]]

\* Setup reads what is recorded once.
Setup(p) ==
  /\ process[p].step \in {"off", "failed"}
  /\ \A q \in Processes : process[q].step # "down"
  /\ Goto(p, "up", Numbered \ recorded)
  /\ UNCHANGED <<database, made, recorded, killed>>

\* An operator resets the database: nothing else has it open.
Reset(p) ==
  /\ \A q \in Processes : process[q].step \in {"off", "failed"}
  /\ Goto(p, "down", recorded)
  /\ UNCHANGED <<database, made, recorded, killed>>

\* The oldest of the migrations to run, or the newest of those to undo.
Current(p) ==
  CHOOSE n \in process[p].todo : \A m \in process[p].todo :
    IF process[p].step = "up" THEN n <= m ELSE n >= m

Statements(p) ==
  LET m == Migrations[Current(p)]
  IN IF process[p].step = "up" THEN m.up ELSE m.down

Busy(p) == process[p].step \in {"up", "down"} /\ process[p].todo # {}

\* One statement is committed, or fails and ends the process.
Statement(p) ==
  /\ Busy(p)
  /\ process[p].at <= Len(Statements(p))
  /\ LET s == Statements(p)[process[p].at]
     IN IF Possible(s, made)
        THEN /\ made' = Outcome(s, made)
             /\ process' = [process EXCEPT ![p].at = @ + 1]
        ELSE /\ Goto(p, "failed", {})
             /\ UNCHANGED made
  /\ UNCHANGED <<database, recorded, killed>>

\* The migration is recorded, or its record deleted; recording twice fails.
Record(p) ==
  /\ Busy(p)
  /\ process[p].at > Len(Statements(p))
  /\ LET n == Current(p)
     IN IF process[p].step = "up" /\ n \in recorded
        THEN Goto(p, "failed", {}) /\ UNCHANGED recorded
        ELSE /\ Goto(p, process[p].step, process[p].todo \ {n})
             /\ recorded' = IF process[p].step = "up" THEN recorded \cup {n}
                                                      ELSE recorded \ {n}
  /\ UNCHANGED <<database, made, killed>>

ResetDone(p) ==
  /\ process[p].step = "down" /\ process[p].todo = {}
  /\ Goto(p, "off", {})
  /\ UNCHANGED <<database, made, recorded, killed>>

\* The central proxy goes on to its encryption key, its certificates and its
\* address, any of which may be missing, before it serves.
ServeCentral(p) ==
  /\ database = "central"
  /\ process[p].step = "up" /\ process[p].todo = {}
  /\ \E step \in {"serving", "failed"} : Goto(p, step, {})
  /\ UNCHANGED <<database, made, recorded, killed>>

\* The relay goes on to its client certificate and its address; a command of
\* the relay does its work.
ServeRelay(p) ==
  /\ database = "relay"
  /\ process[p].step = "up" /\ process[p].todo = {}
  /\ \E step \in {"serving", "failed"} : Goto(p, step, {})
  /\ UNCHANGED <<database, made, recorded, killed>>

Shutdown(p) ==
  /\ process[p].step = "serving"
  /\ Goto(p, "off", {})
  /\ UNCHANGED <<database, made, recorded, killed>>

\* The process is killed in the middle, or the disk refuses a statement.
Kill(p) ==
  /\ Busy(p)
  /\ Goto(p, "off", {})
  /\ killed' = killed \cup {process[p].step}
  /\ UNCHANGED <<database, made, recorded>>

SchemaNext ==
  \E p \in Processes :
    \/ Setup(p) \/ Reset(p)
    \/ Statement(p) \/ Record(p) \/ Kill(p)
    \/ ResetDone(p) \/ ServeCentral(p) \/ ServeRelay(p) \/ Shutdown(p)

SchemaSpec == SchemaInit /\ [][SchemaNext]_schemaVars

-----------------------------------------------------------------------------
(* A process that serves finds everything the code asks of its database:   *)
(* the columns of every entity, the triggers of the append-only logs and   *)
(* the index its upsert names, whatever release made the database, however *)
(* often a migration was interrupted, and with another process migrating.  *)
(* After an interrupted reset it may not: the record of a migration goes   *)
(* after its tables.                                                       *)
ServesItsSchema ==
  \A p \in Processes :
    (process[p].step = "serving" /\ "down" \notin killed) =>
      Asked(Entities) \subseteq made

(* Processes that start at once may make each other fail, but only a kill  *)
(* leaves a database between two migrations: otherwise, whenever no process *)
(* migrates or resets, the schema is exactly that of the migrations        *)
(* recorded, so that the next start goes on from there; after a reset it   *)
(* is empty.                                                               *)
OnlyAKillLeavesAHalf ==
  (killed = {} /\ \A p \in Processes : ~Busy(p)) =>
    \E n \in {0} \cup Numbered : recorded = 1..n /\ made = Whole(n)

(* The schema is what the code and the record of migrations take it for.   *)
SchemaFollowsRecord == ServesItsSchema /\ OnlyAKillLeavesAHalf
=============================================================================
