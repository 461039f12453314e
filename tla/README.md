# A TLA+ verification of oidc_agent_compat

`oidc_agent_compat` lets coding agents use LLM backends and MCP servers under a
company's identity provider. An agent talks to a *relay* on the user's machine
(`oac-relay`), the relay forwards to a *central proxy* (`oac-central`) over mTLS
with a bearer token minted at login, and the central proxy decides, charges,
audits and forwards to a provider or an MCP server. All shared state is in the SQL
databases of the two programs and in a few files; nothing is kept in a transaction
that spans an `await`, so every property that relates two rows depends on the order
of single statements.

This directory holds TLA+ models of that logic, TLC configurations that check
them on small instances, and TLAPS proofs for every size.

## 1. Inventory

### Central proxy (`crates/central`)

| component | state | operations | what must be right |
|---|---|---|---|
| Usage tracker, `usage.rs` | one row per subject and UTC day: requests, tokens, cost | `increment`, `try_reserve_request`, `release_request`, `get_usage` | no unit lost or invented; the row of the right day; never negative |
| Permissions, `proxy/permissions.rs` | the `PermissionDecision` of a request | the checks, in order: policy, age, device, endpoint, model, token quota, request quota | nothing that should be refused goes through; a refused request keeps nothing |
| Forwarding, `proxy/forward.rs` | the response, its usage, the deferred accounting task of a stream | forward with key fallback, buffer or stream, extract usage, record the outcome | every admitted request settles; nothing charged without an audit row; the last usage of a stream counts, however it is cut |
| Device store, `device_store.rs` | rows (fingerprint, revoked); no uniqueness | `upsert_device`, `set_revoked`, `is_revoked` | a revoked device stays out although registration may add rows |
| Token store and API, `token_store.rs`, `proxy/tokens.rs`, `proxy/auth.rs` | token rows (hash, subject, expiry, fingerprint) | mint, verify, list, revoke (own, by id), age limit | a deleted token never works again; lifetimes below the cap; owners revoke only their own; a bound token works from its device only |
| Policy store, `policy.rs` | one row per group; MCP server policies | `upsert_policy_full`, `delete_policy`, `resolve_policy` | the merge is that of the set of rows; racing writes never mix |
| Rate limiter, `proxy/rate_limit.rs` | a bucket per IP, an eviction counter | `try_take`, `evict_stale_locked` | eviction never gives a client more than a bucket that is kept, and waiting for the lock no more than what is refilled meanwhile; who comes back as told is served |
| Provider store, `provider.rs`, `crypto.rs` | providers, keys, group access lists | upsert, set default, resolve provider, add/update/delete key, resolve key | one default; a restricted key is not used for another group; each key tried once |
| Pricing, `pricing.rs` | price table: overrides and fetched prices | `refresh_once`, `compute_cost` | a refresh never overrides a manual price, and no stale price stays |
| Optimizer, `optimizer.rs` | none (pure) | dedupe, collapse, strip, trim to a budget | what is said is still said; never drops the system prompt or the last turn |
| Audit log, `audit.rs` | append-only rows | `record`, queries, exports | one row per decision; a reader of pages misses none |
| MCP, `mcp.rs`, `proxy/mcp_*.rs` | servers with encrypted headers, tool policies | registry, per-tool permission, forward, hub fan-out | what is reached and listed was granted; a header is the one last supplied; the audit tells what was done |
| Admin API, `admin.rs` | none of its own | CRUD over the stores, pages over logs and counters | changes take effect on requests on their way as the stores say; pages add up |
| Start-up, `main.rs`, `db.rs`, `migration.rs` | the schema and the record of migrations | serve, migrate, reset | a process that serves finds all its columns, triggers and indexes |

### Relay (`crates/relay`), MCP crate, common crate

| component | state | operations | what must be right |
|---|---|---|---|
| Relay proxy, `proxy/*.rs` | the fingerprint, computed at start | forward, activity log | an answered request is logged; equal timeouts of relay and central harm nothing |
| Login, `login.rs` | the callback listener, the identity row, the token | OIDC code flow, mint at central, store | mints for who answered this login; reports only what it delivered |
| Keystore, `keystore.rs` | identities | find-or-create | one identity per user |
| Agent configuration, `agent_config.rs` | files of the agents | detect, read, inject | no half file is left but by a kill; the key is private |
| Commands, `main.rs` | none | login, logout, token create/revoke | a revocation that was reported is final |
| MCP crate, `crates/mcp` | none (pure) | parse, extract the tool call, hub names, redaction | all readers take a document for the same request |
| Common, `crates/common` | none | configuration, TLS files, fingerprint, OIDC, set-up of a database, redaction of log lines | named with the users above |

### How they interact

A `/v1` request runs as ONE task of the central server through
`auth_middleware` → `rate_limit_middleware` → `permissions_middleware` →
`proxy_handler` (`proxy/mod.rs`, `router`). It calls the token store, the policy
store, the device store and the usage tracker, each call one or a few SQL
statements with an `await` around each, then the provider store and the upstream
server, then the audit log and the usage tracker again; for a stream the last two
run in a task of their own, spawned by the handler. An MCP request takes the same
way to `mcp_permissions_middleware` and `mcp_handler`, or to `mcp_hub_handler`.
Administrators change policies, devices, providers, keys and MCP servers through
`admin.rs` at any moment. Only rows are shared; the `PermissionDecision` and the
resolved policy travel with the request.

On the machine of an employee every command of `oac-relay` is a process: it opens
the relay's database beside the running relay (both migrate it), calls the API of
the central proxy and writes the file of the agent, which the agent and the other
commands read.

What is hard here:

- **interleaving**: the requests of one subject check and charge the same row; two
  administrators write the same policy, default or access list; two commands the
  same file;
- **atomicity**: what is checked in one statement is used after others; a list is
  replaced row by row; a file is truncated, written, and then made private;
- **partial failure**: a store call may fail anywhere, and the code ignores some
  failures (device registration, audit, charge, release) and answers an error on
  others; a login is steps over two databases and a file;
- **cancellation and crash**: a client that disconnects drops the handler at its
  `await`, not the spawned accounting task; a restart ends both; SQLite commits each
  statement of a migration by itself;
- **time**: each statement computes the date of its row itself; the clock that
  judges a token is not the one that made it; relay and central give up after the
  same 300 s;
- **changing surroundings**: the check uses what was resolved some steps before;
  the certificate, its key and its CA are three files replaced one at a time;
- **several readers of one thing**: relay, permissions and hub parse one document;
  the log is redacted as text and the audit preview as a value.

The full list, at its lines, is `hazards` in `PROJECT.json`.

## 2. Modules

| module | models |
|---|---|
| `UsageTracker` | `usage.rs`: the counters of the day, the clock, one operator per SQL statement (its `WHERE` as a predicate, its update as an action) |
| `RequestPipeline` | EXTENDS `UsageTracker`. One task per request, `pc[r]` its `await`, from `Arrive` to an end; device rows, tokens and policies; faults, administrators, clock |
| `RequestPipelineProps`, `RequestPipelineInv`, `MCRequestPipeline`, `RequestPipeline_proofs` | its properties, with the three claims of comments that the code does not keep; the inductive invariant; the instances for TLC; the TLAPS proofs |
| `TokenLife` | abstract: a token is unborn, live, dead; a call holds the identity of a live token |
| `TokenStore` | `token_store.rs`, `proxy/tokens.rs` and what `auth_middleware` and the age limit make of a verified token, one action per SQL statement; its properties; it implements `TokenLife` |
| `TokenStoreInv`, `MCTokenStore`, `TokenStore_proofs` | its inductive invariant, the instance for TLC, the TLAPS proofs |
| `ProviderStore`, `MCProviderStore`, `ProviderStore_proofs` | `provider.rs`, its handlers in `admin.rs`, and the loop of `forward_request` over providers and keys |
| `McpGateway`, `MCMcpGateway`, `McpGateway_proofs` | `mcp.rs`, the tool policies of `policy.rs`, their handlers in `admin.rs`, and the MCP requests at one server and at the hub |
| `Relay`, `MCRelay`, `Relay_proofs` | the commands of the relay, the agent's files, the relay process and its requests |
| `MCRules` | one instance of fifteen topic modules that share no state: |
| — `RateLimiter` | the token buckets, calls that get their lock late, and the sweep |
| — `UsageStream` | the usage in a streamed answer, cut into chunks anywhere |
| — `PolicyMerge` | `resolve_policy`, a row at a time in any order |
| — `PolicyDesk` | the statements of `upsert_policy_full` and `delete_policy` |
| — `TokenSaver` | the passes of `optimize_prompt` |
| — `SaverSummary` | the report on what the optimizer saved |
| — `AuditWalk` | the pages of the audit log, read while it grows |
| — `UsagePages` | the pages on usage and quota, read while requests are counted and given back |
| — `Pricing` | the price of a model under refreshes and changing catalogs |
| — `Schema` | both migrators and what the entities ask of the schema |
| — `ToolNames` | the joined and split names of the hub |
| — `McpTrip` | one MCP document, read by the relay, the permissions and the hub |
| — `LogLines` | redaction of a log line against redaction of the value |
| — `OidcLogin` | the exchange with the IdP, with late and strangers' redirects |
| — `DeviceBinding` | start of the processes over files that are replaced; the binding of a token to a certificate |
| `Login_proofs` | TLAPS proofs about `OidcLogin`, `DeviceBinding` and `Schema` |
| `Traffic_proofs` | about `McpTrip`, `RateLimiter`, `ToolNames` and `UsageStream` |
| `Admin_proofs` | about `PolicyMerge`, `PolicyDesk`, `Pricing`, `UsagePages`, `AuditWalk`, `SaverSummary`, `TokenSaver` and `LogLines` |

In every module an action is everything between two awaits; where a lock is held
(`RateLimiter`) or nothing is awaited (`PolicyMerge`, `TokenSaver`) it is a call, a
row, a pass. Each operator has the name of the function it models where there is
one, and `map` in `PROJECT.json` names its lines.

### The request pipeline

`requestCount`, `tokenCount`, `rowExists` are the table `usage_counters`, and
`today` the date `today_date()` computes; `deviceRows[v]` is the rows of table
`devices` with one fingerprint, in the order they were inserted; `liveTokens` the
rows of `tokens`; `policy[s]` what `resolve_policy` would return for the groups of
`s` now. The rest is what the task of a request holds: `pol` (the
`ResolvedPolicy`), `allowed` (a `PermissionDecision` is attached), `streamed`,
`spent` (the usage extracted), and `reservedOn[r] # Never` is the flag
`request_reserved`; as history it also remembers the day. `releasedOn`,
`recordedOn`, `arrivedOn`, `seenSpent`, `checkedOn`, `revoked`, `cleared` are
history: no guard reads them.

`ResolvePolicy` includes the age check that follows it without an await,
`LookupDevice` includes the endpoint and model checks, and `Audit` and `Count` are
the two statements of `record_request_outcome`. `Deny`, `Audit`, `Count`, `Release`,
`DeleteStaleToken`, `InsertDevice` each have the branch in which the statement fails
and the code only logs; `AnswerError` is the failure of a statement whose error ends
the request. A reservation that fails is answered 503.

`Disconnect` may hit at each await of the handler, but not the spawned task of a
stream; `Restart` ends all. The production server calls `shutdown()`, which does
not wait (`proxy/mod.rs`, line 318); the development server waits, which the model
covers too, since a request may always end before.

Abstracted here: the groups of a subject and their merge (the policy is the RESULT,
any member of `Policies`, and changes at any time; `PolicyMerge` has the merge);
endpoint and model (one target); what the rate limiter, the device binding of a
token, the provider and the key decide (either outcome; `RateLimiter`,
`DeviceBinding`, `ProviderStore` have them); the text of usage in a stream
(`StreamUsage`: any number, any time, the last one counts, which `UsageStream`
checks). `total_tokens` is a natural number up to `MaxSpend`; the code would also
accept a negative one from a provider.

### The token store

`rows[k]` is the row of `tokens` with the hash of `k` (subject, `created_at`,
`expires_at`); `minted` and `known` the tokens that were ever inserted and whose
plaintext reached a client. `call[t]` is what the future of one HTTP call holds, and
`at` the statement it runs next. Slots of calls are used again, so a behaviour is
any sequence of calls, any two of them at once. `Select`, `Sweep`, `Touch` are
`verify_token`, with the clock read before the SELECT; `ResolveForServe` and
`DeleteStale` the age limit of `permissions_middleware`; `ResolveForMint`, `Insert`,
`Answer` are `mint_token_handler` and `mint_token`; `Find`, `DeleteCurrent`,
`DeleteOwned` the two revocations. `Sweep` and `DeleteStale` have the branch in which
the code only logs the error; any other error, a refusal by the device binding and
a client that goes away are `Abort`.

The clock ticks twice a second and `Stored` cuts a time to the second as
`format_time` does, so that a token's `created_at`, its `expires_at` and the clock
that judges them disagree by part of a second as in the code. The age limit is
whatever `resolve_policy` finds at that moment: any. Left out: `last_used_at`
(nothing reads it to decide), the listing, the dev mode without a bearer, and the
overflow of `now + duration` for a lifetime of millions of years (`tokens.rs:202`).
`TokenStore` and `RequestPipeline` are separate: the pipeline needs of the store only
that a row disappears at any moment (`RevokeToken`), which is what `TokenLife` says.

### Providers and keys

`provider`, `key`, `access` are the tables; `call[t]` an admin call, `request[r]` a
user's request between `resolve_provider_for_model` and its last attempt. A key row
appears enabled and unrestricted before its list is written (`InsertKey` before
`Wipe` and `Grant`), and the loop of a request reads the keys of a provider in one
SELECT and the list of each key in another. `Abort` stops a call at any statement.
History: `settled[k]` is the list of the last call that ran alone, `granted[k]` every
list ever asked for, `alone` and `quiet` that nothing overlapped. A behaviour starts
from any database that complete calls leave behind. The address of a provider is not
kept; a request reads it once, and its keys again for every attempt
(`forward.rs:404`).

### MCP

`McpGateway` has the rows `server` and `policy`, the admin calls, and requests at
`/mcp/{server}` and `/mcp`. The places of a request are its SELECTs: `Reach`,
`ReadTools`, `ListServers`, then `Resolve` and `Forward` for each server, then the
entry of the audit log, which may be lost. `supplied` and `permitted` are history: the
header supplied last since a row exists, and all that a request's groups were granted
while it ran. A grant is a string `server:tool`, and `mcp.rs:64-75` accepts `:` in ids;
so ids and names are sequences of the parts between their colons (`Spelling`), a grant is
the sequence of both (`Key`), `Allows` compares it whole, `HasAnyTool` its beginning
(`StartsWith`), and `ReachableServers` takes its first part for the server. In the
instance for TLC server 2 is `x:y`, and its tool `a` has the key of tool `y:a` of server
`x`.

`McpTrip` looks at one document instead: every form of it (`Documents`: without an id,
with a null one or another, with parameters that are an object or a list), read by
`RunHandler` of the relay, by `McpPermissions` and by `McpHubHandler`; `received`,
`activity` and `audit` are what came of it.
`ToolNames` has the strings, letter by letter, since the property is about them.

### The employee's machine

`Relay` has the rows of tokens and identities, `file` (text and mode of the two files
that may hold the agent's key), the certificate on the disk, the fingerprint in the
running relay, `command[c]` (a process: what it does next, how it ended, what it
holds) and `request[r]`. `Login` to `Chmod` are the awaits and the system calls of
`run_login` and `complete_login`; `Stop` fails or kills a command anywhere, and a
killed command keeps its place, so that a property can tell where it was killed.
A request with an unreadable body ends in one of two ways: at the MCP endpoints it is
answered and has no entry (`RefuseUnreadable`), elsewhere it is given up and has one
(`GiveUp`).
`OidcLogin` has what happens before `Callback` in `Relay`: states, nonces and PKCE
challenges are fresh, so a login stands for them; `codes` are answers of persons at
the IdP, which arrive late, again, or at a port that another login has reused.
`DeviceBinding` has what `ReplaceCert` in `Relay` abstracts: the three TLS files of
each machine, read one at a time by the starting processes.

### Migrations

In `Schema` a migration is the sequence of its statements, copied from
`migration.rs` column by column; `Statement` commits one, `Record` inserts the row of
`seaql_migrations`, `Kill` stops a process in between, `Reset` runs the `down` parts.
A schema (`made`) is a set of pairs of a table and something it has: a column, a
trigger, an index. Types, defaults and keys are left out, but for the index that an
upsert names.
`CentralEntities` and `RelayEntities` are the columns that the entities select, the
triggers of the append-only tables and the index named by the upsert of `usage.rs`:
written down from other files than the migrations are.


### The topics of `MCRules`

Each topic is a small machine of its own. `TryTake` is one call under the lock with
its sweep; its second parameter is the time the call read before it waited for the lock
(`rate_limit.rs:103`), so that of two calls the one with the earlier time may be the
later one. In `UsageStream` a chunk arrives (`Chunk`), a line is cut out of the buffer
(`TakeLine`), the stream ends or is lost (`Finish`, `DropStream`), and the task that
waits for that counts (`Count`); `MergeRow` is one turn of the loop over the rows;
`Collapse`, `Strip`, `Trim` are the passes of `optimize_prompt` over every short
conversation. `SaverSummary` reads the policies (`ListPolicies`), later the log
(`ReadEntries`), adds it up a row at a time (`AddEntry`) and answers. `PolicyDesk` has the
statements of two kinds of admin calls. `Pricing`, `SaverSummary`, `UsagePages` and
`AuditWalk` have a reader whose SELECTs are separate steps, and what changes in
between. In `UsagePages` those are the requests of `RequestPipeline`, reduced to what they
do to the counters: `Admit` counts one if there is a quota, `Complete` one more in any
case (the finding of `FindCountedOnce`), `FailForwarding` gives a reserved one back on the
row of today, and `LeaveUncounted` is an agent that has gone or a store that fails. `ListTool`, `DropWriter` and the handlers of `McpTrip` take an input and are
done.

## 3. Runs

| run | instance | checks |
|---|---|---|
| `Races` | 3 requests of one device, quota 2, a midnight, revocations | `LedgerBalanced`, `QuotaHonoured`, `RevokedDeviceNotServed` |
| `Checks` | 2 requests, three policies that change, all faults, token revocation, a midnight | `ReservedIffAdmitted`, `SpentQuotaStaysClosed`, `ChargedOnlyIfAudited`, and `PipelineInv`, the invariant of the proofs |
| `Settles` | 2 requests, both quotas, a midnight, no faults, fairness | `ReservationSettles` |
| `Tokens` | 2 calls at a time, 2 tokens, 2 users, 1.5 s | `RevocationFinal`, `AgeLimitOnlyTightens`, `OwnTokensOnly`, `StoreInv`, and `ImplementsTokenLife` |
| `Providers` | 2 providers, 2 keys, 2 groups; two admin calls and a request | `LoneCallsSettle`, `FallbackIsExact`, `UsesOnlySettledKeys` |
| `Mcp` | 2 servers, one with a colon in its id, 2 tools, 2 groups; admin calls and a request | `HeaderIsLastSupplied`, `GrantedIsGiven`, `AuditTellsTruth` |
| `Relay` | two commands, or a command and a request; 2 users, 2 certificates | `LoginsLeaveOrder`, `TokensObey`, `AnsweredIsLogged` |
| `Rules` | each topic of `MCRules` by itself | the fifteen below |
| `FindCountedOnce` | 1 request suffices | a request with a reservation counts twice |
| `FindMidnight` | 3 requests, quota 1 | a release after midnight frees another request's unit |
| `FindAborted` | a client that disconnects | the unit is never given back |
| `FindStrangerKey` | one admin call and one request | a request served with a key whose list never admitted it |

What the properties say:

- `LoneCallsSettle`: whatever races and failures left behind, a call that ran alone
  leaves what it asked for: its own default and no other (`OneDefault`), its access
  list (`ListsAsSettled`). Calls that overlap may leave two defaults or a mixed list;
  the model has those states.
- `FallbackIsExact`: a request sends no key twice (`NoKeyTwice`), and while no
  administrator acts exactly the keys open to it, in order (`ExactFallback`).
  `UsesOnlySettledKeys`: the list of a key is respected except while it is replaced
  or the key goes, which is what `FindStrangerKey` shows.
- `HeaderIsLastSupplied`: an update that supplies no header keeps the last one that
  was supplied, whatever runs beside it. `GrantedIsGiven`: what reaches a server and
  what is listed was granted while the request ran (`OnlyPermitted`), and while
  administrators are quiet the hub lists exactly what may be called, except on servers
  with a colon in their ids, which it lists only under a policy that allows everything
  (`ListsWhatMayBeCalled`). What was granted is a
  key: of two tools with one key, whoever was granted one may call the other.
  `AuditTellsTruth`: denied means that nothing was sent.
- `LoginsLeaveOrder`: a login that reports success has delivered (`LoginDelivers`), the
  agent's file is empty only in the middle of a write (`EmptyOnlyMidWrite`), a user
  has one identity unless two logins raced (`OneIdentity`). `TokensObey`: a token
  reported as revoked is gone for good (`RevokedIsFinal`); while the certificate stays,
  no request is refused for its device (`BoundToThisDevice`). `AnsweredIsLogged`: what
  the agent was told is in the activity log, also when central's answer came too late.
  Excepted is the MCP request whose body cannot be read, and of that one nothing was
  forwarded.
- `RateHolds`: although buckets are forgotten, nobody gets more than a full bucket
  and its refill (`NeverAboveRate`), where the seconds that its calls waited for the lock
  count twice: a call that is late sets the time of the last update back. Who comes
  back when told finds a token, however late the call gets the lock
  (`RetryAfterSuffices`).
- `CountsLastReport`: however a stream is cut, the last usage in it is counted.
- `MergeIsOfTheSet`: the merged policy is that of the set of rows; only the token
  budget may depend on their order.
- `PolicyIsALatePut`: racing changes leave the policy of one PUT, whole, and of none
  that an acknowledged change came after.
- `SavesSafely`: without a cutting budget every message is still said
  (`LosesOnlyRepeats`); a budget keeps the system prompts and the last turn
  (`TrimKeepsTheTask`).
- `SchemaFollowsRecord`: a process that serves finds its columns, triggers and index
  whatever was interrupted before (`ServesItsSchema`), and only a kill leaves a
  database between two migrations (`OnlyAKillLeavesAHalf`).
- `PricesAsListed`: a configured price stays; after a cycle of fetches that nothing
  disturbed, any other is the one of the last provider that lists the model.
- `OneRequestThroughout`: a tool call that a server gets is of a tool that was granted,
  and of that server, and no server gets a batch (`ServersGetWhatWasJudged`); both logs
  have the same of it (`LogsAgree`). Excepted are calls at `/mcp/{server}` without an id
  or with a null one, which nobody judges (see the differences below). At the hub there
  is no exception.
- `CallReachesListedTool`: a listed name leads to the tool it was listed for.
- `LinesAreRedactedEvents`: the redacted text of a line is the text of the redacted
  value.
- `WalkMissesNothing`: who pages through the audit log sees all that was in it.
  `SummaryAddsUp`: totals and groups of the saver's report agree. `PagesForetell`:
  pages show rows of the day only; the quota page says what the next request meets that
  comes with the groups it shows. These are the groups of the request counted last, as
  `admin-api.md:280` says; a request with others may meet another quota.
- `MintsForWhoAnswered`: a login mints for a person who answered its own
  authorization request, with that person's groups.
- `TokenStaysOnDevice`: a token is good exactly with the certificate it was minted
  with, unless files changed during a start.

**Bounds.** Three requests are the fewest in which a quota of two can be exceeded
by one, and the fewest with a reservation of the day before, one of today and one
that profits; two suffice for every property about one request and the rest of the
world (the device is registered twice, the tokens are spent by the other). `MaxDay`
= 1 gives one midnight: every row operation concerns one day, and a task that spans
two midnights touches no more rows than one that spans one. `MaxSpend` = 1 with a
token quota of 1 reaches the quota exactly. One subject, token and device: rows of
different subjects never interact, and sharing them is the hard case. `Symmetric`
exchanges requests; every request carries the same token, and no property of the
runs that use it tells requests apart or is temporal. In `Tokens` two calls are a
race and two tokens a right and a wrong one; `SpareToken` keeps calls from minting
more than `Tokens`. Limits of one and two seconds below and at the requested lifetime
of two let a limit be lowered, and `MaxTime` = 3 half seconds is the first time at
which a token with the limit of one second is too old. Its properties treat
calls, tokens and users alike, so all three are symmetric. The proofs assume none of
these bounds.

`Providers`, `Mcp` and `Relay` have two actors at a time, any two concurrent calls or
a call and a request, and slots that are used again where the property is about a
sequence: every race of this code is between two statements of one actor and one of
another. Two of everything else is a right one and a wrong one. Three actors in
`Relay` were explored to ten million states without a violation, but not to the end.
In `Rules` the topics do not meet: a behaviour runs one of them, so the run is as
large as their sum. Nothing is symmetric there, but the rate limiter's first address
and the first of equal calls are fixed, because all are alike. Each topic has the
smallest input with its hard case: six bytes in chunks of at most three (a report cut
twice, and one after it), three messages (a repeat and something between), two rows
for each order of a merge, three policy changes (an insert that loses against a
row which a deletion removes again), a clock of four over a window of three with
eviction after one and calls of an address that wait a second in all (`MaxWait`: enough
for two calls to change places and for one second to be refilled twice), three audit entries in two seconds, every released version of
the schemas with two processes.

**Deadlock.** All slots used and no administrator acting is a legal rest, all tokens
dead at the last tick is one, and a pure function is done after one step. So the
runs set `CHECK_DEADLOCK FALSE`. That a task gets to its end is `ReservationSettles`.

**Fairness.** `FairSpec` has weak fairness for `Progress(r)`: a task that has
started goes on until it ends. The runtime polls it, every store call returns, and
the upstream call ends by the total timeout of 300 s that `build_client` sets,
which covers the body. No request is forced to arrive, nobody to administrate,
nothing to fail, no chunk to come and no midnight to pass. `ReservationSettles` is
false under faults, as `FindAborted` shows, so its run has none. No other property
is a liveness property: elsewhere any step may fail and end its actor.

**Findings.** The four `Find` runs each check a sentence of the repository:
`permissions.rs:58` ("avoid counting the request twice") against the unconditional
increment in `forward.rs:325`; `usage.rs:115` (no two requests see the same
capacity) against a release that computes today's date anew; `usage.rs:117` ("must
call release") against the dropped future; `admin-api.md:103` (one of the user's
groups must match) against `provider.rs:417`, which reads a list that is being
replaced, or whose key has just gone, as empty. `QuotaHonoured` and
`UsesOnlySettledKeys` state what remains: the quota holds except through a release of
an earlier day, a list except while it is written.

Other differences met while reading, without a run because they concern one line,
are stated by the code itself, or are the exception that a property names.

*Quotas and policies.*

- the token quota may be overshot by requests already on their way
  (`permissions.rs:226-228` says so); `SpentQuotaStaysClosed` is what it does keep;
- a token quota of zero admits a subject with no row yet (`permissions.rs:247`);
- a policy that cannot be loaded refuses with 503; `central-internals.md:129` says
  it "fails open";
- `central-internals.md` says a group without a quota makes the merged quota
  `None`; `policy.rs` skips it. The comment at `policy.rs:207-226` says that a row
  without `max_input_tokens` wins; of the rows (none, 5), in that order, 5 remains;
- a PUT whose row was deleted between its SELECT and its UPDATE writes nothing, and
  is answered 200 and logged (`upsert_policy_full`);
- the quota page may show other groups' quotas than are enforced when the user's
  groups have changed since the last request (`admin.rs:1280`; `admin-api.md:280` says
  that it shows the groups of the last one);
- the rate limiter lets nearly twice its capacity through in one window
  (`rate_limit.rs:10` speaks of requests per window): a full bucket and its refill; and
  more if calls wait for its lock, since the clock is read before (line 103).

*Tokens, devices, logins.*

- two first requests of a device insert two rows (`device_store.rs:78`; the
  doc comment at 65 speaks of one). `set_revoked` updates all of them, which is
  why `RevokedDeviceNotServed` holds;
- `revoke_by_token` returns true also when another call deleted the row between its
  two statements (`token_store.rs:347`), though "a token was found and deleted";
- `mtls.rs:182-185` says a token "cannot be used from relay B"; central compares two
  headers, not the certificate of the connection. The fingerprint comes from a
  second read of the file, and a file that cannot be read leaves the token unbound;
- the browser says "Login complete" before the state is verified and the code
  exchanged (`login.rs:621`); `--ttl` is parsed only after the browser flow; one stray
  connection to the listener ends the login;
- userinfo without groups hides the groups of the ID token;
- `oidc.rs` accepts `http://[::1]`, `config.rs:351` requires `http://127.0.0.1`.

*Prompts, prices, logs.*

- `optimizer.rs:10` says "consecutive duplicates", but any repeat goes, also a last
  turn that repeats an earlier one; system prompts inside a conversation move to its
  front despite "original relative order" (329); a budget passes over a large turn
  and keeps older ones; `strip_ansi` eats the text after an unterminated escape (443);
- requests through the hub are priced by the name of the model alone;
- `logging.rs` takes a string value equal to a sensitive word for a field name and
  ends an object at a brace inside a string; its list of keys differs from that of
  `parse.rs`. `LogLines` is checked on values without such strings;
- `agent_config.rs:183-186` panics on a value that is one quote.

*MCP.*

- `mcp.rs:64` accepts ids that end in `_`: `a_` + `__` + `b` is split as a tool of `a`
  (`hub.rs:10-13` states an invariant that needs the contrary);
- a `tools/call` to `/mcp/{server}` without an id, or with a null one, is taken for a
  notification (`parse.rs:41`), passes `mcp_permissions.rs:138-141` unjudged and is
  forwarded as it is, whatever the policies say, and audited as allowed, with the
  method `unknown`; `threat-model.md:120` says that a `tools/call` of a denied tool is
  refused with 403, `mcp.md:140` that a group without a policy cannot call any tool. The
  hub itself sends requests with a null id (`mcp_hub.rs:457`). It is the exception in
  `ServersGetWhatWasJudged`;
- a tool of a server whose id has a colon in it may be called by its key and is never
  listed, unless a policy allows everything: `policy.rs:542` takes what stands before the
  first `:` of a key for the server, and `mcp_hub.rs:12` says that `tools/list` fans out to
  each enabled server the caller may reach. It is the exception in
  `ListsWhatMayBeCalled`;
- two pairs of a server and a tool may have one key `server:tool`, though `mcp.md:104`
  speaks of the pair that a key refers to;
- `mcp_permissions.rs:286-287` says that every MCP request is logged; a 404 at
  `/mcp/{server}`, unreadable bodies, `initialize` and notifications at the hub are not;
- `mcp_hub.rs:434` answers a `tools/list` that failed with id null, `jsonrpc.rs:45`
  says "The echoed request id";
- `mcp_forward.rs:223` strips the decoded id of a server from the undecoded path.

*Migrations.*

- a kill in the middle of a migration makes every later start fail on what exists
  already, and down then up fails on columns that the down part left
  (`migration.rs:342-344` says "round-trips");
- `config.rs:64` says "Postgres for prod"; the triggers and the upsert are SQLite's;
- `~` is expanded for the file's mode (`persistence.rs:58`) and not in the URL that is
  opened (32-36), though `configuration.md:22` says it is.

## 4. Proofs

`RequestPipeline_proofs` proves for every number of requests, subjects, devices,
policies and days: `TypeCorrect`, `PipelineInvariant` and, from it, a theorem for
each safety property of the runs. Assumptions: those named in the modules
(`Requests` finite, `NoLimit` not an integer, policies of the right shape, the
maps of tokens total).

None of the properties is inductive. `PipelineInv` adds what a task knows about the
shared rows while it is between two statements:

- `LedgerPhase` places every history date: a reservation belongs to an allowed
  request, is not in the future, and is released or recorded only by the last step.
  With it each statement changes exactly one of the three sets in `LedgerBalanced`
  together with the counter, and `QuotaHonoured` follows since on a day without
  late releases the counter is at least the number of admitted requests: a new one
  is admitted only while that is below its quota;
- `DevicePhase`: the oldest row of a device says what the administrators decided
  last. Appending rows keeps the oldest, `set_revoked` changes all; so a stale
  insert cannot reopen a revoked device. Under the mutant that reads the newest
  row it is false;
- `TokenPhase`: until its check, a request of today finds at least the tokens it
  saw on arrival, since tokens of a day only grow;
- `AuditPhase`: a task that is about to charge has written its audit row.

`ReservedIffAdmitted` follows from `LedgerPhase`.

`TokenStore_proofs` proves all properties of `Tokens` for every number of tokens,
calls and users, all lifetimes, limits and clocks. Assumptions: the values of absent
are not values, and lifetimes and limits are positive, as the API enforces
(`tokens.rs:174`, `admin.rs:847`). The invariant `StoreInv` says of a call what its last statement
found (`CallOK`): of a call about to touch or refuse, that its bearer was minted and
that the row it read respects the limit it was minted under (`Within`); of a call
about to insert, that its expiry respects the limit counted from the second the
policy was resolved in. From that:

- a row can only be made for a token that was not minted before, and `Touch` makes
  none, so `RevocationFinal` is inductive together with "acknowledged tokens were
  minted";
- `created_at` is not before the second the limit was resolved in, so
  `expires_at` ≤ `created_at` + limit, and a token older than a limit that was not
  lowered has expired: `AgeLimitOnlyTightens`. Cutting is monotone and commutes with
  adding whole seconds (`StoredFacts`), which is all the argument needs;
- each statement maps to one step of `TokenLife` or none: the SELECT to `Accept`, the
  INSERT and the DELETEs to `Become`, the end of a call to `Finish`.

The type invariant of the token store is a conjunct of `StoreInv`, so the run checks it
there. That of the pipeline is not one of `PipelineInv`: it is proved on its own
(`TypeCorrect`), and the proof that `PipelineInv` is kept uses it.

`McpGateway_proofs` proves all properties of `Mcp` for every set of servers, tools,
groups, headers, calls and requests. Assumptions: those named in the module; of the
servers that every nonempty set of them has a least one, since the hub goes through
them in the order of their ids, and that no two are spelled alike; ids and names have any
number of colons, and tools may share a key. `McpInv` has two halves:

- `HeaderInv`: a call that is about to write has a server and the row it read; since
  the UPDATE leaves out what was not supplied, what it read does not matter for the
  header, and `HeaderIsLastSupplied` is inductive with that;
- `RequestInv`: a request carries and sends only what has a key in its history
  `permitted` (`Within`), which every change of a policy extends by the new grants;
  what it has sent agrees with where it is, so a denied one has sent nothing
  (`SentOnce`); and a listing that no administrator disturbed has put each enabled
  server under exactly one of listed, skipped and still to do (`Undisturbed`). The
  last needs that no call runs while a request is quiet, and that of a server without a
  colon in its id the first part of a key is the id (`HeadStarts`, `ReachFacts`).

`ProviderStore_proofs` proves all properties of `Providers` for every set of
providers, keys, groups, calls and requests. Assumptions: providers are natural
numbers (they stand for the order of the rows), priorities integers. `ProviderInv`:

- `RowsInv`: the foreign keys, and what was settled by the last call that ran alone;
- `CallsInv`: a call that is alone is the only one that runs, and at each of its
  statements the default flag, the key and the access list are as far as its
  statements before brought them (`Lone`). A race or a fault ends that knowledge and
  the claim with it;
- `RequestsInv`: the keys a request has excluded are exactly those it sent, once
  each, whatever administrators do: `NoKeyTwice` needs no quiet. While it is quiet,
  what it has read is what is there (`Exact`), so that the first of the usable keys
  is one of the best.

`UsesOnlySettledKeys` is an action property, and follows from the invariant and the
guard of the one statement that reads the list.

`Relay_proofs` proves all properties of `Relay` for every set of users, tokens,
certificates, files, commands and requests. `RelayInv` says what a command that no
other has disturbed knows between two steps (`Knows`), and that nobody on the
machine knows another fingerprint while the certificate stays the same
(`DevicesInv`). `RevokedIsFinal` is inductive with "revoked tokens were minted" and
"a file holds minted tokens only"; `EmptyOnlyMidWrite` needs the place of every
login between truncating and writing.

`Login_proofs`: in `LoginInv` a login in hand of a code or claims holds an answer to
its own request (`InHand`), since state, nonce and subject are compared in turn; more
codes at the IdP change nothing (`MoreCodes`). In `BindingInv` an undisturbed
process has the chain that is on the disk until it computed the fingerprint, and from
then on the fingerprint of its chain (`ReadFrom`); no step of another process touches
either. Assumptions: the values of absent are not values, and `IssuedBy` is total.

Of `Schema` it proves `SchemaFollowsRecord` for any number of processes that start,
fail, reset and are killed at once. `SchemaInv`: what is recorded is 1..n. While no
reset was killed, all that those n migrations make is there, except for what a reset
has taken back of the last of them; while nothing was killed there is nothing else
either, except for what one process, and one only, has made of the next. That the
lists are right is part of the proof: of both, `BothMigrationsFit` shows that each
migration finds what it changes and makes nothing twice, that its down part leaves no
table it made, and that all of them together make what the entities ask for.

`Traffic_proofs`: `TripInv` says that what a request carries is the document it
came with but for the name that the hub rewrites, and that a row of the audit log
agrees (`Matches`) with what the relay parses in that document. `RateInv` replaces the
window by a potential: the requests of an address since any of them, times the
window (`Taken`), plus what its bucket is worth now (`Worth`), is at most a full bucket
plus what has been refilled since, the seconds its calls waited counted again
(`Refilled`). A late call raises both sides: by the seconds it waited the bucket is worth
more afterwards, and by the same the bound has grown. A sweep keeps what a bucket is
worth, as only full ones go, and they stay full for every later reading of the clock:
with the mutant that sweeps earlier this is what breaks. `RetryAfterSuffices` is of the
same kind, downwards: a late call can only add to what a later one finds. `CallReachesTool` rests on sequences only: the first separator of
`server__tool` is where the server ends, because an id with a separator is refused and
one that ends in an underscore is excepted, as the property says.

`CountsLastReport` holds of every stream, however long and however cut. `StreamInv`:
there is a place in the stream, the last newline found (`Cut`), such that the buffer is
what came after it and the shared handle has the last usage before it. A chunk moves
the end of the stream only; `TakeLine` moves the cut to the first newline behind it;
and the counting task reads the handle after the last of those steps, since both
outcomes of the channel come with the end of the stream. The mutant that reads each
chunk by itself breaks what is said of the buffer.

`Admin_proofs`:

- `MergeIsOfTheSet` speaks of the rows seen so far and is inductive but for one fact:
  before the first row the list of models is empty, which keeps a first row with a
  list apart from a merge that already allows everything. `LargestOfMore` and
  `SmallestOfMore` are the step from a set to one row more;
- `PolicyIsALatePut`: `DeskInv` says that the author of the stored row was not
  answered when a call began that is `Past` the row, which is one that has written, or
  whose row is gone: such a call will change nothing any more, although it is not
  answered yet. The property alone speaks of answered calls only;
- `PricesAsListed`: while a cycle is undisturbed, the price is that of the last
  provider asked that lists the model, all of which come before those still to ask;
- `PagesForetell`: a row of a counter and the history of who was counted stand and
  fall together (`RowsCame`); a page that nothing disturbed is what it would be now
  (`PageOK`). That the quota is a number rests on `LargestOfFinite`: a finite set of
  integers has a largest one, the one that the fewest members reach;
- `WalkMissesNothing`: as many matching entries are newer than one that the reader
  still lacks as its offset, at least (`WalkInv`). New entries only raise that number,
  wherever they sort; a page ends where its last entry has as many newer ones as
  the offset it leads to, because the order is total (`NewerIsTotal`,
  `PlaceInListing`). With the mutant that orders by the second alone it is not;
- `SummaryAddsUp`: `SummaryInv` says that each total is the sum over the groups so far,
  and that rows still to read account for the rest of what the listing knew; a row
  raises one group and the total by the same. Sums over finite sets do not depend on
  the order in which a set is taken apart (`SumTakesAny`);
- `SavesSafely`: `SaverInv` says what each pass may rely on, and that what is said so
  far is what was said in the request. Lines come unfolded (`AsSent`), so that folding
  may count them: by `CollapseTells` the folded lines up to a line tell what the first
  lines tell up to the end of the run it is in. `DedupKeeps` and `StripKeeps` show that
  what goes is blank or stays elsewhere; `StripKeeps` is where a text that is not blank
  needs a length, for the code drops a message by its length. `NewestKept` and
  `TrimKeeps` go through the turns from the last: the first of them is kept in any
  case, any other only within the budget.

- `LinesAreRedactedEvents`: that the scan of a text does what the walk of the value
  does. `ValueEnds` is about the count of brackets: in the text of a value, and between
  its commas, every bracket is closed after it was opened (`TextsAreClosed`), so the
  count is zero first at the bracket that belongs to the one at the start
  (`MatchingIs`); with the mutant it is another. `AllAreRead` follows the loop through
  the text of a value: from wherever it begins, it comes to the end of the text with
  the text of the redacted value written behind what was written before. It
  goes by the depth of the value, within a value part by part (`ReadCommas`), and a
  sensitive field is one turn (`ReadField`). Each turn reads a token at least, so the
  turns that `RedactJsonFields` takes suffice.

The last three are about recursive functions on sequences, sets and values. No
principle of induction can be applied to them here, but a counterexample with the
least number can be refuted (`LeastNumber`, from the well-foundedness of the natural
numbers), and what holds of 0 and carries over to the next holds throughout
(`NumberByNumber`). So a function defined by its value at n - 1 is shown to exist
(`StepsCanBeTaken`, `JsonLevels`, `ReadTurns`) and is then unrolled, by the number of
elements, of nested values or of turns.

Each of these assumes what its module names; added for the proofs were only that
the groups of `UsagePages` are finitely many (`Bands`), that identifiers compare as
numbers (`Providers`, `Vendors`), that `MaxLimit` is positive (it is 1000), that
lengths and budgets are natural numbers (`LengthsAreNumbers`, `BudgetsAreNumbers`), that
a text which is not blank has characters (`TextsHaveLength`), that requests have roles
and lines, none of them folded yet (`BodiesAreBodies`), that no name of a field is
another token (`NamesAreNames`), that events are JSON of some depth (`NestingIsBounded`,
`EventsAreJson`), and that markers of absent differ from values
(`Missing`, `Nil`, `Nothing`, `NoCounter`, `NoUsage`, `Unknown`, `Hub`).

Only model-checked is one property: `ReservationSettles` is liveness, which is out of
the prover's reach. That the four `Find` runs find what they find is TLC's work as
well.

## 5. Not modelled, and why

- *Layout*: CSV exports, web pages, the wording of errors and log lines, the cost
  column of the counters (added and shown like the tokens; no decision reads it),
  the text of SSE answers of MCP servers.
- *Handlers and commands that only list or print*, and the administrator's command
  line, an HTTP client of the admin API (it resets the fields of a policy that it
  does not send).
- *One comparison, no state*: the check of the Host header, the dev mode without a
  bearer, the table of local keys, which no command uses.
- *Libraries*: TLS, the JWT signature (as "RS256 or ES256, by a key of the IdP"),
  AES of the provider keys (a row stands for its key), random keys.
- *Columns* of entities that nothing decides on; `Schema` has all of their names.

What the components above leave open is in their notes in `PROJECT.json`.
