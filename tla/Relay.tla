------------------------------- MODULE Relay --------------------------------
(***************************************************************************)
(* The machine of an employee: the commands of oac-relay (main.rs,         *)
(* login.rs, keystore.rs, agent_config.rs), the two files that may hold    *)
(* the key of the agent, and the relay process that forwards the agent's   *)
(* requests (proxy/ of the relay).                                         *)
(*                                                                         *)
(* Of the central proxy there are the rows of the tokens of this machine,  *)
(* each call of its API a step (TokenStore has the statements).  Slots of  *)
(* Commands and Requests are used once.                                    *)
(*                                                                         *)
(* Abstracted: the OIDC exchange, which yields a user or fails; lifetimes; *)
(* the other fields of the agent's files; bodies and headers; the commands *)
(* that only read.                                                         *)
(***************************************************************************)
EXTENDS FiniteSets, Naturals

CONSTANTS
  Users,
  Tokens,
  Certs,       \* client certificates, by their fingerprints
  Ids,         \* of rows of the identities table
  Commands,    \* processes of oac-relay other than the server
  Requests,    \* requests of the agent
  None,
  MaxActors    \* bound on the commands and requests of a behaviour

Files == {"codex", "env"}
TokenRows == [user : Users, cert : Certs, id : Ids]

ASSUME NoneAssumption ==
  /\ None \notin Users \cup Tokens \cup Certs \cup Ids \cup Files \cup TokenRows
  /\ Tokens \cap {"absent", "empty", "foreign"} = {}
ASSUME MaxActorsAssumption == MaxActors \in Nat

VARIABLES
  token,       \* token -> its row at the central proxy, or None
  identity,    \* id -> the user of its row in identities, or None
  codexHome,   \* CODEX_HOME is set
  file,        \* the files of the agent
  cert,        \* the client certificate on the disk
  relay,       \* the fingerprint in the running relay, or None: it is down
  command,
  request,
  \* History: no guard of an action reads the variables below.
  minted,      \* tokens that had a row at some time
  revoked,     \* tokens that a command reported as revoked
  raced,       \* users whose identity was inserted by a disturbed login
  replaced,    \* the certificate was replaced
  settled      \* the token of the last login, if nothing happened since

historyVars == <<minted, revoked, raced, replaced, settled>>
machineVars == <<token, identity, codexHome, file, cert, relay>>
vars == <<token, identity, codexHome, file, cert, relay, command, request,
          minted, revoked, raced, replaced, settled>>

\* "foreign" is a config without a key, "empty" what a truncated file holds.
FileStates == [text : {"absent", "empty", "foreign"} \cup Tokens, private : BOOLEAN]

\* A command keeps its place when it has ended.  "quiet": no other command ran,
\* and nothing else changed, since it began.
CommandStates ==
  [kind : {"login", "logout", "create", "revoke"},
   at : {"new", "browser", "find", "insert", "send", "sent", "inject",
         "truncate", "write", "chmod", "delete"},
   ended : {"no", "done", "failed", "killed"},
   user : Users \cup {None}, id : Ids \cup {None}, cert : Certs \cup {None},
   bearer : Tokens \cup {None}, key : Tokens \cup {None},
   target : Tokens \cup {None}, file : Files \cup {None}, quiet : BOOLEAN]

NewCommand ==
  [kind |-> "login", at |-> "new", ended |-> "no", user |-> None, id |-> None,
   cert |-> None, bearer |-> None, key |-> None, target |-> None, file |-> None,
   quiet |-> TRUE]

\* "central" is what became of the request at the central proxy, and "bound"
\* that it was refused for the device alone.
RequestStates ==
  [at : {"new", "forward", "record", "done", "gone"}, bearer : Tokens \cup {None},
   cert : Certs \cup {None}, pending : BOOLEAN,
   central : {"none", "served", "refused"}, bound : BOOLEAN,
   status : {"none", "served", "refused", "failed", "unreadable"},
   entry : {"none", "served", "refused", "failed", "lost"}]

NewRequest ==
  [at |-> "new", bearer |-> None, cert |-> None, pending |-> FALSE,
   central |-> "none", bound |-> FALSE, status |-> "none", entry |-> "none"]

Running(c) == command[c].at # "new" /\ command[c].ended = "no"
Continue(c, m) == command' = [command EXCEPT ![c] = m]
MoveTo(c, place) == Continue(c, [command[c] EXCEPT !.at = place])
End(c, how) == Continue(c, [command[c] EXCEPT !.ended = how])

Disturbed(commands) == [c \in Commands |->
  IF Running(c) THEN [commands[c] EXCEPT !.quiet = FALSE] ELSE commands[c]]

-----------------------------------------------------------------------------
(***************************************************************************)
(* The files of the agent.                                                 *)
(***************************************************************************)
\* detect_agent.
Agent == IF codexHome \/ file["codex"].text # "absent" THEN "codex" ELSE "env"

\* read: the key in the file of the agent; there is none in a file that is
\* missing, empty or somebody else's.
LoggedIn == file[Agent].text \in Tokens
Key == file[Agent].text

-----------------------------------------------------------------------------
(***************************************************************************)
(* Commands.                                                               *)
(***************************************************************************)
Start(c, m) ==
  /\ command[c].at = "new"
  /\ command' = [Disturbed(command) EXCEPT ![c] =
       [m EXCEPT !.quiet = \A d \in Commands : ~Running(d)]]
  /\ settled' = None
  /\ UNCHANGED <<machineVars, request, minted, revoked, raced, replaced>>

\* run_login up to the callback.
Login(c) == Start(c, [NewCommand EXCEPT !.kind = "login", !.at = "browser"])

\* logout_cmd, token_create_cmd and token_revoke_cmd begin with read.
Logout(c) ==
  /\ LoggedIn
  /\ Start(c, [NewCommand EXCEPT !.kind = "logout", !.at = "delete",
                                 !.bearer = Key, !.target = Key])

CreateToken(c) ==
  /\ LoggedIn
  /\ Start(c, [NewCommand EXCEPT !.kind = "create", !.at = "send", !.bearer = Key])

RevokeToken(c, k) ==
  /\ LoggedIn
  /\ Start(c, [NewCommand EXCEPT !.kind = "revoke", !.at = "delete",
                                 !.bearer = Key, !.target = k])

\* The browser comes back and the IdP vouches for a user.
Callback(c, u) ==
  /\ Running(c) /\ command[c].at = "browser"
  /\ Continue(c, [command[c] EXCEPT !.at = "find", !.user = u])
  /\ UNCHANGED <<machineVars, request, historyVars>>

IdsOf(u) == {i \in Ids : identity[i] = u}

\* Deliberately wrong: upsert_identity does not look for a row.
InsertAlways(c) ==
  /\ Running(c) /\ command[c].at = "find"
  /\ MoveTo(c, "insert")
  /\ UNCHANGED <<machineVars, request, historyVars>>

\* upsert_identity, the SELECT.
FindIdentity(c) ==
  LET m == command[c] IN
  /\ Running(c) /\ m.at = "find"
  /\ \/ \E i \in IdsOf(m.user) : Continue(c, [m EXCEPT !.at = "send", !.id = i])
     \/ IdsOf(m.user) = {} /\ MoveTo(c, "insert")
  /\ UNCHANGED <<machineVars, request, historyVars>>

\* upsert_identity, the INSERT: the table has no unique subject.
InsertIdentity(c) ==
  LET m == command[c] IN
  /\ Running(c) /\ m.at = "insert"
  /\ \E i \in IdsOf(None) :
       /\ identity' = [identity EXCEPT ![i] = m.user]
       /\ Continue(c, [m EXCEPT !.at = "send", !.id = i])
  /\ raced' = IF m.quiet THEN raced ELSE raced \cup {m.user}
  /\ UNCHANGED <<token, codexHome, file, cert, relay, request, minted, revoked,
                 replaced, settled>>

\* Deliberately wrong: the call is sent without the header.
SendUnbound(c) ==
  /\ Running(c) /\ command[c].at = "send"
  /\ MoveTo(c, "sent")
  /\ UNCHANGED <<machineVars, request, historyVars>>

\* The fingerprint of the certificate goes into the header of the call.
SendMint(c) ==
  /\ Running(c) /\ command[c].at = "send"
  /\ Continue(c, [command[c] EXCEPT !.at = "sent", !.cert = cert])
  /\ UNCHANGED <<machineVars, request, historyVars>>

\* POST /v1/tokens: a login has its claims in the body, a create those of its
\* bearer.  The answer may be lost, or never come in time.
Mint(c) ==
  LET m == command[c]
      bearer == IF m.bearer = None THEN None ELSE token[m.bearer] IN
  /\ Running(c) /\ m.at = "sent"
  /\ \/ /\ m.kind = "create" => bearer # None
        /\ \E k \in Tokens \ minted :
             /\ token' = [token EXCEPT ![k] =
                  IF m.kind = "create" THEN [bearer EXCEPT !.cert = m.cert]
                  ELSE [user |-> m.user, id |-> m.id, cert |-> m.cert]]
             /\ minted' = minted \cup {k}
             /\ \/ m.kind = "login"
                   /\ Continue(c, [m EXCEPT !.at = "inject", !.key = k])
                \/ m.kind = "create"
                   /\ Continue(c, [m EXCEPT !.ended = "done", !.key = k])
                \/ End(c, "failed")
     \/ /\ m.kind = "create" /\ bearer = None
        /\ End(c, "failed")
        /\ UNCHANGED <<token, minted>>
  /\ UNCHANGED <<identity, codexHome, file, cert, relay, request, revoked,
                 raced, replaced, settled>>

\* Deliberately wrong: the file is opened for writing before it is parsed.
InjectIntoOpened(c) ==
  LET m == command[c] IN
  /\ Running(c) /\ m.at = "inject"
  /\ file' = [file EXCEPT ![Agent].text = "empty"]
  /\ Continue(c, IF file[Agent].text = "empty" THEN [m EXCEPT !.ended = "failed"]
                 ELSE [m EXCEPT !.at = "truncate", !.file = Agent])
  /\ UNCHANGED <<token, identity, codexHome, cert, relay, request, historyVars>>

\* inject: inject_codex parses what is there, inject_generic_env does not look.
Inject(c) ==
  LET m == command[c] IN
  /\ Running(c) /\ m.at = "inject"
  /\ Continue(c, IF Agent = "codex" /\ file["codex"].text = "empty"
                   THEN [m EXCEPT !.ended = "failed"]
                   ELSE [m EXCEPT !.at = "truncate", !.file = Agent])
  /\ UNCHANGED <<machineVars, request, historyVars>>

\* write_secure: fs::write creates or truncates the file and then writes it;
\* its mode is set after that.
Truncate(c) ==
  LET f == command[c].file IN
  /\ Running(c) /\ command[c].at = "truncate"
  /\ file' = [file EXCEPT ![f] =
       [text |-> "empty", private |-> @.private /\ @.text # "absent"]]
  /\ MoveTo(c, "write")
  /\ UNCHANGED <<token, identity, codexHome, cert, relay, request, historyVars>>

Write(c) ==
  LET m == command[c] IN
  /\ Running(c) /\ m.at = "write"
  /\ file' = [file EXCEPT ![m.file].text = m.key]
  /\ MoveTo(c, "chmod")
  /\ UNCHANGED <<token, identity, codexHome, cert, relay, request, historyVars>>

\* Deliberately wrong: only the mode of a new file is set.
SecureNew(f) == file[f].private

\* The mode of the file that was written.
Secure(f) == TRUE

Chmod(c) ==
  LET m == command[c] IN
  /\ Running(c) /\ m.at = "chmod"
  /\ file' = [file EXCEPT ![m.file].private = Secure(m.file)]
  /\ End(c, "done")
  /\ settled' = IF m.quiet THEN m.key ELSE None
  /\ UNCHANGED <<token, identity, codexHome, cert, relay, request, minted,
                 revoked, raced, replaced>>

\* DELETE /v1/tokens/current finds the row or not, /v1/tokens/{id} needs a
\* bearer of the same user.
MayDelete(m) ==
  IF m.kind = "logout" THEN TRUE
  ELSE IF token[m.bearer] = None \/ token[m.target] = None THEN FALSE
  ELSE token[m.bearer].user = token[m.target].user

\* Deliberately wrong: a call that did not get through counts as done.
DeleteOrNot(c) ==
  LET m == command[c] IN
  /\ Running(c) /\ m.at = "delete"
  /\ \E executed \in BOOLEAN :
       token' = IF executed /\ MayDelete(m)
                  THEN [token EXCEPT ![m.target] = None] ELSE token
  /\ End(c, "done")
  /\ revoked' = revoked \cup {m.target}
  /\ UNCHANGED <<identity, codexHome, file, cert, relay, request, minted, raced,
                 replaced, settled>>

\* The call is answered, or its answer is lost.
Delete(c) ==
  LET m == command[c] IN
  /\ Running(c) /\ m.at = "delete"
  /\ IF MayDelete(m)
       THEN /\ token' = [token EXCEPT ![m.target] = None]
            /\ \/ End(c, "done") /\ revoked' = revoked \cup {m.target}
               \/ End(c, "failed") /\ UNCHANGED revoked
       ELSE End(c, "failed") /\ UNCHANGED <<token, revoked>>
  /\ UNCHANGED <<identity, codexHome, file, cert, relay, request, minted, raced,
                 replaced, settled>>

\* The login times out, the IdP or the central proxy cannot be reached, the
\* database or the disk fails; or the process is killed.
Stop(c) ==
  /\ Running(c)
  /\ End(c, "failed") \/ End(c, "killed")
  /\ UNCHANGED <<machineVars, request, historyVars>>

-----------------------------------------------------------------------------
(***************************************************************************)
(* What else changes on the machine and at the central proxy.              *)
(***************************************************************************)
Disturb ==
  /\ command' = Disturbed(command)
  /\ settled' = None

InstallCodex ==
  /\ file["codex"].text = "absent"
  /\ file' = [file EXCEPT !["codex"] = [text |-> "foreign", private |-> FALSE]]
  /\ Disturb
  /\ UNCHANGED <<token, identity, codexHome, cert, relay, request, minted,
                 revoked, raced, replaced>>

\* A token expires or is revoked elsewhere.
Drop(k) ==
  /\ token[k] # None
  /\ token' = [token EXCEPT ![k] = None]
  /\ Disturb
  /\ UNCHANGED <<identity, codexHome, file, cert, relay, request, minted,
                 revoked, raced, replaced>>

ReplaceCert(x) ==
  /\ ~replaced /\ x # cert
  /\ cert' = x
  /\ replaced' = TRUE
  /\ Disturb
  /\ UNCHANGED <<token, identity, codexHome, file, relay, request, minted,
                 revoked, raced>>

-----------------------------------------------------------------------------
(***************************************************************************)
(* The relay process and the requests of the agent.                        *)
(***************************************************************************)
\* serve computes the fingerprint once.
StartRelay ==
  /\ relay = None
  /\ relay' = cert
  /\ UNCHANGED <<token, identity, codexHome, file, cert, command, request,
                 historyVars>>

\* The requests in progress die with the process.
StopRelay ==
  /\ relay # None
  /\ relay' = None
  /\ request' = [r \in Requests |->
       IF request[r].at \in {"forward", "record"}
         THEN [request[r] EXCEPT !.at = "gone"] ELSE request[r]]
  /\ UNCHANGED <<token, identity, codexHome, file, cert, command, historyVars>>

Proceed(r, q) ==
  /\ request' = [request EXCEPT ![r] = q]
  /\ UNCHANGED <<machineVars, command, historyVars>>

\* Deliberately wrong: the request is sent without the header.
ForwardUnbound(r, k) ==
  /\ relay # None
  /\ request[r].at = "new"
  /\ Proceed(r, [NewRequest EXCEPT !.at = "forward", !.bearer = k, !.pending = TRUE])

\* proxy_handler, or run_handler of an MCP request: the bearer of the agent
\* and the fingerprint of the process go along.
Forward(r, k) ==
  /\ relay # None
  /\ request[r].at = "new"
  /\ Proceed(r, [NewRequest EXCEPT !.at = "forward", !.bearer = k,
                                   !.cert = relay, !.pending = TRUE])

\* run_handler answers an MCP request whose body it cannot read, without an
\* entry; proxy_handler gives up on it and has one (GiveUp).
RefuseUnreadable(r, k) ==
  /\ relay # None
  /\ request[r].at = "new"
  /\ Proceed(r, [NewRequest EXCEPT !.at = "done", !.bearer = k, !.status = "unreadable"])

\* auth_middleware of the relay: a request without a bearer ends at once.
RefuseAnonymous(r) ==
  /\ relay # None
  /\ request[r].at = "new"
  /\ Proceed(r, [NewRequest EXCEPT !.at = "done", !.status = "refused"])

\* The central proxy verifies the bearer and its device, and serves; perhaps
\* after the relay has given up.
Central(r) ==
  LET q == request[r]
      row == token[q.bearer] IN
  /\ q.pending
  /\ \/ /\ row # None /\ row.cert = q.cert
        /\ Proceed(r, [q EXCEPT !.pending = FALSE, !.central = "served"])
     \/ /\ row = None
        /\ Proceed(r, [q EXCEPT !.pending = FALSE, !.central = "refused"])
     \/ /\ row # None /\ row.cert # q.cert
        /\ Proceed(r, [q EXCEPT !.pending = FALSE, !.central = "refused",
                                !.bound = TRUE])

Answered(r) ==
  LET q == request[r] IN
  /\ q.at = "forward" /\ q.central # "none"
  /\ Proceed(r, [q EXCEPT !.at = "record", !.status = q.central])

\* The timeout of the client, or a connection that breaks.
GiveUp(r) ==
  /\ request[r].at = "forward"
  /\ \E pending \in {request[r].pending, FALSE} :
       Proceed(r, [request[r] EXCEPT !.at = "record", !.status = "failed",
                                     !.pending = pending])

\* Deliberately wrong: there is no entry of a failed call.
RecordAnswers(r) ==
  LET q == request[r] IN
  /\ q.at = "record"
  /\ \E entry \in {IF q.status = "failed" THEN "none" ELSE q.status, "lost"} :
       Proceed(r, [q EXCEPT !.at = "done", !.entry = entry])

\* ActivityLogger::record; a failure is only logged.
Record(r) ==
  LET q == request[r] IN
  /\ q.at = "record"
  /\ \E entry \in {q.status, "lost"} :
       Proceed(r, [q EXCEPT !.at = "done", !.entry = entry])

\* The agent goes away and the handler's future is dropped.
Disconnect(r) ==
  /\ request[r].at \in {"forward", "record"}
  /\ Proceed(r, [request[r] EXCEPT !.at = "gone"])

-----------------------------------------------------------------------------
TypeOK ==
  /\ token \in [Tokens -> TokenRows \cup {None}]
  /\ identity \in [Ids -> Users \cup {None}]
  /\ codexHome \in BOOLEAN
  /\ file \in [Files -> FileStates]
  /\ cert \in Certs
  /\ relay \in Certs \cup {None}
  /\ command \in [Commands -> CommandStates]
  /\ request \in [Requests -> RequestStates]
  /\ minted \in SUBSET Tokens /\ revoked \in SUBSET Tokens
  /\ raced \in SUBSET Users
  /\ replaced \in BOOLEAN
  /\ settled \in Tokens \cup {None}

\* A machine on which nobody has logged in.
Init ==
  /\ token = [k \in Tokens |-> None]
  /\ identity = [i \in Ids |-> None]
  /\ codexHome \in BOOLEAN
  /\ \E codex \in {"absent", "foreign"} :
       file = [f \in Files |->
         [text |-> IF f = "codex" THEN codex ELSE "absent", private |-> FALSE]]
  /\ cert \in Certs
  /\ relay = None
  /\ command = [c \in Commands |-> NewCommand]
  /\ request = [r \in Requests |-> NewRequest]
  /\ minted = {} /\ revoked = {} /\ raced = {}
  /\ replaced = FALSE
  /\ settled = None

SpareActor ==
  Cardinality({c \in Commands : command[c].at # "new"}) +
    Cardinality({r \in Requests : request[r].at # "new"}) < MaxActors

Begin(c) ==
  \/ Login(c) \/ Logout(c) \/ CreateToken(c)
  \/ \E k \in minted : RevokeToken(c, k)

Go(c) ==
  \/ \E u \in Users : Callback(c, u)
  \/ FindIdentity(c) \/ InsertIdentity(c) \/ SendMint(c) \/ Mint(c)
  \/ Inject(c) \/ Truncate(c) \/ Write(c) \/ Chmod(c) \/ Delete(c)

Ask(r) ==
  \/ \E f \in Files :
       /\ file[f].text \in Tokens
       /\ Forward(r, file[f].text) \/ RefuseUnreadable(r, file[f].text)
  \/ RefuseAnonymous(r)

Serve(r) == Central(r) \/ Answered(r) \/ GiveUp(r) \/ Record(r) \/ Disconnect(r)

Surroundings ==
  \/ InstallCodex
  \/ \E k \in Tokens : Drop(k)
  \/ \E x \in Certs : ReplaceCert(x)
  \/ StartRelay \/ StopRelay

Next ==
  \/ SpareActor /\ \E c \in Commands : Begin(c)
  \/ \E c \in Commands : Go(c) \/ Stop(c)
  \/ SpareActor /\ \E r \in Requests : Ask(r)
  \/ \E r \in Requests : Serve(r)
  \/ Surroundings

Spec == Init /\ [][Next]_vars

-----------------------------------------------------------------------------
(***************************************************************************)
(* A login that reported success, undisturbed, has delivered: the file     *)
(* that the commands read holds its token, nobody else may read it, and    *)
(* the central proxy accepts it from a relay with the certificate on the   *)
(* disk (login.rs, complete_login; agent_config.rs, inject).               *)
(***************************************************************************)
LoginDelivers ==
  settled # None =>
    /\ file[Agent] = [text |-> settled, private |-> TRUE]
    /\ token[settled] # None
    /\ token[settled].cert = cert

(***************************************************************************)
(* When a command has reported that a token is revoked, it is, for good,   *)
(* whatever other commands and requests are on their way (main.rs,         *)
(* logout_cmd and token_revoke_cmd).                                       *)
(***************************************************************************)
RevokedIsFinal == \A k \in revoked : token[k] = None

(***************************************************************************)
(* The file of the agent is never left empty but by a login that is, or    *)
(* was stopped, between truncating and writing it: a later login could not *)
(* parse it, after it had its token minted (agent_config.rs, inject_codex  *)
(* and write_secure).                                                      *)
(***************************************************************************)
EmptyOnlyMidWrite ==
  \A f \in Files : file[f].text = "empty" =>
    \E c \in Commands : command[c].at = "write" /\ command[c].file = f

(***************************************************************************)
(* No request of the agent is refused for its device as long as the        *)
(* client certificate stays the same: the relay and the commands compute   *)
(* the fingerprint at different times (proxy/mod.rs of the relay, serve;   *)
(* login.rs, complete_login).                                              *)
(***************************************************************************)
BoundToThisDevice == ~replaced => \A r \in Requests : ~request[r].bound

(***************************************************************************)
(* An answered request has an entry in the activity log with what the      *)
(* agent was told, even if the central proxy served it after the relay     *)
(* had given up; only a failing database loses it, and only a request that *)
(* was never sent, an MCP request that the relay could not read, has none  *)
(* (proxy_handler, and run_handler of MCP requests, in the relay).         *)
(***************************************************************************)
AnsweredIsLogged ==
  \A r \in Requests :
    LET q == request[r] IN
    q.at = "done" /\ q.bearer # None =>
      \/ q.entry \in {q.status, "lost"}
      \/ q.status = "unreadable" /\ q.central = "none" /\ ~q.pending

(***************************************************************************)
(* A user has one identity unless logins ran at the same time, and the     *)
(* identity in a token is one of its user's (keystore.rs,                  *)
(* upsert_identity).                                                       *)
(***************************************************************************)
OneIdentity ==
  /\ \A u \in Users \ raced : Cardinality(IdsOf(u)) <= 1
  /\ \A k \in Tokens : token[k] # None => identity[token[k].id] = token[k].user

(***************************************************************************)
(* What logins leave on the machine is in order.                           *)
(***************************************************************************)
LoginsLeaveOrder == LoginDelivers /\ EmptyOnlyMidWrite /\ OneIdentity

(***************************************************************************)
(* A token is good exactly where and as long as it should be.              *)
(***************************************************************************)
TokensObey == RevokedIsFinal /\ BoundToThisDevice
=============================================================================
