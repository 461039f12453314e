--------------------------- MODULE Relay_proofs -----------------------------
(***************************************************************************)
(* Relay for any users, tokens, certificates, commands and requests: what  *)
(* logins leave on the machine, which tokens are good there, and what the  *)
(* activity log says of the requests of the agent.                         *)
(***************************************************************************)
EXTENDS Relay, FiniteSetTheorems, TLAPS

\* The rows, the files and what is remembered of them.
TablesInv ==
  /\ token \in [Tokens -> TokenRows \cup {None}]
  /\ identity \in [Ids -> Users \cup {None}]
  /\ codexHome \in BOOLEAN
  /\ file \in [Files -> FileStates]
  /\ cert \in Certs
  /\ relay \in Certs \cup {None}
  /\ minted \in SUBSET Tokens /\ revoked \in SUBSET minted
  /\ raced \in SUBSET Users
  /\ replaced \in BOOLEAN
  /\ RevokedIsFinal
  /\ \A f \in Files : file[f].text \in Tokens => file[f].text \in minted
  /\ \A k \in Tokens : token[k] # None => identity[token[k].id] = token[k].user
  /\ \A u \in Users \ raced : \A i, j \in IdsOf(u) : i = j

\* What the place of a command tells about the rest of it.
LoginPlaces == {"browser", "find", "insert", "inject", "truncate", "write", "chmod"}

CommandOK(m, ids, made) ==
  /\ m \in CommandStates
  /\ m.at \in LoginPlaces => m.kind = "login"
  /\ m.at \in {"send", "sent"} => m.kind \in {"login", "create"}
  /\ m.at \in {"find", "insert"} => m.user \in Users
  /\ m.at \in {"send", "sent"} /\ m.kind = "login" =>
       m.user \in Users /\ m.id \in Ids /\ ids[m.id] = m.user
  /\ m.at \in {"send", "sent"} /\ m.kind = "create" => m.bearer \in Tokens
  /\ m.at = "sent" => m.cert \in Certs
  /\ m.at \in {"inject", "truncate", "write", "chmod"} => m.key \in made
  /\ m.at \in {"truncate", "write", "chmod"} => m.file \in Files
  /\ m.at = "delete" => m.target \in made

\* What an undisturbed command knows of the tables and of the files.
Knows(m, ids, x, rows, texts, agent) ==
  /\ m.at = "insert" => \A i \in Ids : ids[i] # m.user
  /\ m.at = "sent" => m.cert = x
  /\ m.at \in {"inject", "truncate", "write", "chmod"} =>
       rows[m.key] # None /\ rows[m.key].cert = x
  /\ m.at \in {"truncate", "write", "chmod"} => m.file = agent
  /\ m.at = "chmod" => texts[m.file].text = m.key

CommandsInv ==
  /\ command \in [Commands -> CommandStates]
  /\ \A c \in Commands :
       /\ CommandOK(command[c], identity, minted)
       /\ Running(c) /\ command[c].quiet =>
            /\ \A d \in Commands : Running(d) => d = c
            /\ Knows(command[c], identity, cert, token, file, Agent)

\* Nobody knows another fingerprint while the certificate stays the same.
DevicesInv ==
  ~replaced =>
    /\ \A k \in Tokens : token[k] # None => token[k].cert = cert
    /\ relay \in {None, cert}
    /\ \A c \in Commands : command[c].at = "sent" => command[c].cert = cert
    /\ \A r \in Requests : /\ request[r].pending => request[r].cert = cert
                           /\ ~request[r].bound

\* What the relay and the log know of a request.
RequestOK(q) ==
  /\ q.pending => q.bearer \in Tokens
  /\ q.at = "done" /\ q.bearer # None =>
       \/ q.entry \in {q.status, "lost"}
       \/ q.status = "unreadable" /\ q.central = "none" /\ ~q.pending
  /\ q.status = "unreadable" => q.at = "done"

RequestsInv ==
  /\ request \in [Requests -> RequestStates]
  /\ \A r \in Requests : RequestOK(request[r])

SettledInv ==
  /\ settled \in Tokens \cup {None}
  /\ settled # None => \A c \in Commands : ~Running(c)
  /\ LoginDelivers

RelayInv ==
  /\ TablesInv
  /\ CommandsInv
  /\ DevicesInv
  /\ RequestsInv
  /\ SettledInv
  /\ EmptyOnlyMidWrite

-----------------------------------------------------------------------------
(***************************************************************************)
(* How commands go on.                                                     *)
(***************************************************************************)
LEMMA CommandFields ==
  ASSUME NEW m \in CommandStates
  PROVE  /\ m.user \in Users \cup {None} /\ m.id \in Ids \cup {None}
         /\ m.cert \in Certs \cup {None} /\ m.bearer \in Tokens \cup {None}
         /\ m.key \in Tokens \cup {None} /\ m.target \in Tokens \cup {None}
         /\ m.file \in Files \cup {None} /\ m.quiet \in BOOLEAN
         /\ m.kind \in {"login", "logout", "create", "revoke"}
         /\ m.ended \in {"no", "done", "failed", "killed"}
BY DEF CommandStates

LEMMA Commanded ==
  ASSUME RelayInv, NEW c \in Commands
  PROVE  /\ command[c] \in CommandStates
         /\ CommandOK(command[c], identity, minted)
         /\ command \in [Commands -> CommandStates]
BY DEF RelayInv, CommandsInv

\* What is known of a command stays true as rows are added.
LEMMA StillOK ==
  ASSUME NEW m, NEW ids, NEW ids2, NEW made, NEW made2, CommandOK(m, ids, made),
         \A i \in Ids : ids[i] # None => ids2[i] = ids[i], made \subseteq made2
  PROVE  CommandOK(m, ids2, made2)
BY NoneAssumption DEF CommandOK

\* Nothing is known of a settled login while a command runs.
LEMMA NotSettled ==
  ASSUME RelayInv, NEW c \in Commands, Running(c)
  PROVE  settled = None
BY DEF RelayInv, SettledInv

\* A command goes on, and keeps what the others know.
LEMMA CommandStep ==
  ASSUME RelayInv, NEW c \in Commands, Running(c), NEW m,
         Continue(c, m), m.at # "new", m.quiet = command[c].quiet,
         CommandOK(m, identity', minted'),
         m.ended = "no" /\ m.quiet
           => Knows(m, identity', cert, token', file', Agent'),
         m.at = "sent" /\ ~replaced => m.cert = cert,
         TablesInv', minted \subseteq minted',
         \A i \in Ids : identity[i] # None => identity'[i] = identity[i],
         \A k \in Tokens : token'[k] # None /\ ~replaced => token'[k].cert = cert,
         UNCHANGED <<cert, relay, request, replaced>>, EmptyOnlyMidWrite',
         settled' \in Tokens \cup {None}, LoginDelivers',
         settled' # None => m.ended # "no" /\ m.quiet
  PROVE  RelayInv'
<1>1. m \in CommandStates /\ command \in [Commands -> CommandStates]
  BY Commanded DEF CommandOK
<1>2. /\ command'[c] = m /\ command' \in [Commands -> CommandStates]
      /\ \A d \in Commands \ {c} : command'[d] = command[d]
  BY <1>1 DEF Continue
<1>3. \A d \in Commands : Running(d)' => Running(d)
  BY <1>2 DEF Running
<1>4. ASSUME NEW d \in Commands
      PROVE  CommandOK(command'[d], identity', minted')
  <2>1. CASE d = c
    BY <1>2, <2>1
  <2>2. CASE d # c
    BY <1>2, <2>2, Commanded, StillOK
  <2>. QED
    BY <2>1, <2>2
<1>5. m.quiet => \A d \in Commands : Running(d) => d = c
  BY DEF RelayInv, CommandsInv
<1>6. \A d \in Commands : Running(d) /\ command[d].quiet => d = c
  BY DEF RelayInv, CommandsInv
<1>7. ASSUME NEW d \in Commands, Running(d)', command'[d].quiet
      PROVE  /\ \A e \in Commands : Running(e)' => e = d
             /\ Knows(command'[d], identity', cert', token', file', Agent')
  <2>1. d = c
    <3>1. CASE d # c
      BY <1>2, <1>3, <1>6, <1>7, <3>1
    <3>. QED
      BY <3>1
  <2>2. m.ended = "no" /\ m.quiet
    BY <1>2, <1>7, <2>1 DEF Running
  <2>3. Knows(m, identity', cert, token', file', Agent') /\ cert' = cert
    BY <2>2
  <2>. QED
    BY <1>2, <1>3, <1>5, <2>1, <2>2, <2>3
<1>8. CommandsInv'
  BY <1>2, <1>4, <1>7 DEF CommandsInv
<1>9. DevicesInv'
  BY <1>2 DEF RelayInv, DevicesInv
<1>10. RequestsInv'
  BY DEF RelayInv, RequestsInv
<1>11. SettledInv'
  BY <1>2, <1>3, <1>5 DEF SettledInv, Running
<1>. QED
  BY <1>8, <1>9, <1>10, <1>11 DEF RelayInv

\* A command goes on without touching the tables or the files.
LEMMA MoveStep ==
  ASSUME RelayInv, NEW c \in Commands, Running(c), NEW m,
         Continue(c, m), m.at # "new", m.quiet = command[c].quiet,
         CommandOK(m, identity, minted),
         m.ended = "no" /\ m.quiet => Knows(m, identity, cert, token, file, Agent),
         m.at = "sent" /\ ~replaced => m.cert = cert,
         command[c].at = "write" => m.at = "write" /\ m.file = command[c].file,
         UNCHANGED <<machineVars, request, historyVars>>
  PROVE  RelayInv'
<1>1. UNCHANGED <<token, identity, codexHome, file, cert, relay, minted, revoked,
                  raced, replaced, settled, request>>
  BY DEF machineVars, historyVars
<1>2. TablesInv' /\ Agent' = Agent /\ IdsOf(None)' = IdsOf(None)
  BY <1>1 DEF RelayInv, TablesInv, Agent, RevokedIsFinal, IdsOf
<1>3. command' = [command EXCEPT ![c] = m] /\ command \in [Commands -> CommandStates]
  BY Commanded DEF Continue
<1>4. EmptyOnlyMidWrite'
  <2>1. SUFFICES ASSUME NEW f \in Files, file[f].text = "empty"
                 PROVE  \E d \in Commands : command'[d].at = "write" /\ command'[d].file = f
    BY <1>1 DEF EmptyOnlyMidWrite
  <2>2. PICK d \in Commands : command[d].at = "write" /\ command[d].file = f
    BY <2>1 DEF RelayInv, EmptyOnlyMidWrite
  <2>3. command'[d].at = "write" /\ command'[d].file = f
    BY <1>3, <2>2
  <2>. QED
    BY <2>3
<1>5. settled' = None
  BY <1>1, NotSettled
<1>6. LoginDelivers'
  BY <1>5 DEF LoginDelivers
<1>7. \A k \in Tokens : token'[k] # None /\ ~replaced => token'[k].cert = cert
  BY <1>1 DEF RelayInv, DevicesInv
<1>8. CommandOK(m, identity', minted')
      /\ (m.ended = "no" /\ m.quiet
            => Knows(m, identity', cert, token', file', Agent'))
  BY <1>1, <1>2
<1>9. /\ UNCHANGED <<cert, relay, request, replaced>> /\ minted \subseteq minted'
      /\ \A i \in Ids : identity[i] # None => identity'[i] = identity[i]
  BY <1>1
<1>. QED
  BY <1>2, <1>4, <1>5, <1>6, <1>7, <1>8, <1>9, CommandStep

\* A command that ends keeps what is known of its place.
LEMMA EndedOK ==
  ASSUME RelayInv, NEW c \in Commands, NEW how \in {"done", "failed", "killed"}
  PROVE  LET m == [command[c] EXCEPT !.ended = how] IN
         /\ m \in CommandStates /\ m.ended = how /\ m.at = command[c].at
         /\ m.file = command[c].file /\ m.quiet = command[c].quiet
         /\ m.cert = command[c].cert /\ m.key = command[c].key
         /\ CommandOK(m, identity, minted)
<1>. DEFINE m == [command[c] EXCEPT !.ended = how]
<1>1. /\ m \in CommandStates /\ m.ended = how /\ m.at = command[c].at
      /\ m.file = command[c].file /\ m.quiet = command[c].quiet
      /\ m.cert = command[c].cert /\ m.key = command[c].key
      /\ m.kind = command[c].kind /\ m.user = command[c].user /\ m.id = command[c].id
      /\ m.bearer = command[c].bearer /\ m.target = command[c].target
  BY Commanded DEF CommandStates
<1>. HIDE DEF m
<1>2. CommandOK(m, identity, minted)
  BY <1>1, Commanded DEF CommandOK
<1>. QED
  BY <1>1, <1>2 DEF m

LEMMA EndStep ==
  ASSUME RelayInv, NEW c \in Commands, Running(c), NEW how \in {"done", "failed", "killed"},
         End(c, how), UNCHANGED <<machineVars, request, historyVars>>
  PROVE  RelayInv'
<1>. DEFINE m == [command[c] EXCEPT !.ended = how]
<1>1. /\ m.ended # "no" /\ m.at = command[c].at /\ m.file = command[c].file
      /\ m.quiet = command[c].quiet /\ m.cert = command[c].cert
      /\ CommandOK(m, identity, minted) /\ Continue(c, m)
  BY EndedOK DEF End
<1>2. command[c].at # "new"
  BY DEF Running
<1>3. command[c].at = "sent" /\ ~replaced => command[c].cert = cert
  BY DEF RelayInv, DevicesInv
<1>. HIDE DEF m
<1>. QED
  BY <1>1, <1>2, <1>3, MoveStep

-----------------------------------------------------------------------------
(***************************************************************************)
(* Commands begin, and other things happen on the machine.                 *)
(***************************************************************************)
LEMMA DisturbedOK ==
  ASSUME RelayInv, NEW c \in Commands
  PROVE  LET m == Disturbed(command)[c] IN
         /\ m \in CommandStates /\ CommandOK(m, identity, minted)
         /\ m.at = command[c].at /\ m.ended = command[c].ended
         /\ m.file = command[c].file /\ m.cert = command[c].cert
         /\ Running(c) => ~m.quiet
<1>. DEFINE m == [command[c] EXCEPT !.quiet = FALSE]
<1>1. /\ m \in CommandStates /\ m.at = command[c].at /\ m.ended = command[c].ended
      /\ m.file = command[c].file /\ m.cert = command[c].cert /\ m.key = command[c].key
      /\ m.kind = command[c].kind /\ m.user = command[c].user /\ m.id = command[c].id
      /\ m.bearer = command[c].bearer /\ m.target = command[c].target /\ ~m.quiet
  BY Commanded, ZenonT(40) DEF CommandStates
<1>2. Disturbed(command)[c] = IF Running(c) THEN m ELSE command[c]
  BY DEF Disturbed
<1>. HIDE DEF m
<1>3. CommandOK(m, identity, minted)
  BY <1>1, Commanded DEF CommandOK
<1>. QED
  BY <1>1, <1>2, <1>3, Commanded

\* Something changes that the commands in progress do not know of.
LEMMA DisturbStep ==
  ASSUME RelayInv, Disturb, UNCHANGED <<identity, minted, request>>,
         TablesInv', EmptyOnlyMidWrite', DevicesInv'
  PROVE  RelayInv'
<1>1. \A c \in Commands : command'[c] = Disturbed(command)[c]
  BY DEF Disturb
<1>2. command' \in [Commands -> CommandStates]
  <2>1. \A c \in Commands : Disturbed(command)[c] \in CommandStates
    BY DisturbedOK
  <2>2. command' = [c \in Commands |-> command'[c]]
    BY DEF Disturb, Disturbed
  <2>. QED
    BY <1>1, <2>1, <2>2
<1>3. \A c \in Commands : CommandOK(command'[c], identity', minted')
  BY <1>1, DisturbedOK
<1>4. \A c \in Commands : ~(Running(c)' /\ command'[c].quiet)
  BY <1>1, DisturbedOK DEF Running
<1>5. CommandsInv'
  BY <1>2, <1>3, <1>4 DEF CommandsInv
<1>6. SettledInv'
  BY DEF Disturb, SettledInv, LoginDelivers
<1>7. RequestsInv'
  BY DEF RelayInv, RequestsInv
<1>. QED
  BY <1>5, <1>6, <1>7 DEF RelayInv

\* A writer that is disturbed goes on writing.
LEMMA DisturbedWriters ==
  ASSUME RelayInv, command' = Disturbed(command), NEW c \in Commands,
         command[c].at = "write"
  PROVE  command'[c].at = "write" /\ command'[c].file = command[c].file
BY DisturbedOK

LEMMA InstallCodexOK == RelayInv /\ InstallCodex => RelayInv'
<1>. SUFFICES ASSUME RelayInv, InstallCodex PROVE RelayInv'
  OBVIOUS
<1>1. /\ file' = [file EXCEPT !["codex"] = [text |-> "foreign", private |-> FALSE]]
      /\ Disturb
      /\ UNCHANGED <<token, identity, codexHome, cert, relay, request, minted,
                     revoked, raced, replaced>>
  BY DEF InstallCodex
<1>2. [text |-> "foreign", private |-> FALSE] \in FileStates
      /\ "foreign" \notin Tokens /\ "codex" \in Files
  BY NoneAssumption DEF FileStates, Files
<1>3. file' \in [Files -> FileStates]
      /\ \A f \in Files : file'[f].text # "foreign" => file'[f] = file[f]
  BY <1>1, <1>2 DEF RelayInv, TablesInv
<1>4. TablesInv'
  BY <1>1, <1>2, <1>3 DEF RelayInv, TablesInv, RevokedIsFinal, IdsOf
<1>5. EmptyOnlyMidWrite'
  <2>1. SUFFICES ASSUME NEW f \in Files, file[f].text = "empty"
                 PROVE  \E d \in Commands : command'[d].at = "write" /\ command'[d].file = f
    BY <1>3 DEF EmptyOnlyMidWrite
  <2>. QED
    BY <1>1, <2>1, DisturbedWriters DEF RelayInv, EmptyOnlyMidWrite, Disturb
<1>6. DevicesInv'
  BY <1>1, DisturbedOK DEF RelayInv, DevicesInv, Disturb
<1>. QED
  BY <1>1, <1>4, <1>5, <1>6, DisturbStep

LEMMA DropOK ==
  ASSUME RelayInv, NEW k \in Tokens, Drop(k)
  PROVE  RelayInv'
<1>1. /\ token' = [token EXCEPT ![k] = None] /\ Disturb
      /\ UNCHANGED <<identity, codexHome, file, cert, relay, request, minted,
                     revoked, raced, replaced>>
  BY DEF Drop
<1>2. \A l \in Tokens : token'[l] = token[l] \/ token'[l] = None
  BY <1>1 DEF RelayInv, TablesInv
<1>3. token' \in [Tokens -> TokenRows \cup {None}]
  BY <1>1 DEF RelayInv, TablesInv
<1>4. TablesInv'
  BY <1>1, <1>2, <1>3 DEF RelayInv, TablesInv, RevokedIsFinal, IdsOf
<1>5. EmptyOnlyMidWrite'
  BY <1>1, DisturbedWriters DEF RelayInv, EmptyOnlyMidWrite, Disturb
<1>6. DevicesInv'
  BY <1>1, <1>2, DisturbedOK DEF RelayInv, DevicesInv, Disturb
<1>. QED
  BY <1>1, <1>4, <1>5, <1>6, DisturbStep

LEMMA ReplaceCertOK ==
  ASSUME RelayInv, NEW x \in Certs, ReplaceCert(x)
  PROVE  RelayInv'
<1>1. TablesInv'
  BY DEF ReplaceCert, RelayInv, TablesInv, RevokedIsFinal, IdsOf
<1>2. EmptyOnlyMidWrite'
  BY DisturbedWriters DEF ReplaceCert, RelayInv, EmptyOnlyMidWrite, Disturb
<1>3. DevicesInv'
  BY DEF ReplaceCert, DevicesInv
<1>. QED
  BY <1>1, <1>2, <1>3, DisturbStep DEF ReplaceCert

LEMMA StartRelayOK == RelayInv /\ StartRelay => RelayInv'
<1>. SUFFICES ASSUME RelayInv, StartRelay PROVE RelayInv'
  OBVIOUS
<1>1. /\ UNCHANGED <<token, identity, codexHome, file, cert, command, request, minted,
                     revoked, raced, replaced, settled>>
      /\ relay' = cert
  BY DEF StartRelay, historyVars
<1>2. TablesInv'
  BY <1>1 DEF RelayInv, TablesInv, RevokedIsFinal, IdsOf
<1>3. CommandsInv' /\ SettledInv' /\ EmptyOnlyMidWrite' /\ RequestsInv'
  BY <1>1 DEF RelayInv, CommandsInv, Agent, Running, SettledInv, LoginDelivers,
     EmptyOnlyMidWrite, RequestsInv
<1>4. DevicesInv'
  BY <1>1 DEF RelayInv, DevicesInv
<1>. QED
  BY <1>2, <1>3, <1>4 DEF RelayInv

\* A command begins: from here on no command in progress is undisturbed.
LEMMA StartStep ==
  ASSUME RelayInv, NEW c \in Commands, NEW m, Start(c, m),
         CommandOK(m, identity, minted), m.ended = "no",
         m.at \in {"browser", "send", "delete"}
  PROVE  RelayInv'
<1>. DEFINE free == \A d \in Commands : ~Running(d)
            n == [m EXCEPT !.quiet = free]
<1>1. /\ command[c].at = "new" /\ ~Running(c) /\ settled' = None /\ free \in BOOLEAN
      /\ command' = [Disturbed(command) EXCEPT ![c] = n]
      /\ UNCHANGED <<token, identity, codexHome, file, cert, relay, request, minted,
                     revoked, raced, replaced>>
  BY DEF Start, Running, machineVars
<1>. HIDE DEF free
<1>2. /\ n \in CommandStates /\ n.at = m.at /\ n.ended = m.ended /\ n.kind = m.kind
      /\ n.user = m.user /\ n.id = m.id /\ n.cert = m.cert /\ n.bearer = m.bearer
      /\ n.key = m.key /\ n.target = m.target /\ n.file = m.file /\ n.quiet = free
  <2>1. m \in CommandStates /\ free \in BOOLEAN
    BY <1>1 DEF CommandOK
  <2>. QED
    BY <2>1 DEF CommandStates
<1>. HIDE DEF n
<1>3. CommandOK(n, identity, minted)
  BY <1>2 DEF CommandOK
<1>4. DOMAIN Disturbed(command) = Commands
  BY DEF Disturbed
<1>5. command'[c] = n /\ \A d \in Commands \ {c} : command'[d] = Disturbed(command)[d]
  BY <1>1, <1>4
<1>6. command' \in [Commands -> CommandStates]
  <2>1. \A d \in Commands : Disturbed(command)[d] \in CommandStates
    BY DisturbedOK
  <2>. QED
    BY <1>1, <1>2, <1>4, <2>1
<1>7. \A d \in Commands : CommandOK(command'[d], identity, minted)
  BY <1>3, <1>5, DisturbedOK
<1>8. \A d \in Commands : Running(d)' <=> d = c \/ Running(d)
  BY <1>2, <1>5, DisturbedOK DEF Running
<1>9. \A d \in Commands \ {c} : Running(d) => ~command'[d].quiet
  BY <1>5, DisturbedOK
<1>10. Knows(n, identity', cert', token', file', Agent')
  BY <1>2 DEF Knows
<1>11. \A d \in Commands : Running(d)' /\ command'[d].quiet =>
         /\ \A e \in Commands : Running(e)' => e = d
         /\ Knows(command'[d], identity', cert', token', file', Agent')
  BY <1>2, <1>5, <1>8, <1>9, <1>10 DEF free
<1>12. CommandsInv'
  BY <1>1, <1>6, <1>7, <1>11 DEF CommandsInv
<1>13. TablesInv' /\ RequestsInv' /\ SettledInv'
  BY <1>1 DEF RelayInv, TablesInv, RevokedIsFinal, IdsOf, RequestsInv,
     SettledInv, LoginDelivers
<1>14. \A d \in Commands : /\ command'[d].at = "sent" => command[d].at = "sent"
                                /\ command'[d].cert = command[d].cert
                           /\ command[d].at = "write" => command'[d].at = "write"
                                /\ command'[d].file = command[d].file
  BY <1>1, <1>2, <1>5, DisturbedOK
<1>15. DevicesInv'
  BY <1>1, <1>14 DEF RelayInv, DevicesInv
<1>16. EmptyOnlyMidWrite'
  BY <1>1, <1>14 DEF RelayInv, EmptyOnlyMidWrite
<1>. QED
  BY <1>12, <1>13, <1>15, <1>16 DEF RelayInv

\* The key that is read from the file of the agent was minted.
LEMMA KeyMinted == RelayInv /\ LoggedIn => Key \in minted /\ Key \in Tokens
BY DEF RelayInv, TablesInv, LoggedIn, Key, Agent, Files

LEMMA BeginOK ==
  ASSUME RelayInv, NEW c \in Commands, Begin(c)
  PROVE  RelayInv'
<1>1. CASE Login(c)
  <2>. DEFINE m == [NewCommand EXCEPT !.kind = "login", !.at = "browser"]
  <2>1. m \in CommandStates /\ m.at = "browser" /\ m.kind = "login" /\ m.ended = "no"
    BY DEF NewCommand, CommandStates
  <2>. HIDE DEF m
  <2>2. CommandOK(m, identity, minted)
    BY <2>1 DEF CommandOK
  <2>. QED
    BY <1>1, <2>1, <2>2, StartStep DEF Login, m
<1>2. CASE Logout(c)
  <2>. DEFINE m == [NewCommand EXCEPT !.kind = "logout", !.at = "delete",
                                      !.bearer = Key, !.target = Key]
  <2>1. Key \in minted /\ Key \in Tokens
    BY <1>2, KeyMinted DEF Logout
  <2>2. m \in CommandStates /\ m.at = "delete" /\ m.target = Key /\ m.ended = "no"
    BY <2>1 DEF NewCommand, CommandStates
  <2>. HIDE DEF m
  <2>3. CommandOK(m, identity, minted)
    BY <2>1, <2>2 DEF CommandOK, LoginPlaces
  <2>. QED
    BY <1>2, <2>2, <2>3, StartStep DEF Logout, m
<1>3. CASE CreateToken(c)
  <2>. DEFINE m == [NewCommand EXCEPT !.kind = "create", !.at = "send", !.bearer = Key]
  <2>1. Key \in Tokens
    BY <1>3, KeyMinted DEF CreateToken
  <2>2. /\ m \in CommandStates /\ m.at = "send" /\ m.kind = "create"
        /\ m.bearer = Key /\ m.ended = "no"
    BY <2>1 DEF NewCommand, CommandStates
  <2>. HIDE DEF m
  <2>3. CommandOK(m, identity, minted)
    BY <2>1, <2>2 DEF CommandOK, LoginPlaces
  <2>. QED
    BY <1>3, <2>2, <2>3, StartStep DEF CreateToken, m
<1>4. ASSUME NEW k \in minted, RevokeToken(c, k)
      PROVE  RelayInv'
  <2>. DEFINE m == [NewCommand EXCEPT !.kind = "revoke", !.at = "delete",
                                      !.bearer = Key, !.target = k]
  <2>1. Key \in Tokens /\ k \in Tokens
    BY <1>4, KeyMinted DEF RevokeToken, RelayInv, TablesInv
  <2>2. m \in CommandStates /\ m.at = "delete" /\ m.target = k /\ m.ended = "no"
    BY <2>1 DEF NewCommand, CommandStates
  <2>. HIDE DEF m
  <2>3. CommandOK(m, identity, minted)
    BY <2>1, <2>2 DEF CommandOK, LoginPlaces
  <2>. QED
    BY <1>4, <2>2, <2>3, StartStep DEF RevokeToken, m
<1>. QED
  BY <1>1, <1>2, <1>3, <1>4 DEF Begin

-----------------------------------------------------------------------------
(***************************************************************************)
(* The steps of a login up to the file of the agent.                       *)
(***************************************************************************)
LEMMA CallbackOK ==
  ASSUME RelayInv, NEW c \in Commands, NEW u \in Users, Callback(c, u)
  PROVE  RelayInv'
<1>. DEFINE old == command[c]
            m == [old EXCEPT !.at = "find", !.user = u]
<1>1. /\ Running(c) /\ old.at = "browser" /\ Continue(c, m)
      /\ UNCHANGED <<machineVars, request, historyVars>>
  BY DEF Callback
<1>2. old \in CommandStates /\ CommandOK(old, identity, minted)
  BY Commanded
<1>3. /\ m \in CommandStates /\ m.at = "find" /\ m.user = u /\ m.kind = old.kind
      /\ m.quiet = old.quiet
  BY <1>2 DEF CommandStates
<1>. HIDE DEF m
<1>4. CommandOK(m, identity, minted)
  BY <1>1, <1>2, <1>3 DEF CommandOK, LoginPlaces
<1>5. Knows(m, identity, cert, token, file, Agent)
  BY <1>3 DEF Knows
<1>. QED
  BY <1>1, <1>3, <1>4, <1>5, MoveStep

LEMMA FindIdentityOK ==
  ASSUME RelayInv, NEW c \in Commands, FindIdentity(c)
  PROVE  RelayInv'
<1>. DEFINE old == command[c]
<1>1. /\ Running(c) /\ old.at = "find"
      /\ UNCHANGED <<machineVars, request, historyVars>>
  BY DEF FindIdentity
<1>2. old \in CommandStates /\ CommandOK(old, identity, minted) /\ old.user \in Users
  BY <1>1, Commanded DEF CommandOK
<1>3. ASSUME NEW i \in IdsOf(old.user), Continue(c, [old EXCEPT !.at = "send", !.id = i])
      PROVE  RelayInv'
  <2>. DEFINE m == [old EXCEPT !.at = "send", !.id = i]
  <2>1. i \in Ids /\ identity[i] = old.user
    BY DEF IdsOf
  <2>2. /\ m \in CommandStates /\ m.at = "send" /\ m.id = i /\ m.kind = old.kind
        /\ m.user = old.user /\ m.quiet = old.quiet
    BY <1>2, <2>1 DEF CommandStates
  <2>3. Continue(c, m)
    BY <1>3
  <2>. HIDE DEF m
  <2>4. CommandOK(m, identity, minted)
    BY <1>1, <1>2, <2>1, <2>2 DEF CommandOK, LoginPlaces
  <2>5. Knows(m, identity, cert, token, file, Agent)
    BY <2>2 DEF Knows
  <2>. QED
    BY <1>1, <2>2, <2>3, <2>4, <2>5, MoveStep
<1>4. ASSUME IdsOf(old.user) = {}, MoveTo(c, "insert")
      PROVE  RelayInv'
  <2>. DEFINE m == [old EXCEPT !.at = "insert"]
  <2>1. /\ m \in CommandStates /\ m.at = "insert" /\ m.kind = old.kind
        /\ m.user = old.user /\ m.quiet = old.quiet
    BY <1>2 DEF CommandStates
  <2>2. Continue(c, m)
    BY <1>4 DEF MoveTo
  <2>. HIDE DEF m
  <2>3. CommandOK(m, identity, minted)
    BY <1>1, <1>2, <2>1 DEF CommandOK, LoginPlaces
  <2>4. Knows(m, identity, cert, token, file, Agent)
    BY <1>4, <2>1 DEF Knows, IdsOf
  <2>. QED
    BY <1>1, <2>1, <2>2, <2>3, <2>4, MoveStep
<1>. QED
  BY <1>3, <1>4 DEF FindIdentity

\* Writers are not disturbed by a command that is not about to write.
LEMMA WritersStay ==
  ASSUME RelayInv, NEW c \in Commands, NEW m, Continue(c, m),
         command[c].at # "write", NEW f \in Files, file[f].text = "empty"
  PROVE  \E d \in Commands : command'[d].at = "write" /\ command'[d].file = f
<1>1. PICK d \in Commands : command[d].at = "write" /\ command[d].file = f
  BY DEF RelayInv, EmptyOnlyMidWrite
<1>2. command'[d] = command[d]
  BY <1>1, Commanded DEF Continue
<1>. QED
  BY <1>1, <1>2

LEMMA InsertIdentityOK ==
  ASSUME RelayInv, NEW c \in Commands, InsertIdentity(c)
  PROVE  RelayInv'
<1>. DEFINE old == command[c]
            u == old.user
<1>1. PICK i \in IdsOf(None) : /\ identity' = [identity EXCEPT ![i] = u]
                               /\ Continue(c, [old EXCEPT !.at = "send", !.id = i])
  BY DEF InsertIdentity
<1>2. /\ Running(c) /\ old.at = "insert"
      /\ raced' = (IF old.quiet THEN raced ELSE raced \cup {u})
      /\ UNCHANGED <<token, codexHome, file, cert, relay, request, minted, revoked,
                     replaced, settled>>
  BY DEF InsertIdentity
<1>. DEFINE m == [old EXCEPT !.at = "send", !.id = i]
<1>3. /\ old \in CommandStates /\ CommandOK(old, identity, minted) /\ u \in Users
      /\ old.kind = "login"
  BY <1>2, Commanded DEF CommandOK, LoginPlaces
<1>4. i \in Ids /\ identity[i] = None /\ identity \in [Ids -> Users \cup {None}]
  BY DEF IdsOf, RelayInv, TablesInv
<1>5. /\ m \in CommandStates /\ m.at = "send" /\ m.id = i /\ m.kind = old.kind
      /\ m.user = u /\ m.quiet = old.quiet
  <2>1. old \in CommandStates /\ i \in Ids
    BY <1>3, <1>4
  <2>. HIDE DEF old
  <2>. QED
    BY <2>1 DEF CommandStates
<1>6. Continue(c, m)
  BY <1>1
<1>. HIDE DEF m
<1>7. /\ identity' \in [Ids -> Users \cup {None}] /\ identity'[i] = u
      /\ \A j \in Ids \ {i} : identity'[j] = identity[j]
  BY <1>1, <1>3, <1>4
<1>. HIDE DEF u
<1>8. CommandOK(m, identity', minted')
  BY <1>3, <1>4, <1>5, <1>7 DEF CommandOK, LoginPlaces
<1>9. Knows(m, identity', cert, token', file', Agent')
  BY <1>5 DEF Knows
<1>10. \A j \in Ids : identity[j] # None => identity'[j] = identity[j]
  BY <1>4, <1>7
<1>11. TablesInv'
  <2>1. \A k \in Tokens : token[k] # None => identity'[token[k].id] = token[k].user
    <3>. SUFFICES ASSUME NEW k \in Tokens, token[k] # None
                  PROVE  identity'[token[k].id] = token[k].user
      OBVIOUS
    <3>1. /\ token[k].id \in Ids /\ token[k].user \in Users
          /\ identity[token[k].id] = token[k].user
      BY DEF RelayInv, TablesInv, TokenRows
    <3>. QED
      BY <1>10, <3>1, NoneAssumption
  <2>2. ASSUME NEW v \in Users \ raced', NEW j \in Ids, NEW l \in Ids,
               identity'[j] = v, identity'[l] = v
        PROVE  j = l
    <3>1. v \in Users \ raced
      BY <1>2, <2>2
    <3>2. CASE v # u
      <4>1. identity[j] = v /\ identity[l] = v
        BY <1>7, <2>2, <3>2
      <4>. QED
        BY <3>1, <4>1 DEF RelayInv, TablesInv, IdsOf
    <3>3. CASE v = u
      <4>1. old.quiet
        BY <1>2, <2>2, <3>3
      <4>2. \A n \in Ids : identity[n] # u
        BY <1>2, <4>1 DEF RelayInv, CommandsInv, Knows, u
      <4>. QED
        BY <1>7, <2>2, <3>3, <4>2
    <3>. QED
      BY <3>2, <3>3
  <2>3. \A v \in Users \ raced' : \A j, l \in {n \in Ids : identity'[n] = v} : j = l
    BY <2>2
  <2>4. raced' \in SUBSET Users
    BY <1>2, <1>3 DEF RelayInv, TablesInv, u
  <2>. QED
    BY <1>2, <1>7, <2>1, <2>3, <2>4 DEF RelayInv, TablesInv, RevokedIsFinal, IdsOf
<1>12. EmptyOnlyMidWrite'
  BY <1>2, <1>6, WritersStay DEF EmptyOnlyMidWrite
<1>13. settled' = None /\ LoginDelivers'
  BY <1>2, NotSettled DEF LoginDelivers
<1>14. \A k \in Tokens : token'[k] # None /\ ~replaced => token'[k].cert = cert
  BY <1>2 DEF RelayInv, DevicesInv
<1>15. minted \subseteq minted' /\ UNCHANGED <<cert, relay, request, replaced>>
  BY <1>2
<1>. QED
  BY <1>2, <1>5, <1>6, <1>8, <1>9, <1>10, <1>11, <1>12, <1>13, <1>14, <1>15, CommandStep

LEMMA SendMintOK ==
  ASSUME RelayInv, NEW c \in Commands, SendMint(c)
  PROVE  RelayInv'
<1>. DEFINE old == command[c]
            m == [old EXCEPT !.at = "sent", !.cert = cert]
<1>1. /\ Running(c) /\ old.at = "send" /\ Continue(c, m)
      /\ UNCHANGED <<machineVars, request, historyVars>>
  BY DEF SendMint
<1>2. old \in CommandStates /\ CommandOK(old, identity, minted) /\ cert \in Certs
  BY Commanded DEF RelayInv, TablesInv
<1>3. /\ m \in CommandStates /\ m.at = "sent" /\ m.cert = cert /\ m.kind = old.kind
      /\ m.user = old.user /\ m.id = old.id /\ m.bearer = old.bearer
      /\ m.quiet = old.quiet
  BY <1>2 DEF CommandStates
<1>. HIDE DEF m
<1>4. CommandOK(m, identity, minted)
  BY <1>1, <1>2, <1>3 DEF CommandOK, LoginPlaces
<1>5. Knows(m, identity, cert, token, file, Agent)
  BY <1>3 DEF Knows
<1>. QED
  BY <1>1, <1>3, <1>4, <1>5, MoveStep

\* The row of a token that is minted: its identity is one of its user's, and
\* its certificate the one that the command sent.
LEMMA RowMinted ==
  ASSUME RelayInv, NEW c \in Commands, command[c].at = "sent",
         command[c].kind = "create" => token[command[c].bearer] # None
  PROVE  LET m == command[c]
             row == IF m.kind = "create" THEN [token[m.bearer] EXCEPT !.cert = m.cert]
                    ELSE [user |-> m.user, id |-> m.id, cert |-> m.cert] IN
         row \in TokenRows /\ identity[row.id] = row.user /\ row.cert = m.cert
<1>. DEFINE m == command[c]
<1>1. m \in CommandStates /\ CommandOK(m, identity, minted) /\ m.cert \in Certs
      /\ m.kind \in {"login", "create"}
  BY Commanded DEF CommandOK
<1>2. CASE m.kind = "create"
  <2>. DEFINE old == token[m.bearer]
              row == [old EXCEPT !.cert = m.cert]
  <2>1. old \in TokenRows /\ identity[old.id] = old.user
    BY <1>1, <1>2 DEF CommandOK, RelayInv, TablesInv
  <2>. HIDE DEF old
  <2>2. row \in TokenRows /\ row.id = old.id /\ row.user = old.user /\ row.cert = m.cert
    BY <1>1, <2>1 DEF TokenRows
  <2>. QED
    BY <1>2, <2>1, <2>2 DEF old
<1>3. CASE m.kind = "login"
  BY <1>1, <1>3 DEF CommandOK, TokenRows
<1>. QED
  BY <1>1, <1>2, <1>3

\* A token is minted, and the command goes on or has lost the answer.
LEMMA MintedStep ==
  ASSUME RelayInv, NEW c \in Commands, Running(c), command[c].at = "sent",
         NEW row \in TokenRows, identity[row.id] = row.user, row.cert = command[c].cert,
         NEW k \in Tokens \ minted, token' = [token EXCEPT ![k] = row],
         minted' = minted \cup {k},
         NEW m, Continue(c, m), m.quiet = command[c].quiet,
         CommandOK(m, identity, minted'), m.cert = command[c].cert,
         m.at = "sent" \/ (m.at = "inject" /\ m.key = k),
         m.ended = "no" => m.at = "inject",
         UNCHANGED <<identity, codexHome, file, cert, relay, request, revoked,
                     raced, replaced, settled>>
  PROVE  RelayInv'
<1>1. token \in [Tokens -> TokenRows \cup {None}] /\ row # None
  BY NoneAssumption DEF RelayInv, TablesInv
<1>2. /\ token' \in [Tokens -> TokenRows \cup {None}] /\ token'[k] = row
      /\ \A l \in Tokens \ {k} : token'[l] = token[l]
  BY <1>1
<1>3. TablesInv'
  <2>1. \A l \in Tokens : token'[l] # None => identity[token'[l].id] = token'[l].user
    BY <1>2 DEF RelayInv, TablesInv
  <2>2. RevokedIsFinal'
    BY <1>2 DEF RelayInv, TablesInv, RevokedIsFinal
  <2>. QED
    BY <1>2, <2>1, <2>2 DEF RelayInv, TablesInv, IdsOf
<1>4. EmptyOnlyMidWrite'
  BY WritersStay DEF EmptyOnlyMidWrite
<1>5. settled' = None /\ LoginDelivers'
  BY NotSettled DEF LoginDelivers
<1>6. ~replaced => command[c].cert = cert
  BY DEF RelayInv, DevicesInv
<1>7. \A l \in Tokens : token'[l] # None /\ ~replaced => token'[l].cert = cert
  BY <1>2, <1>6 DEF RelayInv, DevicesInv
<1>8. ASSUME m.ended = "no", m.quiet
      PROVE  Knows(m, identity', cert, token', file', Agent')
  <2>1. command[c].cert = cert
    BY <1>8 DEF RelayInv, CommandsInv, Knows
  <2>. QED
    BY <1>1, <1>2, <1>8, <2>1 DEF Knows
<1>9. /\ CommandOK(m, identity', minted') /\ minted \subseteq minted'
      /\ \A i \in Ids : identity[i] # None => identity'[i] = identity[i]
  OBVIOUS
<1>. QED
  BY <1>3, <1>4, <1>5, <1>6, <1>7, <1>8, <1>9, CommandStep

\* A command that ends with the token it has made.
LEMMA MadeToken ==
  ASSUME NEW c \in CommandStates, NEW k \in Tokens
  PROVE  LET m == [c EXCEPT !.ended = "done", !.key = k] IN
         /\ m \in CommandStates /\ m.at = c.at /\ m.ended # "no" /\ m.kind = c.kind
         /\ m.quiet = c.quiet /\ m.cert = c.cert /\ m.user = c.user
         /\ m.id = c.id /\ m.bearer = c.bearer
<1>. DEFINE d == [c EXCEPT !.ended = "done"]
            m == [d EXCEPT !.key = k]
<1>1. /\ d \in CommandStates /\ d.at = c.at /\ d.ended = "done" /\ d.kind = c.kind
      /\ d.quiet = c.quiet /\ d.cert = c.cert /\ d.user = c.user
      /\ d.id = c.id /\ d.bearer = c.bearer
  BY ZenonT(40) DEF CommandStates
<1>. HIDE DEF d
<1>2. /\ m \in CommandStates /\ m.at = d.at /\ m.ended = d.ended /\ m.kind = d.kind
      /\ m.quiet = d.quiet /\ m.cert = d.cert /\ m.user = d.user
      /\ m.id = d.id /\ m.bearer = d.bearer
  BY <1>1, ZenonT(40) DEF CommandStates
<1>3. m = [c EXCEPT !.ended = "done", !.key = k]
  BY Zenon DEF d
<1>4. m.ended # "no"
  BY <1>1, <1>2
<1>. HIDE DEF m
<1>. QED
  BY <1>1, <1>2, <1>3, <1>4, Zenon

LEMMA MintOK ==
  ASSUME RelayInv, NEW c \in Commands, Mint(c)
  PROVE  RelayInv'
<1>. DEFINE old == command[c]
            row == IF old.kind = "create" THEN [token[old.bearer] EXCEPT !.cert = old.cert]
                   ELSE [user |-> old.user, id |-> old.id, cert |-> old.cert]
<1>1. /\ Running(c) /\ old.at = "sent"
      /\ UNCHANGED <<identity, codexHome, file, cert, relay, request, revoked,
                     raced, replaced, settled>>
  BY DEF Mint
<1>2. /\ old \in CommandStates /\ CommandOK(old, identity, minted)
      /\ old.kind = "create" => old.bearer \in Tokens
      /\ old.kind \in {"login", "create"}
  BY <1>1, Commanded DEF CommandOK
<1>3. ASSUME NEW k \in Tokens \ minted, old.kind = "create" => token[old.bearer] # None,
             token' = [token EXCEPT ![k] = row], minted' = minted \cup {k},
             \/ /\ old.kind = "login"
                /\ Continue(c, [old EXCEPT !.at = "inject", !.key = k])
             \/ /\ old.kind = "create"
                /\ Continue(c, [old EXCEPT !.ended = "done", !.key = k])
             \/ End(c, "failed")
      PROVE  RelayInv'
  <2>1. row \in TokenRows /\ identity[row.id] = row.user /\ row.cert = old.cert
    BY <1>1, <1>3, RowMinted
  <2>. HIDE DEF row
  <2>2. CASE old.kind = "login" /\ Continue(c, [old EXCEPT !.at = "inject", !.key = k])
    <3>. DEFINE m == [old EXCEPT !.at = "inject", !.key = k]
    <3>1. /\ m \in CommandStates /\ m.at = "inject" /\ m.key = k /\ m.kind = old.kind
          /\ m.quiet = old.quiet /\ m.cert = old.cert
      BY <1>2, ZenonT(40) DEF CommandStates
    <3>2. Continue(c, m)
      BY <2>2
    <3>. HIDE DEF m
    <3>3. CommandOK(m, identity, minted')
      BY <1>3, <2>2, <3>1 DEF CommandOK, LoginPlaces
    <3>. QED
      BY <1>1, <1>3, <2>1, <3>1, <3>2, <3>3, MintedStep
  <2>3. CASE old.kind = "create" /\ Continue(c, [old EXCEPT !.ended = "done", !.key = k])
    <3>. DEFINE m == [old EXCEPT !.ended = "done", !.key = k]
    <3>1. /\ m \in CommandStates /\ m.at = "sent" /\ m.ended # "no" /\ m.kind = old.kind
          /\ m.quiet = old.quiet /\ m.cert = old.cert /\ m.user = old.user
          /\ m.id = old.id /\ m.bearer = old.bearer
      BY <1>1, <1>2, MadeToken
    <3>2. Continue(c, m)
      BY <2>3
    <3>. HIDE DEF m
    <3>3. CommandOK(m, identity, minted')
      BY <1>1, <1>2, <1>3, <3>1 DEF CommandOK, LoginPlaces
    <3>. QED
      BY <1>1, <1>3, <2>1, <3>1, <3>2, <3>3, MintedStep
  <2>4. CASE End(c, "failed")
    <3>. DEFINE m == [old EXCEPT !.ended = "failed"]
    <3>1. /\ m.at = "sent" /\ m.ended # "no" /\ m.quiet = old.quiet
          /\ m.cert = old.cert /\ CommandOK(m, identity, minted)
      BY <1>1, EndedOK
    <3>2. Continue(c, m)
      BY <2>4 DEF End
    <3>. HIDE DEF m
    <3>3. CommandOK(m, identity, minted')
      BY <1>3, <3>1, StillOK
    <3>. QED
      BY <1>1, <1>3, <2>1, <3>1, <3>2, <3>3, MintedStep
  <2>. QED
    BY <1>3, <2>2, <2>3, <2>4
<1>4. ASSUME End(c, "failed"), UNCHANGED <<token, minted>>
      PROVE  RelayInv'
  BY <1>1, <1>4, EndStep DEF machineVars, historyVars
<1>. QED
  BY <1>3, <1>4 DEF Mint

-----------------------------------------------------------------------------
(***************************************************************************)
(* The file of the agent is written, and tokens are revoked.               *)
(***************************************************************************)
LEMMA AgentFile == Agent \in Files
BY DEF Agent, Files

LEMMA InjectOK ==
  ASSUME RelayInv, NEW c \in Commands, Inject(c)
  PROVE  RelayInv'
<1>. DEFINE old == command[c]
            m == [old EXCEPT !.at = "truncate", !.file = Agent]
<1>1. /\ Running(c) /\ old.at = "inject"
      /\ UNCHANGED <<machineVars, request, historyVars>>
  BY DEF Inject
<1>2. /\ old \in CommandStates /\ CommandOK(old, identity, minted)
      /\ old.quiet => Knows(old, identity, cert, token, file, Agent)
  BY <1>1 DEF RelayInv, CommandsInv
<1>3. CASE Continue(c, m)
  <2>1. /\ m \in CommandStates /\ m.at = "truncate" /\ m.file = Agent
        /\ m.key = old.key /\ m.kind = old.kind /\ m.quiet = old.quiet
    BY <1>2, AgentFile, ZenonT(40) DEF CommandStates
  <2>2. Continue(c, m)
    BY <1>3
  <2>. HIDE DEF m
  <2>3. CommandOK(m, identity, minted)
    BY <1>1, <1>2, <2>1, AgentFile DEF CommandOK, LoginPlaces
  <2>4. m.quiet => Knows(m, identity, cert, token, file, Agent)
    BY <1>1, <1>2, <2>1 DEF Knows
  <2>. QED
    BY <1>1, <2>1, <2>2, <2>3, <2>4, MoveStep
<1>4. CASE End(c, "failed")
  BY <1>1, <1>4, EndStep
<1>. QED
  BY <1>3, <1>4 DEF Inject, End

\* A step of a login that has a file to write: what it changes there.
LEMMA FileStep ==
  ASSUME RelayInv, NEW c \in Commands, Running(c), NEW state \in FileStates,
         command[c].file \in Files,
         file' = [file EXCEPT ![command[c].file] = state],
         state.text \in {"empty", command[c].key}, command[c].key \in minted,
         NEW m, Continue(c, m), m.at \in {"write", "chmod"},
         m.quiet = command[c].quiet, CommandOK(m, identity, minted),
         m.ended = "no" /\ m.quiet
           => Knows(m, identity, cert, token, file', Agent'),
         EmptyOnlyMidWrite',
         settled' \in Tokens \cup {None}, LoginDelivers',
         settled' # None => m.ended # "no" /\ m.quiet,
         UNCHANGED <<token, identity, codexHome, cert, relay, request, minted,
                     revoked, raced, replaced>>
  PROVE  RelayInv'
<1>1. file \in [Files -> FileStates]
  BY DEF RelayInv, TablesInv
<1>2. /\ file' \in [Files -> FileStates] /\ file'[command[c].file] = state
      /\ \A g \in Files \ {command[c].file} : file'[g] = file[g]
  BY <1>1
<1>3. "empty" \notin Tokens
  BY NoneAssumption
<1>4. TablesInv'
  BY <1>2, <1>3 DEF RelayInv, TablesInv, RevokedIsFinal, IdsOf
<1>5. /\ CommandOK(m, identity', minted')
      /\ (m.ended = "no" /\ m.quiet
            => Knows(m, identity', cert, token', file', Agent'))
  OBVIOUS
<1>6. /\ minted \subseteq minted'
      /\ \A i \in Ids : identity[i] # None => identity'[i] = identity[i]
  OBVIOUS
<1>7. \A k \in Tokens : token'[k] # None /\ ~replaced => token'[k].cert = cert
  BY DEF RelayInv, DevicesInv
<1>. QED
  BY <1>4, <1>5, <1>6, <1>7, CommandStep

\* Writing the file of the agent does not change which file that is.
LEMMA SameAgent ==
  ASSUME RelayInv, NEW state, state.text # "absent",
         file' = [file EXCEPT ![Agent] = state], UNCHANGED codexHome
  PROVE  Agent' = Agent
<1>1. file \in [Files -> FileStates]
  BY DEF RelayInv, TablesInv
<1>2. CASE Agent = "codex"
  BY <1>1, <1>2 DEF Agent, Files
<1>3. CASE Agent = "env"
  BY <1>1, <1>3 DEF Agent, Files
<1>. QED
  BY <1>2, <1>3 DEF Agent

LEMMA FileFields ==
  ASSUME NEW s \in FileStates
  PROVE  s = [text |-> s.text, private |-> s.private]
BY DEF FileStates

LEMMA Writing ==
  ASSUME RelayInv, NEW c \in Commands, Running(c),
         command[c].at \in {"truncate", "write", "chmod"}
  PROVE  /\ command[c] \in CommandStates /\ CommandOK(command[c], identity, minted)
         /\ command[c].kind = "login" /\ command[c].file \in Files
         /\ command[c].key \in minted /\ command[c].key \in Tokens
         /\ command[c].key \notin {"absent", "empty", "foreign"}
         /\ file[command[c].file].private \in BOOLEAN
         /\ file[command[c].file].text \in {"absent", "empty", "foreign"} \cup Tokens
         /\ command[c].quiet => Knows(command[c], identity, cert, token, file, Agent)
<1>1. /\ command[c] \in CommandStates /\ CommandOK(command[c], identity, minted)
      /\ command[c].quiet => Knows(command[c], identity, cert, token, file, Agent)
  BY DEF RelayInv, CommandsInv
<1>2. /\ command[c].kind = "login" /\ command[c].file \in Files
      /\ command[c].key \in minted
  BY <1>1 DEF CommandOK, LoginPlaces
<1>3. command[c].key \in Tokens /\ file[command[c].file] \in FileStates
  BY <1>2 DEF RelayInv, TablesInv
<1>. QED
  BY <1>1, <1>2, <1>3, NoneAssumption DEF FileStates

LEMMA TruncateOK ==
  ASSUME RelayInv, NEW c \in Commands, Truncate(c)
  PROVE  RelayInv'
<1>. DEFINE old == command[c]
            f == old.file
            private == file[f].private /\ file[f].text # "absent"
            state == [text |-> "empty", private |-> private]
            m == [old EXCEPT !.at = "write"]
<1>1. /\ Running(c) /\ old.at = "truncate" /\ Continue(c, m)
      /\ file' = [file EXCEPT ![f] = state]
      /\ UNCHANGED <<token, identity, codexHome, cert, relay, request, minted,
                     revoked, raced, replaced, settled>>
  BY DEF Truncate, MoveTo, historyVars
<1>2. /\ old \in CommandStates /\ CommandOK(old, identity, minted) /\ f \in Files
      /\ old.kind = "login" /\ old.key \in minted /\ private \in BOOLEAN
      /\ old.quiet => Knows(old, identity, cert, token, file, Agent)
  BY <1>1, Writing
<1>. HIDE DEF private
<1>3. state \in FileStates /\ state.text = "empty"
  BY <1>2 DEF FileStates
<1>4. /\ m \in CommandStates /\ m.at = "write" /\ m.kind = old.kind
      /\ m.key = old.key /\ m.file = f /\ m.quiet = old.quiet
  BY <1>2 DEF CommandStates
<1>. HIDE DEF m, state
<1>5. CommandOK(m, identity, minted)
  BY <1>1, <1>2, <1>4 DEF CommandOK, LoginPlaces
<1>6. ASSUME m.quiet
      PROVE  Knows(m, identity, cert, token, file', Agent')
  <2>1. f = Agent
    BY <1>1, <1>2, <1>4, <1>6 DEF Knows
  <2>2. Agent' = Agent
    BY <1>1, <1>3, <2>1, SameAgent
  <2>. QED
    BY <1>1, <1>2, <1>4, <1>6, <2>1, <2>2 DEF Knows
<1>7. EmptyOnlyMidWrite'
  <2>1. command'[c] = m /\ command \in [Commands -> CommandStates]
    BY <1>1, Commanded DEF Continue
  <2>2. SUFFICES ASSUME NEW g \in Files, g # f, file'[g].text = "empty"
                 PROVE  \E d \in Commands : command'[d].at = "write" /\ command'[d].file = g
    BY <1>4, <2>1 DEF EmptyOnlyMidWrite
  <2>3. file[g].text = "empty"
    BY <1>1, <2>2 DEF RelayInv, TablesInv
  <2>. QED
    BY <1>1, <2>3, WritersStay
<1>8. settled' = None /\ LoginDelivers'
  BY <1>1, NotSettled DEF LoginDelivers
<1>. QED
  BY <1>1, <1>2, <1>3, <1>4, <1>5, <1>6, <1>7, <1>8, FileStep

LEMMA WriteOK ==
  ASSUME RelayInv, NEW c \in Commands, Write(c)
  PROVE  RelayInv'
<1>. DEFINE old == command[c]
            f == old.file
            state == [file[f] EXCEPT !.text = old.key]
            m == [old EXCEPT !.at = "chmod"]
<1>1. /\ Running(c) /\ old.at = "write" /\ Continue(c, m)
      /\ UNCHANGED <<token, identity, codexHome, cert, relay, request, minted,
                     revoked, raced, replaced, settled>>
  BY DEF Write, MoveTo, historyVars
<1>2. /\ old \in CommandStates /\ CommandOK(old, identity, minted) /\ f \in Files
      /\ old.kind = "login" /\ old.key \in minted /\ old.key \in Tokens
      /\ old.key \notin {"absent", "empty", "foreign"}
      /\ old.quiet => Knows(old, identity, cert, token, file, Agent)
  BY <1>1, Writing
<1>3. file[f] \in FileStates /\ file \in [Files -> FileStates]
  BY <1>2 DEF RelayInv, TablesInv
<1>4. state \in FileStates /\ state.text = old.key
  BY <1>2, <1>3 DEF FileStates
<1>5. file' = [file EXCEPT ![f] = state]
  BY <1>2, <1>3 DEF Write
<1>6. /\ m \in CommandStates /\ m.at = "chmod" /\ m.kind = old.kind
      /\ m.key = old.key /\ m.file = f /\ m.quiet = old.quiet
  BY <1>2 DEF CommandStates
<1>. HIDE DEF m, state
<1>7. CommandOK(m, identity, minted)
  BY <1>1, <1>2, <1>6 DEF CommandOK, LoginPlaces
<1>8. ASSUME m.quiet
      PROVE  Knows(m, identity, cert, token, file', Agent')
  <2>1. f = Agent
    BY <1>1, <1>2, <1>6, <1>8 DEF Knows
  <2>2. Agent' = Agent
    BY <1>1, <1>2, <1>4, <1>5, <2>1, SameAgent
  <2>. QED
    BY <1>1, <1>2, <1>3, <1>4, <1>5, <1>6, <1>8, <2>1, <2>2 DEF Knows
<1>9. EmptyOnlyMidWrite'
  <2>1. command' = [command EXCEPT ![c] = m] /\ command \in [Commands -> CommandStates]
    BY <1>1, Commanded DEF Continue
  <2>2. SUFFICES ASSUME NEW g \in Files, file'[g].text = "empty"
                 PROVE  \E d \in Commands : command'[d].at = "write" /\ command'[d].file = g
    BY DEF EmptyOnlyMidWrite
  <2>3. g # f /\ file[g].text = "empty"
    BY <1>2, <1>3, <1>4, <1>5, <2>2
  <2>4. PICK d \in Commands : command[d].at = "write" /\ command[d].file = g
    BY <2>3 DEF RelayInv, EmptyOnlyMidWrite
  <2>. QED
    BY <2>1, <2>3, <2>4
<1>10. settled' = None /\ LoginDelivers'
  BY <1>1, NotSettled DEF LoginDelivers
<1>. QED
  BY <1>1, <1>2, <1>4, <1>5, <1>6, <1>7, <1>8, <1>9, <1>10, FileStep

LEMMA ChmodOK ==
  ASSUME RelayInv, NEW c \in Commands, Chmod(c)
  PROVE  RelayInv'
<1>. DEFINE old == command[c]
            f == old.file
            state == [file[f] EXCEPT !.private = TRUE]
            m == [old EXCEPT !.ended = "done"]
<1>1. /\ Running(c) /\ old.at = "chmod" /\ Continue(c, m)
      /\ settled' = (IF old.quiet THEN old.key ELSE None)
      /\ UNCHANGED <<token, identity, codexHome, cert, relay, request, minted,
                     revoked, raced, replaced>>
  BY DEF Chmod, End
<1>2. /\ old \in CommandStates /\ f \in Files /\ old.key \in minted /\ old.key \in Tokens
      /\ old.key \notin {"absent", "empty", "foreign"}
      /\ old.quiet => Knows(old, identity, cert, token, file, Agent)
  BY <1>1, Writing
<1>3. file[f] \in FileStates /\ file \in [Files -> FileStates]
  BY <1>2 DEF RelayInv, TablesInv
<1>4. /\ state \in FileStates /\ state.text = file[f].text
      /\ state.private = TRUE
  BY <1>3 DEF FileStates
<1>5. file' = [file EXCEPT ![f] = state]
  BY <1>2, <1>3 DEF Chmod, Secure
<1>6. /\ m.at = "chmod" /\ m.ended # "no" /\ m.quiet = old.quiet
      /\ CommandOK(m, identity, minted)
  BY <1>1, EndedOK
<1>. HIDE DEF m, state
<1>7. /\ file' \in [Files -> FileStates] /\ file'[f] = state
      /\ \A g \in Files : file'[g].text = file[g].text
  BY <1>2, <1>3, <1>4, <1>5
<1>8. TablesInv'
  BY <1>1, <1>7 DEF RelayInv, TablesInv, RevokedIsFinal, IdsOf
<1>9. EmptyOnlyMidWrite'
  BY <1>1, <1>7, WritersStay DEF EmptyOnlyMidWrite
<1>10. LoginDelivers'
  <2>1. SUFFICES ASSUME old.quiet
                 PROVE  /\ file'[Agent'] = [text |-> old.key, private |-> TRUE]
                        /\ token[old.key] # None /\ token[old.key].cert = cert
    BY <1>1 DEF LoginDelivers
  <2>2. /\ f = Agent /\ file[f].text = old.key
        /\ token[old.key] # None /\ token[old.key].cert = cert
    BY <1>1, <1>2, <2>1 DEF Knows
  <2>3. Agent' = Agent
    BY <1>1, <1>2, <1>4, <1>5, <2>2, SameAgent
  <2>. QED
    BY <1>4, <1>7, <2>2, <2>3, FileFields
<1>11. settled' \in Tokens \cup {None} /\ (settled' # None => m.quiet)
  BY <1>1, <1>2, <1>6
<1>12. \A k \in Tokens : token'[k] # None /\ ~replaced => token'[k].cert = cert
  BY <1>1 DEF RelayInv, DevicesInv
<1>13. /\ CommandOK(m, identity', minted') /\ minted \subseteq minted'
       /\ \A i \in Ids : identity[i] # None => identity'[i] = identity[i]
       /\ UNCHANGED <<cert, relay, request, replaced>>
  BY <1>1, <1>6
<1>. QED
  BY <1>1, <1>6, <1>8, <1>9, <1>10, <1>11, <1>12, <1>13, CommandStep

\* A row is deleted, and the command has or has not heard of it.
LEMMA DeletedStep ==
  ASSUME RelayInv, NEW c \in Commands, Running(c), command[c].at = "delete",
         NEW how \in {"done", "failed"}, End(c, how),
         token' = [token EXCEPT ![command[c].target] = None],
         revoked' \in {revoked, revoked \cup {command[c].target}},
         UNCHANGED <<identity, codexHome, file, cert, relay, request, minted, raced,
                     replaced, settled>>
  PROVE  RelayInv'
<1>. DEFINE old == command[c]
            m == [old EXCEPT !.ended = how]
            k == old.target
<1>1. k \in minted /\ k \in Tokens /\ token \in [Tokens -> TokenRows \cup {None}]
  BY Commanded DEF CommandOK, RelayInv, TablesInv
<1>2. /\ m.at = "delete" /\ m.ended # "no" /\ m.quiet = old.quiet
      /\ CommandOK(m, identity, minted) /\ Continue(c, m)
  BY EndedOK, ZenonT(40) DEF End
<1>3. /\ token' \in [Tokens -> TokenRows \cup {None}] /\ token'[k] = None
      /\ \A l \in Tokens : token'[l] = token[l] \/ token'[l] = None
      /\ \A l \in revoked' : l = k \/ l \in revoked
  BY <1>1
<1>. HIDE DEF m
<1>4. TablesInv'
  BY <1>1, <1>3 DEF RelayInv, TablesInv, RevokedIsFinal, IdsOf
<1>5. EmptyOnlyMidWrite'
  BY <1>2, WritersStay DEF EmptyOnlyMidWrite
<1>6. settled' = None /\ LoginDelivers'
  BY NotSettled DEF LoginDelivers
<1>7. \A l \in Tokens : token'[l] # None /\ ~replaced => token'[l].cert = cert
  BY <1>3 DEF RelayInv, DevicesInv
<1>8. /\ CommandOK(m, identity', minted') /\ minted \subseteq minted'
      /\ \A i \in Ids : identity[i] # None => identity'[i] = identity[i]
  BY <1>2
<1>. QED
  BY <1>2, <1>4, <1>5, <1>6, <1>7, <1>8, CommandStep

LEMMA DeleteOK ==
  ASSUME RelayInv, NEW c \in Commands, Delete(c)
  PROVE  RelayInv'
<1>1. CASE MayDelete(command[c])
  BY <1>1, DeletedStep DEF Delete
<1>2. CASE ~MayDelete(command[c])
  BY <1>2, EndStep DEF Delete, machineVars, historyVars
<1>. QED
  BY <1>1, <1>2

LEMMA GoOK ==
  ASSUME RelayInv, NEW c \in Commands, Go(c) \/ Stop(c)
  PROVE  RelayInv'
<1>1. CASE Stop(c)
  BY <1>1, EndStep DEF Stop
<1>2. CASE Go(c)
  BY <1>2, CallbackOK, FindIdentityOK, InsertIdentityOK, SendMintOK, MintOK, InjectOK,
     TruncateOK, WriteOK, ChmodOK, DeleteOK DEF Go
<1>. QED
  BY <1>1, <1>2

-----------------------------------------------------------------------------
(***************************************************************************)
(* The relay process and the requests of the agent.                        *)
(***************************************************************************)
LEMMA Requested ==
  ASSUME RelayInv, NEW r \in Requests
  PROVE  /\ request[r] \in RequestStates /\ RequestOK(request[r])
         /\ request \in [Requests -> RequestStates]
         /\ ~replaced => /\ request[r].pending => request[r].cert = cert
                         /\ ~request[r].bound
BY DEF RelayInv, RequestsInv, DevicesInv

\* Requests go on, and nothing else changes but the relay.
LEMMA RequestsStep ==
  ASSUME RelayInv, request' \in [Requests -> RequestStates],
         \A r \in Requests : RequestOK(request'[r]),
         \A r \in Requests : ~replaced =>
           /\ request'[r].pending => request'[r].cert = cert
           /\ ~request'[r].bound,
         relay' \in {relay, None},
         UNCHANGED <<token, identity, codexHome, file, cert, command, historyVars>>
  PROVE  RelayInv'
<1>1. UNCHANGED <<minted, revoked, raced, replaced, settled>>
  BY DEF historyVars
<1>2. TablesInv'
  BY <1>1 DEF RelayInv, TablesInv, RevokedIsFinal, IdsOf
<1>3. CommandsInv' /\ SettledInv' /\ EmptyOnlyMidWrite'
  BY <1>1 DEF RelayInv, CommandsInv, Agent, Running, SettledInv, LoginDelivers,
     EmptyOnlyMidWrite
<1>4. DevicesInv'
  BY <1>1 DEF RelayInv, DevicesInv
<1>5. RequestsInv'
  BY DEF RequestsInv
<1>. QED
  BY <1>2, <1>3, <1>4, <1>5 DEF RelayInv

LEMMA ProceedStep ==
  ASSUME RelayInv, NEW r \in Requests, NEW q \in RequestStates, Proceed(r, q), RequestOK(q),
         ~replaced => (q.pending => q.cert = cert) /\ ~q.bound
  PROVE  RelayInv'
<1>1. request' = [request EXCEPT ![r] = q] /\ request \in [Requests -> RequestStates]
  BY Requested DEF Proceed
<1>2. /\ request' \in [Requests -> RequestStates] /\ request'[r] = q
      /\ \A s \in Requests \ {r} : request'[s] = request[s]
  BY <1>1
<1>3. \A s \in Requests : /\ RequestOK(request'[s])
                          /\ ~replaced =>
                               /\ request'[s].pending => request'[s].cert = cert
                               /\ ~request'[s].bound
  BY <1>2, Requested
<1>4. UNCHANGED <<token, identity, codexHome, file, cert, command, historyVars, relay>>
  BY DEF Proceed, machineVars
<1>. QED
  BY <1>2, <1>3, <1>4, RequestsStep

LEMMA AskOK ==
  ASSUME RelayInv, NEW r \in Requests, Ask(r)
  PROVE  RelayInv'
<1>1. ASSUME NEW k \in Tokens, Forward(r, k)
      PROVE  RelayInv'
  <2>. DEFINE q == [NewRequest EXCEPT !.at = "forward", !.bearer = k, !.cert = relay,
                                      !.pending = TRUE]
  <2>1. relay \in Certs /\ (~replaced => relay = cert)
    BY <1>1 DEF Forward, RelayInv, TablesInv, DevicesInv
  <2>2. /\ q \in RequestStates /\ q.at = "forward" /\ q.cert = relay
        /\ q.status = "none" /\ q.bound = FALSE /\ q.bearer = k
    BY <2>1 DEF NewRequest, RequestStates
  <2>3. Proceed(r, q)
    BY <1>1 DEF Forward
  <2>. HIDE DEF q
  <2>. QED
    BY <2>1, <2>2, <2>3, ProceedStep DEF RequestOK
<1>2. ASSUME NEW k \in Tokens, RefuseUnreadable(r, k)
      PROVE  RelayInv'
  <2>. DEFINE q == [NewRequest EXCEPT !.at = "done", !.bearer = k, !.status = "unreadable"]
  <2>1. /\ q \in RequestStates /\ q.at = "done" /\ q.status = "unreadable" /\ q.central = "none"
        /\ q.pending = FALSE /\ q.bound = FALSE
    BY DEF NewRequest, RequestStates
  <2>2. Proceed(r, q)
    BY <1>2 DEF RefuseUnreadable
  <2>. HIDE DEF q
  <2>. QED
    BY <2>1, <2>2, ProceedStep DEF RequestOK
<1>3. CASE RefuseAnonymous(r)
  <2>. DEFINE q == [NewRequest EXCEPT !.at = "done", !.status = "refused"]
  <2>1. /\ q \in RequestStates /\ q.bearer = None /\ q.pending = FALSE
        /\ q.status = "refused" /\ q.bound = FALSE
    BY DEF NewRequest, RequestStates
  <2>2. Proceed(r, q)
    BY <1>3 DEF RefuseAnonymous
  <2>. HIDE DEF q
  <2>. QED
    BY <2>1, <2>2, ProceedStep DEF RequestOK
<1>. QED
  BY <1>1, <1>2, <1>3 DEF Ask

LEMMA CentralOK ==
  ASSUME RelayInv, NEW r \in Requests, Central(r)
  PROVE  RelayInv'
<1>. DEFINE old == request[r]
            row == token[old.bearer]
<1>1. old \in RequestStates /\ RequestOK(old)
      /\ (~replaced => old.cert = cert /\ ~old.bound) /\ old.bearer \in Tokens
      /\ old.pending
  BY Requested DEF Central, RequestOK
<1>2. ASSUME NEW verdict \in {"served", "refused"},
             Proceed(r, [old EXCEPT !.pending = FALSE, !.central = verdict])
      PROVE  RelayInv'
  <2>. DEFINE q == [old EXCEPT !.pending = FALSE, !.central = verdict]
  <2>1. /\ q \in RequestStates /\ q.at = old.at /\ q.bearer = old.bearer
        /\ q.status = old.status /\ q.entry = old.entry /\ q.pending = FALSE
        /\ q.bound = old.bound
    BY <1>1 DEF RequestStates
  <2>2. Proceed(r, q)
    BY <1>2
  <2>. HIDE DEF q
  <2>. QED
    BY <1>1, <2>1, <2>2, ProceedStep DEF RequestOK
<1>3. ASSUME row # None, row.cert # old.cert,
             Proceed(r, [old EXCEPT !.pending = FALSE, !.central = "refused",
                                    !.bound = TRUE])
      PROVE  RelayInv'
  <2>. DEFINE q == [old EXCEPT !.pending = FALSE, !.central = "refused", !.bound = TRUE]
  <2>1. /\ q \in RequestStates /\ q.at = old.at /\ q.bearer = old.bearer
        /\ q.status = old.status /\ q.entry = old.entry /\ q.pending = FALSE
    BY <1>1 DEF RequestStates
  <2>2. Proceed(r, q)
    BY <1>3
  <2>3. replaced
    BY <1>1, <1>3 DEF RelayInv, DevicesInv
  <2>. HIDE DEF q
  <2>. QED
    BY <1>1, <2>1, <2>2, <2>3, ProceedStep DEF RequestOK
<1>. QED
  BY <1>2, <1>3 DEF Central

LEMMA ServeOK ==
  ASSUME RelayInv, NEW r \in Requests, Serve(r)
  PROVE  RelayInv'
<1>. DEFINE old == request[r]
<1>1. old \in RequestStates /\ RequestOK(old)
      /\ (~replaced => (old.pending => old.cert = cert) /\ ~old.bound)
  BY Requested
<1>2. CASE Answered(r)
  <2>. DEFINE q == [old EXCEPT !.at = "record", !.status = old.central]
  <2>1. old.central \in {"served", "refused"}
    BY <1>1, <1>2 DEF Answered, RequestStates
  <2>2. /\ q \in RequestStates /\ q.at = "record" /\ q.pending = old.pending
        /\ q.status = old.central
        /\ q.cert = old.cert /\ q.bound = old.bound /\ q.bearer = old.bearer
    BY <1>1, <2>1 DEF RequestStates
  <2>3. Proceed(r, q)
    BY <1>2 DEF Answered
  <2>4. q.status # "unreadable"
    BY <2>1, <2>2
  <2>. HIDE DEF q
  <2>5. RequestOK(q)
    BY <1>1, <2>2, <2>4 DEF RequestOK
  <2>. QED
    BY <1>1, <2>2, <2>3, <2>5, ProceedStep
<1>3. CASE GiveUp(r)
  <2>1. PICK pending \in {old.pending, FALSE} :
          Proceed(r, [old EXCEPT !.at = "record", !.status = "failed",
                                 !.pending = pending])
    BY <1>3 DEF GiveUp
  <2>. DEFINE q == [old EXCEPT !.at = "record", !.status = "failed",
                               !.pending = pending]
  <2>2. /\ q \in RequestStates /\ q.at = "record" /\ q.pending = pending
        /\ q.status = "failed"
        /\ q.cert = old.cert /\ q.bound = old.bound /\ q.bearer = old.bearer
    BY <1>1 DEF RequestStates
  <2>3. Proceed(r, q)
    BY <2>1
  <2>. HIDE DEF q
  <2>. QED
    BY <1>1, <2>2, <2>3, ProceedStep DEF RequestOK
<1>4. CASE Record(r)
  <2>1. PICK entry \in {old.status, "lost"} :
          Proceed(r, [old EXCEPT !.at = "done", !.entry = entry])
    BY <1>4 DEF Record
  <2>. DEFINE q == [old EXCEPT !.at = "done", !.entry = entry]
  <2>2. entry \in {"none", "served", "refused", "failed", "lost"}
    <3>1. old.status # "unreadable"
      BY <1>1, <1>4 DEF Record, RequestOK
    <3>. QED
      BY <1>1, <3>1 DEF RequestStates
  <2>3. /\ q.entry = entry /\ q.status = old.status /\ q.pending = old.pending
        /\ q.cert = old.cert /\ q.bound = old.bound /\ q.bearer = old.bearer
        /\ q.at = "done"
    BY <1>1 DEF RequestStates
  <2>4. q.entry \in {q.status, "lost"}
    BY <2>3
  <2>5. Proceed(r, q)
    BY <2>1
  <2>6. CASE old.status # "none" \/ entry = "lost"
    <3>1. q \in RequestStates
      BY <1>1, <2>2, <2>6 DEF RequestStates
    <3>. HIDE DEF q
    <3>. QED
      BY <1>1, <2>3, <2>4, <2>5, <3>1, ProceedStep DEF RequestOK
  <2>7. CASE old.status = "none" /\ entry = "none"
    <3>1. q \in RequestStates
      BY <1>1, <2>2, <2>7 DEF RequestStates
    <3>. HIDE DEF q
    <3>. QED
      BY <1>1, <2>3, <2>4, <2>5, <3>1, ProceedStep DEF RequestOK
  <2>. QED
    BY <2>1, <2>6, <2>7
<1>5. CASE Disconnect(r)
  <2>. DEFINE q == [old EXCEPT !.at = "gone"]
  <2>1. /\ q \in RequestStates /\ q.at = "gone" /\ q.pending = old.pending
        /\ q.cert = old.cert /\ q.bound = old.bound /\ q.bearer = old.bearer
        /\ q.status = old.status
    BY <1>1 DEF RequestStates
  <2>2. Proceed(r, q) /\ old.at # "done"
    BY <1>5 DEF Disconnect
  <2>. HIDE DEF q
  <2>. QED
    BY <1>1, <2>1, <2>2, ProceedStep DEF RequestOK
<1>. QED
  BY <1>2, <1>3, <1>4, <1>5, CentralOK DEF Serve

LEMMA StopRelayOK == RelayInv /\ StopRelay => RelayInv'
<1>. SUFFICES ASSUME RelayInv, StopRelay PROVE RelayInv'
  OBVIOUS
<1>1. ASSUME NEW r \in Requests, request[r].at \in {"forward", "record"}
      PROVE  LET q == [request[r] EXCEPT !.at = "gone"] IN
             /\ q \in RequestStates /\ RequestOK(q) /\ q.pending = request[r].pending
             /\ q.cert = request[r].cert /\ q.bound = request[r].bound
  <2>. DEFINE old == request[r]  q == [old EXCEPT !.at = "gone"]
  <2>1. old \in RequestStates /\ RequestOK(old)
    BY Requested
  <2>2. /\ q \in RequestStates /\ q.at = "gone" /\ q.pending = old.pending
        /\ q.bearer = old.bearer /\ q.status = old.status
        /\ q.cert = old.cert /\ q.bound = old.bound
    BY <2>1 DEF RequestStates
  <2>3. old.status # "unreadable"
    BY <1>1, <2>1 DEF RequestOK
  <2>. HIDE DEF q
  <2>4. RequestOK(q)
    BY <2>1, <2>2, <2>3 DEF RequestOK
  <2>. QED
    BY <2>2, <2>4 DEF q
<1>2. /\ request' = [r \in Requests |->
           IF request[r].at \in {"forward", "record"}
             THEN [request[r] EXCEPT !.at = "gone"] ELSE request[r]]
      /\ relay' = None
      /\ UNCHANGED <<token, identity, codexHome, file, cert, command, historyVars>>
  BY DEF StopRelay
<1>3. request' \in [Requests -> RequestStates]
  BY <1>1, <1>2, Requested
<1>4. ASSUME NEW r \in Requests
      PROVE  /\ RequestOK(request'[r])
             /\ ~replaced => /\ request'[r].pending => request'[r].cert = cert
                             /\ ~request'[r].bound
  BY <1>1, <1>2, Requested
<1>. QED
  BY <1>2, <1>3, <1>4, RequestsStep

-----------------------------------------------------------------------------
(***************************************************************************)
(* The invariant holds, and what follows from it.                          *)
(***************************************************************************)
LEMMA InitOK == Init => RelayInv
<1>. SUFFICES ASSUME Init PROVE RelayInv
  OBVIOUS
<1>1. /\ NewCommand \in CommandStates /\ NewCommand.at = "new"
      /\ NewRequest \in RequestStates /\ NewRequest.at = "new"
      /\ NewRequest.pending = FALSE /\ NewRequest.bound = FALSE
  BY DEF NewCommand, CommandStates, NewRequest, RequestStates
<1>2. CommandOK(NewCommand, identity, minted)
  BY <1>1 DEF CommandOK, LoginPlaces
<1>3. CommandsInv
  BY <1>1, <1>2 DEF Init, CommandsInv, Running
<1>4. \A f \in Files : file[f].text \in {"absent", "foreign"} /\ file[f] \in FileStates
  BY DEF Init, FileStates
<1>5. file \in [Files -> FileStates]
  BY <1>4 DEF Init
<1>6. TablesInv
  BY <1>4, <1>5, NoneAssumption DEF Init, TablesInv, RevokedIsFinal, IdsOf
<1>7. DevicesInv /\ RequestsInv
  <2>1. RequestOK(NewRequest)
    BY DEF NewRequest, RequestOK
  <2>. QED
    BY <1>1, <2>1 DEF Init, DevicesInv, RequestsInv
<1>8. SettledInv /\ EmptyOnlyMidWrite
  BY <1>4 DEF Init, SettledInv, LoginDelivers, EmptyOnlyMidWrite
<1>. QED
  BY <1>3, <1>6, <1>7, <1>8 DEF RelayInv

LEMMA NextOK == RelayInv /\ [Next]_vars => RelayInv'
<1>. SUFFICES ASSUME RelayInv, [Next]_vars PROVE RelayInv'
  OBVIOUS
<1>1. CASE UNCHANGED vars
  <2>1. UNCHANGED <<token, identity, codexHome, file, cert, relay, command, request,
                    minted, revoked, raced, replaced, settled>>
    BY <1>1 DEF vars
  <2>. QED
    BY <2>1 DEF RelayInv, TablesInv, RevokedIsFinal, IdsOf, CommandsInv, Running, Agent,
       DevicesInv, RequestsInv, SettledInv, LoginDelivers,
       EmptyOnlyMidWrite
<1>2. CASE Next
  BY <1>2, BeginOK, GoOK, AskOK, ServeOK, InstallCodexOK, DropOK, ReplaceCertOK,
     StartRelayOK, StopRelayOK DEF Next, Surroundings
<1>. QED
  BY <1>1, <1>2

(***************************************************************************)
(* The invariant that the rest follows from: the tables and the files,     *)
(* what an undisturbed command of oac-relay knows of them at each of its   *)
(* steps, and that nobody on the machine uses another fingerprint while    *)
(* the certificate stays the same (login.rs, keystore.rs,                  *)
(* agent_config.rs, proxy/ of the relay).                                  *)
(***************************************************************************)
THEOREM RelayInvariant == Spec => []RelayInv
<1>. QED
  BY InitOK, NextOK, PTL DEF Spec

(***************************************************************************)
(* Rows, files, commands and requests keep their shape, whatever commands  *)
(* run at the same time and wherever they are killed.                      *)
(***************************************************************************)
THEOREM TypeCorrect == Spec => []TypeOK
<1>1. RelayInv => TypeOK
  BY DEF RelayInv, TablesInv, CommandsInv, RequestsInv, SettledInv, TypeOK
<1>. QED
  BY <1>1, RelayInvariant, PTL

(***************************************************************************)
(* What logins leave on the machine is in order: an undisturbed login that *)
(* reported success has delivered a private file with a good token, the    *)
(* file is left empty by nothing but a login between truncating and        *)
(* writing it, and a user has one identity unless logins ran at the same   *)
(* time (complete_login, inject, write_secure and upsert_identity).        *)
(***************************************************************************)
THEOREM LoginsInOrder == Spec => []LoginsLeaveOrder
<1>1. ASSUME RelayInv, NEW u \in Users \ raced
      PROVE  Cardinality(IdsOf(u)) <= 1
  <2>1. CASE IdsOf(u) = {}
    BY <2>1, FS_EmptySet
  <2>2. CASE IdsOf(u) # {}
    <3>1. PICK i : i \in IdsOf(u)
      BY <2>2
    <3>2. IdsOf(u) = {i}
      BY <1>1, <3>1 DEF RelayInv, TablesInv
    <3>3. Cardinality(IdsOf(u)) = 1
      BY <3>2, FS_Singleton
    <3>. QED
      BY <3>3
  <2>. QED
    BY <2>1, <2>2
<1>2. RelayInv => OneIdentity
  BY <1>1 DEF OneIdentity, RelayInv, TablesInv
<1>3. RelayInv => LoginsLeaveOrder
  BY <1>2 DEF LoginsLeaveOrder, RelayInv, SettledInv
<1>. QED
  BY <1>3, RelayInvariant, PTL

(***************************************************************************)
(* A token that a command reported as revoked is gone for good, and as     *)
(* long as the certificate stays the same no request of the agent is       *)
(* refused for its device (logout_cmd, token_revoke_cmd; serve and         *)
(* complete_login, which compute the fingerprint at different times).      *)
(***************************************************************************)
THEOREM TokensObeyed == Spec => []TokensObey
<1>1. RelayInv => TokensObey
  BY DEF RelayInv, TablesInv, DevicesInv, TokensObey, BoundToThisDevice
<1>. QED
  BY <1>1, RelayInvariant, PTL

(***************************************************************************)
(* An answered request of the agent has an entry in the activity log with  *)
(* what the agent was told, unless the database lost it, or the relay      *)
(* could not read it and never sent it (proxy_handler, run_handler).       *)
(***************************************************************************)
THEOREM AnswersLogged == Spec => []AnsweredIsLogged
<1>1. RelayInv => AnsweredIsLogged
  BY DEF RelayInv, RequestsInv, RequestOK, AnsweredIsLogged
<1>. QED
  BY <1>1, RelayInvariant, PTL
=============================================================================
