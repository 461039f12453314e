---------------------------- MODULE Login_proofs ----------------------------
(***************************************************************************)
(* What happens before anything is proxied.  A login asks for a token for  *)
(* who answered it (OidcLogin), and the token is bound to the certificate  *)
(* that asked (DeviceBinding): for any number of logins, persons, groups,  *)
(* ports, lifetimes and certificates, and any number of redirects and of   *)
(* replaced files.  The databases are what the record of their migrations  *)
(* says (Schema): for any number of processes that start, fail, reset and  *)
(* are killed at once.                                                     *)
(***************************************************************************)
EXTENDS OidcLogin, DeviceBinding, Schema, TLAPS

-----------------------------------------------------------------------------
(* OidcLogin *)

Places == {"new", "waiting", "exchange", "claims", "mint", "failed"}

\* Of the process p, when the IdP has given the codes in given: what it has in
\* hand is the answer of a person to its own request.
InHand(l, p, given) ==
  /\ l.code \in given /\ l.code.login = p /\ l.code.person \in Persons
  /\ l.code = [login |-> p, person |-> l.code.person]

\* What a mint asks for, as MintsForWhoAnswered has it.
AsksRightly(l, p, given) ==
  /\ [login |-> p, person |-> l.request.claims.subject] \in given
  /\ IF l.request.claims.groups = Nil
     THEN UnionGroupsRoles(l.request.claims.subject) = {} \/ carries # {"id_token", "userinfo"}
     ELSE l.request.claims.groups = UnionGroupsRoles(l.request.claims.subject)
  /\ l.request.ttlSeconds = Nil <=> l.ttl = Nil

LoginOK(l, p, given) ==
  /\ l.at \in Places
  /\ DOMAIN l = DOMAIN NotBegun
  /\ l.at \in {"exchange", "claims"} => InHand(l, p, given)
  /\ l.at = "claims" => l.access \in Persons
  /\ l.at = "mint" => AsksRightly(l, p, given)

LoginInv ==
  /\ DOMAIN login = Logins
  /\ codes \subseteq [login : Logins, person : Persons \cup {Nil}]
  /\ \A p \in Logins : LoginOK(login[p], p, codes)

\* A login that has what it had may see more codes.
LEMMA MoreCodes ==
  ASSUME NEW l, NEW p, NEW given, NEW more, given \subseteq more, LoginOK(l, p, given)
  PROVE  LoginOK(l, p, more)
BY DEF LoginOK, InHand, AsksRightly

\* A step of one login leaves the others alone.
LEMMA OneLoginSteps ==
  ASSUME LoginInv, NEW p \in Logins, NEW l, Step(p, l), UNCHANGED <<carries, codes>>,
         LoginOK(l, p, codes)
  PROVE  LoginInv'
<1>1. login' = [login EXCEPT ![p] = l] /\ DOMAIN login = Logins
  BY DEF Step, LoginInv
<1>2. DOMAIN login' = Logins /\ \A q \in Logins : login'[q] = IF q = p THEN l ELSE login[q]
  BY <1>1
<1>3. ASSUME NEW q \in Logins
      PROVE  LoginOK(login'[q], q, codes)
  BY <1>2 DEF LoginInv
<1>4. ASSUME NEW q \in Logins
      PROVE  LoginOK(login[q], q, codes)'
  BY <1>3 DEF LoginOK, InHand, AsksRightly
<1>. QED
  BY <1>2, <1>4 DEF LoginInv

\* The records that the steps make.
LEMMA FreshProcess ==
  ASSUME NEW place, NEW port
  PROVE  LET l == [NotBegun EXCEPT !.at = place, !.port = port]
         IN DOMAIN l = DOMAIN NotBegun /\ l.at = place /\ l.port = port
BY DEF NotBegun

LEMMA FailedLogin ==
  ASSUME LoginInv, NEW p \in Logins, Fail(p), UNCHANGED <<carries, codes>>
  PROVE  LoginInv'
<1>. DEFINE l == [NotBegun EXCEPT !.at = "failed", !.port = login[p].port]
<1>1. l.at = "failed" /\ DOMAIN l = DOMAIN NotBegun
  BY FreshProcess
<1>2. LoginOK(l, p, codes)
  BY <1>1 DEF LoginOK, Places
<1>3. Step(p, l)
  BY DEF Fail
<1>. QED
  BY <1>2, <1>3, OneLoginSteps

LEMMA RunLoginKeeps ==
  ASSUME LoginInv, NEW p \in Logins, RunLogin(p)
  PROVE  LoginInv'
<1>1. CASE Fail(p)
  BY <1>1, FailedLogin DEF RunLogin
<1>2. CASE ~Fail(p)
  <2>1. PICK port \in Ports : Step(p, [NotBegun EXCEPT !.at = "waiting", !.port = port])
    BY <1>2 DEF RunLogin
  <2>. DEFINE l == [NotBegun EXCEPT !.at = "waiting", !.port = port]
  <2>2. l.at = "waiting" /\ DOMAIN l = DOMAIN NotBegun
    BY FreshProcess
  <2>3. LoginOK(l, p, codes)
    BY <2>2 DEF LoginOK, Places
  <2>. QED
    BY <2>1, <2>3, OneLoginSteps DEF RunLogin
<1>. QED
  BY <1>1, <1>2

LEMMA AnswerKeeps ==
  ASSUME LoginInv, NEW p \in Logins, AnswerAtIdp(p)
  PROVE  LoginInv'
<1>1. PICK u \in Persons \cup {Nil} : codes' = codes \cup {[login |-> p, person |-> u]}
  BY DEF AnswerAtIdp
<1>2. codes' \subseteq [login : Logins, person : Persons \cup {Nil}]
  BY <1>1 DEF LoginInv
<1>3. UNCHANGED <<carries, login>> /\ codes \subseteq codes'
  BY <1>1 DEF AnswerAtIdp
<1>4. ASSUME NEW q \in Logins
      PROVE  LoginOK(login[q], q, codes')
  BY <1>3, MoreCodes DEF LoginInv
<1>5. ASSUME NEW q \in Logins
      PROVE  LoginOK(login[q], q, codes)'
  BY <1>3, <1>4 DEF LoginOK, InHand, AsksRightly
<1>. QED
  BY <1>2, <1>3, <1>5 DEF LoginInv

LEMMA CallbackKeeps ==
  ASSUME LoginInv, NEW p \in Logins, Callback(p)
  PROVE  LoginInv'
<1>1. PICK c \in codes :
        IF c.person # Nil /\ c.login = p
        THEN Step(p, [login[p] EXCEPT !.at = "exchange", !.code = c])
        ELSE Fail(p)
  BY DEF Callback
<1>2. UNCHANGED <<carries, codes>>
  BY DEF Callback
<1>3. CASE Fail(p)
  BY <1>2, <1>3, FailedLogin
<1>4. CASE c.person # Nil /\ c.login = p
  <2>. DEFINE l == [login[p] EXCEPT !.at = "exchange", !.code = c]
  <2>1. c \in [login : Logins, person : Persons \cup {Nil}]
    BY DEF LoginInv
  <2>2. c.person \in Persons /\ c = [login |-> p, person |-> c.person]
    BY <2>1, <1>4
  <2>3. DOMAIN login[p] = {"at", "port", "code", "access", "ttl", "request"}
    BY DEF LoginInv, LoginOK, NotBegun
  <2>4. l.at = "exchange" /\ l.code = c /\ DOMAIN l = DOMAIN NotBegun
    BY <2>3 DEF NotBegun
  <2>. HIDE DEF l
  <2>5. LoginOK(l, p, codes)
    BY <2>2, <2>4, <1>4 DEF LoginOK, InHand, Places
  <2>6. Step(p, l)
    BY <1>1, <1>4 DEF l
  <2>. QED
    BY <1>2, <2>5, <2>6, OneLoginSteps
<1>. QED
  BY <1>1, <1>3, <1>4

LEMMA ExchangeKeeps ==
  ASSUME LoginInv, NEW p \in Logins, ExchangeCode(p)
  PROVE  LoginInv'
<1>1. UNCHANGED <<carries, codes>> /\ login[p].at = "exchange"
  BY DEF ExchangeCode
<1>2. CASE Fail(p)
  BY <1>1, <1>2, FailedLogin
<1>3. CASE ~Fail(p)
  <2>1. PICK access \in Persons : Step(p, [login[p] EXCEPT !.at = "claims", !.access = access])
    BY <1>3 DEF ExchangeCode
  <2>. DEFINE l == [login[p] EXCEPT !.at = "claims", !.access = access]
  <2>2. DOMAIN login[p] = {"at", "port", "code", "access", "ttl", "request"}
    BY DEF LoginInv, LoginOK, NotBegun
  <2>3. /\ l.at = "claims" /\ l.code = login[p].code /\ l.access = access
        /\ DOMAIN l = DOMAIN NotBegun
    BY <2>2 DEF NotBegun
  <2>. HIDE DEF l
  <2>4. InHand(l, p, codes)
    BY <1>1, <2>3 DEF LoginInv, LoginOK, InHand
  <2>5. LoginOK(l, p, codes)
    BY <2>3, <2>4 DEF LoginOK, Places
  <2>6. Step(p, l)
    BY <2>1 DEF l
  <2>. QED
    BY <1>1, <2>5, <2>6, OneLoginSteps
<1>. QED
  BY <1>2, <1>3

\* Whichever document is believed, it is of the person in hand, and its groups
\* are missing only if the IdP does not say them there.
LEMMA ClaimsOfThePerson ==
  ASSUME NEW l, l.code.person \in Persons, NEW claims \in IdentityClaims(l)
  PROVE  /\ claims.subject = l.code.person
         /\ IF claims.groups = Nil
            THEN UnionGroupsRoles(claims.subject) = {} \/ carries # {"id_token", "userinfo"}
            ELSE claims.groups = UnionGroupsRoles(claims.subject)
<1>1. PICK document \in {"id_token", "userinfo"} : claims = ClaimsIn(document, l.code.person)
  BY DEF IdentityClaims
<1>. DEFINE u == l.code.person
<1>2. /\ claims.subject = u
      /\ claims.groups = IF document \in carries /\ UnionGroupsRoles(u) # {}
                         THEN UnionGroupsRoles(u) ELSE Nil
  BY <1>1 DEF ClaimsIn
<1>. HIDE DEF u
<1>3. CASE document \in carries /\ UnionGroupsRoles(u) # {}
  <2>1. UnionGroupsRoles(u) # Nil
    BY NilAssumption DEF u, UnionGroupsRoles
  <2>. QED
    BY <1>2, <1>3, <2>1 DEF u
<1>4. CASE ~(document \in carries /\ UnionGroupsRoles(u) # {})
  BY <1>2, <1>4 DEF u
<1>. QED
  BY <1>3, <1>4

LEMMA UserinfoKeeps ==
  ASSUME LoginInv, NEW p \in Logins, FetchUserinfo(p)
  PROVE  LoginInv'
<1>1. UNCHANGED <<carries, codes>> /\ login[p].at = "claims"
  BY DEF FetchUserinfo
<1>2. CASE Fail(p)
  BY <1>1, <1>2, FailedLogin
<1>3. CASE ~Fail(p)
  <2>. DEFINE Seconds(ttl) == IF ttl = Nil THEN {Nil} ELSE ParseTtlToSeconds(ttl)
              Minting(ttl, claims, s) ==
                [NotBegun EXCEPT !.at = "mint", !.port = login[p].port, !.ttl = ttl,
                                 !.request = [claims |-> claims, ttlSeconds |-> s]]
  <2>1. PICK ttl \in Lifetimes \cup {Nil}, claims \in IdentityClaims(login[p]) :
          \E s \in Seconds(ttl) : Step(p, Minting(ttl, claims, s))
    BY <1>3 DEF FetchUserinfo
  <2>2. PICK s \in Seconds(ttl) : Step(p, Minting(ttl, claims, s))
    BY <2>1
  <2>3. s = Nil <=> ttl = Nil
    <3>1. CASE ttl = Nil
      BY <2>2, <3>1
    <3>2. CASE ttl # Nil
      <4>1. ttl \in [number : Int, unit : Units]
        BY <3>2, LifetimesAssumption
      <4>2. SecondsIn(ttl.unit) \in Int /\ ttl.number \in Int
        BY <4>1 DEF SecondsIn
      <4>3. s = ttl.number * SecondsIn(ttl.unit)
        BY <2>2, <3>2 DEF ParseTtlToSeconds
      <4>4. s \in Int
        BY <4>2, <4>3
      <4>. QED
        BY <3>2, <4>4, NilAssumption
    <3>. QED
      BY <3>1, <3>2
  <2>. DEFINE l == Minting(ttl, claims, s)
  <2>4. /\ l.at = "mint" /\ l.ttl = ttl /\ DOMAIN l = DOMAIN NotBegun
        /\ l.request = [claims |-> claims, ttlSeconds |-> s]
    BY DEF NotBegun
  <2>5. Step(p, l)
    BY <2>2
  <2>. HIDE DEF l, Minting, Seconds
  <2>6. l.request.claims = claims /\ l.request.ttlSeconds = s
    BY <2>4
  <2>7. InHand(login[p], p, codes)
    BY <1>1 DEF LoginInv, LoginOK
  <2>8. claims.subject = login[p].code.person
    BY <2>7, ClaimsOfThePerson DEF InHand
  <2>9. [login |-> p, person |-> claims.subject] \in codes
    BY <2>7, <2>8 DEF InHand
  <2>10. IF claims.groups = Nil
         THEN UnionGroupsRoles(claims.subject) = {} \/ carries # {"id_token", "userinfo"}
         ELSE claims.groups = UnionGroupsRoles(claims.subject)
    BY <2>7, ClaimsOfThePerson DEF InHand
  <2>11. AsksRightly(l, p, codes)
    BY <2>3, <2>4, <2>6, <2>9, <2>10 DEF AsksRightly
  <2>12. LoginOK(l, p, codes)
    BY <2>4, <2>11 DEF LoginOK, Places
  <2>. QED
    BY <1>1, <2>5, <2>12, OneLoginSteps
<1>. QED
  BY <1>2, <1>3

\* A login has in hand only answers to its own request, of a person who gave
\* it, and asks for a token for that person (login.rs, run_login: the state,
\* the nonce and the subject are compared in turn).
THEOREM LoginInvariant == LoginSpec => []LoginInv
<1>1. LoginInit => LoginInv
  <2>. SUFFICES ASSUME LoginInit PROVE LoginInv
    OBVIOUS
  <2>1. DOMAIN login = Logins /\ \A p \in Logins : login[p] = NotBegun
    BY DEF LoginInit
  <2>2. NotBegun.at = "new"
    BY DEF NotBegun
  <2>. QED
    BY <2>1, <2>2 DEF LoginInit, LoginInv, LoginOK, Places
<1>2. LoginInv /\ [LoginNext]_loginVars => LoginInv'
  <2>. SUFFICES ASSUME LoginInv, [LoginNext]_loginVars PROVE LoginInv'
    OBVIOUS
  <2>1. ASSUME NEW p \in Logins, RunLogin(p) PROVE LoginInv'
    BY <2>1, RunLoginKeeps
  <2>2. ASSUME NEW p \in Logins, AnswerAtIdp(p) PROVE LoginInv'
    BY <2>2, AnswerKeeps
  <2>3. ASSUME NEW p \in Logins, Callback(p) PROVE LoginInv'
    BY <2>3, CallbackKeeps
  <2>4. ASSUME NEW p \in Logins, NoCallback(p) PROVE LoginInv'
    BY <2>4, FailedLogin DEF NoCallback
  <2>5. ASSUME NEW p \in Logins, ExchangeCode(p) PROVE LoginInv'
    BY <2>5, ExchangeKeeps
  <2>6. ASSUME NEW p \in Logins, FetchUserinfo(p) PROVE LoginInv'
    BY <2>6, UserinfoKeeps
  <2>7. CASE UNCHANGED loginVars
    BY <2>7 DEF loginVars, LoginInv, LoginOK, InHand, AsksRightly
  <2>. QED
    BY <2>1, <2>2, <2>3, <2>4, <2>5, <2>6, <2>7 DEF LoginNext
<1>. QED
  BY <1>1, <1>2, PTL DEF LoginSpec

\* Whatever redirects arrive late, twice or at another port, a login asks for a
\* token for a person who answered its own request, with all groups of that
\* person or with none, and for ever only if told so (login.rs, run_login).
THEOREM MintsForThePerson == LoginSpec => []MintsForWhoAnswered
<1>1. LoginInv => MintsForWhoAnswered
  BY DEF LoginInv, LoginOK, AsksRightly, MintsForWhoAnswered, UnionGroupsRoles
<1>. QED
  BY <1>1, LoginInvariant, PTL

-----------------------------------------------------------------------------
(* DeviceBinding *)

Machines == {"device", "central"}
Kinds == {"central", "relay", "login"}

ChainsOf(m) == {Chain(c) : c \in CertsOf(m)}
FileSets(m) == [ca : {Missing} \cup SUBSET Authorities, chain : {Missing} \cup ChainsOf(m),
                key : {Missing} \cup CertsOf(m), private : BOOLEAN]
Starting == {"new", "perms", "ca", "chain", "key", "built", "send", "up", "done", "failed"}

\* Of a process of the device: what its own certificate has to do with the one
\* on the disk, and with the fingerprint that it sends.
ReadFrom(q, files) ==
  /\ q.at \in {"key", "built", "send", "up", "done"} /\ ~q.dev => q.chain \in ChainsOf("device")
  /\ q.at \in {"key", "built"} /\ ~q.dev /\ q.quiet => q.chain = files.chain
  /\ q.at \in {"send", "up", "done"} /\ ~q.dev /\ q.quiet => q.fingerprint = q.chain[1]

ProcessOK(q) ==
  /\ DOMAIN q = DOMAIN NewProcess
  /\ q.at \in Starting /\ q.dev \in BOOLEAN /\ q.quiet \in BOOLEAN

BindingInv ==
  /\ DOMAIN disk = Machines /\ \A m \in Machines : disk[m] \in FileSets(m)
  /\ DOMAIN program = Kinds /\ \A p \in Kinds : ProcessOK(program[p])
  /\ ReadFrom(program["relay"], disk["device"])
  /\ ReadFrom(program["login"], disk["device"])
  /\ program["relay"].at \notin {"send", "done"} /\ program["login"].at # "up"
  /\ \A bound \in token :
       program["login"].at = "done" /\ bound = program["login"].fingerprint

LEMMA ProcessFields ==
  DOMAIN NewProcess = {"at", "dev", "ca", "chain", "fingerprint", "quiet"}
BY DEF NewProcess

LEMMA NoChainIsMissing ==
  ASSUME NEW chain \in ChainsOf("device")
  PROVE  chain # Missing /\ chain[1] \in DeviceCerts /\ chain[1] # Missing
BY MissingAssumption, IssuedByAssumption DEF ChainsOf, CertsOf, Chain

\* A process that goes on, with its files as they are, leaves the others alone.
LEMMA BecomeKeeps ==
  ASSUME BindingInv, NEW p \in Kinds, NEW q, Become(p, q), ProcessOK(q),
         p # "central" => ReadFrom(q, disk["device"]),
         p = "relay" => q.at \notin {"send", "done"},
         p = "login" => q.at # "up" /\ program[p].at # "done"
  PROVE  BindingInv'
<1>1. /\ program' = [program EXCEPT ![p] = q] /\ UNCHANGED <<disk, token, replaced>>
      /\ DOMAIN program = Kinds
  BY DEF Become, BindingInv
<1>2. DOMAIN program' = Kinds /\ \A r \in Kinds : program'[r] = IF r = p THEN q ELSE program[r]
  BY <1>1
<1>3. \A r \in Kinds : ProcessOK(program'[r])
  BY <1>2 DEF BindingInv
<1>4. ReadFrom(program'["relay"], disk["device"]) /\ ReadFrom(program'["login"], disk["device"])
  BY <1>2 DEF BindingInv, Kinds
<1>5. program'["relay"].at \notin {"send", "done"} /\ program'["login"].at # "up"
  BY <1>2 DEF BindingInv, Kinds
<1>6. p = "login" => token = {}
  BY DEF BindingInv
<1>7. \A bound \in token :
        program'["login"].at = "done" /\ bound = program'["login"].fingerprint
  BY <1>2, <1>6 DEF BindingInv, Kinds
<1>8. (\A m \in Machines : disk[m] \in FileSets(m))'
  BY <1>1 DEF BindingInv, FileSets, ChainsOf, CertsOf, Chain
<1>9. (\A r \in Kinds : ProcessOK(program[r]))'
  BY <1>3 DEF ProcessOK
<1>10. ReadFrom(program["relay"], disk["device"])' /\ ReadFrom(program["login"], disk["device"])'
  BY <1>1, <1>4 DEF ReadFrom, ChainsOf, CertsOf, Chain
<1>. QED
  BY <1>1, <1>2, <1>5, <1>7, <1>8, <1>9, <1>10 DEF BindingInv

LEMMA DieKeeps ==
  ASSUME BindingInv, NEW p \in Kinds, Die(p), p = "login" => program[p].at # "done"
  PROVE  BindingInv'
<1>. DEFINE q == [NewProcess EXCEPT !.at = "failed"]
<1>1. DOMAIN q = DOMAIN NewProcess /\ q.at = "failed" /\ q.dev = FALSE /\ q.quiet = TRUE
  BY DEF NewProcess
<1>2. Become(p, q)
  BY DEF Die
<1>. HIDE DEF q
<1>3. ProcessOK(q) /\ ReadFrom(q, disk["device"])
  BY <1>1 DEF ProcessOK, ReadFrom, Starting
<1>. QED
  BY <1>1, <1>2, <1>3, BecomeKeeps

\* From "new" to the first place of a mode.
LEMMA StartKeeps ==
  ASSUME BindingInv, NEW p \in Kinds, Start(p)
  PROVE  BindingInv'
<1>1. program[p].at = "new"
  BY DEF Start
<1>2. CASE Die(p)
  BY <1>1, <1>2, DieKeeps
<1>3. CASE ~Die(p)
  <2>. DEFINE Modes == IF p = "central" THEN CentralModes ELSE RelayModes
              place(dev) == IF ~dev THEN "perms" ELSE IF p = "central" THEN "up" ELSE "built"
              Begun(dev) == [NewProcess EXCEPT !.at = place(dev), !.dev = dev]
  <2>1. PICK dev \in Modes : Become(p, Begun(dev))
    BY <1>3 DEF Start
  <2>2. dev \in BOOLEAN
    BY DEF CentralModes, RelayModes, Configurations
  <2>. DEFINE q == Begun(dev)
  <2>3. /\ DOMAIN q = DOMAIN NewProcess /\ q.dev = dev /\ q.quiet = TRUE
        /\ q.at = place(dev)
    BY DEF NewProcess
  <2>4. /\ q.at \in {"perms", "up", "built"} /\ (~dev => q.at = "perms")
        /\ (p # "central" => q.at # "up")
    BY <2>2, <2>3
  <2>5. Become(p, q)
    BY <2>1
  <2>. HIDE DEF q, Begun, place
  <2>6. ProcessOK(q) /\ ReadFrom(q, disk["device"])
    BY <2>2, <2>3, <2>4 DEF ProcessOK, ReadFrom, Starting
  <2>. QED
    BY <1>1, <2>4, <2>5, <2>6, BecomeKeeps
<1>. QED
  BY <1>2, <1>3

LEMMA PermsKeeps ==
  ASSUME BindingInv, NEW p \in Kinds, EnforceSecurePerms(p)
  PROVE  BindingInv'
<1>1. program[p].at = "perms" /\ (Die(p) \/ Reach(p, "ca"))
  BY DEF EnforceSecurePerms
<1>2. CASE Die(p)
  BY <1>1, <1>2, DieKeeps
<1>3. CASE Reach(p, "ca")
  <2>. DEFINE q == [program[p] EXCEPT !.at = "ca"]
  <2>1. ProcessOK(program[p])
    BY DEF BindingInv
  <2>2. ProcessOK(q) /\ q.at = "ca"
    BY <2>1, ProcessFields DEF ProcessOK, Starting
  <2>3. Become(p, q)
    BY <1>3 DEF Reach
  <2>. HIDE DEF q
  <2>4. ReadFrom(q, disk["device"])
    BY <2>2 DEF ReadFrom
  <2>. QED
    BY <1>1, <2>2, <2>3, <2>4, BecomeKeeps
<1>. QED
  BY <1>1, <1>2, <1>3

LEMMA LoadCaKeeps ==
  ASSUME BindingInv, NEW p \in Kinds, LoadCa(p)
  PROVE  BindingInv'
<1>. DEFINE ca == disk[MachineOf(p)].ca
            q == [program[p] EXCEPT !.at = "chain", !.ca = ca]
<1>1. program[p].at = "ca" /\ (Die(p) \/ Become(p, q))
  BY DEF LoadCa
<1>2. CASE Die(p)
  BY <1>1, <1>2, DieKeeps
<1>3. CASE Become(p, q)
  <2>1. ProcessOK(program[p])
    BY DEF BindingInv
  <2>2. ProcessOK(q) /\ q.at = "chain"
    BY <2>1, ProcessFields DEF ProcessOK, Starting
  <2>. HIDE DEF q
  <2>4. ReadFrom(q, disk["device"])
    BY <2>2 DEF ReadFrom
  <2>. QED
    BY <1>1, <1>3, <2>2, <2>4, BecomeKeeps
<1>. QED
  BY <1>1, <1>2, <1>3

LEMMA LoadChainKeeps ==
  ASSUME BindingInv, NEW p \in Kinds, LoadChain(p)
  PROVE  BindingInv'
<1>. DEFINE chain == disk[MachineOf(p)].chain
            q == [program[p] EXCEPT !.at = "key", !.chain = chain]
<1>1. program[p].at = "chain" /\ (Die(p) \/ (chain # Missing /\ Become(p, q)))
  BY DEF LoadChain
<1>2. CASE Die(p)
  BY <1>1, <1>2, DieKeeps
<1>3. CASE chain # Missing /\ Become(p, q)
  <2>1. ProcessOK(program[p])
    BY DEF BindingInv
  <2>2. ProcessOK(q) /\ q.at = "key" /\ q.chain = chain
    BY <2>1, ProcessFields DEF ProcessOK, Starting
  <2>3. MachineOf(p) \in Machines /\ (p # "central" => MachineOf(p) = "device")
    BY DEF MachineOf, Machines
  <2>4. chain \in {Missing} \cup ChainsOf(MachineOf(p))
    BY <2>3 DEF BindingInv, FileSets
  <2>. HIDE DEF q
  <2>5. p # "central" => ReadFrom(q, disk["device"])
    BY <1>3, <2>2, <2>3, <2>4 DEF ReadFrom
  <2>. QED
    BY <1>1, <1>3, <2>2, <2>5, BecomeKeeps
<1>. QED
  BY <1>1, <1>2, <1>3

LEMMA LoadKeyKeeps ==
  ASSUME BindingInv, NEW p \in Kinds, LoadPrivateKey(p)
  PROVE  BindingInv'
<1>. DEFINE place == IF p = "central" THEN "up" ELSE "built"
            q == [program[p] EXCEPT !.at = place]
<1>1. program[p].at = "key" /\ (Die(p) \/ Become(p, q))
  BY DEF LoadPrivateKey, Reach
<1>2. CASE Die(p)
  BY <1>1, <1>2, DieKeeps
<1>3. CASE Become(p, q)
  <2>1. ProcessOK(program[p])
    BY DEF BindingInv
  <2>2. /\ ProcessOK(q) /\ q.at = place /\ q.chain = program[p].chain
        /\ q.dev = program[p].dev /\ q.quiet = program[p].quiet
    BY <2>1, ProcessFields DEF ProcessOK, Starting
  <2>. HIDE DEF q
  <2>3. p # "central" => ReadFrom(program[p], disk["device"])
    BY DEF BindingInv, Kinds
  <2>4. p # "central" => ReadFrom(q, disk["device"])
    BY <1>1, <2>2, <2>3 DEF ReadFrom
  <2>. QED
    BY <1>1, <1>3, <2>2, <2>4, BecomeKeeps
<1>. QED
  BY <1>1, <1>2, <1>3

\* The certificate that is read again for its fingerprint is the one in use,
\* if nobody has written it since.
LEMMA FingerprintKeeps ==
  ASSUME BindingInv, NEW p \in {"relay", "login"}, Fingerprint(p)
  PROVE  BindingInv'
<1>. DEFINE place == IF p = "relay" THEN "up" ELSE "send"
            print == IF program[p].dev THEN Missing ELSE CertFingerprint(disk["device"].chain)
            q == [program[p] EXCEPT !.at = place, !.fingerprint = print]
<1>1. program[p].at = "built" /\ Become(p, q) /\ p \in Kinds
  BY DEF Fingerprint, Kinds
<1>2. ProcessOK(program[p]) /\ ReadFrom(program[p], disk["device"])
  BY <1>1 DEF BindingInv
<1>3. /\ ProcessOK(q) /\ q.at = place /\ q.chain = program[p].chain
      /\ q.dev = program[p].dev /\ q.quiet = program[p].quiet /\ q.fingerprint = print
  BY <1>2, ProcessFields DEF ProcessOK, Starting
<1>. HIDE DEF q
<1>4. ASSUME ~program[p].dev, program[p].quiet
      PROVE  print = program[p].chain[1]
  <2>1. program[p].chain = disk["device"].chain /\ program[p].chain \in ChainsOf("device")
    BY <1>1, <1>2, <1>4 DEF ReadFrom
  <2>2. disk["device"].chain # Missing
    BY <2>1, NoChainIsMissing
  <2>. QED
    BY <1>4, <2>1, <2>2 DEF CertFingerprint
<1>5. ReadFrom(q, disk["device"])
  BY <1>1, <1>2, <1>3, <1>4 DEF ReadFrom
<1>. QED
  BY <1>1, <1>3, <1>5, BecomeKeeps

LEMMA MintKeeps ==
  ASSUME BindingInv, Mint
  PROVE  BindingInv'
<1>1. program["login"].at = "send"
  BY DEF Mint
<1>2. CASE Die("login")
  BY <1>1, <1>2, DieKeeps DEF Kinds
<1>3. CASE ~Die("login")
  <2>. DEFINE l == program["login"]
              q == [l EXCEPT !.at = "done"]
  <2>1. /\ token' = {l.fingerprint} /\ UNCHANGED <<disk, replaced>>
        /\ program' = [program EXCEPT !["login"].at = "done"]
    BY <1>3 DEF Mint
  <2>2. DOMAIN program = Kinds /\ \A r \in Kinds : ProcessOK(program[r])
    BY DEF BindingInv
  <2>3. /\ DOMAIN program' = Kinds
        /\ \A r \in Kinds : program'[r] = IF r = "login" THEN q ELSE program[r]
    BY <2>1, <2>2 DEF Kinds
  <2>4. ProcessOK(l) /\ ReadFrom(l, disk["device"])
    BY <2>2 DEF BindingInv, Kinds
  <2>5. /\ ProcessOK(q) /\ q.at = "done" /\ q.chain = l.chain /\ q.dev = l.dev
        /\ q.quiet = l.quiet /\ q.fingerprint = l.fingerprint
    BY <2>4, ProcessFields DEF ProcessOK, Starting
  <2>. HIDE DEF q
  <2>6. ReadFrom(q, disk["device"])
    BY <1>1, <2>4, <2>5 DEF ReadFrom
  <2>7. program'["login"] = q /\ program'["relay"] = program["relay"]
    BY <2>3 DEF Kinds
  <2>8. (\A m \in Machines : disk[m] \in FileSets(m))'
    BY <2>1 DEF BindingInv, FileSets, ChainsOf, CertsOf, Chain
  <2>9. (\A r \in Kinds : ProcessOK(program[r]))'
    BY <2>2, <2>3, <2>5 DEF ProcessOK
  <2>10. ReadFrom(program["relay"], disk["device"])' /\ ReadFrom(program["login"], disk["device"])'
    BY <2>1, <2>6, <2>7 DEF BindingInv, ReadFrom, ChainsOf, CertsOf, Chain
  <2>11. (\A bound \in token :
            program["login"].at = "done" /\ bound = program["login"].fingerprint)'
    BY <2>1, <2>5, <2>7
  <2>. QED
    BY <2>1, <2>3, <2>5, <2>7, <2>8, <2>9, <2>10, <2>11 DEF BindingInv
<1>. QED
  BY <1>2, <1>3

\* A process whose file is replaced while it starts is no longer quiet.
LEMMA ReplaceKeeps ==
  ASSUME BindingInv, NEW m \in Machines, NEW files \in FileSets(m), Replace(m, files)
  PROVE  BindingInv'
<1>. DEFINE hit(p) == /\ MachineOf(p) = m
                      /\ program[p].at \notin {"new", "up", "send", "done", "failed"}
            q(p) == [program[p] EXCEPT !.quiet = FALSE]
<1>1. /\ disk' = [disk EXCEPT ![m] = files] /\ UNCHANGED token
      /\ program' = [p \in DOMAIN program |-> IF hit(p) THEN q(p) ELSE program[p]]
  BY DEF Replace
<1>2. /\ DOMAIN disk = Machines /\ DOMAIN program = Kinds
      /\ \A p \in Kinds : ProcessOK(program[p])
  BY DEF BindingInv
<1>3. /\ DOMAIN disk' = Machines
      /\ \A n \in Machines : disk'[n] = IF n = m THEN files ELSE disk[n]
  BY <1>1, <1>2
<1>4. /\ DOMAIN program' = Kinds
      /\ \A p \in Kinds : program'[p] = IF hit(p) THEN q(p) ELSE program[p]
  BY <1>1, <1>2
<1>5. ASSUME NEW p \in Kinds
      PROVE  /\ ProcessOK(q(p)) /\ q(p).at = program[p].at /\ q(p).dev = program[p].dev
             /\ q(p).chain = program[p].chain /\ q(p).fingerprint = program[p].fingerprint
             /\ q(p).quiet = FALSE
  BY <1>2, ProcessFields DEF ProcessOK, Starting
<1>. HIDE DEF q
<1>6. ASSUME NEW p \in {"relay", "login"}
      PROVE  ReadFrom(program'[p], disk'["device"])
  <2>1. p \in Kinds /\ MachineOf(p) = "device" /\ "device" \in Machines
    BY DEF Kinds, Machines, MachineOf
  <2>2. ReadFrom(program[p], disk["device"])
    BY DEF BindingInv
  <2>3. CASE hit(p)
    <3>1. program'[p] = q(p)
      BY <1>4, <2>1, <2>3
    <3>2. program[p].at \notin {"up", "send", "done"}
      BY <2>3
    <3>. QED
      BY <1>5, <2>1, <2>2, <3>1, <3>2 DEF ReadFrom
  <2>4. CASE ~hit(p) /\ m = "device"
    <3>1. program'[p] = program[p] /\ program[p].at \notin {"key", "built"}
      BY <1>4, <2>1, <2>4
    <3>. QED
      BY <2>2, <3>1 DEF ReadFrom
  <2>5. CASE ~hit(p) /\ m # "device"
    <3>1. program'[p] = program[p] /\ disk'["device"] = disk["device"]
      BY <1>3, <1>4, <2>1, <2>5
    <3>. QED
      BY <2>2, <3>1
  <2>. QED
    BY <2>3, <2>4, <2>5
<1>7. \A n \in Machines : disk'[n] \in FileSets(n)
  BY <1>3 DEF BindingInv
<1>8. \A p \in Kinds : ProcessOK(program'[p]) /\ program'[p].at = program[p].at
                        /\ program'[p].fingerprint = program[p].fingerprint
  BY <1>2, <1>4, <1>5
<1>9. (\A n \in Machines : disk[n] \in FileSets(n))'
  BY <1>7 DEF FileSets, ChainsOf, CertsOf, Chain
<1>10. (\A p \in Kinds : ProcessOK(program[p]))'
  BY <1>8 DEF ProcessOK
<1>11. ReadFrom(program["relay"], disk["device"])' /\ ReadFrom(program["login"], disk["device"])'
  BY <1>6 DEF ReadFrom, ChainsOf, CertsOf, Chain
<1>12. (\A bound \in token :
          program["login"].at = "done" /\ bound = program["login"].fingerprint)'
  BY <1>1, <1>8 DEF BindingInv, Kinds
<1>13. program'["relay"].at \notin {"send", "done"} /\ program'["login"].at # "up"
  BY <1>8 DEF BindingInv, Kinds
<1>. QED
  BY <1>3, <1>4, <1>9, <1>10, <1>11, <1>12, <1>13 DEF BindingInv

LEMMA RotateKeeps ==
  ASSUME BindingInv, NEW m \in Machines, Rotate(m)
  PROVE  BindingInv'
<1>1. disk[m] \in FileSets(m)
  BY DEF BindingInv
<1>2. ASSUME NEW ca \in {Missing} \cup (SUBSET Authorities \ {{}}),
             Replace(m, [disk[m] EXCEPT !.ca = ca])
      PROVE  BindingInv'
  <2>1. [disk[m] EXCEPT !.ca = ca] \in FileSets(m)
    BY <1>1 DEF FileSets
  <2>. QED
    BY <1>2, <2>1, ReplaceKeeps
<1>3. ASSUME NEW chain \in {Missing} \cup {Chain(c) : c \in CertsOf(m)},
             Replace(m, [disk[m] EXCEPT !.chain = chain])
      PROVE  BindingInv'
  <2>1. chain \in {Missing} \cup ChainsOf(m)
    BY DEF ChainsOf
  <2>2. [disk[m] EXCEPT !.chain = chain] \in FileSets(m)
    BY <1>1, <2>1 DEF FileSets
  <2>. QED
    BY <1>3, <2>2, ReplaceKeeps
<1>4. ASSUME NEW key \in {Missing} \cup CertsOf(m), Replace(m, [disk[m] EXCEPT !.key = key])
      PROVE  BindingInv'
  <2>1. [disk[m] EXCEPT !.key = key] \in FileSets(m)
    BY <1>1 DEF FileSets
  <2>. QED
    BY <1>4, <2>1, ReplaceKeeps
<1>5. ASSUME NEW private \in BOOLEAN, Replace(m, [disk[m] EXCEPT !.private = private])
      PROVE  BindingInv'
  <2>1. [disk[m] EXCEPT !.private = private] \in FileSets(m)
    BY <1>1 DEF FileSets
  <2>. QED
    BY <1>5, <2>1, ReplaceKeeps
<1>. QED
  BY <1>2, <1>3, <1>4, <1>5 DEF Rotate

LEMMA BindingStarts == BindingInit => BindingInv
<1>. SUFFICES ASSUME BindingInit PROVE BindingInv
  OBVIOUS
<1>1. PICK d \in DeviceCerts, c \in CentralCerts :
        disk = [m \in Machines |-> FilesOf(IF m = "device" THEN d ELSE c)]
  BY DEF BindingInit, Machines
<1>2. ASSUME NEW m \in Machines
      PROVE  disk[m] \in FileSets(m)
  <2>. DEFINE e == IF m = "device" THEN d ELSE c
  <2>1. e \in CertsOf(m) /\ disk[m] = FilesOf(e)
    BY <1>1 DEF CertsOf
  <2>. QED
    BY <2>1 DEF FilesOf, FileSets, ChainsOf
<1>3. /\ DOMAIN program = Kinds /\ \A p \in Kinds : program[p] = NewProcess
      /\ token = {}
  BY DEF BindingInit, Kinds
<1>4. NewProcess.at = "new" /\ NewProcess.dev = FALSE /\ NewProcess.quiet = TRUE
  BY DEF NewProcess
<1>5. ProcessOK(NewProcess) /\ ReadFrom(NewProcess, disk["device"])
  BY <1>4 DEF ProcessOK, ReadFrom, Starting
<1>6. "relay" \in Kinds /\ "login" \in Kinds
  BY DEF Kinds
<1>. QED
  BY <1>1, <1>2, <1>3, <1>4, <1>5, <1>6 DEF BindingInv

\* A process of the device that no replaced file has disturbed presents the
\* certificate that was on the disk when it read it again for the fingerprint
\* (serve of the relay; complete_login; mtls.rs, cert_fingerprint).
THEOREM BindingInvariant == BindingSpec => []BindingInv
<1>1. BindingInv /\ [BindingNext]_bindingVars => BindingInv'
  <2>. SUFFICES ASSUME BindingInv, [BindingNext]_bindingVars PROVE BindingInv'
    OBVIOUS
  <2>1. DOMAIN program = Kinds /\ DOMAIN disk = Machines
    BY DEF BindingInv
  <2>2. ASSUME NEW p \in Kinds, Start(p) PROVE BindingInv'
    BY <2>2, StartKeeps
  <2>3. ASSUME NEW p \in Kinds, EnforceSecurePerms(p) PROVE BindingInv'
    BY <2>3, PermsKeeps
  <2>4. ASSUME NEW p \in Kinds, LoadCa(p) PROVE BindingInv'
    BY <2>4, LoadCaKeeps
  <2>5. ASSUME NEW p \in Kinds, LoadChain(p) PROVE BindingInv'
    BY <2>5, LoadChainKeeps
  <2>6. ASSUME NEW p \in Kinds, LoadPrivateKey(p) PROVE BindingInv'
    BY <2>6, LoadKeyKeeps
  <2>7. ASSUME NEW p \in Kinds, Crash(p) PROVE BindingInv'
    BY <2>7, DieKeeps DEF Crash
  <2>8. ASSUME NEW p \in {"relay", "login"}, Fingerprint(p) PROVE BindingInv'
    BY <2>8, FingerprintKeeps
  <2>9. CASE Mint
    BY <2>9, MintKeeps
  <2>10. ASSUME NEW m \in Machines, Rotate(m) PROVE BindingInv'
    BY <2>10, RotateKeeps
  <2>11. CASE UNCHANGED bindingVars
    BY <2>11 DEF bindingVars, BindingInv, ProcessOK, ReadFrom, FileSets, ChainsOf, CertsOf, Chain
  <2>. QED
    BY <2>1, <2>2, <2>3, <2>4, <2>5, <2>6, <2>7, <2>8, <2>9, <2>10, <2>11 DEF BindingNext
<1>. QED
  BY <1>1, BindingStarts, PTL DEF BindingSpec

\* The token of an undisturbed login is bound to the certificate that the login
\* presented, and an undisturbed relay may use it exactly if it presents the
\* same ("a token minted on relay A cannot be used from relay B", mtls.rs).
THEOREM TokenBoundToDevice == BindingSpec => []TokenStaysOnDevice
<1>1. BindingInv => TokenStaysOnDevice
  <2>. SUFFICES ASSUME BindingInv, NEW bound \in token,
                       program["login"].quiet, ~program["login"].dev
                PROVE  /\ bound = program["login"].chain[1]
                       /\ (program["relay"].at = "up" /\ program["relay"].quiet
                             /\ ~program["relay"].dev) =>
                            (AllowsDevice(bound, program["relay"].fingerprint) <=>
                               program["relay"].chain[1] = program["login"].chain[1])
    BY DEF TokenStaysOnDevice
  <2>1. /\ program["login"].at = "done" /\ bound = program["login"].fingerprint
        /\ ReadFrom(program["login"], disk["device"])
        /\ ReadFrom(program["relay"], disk["device"])
    BY DEF BindingInv
  <2>2. bound = program["login"].chain[1] /\ program["login"].chain \in ChainsOf("device")
    BY <2>1 DEF ReadFrom
  <2>3. bound # Missing
    BY <2>2, NoChainIsMissing
  <2>4. (program["relay"].at = "up" /\ program["relay"].quiet /\ ~program["relay"].dev) =>
          program["relay"].fingerprint = program["relay"].chain[1]
    BY <2>1 DEF ReadFrom
  <2>. QED
    BY <2>2, <2>3, <2>4 DEF AllowsDevice
<1>. QED
  BY <1>1, BindingInvariant, PTL

-----------------------------------------------------------------------------
(* Schema *)

\* A migration that fits after others: it can be begun only once, each of its
\* statements is possible where it stands, and what it makes is taken back
\* without touching what was there before.
FitsAfter(m, before) ==
  LET added == Adds(FirstOf(m.up, Len(m.up)))
  IN /\ Len(m.up) \in Nat \ {0} /\ Len(m.down) \in Nat
     /\ m.up[1].does # "ensure" /\ m.up[1].items # {}
     /\ \A i \in 1..Len(m.up) :
          /\ m.up[i].does \in {"create", "add", "ensure"}
          /\ Possible(m.up[i], before \cup Adds(FirstOf(m.up, i - 1)))
     /\ \A i \in 1..Len(m.down) :
          /\ m.down[i].does \in {"drop", "remove"}
          /\ \A x \in before : ~Takes(m.down[i], x)
          /\ \E x \in added : Takes(m.down[i], x) /\ \A j \in 1..(i - 1) : ~Takes(m.down[j], x)
     /\ \A x \in added :
          \/ \E y \in before : y[1] = x[1]
          \/ \E i \in 1..Len(m.down) : m.down[i].does = "drop" /\ m.down[i].on = x[1]

\* A list of migrations that fit one after another, and make in the end all
\* that the entities ask for.
MigrationsFit(list, entities) ==
  /\ Len(list) \in Nat
  /\ \A n \in 1..Len(list) : FitsAfter(list[n], UpTo(list, n - 1))
  /\ Asked(entities) \subseteq UpTo(list, Len(list))

\* What a statement makes, and what a migration makes.
Gives(s) == {s.on} \X s.items
Added(list, n) == Adds(FirstOf(list[n].up, Len(list[n].up)))

LEMMA AddsIsOfEach ==
  ASSUME NEW statements, NEW x
  PROVE  x \in Adds(statements) <=> \E s \in statements : x \in Gives(s)
BY DEF Adds, Gives

LEMMA NothingAdded ==
  ASSUME NEW statements, NEW list
  PROVE  Adds(FirstOf(statements, 0)) = {} /\ UpTo(list, 0) = {}
<1>1. 1..0 = {}
  OBVIOUS
<1>. QED
  BY <1>1 DEF Adds, FirstOf, UpTo

LEMMA OneMoreAdded ==
  ASSUME NEW statements, NEW k \in Nat, k > 0
  PROVE  Adds(FirstOf(statements, k)) = Adds(FirstOf(statements, k - 1)) \cup Gives(statements[k])
<1>1. 1..k = 1..(k - 1) \cup {k}
  OBVIOUS
<1>2. FirstOf(statements, k) = FirstOf(statements, k - 1) \cup {statements[k]}
  BY <1>1 DEF FirstOf
<1>. QED
  BY <1>2, AddsIsOfEach

LEMMA OneMoreMigration ==
  ASSUME NEW list, NEW n \in Nat, n > 0
  PROVE  UpTo(list, n) = UpTo(list, n - 1) \cup Added(list, n)
<1>1. 1..n = 1..(n - 1) \cup {n}
  OBVIOUS
<1>. QED
  BY <1>1 DEF UpTo, Added

\* What a statement of a migration adds is of the migration.
LEMMA PartOfMigration ==
  ASSUME NEW list, NEW n \in Nat, NEW k \in 1..n, NEW i \in 0..Len(list[k].up),
         Len(list[k].up) \in Nat
  PROVE  Adds(FirstOf(list[k].up, i)) \subseteq UpTo(list, n)
<1>1. FirstOf(list[k].up, i) \subseteq FirstOf(list[k].up, Len(list[k].up))
  BY DEF FirstOf
<1>2. Adds(FirstOf(list[k].up, i)) \subseteq Added(list, k)
  BY <1>1, AddsIsOfEach DEF Added
<1>. QED
  BY <1>2 DEF UpTo, Added

\* A list of migrations that fits with some entities.
Fits(list) == \E entities : MigrationsFit(list, entities)

LEMMA ListHasLength ==
  ASSUME NEW list, Fits(list)
  PROVE  Len(list) \in Nat
<1>1. PICK entities : MigrationsFit(list, entities)
  BY DEF Fits
<1>. QED
  BY <1>1 DEF MigrationsFit

LEMMA MigrationIsTyped ==
  ASSUME NEW list, Fits(list), NEW n \in 1..Len(list)
  PROVE  /\ Len(list) \in Nat /\ Len(list[n].up) \in Nat \ {0} /\ Len(list[n].down) \in Nat
<1>1. PICK entities : MigrationsFit(list, entities)
  BY DEF Fits
<1>. QED
  BY <1>1 DEF MigrationsFit, FitsAfter

LEMMA MigrationFits ==
  ASSUME NEW list, Fits(list), NEW n \in 1..Len(list)
  PROVE  /\ list[n].up[1].does # "ensure" /\ list[n].up[1].items # {}
         /\ \A i \in 1..Len(list[n].up) :
              /\ list[n].up[i].does \in {"create", "add", "ensure"}
              /\ Possible(list[n].up[i], UpTo(list, n - 1) \cup Adds(FirstOf(list[n].up, i - 1)))
         /\ \A i \in 1..Len(list[n].down) :
              /\ list[n].down[i].does \in {"drop", "remove"}
              /\ \A x \in UpTo(list, n - 1) : ~Takes(list[n].down[i], x)
              /\ \E x \in Added(list, n) : /\ Takes(list[n].down[i], x)
                                          /\ \A j \in 1..(i - 1) : ~Takes(list[n].down[j], x)
         /\ \A x \in Added(list, n) :
              \/ \E y \in UpTo(list, n - 1) : y[1] = x[1]
              \/ \E i \in 1..Len(list[n].down) : /\ list[n].down[i].does = "drop"
                                                /\ list[n].down[i].on = x[1]
<1>1. PICK entities : MigrationsFit(list, entities)
  BY DEF Fits
<1>. QED
  BY <1>1 DEF MigrationsFit, FitsAfter, Added

\* A migration cannot be begun twice.
LEMMA BegunOnce ==
  ASSUME NEW list, Fits(list), NEW n \in 1..Len(list), NEW schema,
         Gives(list[n].up[1]) \subseteq schema
  PROVE  ~Possible(list[n].up[1], schema)
<1>1. 1 \in 1..Len(list[n].up)
  BY MigrationIsTyped
<1>2. list[n].up[1].does \in {"create", "add"} /\ list[n].up[1].items # {}
  <2>1. list[n].up[1].does # "ensure" /\ list[n].up[1].items # {}
    BY MigrationFits
  <2>2. list[n].up[1].does \in {"create", "add", "ensure"}
    BY <1>1, MigrationFits
  <2>. QED
    BY <2>1, <2>2
<1>3. PICK c \in list[n].up[1].items : TRUE
  BY <1>2
<1>4. <<list[n].up[1].on, c>> \in schema
  BY <1>3 DEF Gives
<1>. QED
  BY <1>2, <1>3, <1>4 DEF Possible

\* What a statement does to the schema.
LEMMA UpAdds ==
  ASSUME NEW s, NEW schema, s.does \in {"create", "add", "ensure"}
  PROVE  Outcome(s, schema) = schema \cup Gives(s)
<1>1. Adds({s}) = Gives(s)
  BY AddsIsOfEach
<1>. QED
  BY <1>1 DEF Outcome
LEMMA DownTakes ==
  ASSUME NEW s, NEW schema, s.does \in {"drop", "remove"}
  PROVE  Outcome(s, schema) = {x \in schema : ~Takes(s, x)}
BY DEF Outcome
LEMMA TakesWhatIsThere ==
  ASSUME NEW s, NEW schema, s.does \in {"drop", "remove"}, NEW x \in schema, Takes(s, x)
  PROVE  Possible(s, schema)
BY DEF Possible, Takes

\* A process that migrates has the migrations from the k-th on before it, the
\* first k - 1 are recorded, and what it has made of the k-th is there.
UpIs(list, n, p) ==
  \E k \in 1..(n + 1) :
    /\ process[p].todo = k..Len(list)
    /\ k > Len(list) => process[p].at = 1
    /\ k <= Len(list) =>
         /\ process[p].at \in 1..(Len(list[k].up) + 1)
         /\ "down" \notin killed => Adds(FirstOf(list[k].up, process[p].at - 1)) \subseteq made
    /\ (killed = {} /\ process[p].at > 1) => k = n + 1

\* A process that resets has taken away what its statements take, and nothing
\* else; of a database that nobody was killed on, there is nothing else.
DownIs(list, n, p) ==
  /\ process[p].todo = 1..n
  /\ n = 0 => process[p].at = 1
  /\ n > 0 => process[p].at \in 1..(Len(list[n].down) + 1)
  /\ "down" \notin killed =>
       \A x \in UpTo(list, n) :
         x \in made \/ \E j \in 1..(process[p].at - 1) : Takes(list[n].down[j], x)
  /\ killed = {} =>
       \A x \in made :
         /\ \E y \in UpTo(list, n) : y[1] = x[1]
         /\ \A j \in 1..(process[p].at - 1) :
              ~(list[n].down[j].does = "drop" /\ list[n].down[j].on = x[1])

NobodyDown == \A p \in Processes : process[p].step # "down"

Started(p) == process[p].step = "up" /\ process[p].at > 1

\* While nobody resets, everything recorded is there; and if nobody was killed
\* there is nothing but that, and what one process has made of the next
\* migration.
RestIs(list, n) ==
  /\ "down" \notin killed => UpTo(list, n) \subseteq made
  /\ killed = {} =>
       /\ (\A p \in Processes : ~Started(p)) => made = UpTo(list, n)
       /\ \A p \in Processes :
            Started(p) =>
              made = UpTo(list, n) \cup Adds(FirstOf(list[n + 1].up, process[p].at - 1))

ProcessRecord ==
  [step : {"off", "failed", "up", "down", "serving"}, todo : SUBSET Nat, at : Nat]

\* Whoever resets is alone; who does neither has nothing to do; who serves has
\* found every migration recorded.
SchemaBase(list, n) ==
  /\ n \in 0..Len(list) /\ recorded = 1..n
  /\ killed \subseteq {"up", "down"}
  /\ process \in [Processes -> ProcessRecord]
  /\ \A p, q \in Processes :
       (process[p].step = "down" /\ q # p) => process[q].step \in {"off", "failed"}
  /\ \A p \in Processes :
       process[p].step \notin {"up", "down"} => process[p].todo = {} /\ process[p].at = 1
  /\ \A p \in Processes : process[p].step = "serving" => n = Len(list)

SchemaIs(list, n) ==
  /\ SchemaBase(list, n)
  /\ \A p \in Processes : process[p].step = "up" => UpIs(list, n, p)
  /\ \A p \in Processes : process[p].step = "down" => DownIs(list, n, p)
  /\ NobodyDown => RestIs(list, n)
  /\ killed = {} => \A p, q \in Processes : (Started(p) /\ Started(q)) => p = q

SchemaInv ==
  /\ database \in {"central", "relay"}
  /\ \E list \in {CentralMigrations, RelayMigrations} : \E n \in 0..Len(list) :
       Migrations = list /\ SchemaIs(list, n)

\* What a process is about to do.
LEMMA CurrentUp ==
  ASSUME NEW list, Migrations = list, NEW p \in Processes, process[p].step = "up",
         Len(list) \in Nat, NEW k \in 1..Len(list), process[p].todo = k..Len(list)
  PROVE  Current(p) = k /\ Statements(p) = list[k].up /\ Busy(p)
<1>. DEFINE Least(c) == c \in process[p].todo /\ \A m \in process[p].todo : c <= m
<1>1. Least(k) /\ \A c \in process[p].todo : Least(c) => c = k
  OBVIOUS
<1>2. \A c \in process[p].todo :
        Least(c) <=> \A m \in process[p].todo :
                       IF process[p].step = "up" THEN c <= m ELSE c >= m
  OBVIOUS
<1>3. Current(p) = k
  <2>1. \E c \in process[p].todo : \A m \in process[p].todo :
                       IF process[p].step = "up" THEN c <= m ELSE c >= m
    BY <1>1, <1>2
  <2>2. Current(p) \in process[p].todo /\ \A m \in process[p].todo :
                       IF process[p].step = "up" THEN Current(p) <= m ELSE Current(p) >= m
    BY <2>1 DEF Current
  <2>. QED
    BY <2>2, <1>1, <1>2
<1>. QED
  BY <1>3 DEF Statements, Busy

LEMMA CurrentDown ==
  ASSUME NEW list, Migrations = list, NEW p \in Processes, process[p].step = "down",
         Len(list) \in Nat, NEW n \in 1..Len(list), process[p].todo = 1..n
  PROVE  Current(p) = n /\ Statements(p) = list[n].down /\ Busy(p)
<1>. DEFINE Most(c) == c \in process[p].todo /\ \A m \in process[p].todo : c >= m
<1>1. Most(n) /\ \A c \in process[p].todo : Most(c) => c = n
  OBVIOUS
<1>2. \A c \in process[p].todo :
        Most(c) <=> \A m \in process[p].todo :
                      IF process[p].step = "up" THEN c <= m ELSE c >= m
  OBVIOUS
<1>3. Current(p) = n
  <2>1. \E c \in process[p].todo : \A m \in process[p].todo :
                      IF process[p].step = "up" THEN c <= m ELSE c >= m
    BY <1>1, <1>2
  <2>2. Current(p) \in process[p].todo /\ \A m \in process[p].todo :
                      IF process[p].step = "up" THEN Current(p) <= m ELSE Current(p) >= m
    BY <2>1 DEF Current
  <2>. QED
    BY <2>2, <1>1, <1>2
<1>. QED
  BY <1>3 DEF Statements, Busy

\* A process goes to another step, with nothing done of what it has to do; the
\* others stay where they are.
LEMMA ProcessMoves ==
  ASSUME process \in [Processes -> ProcessRecord], NEW p \in Processes, NEW r \in ProcessRecord,
         process' = [process EXCEPT ![p] = r]
  PROVE  /\ process' \in [Processes -> ProcessRecord] /\ process'[p] = r
         /\ \A q \in Processes : q # p => process'[q] = process[q]
OBVIOUS

\* What a process that migrates has found or made stays, while no other resets.
LEMMA UpStays ==
  ASSUME NEW list, NEW n \in Nat, NEW m \in Nat, m >= n, NEW q \in Processes,
         UpIs(list, n, q), process'[q] = process[q],
         "down" \notin killed' => ("down" \notin killed /\ made \subseteq made'),
         killed' = {} => (killed = {} /\ (m = n \/ process[q].at <= 1)),
         process[q].at \in Nat
  PROVE  UpIs(list, m, q)'
<1>1. PICK k \in 1..(n + 1) :
        /\ process[q].todo = k..Len(list)
        /\ k > Len(list) => process[q].at = 1
        /\ k <= Len(list) =>
             /\ process[q].at \in 1..(Len(list[k].up) + 1)
             /\ "down" \notin killed => Adds(FirstOf(list[k].up, process[q].at - 1)) \subseteq made
        /\ (killed = {} /\ process[q].at > 1) => k = n + 1
  BY DEF UpIs
<1>2. k \in 1..(m + 1)
  OBVIOUS
<1>3. (killed' = {} /\ process'[q].at > 1) => k = m + 1
  BY <1>1
<1>4. process'[q].todo = k..Len(list) /\ (k > Len(list) => process'[q].at = 1)
  BY <1>1
<1>5. k <= Len(list) =>
        /\ process'[q].at \in 1..(Len(list[k].up) + 1)
        /\ "down" \notin killed' => Adds(FirstOf(list[k].up, process'[q].at - 1)) \subseteq made'
  BY <1>1
<1>. QED
  BY <1>2, <1>3, <1>4, <1>5 DEF UpIs

\* A process that nobody disturbs by a reset goes to another step.
LEMMA MoveKeeps ==
  ASSUME NEW list, NEW n, Fits(list), SchemaIs(list, n), NobodyDown,
         NEW p \in Processes, NEW r \in ProcessRecord, process' = [process EXCEPT ![p] = r],
         UNCHANGED <<made, recorded, killed>>,
         r.at = 1, r.step # "down", killed = {} => ~Started(p),
         r.step # "up" => r.todo = {}, r.step = "serving" => n = Len(list),
         r.step = "up" => r.todo = (n + 1)..Len(list)
  PROVE  SchemaIs(list, n)'
<1>1. SchemaBase(list, n)
  BY DEF SchemaIs
<1>2. process \in [Processes -> ProcessRecord] /\ n \in 0..Len(list)
  BY <1>1 DEF SchemaBase
<1>3. /\ process' \in [Processes -> ProcessRecord] /\ process'[p] = r
      /\ \A q \in Processes : q # p => process'[q] = process[q]
  BY <1>2, ProcessMoves
<1>4. SchemaBase(list, n)'
  BY <1>1, <1>3 DEF SchemaBase, NobodyDown
<1>5. NobodyDown'
  BY <1>3 DEF NobodyDown
<1>6. \A q \in Processes : Started(q)' <=> (q # p /\ Started(q))
  BY <1>3 DEF Started
<1>7. ASSUME NEW q \in Processes, process'[q].step = "up"
      PROVE  UpIs(list, n, q)'
  <2>1. CASE q # p
    <3>1. process'[q] = process[q] /\ process[q].at \in Nat
      BY <1>2, <1>3, <2>1 DEF ProcessRecord
    <3>2. UpIs(list, n, q)
      BY <1>7, <3>1 DEF SchemaIs
    <3>3. Len(list) \in Nat => n \in Nat
      BY <1>2
    <3>4. n \in Nat
      BY <1>2
    <3>. QED
      BY <3>1, <3>2, <3>4, UpStays
  <2>2. CASE q = p
    <3>1. process'[p].todo = (n + 1)..Len(list) /\ process'[p].at = 1
      BY <1>3, <1>7, <2>2
    <3>2. n + 1 \in 1..(n + 1)
      BY <1>2
    <3>3. n + 1 <= Len(list) =>
            /\ 1 \in 1..(Len(list[n + 1].up) + 1)
            /\ Adds(FirstOf(list[n + 1].up, 1 - 1)) \subseteq made
      <4>. SUFFICES ASSUME n + 1 <= Len(list)
                    PROVE  /\ 1 \in 1..(Len(list[n + 1].up) + 1)
                           /\ Adds(FirstOf(list[n + 1].up, 1 - 1)) \subseteq made
        OBVIOUS
      <4>1. n + 1 \in 1..Len(list)
        BY <1>2
      <4>2. Len(list[n + 1].up) \in Nat
        BY <4>1, MigrationIsTyped
      <4>3. 1 - 1 = 0
        OBVIOUS
      <4>4. Adds(FirstOf(list[n + 1].up, 0)) = {}
        BY NothingAdded
      <4>5. Adds(FirstOf(list[n + 1].up, 1 - 1)) = {}
        BY <4>3, <4>4
      <4>. QED
        BY <4>2, <4>5
    <3>. QED
      BY <3>1, <3>2, <3>3, <2>2 DEF UpIs
  <2>. QED
    BY <2>1, <2>2
<1>8. RestIs(list, n)'
  <2>1. RestIs(list, n)
    BY DEF SchemaIs
  <2>2. killed = {} => ((\A q \in Processes : ~Started(q)') <=> \A q \in Processes : ~Started(q))
    BY <1>6
  <2>3. \A q \in Processes : Started(q)' => Started(q) /\ process'[q] = process[q]
    BY <1>3, <1>6
  <2>. QED
    BY <2>1, <2>2, <2>3 DEF RestIs
<1>9. killed' = {} => \A q, s \in Processes : (Started(q)' /\ Started(s)') => q = s
  BY <1>6 DEF SchemaIs
<1>10. \A q \in Processes : process'[q].step = "down" => DownIs(list, n, q)'
  BY <1>5 DEF NobodyDown
<1>. QED
  BY <1>4, <1>7, <1>8, <1>9, <1>10 DEF SchemaIs

\* Start, service and the end of a process.
LEMMA SetupKeeps ==
  ASSUME NEW list, NEW n, Fits(list), Migrations = list, SchemaIs(list, n),
         NEW p \in Processes, Setup(p)
  PROVE  SchemaIs(list, n)'
<1>. DEFINE r == [step |-> "up", todo |-> (n + 1)..Len(list), at |-> 1]
<1>1. recorded = 1..n /\ n \in 0..Len(list) /\ process \in [Processes -> ProcessRecord]
  BY DEF SchemaIs, SchemaBase
<1>2. Numbered \ recorded = (n + 1)..Len(list)
  BY <1>1 DEF Numbered
<1>3. process' = [process EXCEPT ![p] = r] /\ UNCHANGED <<made, recorded, killed>>
  BY <1>2 DEF Setup, Goto
<1>4. NobodyDown /\ ~Started(p)
  BY DEF Setup, NobodyDown, Started
<1>5. r \in ProcessRecord
  BY <1>1 DEF ProcessRecord
<1>6. r.step = "up" /\ r.at = 1 /\ r.todo = (n + 1)..Len(list)
  OBVIOUS
<1>. HIDE DEF r
<1>. QED
  BY <1>3, <1>4, <1>5, <1>6, MoveKeeps

\* A process that migrates ends, or goes on when every migration is recorded.
LEMMA LeavesUp ==
  ASSUME NEW list, NEW n, Fits(list), SchemaIs(list, n), NEW p \in Processes,
         NEW step \in {"failed", "off", "serving"}, Goto(p, step, {}),
         UNCHANGED <<made, recorded, killed>>,
         process[p].step \in {"up", "serving"}, killed = {} => ~Started(p),
         step = "serving" => (process[p].step = "up" /\ process[p].todo = {})
  PROVE  SchemaIs(list, n)'
<1>. DEFINE r == [step |-> step, todo |-> {}, at |-> 1]
<1>1. n \in 0..Len(list) /\ process \in [Processes -> ProcessRecord]
  BY DEF SchemaIs, SchemaBase
<1>2. NobodyDown
  BY DEF SchemaIs, SchemaBase, NobodyDown
<1>3. process' = [process EXCEPT ![p] = r]
  BY DEF Goto
<1>4. step = "serving" => n = Len(list)
  <2>. SUFFICES ASSUME step = "serving"
                PROVE  n = Len(list)
    OBVIOUS
  <2>1. PICK k \in 1..(n + 1) : process[p].todo = k..Len(list)
    BY DEF SchemaIs, UpIs
  <2>2. k..Len(list) = {}
    BY <2>1
  <2>3. Len(list) \in Int
    BY ListHasLength
  <2>4. n \in Int /\ n <= Len(list)
    BY <1>1, <2>3
  <2>5. k \in Int /\ k <= n + 1
    BY <2>4
  <2>6. k \in k..Len(list) \/ k > Len(list)
    BY <2>3, <2>5
  <2>. QED
    BY <2>2, <2>3, <2>4, <2>5, <2>6
<1>5. r \in ProcessRecord
  BY DEF ProcessRecord
<1>6. r.step = step /\ r.at = 1 /\ r.todo = {}
  OBVIOUS
<1>. HIDE DEF r
<1>. QED
  BY <1>2, <1>3, <1>4, <1>5, <1>6, MoveKeeps

\* A process that migrates and has something to do.
LEMMA BusyUp ==
  ASSUME NEW list, NEW n, Fits(list), Migrations = list, SchemaIs(list, n),
         NEW p \in Processes, process[p].step = "up", process[p].todo # {}
  PROVE  \E k \in 1..Len(list) :
           /\ k <= n + 1 /\ process[p].todo = k..Len(list)
           /\ Current(p) = k /\ Statements(p) = list[k].up
           /\ Len(list[k].up) \in Nat \ {0}
           /\ process[p].at \in 1..(Len(list[k].up) + 1)
           /\ "down" \notin killed => Adds(FirstOf(list[k].up, process[p].at - 1)) \subseteq made
           /\ (killed = {} /\ process[p].at > 1) => k = n + 1
<1>1. UpIs(list, n, p) /\ n \in 0..Len(list)
  BY DEF SchemaIs, SchemaBase
<1>2. PICK k \in 1..(n + 1) :
        /\ process[p].todo = k..Len(list)
        /\ k <= Len(list) =>
             /\ process[p].at \in 1..(Len(list[k].up) + 1)
             /\ "down" \notin killed => Adds(FirstOf(list[k].up, process[p].at - 1)) \subseteq made
        /\ (killed = {} /\ process[p].at > 1) => k = n + 1
  BY <1>1 DEF UpIs
<1>3. Len(list) \in Nat
  BY ListHasLength
<1>4. k..Len(list) # {}
  BY <1>2
<1>5. n \in Nat /\ k \in Nat \ {0} /\ k <= n + 1
  BY <1>1, <1>3
<1>6. k \in 1..Len(list)
  <2>1. PICK i : i \in k..Len(list)
    BY <1>4
  <2>. QED
    BY <2>1, <1>3, <1>5
<1>7. Current(p) = k /\ Statements(p) = list[k].up
  BY <1>2, <1>3, <1>6, CurrentUp
<1>8. Len(list[k].up) \in Nat \ {0}
  BY <1>6, MigrationIsTyped
<1>9. k <= Len(list)
  BY <1>3, <1>6
<1>. QED
  BY <1>2, <1>5, <1>6, <1>7, <1>8, <1>9

\* A statement of a migration.
LEMMA StatementUpKeeps ==
  ASSUME NEW list, NEW n, Fits(list), Migrations = list, SchemaIs(list, n),
         NEW p \in Processes, process[p].step = "up", Statement(p)
  PROVE  SchemaIs(list, n)'
<1>1. SchemaBase(list, n) /\ NobodyDown
  BY DEF SchemaIs, SchemaBase, NobodyDown
<1>2. process \in [Processes -> ProcessRecord] /\ n \in 0..Len(list)
  BY <1>1 DEF SchemaBase
<1>3. RestIs(list, n)
  BY <1>1 DEF SchemaIs
<1>4. PICK k \in 1..Len(list) :
        /\ k <= n + 1 /\ process[p].todo = k..Len(list)
        /\ Current(p) = k /\ Statements(p) = list[k].up
        /\ Len(list[k].up) \in Nat \ {0}
        /\ process[p].at \in 1..(Len(list[k].up) + 1)
        /\ "down" \notin killed => Adds(FirstOf(list[k].up, process[p].at - 1)) \subseteq made
        /\ (killed = {} /\ process[p].at > 1) => k = n + 1
  BY BusyUp DEF Statement, Busy
<1>5. PICK i \in 1..Len(list[k].up) : i = process[p].at
  BY <1>4 DEF Statement
<1>6. Len(list) \in Nat /\ n \in Nat /\ k \in Nat \ {0} /\ i \in Nat \ {0}
  BY <1>2, <1>4, <1>5, MigrationIsTyped
<1>7. UNCHANGED <<database, recorded, killed>>
  BY DEF Statement
<1>8. CASE ~Possible(list[k].up[i], made)
  <2>1. Goto(p, "failed", {}) /\ UNCHANGED made
    BY <1>4, <1>5, <1>8 DEF Statement
  <2>2. killed = {} => ~Started(p)
    <3>. SUFFICES ASSUME killed = {}, Started(p)
                  PROVE  FALSE
      OBVIOUS
    <3>1. k = n + 1 /\ n = k - 1
      BY <1>4, <1>6 DEF Started
    <3>2. made = UpTo(list, n) \cup Adds(FirstOf(list[n + 1].up, process[p].at - 1))
      BY <1>3 DEF RestIs
    <3>3. made = UpTo(list, k - 1) \cup Adds(FirstOf(list[k].up, i - 1))
      BY <3>1, <3>2, <1>5
    <3>4. Possible(list[k].up[i], UpTo(list, k - 1) \cup Adds(FirstOf(list[k].up, i - 1)))
      BY MigrationFits
    <3>. QED
      BY <3>3, <3>4, <1>8
  <2>. QED
    BY <2>1, <2>2, <1>7, LeavesUp
<1>9. CASE Possible(list[k].up[i], made)
  <2>. DEFINE r == [process[p] EXCEPT !.at = @ + 1]
              s == list[k].up[i]
  <2>1. made' = Outcome(s, made) /\ process' = [process EXCEPT ![p] = r]
    BY <1>4, <1>5, <1>9 DEF Statement
  <2>2. made' = made \cup Gives(s)
    <3>1. s.does \in {"create", "add", "ensure"}
      BY MigrationFits
    <3>. QED
      BY <2>1, <3>1, UpAdds
  <2>3. r \in ProcessRecord /\ r.step = "up" /\ r.todo = process[p].todo /\ r.at = i + 1
    BY <1>2, <1>5, <1>6 DEF ProcessRecord
  <2>4. /\ process' \in [Processes -> ProcessRecord] /\ process'[p] = r
        /\ \A q \in Processes : q # p => process'[q] = process[q]
    BY <1>2, <2>1, <2>3, ProcessMoves
  <2>. HIDE DEF r
  <2>5. Adds(FirstOf(list[k].up, i)) = Adds(FirstOf(list[k].up, i - 1)) \cup Gives(s)
    BY <1>6, OneMoreAdded
  <2>. HIDE DEF s
  <2>6. SchemaBase(list, n)'
    BY <1>1, <1>7, <2>3, <2>4 DEF SchemaBase
  <2>7. NobodyDown'
    BY <1>1, <2>3, <2>4 DEF NobodyDown
  <2>8. (i = 1 /\ "down" \notin killed) => k = n + 1
    <3>. SUFFICES ASSUME i = 1, "down" \notin killed, k <= n
                  PROVE  FALSE
      BY <1>4, <1>6
    <3>1. k \in 1..n
      BY <1>6
    <3>2. Adds(FirstOf(list[k].up, 1)) \subseteq UpTo(list, n)
      <4>1. 1 \in 0..Len(list[k].up) /\ Len(list[k].up) \in Nat
        BY <1>4
      <4>. QED
        BY <3>1, <4>1, <1>6, PartOfMigration
    <3>3. UpTo(list, n) \subseteq made
      BY <1>3 DEF RestIs
    <3>4. Gives(list[k].up[1]) \subseteq made
      BY <2>5, <3>2, <3>3 DEF s
    <3>. QED
      BY <3>4, <1>9, BegunOnce
  <2>9. killed = {} => k = n + 1
    BY <1>4, <1>5, <1>6, <2>8
  <2>10. killed = {} => \A q \in Processes : Started(q) => q = p
    <3>. SUFFICES ASSUME killed = {}, NEW q \in Processes, Started(q), q # p
                  PROVE  FALSE
      OBVIOUS
    <3>1. ~Started(p)
      BY DEF SchemaIs
    <3>2. i = 1
      BY <3>1, <1>5, <1>6 DEF Started
    <3>3. made = UpTo(list, n) \cup Adds(FirstOf(list[k].up, process[q].at - 1))
      BY <1>3, <2>9 DEF RestIs
    <3>4. 1 \in 1..(process[q].at - 1)
      <4>1. process[q].at \in Nat /\ process[q].at > 1
        BY <1>2 DEF ProcessRecord, Started
      <4>. QED
        BY <4>1
    <3>5. list[k].up[1] \in FirstOf(list[k].up, process[q].at - 1)
      BY <3>4 DEF FirstOf
    <3>6. Gives(list[k].up[1]) \subseteq made
      BY <3>3, <3>5, AddsIsOfEach
    <3>. QED
      BY <3>2, <3>6, <1>9, BegunOnce
  <2>11. killed = {} => made = UpTo(list, n) \cup Adds(FirstOf(list[k].up, i - 1))
    <3>. SUFFICES ASSUME killed = {}
                  PROVE  made = UpTo(list, n) \cup Adds(FirstOf(list[k].up, i - 1))
      OBVIOUS
    <3>1. CASE i > 1
      <4>1. Started(p)
        BY <3>1, <1>5 DEF Started
      <4>. QED
        BY <4>1, <1>3, <1>5, <2>9 DEF RestIs
    <3>2. CASE i = 1
      <4>1. \A q \in Processes : ~Started(q)
        BY <3>2, <2>10, <1>5 DEF Started
      <4>2. i - 1 = 0
        BY <3>2
      <4>3. Adds(FirstOf(list[k].up, 0)) = {}
        BY NothingAdded
      <4>4. Adds(FirstOf(list[k].up, i - 1)) = {}
        BY <4>2, <4>3
      <4>5. made = UpTo(list, n)
        BY <4>1, <1>3 DEF RestIs
      <4>. QED
        BY <4>4, <4>5
    <3>. QED
      BY <1>6, <3>1, <3>2
  <2>12. (i + 1) - 1 = i
    BY <1>6
  <2>13. RestIs(list, n)'
    <3>1. "down" \notin killed => UpTo(list, n) \subseteq made'
      BY <1>3, <2>2 DEF RestIs
    <3>2. Started(p)'
      BY <2>3, <2>4, <1>6 DEF Started
    <3>3. \A q \in Processes : Started(q)' => q = p \/ Started(q)
      BY <2>4 DEF Started
    <3>4. killed = {} => \A q \in Processes : Started(q)' => q = p
      BY <3>3, <2>10
    <3>5. killed = {} => made' = UpTo(list, n) \cup Adds(FirstOf(list[k].up, i))
      BY <2>11, <2>5, <2>2
    <3>6. killed = {} => made' = UpTo(list, n) \cup Adds(FirstOf(list[n + 1].up, process'[p].at - 1))
      BY <3>5, <2>3, <2>4, <2>12, <2>9
    <3>. QED
      BY <3>1, <3>2, <3>4, <3>6, <1>7 DEF RestIs
  <2>14. ASSUME NEW q \in Processes, process'[q].step = "up"
         PROVE  UpIs(list, n, q)'
    <3>1. CASE q # p
      <4>1. process'[q] = process[q] /\ process[q].at \in Nat
        BY <1>2, <2>4, <3>1 DEF ProcessRecord
      <4>2. UpIs(list, n, q)
        BY <2>14, <4>1 DEF SchemaIs
      <4>3. made \subseteq made' /\ killed' = killed
        BY <2>2, <1>7
      <4>4. n \in Nat /\ n >= n
        BY <1>6
      <4>5. "down" \notin killed' => ("down" \notin killed /\ made \subseteq made')
        BY <4>3
      <4>6. killed' = {} => (killed = {} /\ (n = n \/ process[q].at <= 1))
        BY <4>3
      <4>. QED
        BY <4>1, <4>2, <4>4, <4>5, <4>6, UpStays
    <3>2. CASE q = p
      <4>1. process'[p].todo = k..Len(list) /\ process'[p].at = i + 1
        BY <2>3, <2>4, <1>4
      <4>2. k \in 1..(n + 1) /\ k <= Len(list)
        BY <1>4, <1>6
      <4>3. i + 1 \in 1..(Len(list[k].up) + 1)
        <5>1. Len(list[k].up) \in Nat
          BY <1>4
        <5>. QED
          BY <5>1, <1>6
      <4>4. "down" \notin killed => Adds(FirstOf(list[k].up, i)) \subseteq made'
        <5>1. "down" \notin killed => Adds(FirstOf(list[k].up, i - 1)) \subseteq made
          BY <1>4, <1>5
        <5>. QED
          BY <5>1, <2>2, <2>5
      <4>5. ~(k > Len(list))
        BY <4>2, <1>6
      <4>6. "down" \notin killed => Adds(FirstOf(list[k].up, process'[p].at - 1)) \subseteq made'
        BY <4>1, <4>4, <2>12
      <4>7. process'[p].at \in 1..(Len(list[k].up) + 1)
        BY <4>1, <4>3
      <4>. QED
        BY <4>1, <4>2, <4>5, <4>6, <4>7, <2>9, <3>2, <1>7 DEF UpIs
    <3>. QED
      BY <3>1, <3>2
  <2>15. killed' = {} => \A q, t \in Processes : (Started(q)' /\ Started(t)') => q = t
    <3>1. \A q \in Processes : Started(q)' => q = p \/ Started(q)
      BY <2>4 DEF Started
    <3>. QED
      BY <3>1, <2>10, <1>7
  <2>16. \A q \in Processes : process'[q].step = "down" => DownIs(list, n, q)'
    BY <2>7 DEF NobodyDown
  <2>. QED
    BY <2>6, <2>13, <2>14, <2>15, <2>16 DEF SchemaIs
<1>. QED
  BY <1>8, <1>9

\* A migration is recorded.
LEMMA RecordUpKeeps ==
  ASSUME NEW list, NEW n, Fits(list), Migrations = list, SchemaIs(list, n),
         NEW p \in Processes, process[p].step = "up", Record(p)
  PROVE  \E m \in 0..Len(list) : SchemaIs(list, m)'
<1>1. SchemaBase(list, n) /\ NobodyDown
  BY DEF SchemaIs, SchemaBase, NobodyDown
<1>2. process \in [Processes -> ProcessRecord] /\ n \in 0..Len(list) /\ recorded = 1..n
  BY <1>1 DEF SchemaBase
<1>3. RestIs(list, n)
  BY <1>1 DEF SchemaIs
<1>4. PICK k \in 1..Len(list) :
        /\ k <= n + 1 /\ process[p].todo = k..Len(list)
        /\ Current(p) = k /\ Statements(p) = list[k].up
        /\ Len(list[k].up) \in Nat \ {0}
        /\ process[p].at \in 1..(Len(list[k].up) + 1)
        /\ "down" \notin killed => Adds(FirstOf(list[k].up, process[p].at - 1)) \subseteq made
        /\ (killed = {} /\ process[p].at > 1) => k = n + 1
  BY BusyUp DEF Record, Busy
<1>5. Len(list) \in Nat /\ n \in Nat /\ k \in Nat \ {0} /\ k <= Len(list)
  BY <1>2, <1>4, MigrationIsTyped
<1>6. process[p].at = Len(list[k].up) + 1 /\ process[p].at > 1
  <2>1. process[p].at > Len(list[k].up)
    BY <1>4 DEF Record
  <2>. QED
    BY <2>1, <1>4
<1>7. UNCHANGED <<database, made, killed>>
  BY DEF Record
<1>8. CASE k <= n
  <2>1. Goto(p, "failed", {}) /\ UNCHANGED recorded
    <3>1. k \in recorded
      BY <1>2, <1>5, <1>8
    <3>. QED
      BY <3>1, <1>4 DEF Record
  <2>2. killed # {}
    BY <1>4, <1>5, <1>6, <1>8
  <2>3. SchemaIs(list, n)'
    BY <2>1, <2>2, <1>7, LeavesUp
  <2>. QED
    BY <2>3, <1>2
<1>9. CASE k = n + 1
  <2>. DEFINE r == [step |-> "up", todo |-> (k + 1)..Len(list), at |-> 1]
  <2>1. recorded' = 1..k
    <3>1. k \notin recorded
      BY <1>2, <1>5, <1>9
    <3>2. recorded' = recorded \cup {k}
      BY <3>1, <1>4 DEF Record
    <3>3. 1..k = 1..n \cup {k}
      BY <1>5, <1>9
    <3>. QED
      BY <3>2, <3>3, <1>2
  <2>2. process' = [process EXCEPT ![p] = r]
    <3>1. k \notin recorded
      BY <1>2, <1>5, <1>9
    <3>2. Goto(p, "up", process[p].todo \ {k})
      BY <3>1, <1>4 DEF Record
    <3>3. process[p].todo \ {k} = (k + 1)..Len(list)
      BY <1>4, <1>5
    <3>. QED
      BY <3>2, <3>3 DEF Goto
  <2>3. r \in ProcessRecord /\ r.step = "up" /\ r.todo = (k + 1)..Len(list) /\ r.at = 1
    <3>1. (k + 1)..Len(list) \subseteq Nat
      BY <1>5
    <3>. QED
      BY <3>1 DEF ProcessRecord
  <2>. HIDE DEF r
  <2>4. /\ process' \in [Processes -> ProcessRecord] /\ process'[p] = r
        /\ \A q \in Processes : q # p => process'[q] = process[q]
    BY <1>2, <2>2, <2>3, ProcessMoves
  <2>5. \A q \in Processes : process[q].step # "serving"
    BY <1>1, <1>5, <1>9 DEF SchemaBase
  <2>6. SchemaBase(list, k)'
    <3>1. k \in 0..Len(list)
      BY <1>5
    <3>. QED
      BY <3>1, <1>1, <1>7, <2>1, <2>3, <2>4, <2>5 DEF SchemaBase
  <2>7. NobodyDown'
    BY <1>1, <2>3, <2>4 DEF NobodyDown
  <2>8. killed = {} => \A q \in Processes : Started(q) => q = p
    <3>1. Started(p)
      BY <1>6 DEF Started
    <3>. QED
      BY <3>1 DEF SchemaIs
  <2>9. ~Started(p)' /\ \A q \in Processes : Started(q)' => Started(q)
    BY <2>3, <2>4 DEF Started
  <2>10. UpTo(list, k) = UpTo(list, n) \cup Adds(FirstOf(list[k].up, process[p].at - 1))
    <3>1. UpTo(list, k) = UpTo(list, k - 1) \cup Added(list, k)
      BY <1>5, OneMoreMigration
    <3>2. k - 1 = n /\ process[p].at - 1 = Len(list[k].up)
      BY <1>4, <1>5, <1>6, <1>9
    <3>. QED
      BY <3>1, <3>2 DEF Added
  <2>11. RestIs(list, k)'
    <3>1. "down" \notin killed => UpTo(list, k) \subseteq made
      BY <1>3, <1>4, <2>10 DEF RestIs
    <3>2. killed = {} => made = UpTo(list, k)
      <4>1. Started(p)
        BY <1>6 DEF Started
      <4>. QED
        BY <4>1, <1>3, <1>9, <2>10 DEF RestIs
    <3>3. killed = {} => \A q \in Processes : ~Started(q)'
      BY <2>8, <2>9
    <3>. QED
      BY <3>1, <3>2, <3>3, <1>7 DEF RestIs
  <2>12. ASSUME NEW q \in Processes, process'[q].step = "up"
         PROVE  UpIs(list, k, q)'
    <3>1. CASE q # p
      <4>1. process'[q] = process[q] /\ process[q].at \in Nat
        BY <1>2, <2>4, <3>1 DEF ProcessRecord
      <4>2. UpIs(list, n, q) /\ process[q].step = "up"
        BY <2>12, <4>1 DEF SchemaIs
      <4>3. made \subseteq made' /\ killed' = killed
        BY <1>7
      <4>4. n \in Nat /\ k \in Nat /\ k >= n
        BY <1>5, <1>9
      <4>5. "down" \notin killed' => ("down" \notin killed /\ made \subseteq made')
        BY <4>3
      <4>6. killed' = {} => (killed = {} /\ (k = n \/ process[q].at <= 1))
        <5>1. killed = {} => ~Started(q)
          BY <2>8, <3>1
        <5>2. ~Started(q) => process[q].at <= 1
          BY <4>1, <4>2 DEF Started
        <5>. QED
          BY <4>3, <5>1, <5>2
      <4>. QED
        BY <4>1, <4>2, <4>4, <4>5, <4>6, UpStays
    <3>2. CASE q = p
      <4>1. process'[p].todo = (k + 1)..Len(list) /\ process'[p].at = 1
        BY <2>3, <2>4
      <4>2. k + 1 \in 1..(k + 1)
        BY <1>5
      <4>3. k + 1 <= Len(list) =>
              /\ 1 \in 1..(Len(list[k + 1].up) + 1)
              /\ Adds(FirstOf(list[k + 1].up, 1 - 1)) \subseteq made
        <5>. SUFFICES ASSUME k + 1 <= Len(list)
                      PROVE  /\ 1 \in 1..(Len(list[k + 1].up) + 1)
                             /\ Adds(FirstOf(list[k + 1].up, 1 - 1)) \subseteq made
          OBVIOUS
        <5>1. k + 1 \in 1..Len(list)
          BY <1>5
        <5>2. Len(list[k + 1].up) \in Nat
          BY <5>1, MigrationIsTyped
        <5>3. 1 - 1 = 0
          OBVIOUS
        <5>4. Adds(FirstOf(list[k + 1].up, 0)) = {}
          BY NothingAdded
        <5>5. Adds(FirstOf(list[k + 1].up, 1 - 1)) = {}
          BY <5>3, <5>4
        <5>. QED
          BY <5>2, <5>5
      <4>. QED
        BY <4>1, <4>2, <4>3, <3>2, <1>7 DEF UpIs
    <3>. QED
      BY <3>1, <3>2
  <2>13. killed' = {} => \A q, t \in Processes : (Started(q)' /\ Started(t)') => q = t
    BY <2>8, <2>9, <1>7
  <2>14. \A q \in Processes : process'[q].step = "down" => DownIs(list, k, q)'
    BY <2>7 DEF NobodyDown
  <2>15. SchemaIs(list, k)'
    BY <2>6, <2>11, <2>12, <2>13, <2>14 DEF SchemaIs
  <2>16. k \in 0..Len(list)
    BY <1>5
  <2>. QED
    BY <2>15, <2>16
<1>. QED
  BY <1>4, <1>5, <1>8, <1>9

\* A reset, of which nobody else takes part.
LEMMA ResetSteps ==
  ASSUME NEW list, NEW n, SchemaBase(list, n), NEW p \in Processes,
         \A q \in Processes : q # p => process[q].step \in {"off", "failed"},
         NEW r \in ProcessRecord, process' = [process EXCEPT ![p] = r],
         r.step \in {"down", "off", "failed"},
         r.step # "down" => r.todo = {} /\ r.at = 1,
         NEW m \in 0..Len(list), recorded' = 1..m, killed' \subseteq {"up", "down"},
         r.step = "down" => DownIs(list, m, p)',
         r.step # "down" => /\ "down" \notin killed' => UpTo(list, m) \subseteq made'
                            /\ killed' = {} => made' = UpTo(list, m)
  PROVE  SchemaIs(list, m)'
<1>1. /\ process' \in [Processes -> ProcessRecord] /\ process'[p] = r
      /\ \A q \in Processes : q # p => process'[q] = process[q]
  BY ProcessMoves DEF SchemaBase
<1>2. \A q \in Processes : q # p => process'[q].step \in {"off", "failed"}
  BY <1>1
<1>3. SchemaBase(list, m)'
  <2>1. \A q \in Processes :
          process'[q].step \notin {"up", "down"} => process'[q].todo = {} /\ process'[q].at = 1
    BY <1>1 DEF SchemaBase
  <2>2. \A q \in Processes : process'[q].step # "serving"
    BY <1>1, <1>2
  <2>3. \A q, s \in Processes :
          (process'[q].step = "down" /\ s # q) => process'[s].step \in {"off", "failed"}
    BY <1>2
  <2>. QED
    BY <2>1, <2>2, <2>3, <1>1 DEF SchemaBase
<1>4. \A q \in Processes : process'[q].step # "up"
  BY <1>1, <1>2
<1>5. \A q \in Processes : ~Started(q)'
  BY <1>4 DEF Started
<1>6. ASSUME NEW q \in Processes, process'[q].step = "down"
      PROVE  DownIs(list, m, q)'
  <2>1. q = p /\ r.step = "down"
    BY <1>1, <1>2, <1>6
  <2>. QED
    BY <2>1
<1>7. NobodyDown' => RestIs(list, m)'
  <2>1. NobodyDown' => r.step # "down"
    BY <1>1 DEF NobodyDown
  <2>. QED
    BY <2>1, <1>5 DEF RestIs
<1>. QED
  BY <1>3, <1>4, <1>5, <1>6, <1>7 DEF SchemaIs

LEMMA ResetKeeps ==
  ASSUME NEW list, NEW n, Fits(list), Migrations = list, SchemaIs(list, n),
         NEW p \in Processes, Reset(p)
  PROVE  SchemaIs(list, n)'
<1>. DEFINE r == [step |-> "down", todo |-> 1..n, at |-> 1]
<1>1. SchemaBase(list, n)
  BY DEF SchemaIs
<1>2. /\ n \in 0..Len(list) /\ recorded = 1..n /\ killed \subseteq {"up", "down"}
      /\ process \in [Processes -> ProcessRecord]
  BY <1>1 DEF SchemaBase
<1>3. process' = [process EXCEPT ![p] = r] /\ UNCHANGED <<made, recorded, killed>>
  BY <1>2 DEF Reset, Goto
<1>4. r \in ProcessRecord /\ r.step = "down" /\ r.todo = 1..n /\ r.at = 1
  BY <1>2 DEF ProcessRecord
<1>. HIDE DEF r
<1>5. \A q \in Processes : process[q].step \in {"off", "failed"}
  BY DEF Reset
<1>6. process'[p] = r
  BY <1>2, <1>3, <1>4, ProcessMoves
<1>7. RestIs(list, n) /\ \A q \in Processes : ~Started(q)
  <2>1. NobodyDown /\ \A q \in Processes : ~Started(q)
    BY <1>5 DEF NobodyDown, Started
  <2>. QED
    BY <2>1 DEF SchemaIs
<1>8. DownIs(list, n, p)'
  <2>1. n > 0 => 1 \in 1..(Len(list[n].down) + 1)
    <3>. SUFFICES ASSUME n > 0
                  PROVE  1 \in 1..(Len(list[n].down) + 1)
      OBVIOUS
    <3>0. Len(list) \in Nat
      BY ListHasLength
    <3>1. n \in 1..Len(list)
      BY <1>2, <3>0
    <3>2. Len(list[n].down) \in Nat
      BY <3>1, MigrationIsTyped
    <3>. QED
      BY <3>2
  <2>2. "down" \notin killed => UpTo(list, n) \subseteq made
    BY <1>7 DEF RestIs
  <2>3. killed = {} => made = UpTo(list, n)
    BY <1>7 DEF RestIs
  <2>4. 1..(1 - 1) = {}
    OBVIOUS
  <2>. QED
    BY <2>1, <2>2, <2>3, <2>4, <1>3, <1>4, <1>6 DEF DownIs
<1>. QED
  BY <1>1, <1>2, <1>3, <1>4, <1>5, <1>8, ResetSteps

\* A process that resets and has something to do.
LEMMA BusyDown ==
  ASSUME NEW list, NEW n, Fits(list), Migrations = list, SchemaIs(list, n),
         NEW p \in Processes, process[p].step = "down"
  PROVE  /\ DownIs(list, n, p) /\ SchemaBase(list, n)
         /\ n \in Nat /\ n \in 0..Len(list) /\ recorded = 1..n /\ killed \subseteq {"up", "down"}
         /\ process \in [Processes -> ProcessRecord]
         /\ \A q \in Processes : q # p => process[q].step \in {"off", "failed"}
         /\ process[p].todo = {} => n = 0
         /\ process[p].todo # {} =>
              /\ n \in 1..Len(list) /\ n > 0
              /\ Current(p) = n /\ Statements(p) = list[n].down
              /\ Len(list[n].down) \in Nat
              /\ process[p].at \in 1..(Len(list[n].down) + 1)
<1>1. DownIs(list, n, p) /\ SchemaBase(list, n)
  BY DEF SchemaIs
<1>2. /\ n \in 0..Len(list) /\ recorded = 1..n /\ killed \subseteq {"up", "down"}
      /\ process \in [Processes -> ProcessRecord]
      /\ \A q \in Processes : q # p => process[q].step \in {"off", "failed"}
  BY <1>1 DEF SchemaBase
<1>3. Len(list) \in Nat
  BY ListHasLength
<1>4. n \in Nat
  BY <1>2, <1>3
<1>5. process[p].todo = 1..n
  BY <1>1 DEF DownIs
<1>6. process[p].todo = {} => n = 0
  <2>1. 1..n = {} => n = 0
    BY <1>4
  <2>. QED
    BY <2>1, <1>5
<1>7. ASSUME process[p].todo # {}
      PROVE  /\ n \in 1..Len(list) /\ n > 0
             /\ Current(p) = n /\ Statements(p) = list[n].down
             /\ Len(list[n].down) \in Nat
             /\ process[p].at \in 1..(Len(list[n].down) + 1)
  <2>1. n > 0
    <3>1. 1..n # {}
      BY <1>5, <1>7
    <3>. QED
      BY <3>1, <1>4
  <2>2. n \in 1..Len(list)
    BY <2>1, <1>2, <1>3, <1>4
  <2>3. Current(p) = n /\ Statements(p) = list[n].down
    BY <2>2, <1>3, <1>5, CurrentDown
  <2>4. Len(list[n].down) \in Nat
    BY <2>2, MigrationIsTyped
  <2>5. process[p].at \in 1..(Len(list[n].down) + 1)
    BY <2>1, <1>1 DEF DownIs
  <2>. QED
    BY <2>1, <2>2, <2>3, <2>4, <2>5
<1>. QED
  BY <1>1, <1>2, <1>4, <1>6, <1>7

\* A statement that takes back: it is possible, unless a reset was interrupted.
LEMMA StatementDownKeeps ==
  ASSUME NEW list, NEW n, Fits(list), Migrations = list, SchemaIs(list, n),
         NEW p \in Processes, process[p].step = "down", Statement(p)
  PROVE  SchemaIs(list, n)'
<1>1. /\ DownIs(list, n, p) /\ SchemaBase(list, n)
      /\ n \in 0..Len(list) /\ recorded = 1..n /\ killed \subseteq {"up", "down"}
      /\ process \in [Processes -> ProcessRecord]
      /\ \A q \in Processes : q # p => process[q].step \in {"off", "failed"}
  BY BusyDown
<1>2. process[p].todo # {}
  BY DEF Statement, Busy
<1>3. /\ n \in 1..Len(list) /\ n > 0
      /\ Current(p) = n /\ Statements(p) = list[n].down
      /\ Len(list[n].down) \in Nat
  BY <1>2, BusyDown
<1>4. PICK i \in 1..Len(list[n].down) : i = process[p].at
  <2>1. process[p].at \in 1..(Len(list[n].down) + 1)
    BY <1>2, BusyDown
  <2>. QED
    BY <2>1, <1>3 DEF Statement
<1>5. UNCHANGED <<database, recorded, killed>>
  BY DEF Statement
<1>6. i \in Nat \ {0} /\ (i + 1) - 1 = i
  BY <1>3
<1>7. CASE ~Possible(list[n].down[i], made)
  <2>. DEFINE r == [step |-> "failed", todo |-> {}, at |-> 1]
  <2>1. process' = [process EXCEPT ![p] = r]
    BY <1>3, <1>4, <1>7 DEF Statement, Goto
  <2>2. "down" \in killed
    <3>. SUFFICES ASSUME "down" \notin killed
                  PROVE  FALSE
      OBVIOUS
    <3>1. /\ list[n].down[i].does \in {"drop", "remove"}
          /\ \E x \in Added(list, n) : /\ Takes(list[n].down[i], x)
                                      /\ \A j \in 1..(i - 1) : ~Takes(list[n].down[j], x)
      BY <1>3, MigrationFits
    <3>2. PICK x \in Added(list, n) : /\ Takes(list[n].down[i], x)
                                      /\ \A j \in 1..(i - 1) : ~Takes(list[n].down[j], x)
      BY <3>1
    <3>3. x \in UpTo(list, n)
      <4>1. n \in Nat
        BY <1>3, MigrationIsTyped
      <4>. QED
        BY <4>1, <1>3, OneMoreMigration
    <3>4. x \in made
      BY <3>2, <3>3, <1>1, <1>4 DEF DownIs
    <3>. QED
      BY <3>1, <3>2, <3>4, <1>7, TakesWhatIsThere
  <2>3. r \in ProcessRecord /\ r.step = "failed" /\ r.todo = {} /\ r.at = 1
    BY DEF ProcessRecord
  <2>. HIDE DEF r
  <2>4. recorded' = 1..n /\ killed' \subseteq {"up", "down"} /\ "down" \in killed' /\ killed' # {}
    BY <1>1, <1>5, <2>2
  <2>. QED
    BY <1>1, <2>1, <2>3, <2>4, ResetSteps
<1>8. CASE Possible(list[n].down[i], made)
  <2>. DEFINE r == [process[p] EXCEPT !.at = @ + 1]
  <2>1. made' = Outcome(list[n].down[i], made) /\ process' = [process EXCEPT ![p] = r]
    BY <1>3, <1>4, <1>8 DEF Statement
  <2>2. made' = {x \in made : ~Takes(list[n].down[i], x)}
    <3>1. list[n].down[i].does \in {"drop", "remove"}
      BY <1>3, MigrationFits
    <3>. QED
      BY <2>1, <3>1, DownTakes
  <2>3. r \in ProcessRecord /\ r.step = "down" /\ r.todo = process[p].todo /\ r.at = i + 1
    BY <1>1, <1>4, <1>6 DEF ProcessRecord
  <2>. HIDE DEF r
  <2>4. process'[p] = r
    BY <1>1, <2>1, <2>3, ProcessMoves
  <2>5. DownIs(list, n, p)'
    <3>1. process'[p].todo = 1..n /\ process'[p].at = i + 1
      BY <1>1, <2>3, <2>4 DEF DownIs
    <3>2. process'[p].at \in 1..(Len(list[n].down) + 1)
      BY <3>1, <1>3, <1>6
    <3>3. process'[p].at - 1 = i
      BY <3>1, <1>6
    <3>4. "down" \notin killed' =>
            \A x \in UpTo(list, n) : x \in made' \/ \E j \in 1..i : Takes(list[n].down[j], x)
      <4>. SUFFICES ASSUME "down" \notin killed', NEW x \in UpTo(list, n), x \notin made'
                    PROVE  \E j \in 1..i : Takes(list[n].down[j], x)
        OBVIOUS
      <4>1. i \in 1..i /\ 1..(i - 1) \subseteq 1..i
        BY <1>6
      <4>2. x \in made \/ \E j \in 1..(i - 1) : Takes(list[n].down[j], x)
        BY <1>1, <1>4, <1>5 DEF DownIs
      <4>3. x \in made => Takes(list[n].down[i], x)
        BY <2>2
      <4>. QED
        BY <4>1, <4>2, <4>3
    <3>5. killed' = {} =>
            \A x \in made' :
              /\ \E y \in UpTo(list, n) : y[1] = x[1]
              /\ \A j \in 1..i : ~(list[n].down[j].does = "drop" /\ list[n].down[j].on = x[1])
      <4>. SUFFICES ASSUME killed' = {}, NEW x \in made'
                    PROVE  /\ \E y \in UpTo(list, n) : y[1] = x[1]
                           /\ \A j \in 1..i :
                                ~(list[n].down[j].does = "drop" /\ list[n].down[j].on = x[1])
        OBVIOUS
      <4>1. x \in made /\ ~Takes(list[n].down[i], x)
        BY <2>2
      <4>2. /\ \E y \in UpTo(list, n) : y[1] = x[1]
            /\ \A j \in 1..(i - 1) :
                 ~(list[n].down[j].does = "drop" /\ list[n].down[j].on = x[1])
        BY <4>1, <1>1, <1>4, <1>5 DEF DownIs
      <4>3. ~(list[n].down[i].does = "drop" /\ list[n].down[i].on = x[1])
        BY <4>1 DEF Takes
      <4>4. \A j \in 1..i : j = i \/ j \in 1..(i - 1)
        BY <1>6
      <4>. QED
        BY <4>2, <4>3, <4>4
    <3>6. n # 0
      BY <1>3
    <3>. QED
      BY <3>1, <3>2, <3>3, <3>4, <3>5, <3>6 DEF DownIs
  <2>6. recorded' = 1..n /\ killed' \subseteq {"up", "down"}
    BY <1>1, <1>5
  <2>. QED
    BY <1>1, <2>1, <2>3, <2>5, <2>6, ResetSteps
<1>. QED
  BY <1>7, <1>8

\* The record of a migration is deleted: all it made is gone, and nothing else.
LEMMA RecordDownKeeps ==
  ASSUME NEW list, NEW n, Fits(list), Migrations = list, SchemaIs(list, n),
         NEW p \in Processes, process[p].step = "down", Record(p)
  PROVE  \E m \in 0..Len(list) : SchemaIs(list, m)'
<1>. DEFINE r == [step |-> "down", todo |-> 1..(n - 1), at |-> 1]
<1>1. /\ DownIs(list, n, p) /\ SchemaBase(list, n)
      /\ n \in 0..Len(list) /\ recorded = 1..n /\ killed \subseteq {"up", "down"}
      /\ process \in [Processes -> ProcessRecord]
      /\ \A q \in Processes : q # p => process[q].step \in {"off", "failed"}
  BY BusyDown
<1>2. process[p].todo # {}
  BY DEF Record, Busy
<1>3. /\ n \in 1..Len(list) /\ n > 0
      /\ Current(p) = n /\ Statements(p) = list[n].down
      /\ Len(list[n].down) \in Nat
  BY <1>2, BusyDown
<1>4. process[p].at = Len(list[n].down) + 1
  <2>1. process[p].at \in 1..(Len(list[n].down) + 1)
    BY <1>2, BusyDown
  <2>2. process[p].at > Len(list[n].down)
    BY <1>3 DEF Record
  <2>. QED
    BY <2>1, <2>2, <1>3
<1>5. n \in Nat /\ Len(list) \in Nat /\ n - 1 \in Nat
  BY <1>3, MigrationIsTyped
<1>6. UNCHANGED <<database, made, killed>>
  BY DEF Record
<1>7. process' = [process EXCEPT ![p] = r] /\ recorded' = 1..(n - 1)
  <2>1. Goto(p, "down", process[p].todo \ {n}) /\ recorded' = recorded \ {n}
    BY <1>3 DEF Record
  <2>2. 1..n \ {n} = 1..(n - 1)
    BY <1>5
  <2>3. process[p].todo = 1..n
    BY <1>1 DEF DownIs
  <2>. QED
    BY <2>1, <2>2, <2>3, <1>1 DEF Goto
<1>8. r \in ProcessRecord /\ r.step = "down" /\ r.todo = 1..(n - 1) /\ r.at = 1
  BY <1>5 DEF ProcessRecord
<1>. HIDE DEF r
<1>9. process'[p] = r
  BY <1>1, <1>7, <1>8, ProcessMoves
<1>10. UpTo(list, n) = UpTo(list, n - 1) \cup Added(list, n)
  BY <1>3, <1>5, OneMoreMigration
<1>11. process[p].at - 1 = Len(list[n].down)
  BY <1>3, <1>4
<1>12. DownIs(list, n - 1, p)'
  <2>1. n - 1 > 0 => 1 \in 1..(Len(list[n - 1].down) + 1)
    <3>. SUFFICES ASSUME n - 1 > 0
                  PROVE  1 \in 1..(Len(list[n - 1].down) + 1)
      OBVIOUS
    <3>1. n - 1 \in 1..Len(list)
      BY <1>3, <1>5
    <3>2. Len(list[n - 1].down) \in Nat
      BY <3>1, MigrationIsTyped
    <3>. QED
      BY <3>2
  <2>2. "down" \notin killed => UpTo(list, n - 1) \subseteq made
    <3>. SUFFICES ASSUME "down" \notin killed, NEW x \in UpTo(list, n - 1)
                  PROVE  x \in made
      OBVIOUS
    <3>1. x \in made \/ \E j \in 1..Len(list[n].down) : Takes(list[n].down[j], x)
      BY <1>1, <1>10, <1>11 DEF DownIs
    <3>2. \A j \in 1..Len(list[n].down) : ~Takes(list[n].down[j], x)
      BY <1>3, MigrationFits
    <3>. QED
      BY <3>1, <3>2
  <2>3. killed = {} => \A x \in made : \E y \in UpTo(list, n - 1) : y[1] = x[1]
    <3>. SUFFICES ASSUME killed = {}, NEW x \in made
                  PROVE  \E y \in UpTo(list, n - 1) : y[1] = x[1]
      OBVIOUS
    <3>1. /\ \E y \in UpTo(list, n) : y[1] = x[1]
          /\ \A j \in 1..Len(list[n].down) :
               ~(list[n].down[j].does = "drop" /\ list[n].down[j].on = x[1])
      BY <1>1, <1>11 DEF DownIs
    <3>2. PICK y \in UpTo(list, n) : y[1] = x[1]
      BY <3>1
    <3>3. CASE y \in Added(list, n)
      <4>1. \/ \E z \in UpTo(list, n - 1) : z[1] = y[1]
            \/ \E j \in 1..Len(list[n].down) : /\ list[n].down[j].does = "drop"
                                              /\ list[n].down[j].on = y[1]
        BY <3>3, <1>3, MigrationFits
      <4>. QED
        BY <4>1, <3>1, <3>2
    <3>. QED
      BY <3>2, <3>3, <1>10
  <2>4. 1..(1 - 1) = {}
    OBVIOUS
  <2>. QED
    BY <2>1, <2>2, <2>3, <2>4, <1>6, <1>8, <1>9 DEF DownIs
<1>13. n - 1 \in 0..Len(list)
  BY <1>3, <1>5
<1>14. killed' \subseteq {"up", "down"}
  BY <1>1, <1>6
<1>15. SchemaIs(list, n - 1)'
  BY <1>1, <1>7, <1>8, <1>12, <1>13, <1>14, ResetSteps
<1>. QED
  BY <1>13, <1>15

\* A reset ends with an empty database.
LEMMA ResetDoneKeeps ==
  ASSUME NEW list, NEW n, Fits(list), Migrations = list, SchemaIs(list, n),
         NEW p \in Processes, ResetDone(p)
  PROVE  SchemaIs(list, n)'
<1>. DEFINE r == [step |-> "off", todo |-> {}, at |-> 1]
<1>1. /\ DownIs(list, n, p) /\ SchemaBase(list, n) /\ n = 0
      /\ n \in 0..Len(list) /\ recorded = 1..n /\ killed \subseteq {"up", "down"}
      /\ process \in [Processes -> ProcessRecord]
      /\ \A q \in Processes : q # p => process[q].step \in {"off", "failed"}
  BY BusyDown DEF ResetDone
<1>2. process' = [process EXCEPT ![p] = r] /\ UNCHANGED <<made, recorded, killed>>
  BY DEF ResetDone, Goto
<1>3. r \in ProcessRecord /\ r.step = "off" /\ r.todo = {} /\ r.at = 1
  BY DEF ProcessRecord
<1>. HIDE DEF r
<1>4. UpTo(list, n) = {}
  BY <1>1, NothingAdded
<1>5. killed = {} => made = UpTo(list, n)
  BY <1>1, <1>4 DEF DownIs
<1>6. /\ "down" \notin killed' => UpTo(list, n) \subseteq made'
      /\ killed' = {} => made' = UpTo(list, n)
  BY <1>2, <1>4, <1>5
<1>7. recorded' = 1..n /\ killed' \subseteq {"up", "down"}
  BY <1>1, <1>2
<1>. QED
  BY <1>1, <1>2, <1>3, <1>6, <1>7, ResetSteps

\* A process that is killed leaves what it has made or taken away.
LEMMA KillKeeps ==
  ASSUME NEW list, NEW n, Fits(list), Migrations = list, SchemaIs(list, n),
         NEW p \in Processes, Kill(p)
  PROVE  SchemaIs(list, n)'
<1>. DEFINE r == [step |-> "off", todo |-> {}, at |-> 1]
<1>1. SchemaBase(list, n)
  BY DEF SchemaIs
<1>2. /\ n \in 0..Len(list) /\ recorded = 1..n /\ killed \subseteq {"up", "down"}
      /\ process \in [Processes -> ProcessRecord]
  BY <1>1 DEF SchemaBase
<1>3. /\ process' = [process EXCEPT ![p] = r] /\ UNCHANGED <<made, recorded>>
      /\ killed' = killed \cup {process[p].step} /\ process[p].step \in {"up", "down"}
  BY DEF Kill, Goto, Busy
<1>4. r \in ProcessRecord /\ r.step = "off" /\ r.todo = {} /\ r.at = 1
  BY DEF ProcessRecord
<1>. HIDE DEF r
<1>5. recorded' = 1..n /\ killed' \subseteq {"up", "down"} /\ killed' # {}
  BY <1>2, <1>3
<1>6. CASE process[p].step = "down"
  <2>1. \A q \in Processes : q # p => process[q].step \in {"off", "failed"}
    BY <1>1, <1>6 DEF SchemaBase
  <2>2. "down" \in killed'
    BY <1>3, <1>6
  <2>. QED
    BY <1>1, <1>2, <1>3, <1>4, <1>5, <2>1, <2>2, ResetSteps
<1>7. CASE process[p].step = "up"
  <2>1. NobodyDown
    BY <1>1, <1>7 DEF SchemaBase, NobodyDown
  <2>2. /\ process' \in [Processes -> ProcessRecord] /\ process'[p] = r
        /\ \A q \in Processes : q # p => process'[q] = process[q]
    BY <1>2, <1>3, <1>4, ProcessMoves
  <2>3. SchemaBase(list, n)'
    BY <1>1, <1>4, <1>5, <2>2 DEF SchemaBase
  <2>4. NobodyDown'
    BY <1>4, <2>1, <2>2 DEF NobodyDown
  <2>5. "down" \notin killed' => "down" \notin killed
    BY <1>3
  <2>6. RestIs(list, n)'
    <3>1. RestIs(list, n)
      BY <2>1 DEF SchemaIs
    <3>. QED
      BY <3>1, <2>5, <1>3, <1>5 DEF RestIs
  <2>7. ASSUME NEW q \in Processes, process'[q].step = "up"
        PROVE  UpIs(list, n, q)'
    <3>1. q # p
      BY <2>2, <2>7, <1>4
    <3>2. process'[q] = process[q] /\ process[q].at \in Nat
      BY <1>2, <2>2, <3>1 DEF ProcessRecord
    <3>3. UpIs(list, n, q)
      BY <2>7, <3>2 DEF SchemaIs
    <3>4. n \in Nat /\ n >= n
      <4>1. Len(list) \in Nat
        BY ListHasLength
      <4>. QED
        BY <1>2, <4>1
    <3>5. "down" \notin killed' => ("down" \notin killed /\ made \subseteq made')
      BY <2>5, <1>3
    <3>6. killed' = {} => (killed = {} /\ (n = n \/ process[q].at <= 1))
      BY <1>5
    <3>. QED
      BY <3>2, <3>3, <3>4, <3>5, <3>6, UpStays
  <2>8. \A q \in Processes : process'[q].step = "down" => DownIs(list, n, q)'
    BY <2>4 DEF NobodyDown
  <2>. QED
    BY <2>3, <2>6, <2>7, <2>8, <1>5 DEF SchemaIs
<1>. QED
  BY <1>3, <1>6, <1>7

\* A schema by the tables it has and what each has.
HasTable(schema, t) == \E x \in schema : x[1] = t
Has(schema, t, c) == \E x \in schema : x[1] = t /\ x[2] = c
Join(a, b) == a \cup b
Gift(t, items) == {t} \X items

\* What a sequence of statements makes, and that it can run.
Made(statements) == Adds(FirstOf(statements, Len(statements)))

Runs(up, before) ==
  \A i \in 1..Len(up) :
    /\ up[i].does \in {"create", "add", "ensure"}
    /\ Possible(up[i], before \cup Adds(FirstOf(up, i - 1)))

LEMMA BothHave ==
  ASSUME NEW a, NEW b
  PROVE  /\ \A t : HasTable(Join(a, b), t) <=> HasTable(a, t) \/ HasTable(b, t)
         /\ \A t, c : Has(Join(a, b), t, c) <=> Has(a, t, c) \/ Has(b, t, c)
BY DEF HasTable, Has, Join

LEMMA GiftHas ==
  ASSUME NEW u, NEW items
  PROVE  /\ \A t : HasTable(Gift(u, items), t) <=> t = u /\ items # {}
         /\ \A t, c : Has(Gift(u, items), t, c) <=> t = u /\ c \in items
<1>1. \A x \in Gift(u, items) : x[1] = u /\ x[2] \in items
  BY DEF Gift
<1>2. \A i \in items :
        <<u, i>> \in Gift(u, items) /\ <<u, i>>[1] = u /\ <<u, i>>[2] = i
  BY DEF Gift
<1>. QED
  BY <1>1, <1>2 DEF HasTable, Has

LEMMA NothingHas ==
  \A t : ~HasTable({}, t) /\ \A c : ~Has({}, t, c)
BY DEF HasTable, Has

LEMMA PairIsOf ==
  ASSUME NEW u, NEW items, NEW x \in {u} \X items
  PROVE  x = <<u, x[2]>> /\ x[2] \in items
OBVIOUS

\* When a statement is possible.
LEMMA PossibleBy ==
  ASSUME NEW s, NEW schema
  PROVE  /\ (s.does = "create" /\ ~HasTable(schema, s.on)) => Possible(s, schema)
         /\ (s.does = "ensure" /\ HasTable(schema, s.on)) => Possible(s, schema)
         /\ (s.does = "add" /\ HasTable(schema, s.on)
               /\ \A c \in s.items : ~Has(schema, s.on, c)) => Possible(s, schema)
BY DEF HasTable, Has, Possible

\* One statement, and two sequences of statements one after the other.
LEMMA OneStatement ==
  ASSUME NEW s, NEW before, s.does \in {"create", "add", "ensure"}, Possible(s, before)
  PROVE  Runs(<<s>>, before) /\ Made(<<s>>) = Gives(s)
<1>1. Len(<<s>>) = 1 /\ <<s>>[1] = s /\ 1..1 = {1} /\ 1 - 1 = 0
  OBVIOUS
<1>2. FirstOf(<<s>>, 0) = {} /\ FirstOf(<<s>>, 1) = {s}
  BY <1>1 DEF FirstOf
<1>3. Adds({}) = {} /\ Adds({s}) = Gives(s)
  BY AddsIsOfEach
<1>. QED
  BY <1>1, <1>2, <1>3 DEF Runs, Made

IsList(statements) == \E S : statements \in Seq(S)

LEMMA OneAfterTheOther ==
  ASSUME NEW a, IsList(a), NEW b, IsList(b), NEW before,
         Runs(a, before), Runs(b, Join(before, Made(a)))
  PROVE  /\ IsList(a \o b) /\ Len(a \o b) = Len(a) + Len(b)
         /\ Len(a) > 0 => (a \o b)[1] = a[1]
         /\ Runs(a \o b, before) /\ Made(a \o b) = Join(Made(a), Made(b))
<1>0. PICK S : a \in Seq(S) /\ b \in Seq(S)
  <2>1. PICK A, B : a \in Seq(A) /\ b \in Seq(B)
    BY DEF IsList
  <2>2. a \in Seq(A \cup B) /\ b \in Seq(A \cup B)
    BY <2>1
  <2>. QED
    BY <2>2
<1>1. /\ Len(a) \in Nat /\ Len(b) \in Nat /\ Len(a \o b) = Len(a) + Len(b)
      /\ \A i \in 1..Len(a) : (a \o b)[i] = a[i]
      /\ \A i \in 1..Len(b) : (a \o b)[Len(a) + i] = b[i]
      /\ a \o b \in Seq(S)
  BY <1>0
<1>2. \A i \in 1..(Len(a) + Len(b)) :
        i \in 1..Len(a) \/ \E j \in 1..Len(b) : i = Len(a) + j
  <2>1. ASSUME NEW i \in 1..(Len(a) + Len(b)), i \notin 1..Len(a)
        PROVE  i - Len(a) \in 1..Len(b) /\ i = Len(a) + (i - Len(a))
    BY <1>1, <2>1
  <2>. QED
    BY <2>1
<1>3. ASSUME NEW i \in 0..Len(a)
      PROVE  FirstOf(a \o b, i) = FirstOf(a, i)
  <2>1. 1..i \subseteq 1..Len(a)
    BY <1>1
  <2>. QED
    BY <1>1, <2>1 DEF FirstOf
<1>4. ASSUME NEW j \in 0..Len(b)
      PROVE  FirstOf(a \o b, Len(a) + j) = FirstOf(a, Len(a)) \cup FirstOf(b, j)
  <2>1. 1..j \subseteq 1..Len(b) /\ 1..Len(a) \subseteq 1..(Len(a) + j)
    BY <1>1
  <2>2. \A i \in 1..j : Len(a) + i \in 1..(Len(a) + j)
    BY <1>1
  <2>3. \A i \in 1..(Len(a) + j) : i \in 1..Len(a) \/ \E k \in 1..j : i = Len(a) + k
    <3>1. ASSUME NEW i \in 1..(Len(a) + j), i \notin 1..Len(a)
          PROVE  i - Len(a) \in 1..j /\ i = Len(a) + (i - Len(a))
      BY <1>1, <3>1
    <3>. QED
      BY <3>1
  <2>4. FirstOf(a, Len(a)) \cup FirstOf(b, j) \subseteq FirstOf(a \o b, Len(a) + j)
    <3>1. \A i \in 1..Len(a) : a[i] \in FirstOf(a \o b, Len(a) + j)
      BY <1>1, <2>1 DEF FirstOf
    <3>2. \A i \in 1..j : b[i] \in FirstOf(a \o b, Len(a) + j)
      <4>1. \A i \in 1..j : (a \o b)[Len(a) + i] = b[i]
        BY <1>1, <2>1
      <4>2. \A k \in 1..(Len(a) + j) : (a \o b)[k] \in FirstOf(a \o b, Len(a) + j)
        BY DEF FirstOf
      <4>. QED
        BY <4>1, <4>2, <2>2
    <3>. QED
      BY <3>1, <3>2 DEF FirstOf
  <2>5. FirstOf(a \o b, Len(a) + j) \subseteq FirstOf(a, Len(a)) \cup FirstOf(b, j)
    <3>. SUFFICES ASSUME NEW i \in 1..(Len(a) + j)
                  PROVE  (a \o b)[i] \in FirstOf(a, Len(a)) \cup FirstOf(b, j)
      BY DEF FirstOf
    <3>1. CASE i \in 1..Len(a)
      BY <3>1, <1>1 DEF FirstOf
    <3>2. CASE \E k \in 1..j : i = Len(a) + k
      <4>1. PICK k \in 1..j : i = Len(a) + k
        BY <3>2
      <4>2. (a \o b)[Len(a) + k] = b[k]
        BY <1>1, <2>1
      <4>3. b[k] \in FirstOf(b, j)
        BY DEF FirstOf
      <4>. QED
        BY <4>1, <4>2, <4>3
    <3>. QED
      BY <2>3, <3>1, <3>2
  <2>. QED
    BY <2>4, <2>5
<1>5. \A j \in 0..Len(b) : Adds(FirstOf(a \o b, Len(a) + j)) = Made(a) \cup Adds(FirstOf(b, j))
  BY <1>4, AddsIsOfEach DEF Made
<1>6. Made(a \o b) = Made(a) \cup Made(b)
  <2>1. Len(b) \in 0..Len(b)
    BY <1>1
  <2>. QED
    BY <1>1, <1>5, <2>1 DEF Made
<1>7. ASSUME NEW i \in 1..Len(a)
      PROVE  /\ (a \o b)[i].does \in {"create", "add", "ensure"}
             /\ Possible((a \o b)[i], before \cup Adds(FirstOf(a \o b, i - 1)))
  <2>1. i - 1 \in 0..Len(a)
    BY <1>1
  <2>2. FirstOf(a \o b, i - 1) = FirstOf(a, i - 1) /\ (a \o b)[i] = a[i]
    BY <1>1, <1>3, <2>1
  <2>. QED
    BY <2>2 DEF Runs
<1>8. ASSUME NEW j \in 1..Len(b)
      PROVE  /\ (a \o b)[Len(a) + j].does \in {"create", "add", "ensure"}
             /\ Possible((a \o b)[Len(a) + j], before \cup Adds(FirstOf(a \o b, (Len(a) + j) - 1)))
  <2>1. j - 1 \in 0..Len(b) /\ (Len(a) + j) - 1 = Len(a) + (j - 1)
    BY <1>1
  <2>2. Adds(FirstOf(a \o b, Len(a) + (j - 1))) = Made(a) \cup Adds(FirstOf(b, j - 1))
    BY <1>5, <2>1
  <2>3. before \cup (Made(a) \cup Adds(FirstOf(b, j - 1)))
          = (before \cup Made(a)) \cup Adds(FirstOf(b, j - 1))
    OBVIOUS
  <2>4. /\ b[j].does \in {"create", "add", "ensure"}
        /\ Possible(b[j], (before \cup Made(a)) \cup Adds(FirstOf(b, j - 1)))
    BY DEF Runs, Join
  <2>5. (a \o b)[Len(a) + j] = b[j]
    BY <1>1
  <2>. QED
    BY <2>1, <2>2, <2>3, <2>4, <2>5
<1>9. Runs(a \o b, before)
  BY <1>1, <1>2, <1>7, <1>8 DEF Runs
<1>10. Len(a) > 0 => (a \o b)[1] = a[1]
  BY <1>1
<1>. QED
  BY <1>1, <1>6, <1>9, <1>10 DEF IsList, Join

\* New columns, one statement for each.
LEMMA ColumnsRun ==
  ASSUME NEW t, NEW columns, NEW before,
         DOMAIN columns = 1..Len(columns), Len(columns) \in Nat \ {0},
         \A i, j \in 1..Len(columns) : columns[i] = columns[j] => i = j,
         HasTable(before, t), \A i \in 1..Len(columns) : ~Has(before, t, columns[i])
  PROVE  /\ IsList(AddColumns(t, columns))
         /\ Len(AddColumns(t, columns)) = Len(columns)
         /\ AddColumns(t, columns)[1].does = "add" /\ AddColumns(t, columns)[1].items # {}
         /\ Runs(AddColumns(t, columns), before)
         /\ Made(AddColumns(t, columns)) = Gift(t, {columns[i] : i \in 1..Len(columns)})
<1>. DEFINE up == AddColumns(t, columns)
            s(i) == [does |-> "add", on |-> t, items |-> {columns[i]}]
<1>1. Len(columns) \in Nat /\ DOMAIN columns = 1..Len(columns) /\ 1 \in 1..Len(columns)
  OBVIOUS
<1>2. up = [i \in 1..Len(columns) |-> s(i)]
  BY <1>1 DEF AddColumns
<1>4. IsList(up) /\ Len(up) = Len(columns)
  <2>. HIDE DEF up, s
  <2>1. PICK S : S = {s(i) : i \in 1..Len(columns)}
    OBVIOUS
  <2>2. up \in [1..Len(columns) -> S]
    BY <1>2, <2>1
  <2>3. up \in Seq(S) /\ Len(up) = Len(columns)
    BY <1>1, <2>2
  <2>. QED
    BY <2>3 DEF IsList
<1>5. \A i \in 1..Len(columns) :
        up[i].does = "add" /\ up[i].on = t /\ up[i].items = {columns[i]}
  BY <1>2
<1>. HIDE DEF up, s
<1>6. ASSUME NEW k \in 0..Len(columns)
      PROVE  Adds(FirstOf(up, k)) = Gift(t, {columns[i] : i \in 1..k})
  <2>1. 1..k \subseteq 1..Len(columns)
    BY <1>1
  <2>2. \A i \in 1..k : Gives(up[i]) = {<<t, columns[i]>>}
    BY <1>5, <2>1 DEF Gives
  <2>3. ASSUME NEW x \in Adds(FirstOf(up, k))
        PROVE  x \in Gift(t, {columns[i] : i \in 1..k})
    <3>1. PICK i \in 1..k : x \in Gives(up[i])
      BY AddsIsOfEach DEF FirstOf
    <3>2. x = <<t, columns[i]>>
      BY <2>2, <3>1
    <3>. QED
      BY <3>2 DEF Gift
  <2>4. ASSUME NEW x \in Gift(t, {columns[i] : i \in 1..k})
        PROVE  x \in Adds(FirstOf(up, k))
    <3>1. x = <<t, x[2]>> /\ x[2] \in {columns[i] : i \in 1..k}
      BY PairIsOf DEF Gift
    <3>2. PICK i \in 1..k : x[2] = columns[i]
      BY <3>1
    <3>3. x = <<t, columns[i]>>
      BY <3>1, <3>2
    <3>4. x \in Gives(up[i]) /\ up[i] \in FirstOf(up, k)
      BY <2>2, <3>3 DEF FirstOf
    <3>. QED
      BY <3>4, AddsIsOfEach
  <2>. QED
    BY <2>3, <2>4
<1>7. ASSUME NEW i \in 1..Len(columns)
      PROVE  Possible(up[i], before \cup Adds(FirstOf(up, i - 1)))
  <2>. DEFINE some == {columns[j] : j \in 1..(i - 1)}
              schema == Join(before, Gift(t, some))
  <2>1. i - 1 \in 0..Len(columns) /\ 1..(i - 1) \subseteq 1..Len(columns)
        /\ \A j \in 1..(i - 1) : j # i
    BY <1>1
  <2>2. schema = before \cup Adds(FirstOf(up, i - 1))
    BY <1>6, <2>1 DEF Join
  <2>3. columns[i] \notin some
    BY <2>1
  <2>. HIDE DEF some
  <2>4. HasTable(schema, t) /\ ~Has(schema, t, columns[i])
    <3>1. ~Has(Gift(t, some), t, columns[i])
      <4>1. PICK c : c = columns[i]
        OBVIOUS
      <4>2. c \notin some
        BY <2>3, <4>1
      <4>3. ~Has(Gift(t, some), t, c)
        BY <4>2, GiftHas
      <4>. QED
        BY <4>1, <4>3
    <3>2. ~Has(before, t, columns[i]) /\ HasTable(before, t)
      OBVIOUS
    <3>. QED
      BY <3>1, <3>2, BothHave
  <2>. HIDE DEF schema
  <2>5. Possible(up[i], schema)
    BY <2>4, <1>5, PossibleBy
  <2>. QED
    BY <2>2, <2>5
<1>8. Made(up) = Gift(t, {columns[i] : i \in 1..Len(columns)})
  <2>1. Len(columns) \in 0..Len(columns)
    BY <1>1
  <2>. QED
    BY <1>4, <1>6, <2>1 DEF Made
<1>. QED
  BY <1>1, <1>4, <1>5, <1>7, <1>8 DEF Runs, up

\* The tables that a migration makes are dropped when it is taken back.
LEMMA DropsFit ==
  ASSUME NEW m, NEW before, Len(m.up) \in Nat \ {0}, Len(m.down) \in Nat,
         m.up[1].does # "ensure", m.up[1].items # {}, Runs(m.up, before),
         \A i \in 1..Len(m.down) :
           /\ m.down[i].does = "drop"
           /\ ~HasTable(before, m.down[i].on) /\ HasTable(Made(m.up), m.down[i].on)
           /\ \A j \in 1..Len(m.down) : m.down[i].on = m.down[j].on => i = j,
         \A t : HasTable(Made(m.up), t) =>
                  \/ HasTable(before, t)
                  \/ \E i \in 1..Len(m.down) : m.down[i].on = t
  PROVE  FitsAfter(m, before)
<1>1. ASSUME NEW i \in 1..Len(m.down)
      PROVE  /\ m.down[i].does \in {"drop", "remove"}
             /\ \A x \in before : ~Takes(m.down[i], x)
             /\ \E x \in Made(m.up) :
                  Takes(m.down[i], x) /\ \A j \in 1..(i - 1) : ~Takes(m.down[j], x)
  <2>1. \A x \in before : ~Takes(m.down[i], x)
    BY DEF Takes, HasTable
  <2>2. PICK x \in Made(m.up) : x[1] = m.down[i].on
    BY DEF HasTable
  <2>3. Takes(m.down[i], x)
    BY <2>2 DEF Takes
  <2>4. ASSUME NEW j \in 1..(i - 1)
        PROVE  ~Takes(m.down[j], x)
    <3>1. j \in 1..Len(m.down) /\ j # i
      OBVIOUS
    <3>. QED
      BY <3>1, <2>2 DEF Takes
  <2>. QED
    BY <2>1, <2>3, <2>4
<1>2. ASSUME NEW x \in Made(m.up)
      PROVE  \/ \E y \in before : y[1] = x[1]
             \/ \E i \in 1..Len(m.down) : m.down[i].does = "drop" /\ m.down[i].on = x[1]
  <2>1. HasTable(Made(m.up), x[1])
    BY DEF HasTable
  <2>2. HasTable(before, x[1]) => \E y \in before : y[1] = x[1]
    BY DEF HasTable
  <2>. QED
    BY <2>1, <2>2
<1>. QED
  BY <1>1, <1>2 DEF FitsAfter, Made, Runs

LEMMA TwoStatements ==
  ASSUME NEW a, NEW b, NEW before,
         a.does \in {"create", "add", "ensure"}, Possible(a, before),
         b.does \in {"create", "add", "ensure"}, Possible(b, Join(before, Gives(a)))
  PROVE  /\ IsList(<<a, b>>) /\ Len(<<a, b>>) = 2 /\ <<a, b>>[1] = a
         /\ Runs(<<a, b>>, before) /\ Made(<<a, b>>) = Join(Gives(a), Gives(b))
<1>. DEFINE up == <<a, b>>
<1>1. up \in Seq({a, b}) /\ Len(up) = 2 /\ up[1] = a /\ up[2] = b
  OBVIOUS
<1>. HIDE DEF up
<1>2. 1..2 = {1, 2} /\ 1..1 = {1} /\ 1..0 = {} /\ 1 - 1 = 0 /\ 2 - 1 = 1
  OBVIOUS
<1>3. FirstOf(up, 0) = {} /\ FirstOf(up, 1) = {a} /\ FirstOf(up, 2) = {a, b}
  BY <1>1, <1>2 DEF FirstOf
<1>4. Adds({}) = {} /\ Adds({a}) = Gives(a) /\ Adds({a, b}) = Gives(a) \cup Gives(b)
  <2>1. Adds({}) = {} /\ Adds({a}) = Gives(a)
    BY AddsIsOfEach
  <2>2. Adds({a, b}) = Gives(a) \cup Gives(b)
    BY DEF Adds, Gives
  <2>. QED
    BY <2>1, <2>2
<1>5. before \cup {} = before
  OBVIOUS
<1>6. Runs(up, before)
  <2>1. /\ up[1].does \in {"create", "add", "ensure"}
        /\ Possible(up[1], before \cup Adds(FirstOf(up, 1 - 1)))
    <3>1. before \cup Adds(FirstOf(up, 1 - 1)) = before /\ up[1] = a
      BY <1>1, <1>2, <1>3, <1>4, <1>5
    <3>. QED
      BY <3>1
  <2>2. /\ up[2].does \in {"create", "add", "ensure"}
        /\ Possible(up[2], before \cup Adds(FirstOf(up, 2 - 1)))
    BY <1>1, <1>2, <1>3, <1>4 DEF Join
  <2>. QED
    BY <2>1, <2>2, <1>1, <1>2 DEF Runs
<1>. QED
  BY <1>1, <1>3, <1>4, <1>6 DEF IsList, Made, Join, up

\* Tables that are created one after the other, and the triggers of a log.
LEMMA TableCreated ==
  ASSUME NEW t, NEW items, NEW before, ~HasTable(before, t)
  PROVE  /\ CreateTable(t, items).does = "create" /\ CreateTable(t, items).items = items
         /\ Possible(CreateTable(t, items), before)
         /\ Gives(CreateTable(t, items)) = Gift(t, items)
<1>1. PICK s : s = CreateTable(t, items)
  OBVIOUS
<1>2. s.does = "create" /\ s.on = t /\ s.items = items
  BY <1>1 DEF CreateTable
<1>3. Possible(s, before) /\ Gives(s) = Gift(t, items)
  BY <1>2, PossibleBy DEF Gives, Gift
<1>. QED
  BY <1>1, <1>2, <1>3

LEMMA OneTable ==
  ASSUME NEW t, NEW items, NEW before, ~HasTable(before, t)
  PROVE  LET up == <<CreateTable(t, items)>>
         IN /\ IsList(up) /\ Len(up) = 1 /\ up[1].does = "create" /\ up[1].items = items
            /\ Runs(up, before) /\ Made(up) = Gift(t, items)
<1>1. PICK s : s = CreateTable(t, items)
  OBVIOUS
<1>2. s.does = "create" /\ s.items = items /\ Possible(s, before) /\ Gives(s) = Gift(t, items)
  BY <1>1, TableCreated
<1>3. <<s>> \in Seq({s}) /\ Len(<<s>>) = 1 /\ <<s>>[1] = s
  OBVIOUS
<1>4. Runs(<<s>>, before) /\ Made(<<s>>) = Gives(s)
  BY <1>2, OneStatement
<1>. QED
  BY <1>1, <1>2, <1>3, <1>4 DEF IsList

LEMMA TwoTables ==
  ASSUME NEW t, NEW items, NEW u, NEW more, NEW before, t # u,
         ~HasTable(before, t), ~HasTable(before, u)
  PROVE  LET up == <<CreateTable(t, items), CreateTable(u, more)>>
         IN /\ IsList(up) /\ Len(up) = 2 /\ up[1].does = "create" /\ up[1].items = items
            /\ Runs(up, before) /\ Made(up) = Join(Gift(t, items), Gift(u, more))
<1>1. PICK a : a = CreateTable(t, items)
  OBVIOUS
<1>2. PICK b : b = CreateTable(u, more)
  OBVIOUS
<1>3. Possible(a, before) /\ Gives(a) = Gift(t, items)
  BY <1>1, TableCreated
<1>4. ~HasTable(Join(before, Gives(a)), u)
  BY <1>3, BothHave, GiftHas
<1>5. Possible(b, Join(before, Gives(a))) /\ Gives(b) = Gift(u, more)
  BY <1>2, <1>4, TableCreated
<1>6. a.does = "create" /\ a.items = items /\ b.does = "create"
  BY <1>1, <1>2 DEF CreateTable
<1>7. /\ IsList(<<a, b>>) /\ Len(<<a, b>>) = 2 /\ <<a, b>>[1] = a
      /\ Runs(<<a, b>>, before) /\ Made(<<a, b>>) = Join(Gives(a), Gives(b))
  BY <1>3, <1>5, <1>6, TwoStatements
<1>. QED
  BY <1>1, <1>2, <1>3, <1>5, <1>6, <1>7

LEMMA TriggersRun ==
  ASSUME NEW t, NEW before, HasTable(before, t)
  PROVE  /\ IsList(AppendOnly(t)) /\ Len(AppendOnly(t)) = 2
         /\ Runs(AppendOnly(t), before)
         /\ Made(AppendOnly(t)) = Gift(t, {"no_update", "no_delete"})
<1>1. PICK a : a = [does |-> "ensure", on |-> t, items |-> {"no_update"}]
  OBVIOUS
<1>2. PICK b : b = [does |-> "ensure", on |-> t, items |-> {"no_delete"}]
  OBVIOUS
<1>3. /\ a.does = "ensure" /\ a.on = t /\ Gives(a) = {t} \X {"no_update"}
      /\ b.does = "ensure" /\ b.on = t /\ Gives(b) = {t} \X {"no_delete"}
  BY <1>1, <1>2 DEF Gives
<1>4. HasTable(Join(before, Gives(a)), t)
  BY BothHave
<1>5. Possible(a, before) /\ Possible(b, Join(before, Gives(a)))
  BY <1>3, <1>4, PossibleBy
<1>6. /\ IsList(<<a, b>>) /\ Len(<<a, b>>) = 2
      /\ Runs(<<a, b>>, before) /\ Made(<<a, b>>) = Join(Gives(a), Gives(b))
  BY <1>3, <1>5, TwoStatements
<1>7. Join(Gives(a), Gives(b)) = Gift(t, {"no_update", "no_delete"})
  BY <1>3 DEF Join, Gift
<1>. QED
  BY <1>1, <1>2, <1>6, <1>7 DEF AppendOnly

\* Statements that can be begun only once, can run, and make something.
Stage(up, before, gift) ==
  /\ IsList(up) /\ Len(up) \in Nat \ {0} /\ up[1].does # "ensure" /\ up[1].items # {}
  /\ Runs(up, before) /\ Made(up) = gift

LEMMA TableStage ==
  ASSUME NEW t, NEW items, items # {}, NEW before, ~HasTable(before, t)
  PROVE  Stage(<<CreateTable(t, items)>>, before, Gift(t, items))
<1>1. PICK up : up = <<CreateTable(t, items)>>
  OBVIOUS
<1>2. /\ IsList(up) /\ Len(up) = 1 /\ up[1].does = "create" /\ up[1].items = items
      /\ Runs(up, before) /\ Made(up) = Gift(t, items)
  BY <1>1, OneTable
<1>. QED
  BY <1>1, <1>2 DEF Stage

LEMMA TwoTableStage ==
  ASSUME NEW t, NEW items, items # {}, NEW u, NEW more, NEW before, t # u,
         ~HasTable(before, t), ~HasTable(before, u)
  PROVE  Stage(<<CreateTable(t, items), CreateTable(u, more)>>, before,
               Join(Gift(t, items), Gift(u, more)))
<1>1. PICK up : up = <<CreateTable(t, items), CreateTable(u, more)>>
  OBVIOUS
<1>2. /\ IsList(up) /\ Len(up) = 2 /\ up[1].does = "create" /\ up[1].items = items
      /\ Runs(up, before) /\ Made(up) = Join(Gift(t, items), Gift(u, more))
  BY <1>1, TwoTables
<1>. QED
  BY <1>1, <1>2 DEF Stage

LEMMA ColumnStage ==
  ASSUME NEW t, NEW columns, NEW n \in Nat \ {0}, NEW items, NEW before,
         DOMAIN columns = 1..n, Len(columns) = n,
         \A i, j \in 1..n : columns[i] = columns[j] => i = j, items = {columns[i] : i \in 1..n},
         HasTable(before, t), \A c \in items : ~Has(before, t, c)
  PROVE  Stage(AddColumns(t, columns), before, Gift(t, items))
<1>1. \A i \in 1..Len(columns) : ~Has(before, t, columns[i])
  OBVIOUS
<1>2. PICK up : up = AddColumns(t, columns)
  OBVIOUS
<1>3. /\ IsList(up) /\ Len(up) = n /\ up[1].does = "add" /\ up[1].items # {}
      /\ Runs(up, before) /\ Made(up) = Gift(t, items)
  BY <1>1, <1>2, ColumnsRun
<1>. QED
  BY <1>2, <1>3 DEF Stage

LEMMA TwoAndOne ==
  ASSUME NEW x, NEW y, NEW z
  PROVE  <<x, y>> \o <<z>> = <<x, y, z>>
<1>1. PICK S : S = {x, y, z}
  OBVIOUS
<1>2. /\ <<x, y>> \in Seq(S) /\ <<z>> \in Seq(S) /\ <<x, y, z>> \in Seq(S)
      /\ <<x, y>> \o <<z>> \in Seq(S)
  BY <1>1
<1>3. PICK s : s = <<x, y>> \o <<z>>
  OBVIOUS
<1>4. /\ s \in Seq(S) /\ Len(s) = 3 /\ s[1] = x /\ s[2] = y /\ s[3] = z
  BY <1>2, <1>3
<1>5. s = [i \in 1..3 |-> s[i]] /\ <<x, y, z>> = [i \in 1..3 |-> <<x, y, z>>[i]]
  BY <1>2, <1>4
<1>6. \A i \in 1..3 : s[i] = <<x, y, z>>[i]
  BY <1>4
<1>. QED
  BY <1>3, <1>5, <1>6

LEMMA StageGoesOn ==
  ASSUME NEW a, NEW b, NEW before, NEW gift, NEW more, Stage(a, before, gift),
         IsList(b), Len(b) \in Nat, Runs(b, Join(before, gift)), Made(b) = more
  PROVE  Stage(a \o b, before, Join(gift, more))
<1>1. PICK up : up = a \o b
  OBVIOUS
<1>2. /\ IsList(a) /\ Len(a) \in Nat \ {0} /\ Runs(a, before) /\ Made(a) = gift
      /\ a[1].does # "ensure" /\ a[1].items # {}
  BY DEF Stage
<1>3. /\ IsList(up) /\ Len(up) = Len(a) + Len(b) /\ (Len(a) > 0 => up[1] = a[1])
      /\ Runs(up, before) /\ Made(up) = Join(gift, more)
  BY <1>1, <1>2, OneAfterTheOther
<1>4. up[1] = a[1] /\ Len(up) \in Nat \ {0}
  BY <1>2, <1>3
<1>. QED
  BY <1>1, <1>2, <1>3, <1>4 DEF Stage

LEMMA StageWithTriggers ==
  ASSUME NEW a, NEW before, NEW gift, NEW t, Stage(a, before, gift), HasTable(gift, t)
  PROVE  Stage(a \o AppendOnly(t), before, Join(gift, Gift(t, {"no_update", "no_delete"})))
<1>1. PICK b : b = AppendOnly(t)
  OBVIOUS
<1>2. PICK more : more = Gift(t, {"no_update", "no_delete"})
  OBVIOUS
<1>3. HasTable(Join(before, gift), t)
  BY BothHave
<1>4. IsList(b) /\ Len(b) = 2 /\ Runs(b, Join(before, gift)) /\ Made(b) = more
  BY <1>1, <1>2, <1>3, TriggersRun
<1>5. Stage(a \o b, before, Join(gift, more))
  BY <1>4, StageGoesOn
<1>. QED
  BY <1>1, <1>2, <1>5

LEMMA StageAndStage ==
  ASSUME NEW a, NEW b, NEW before, NEW gift, NEW more, Stage(a, before, gift),
         Stage(b, Join(before, gift), more)
  PROVE  Stage(a \o b, before, Join(gift, more))
<1>1. IsList(b) /\ Len(b) \in Nat /\ Runs(b, Join(before, gift)) /\ Made(b) = more
  BY DEF Stage
<1>. QED
  BY <1>1, StageGoesOn

\* A migration that is not taken back but with its tables; one that drops its
\* tables.
LEMMA NotTakenBack ==
  ASSUME NEW m, NEW before, NEW gift, Stage(m.up, before, gift), m.down = <<>>,
         \A t : HasTable(gift, t) => HasTable(before, t)
  PROVE  FitsAfter(m, before) /\ Made(m.up) = gift
<1>1. Len(m.down) = 0
  OBVIOUS
<1>2. /\ Len(m.up) \in Nat \ {0} /\ m.up[1].does # "ensure" /\ m.up[1].items # {}
      /\ Runs(m.up, before) /\ Made(m.up) = gift
  BY DEF Stage
<1>. QED
  BY <1>1, <1>2, DropsFit

LEMMA WhatDrops ==
  \A t : DropTable(t).does = "drop" /\ DropTable(t).on = t
BY DEF DropTable

\* The k tables are all the tables that are new, and the migration drops each.
Undoes(m, before, gift, tables, k) ==
  /\ k \in Nat /\ Len(m.down) = k
  /\ \A i \in 1..k : m.down[i] = DropTable(tables[i])
  /\ \A i, j \in 1..k : tables[i] = tables[j] => i = j
  /\ \A i \in 1..k : ~HasTable(before, tables[i]) /\ HasTable(gift, tables[i])
  /\ \A t : HasTable(gift, t) => HasTable(before, t) \/ \E i \in 1..k : t = tables[i]

LEMMA DropsItsTables ==
  ASSUME NEW m, NEW before, NEW gift, NEW tables, NEW k,
         Stage(m.up, before, gift), Undoes(m, before, gift, tables, k)
  PROVE  FitsAfter(m, before) /\ Made(m.up) = gift
<1>1. \A i \in 1..k : m.down[i].does = "drop" /\ m.down[i].on = tables[i]
  BY WhatDrops DEF Undoes
<1>2. /\ Len(m.up) \in Nat \ {0} /\ m.up[1].does # "ensure" /\ m.up[1].items # {}
      /\ Runs(m.up, before) /\ Made(m.up) = gift
  BY DEF Stage
<1>3. \A i \in 1..Len(m.down) :
           /\ m.down[i].does = "drop"
           /\ ~HasTable(before, m.down[i].on) /\ HasTable(Made(m.up), m.down[i].on)
           /\ \A j \in 1..Len(m.down) : m.down[i].on = m.down[j].on => i = j
  BY <1>1, <1>2 DEF Undoes
<1>4. \A t : HasTable(Made(m.up), t) =>
               \/ HasTable(before, t)
               \/ \E i \in 1..Len(m.down) : m.down[i].on = t
  BY <1>1, <1>2 DEF Undoes
<1>. QED
  BY <1>2, <1>3, <1>4, DropsFit DEF Undoes

LEMMA DropsOne ==
  ASSUME NEW m, NEW before, NEW gift, Stage(m.up, before, gift), NEW t,
         m.down = <<DropTable(t)>>, ~HasTable(before, t), HasTable(gift, t),
         \A x : HasTable(gift, x) => HasTable(before, x) \/ x = t
  PROVE  FitsAfter(m, before) /\ Made(m.up) = gift
<1>1. PICK tables : tables = <<t>>
  OBVIOUS
<1>2. Len(m.down) = 1 /\ 1..1 = {1} /\ tables[1] = t /\ m.down[1] = DropTable(t)
  BY <1>1
<1>0. PICK k : k = 1
  OBVIOUS
<1>3. /\ \A i \in 1..k : m.down[i] = DropTable(tables[i])
      /\ \A i, j \in 1..k : tables[i] = tables[j] => i = j
      /\ \A i \in 1..k : ~HasTable(before, tables[i]) /\ HasTable(gift, tables[i])
  BY <1>0, <1>2
<1>4. \A x : HasTable(gift, x) => HasTable(before, x) \/ \E i \in 1..k : x = tables[i]
  BY <1>0, <1>2
<1>5. k \in Nat /\ Len(m.down) = k
  BY <1>0, <1>2
<1>6. Undoes(m, before, gift, tables, k)
  BY <1>3, <1>4, <1>5 DEF Undoes
<1>. QED
  BY <1>6, DropsItsTables

LEMMA DropsTwo ==
  ASSUME NEW m, NEW before, NEW gift, Stage(m.up, before, gift), NEW t, NEW u, t # u,
         m.down = <<DropTable(t), DropTable(u)>>,
         ~HasTable(before, t), HasTable(gift, t), ~HasTable(before, u), HasTable(gift, u),
         \A x : HasTable(gift, x) => HasTable(before, x) \/ x = t \/ x = u
  PROVE  FitsAfter(m, before) /\ Made(m.up) = gift
<1>1. PICK tables : tables = <<t, u>>
  OBVIOUS
<1>2. /\ Len(m.down) = 2 /\ 1..2 = {1, 2} /\ tables[1] = t /\ tables[2] = u
      /\ m.down[1] = DropTable(t) /\ m.down[2] = DropTable(u)
  BY <1>1
<1>0. PICK k : k = 2
  OBVIOUS
<1>3. /\ \A i \in 1..k : m.down[i] = DropTable(tables[i])
      /\ \A i, j \in 1..k : tables[i] = tables[j] => i = j
      /\ \A i \in 1..k : ~HasTable(before, tables[i]) /\ HasTable(gift, tables[i])
  BY <1>0, <1>2
<1>4. \A x : HasTable(gift, x) => HasTable(before, x) \/ \E i \in 1..k : x = tables[i]
  BY <1>0, <1>2
<1>5. k \in Nat /\ Len(m.down) = k
  BY <1>0, <1>2
<1>6. Undoes(m, before, gift, tables, k)
  BY <1>3, <1>4, <1>5 DEF Undoes
<1>. QED
  BY <1>6, DropsItsTables

LEMMA DropsThree ==
  ASSUME NEW m, NEW before, NEW gift, Stage(m.up, before, gift),
         NEW t, NEW u, NEW v, t # u, t # v, u # v,
         m.down = <<DropTable(t), DropTable(u), DropTable(v)>>,
         ~HasTable(before, t), HasTable(gift, t), ~HasTable(before, u), HasTable(gift, u),
         ~HasTable(before, v), HasTable(gift, v),
         \A x : HasTable(gift, x) => HasTable(before, x) \/ x = t \/ x = u \/ x = v
  PROVE  FitsAfter(m, before) /\ Made(m.up) = gift
<1>1. PICK tables : tables = <<t, u, v>>
  OBVIOUS
<1>2. /\ Len(m.down) = 3 /\ 1..3 = {1, 2, 3}
      /\ tables[1] = t /\ tables[2] = u /\ tables[3] = v
      /\ m.down[1] = DropTable(t) /\ m.down[2] = DropTable(u) /\ m.down[3] = DropTable(v)
  BY <1>1
<1>0. PICK k : k = 3
  OBVIOUS
<1>3. /\ \A i \in 1..k : m.down[i] = DropTable(tables[i])
      /\ \A i, j \in 1..k : tables[i] = tables[j] => i = j
      /\ \A i \in 1..k : ~HasTable(before, tables[i]) /\ HasTable(gift, tables[i])
  BY <1>0, <1>2
<1>4. \A x : HasTable(gift, x) => HasTable(before, x) \/ \E i \in 1..k : x = tables[i]
  BY <1>0, <1>2
<1>5. k \in Nat /\ Len(m.down) = k
  BY <1>0, <1>2
<1>6. Undoes(m, before, gift, tables, k)
  BY <1>3, <1>4, <1>5 DEF Undoes
<1>. QED
  BY <1>6, DropsItsTables

LEMMA ThreeTableStage ==
  ASSUME NEW t, NEW items, items # {}, NEW u, NEW more, NEW v, NEW most, NEW before,
         t # u, t # v, u # v, ~HasTable(before, t), ~HasTable(before, u), ~HasTable(before, v)
  PROVE  Stage(<<CreateTable(t, items), CreateTable(u, more), CreateTable(v, most)>>, before,
               Join(Join(Gift(t, items), Gift(u, more)), Gift(v, most)))
<1>1. PICK a : a = <<CreateTable(t, items), CreateTable(u, more)>>
  OBVIOUS
<1>2. PICK b : b = <<CreateTable(v, most)>>
  OBVIOUS
<1>3. Stage(a, before, Join(Gift(t, items), Gift(u, more)))
  BY <1>1, TwoTableStage
<1>4. ~HasTable(Join(before, Join(Gift(t, items), Gift(u, more))), v)
  BY BothHave, GiftHas
<1>5. /\ IsList(b) /\ Len(b) = 1 /\ Runs(b, Join(before, Join(Gift(t, items), Gift(u, more))))
      /\ Made(b) = Gift(v, most)
  BY <1>2, <1>4, OneTable
<1>6. Stage(a \o b, before, Join(Join(Gift(t, items), Gift(u, more)), Gift(v, most)))
  BY <1>3, <1>5, StageGoesOn
<1>7. a \o b = <<CreateTable(t, items), CreateTable(u, more), CreateTable(v, most)>>
  BY <1>1, <1>2, TwoAndOne
<1>. QED
  BY <1>6, <1>7

\* One thing more of a table, which the migration takes back.
LEMMA RemovesItem ==
  ASSUME NEW m, NEW before, NEW t, NEW c, Stage(m.up, before, Gift(t, {c})),
         m.down = <<DropItem(t, c)>>, HasTable(before, t), ~Has(before, t, c)
  PROVE  FitsAfter(m, before) /\ Made(m.up) = Gift(t, {c})
<1>1. /\ Len(m.up) \in Nat \ {0} /\ m.up[1].does # "ensure" /\ m.up[1].items # {}
      /\ Runs(m.up, before) /\ Made(m.up) = Gift(t, {c})
  BY DEF Stage
<1>2. PICK s : s = DropItem(t, c)
  OBVIOUS
<1>3. s.does = "remove" /\ s.on = t /\ s.items = {c}
  BY <1>2 DEF DropItem
<1>4. Len(m.down) = 1 /\ m.down[1] = s /\ 1..1 = {1} /\ 1..(1 - 1) = {}
  BY <1>2
<1>5. \A x \in before : ~Takes(s, x)
  BY <1>3 DEF Takes, Has
<1>6. \A x \in Made(m.up) : Takes(s, x) /\ x[1] = t
  BY <1>1, <1>3 DEF Takes, Gift
<1>7. \E x \in Made(m.up) : Takes(s, x)
  <2>1. <<t, c>> \in Made(m.up)
    BY <1>1 DEF Gift
  <2>. QED
    BY <1>6, <2>1
<1>8. \A x \in Made(m.up) : \E y \in before : y[1] = x[1]
  BY <1>6 DEF HasTable
<1>9. \A i \in 1..Len(m.down) :
        /\ m.down[i].does \in {"drop", "remove"}
        /\ \A x \in before : ~Takes(m.down[i], x)
        /\ \E x \in Made(m.up) : /\ Takes(m.down[i], x)
                                 /\ \A j \in 1..(i - 1) : ~Takes(m.down[j], x)
  BY <1>3, <1>4, <1>5, <1>7
<1>10. Len(m.down) \in Nat
  BY <1>4
<1>. QED
  BY <1>1, <1>8, <1>9, <1>10 DEF FitsAfter, Made, Runs

\* The migrations of the central proxy, each after what it needs.
AuditColumns ==
  {"id", "device_id", "user_subject", "model", "backend", "status", "latency_ms", "stream",
   "prompt_tokens", "completion_tokens", "total_tokens", "created_at"}
EnrichmentColumns ==
  {"identity_id", "email", "groups", "endpoint", "request_id", "permission_decision",
   "denial_reason", "cost_usd"}
PolicyColumns ==
  {"id", "group_name", "allowed_models", "allowed_endpoints", "daily_token_quota",
   "daily_request_quota", "created_at", "updated_at"}
SaverColumns == {"token_saver_applied", "tokens_saved", "messages_dropped", "saver_reasons"}
McpColumns == {"mcp_server", "mcp_tool", "mcp_method", "mcp_args_preview"}
TokenColumns ==
  {"id", "subject", "issuer", "email", "display_name", "groups", "identity_id", "label",
   "token_hash", "created_at", "expires_at", "last_used_at", "revoked"}
CounterColumns == UsageCounterModel \cup {UsageUpsertIndex}
Triggers == {"no_update", "no_delete"}

LEMMA CentralInitialFits ==
  /\ FitsAfter(CentralInitial, {})
  /\ Made(CentralInitial.up)
       = Join(Join(Gift("devices", DeviceModel), Gift("audit_log", AuditColumns)),
              Gift("audit_log", Triggers))
<1>. DEFINE m == CentralInitial
            tables == Join(Gift("devices", DeviceModel), Gift("audit_log", AuditColumns))
            gift == Join(tables, Gift("audit_log", Triggers))
<1>1. DeviceModel # {} /\ AuditColumns # {}
  BY DEF DeviceModel, AuditColumns
<1>2. m.up = <<CreateTable("devices", DeviceModel), CreateTable("audit_log", AuditColumns)>>
               \o AppendOnly("audit_log")
  BY DEF CentralInitial, DeviceModel, AuditColumns
<1>3. m.down = <<DropTable("audit_log"), DropTable("devices")>>
  BY DEF CentralInitial
<1>. HIDE DEF m
<1>4. Stage(<<CreateTable("devices", DeviceModel), CreateTable("audit_log", AuditColumns)>>,
            {}, tables)
  BY <1>1, NothingHas, TwoTableStage
<1>5. HasTable(tables, "audit_log") /\ HasTable(tables, "devices")
  BY <1>1, BothHave, GiftHas
<1>6. \A t : HasTable(tables, t) => t = "audit_log" \/ t = "devices"
  BY BothHave, GiftHas
<1>. HIDE DEF tables
<1>7. Stage(m.up, {}, gift)
  BY <1>2, <1>4, <1>5, StageWithTriggers DEF Triggers
<1>8. /\ HasTable(gift, "audit_log") /\ HasTable(gift, "devices")
      /\ \A t : HasTable(gift, t) => t = "audit_log" \/ t = "devices"
  BY <1>5, <1>6, BothHave, GiftHas
<1>. HIDE DEF gift
<1>9. FitsAfter(m, {}) /\ Made(m.up) = gift
  BY <1>3, <1>7, <1>8, NothingHas, DropsTwo
<1>. QED
  BY <1>9 DEF m, gift, tables

LEMMA AuditEnrichmentFits ==
  ASSUME NEW before, HasTable(before, "audit_log"),
         \A c \in EnrichmentColumns : ~Has(before, "audit_log", c)
  PROVE  /\ FitsAfter(Migration0002AuditEnrichment, before)
         /\ Made(Migration0002AuditEnrichment.up) = Gift("audit_log", EnrichmentColumns)
<1>. DEFINE columns == <<"identity_id", "email", "groups", "endpoint", "request_id",
                         "permission_decision", "denial_reason", "cost_usd">>
            m == Migration0002AuditEnrichment
<1>1. /\ DOMAIN columns = 1..8 /\ Len(columns) = 8
      /\ \A i, j \in 1..8 : columns[i] = columns[j] => i = j
  OBVIOUS
<1>2. {columns[i] : i \in 1..8} = EnrichmentColumns
  BY DEF EnrichmentColumns
<1>3. m.up = AddColumns("audit_log", columns) /\ m.down = <<>>
  BY DEF Migration0002AuditEnrichment
<1>. HIDE DEF columns, m
<1>4. Stage(m.up, before, Gift("audit_log", EnrichmentColumns))
  <2>1. 8 \in Nat \ {0}
    OBVIOUS
  <2>2. Stage(AddColumns("audit_log", columns), before, Gift("audit_log", EnrichmentColumns))
    BY Zenon, <2>1, <1>1, <1>2, ColumnStage
  <2>. QED
    BY <2>2, <1>3
<1>5. \A t : HasTable(Gift("audit_log", EnrichmentColumns), t) => HasTable(before, t)
  BY GiftHas
<1>. QED
  BY <1>3, <1>4, <1>5, NotTakenBack DEF m

LEMMA OneColumnStage ==
  ASSUME NEW t, NEW c, NEW before, HasTable(before, t), ~Has(before, t, c)
  PROVE  Stage(AddColumns(t, <<c>>), before, Gift(t, {c}))
<1>1. PICK columns : columns = <<c>>
  OBVIOUS
<1>2. PICK n : n = 1
  OBVIOUS
<1>3. DOMAIN columns = 1..n /\ Len(columns) = n /\ n \in Nat \ {0}
  BY <1>1, <1>2
<1>4. 1..n = {1} /\ columns[1] = c
  BY <1>1, <1>2
<1>5. \A i, j \in 1..n : columns[i] = columns[j] => i = j
  BY <1>4
<1>6. PICK items : items = {c}
  OBVIOUS
<1>7. items = {columns[i] : i \in 1..n} /\ \A x \in items : ~Has(before, t, x)
  BY <1>4, <1>6
<1>8. Stage(AddColumns(t, columns), before, Gift(t, items))
  BY <1>3, <1>5, <1>7, ColumnStage
<1>. QED
  BY <1>1, <1>6, <1>8

LEMMA OneColumnFits ==
  ASSUME NEW m, NEW t, NEW c, NEW before, HasTable(before, t), ~Has(before, t, c),
         m.up = AddColumns(t, <<c>>), m.down = <<>>
  PROVE  FitsAfter(m, before) /\ Made(m.up) = Gift(t, {c})
<1>1. Stage(m.up, before, Gift(t, {c}))
  BY OneColumnStage
<1>2. \A x : HasTable(Gift(t, {c}), x) => HasTable(before, x)
  BY GiftHas
<1>. QED
  BY <1>1, <1>2, NotTakenBack

\* A few columns at once.
LEMMA TwoColumnStage ==
  ASSUME NEW t, NEW c, NEW d, c # d, NEW before, HasTable(before, t),
         ~Has(before, t, c), ~Has(before, t, d)
  PROVE  Stage(AddColumns(t, <<c, d>>), before, Gift(t, {c, d}))
<1>1. PICK columns : columns = <<c, d>>
  OBVIOUS
<1>2. PICK n : n = 2
  OBVIOUS
<1>3. DOMAIN columns = 1..n /\ Len(columns) = n /\ n \in Nat \ {0}
  BY <1>1, <1>2
<1>4. 1..n = {1, 2} /\ columns[1] = c /\ columns[2] = d
  BY <1>1, <1>2
<1>5. \A i, j \in 1..n : columns[i] = columns[j] => i = j
  BY <1>4
<1>6. PICK items : items = {c, d}
  OBVIOUS
<1>7. items = {columns[i] : i \in 1..n} /\ \A x \in items : ~Has(before, t, x)
  BY <1>4, <1>6
<1>8. Stage(AddColumns(t, columns), before, Gift(t, items))
  BY <1>3, <1>5, <1>7, ColumnStage
<1>. QED
  BY <1>1, <1>6, <1>8

LEMMA ThreeColumnStage ==
  ASSUME NEW t, NEW c, NEW d, NEW e, c # d, c # e, d # e, NEW before, HasTable(before, t),
         ~Has(before, t, c), ~Has(before, t, d), ~Has(before, t, e)
  PROVE  Stage(AddColumns(t, <<c, d, e>>), before, Gift(t, {c, d, e}))
<1>1. PICK columns : columns = <<c, d, e>>
  OBVIOUS
<1>2. PICK n : n = 3
  OBVIOUS
<1>3. DOMAIN columns = 1..n /\ Len(columns) = n /\ n \in Nat \ {0}
  BY <1>1, <1>2
<1>4. 1..n = {1, 2, 3} /\ columns[1] = c /\ columns[2] = d /\ columns[3] = e
  BY <1>1, <1>2
<1>5. \A i, j \in 1..n : columns[i] = columns[j] => i = j
  BY <1>4
<1>6. PICK items : items = {c, d, e}
  OBVIOUS
<1>7. items = {columns[i] : i \in 1..n} /\ \A x \in items : ~Has(before, t, x)
  BY <1>4, <1>6
<1>8. Stage(AddColumns(t, columns), before, Gift(t, items))
  BY <1>3, <1>5, <1>7, ColumnStage
<1>. QED
  BY <1>1, <1>6, <1>8

LEMMA FourColumnStage ==
  ASSUME NEW t, NEW c, NEW d, NEW e, NEW f, c # d, c # e, c # f, d # e, d # f, e # f,
         NEW before, HasTable(before, t),
         ~Has(before, t, c), ~Has(before, t, d), ~Has(before, t, e), ~Has(before, t, f)
  PROVE  Stage(AddColumns(t, <<c, d, e, f>>), before, Gift(t, {c, d, e, f}))
<1>1. PICK columns : columns = <<c, d, e, f>>
  OBVIOUS
<1>2. PICK n : n = 4
  OBVIOUS
<1>3. DOMAIN columns = 1..n /\ Len(columns) = n /\ n \in Nat \ {0}
  BY <1>1, <1>2
<1>4. /\ 1..n = {1, 2, 3, 4}
      /\ columns[1] = c /\ columns[2] = d /\ columns[3] = e /\ columns[4] = f
  BY <1>1, <1>2
<1>5. \A i, j \in 1..n : columns[i] = columns[j] => i = j
  BY <1>4
<1>6. PICK items : items = {c, d, e, f}
  OBVIOUS
<1>7. items = {columns[i] : i \in 1..n} /\ \A x \in items : ~Has(before, t, x)
  BY <1>4, <1>6
<1>8. Stage(AddColumns(t, columns), before, Gift(t, items))
  BY <1>3, <1>5, <1>7, ColumnStage
<1>. QED
  BY <1>1, <1>6, <1>8

LEMMA GroupPoliciesFits ==
  ASSUME NEW before, ~HasTable(before, "group_policies"), ~HasTable(before, "admin_audit_log")
  PROVE  /\ FitsAfter(Migration0003GroupPolicies, before)
         /\ Made(Migration0003GroupPolicies.up)
              = Join(Join(Gift("group_policies", PolicyColumns),
                          Gift("admin_audit_log", AdminAuditLogModel)),
                     Gift("admin_audit_log", Triggers))
<1>. DEFINE m == Migration0003GroupPolicies
            tables == Join(Gift("group_policies", PolicyColumns),
                           Gift("admin_audit_log", AdminAuditLogModel))
            gift == Join(tables, Gift("admin_audit_log", Triggers))
<1>1. PolicyColumns # {} /\ AdminAuditLogModel # {}
  BY DEF PolicyColumns, AdminAuditLogModel
<1>2. m.up = <<CreateTable("group_policies", PolicyColumns),
               CreateTable("admin_audit_log", AdminAuditLogModel)>>
               \o AppendOnly("admin_audit_log")
  BY DEF Migration0003GroupPolicies, PolicyColumns, AdminAuditLogModel
<1>3. m.down = <<DropTable("admin_audit_log"), DropTable("group_policies")>>
  BY DEF Migration0003GroupPolicies
<1>. HIDE DEF m
<1>4. Stage(<<CreateTable("group_policies", PolicyColumns),
              CreateTable("admin_audit_log", AdminAuditLogModel)>>, before, tables)
  BY <1>1, TwoTableStage
<1>5. HasTable(tables, "admin_audit_log") /\ HasTable(tables, "group_policies")
  BY <1>1, BothHave, GiftHas
<1>6. \A t : HasTable(tables, t) => t = "admin_audit_log" \/ t = "group_policies"
  BY BothHave, GiftHas
<1>. HIDE DEF tables
<1>7. Stage(m.up, before, gift)
  BY <1>2, <1>4, <1>5, StageWithTriggers DEF Triggers
<1>8. /\ HasTable(gift, "admin_audit_log") /\ HasTable(gift, "group_policies")
      /\ \A t : HasTable(gift, t) => t = "admin_audit_log" \/ t = "group_policies"
  BY <1>5, <1>6, BothHave, GiftHas
<1>. HIDE DEF gift
<1>9. FitsAfter(m, before) /\ Made(m.up) = gift
  BY <1>3, <1>7, <1>8, DropsTwo
<1>. QED
  BY <1>9 DEF m, gift, tables

LEMMA UsageCountersFits ==
  ASSUME NEW before, ~HasTable(before, "usage_counters")
  PROVE  /\ FitsAfter(Migration0004UsageCounters, before)
         /\ Made(Migration0004UsageCounters.up) = Gift("usage_counters", CounterColumns)
<1>. DEFINE m == Migration0004UsageCounters
            gift == Gift("usage_counters", CounterColumns)
<1>1. CounterColumns # {}
  BY DEF CounterColumns
<1>2. CounterColumns = {"id", "user_subject", "group_name", "period_date", "period_kind",
          "request_count", "token_count", "cost_usd", "idx_usage_counters_unique"}
  BY DEF CounterColumns, UsageCounterModel, UsageUpsertIndex
<1>3. m.up = <<CreateTable("usage_counters", CounterColumns)>>
      /\ m.down = <<DropTable("usage_counters")>>
  BY <1>2 DEF Migration0004UsageCounters
<1>. HIDE DEF m
<1>4. Stage(m.up, before, gift)
  BY <1>1, <1>3, TableStage
<1>5. HasTable(gift, "usage_counters") /\ \A t : HasTable(gift, t) => t = "usage_counters"
  BY <1>1, GiftHas
<1>. HIDE DEF gift
<1>6. FitsAfter(m, before) /\ Made(m.up) = gift
  BY <1>3, <1>4, <1>5, DropsOne
<1>. QED
  BY <1>6 DEF m, gift

LEMMA ProvidersFits ==
  ASSUME NEW before, ~HasTable(before, "providers"), ~HasTable(before, "provider_keys"),
         ~HasTable(before, "provider_key_access")
  PROVE  /\ FitsAfter(Migration0005Providers, before)
         /\ Made(Migration0005Providers.up)
              = Join(Join(Gift("providers", ProviderModel),
                          Gift("provider_keys", ProviderKeyModel)),
                     Gift("provider_key_access", ProviderKeyAccessModel))
<1>. DEFINE m == Migration0005Providers
            gift == Join(Join(Gift("providers", ProviderModel),
                              Gift("provider_keys", ProviderKeyModel)),
                         Gift("provider_key_access", ProviderKeyAccessModel))
<1>1. ProviderModel # {} /\ ProviderKeyModel # {} /\ ProviderKeyAccessModel # {}
  BY DEF ProviderModel, ProviderKeyModel, ProviderKeyAccessModel
<1>2. m.up = <<CreateTable("providers", ProviderModel),
               CreateTable("provider_keys", ProviderKeyModel),
               CreateTable("provider_key_access", ProviderKeyAccessModel)>>
  BY DEF Migration0005Providers, ProviderModel, ProviderKeyModel, ProviderKeyAccessModel
<1>3. m.down = <<DropTable("provider_key_access"), DropTable("provider_keys"),
                 DropTable("providers")>>
  BY DEF Migration0005Providers
<1>. HIDE DEF m
<1>4. Stage(m.up, before, gift)
  BY <1>1, <1>2, ThreeTableStage
<1>5. /\ HasTable(gift, "providers") /\ HasTable(gift, "provider_keys")
      /\ HasTable(gift, "provider_key_access")
      /\ \A t : HasTable(gift, t) =>
                  t = "provider_key_access" \/ t = "provider_keys" \/ t = "providers"
  BY <1>1, BothHave, GiftHas
<1>. HIDE DEF gift
<1>6. FitsAfter(m, before) /\ Made(m.up) = gift
  BY <1>3, <1>4, <1>5, DropsThree
<1>. QED
  BY <1>6 DEF m, gift

LEMMA TokenSaverFits ==
  ASSUME NEW before, HasTable(before, "group_policies"), HasTable(before, "audit_log"),
         ~Has(before, "group_policies", "token_saver_enabled"),
         ~Has(before, "group_policies", "max_input_tokens"),
         \A c \in SaverColumns : ~Has(before, "audit_log", c)
  PROVE  /\ FitsAfter(Migration0006TokenSaver, before)
         /\ Made(Migration0006TokenSaver.up)
              = Join(Gift("group_policies", {"token_saver_enabled", "max_input_tokens"}),
                     Gift("audit_log", SaverColumns))
<1>. DEFINE m == Migration0006TokenSaver
            a == AddColumns("group_policies", <<"token_saver_enabled", "max_input_tokens">>)
            b == AddColumns("audit_log",
                   <<"token_saver_applied", "tokens_saved", "messages_dropped", "saver_reasons">>)
            first == Gift("group_policies", {"token_saver_enabled", "max_input_tokens"})
            more == Gift("audit_log", SaverColumns)
<1>1. m.up = a \o b /\ m.down = <<>>
  BY DEF Migration0006TokenSaver
<1>. HIDE DEF m
<1>2. Stage(a, before, first)
  BY TwoColumnStage
<1>. HIDE DEF a
<1>3. HasTable(Join(before, first), "audit_log")
      /\ \A c \in SaverColumns : ~Has(Join(before, first), "audit_log", c)
  BY BothHave, GiftHas
<1>4. \A t : HasTable(first, t) => HasTable(before, t)
  BY GiftHas
<1>. HIDE DEF first
<1>5. Stage(b, Join(before, first), more)
  BY <1>3, FourColumnStage DEF SaverColumns
<1>6. \A t : HasTable(more, t) => HasTable(before, t)
  BY GiftHas
<1>. HIDE DEF b, more
<1>7. Stage(m.up, before, Join(first, more))
  BY <1>1, <1>2, <1>5, StageAndStage
<1>8. \A t : HasTable(Join(first, more), t) => HasTable(before, t)
  BY <1>4, <1>6, BothHave
<1>9. FitsAfter(m, before) /\ Made(m.up) = Join(first, more)
  BY <1>1, <1>7, <1>8, NotTakenBack
<1>. QED
  BY <1>9 DEF m, first, more

LEMMA McpFits ==
  ASSUME NEW before, HasTable(before, "audit_log"), ~HasTable(before, "mcp_servers"),
         ~HasTable(before, "mcp_server_policies"),
         \A c \in McpColumns : ~Has(before, "audit_log", c)
  PROVE  /\ FitsAfter(Migration0009Mcp, before)
         /\ Made(Migration0009Mcp.up)
              = Join(Join(Gift("mcp_servers", McpServerModel),
                          Gift("mcp_server_policies", McpServerPolicyModel)),
                     Gift("audit_log", McpColumns))
<1>. DEFINE m == Migration0009Mcp
            a == <<CreateTable("mcp_servers", McpServerModel),
                   CreateTable("mcp_server_policies", McpServerPolicyModel)>>
            b == AddColumns("audit_log",
                   <<"mcp_server", "mcp_tool", "mcp_method", "mcp_args_preview">>)
            first == Join(Gift("mcp_servers", McpServerModel),
                          Gift("mcp_server_policies", McpServerPolicyModel))
            more == Gift("audit_log", McpColumns)
<1>1. m.up = a \o b
  BY DEF Migration0009Mcp, McpServerModel, McpServerPolicyModel
<1>2. m.down = <<DropTable("mcp_server_policies"), DropTable("mcp_servers")>>
  BY DEF Migration0009Mcp
<1>. HIDE DEF m
<1>3. McpServerModel # {} /\ McpServerPolicyModel # {}
  BY DEF McpServerModel, McpServerPolicyModel
<1>4. Stage(a, before, first)
  BY <1>3, TwoTableStage
<1>. HIDE DEF a
<1>5. HasTable(Join(before, first), "audit_log")
      /\ \A c \in McpColumns : ~Has(Join(before, first), "audit_log", c)
  BY BothHave, GiftHas
<1>6. /\ HasTable(first, "mcp_servers") /\ HasTable(first, "mcp_server_policies")
      /\ \A t : HasTable(first, t) => t = "mcp_server_policies" \/ t = "mcp_servers"
  BY <1>3, BothHave, GiftHas
<1>. HIDE DEF first
<1>7. Stage(b, Join(before, first), more)
  BY <1>5, FourColumnStage DEF McpColumns
<1>8. \A t : HasTable(more, t) => HasTable(before, t)
  BY GiftHas
<1>. HIDE DEF b, more
<1>9. Stage(m.up, before, Join(first, more))
  BY <1>1, <1>4, <1>7, StageAndStage
<1>. DEFINE gift == Join(first, more)
<1>10. /\ HasTable(gift, "mcp_servers") /\ HasTable(gift, "mcp_server_policies")
       /\ \A t : HasTable(gift, t) =>
                   HasTable(before, t) \/ t = "mcp_server_policies" \/ t = "mcp_servers"
  BY <1>6, <1>8, BothHave
<1>. HIDE DEF gift
<1>11. Stage(m.up, before, gift)
  BY <1>9 DEF gift
<1>12. FitsAfter(m, before) /\ Made(m.up) = gift
  BY <1>2, <1>10, <1>11, DropsTwo
<1>. QED
  BY <1>12 DEF m, first, more, gift

LEMMA TokensFits ==
  ASSUME NEW before, HasTable(before, "group_policies"), ~HasTable(before, "tokens"),
         ~Has(before, "group_policies", "max_token_ttl_seconds")
  PROVE  /\ FitsAfter(Migration0010Tokens, before)
         /\ Made(Migration0010Tokens.up)
              = Join(Gift("group_policies", {"max_token_ttl_seconds"}),
                     Gift("tokens", TokenColumns))
<1>. DEFINE m == Migration0010Tokens
            a == AddColumns("group_policies", <<"max_token_ttl_seconds">>)
            b == <<CreateTable("tokens", TokenColumns)>>
            first == Gift("group_policies", {"max_token_ttl_seconds"})
            more == Gift("tokens", TokenColumns)
<1>1. m.up = a \o b
  BY DEF Migration0010Tokens, TokenColumns
<1>2. m.down = <<DropTable("tokens")>>
  BY DEF Migration0010Tokens
<1>. HIDE DEF m
<1>3. TokenColumns # {}
  BY DEF TokenColumns
<1>4. Stage(a, before, first)
  BY OneColumnStage
<1>. HIDE DEF a
<1>5. ~HasTable(Join(before, first), "tokens")
  BY BothHave, GiftHas
<1>6. \A t : HasTable(first, t) => HasTable(before, t)
  BY GiftHas
<1>. HIDE DEF first
<1>7. Stage(b, Join(before, first), more)
  BY <1>3, <1>5, TableStage
<1>8. HasTable(more, "tokens") /\ \A t : HasTable(more, t) => t = "tokens"
  BY <1>3, GiftHas
<1>. HIDE DEF b, more
<1>9. Stage(m.up, before, Join(first, more))
  BY <1>1, <1>4, <1>7, StageAndStage
<1>. DEFINE gift == Join(first, more)
<1>10. HasTable(gift, "tokens") /\ \A t : HasTable(gift, t) => HasTable(before, t) \/ t = "tokens"
  BY <1>6, <1>8, BothHave
<1>. HIDE DEF gift
<1>11. Stage(m.up, before, gift)
  BY <1>9 DEF gift
<1>12. FitsAfter(m, before) /\ Made(m.up) = gift
  BY <1>2, <1>10, <1>11, DropsOne
<1>. QED
  BY <1>12 DEF m, first, more, gift

LEMMA TokenHashIndexFits ==
  ASSUME NEW before, HasTable(before, "tokens"),
         ~Has(before, "tokens", "idx_tokens_token_hash")
  PROVE  /\ FitsAfter(Migration0012TokenHashIndex, before)
         /\ Made(Migration0012TokenHashIndex.up) = Gift("tokens", {"idx_tokens_token_hash"})
<1>. DEFINE m == Migration0012TokenHashIndex
            index == "idx_tokens_token_hash"
<1>1. m.up = <<CreateIndex("tokens", index)>> /\ m.down = <<DropItem("tokens", index)>>
  BY DEF Migration0012TokenHashIndex
<1>. HIDE DEF m
<1>2. PICK up : up = <<CreateIndex("tokens", index)>>
  OBVIOUS
<1>3. PICK columns : columns = <<index>>
  OBVIOUS
<1>4. DOMAIN columns = {1} /\ columns[1] = index
  BY <1>3
<1>5. AddColumns("tokens", columns) = [i \in {1} |-> CreateIndex("tokens", index)]
  BY <1>4 DEF AddColumns, CreateIndex
<1>6. up = [i \in {1} |-> CreateIndex("tokens", index)]
  BY <1>2
<1>7. AddColumns("tokens", <<index>>) = up
  BY <1>3, <1>5, <1>6
<1>8. Stage(AddColumns("tokens", <<index>>), before, Gift("tokens", {index}))
  BY OneColumnStage
<1>9. Stage(m.up, before, Gift("tokens", {index}))
  BY <1>1, <1>2, <1>7, <1>8
<1>10. FitsAfter(m, before) /\ Made(m.up) = Gift("tokens", {index})
  BY <1>1, <1>9, RemovesItem
<1>. QED
  BY <1>10 DEF m

\* The migrations of the relay.
ApiKeyColumns == {"id", "identity_id", "key_hash", "label", "created_at", "last_used_at"}
ActivityColumns ==
  {"id", "identity_id", "key_id", "method", "endpoint", "model",
   "central_status", "latency_ms", "request_id", "created_at"}

LEMMA RelayInitialFits ==
  /\ FitsAfter(RelayInitial, {})
  /\ Made(RelayInitial.up)
       = Join(Gift("identities", IdentityModel), Gift("api_keys", ApiKeyColumns))
<1>. DEFINE m == RelayInitial
            gift == Join(Gift("identities", IdentityModel), Gift("api_keys", ApiKeyColumns))
<1>1. IdentityModel # {} /\ ApiKeyColumns # {}
  BY DEF IdentityModel, ApiKeyColumns
<1>2. m.up = <<CreateTable("identities", IdentityModel), CreateTable("api_keys", ApiKeyColumns)>>
  BY DEF RelayInitial, IdentityModel, ApiKeyColumns
<1>3. m.down = <<DropTable("api_keys"), DropTable("identities")>>
  BY DEF RelayInitial
<1>. HIDE DEF m
<1>4. Stage(m.up, {}, gift)
  BY <1>1, <1>2, NothingHas, TwoTableStage
<1>5. /\ HasTable(gift, "api_keys") /\ HasTable(gift, "identities")
      /\ \A t : HasTable(gift, t) => t = "api_keys" \/ t = "identities"
  BY <1>1, BothHave, GiftHas
<1>. HIDE DEF gift
<1>6. FitsAfter(m, {}) /\ Made(m.up) = gift
  BY <1>3, <1>4, <1>5, NothingHas, DropsTwo
<1>. QED
  BY <1>6 DEF m, gift

LEMMA ActivityLogFits ==
  ASSUME NEW before, ~HasTable(before, "relay_activity_log")
  PROVE  /\ FitsAfter(Migration0002RelayActivityLog, before)
         /\ Made(Migration0002RelayActivityLog.up)
              = Join(Gift("relay_activity_log", ActivityColumns),
                     Gift("relay_activity_log", Triggers))
<1>. DEFINE m == Migration0002RelayActivityLog
            a == <<CreateTable("relay_activity_log", ActivityColumns)>>
            first == Gift("relay_activity_log", ActivityColumns)
            gift == Join(first, Gift("relay_activity_log", Triggers))
<1>1. ActivityColumns # {}
  BY DEF ActivityColumns
<1>2. m.up = a \o AppendOnly("relay_activity_log")
      /\ m.down = <<DropTable("relay_activity_log")>>
  BY DEF Migration0002RelayActivityLog, ActivityColumns
<1>. HIDE DEF m
<1>3. Stage(a, before, first)
  BY <1>1, TableStage
<1>. HIDE DEF a
<1>4. HasTable(first, "relay_activity_log")
      /\ \A t : HasTable(first, t) => t = "relay_activity_log"
  BY <1>1, GiftHas
<1>. HIDE DEF first
<1>5. Stage(m.up, before, gift)
  BY <1>2, <1>3, <1>4, StageWithTriggers DEF Triggers
<1>6. HasTable(gift, "relay_activity_log")
      /\ \A t : HasTable(gift, t) => t = "relay_activity_log"
  BY <1>4, BothHave, GiftHas
<1>. HIDE DEF gift
<1>7. FitsAfter(m, before) /\ Made(m.up) = gift
  BY <1>2, <1>5, <1>6, DropsOne
<1>. QED
  BY <1>7 DEF m, first, gift

LEMMA ApiKeyExpiryFits ==
  ASSUME NEW before, HasTable(before, "api_keys"), ~Has(before, "api_keys", "expires_at")
  PROVE  /\ FitsAfter(Migration0003ApiKeyExpiry, before)
         /\ Made(Migration0003ApiKeyExpiry.up) = Gift("api_keys", {"expires_at"})
<1>. DEFINE m == Migration0003ApiKeyExpiry
<1>1. m.up = AddColumns("api_keys", <<"expires_at">>)
      /\ m.down = <<DropItem("api_keys", "expires_at")>>
  BY DEF Migration0003ApiKeyExpiry
<1>. HIDE DEF m
<1>2. Stage(m.up, before, Gift("api_keys", {"expires_at"}))
  BY <1>1, OneColumnStage
<1>3. FitsAfter(m, before) /\ Made(m.up) = Gift("api_keys", {"expires_at"})
  BY <1>1, <1>2, RemovesItem
<1>. QED
  BY <1>3 DEF m

LEMMA McpActivityFits ==
  ASSUME NEW before, HasTable(before, "relay_activity_log"),
         \A c \in {"mcp_server", "mcp_tool", "mcp_method"} :
           ~Has(before, "relay_activity_log", c)
  PROVE  /\ FitsAfter(Migration0004McpActivity, before)
         /\ Made(Migration0004McpActivity.up)
              = Gift("relay_activity_log", {"mcp_server", "mcp_tool", "mcp_method"})
<1>. DEFINE m == Migration0004McpActivity
            gift == Gift("relay_activity_log", {"mcp_server", "mcp_tool", "mcp_method"})
<1>1. m.up = AddColumns("relay_activity_log", <<"mcp_server", "mcp_tool", "mcp_method">>)
      /\ m.down = <<>>
  BY DEF Migration0004McpActivity
<1>. HIDE DEF m
<1>2. Stage(m.up, before, gift)
  BY <1>1, ThreeColumnStage
<1>3. \A t : HasTable(gift, t) => HasTable(before, t)
  BY GiftHas
<1>. HIDE DEF gift
<1>4. FitsAfter(m, before) /\ Made(m.up) = gift
  BY <1>1, <1>2, <1>3, NotTakenBack
<1>. QED
  BY <1>4 DEF m, gift

\* The first n migrations of a list fit one after another, and make a schema.
Reached(list, n, schema) ==
  /\ n \in Nat /\ UpTo(list, n) = schema
  /\ \A k \in 1..n : FitsAfter(list[k], UpTo(list, k - 1))

LEMMA OneMoreReached ==
  ASSUME NEW list, NEW n, NEW before, Reached(list, n, before), NEW m, list[n + 1] = m,
         NEW gift, FitsAfter(m, before) /\ Made(m.up) = gift
  PROVE  Reached(list, n + 1, Join(before, gift))
<1>1. n \in Nat /\ n + 1 \in Nat /\ n + 1 > 0 /\ (n + 1) - 1 = n
  BY DEF Reached
<1>2. UpTo(list, n + 1) = UpTo(list, n) \cup Added(list, n + 1)
  BY <1>1, OneMoreMigration
<1>3. Added(list, n + 1) = gift
  BY DEF Added, Made
<1>4. UpTo(list, n + 1) = Join(before, gift)
  BY <1>2, <1>3 DEF Reached, Join
<1>5. ASSUME NEW k \in 1..(n + 1)
      PROVE  FitsAfter(list[k], UpTo(list, k - 1))
  <2>1. CASE k = n + 1
    BY <1>1, <2>1 DEF Reached
  <2>2. CASE k \in 1..n
    BY <2>2 DEF Reached
  <2>. QED
    BY <1>1, <2>1, <2>2
<1>. QED
  BY <1>1, <1>4, <1>5 DEF Reached

LEMMA NoneReached ==
  ASSUME NEW list
  PROVE  Reached(list, 0, {})
<1>1. 1..0 = {}
  OBVIOUS
<1>. QED
  BY <1>1, NothingAdded DEF Reached

\* What a table has of some columns that a migration adds to it later.
Lacks(schema, t, items) == HasTable(schema, t) /\ \A c \in items : ~Has(schema, t, c)

LEMMA LacksStill ==
  ASSUME NEW schema, NEW t, NEW items, Lacks(schema, t, items), NEW gift,
         \A c \in items : ~Has(gift, t, c)
  PROVE  Lacks(Join(schema, gift), t, items)
BY BothHave DEF Lacks

LEMMA ColumnsApart ==
  /\ \A c \in EnrichmentColumns : c \notin AuditColumns /\ c \notin Triggers
  /\ \A c \in SaverColumns :
       c \notin AuditColumns /\ c \notin Triggers /\ c \notin EnrichmentColumns
  /\ \A c \in McpColumns : /\ c \notin AuditColumns /\ c \notin Triggers
                           /\ c \notin EnrichmentColumns /\ c \notin SaverColumns
  /\ \A c \in PolicyColumns :
       c \notin {"token_saver_enabled", "max_input_tokens", "collapse_repeated_lines",
                 "strip_ansi", "max_token_ttl_seconds"}
  /\ \A c \in {"mcp_server", "mcp_tool", "mcp_method"} : c \notin ActivityColumns /\ c \notin Triggers
  /\ "expires_at" \notin ApiKeyColumns
  /\ "device_fingerprint" \notin TokenColumns
  /\ "idx_tokens_token_hash" \notin TokenColumns
BY DEF AuditColumns, EnrichmentColumns, SaverColumns, McpColumns, PolicyColumns, TokenColumns,
       Triggers, ActivityColumns, ApiKeyColumns

LEMMA LacksAtFirst ==
  ASSUME NEW schema, NEW t, NEW items, ~HasTable(schema, t), NEW gift, HasTable(gift, t),
         \A c \in items : ~Has(gift, t, c)
  PROVE  Lacks(Join(schema, gift), t, items)
<1>1. \A c : ~Has(schema, t, c)
  BY DEF HasTable, Has
<1>. QED
  BY <1>1, BothHave DEF Lacks

LEMMA NoTableIsEmpty ==
  /\ DeviceModel # {} /\ AuditColumns # {} /\ PolicyColumns # {} /\ AdminAuditLogModel # {}
  /\ CounterColumns # {} /\ ProviderModel # {} /\ ProviderKeyModel # {}
  /\ ProviderKeyAccessModel # {} /\ McpServerModel # {} /\ McpServerPolicyModel # {}
  /\ TokenColumns # {} /\ IdentityModel # {} /\ ApiKeyColumns # {} /\ ActivityColumns # {}
BY DEF DeviceModel, AuditColumns, PolicyColumns, AdminAuditLogModel, CounterColumns,
       ProviderModel, ProviderKeyModel, ProviderKeyAccessModel, McpServerModel,
       McpServerPolicyModel, TokenColumns, IdentityModel, ApiKeyColumns, ActivityColumns

\* Each migration of the central proxy finds what it needs, and what it makes is new.
LEMMA CentralMigrationsRun ==
  \E schema :
    /\ Reached(CentralMigrations, 12, schema)
    /\ Gift("devices", DeviceModel) \subseteq schema
    /\ Gift("audit_log", AuditColumns) \subseteq schema
    /\ Gift("audit_log", Triggers) \subseteq schema
    /\ Gift("audit_log", EnrichmentColumns) \subseteq schema
    /\ Gift("group_policies", PolicyColumns) \subseteq schema
    /\ Gift("admin_audit_log", AdminAuditLogModel) \subseteq schema
    /\ Gift("admin_audit_log", Triggers) \subseteq schema
    /\ Gift("usage_counters", CounterColumns) \subseteq schema
    /\ Gift("providers", ProviderModel) \subseteq schema
    /\ Gift("provider_keys", ProviderKeyModel) \subseteq schema
    /\ Gift("provider_key_access", ProviderKeyAccessModel) \subseteq schema
    /\ Gift("group_policies", {"token_saver_enabled", "max_input_tokens"}) \subseteq schema
    /\ Gift("audit_log", SaverColumns) \subseteq schema
    /\ Gift("group_policies", {"collapse_repeated_lines"}) \subseteq schema
    /\ Gift("group_policies", {"strip_ansi"}) \subseteq schema
    /\ Gift("mcp_servers", McpServerModel) \subseteq schema
    /\ Gift("mcp_server_policies", McpServerPolicyModel) \subseteq schema
    /\ Gift("audit_log", McpColumns) \subseteq schema
    /\ Gift("group_policies", {"max_token_ttl_seconds"}) \subseteq schema
    /\ Gift("tokens", TokenColumns) \subseteq schema
    /\ Gift("tokens", {"device_fingerprint"}) \subseteq schema
    /\ Gift("tokens", {"idx_tokens_token_hash"}) \subseteq schema
<1>. DEFINE list == CentralMigrations
            g1 == Join(Join(Gift("devices", DeviceModel),
                            Gift("audit_log", AuditColumns)),
                       Gift("audit_log", Triggers))
            g2 == Gift("audit_log", EnrichmentColumns)
            g3 == Join(Join(Gift("group_policies", PolicyColumns),
                            Gift("admin_audit_log", AdminAuditLogModel)),
                       Gift("admin_audit_log", Triggers))
            g4 == Gift("usage_counters", CounterColumns)
            g5 == Join(Join(Gift("providers", ProviderModel),
                            Gift("provider_keys", ProviderKeyModel)),
                       Gift("provider_key_access", ProviderKeyAccessModel))
            g6 == Join(Gift("group_policies", {"token_saver_enabled", "max_input_tokens"}),
                       Gift("audit_log", SaverColumns))
            g7 == Gift("group_policies", {"collapse_repeated_lines"})
            g8 == Gift("group_policies", {"strip_ansi"})
            g9 == Join(Join(Gift("mcp_servers", McpServerModel),
                            Gift("mcp_server_policies", McpServerPolicyModel)),
                       Gift("audit_log", McpColumns))
            g10 == Join(Gift("group_policies", {"max_token_ttl_seconds"}),
                        Gift("tokens", TokenColumns))
            g11 == Gift("tokens", {"device_fingerprint"})
            g12 == Gift("tokens", {"idx_tokens_token_hash"})
            s1 == Join({}, g1)
            s2 == Join(s1, g2)
            s3 == Join(s2, g3)
            s4 == Join(s3, g4)
            s5 == Join(s4, g5)
            s6 == Join(s5, g6)
            s7 == Join(s6, g7)
            s8 == Join(s7, g8)
            s9 == Join(s8, g9)
            s10 == Join(s9, g10)
            s11 == Join(s10, g11)
            s12 == Join(s11, g12)
<1>1. /\ list[1] = CentralInitial
      /\ list[2] = Migration0002AuditEnrichment
      /\ list[3] = Migration0003GroupPolicies
      /\ list[4] = Migration0004UsageCounters
      /\ list[5] = Migration0005Providers
      /\ list[6] = Migration0006TokenSaver
      /\ list[7] = Migration0007CollapseRepeatedLines
      /\ list[8] = Migration0008StripAnsi
      /\ list[9] = Migration0009Mcp
      /\ list[10] = Migration0010Tokens
      /\ list[11] = Migration0011DeviceFingerprint
      /\ list[12] = Migration0012TokenHashIndex
  BY DEF CentralMigrations
<1>. HIDE DEF list
<1>2. /\ HasTable(g1, "devices") /\ HasTable(g1, "audit_log")
      /\ \A t \in {"group_policies", "admin_audit_log", "usage_counters", "providers",
           "provider_keys", "provider_key_access", "mcp_servers", "mcp_server_policies",
           "tokens"} : ~HasTable(g1, t)
      /\ \A c \in EnrichmentColumns : ~Has(g1, "audit_log", c)
      /\ \A c \in SaverColumns : ~Has(g1, "audit_log", c)
      /\ \A c \in McpColumns : ~Has(g1, "audit_log", c)
      /\ Gift("devices", DeviceModel) \subseteq g1
      /\ Gift("audit_log", AuditColumns) \subseteq g1
      /\ Gift("audit_log", Triggers) \subseteq g1
  <2>1. HasTable(g1, "devices") /\ HasTable(g1, "audit_log")
    BY BothHave, GiftHas, NoTableIsEmpty
  <2>2. \A t \in {"group_policies", "admin_audit_log", "usage_counters", "providers",
          "provider_keys", "provider_key_access", "mcp_servers", "mcp_server_policies",
          "tokens"} : ~HasTable(g1, t)
    BY BothHave, GiftHas
  <2>3. \A c \in EnrichmentColumns : ~Has(g1, "audit_log", c)
    BY BothHave, GiftHas, ColumnsApart
  <2>4. \A c \in SaverColumns : ~Has(g1, "audit_log", c)
    BY BothHave, GiftHas, ColumnsApart
  <2>5. \A c \in McpColumns : ~Has(g1, "audit_log", c)
    BY BothHave, GiftHas, ColumnsApart
  <2>6. /\ Gift("devices", DeviceModel) \subseteq g1
        /\ Gift("audit_log", AuditColumns) \subseteq g1
        /\ Gift("audit_log", Triggers) \subseteq g1
    BY DEF Join
  <2>. QED
    BY <2>1, <2>2, <2>3, <2>4, <2>5, <2>6
<1>3. /\ \A t \in {"group_policies", "admin_audit_log", "usage_counters", "providers",
           "provider_keys", "provider_key_access", "mcp_servers", "mcp_server_policies",
           "tokens"} : ~HasTable(g2, t)
      /\ \A c \in SaverColumns : ~Has(g2, "audit_log", c)
      /\ \A c \in McpColumns : ~Has(g2, "audit_log", c)
      /\ Gift("audit_log", EnrichmentColumns) \subseteq g2
  <2>1. \A t \in {"group_policies", "admin_audit_log", "usage_counters", "providers",
          "provider_keys", "provider_key_access", "mcp_servers", "mcp_server_policies",
          "tokens"} : ~HasTable(g2, t)
    BY GiftHas
  <2>2. \A c \in SaverColumns : ~Has(g2, "audit_log", c)
    BY GiftHas, ColumnsApart
  <2>3. \A c \in McpColumns : ~Has(g2, "audit_log", c)
    BY GiftHas, ColumnsApart
  <2>4. Gift("audit_log", EnrichmentColumns) \subseteq g2
    OBVIOUS
  <2>. QED
    BY <2>1, <2>2, <2>3, <2>4
<1>4. /\ HasTable(g3, "group_policies") /\ HasTable(g3, "admin_audit_log")
      /\ \A t \in {"usage_counters", "providers", "provider_keys", "provider_key_access",
           "mcp_servers", "mcp_server_policies", "tokens"} : ~HasTable(g3, t)
      /\ \A c \in SaverColumns : ~Has(g3, "audit_log", c)
      /\ \A c \in McpColumns : ~Has(g3, "audit_log", c)
      /\ \A c \in {"token_saver_enabled", "max_input_tokens"} : ~Has(g3, "group_policies", c)
      /\ \A c \in {"collapse_repeated_lines"} : ~Has(g3, "group_policies", c)
      /\ \A c \in {"strip_ansi"} : ~Has(g3, "group_policies", c)
      /\ \A c \in {"max_token_ttl_seconds"} : ~Has(g3, "group_policies", c)
      /\ Gift("group_policies", PolicyColumns) \subseteq g3
      /\ Gift("admin_audit_log", AdminAuditLogModel) \subseteq g3
      /\ Gift("admin_audit_log", Triggers) \subseteq g3
  <2>1. HasTable(g3, "group_policies") /\ HasTable(g3, "admin_audit_log")
    BY BothHave, GiftHas, NoTableIsEmpty
  <2>2. \A t \in {"usage_counters", "providers", "provider_keys", "provider_key_access",
          "mcp_servers", "mcp_server_policies", "tokens"} : ~HasTable(g3, t)
    BY BothHave, GiftHas
  <2>3. \A c \in SaverColumns : ~Has(g3, "audit_log", c)
    BY BothHave, GiftHas, ColumnsApart
  <2>4. \A c \in McpColumns : ~Has(g3, "audit_log", c)
    BY BothHave, GiftHas, ColumnsApart
  <2>5. \A c \in {"token_saver_enabled", "max_input_tokens"} : ~Has(g3, "group_policies", c)
    BY BothHave, GiftHas, ColumnsApart
  <2>6. \A c \in {"collapse_repeated_lines"} : ~Has(g3, "group_policies", c)
    BY BothHave, GiftHas, ColumnsApart
  <2>7. \A c \in {"strip_ansi"} : ~Has(g3, "group_policies", c)
    BY BothHave, GiftHas, ColumnsApart
  <2>8. \A c \in {"max_token_ttl_seconds"} : ~Has(g3, "group_policies", c)
    BY BothHave, GiftHas, ColumnsApart
  <2>9. /\ Gift("group_policies", PolicyColumns) \subseteq g3
        /\ Gift("admin_audit_log", AdminAuditLogModel) \subseteq g3
        /\ Gift("admin_audit_log", Triggers) \subseteq g3
    BY DEF Join
  <2>. QED
    BY <2>1, <2>2, <2>3, <2>4, <2>5, <2>6, <2>7, <2>8, <2>9
<1>5. /\ HasTable(g4, "usage_counters")
      /\ \A t \in {"providers", "provider_keys", "provider_key_access", "mcp_servers",
           "mcp_server_policies", "tokens"} : ~HasTable(g4, t)
      /\ \A c \in SaverColumns : ~Has(g4, "audit_log", c)
      /\ \A c \in McpColumns : ~Has(g4, "audit_log", c)
      /\ \A c \in {"token_saver_enabled", "max_input_tokens"} : ~Has(g4, "group_policies", c)
      /\ \A c \in {"collapse_repeated_lines"} : ~Has(g4, "group_policies", c)
      /\ \A c \in {"strip_ansi"} : ~Has(g4, "group_policies", c)
      /\ \A c \in {"max_token_ttl_seconds"} : ~Has(g4, "group_policies", c)
      /\ Gift("usage_counters", CounterColumns) \subseteq g4
  <2>1. HasTable(g4, "usage_counters")
    BY GiftHas, NoTableIsEmpty
  <2>2. \A t \in {"providers", "provider_keys", "provider_key_access", "mcp_servers",
          "mcp_server_policies", "tokens"} : ~HasTable(g4, t)
    BY GiftHas
  <2>3. \A c \in SaverColumns : ~Has(g4, "audit_log", c)
    BY GiftHas, ColumnsApart
  <2>4. \A c \in McpColumns : ~Has(g4, "audit_log", c)
    BY GiftHas, ColumnsApart
  <2>5. \A c \in {"token_saver_enabled", "max_input_tokens"} : ~Has(g4, "group_policies", c)
    BY GiftHas, ColumnsApart
  <2>6. \A c \in {"collapse_repeated_lines"} : ~Has(g4, "group_policies", c)
    BY GiftHas, ColumnsApart
  <2>7. \A c \in {"strip_ansi"} : ~Has(g4, "group_policies", c)
    BY GiftHas, ColumnsApart
  <2>8. \A c \in {"max_token_ttl_seconds"} : ~Has(g4, "group_policies", c)
    BY GiftHas, ColumnsApart
  <2>9. Gift("usage_counters", CounterColumns) \subseteq g4
    OBVIOUS
  <2>. QED
    BY <2>1, <2>2, <2>3, <2>4, <2>5, <2>6, <2>7, <2>8, <2>9
<1>6. /\ HasTable(g5, "providers") /\ HasTable(g5, "provider_keys") /\ HasTable(g5,
           "provider_key_access")
      /\ \A t \in {"mcp_servers", "mcp_server_policies", "tokens"} : ~HasTable(g5, t)
      /\ \A c \in SaverColumns : ~Has(g5, "audit_log", c)
      /\ \A c \in McpColumns : ~Has(g5, "audit_log", c)
      /\ \A c \in {"token_saver_enabled", "max_input_tokens"} : ~Has(g5, "group_policies", c)
      /\ \A c \in {"collapse_repeated_lines"} : ~Has(g5, "group_policies", c)
      /\ \A c \in {"strip_ansi"} : ~Has(g5, "group_policies", c)
      /\ \A c \in {"max_token_ttl_seconds"} : ~Has(g5, "group_policies", c)
      /\ Gift("providers", ProviderModel) \subseteq g5
      /\ Gift("provider_keys", ProviderKeyModel) \subseteq g5
      /\ Gift("provider_key_access", ProviderKeyAccessModel) \subseteq g5
  <2>1. HasTable(g5, "providers") /\ HasTable(g5, "provider_keys") /\ HasTable(g5,
          "provider_key_access")
    BY BothHave, GiftHas, NoTableIsEmpty
  <2>2. \A t \in {"mcp_servers", "mcp_server_policies", "tokens"} : ~HasTable(g5, t)
    BY BothHave, GiftHas
  <2>3. \A c \in SaverColumns : ~Has(g5, "audit_log", c)
    BY BothHave, GiftHas, ColumnsApart
  <2>4. \A c \in McpColumns : ~Has(g5, "audit_log", c)
    BY BothHave, GiftHas, ColumnsApart
  <2>5. \A c \in {"token_saver_enabled", "max_input_tokens"} : ~Has(g5, "group_policies", c)
    BY BothHave, GiftHas, ColumnsApart
  <2>6. \A c \in {"collapse_repeated_lines"} : ~Has(g5, "group_policies", c)
    BY BothHave, GiftHas, ColumnsApart
  <2>7. \A c \in {"strip_ansi"} : ~Has(g5, "group_policies", c)
    BY BothHave, GiftHas, ColumnsApart
  <2>8. \A c \in {"max_token_ttl_seconds"} : ~Has(g5, "group_policies", c)
    BY BothHave, GiftHas, ColumnsApart
  <2>9. /\ Gift("providers", ProviderModel) \subseteq g5
        /\ Gift("provider_keys", ProviderKeyModel) \subseteq g5
        /\ Gift("provider_key_access", ProviderKeyAccessModel) \subseteq g5
    BY DEF Join
  <2>. QED
    BY <2>1, <2>2, <2>3, <2>4, <2>5, <2>6, <2>7, <2>8, <2>9
<1>7. /\ \A t \in {"mcp_servers", "mcp_server_policies", "tokens"} : ~HasTable(g6, t)
      /\ \A c \in McpColumns : ~Has(g6, "audit_log", c)
      /\ \A c \in {"collapse_repeated_lines"} : ~Has(g6, "group_policies", c)
      /\ \A c \in {"strip_ansi"} : ~Has(g6, "group_policies", c)
      /\ \A c \in {"max_token_ttl_seconds"} : ~Has(g6, "group_policies", c)
      /\ Gift("group_policies", {"token_saver_enabled", "max_input_tokens"}) \subseteq g6
      /\ Gift("audit_log", SaverColumns) \subseteq g6
  <2>1. \A t \in {"mcp_servers", "mcp_server_policies", "tokens"} : ~HasTable(g6, t)
    BY BothHave, GiftHas
  <2>2. \A c \in McpColumns : ~Has(g6, "audit_log", c)
    BY BothHave, GiftHas, ColumnsApart
  <2>3. \A c \in {"collapse_repeated_lines"} : ~Has(g6, "group_policies", c)
    BY BothHave, GiftHas, ColumnsApart
  <2>4. \A c \in {"strip_ansi"} : ~Has(g6, "group_policies", c)
    BY BothHave, GiftHas, ColumnsApart
  <2>5. \A c \in {"max_token_ttl_seconds"} : ~Has(g6, "group_policies", c)
    BY BothHave, GiftHas, ColumnsApart
  <2>6. /\ Gift("group_policies", {"token_saver_enabled", "max_input_tokens"}) \subseteq g6
        /\ Gift("audit_log", SaverColumns) \subseteq g6
    BY DEF Join
  <2>. QED
    BY <2>1, <2>2, <2>3, <2>4, <2>5, <2>6
<1>8. /\ \A t \in {"mcp_servers", "mcp_server_policies", "tokens"} : ~HasTable(g7, t)
      /\ \A c \in McpColumns : ~Has(g7, "audit_log", c)
      /\ \A c \in {"strip_ansi"} : ~Has(g7, "group_policies", c)
      /\ \A c \in {"max_token_ttl_seconds"} : ~Has(g7, "group_policies", c)
      /\ Gift("group_policies", {"collapse_repeated_lines"}) \subseteq g7
  <2>1. \A t \in {"mcp_servers", "mcp_server_policies", "tokens"} : ~HasTable(g7, t)
    BY GiftHas
  <2>2. \A c \in McpColumns : ~Has(g7, "audit_log", c)
    BY GiftHas, ColumnsApart
  <2>3. \A c \in {"strip_ansi"} : ~Has(g7, "group_policies", c)
    BY GiftHas, ColumnsApart
  <2>4. \A c \in {"max_token_ttl_seconds"} : ~Has(g7, "group_policies", c)
    BY GiftHas, ColumnsApart
  <2>5. Gift("group_policies", {"collapse_repeated_lines"}) \subseteq g7
    OBVIOUS
  <2>. QED
    BY <2>1, <2>2, <2>3, <2>4, <2>5
<1>9. /\ \A t \in {"mcp_servers", "mcp_server_policies", "tokens"} : ~HasTable(g8, t)
      /\ \A c \in McpColumns : ~Has(g8, "audit_log", c)
      /\ \A c \in {"max_token_ttl_seconds"} : ~Has(g8, "group_policies", c)
      /\ Gift("group_policies", {"strip_ansi"}) \subseteq g8
  <2>1. \A t \in {"mcp_servers", "mcp_server_policies", "tokens"} : ~HasTable(g8, t)
    BY GiftHas
  <2>2. \A c \in McpColumns : ~Has(g8, "audit_log", c)
    BY GiftHas, ColumnsApart
  <2>3. \A c \in {"max_token_ttl_seconds"} : ~Has(g8, "group_policies", c)
    BY GiftHas, ColumnsApart
  <2>4. Gift("group_policies", {"strip_ansi"}) \subseteq g8
    OBVIOUS
  <2>. QED
    BY <2>1, <2>2, <2>3, <2>4
<1>10. /\ HasTable(g9, "mcp_servers") /\ HasTable(g9, "mcp_server_policies")
       /\ \A t \in {"tokens"} : ~HasTable(g9, t)
       /\ \A c \in {"max_token_ttl_seconds"} : ~Has(g9, "group_policies", c)
       /\ Gift("mcp_servers", McpServerModel) \subseteq g9
       /\ Gift("mcp_server_policies", McpServerPolicyModel) \subseteq g9
       /\ Gift("audit_log", McpColumns) \subseteq g9
  <2>1. HasTable(g9, "mcp_servers") /\ HasTable(g9, "mcp_server_policies")
    BY BothHave, GiftHas, NoTableIsEmpty
  <2>2. \A t \in {"tokens"} : ~HasTable(g9, t)
    BY BothHave, GiftHas
  <2>3. \A c \in {"max_token_ttl_seconds"} : ~Has(g9, "group_policies", c)
    BY BothHave, GiftHas, ColumnsApart
  <2>4. /\ Gift("mcp_servers", McpServerModel) \subseteq g9
        /\ Gift("mcp_server_policies", McpServerPolicyModel) \subseteq g9
        /\ Gift("audit_log", McpColumns) \subseteq g9
    BY DEF Join
  <2>. QED
    BY <2>1, <2>2, <2>3, <2>4
<1>11. /\ HasTable(g10, "tokens")
       /\ \A c \in {"device_fingerprint"} : ~Has(g10, "tokens", c)
       /\ \A c \in {"idx_tokens_token_hash"} : ~Has(g10, "tokens", c)
       /\ Gift("group_policies", {"max_token_ttl_seconds"}) \subseteq g10
       /\ Gift("tokens", TokenColumns) \subseteq g10
  <2>1. HasTable(g10, "tokens")
    BY BothHave, GiftHas, NoTableIsEmpty
  <2>2. \A c \in {"device_fingerprint"} : ~Has(g10, "tokens", c)
    BY BothHave, GiftHas, ColumnsApart
  <2>3. \A c \in {"idx_tokens_token_hash"} : ~Has(g10, "tokens", c)
    BY BothHave, GiftHas, ColumnsApart
  <2>4. /\ Gift("group_policies", {"max_token_ttl_seconds"}) \subseteq g10
        /\ Gift("tokens", TokenColumns) \subseteq g10
    BY DEF Join
  <2>. QED
    BY <2>1, <2>2, <2>3, <2>4
<1>12. /\ \A c \in {"idx_tokens_token_hash"} : ~Has(g11, "tokens", c)
       /\ Gift("tokens", {"device_fingerprint"}) \subseteq g11
  <2>1. \A c \in {"idx_tokens_token_hash"} : ~Has(g11, "tokens", c)
    BY GiftHas, ColumnsApart
  <2>2. Gift("tokens", {"device_fingerprint"}) \subseteq g11
    OBVIOUS
  <2>. QED
    BY <2>1, <2>2
<1>13. Gift("tokens", {"idx_tokens_token_hash"}) \subseteq g12
  OBVIOUS
<1>. HIDE DEF g1, g2, g3, g4, g5, g6, g7, g8, g9, g10, g11, g12
<1>14. Reached(list, 0, {}) /\ \A t : ~HasTable({}, t)
  BY NoneReached, NothingHas
<1>15. /\ Reached(list, 1, s1)
       /\ \A t \in {"group_policies", "admin_audit_log", "usage_counters", "providers",
            "provider_keys", "provider_key_access", "mcp_servers", "mcp_server_policies",
            "tokens"} : ~HasTable(s1, t)
       /\ Lacks(s1, "audit_log", EnrichmentColumns)
       /\ Lacks(s1, "audit_log", SaverColumns)
       /\ Lacks(s1, "audit_log", McpColumns)
  <2>1. FitsAfter(CentralInitial, {}) /\ Made(CentralInitial.up) = g1
    BY <1>14, CentralInitialFits DEF Lacks, g1
  <2>2. Reached(list, 0 + 1, Join({}, g1))
    BY <1>1, <1>14, <2>1, OneMoreReached
  <2>3. \A t \in {"group_policies", "admin_audit_log", "usage_counters", "providers",
          "provider_keys", "provider_key_access", "mcp_servers", "mcp_server_policies",
          "tokens"} : ~HasTable(s1, t)
    BY <1>2, <1>14, BothHave
  <2>4. Lacks(s1, "audit_log", EnrichmentColumns)
    BY <1>2, <1>14, LacksAtFirst
  <2>5. Lacks(s1, "audit_log", SaverColumns)
    BY <1>2, <1>14, LacksAtFirst
  <2>6. Lacks(s1, "audit_log", McpColumns)
    BY <1>2, <1>14, LacksAtFirst
  <2>. QED
    BY <2>2, <2>3, <2>4, <2>5, <2>6
<1>. HIDE DEF s1
<1>16. /\ Reached(list, 2, s2)
       /\ \A t \in {"group_policies", "admin_audit_log", "usage_counters", "providers",
            "provider_keys", "provider_key_access", "mcp_servers", "mcp_server_policies",
            "tokens"} : ~HasTable(s2, t)
       /\ Lacks(s2, "audit_log", SaverColumns)
       /\ Lacks(s2, "audit_log", McpColumns)
  <2>1. FitsAfter(Migration0002AuditEnrichment, s1)
        /\ Made(Migration0002AuditEnrichment.up) = g2
    BY <1>15, AuditEnrichmentFits DEF Lacks, g2
  <2>2. Reached(list, 1 + 1, Join(s1, g2))
    BY <1>1, <1>15, <2>1, OneMoreReached
  <2>3. \A t \in {"group_policies", "admin_audit_log", "usage_counters", "providers",
          "provider_keys", "provider_key_access", "mcp_servers", "mcp_server_policies",
          "tokens"} : ~HasTable(s2, t)
    BY <1>3, <1>15, BothHave
  <2>4. Lacks(s2, "audit_log", SaverColumns)
    BY <1>3, <1>15, LacksStill
  <2>5. Lacks(s2, "audit_log", McpColumns)
    BY <1>3, <1>15, LacksStill
  <2>. QED
    BY <2>2, <2>3, <2>4, <2>5
<1>. HIDE DEF s2
<1>17. /\ Reached(list, 3, s3)
       /\ \A t \in {"usage_counters", "providers", "provider_keys", "provider_key_access",
            "mcp_servers", "mcp_server_policies", "tokens"} : ~HasTable(s3, t)
       /\ Lacks(s3, "audit_log", SaverColumns)
       /\ Lacks(s3, "audit_log", McpColumns)
       /\ Lacks(s3, "group_policies", {"token_saver_enabled", "max_input_tokens"})
       /\ Lacks(s3, "group_policies", {"collapse_repeated_lines"})
       /\ Lacks(s3, "group_policies", {"strip_ansi"})
       /\ Lacks(s3, "group_policies", {"max_token_ttl_seconds"})
  <2>1. FitsAfter(Migration0003GroupPolicies, s2) /\ Made(Migration0003GroupPolicies.up) = g3
    BY <1>16, GroupPoliciesFits DEF Lacks, g3
  <2>2. Reached(list, 2 + 1, Join(s2, g3))
    BY <1>1, <1>16, <2>1, OneMoreReached
  <2>3. \A t \in {"usage_counters", "providers", "provider_keys", "provider_key_access",
          "mcp_servers", "mcp_server_policies", "tokens"} : ~HasTable(s3, t)
    BY <1>4, <1>16, BothHave
  <2>4. Lacks(s3, "audit_log", SaverColumns)
    BY <1>4, <1>16, LacksStill
  <2>5. Lacks(s3, "audit_log", McpColumns)
    BY <1>4, <1>16, LacksStill
  <2>6. Lacks(s3, "group_policies", {"token_saver_enabled", "max_input_tokens"})
    BY <1>4, <1>16, LacksAtFirst
  <2>7. Lacks(s3, "group_policies", {"collapse_repeated_lines"})
    BY <1>4, <1>16, LacksAtFirst
  <2>8. Lacks(s3, "group_policies", {"strip_ansi"})
    BY <1>4, <1>16, LacksAtFirst
  <2>9. Lacks(s3, "group_policies", {"max_token_ttl_seconds"})
    BY <1>4, <1>16, LacksAtFirst
  <2>. QED
    BY <2>2, <2>3, <2>4, <2>5, <2>6, <2>7, <2>8, <2>9
<1>. HIDE DEF s3
<1>18. /\ Reached(list, 4, s4)
       /\ \A t \in {"providers", "provider_keys", "provider_key_access", "mcp_servers",
            "mcp_server_policies", "tokens"} : ~HasTable(s4, t)
       /\ Lacks(s4, "audit_log", SaverColumns)
       /\ Lacks(s4, "audit_log", McpColumns)
       /\ Lacks(s4, "group_policies", {"token_saver_enabled", "max_input_tokens"})
       /\ Lacks(s4, "group_policies", {"collapse_repeated_lines"})
       /\ Lacks(s4, "group_policies", {"strip_ansi"})
       /\ Lacks(s4, "group_policies", {"max_token_ttl_seconds"})
  <2>1. FitsAfter(Migration0004UsageCounters, s3) /\ Made(Migration0004UsageCounters.up) = g4
    BY <1>17, UsageCountersFits DEF Lacks, g4
  <2>2. Reached(list, 3 + 1, Join(s3, g4))
    BY <1>1, <1>17, <2>1, OneMoreReached
  <2>3. \A t \in {"providers", "provider_keys", "provider_key_access", "mcp_servers",
          "mcp_server_policies", "tokens"} : ~HasTable(s4, t)
    BY <1>5, <1>17, BothHave
  <2>4. Lacks(s4, "audit_log", SaverColumns)
    BY <1>5, <1>17, LacksStill
  <2>5. Lacks(s4, "audit_log", McpColumns)
    BY <1>5, <1>17, LacksStill
  <2>6. Lacks(s4, "group_policies", {"token_saver_enabled", "max_input_tokens"})
    BY <1>5, <1>17, LacksStill
  <2>7. Lacks(s4, "group_policies", {"collapse_repeated_lines"})
    BY <1>5, <1>17, LacksStill
  <2>8. Lacks(s4, "group_policies", {"strip_ansi"})
    BY <1>5, <1>17, LacksStill
  <2>9. Lacks(s4, "group_policies", {"max_token_ttl_seconds"})
    BY <1>5, <1>17, LacksStill
  <2>. QED
    BY <2>2, <2>3, <2>4, <2>5, <2>6, <2>7, <2>8, <2>9
<1>. HIDE DEF s4
<1>19. /\ Reached(list, 5, s5)
       /\ \A t \in {"mcp_servers", "mcp_server_policies", "tokens"} : ~HasTable(s5, t)
       /\ Lacks(s5, "audit_log", SaverColumns)
       /\ Lacks(s5, "audit_log", McpColumns)
       /\ Lacks(s5, "group_policies", {"token_saver_enabled", "max_input_tokens"})
       /\ Lacks(s5, "group_policies", {"collapse_repeated_lines"})
       /\ Lacks(s5, "group_policies", {"strip_ansi"})
       /\ Lacks(s5, "group_policies", {"max_token_ttl_seconds"})
  <2>1. FitsAfter(Migration0005Providers, s4) /\ Made(Migration0005Providers.up) = g5
    BY <1>18, ProvidersFits DEF Lacks, g5
  <2>2. Reached(list, 4 + 1, Join(s4, g5))
    BY <1>1, <1>18, <2>1, OneMoreReached
  <2>3. \A t \in {"mcp_servers", "mcp_server_policies", "tokens"} : ~HasTable(s5, t)
    BY <1>6, <1>18, BothHave
  <2>4. Lacks(s5, "audit_log", SaverColumns)
    BY <1>6, <1>18, LacksStill
  <2>5. Lacks(s5, "audit_log", McpColumns)
    BY <1>6, <1>18, LacksStill
  <2>6. Lacks(s5, "group_policies", {"token_saver_enabled", "max_input_tokens"})
    BY <1>6, <1>18, LacksStill
  <2>7. Lacks(s5, "group_policies", {"collapse_repeated_lines"})
    BY <1>6, <1>18, LacksStill
  <2>8. Lacks(s5, "group_policies", {"strip_ansi"})
    BY <1>6, <1>18, LacksStill
  <2>9. Lacks(s5, "group_policies", {"max_token_ttl_seconds"})
    BY <1>6, <1>18, LacksStill
  <2>. QED
    BY <2>2, <2>3, <2>4, <2>5, <2>6, <2>7, <2>8, <2>9
<1>. HIDE DEF s5
<1>20. /\ Reached(list, 6, s6)
       /\ \A t \in {"mcp_servers", "mcp_server_policies", "tokens"} : ~HasTable(s6, t)
       /\ Lacks(s6, "audit_log", McpColumns)
       /\ Lacks(s6, "group_policies", {"collapse_repeated_lines"})
       /\ Lacks(s6, "group_policies", {"strip_ansi"})
       /\ Lacks(s6, "group_policies", {"max_token_ttl_seconds"})
  <2>1. FitsAfter(Migration0006TokenSaver, s5) /\ Made(Migration0006TokenSaver.up) = g6
    BY <1>19, TokenSaverFits DEF Lacks, g6
  <2>2. Reached(list, 5 + 1, Join(s5, g6))
    BY <1>1, <1>19, <2>1, OneMoreReached
  <2>3. \A t \in {"mcp_servers", "mcp_server_policies", "tokens"} : ~HasTable(s6, t)
    BY <1>7, <1>19, BothHave
  <2>4. Lacks(s6, "audit_log", McpColumns)
    BY <1>7, <1>19, LacksStill
  <2>5. Lacks(s6, "group_policies", {"collapse_repeated_lines"})
    BY <1>7, <1>19, LacksStill
  <2>6. Lacks(s6, "group_policies", {"strip_ansi"})
    BY <1>7, <1>19, LacksStill
  <2>7. Lacks(s6, "group_policies", {"max_token_ttl_seconds"})
    BY <1>7, <1>19, LacksStill
  <2>. QED
    BY <2>2, <2>3, <2>4, <2>5, <2>6, <2>7
<1>. HIDE DEF s6
<1>21. /\ Reached(list, 7, s7)
       /\ \A t \in {"mcp_servers", "mcp_server_policies", "tokens"} : ~HasTable(s7, t)
       /\ Lacks(s7, "audit_log", McpColumns)
       /\ Lacks(s7, "group_policies", {"strip_ansi"})
       /\ Lacks(s7, "group_policies", {"max_token_ttl_seconds"})
  <2>1. FitsAfter(Migration0007CollapseRepeatedLines, s6)
        /\ Made(Migration0007CollapseRepeatedLines.up) = g7
    <3>1. Migration0007CollapseRepeatedLines.up = AddColumns("group_policies",
            <<"collapse_repeated_lines">>) /\ Migration0007CollapseRepeatedLines.down = <<>>
      BY DEF Migration0007CollapseRepeatedLines
    <3>2. HasTable(s6, "group_policies") /\ ~Has(s6, "group_policies", "collapse_repeated_lines")
      BY <1>20 DEF Lacks
    <3>. QED
      BY <3>1, <3>2, OneColumnFits DEF g7
  <2>2. Reached(list, 6 + 1, Join(s6, g7))
    BY <1>1, <1>20, <2>1, OneMoreReached
  <2>3. \A t \in {"mcp_servers", "mcp_server_policies", "tokens"} : ~HasTable(s7, t)
    BY <1>8, <1>20, BothHave
  <2>4. Lacks(s7, "audit_log", McpColumns)
    BY <1>8, <1>20, LacksStill
  <2>5. Lacks(s7, "group_policies", {"strip_ansi"})
    BY <1>8, <1>20, LacksStill
  <2>6. Lacks(s7, "group_policies", {"max_token_ttl_seconds"})
    BY <1>8, <1>20, LacksStill
  <2>. QED
    BY <2>2, <2>3, <2>4, <2>5, <2>6
<1>. HIDE DEF s7
<1>22. /\ Reached(list, 8, s8)
       /\ \A t \in {"mcp_servers", "mcp_server_policies", "tokens"} : ~HasTable(s8, t)
       /\ Lacks(s8, "audit_log", McpColumns)
       /\ Lacks(s8, "group_policies", {"max_token_ttl_seconds"})
  <2>1. FitsAfter(Migration0008StripAnsi, s7) /\ Made(Migration0008StripAnsi.up) = g8
    <3>1. Migration0008StripAnsi.up = AddColumns("group_policies", <<"strip_ansi">>)
          /\ Migration0008StripAnsi.down = <<>>
      BY DEF Migration0008StripAnsi
    <3>2. HasTable(s7, "group_policies") /\ ~Has(s7, "group_policies", "strip_ansi")
      BY <1>21 DEF Lacks
    <3>. QED
      BY <3>1, <3>2, OneColumnFits DEF g8
  <2>2. Reached(list, 7 + 1, Join(s7, g8))
    BY <1>1, <1>21, <2>1, OneMoreReached
  <2>3. \A t \in {"mcp_servers", "mcp_server_policies", "tokens"} : ~HasTable(s8, t)
    BY <1>9, <1>21, BothHave
  <2>4. Lacks(s8, "audit_log", McpColumns)
    BY <1>9, <1>21, LacksStill
  <2>5. Lacks(s8, "group_policies", {"max_token_ttl_seconds"})
    BY <1>9, <1>21, LacksStill
  <2>. QED
    BY <2>2, <2>3, <2>4, <2>5
<1>. HIDE DEF s8
<1>23. /\ Reached(list, 9, s9)
       /\ \A t \in {"tokens"} : ~HasTable(s9, t)
       /\ Lacks(s9, "group_policies", {"max_token_ttl_seconds"})
  <2>1. FitsAfter(Migration0009Mcp, s8) /\ Made(Migration0009Mcp.up) = g9
    BY <1>22, McpFits DEF Lacks, g9
  <2>2. Reached(list, 8 + 1, Join(s8, g9))
    BY <1>1, <1>22, <2>1, OneMoreReached
  <2>3. \A t \in {"tokens"} : ~HasTable(s9, t)
    BY <1>10, <1>22, BothHave
  <2>4. Lacks(s9, "group_policies", {"max_token_ttl_seconds"})
    BY <1>10, <1>22, LacksStill
  <2>. QED
    BY <2>2, <2>3, <2>4
<1>. HIDE DEF s9
<1>24. /\ Reached(list, 10, s10)
       /\ Lacks(s10, "tokens", {"device_fingerprint"})
       /\ Lacks(s10, "tokens", {"idx_tokens_token_hash"})
  <2>1. FitsAfter(Migration0010Tokens, s9) /\ Made(Migration0010Tokens.up) = g10
    BY <1>23, TokensFits DEF Lacks, g10
  <2>2. Reached(list, 9 + 1, Join(s9, g10))
    BY <1>1, <1>23, <2>1, OneMoreReached
  <2>3. Lacks(s10, "tokens", {"device_fingerprint"})
    BY <1>11, <1>23, LacksAtFirst
  <2>4. Lacks(s10, "tokens", {"idx_tokens_token_hash"})
    BY <1>11, <1>23, LacksAtFirst
  <2>. QED
    BY <2>2, <2>3, <2>4
<1>. HIDE DEF s10
<1>25. /\ Reached(list, 11, s11)
       /\ Lacks(s11, "tokens", {"idx_tokens_token_hash"})
  <2>1. FitsAfter(Migration0011DeviceFingerprint, s10)
        /\ Made(Migration0011DeviceFingerprint.up) = g11
    <3>1. Migration0011DeviceFingerprint.up = AddColumns("tokens", <<"device_fingerprint">>)
          /\ Migration0011DeviceFingerprint.down = <<>>
      BY DEF Migration0011DeviceFingerprint
    <3>2. HasTable(s10, "tokens") /\ ~Has(s10, "tokens", "device_fingerprint")
      BY <1>24 DEF Lacks
    <3>. QED
      BY <3>1, <3>2, OneColumnFits DEF g11
  <2>2. Reached(list, 10 + 1, Join(s10, g11))
    BY <1>1, <1>24, <2>1, OneMoreReached
  <2>3. Lacks(s11, "tokens", {"idx_tokens_token_hash"})
    BY <1>12, <1>24, LacksStill
  <2>. QED
    BY <2>2, <2>3
<1>. HIDE DEF s11
<1>26. Reached(list, 12, s12)
  <2>1. FitsAfter(Migration0012TokenHashIndex, s11)
        /\ Made(Migration0012TokenHashIndex.up) = g12
    BY <1>25, TokenHashIndexFits DEF Lacks, g12
  <2>2. Reached(list, 11 + 1, Join(s11, g12))
    BY <1>1, <1>25, <2>1, OneMoreReached
  <2>. QED
    BY <2>2
<1>. HIDE DEF s12
<1>27. g1 \subseteq s12 /\ g2 \subseteq s12 /\ g3 \subseteq s12 /\ g4 \subseteq s12
       /\ g5 \subseteq s12 /\ g6 \subseteq s12 /\ g7 \subseteq s12 /\ g8 \subseteq s12
       /\ g9 \subseteq s12 /\ g10 \subseteq s12 /\ g11 \subseteq s12 /\ g12 \subseteq s12
  BY DEF Join, s1, s2, s3, s4, s5, s6, s7, s8, s9, s10, s11, s12
<1>. QED
  BY <1>26, <1>27, <1>2, <1>3, <1>4, <1>5, <1>6, <1>7, <1>8, <1>9, <1>10, <1>11, <1>12,
       <1>13 DEF list

\* Each migration of the relay finds what it needs, and what it makes is new.
LEMMA RelayMigrationsRun ==
  \E schema :
    /\ Reached(RelayMigrations, 4, schema)
    /\ Gift("identities", IdentityModel) \subseteq schema
    /\ Gift("api_keys", ApiKeyColumns) \subseteq schema
    /\ Gift("relay_activity_log", ActivityColumns) \subseteq schema
    /\ Gift("relay_activity_log", Triggers) \subseteq schema
    /\ Gift("api_keys", {"expires_at"}) \subseteq schema
    /\ Gift("relay_activity_log", {"mcp_server", "mcp_tool", "mcp_method"}) \subseteq schema
<1>. DEFINE list == RelayMigrations
            g1 == Join(Gift("identities", IdentityModel),
                       Gift("api_keys", ApiKeyColumns))
            g2 == Join(Gift("relay_activity_log", ActivityColumns),
                       Gift("relay_activity_log", Triggers))
            g3 == Gift("api_keys", {"expires_at"})
            g4 == Gift("relay_activity_log", {"mcp_server", "mcp_tool", "mcp_method"})
            s1 == Join({}, g1)
            s2 == Join(s1, g2)
            s3 == Join(s2, g3)
            s4 == Join(s3, g4)
<1>1. /\ list[1] = RelayInitial
      /\ list[2] = Migration0002RelayActivityLog
      /\ list[3] = Migration0003ApiKeyExpiry
      /\ list[4] = Migration0004McpActivity
  BY DEF RelayMigrations
<1>. HIDE DEF list
<1>2. /\ HasTable(g1, "identities") /\ HasTable(g1, "api_keys")
      /\ \A t \in {"relay_activity_log"} : ~HasTable(g1, t)
      /\ \A c \in {"expires_at"} : ~Has(g1, "api_keys", c)
      /\ Gift("identities", IdentityModel) \subseteq g1
      /\ Gift("api_keys", ApiKeyColumns) \subseteq g1
  <2>1. HasTable(g1, "identities") /\ HasTable(g1, "api_keys")
    BY BothHave, GiftHas, NoTableIsEmpty
  <2>2. \A t \in {"relay_activity_log"} : ~HasTable(g1, t)
    BY BothHave, GiftHas
  <2>3. \A c \in {"expires_at"} : ~Has(g1, "api_keys", c)
    BY BothHave, GiftHas, ColumnsApart
  <2>4. /\ Gift("identities", IdentityModel) \subseteq g1
        /\ Gift("api_keys", ApiKeyColumns) \subseteq g1
    BY DEF Join
  <2>. QED
    BY <2>1, <2>2, <2>3, <2>4
<1>3. /\ HasTable(g2, "relay_activity_log")
      /\ \A c \in {"expires_at"} : ~Has(g2, "api_keys", c)
      /\ \A c \in {"mcp_server", "mcp_tool", "mcp_method"} : ~Has(g2, "relay_activity_log", c)
      /\ Gift("relay_activity_log", ActivityColumns) \subseteq g2
      /\ Gift("relay_activity_log", Triggers) \subseteq g2
  <2>1. HasTable(g2, "relay_activity_log")
    BY BothHave, GiftHas, NoTableIsEmpty
  <2>2. \A c \in {"expires_at"} : ~Has(g2, "api_keys", c)
    BY BothHave, GiftHas, ColumnsApart
  <2>3. \A c \in {"mcp_server", "mcp_tool", "mcp_method"} : ~Has(g2, "relay_activity_log", c)
    BY BothHave, GiftHas, ColumnsApart
  <2>4. /\ Gift("relay_activity_log", ActivityColumns) \subseteq g2
        /\ Gift("relay_activity_log", Triggers) \subseteq g2
    BY DEF Join
  <2>. QED
    BY <2>1, <2>2, <2>3, <2>4
<1>4. /\ \A c \in {"mcp_server", "mcp_tool", "mcp_method"} : ~Has(g3, "relay_activity_log", c)
      /\ Gift("api_keys", {"expires_at"}) \subseteq g3
  <2>1. \A c \in {"mcp_server", "mcp_tool", "mcp_method"} : ~Has(g3, "relay_activity_log", c)
    BY GiftHas, ColumnsApart
  <2>2. Gift("api_keys", {"expires_at"}) \subseteq g3
    OBVIOUS
  <2>. QED
    BY <2>1, <2>2
<1>5. Gift("relay_activity_log", {"mcp_server", "mcp_tool", "mcp_method"}) \subseteq g4
  OBVIOUS
<1>. HIDE DEF g1, g2, g3, g4
<1>6. Reached(list, 0, {}) /\ \A t : ~HasTable({}, t)
  BY NoneReached, NothingHas
<1>7. /\ Reached(list, 1, s1)
      /\ \A t \in {"relay_activity_log"} : ~HasTable(s1, t)
      /\ Lacks(s1, "api_keys", {"expires_at"})
  <2>1. FitsAfter(RelayInitial, {}) /\ Made(RelayInitial.up) = g1
    BY <1>6, RelayInitialFits DEF Lacks, g1
  <2>2. Reached(list, 0 + 1, Join({}, g1))
    BY <1>1, <1>6, <2>1, OneMoreReached
  <2>3. \A t \in {"relay_activity_log"} : ~HasTable(s1, t)
    BY <1>2, <1>6, BothHave
  <2>4. Lacks(s1, "api_keys", {"expires_at"})
    BY <1>2, <1>6, LacksAtFirst
  <2>. QED
    BY <2>2, <2>3, <2>4
<1>. HIDE DEF s1
<1>8. /\ Reached(list, 2, s2)
      /\ Lacks(s2, "api_keys", {"expires_at"})
      /\ Lacks(s2, "relay_activity_log", {"mcp_server", "mcp_tool", "mcp_method"})
  <2>1. FitsAfter(Migration0002RelayActivityLog, s1)
        /\ Made(Migration0002RelayActivityLog.up) = g2
    BY <1>7, ActivityLogFits DEF Lacks, g2
  <2>2. Reached(list, 1 + 1, Join(s1, g2))
    BY <1>1, <1>7, <2>1, OneMoreReached
  <2>3. Lacks(s2, "api_keys", {"expires_at"})
    BY <1>3, <1>7, LacksStill
  <2>4. Lacks(s2, "relay_activity_log", {"mcp_server", "mcp_tool", "mcp_method"})
    BY <1>3, <1>7, LacksAtFirst
  <2>. QED
    BY <2>2, <2>3, <2>4
<1>. HIDE DEF s2
<1>9. /\ Reached(list, 3, s3)
      /\ Lacks(s3, "relay_activity_log", {"mcp_server", "mcp_tool", "mcp_method"})
  <2>1. FitsAfter(Migration0003ApiKeyExpiry, s2) /\ Made(Migration0003ApiKeyExpiry.up) = g3
    BY <1>8, ApiKeyExpiryFits DEF Lacks, g3
  <2>2. Reached(list, 2 + 1, Join(s2, g3))
    BY <1>1, <1>8, <2>1, OneMoreReached
  <2>3. Lacks(s3, "relay_activity_log", {"mcp_server", "mcp_tool", "mcp_method"})
    BY <1>4, <1>8, LacksStill
  <2>. QED
    BY <2>2, <2>3
<1>. HIDE DEF s3
<1>10. Reached(list, 4, s4)
  <2>1. FitsAfter(Migration0004McpActivity, s3) /\ Made(Migration0004McpActivity.up) = g4
    BY <1>9, McpActivityFits DEF Lacks, g4
  <2>2. Reached(list, 3 + 1, Join(s3, g4))
    BY <1>1, <1>9, <2>1, OneMoreReached
  <2>. QED
    BY <2>2
<1>. HIDE DEF s4
<1>11. g1 \subseteq s4 /\ g2 \subseteq s4 /\ g3 \subseteq s4 /\ g4 \subseteq s4
  BY DEF Join, s1, s2, s3, s4
<1>. QED
  BY <1>10, <1>11, <1>2, <1>3, <1>4, <1>5 DEF list

\* What the code asks of a database is what the migrations make.
LEMMA AskedOf ==
  ASSUME NEW entities, NEW x \in Asked(entities)
  PROVE  /\ x[1] \in DOMAIN entities
         /\ \/ x \in Gift(x[1], entities[x[1]])
            \/ x[1] \in AppendOnlyLogs /\ x \in Gift(x[1], Triggers)
<1>1. PICK t \in DOMAIN entities :
        x \in {t} \X (entities[t] \cup
                        IF t \in AppendOnlyLogs THEN {"no_update", "no_delete"} ELSE {})
  BY DEF Asked
<1>2. x = <<t, x[2]>> /\ x[1] = t
  BY <1>1
<1>. QED
  BY <1>1, <1>2 DEF Gift, Triggers

LEMMA GiftOfParts ==
  ASSUME NEW t, NEW items, NEW schema,
         \A c \in items : \E part : c \in part /\ Gift(t, part) \subseteq schema
  PROVE  Gift(t, items) \subseteq schema
<1>. SUFFICES ASSUME NEW x \in Gift(t, items)
              PROVE  x \in schema
  OBVIOUS
<1>1. x = <<t, x[2]>> /\ x[2] \in items
  BY PairIsOf DEF Gift
<1>2. PICK part : x[2] \in part /\ Gift(t, part) \subseteq schema
  BY <1>1
<1>. QED
  BY <1>1, <1>2 DEF Gift

LEMMA CentralMigrationsFit == MigrationsFit(CentralMigrations, CentralEntities)
<1>1. PICK schema :
        /\ Reached(CentralMigrations, 12, schema)
        /\ Gift("devices", DeviceModel) \subseteq schema
        /\ Gift("audit_log", AuditColumns) \subseteq schema
        /\ Gift("audit_log", Triggers) \subseteq schema
        /\ Gift("audit_log", EnrichmentColumns) \subseteq schema
        /\ Gift("group_policies", PolicyColumns) \subseteq schema
        /\ Gift("admin_audit_log", AdminAuditLogModel) \subseteq schema
        /\ Gift("admin_audit_log", Triggers) \subseteq schema
        /\ Gift("usage_counters", CounterColumns) \subseteq schema
        /\ Gift("providers", ProviderModel) \subseteq schema
        /\ Gift("provider_keys", ProviderKeyModel) \subseteq schema
        /\ Gift("provider_key_access", ProviderKeyAccessModel) \subseteq schema
        /\ Gift("group_policies", {"token_saver_enabled", "max_input_tokens"}) \subseteq schema
        /\ Gift("audit_log", SaverColumns) \subseteq schema
        /\ Gift("group_policies", {"collapse_repeated_lines"}) \subseteq schema
        /\ Gift("group_policies", {"strip_ansi"}) \subseteq schema
        /\ Gift("mcp_servers", McpServerModel) \subseteq schema
        /\ Gift("mcp_server_policies", McpServerPolicyModel) \subseteq schema
        /\ Gift("audit_log", McpColumns) \subseteq schema
        /\ Gift("group_policies", {"max_token_ttl_seconds"}) \subseteq schema
        /\ Gift("tokens", TokenColumns) \subseteq schema
        /\ Gift("tokens", {"device_fingerprint"}) \subseteq schema
  BY CentralMigrationsRun
<1>2. Gift("audit_log", AuditLogModel) \subseteq schema
  <2>1. \A c \in AuditLogModel : \/ c \in AuditColumns \/ c \in EnrichmentColumns
                                 \/ c \in SaverColumns \/ c \in McpColumns
    BY DEF AuditLogModel, AuditColumns, EnrichmentColumns, SaverColumns, McpColumns
  <2>. QED
    BY <1>1, <2>1, GiftOfParts
<1>3. Gift("group_policies", GroupPolicyModel) \subseteq schema
  <2>1. \A c \in GroupPolicyModel :
          \/ c \in PolicyColumns \/ c \in {"token_saver_enabled", "max_input_tokens"}
          \/ c \in {"collapse_repeated_lines"} \/ c \in {"strip_ansi"}
          \/ c \in {"max_token_ttl_seconds"}
    BY DEF GroupPolicyModel, PolicyColumns
  <2>. QED
    BY <1>1, <2>1, GiftOfParts
<1>4. Gift("tokens", TokenModel) \subseteq schema
  <2>1. \A c \in TokenModel : c \in TokenColumns \/ c \in {"device_fingerprint"}
    BY DEF TokenModel, TokenColumns
  <2>. QED
    BY <1>1, <2>1, GiftOfParts
<1>5. /\ DOMAIN CentralEntities =
           {"devices", "audit_log", "group_policies", "admin_audit_log", "usage_counters",
            "providers", "provider_keys", "provider_key_access", "mcp_servers",
            "mcp_server_policies", "tokens"}
      /\ CentralEntities["devices"] = DeviceModel
      /\ CentralEntities["audit_log"] = AuditLogModel
      /\ CentralEntities["group_policies"] = GroupPolicyModel
      /\ CentralEntities["admin_audit_log"] = AdminAuditLogModel
      /\ CentralEntities["usage_counters"] = CounterColumns
      /\ CentralEntities["providers"] = ProviderModel
      /\ CentralEntities["provider_keys"] = ProviderKeyModel
      /\ CentralEntities["provider_key_access"] = ProviderKeyAccessModel
      /\ CentralEntities["mcp_servers"] = McpServerModel
      /\ CentralEntities["mcp_server_policies"] = McpServerPolicyModel
      /\ CentralEntities["tokens"] = TokenModel
  BY DEF CentralEntities, CounterColumns
<1>6. PICK entities : entities = CentralEntities
  OBVIOUS
<1>7. \A t \in DOMAIN entities : Gift(t, entities[t]) \subseteq schema
  BY <1>1, <1>2, <1>3, <1>4, <1>5, <1>6
<1>8. \A t \in DOMAIN entities : t \in AppendOnlyLogs => Gift(t, Triggers) \subseteq schema
  BY <1>1, <1>5, <1>6 DEF AppendOnlyLogs
<1>9. Asked(entities) \subseteq schema
  BY <1>7, <1>8, AskedOf
<1>10. PICK n : n = 12
  OBVIOUS
<1>11. Len(CentralMigrations) = n
  BY <1>10 DEF CentralMigrations
<1>12. Reached(CentralMigrations, n, schema)
  BY <1>1, <1>10
<1>. QED
  BY <1>6, <1>9, <1>11, <1>12 DEF MigrationsFit, Reached

LEMMA RelayMigrationsFit == MigrationsFit(RelayMigrations, RelayEntities)
<1>1. PICK schema :
        /\ Reached(RelayMigrations, 4, schema)
        /\ Gift("identities", IdentityModel) \subseteq schema
        /\ Gift("relay_activity_log", ActivityColumns) \subseteq schema
        /\ Gift("relay_activity_log", Triggers) \subseteq schema
        /\ Gift("relay_activity_log", {"mcp_server", "mcp_tool", "mcp_method"}) \subseteq schema
  BY RelayMigrationsRun
<1>2. Gift("relay_activity_log", RelayActivityLogModel) \subseteq schema
  <2>1. \A c \in RelayActivityLogModel :
          c \in ActivityColumns \/ c \in {"mcp_server", "mcp_tool", "mcp_method"}
    BY DEF RelayActivityLogModel, ActivityColumns
  <2>. QED
    BY <1>1, <2>1, GiftOfParts
<1>3. /\ DOMAIN RelayEntities = {"identities", "relay_activity_log"}
      /\ RelayEntities["identities"] = IdentityModel
      /\ RelayEntities["relay_activity_log"] = RelayActivityLogModel
  BY DEF RelayEntities
<1>4. PICK entities : entities = RelayEntities
  OBVIOUS
<1>5. \A t \in DOMAIN entities : Gift(t, entities[t]) \subseteq schema
  BY <1>1, <1>2, <1>3, <1>4
<1>6. \A t \in DOMAIN entities : t \in AppendOnlyLogs => Gift(t, Triggers) \subseteq schema
  BY <1>1, <1>3, <1>4 DEF AppendOnlyLogs
<1>7. Asked(entities) \subseteq schema
  BY <1>5, <1>6, AskedOf
<1>8. PICK n : n = 4
  OBVIOUS
<1>9. Len(RelayMigrations) = n
  BY <1>8 DEF RelayMigrations
<1>10. Reached(RelayMigrations, n, schema)
  BY <1>1, <1>8
<1>. QED
  BY <1>4, <1>7, <1>9, <1>10 DEF MigrationsFit, Reached

LEMMA BothMigrationsFit ==
  /\ MigrationsFit(CentralMigrations, CentralEntities)
  /\ MigrationsFit(RelayMigrations, RelayEntities)
BY CentralMigrationsFit, RelayMigrationsFit

\* Any step keeps the invariant.
LEMMA SchemaStepKeeps ==
  ASSUME NEW list, NEW n, Fits(list), Migrations = list, SchemaIs(list, n), [SchemaNext]_schemaVars
  PROVE  \E m \in 0..Len(list) : SchemaIs(list, m)'
<1>1. n \in 0..Len(list) /\ recorded = 1..n
  BY DEF SchemaIs, SchemaBase
<1>2. CASE UNCHANGED schemaVars
  <2>1. SchemaIs(list, n)'
    BY <1>2 DEF schemaVars, SchemaIs, SchemaBase, NobodyDown, RestIs, UpIs, DownIs, Started
  <2>. QED
    BY <1>1, <2>1
<1>3. ASSUME NEW p \in Processes,
             \/ Setup(p) \/ Reset(p)
             \/ Statement(p) \/ Record(p) \/ Kill(p)
             \/ ResetDone(p) \/ ServeCentral(p) \/ ServeRelay(p) \/ Shutdown(p)
      PROVE  \E m \in 0..Len(list) : SchemaIs(list, m)'
  <2>1. CASE Setup(p)
    BY <1>1, <2>1, SetupKeeps
  <2>2. CASE Reset(p)
    BY <1>1, <2>2, ResetKeeps
  <2>3. CASE Statement(p)
    <3>1. process[p].step = "up" \/ process[p].step = "down"
      BY <2>3 DEF Statement, Busy
    <3>. QED
      BY <1>1, <2>3, <3>1, StatementUpKeeps, StatementDownKeeps
  <2>4. CASE Record(p)
    <3>1. process[p].step = "up" \/ process[p].step = "down"
      BY <2>4 DEF Record, Busy
    <3>. QED
      BY <2>4, <3>1, RecordUpKeeps, RecordDownKeeps
  <2>5. CASE Kill(p)
    BY <1>1, <2>5, KillKeeps
  <2>6. CASE ResetDone(p)
    BY <1>1, <2>6, ResetDoneKeeps
  <2>7. CASE ServeCentral(p) \/ ServeRelay(p)
    <3>1. /\ process[p].step = "up" /\ process[p].todo = {}
          /\ UNCHANGED <<made, recorded, killed>>
      BY <2>7 DEF ServeCentral, ServeRelay
    <3>2. PICK step \in {"serving", "failed"} : Goto(p, step, {})
      BY <2>7 DEF ServeCentral, ServeRelay
    <3>3. step \in {"failed", "off", "serving"}
      BY <3>2
    <3>4. killed = {} => ~Started(p)
      <4>. SUFFICES ASSUME killed = {}, process[p].at > 1
                    PROVE  FALSE
        BY DEF Started
      <4>1. UpIs(list, n, p)
        BY <3>1 DEF SchemaIs
      <4>2. PICK k \in 1..(n + 1) :
              /\ process[p].todo = k..Len(list)
              /\ k > Len(list) => process[p].at = 1
        BY <4>1 DEF UpIs
      <4>3. Len(list) \in Nat
        BY ListHasLength
      <4>4. n \in Nat /\ k \in Nat
        BY <1>1, <4>3
      <4>5. k..Len(list) = {}
        BY <3>1, <4>2
      <4>6. k > Len(list) \/ k \in k..Len(list)
        BY <4>3, <4>4
      <4>. QED
        BY <4>2, <4>5, <4>6
    <3>5. SchemaIs(list, n)'
      BY <3>1, <3>2, <3>3, <3>4, LeavesUp
    <3>. QED
      BY <1>1, <3>5
  <2>8. CASE Shutdown(p)
    <3>1. /\ process[p].step = "serving" /\ Goto(p, "off", {})
          /\ UNCHANGED <<made, recorded, killed>>
      BY <2>8 DEF Shutdown
    <3>2. ~Started(p)
      BY <3>1 DEF Started
    <3>3. SchemaIs(list, n)'
      BY <3>1, <3>2, LeavesUp
    <3>. QED
      BY <1>1, <3>3
  <2>. QED
    BY <1>3, <2>1, <2>2, <2>3, <2>4, <2>5, <2>6, <2>7, <2>8
<1>. QED
  BY <1>2, <1>3 DEF SchemaNext

\* The invariant of both databases: what is recorded are the migrations up to
\* some number, and what is made is what those made, and what one process has
\* made or taken back of one more, whatever the processes do at once
\* (open_and_migrate and the migrator's up and reset).
THEOREM SchemaInvariant == SchemaSpec => []SchemaInv
<1>1. SchemaInit => SchemaInv
  <2>. SUFFICES ASSUME SchemaInit
                PROVE  SchemaInv
    OBVIOUS
  <2>1. database \in {"central", "relay"}
    BY DatabasesAreKnown DEF SchemaInit
  <2>2. PICK list \in {CentralMigrations, RelayMigrations} : Migrations = list
    BY DEF Migrations
  <2>3. Fits(list)
    BY <2>2, BothMigrationsFit DEF Fits
  <2>4. Len(list) \in Nat
    BY <2>3, ListHasLength
  <2>5. PICK n \in {0} \cup 1..Len(list) : recorded = 1..n /\ made = UpTo(list, n)
    BY <2>2 DEF SchemaInit, Numbered, Whole
  <2>6. n \in 0..Len(list)
    BY <2>4, <2>5
  <2>7. process = [p \in Processes |-> Idle] /\ killed = {}
    BY DEF SchemaInit
  <2>8. /\ Idle \in ProcessRecord /\ Idle.step = "off" /\ Idle.todo = {} /\ Idle.at = 1
    BY DEF Idle, ProcessRecord
  <2>9. process \in [Processes -> ProcessRecord] /\ \A p \in Processes : process[p] = Idle
    BY <2>7, <2>8
  <2>10. \A p \in Processes : ~Started(p)
    BY <2>8, <2>9 DEF Started
  <2>11. SchemaBase(list, n)
    BY <2>5, <2>6, <2>7, <2>8, <2>9 DEF SchemaBase
  <2>12. SchemaIs(list, n)
    BY <2>5, <2>8, <2>9, <2>10, <2>11 DEF SchemaIs, RestIs
  <2>. QED
    BY <2>1, <2>2, <2>6, <2>12 DEF SchemaInv
<1>2. SchemaInv /\ [SchemaNext]_schemaVars => SchemaInv'
  <2>. SUFFICES ASSUME SchemaInv, [SchemaNext]_schemaVars
                PROVE  SchemaInv'
    OBVIOUS
  <2>1. PICK list \in {CentralMigrations, RelayMigrations} :
          \E n \in 0..Len(list) : Migrations = list /\ SchemaIs(list, n)
    BY DEF SchemaInv
  <2>2. PICK n \in 0..Len(list) : Migrations = list /\ SchemaIs(list, n)
    BY <2>1
  <2>3. Fits(list)
    BY <2>1, BothMigrationsFit DEF Fits
  <2>4. PICK m \in 0..Len(list) : SchemaIs(list, m)'
    BY <2>2, <2>3, SchemaStepKeeps
  <2>5. UNCHANGED database
    BY DEF SchemaNext, schemaVars, Setup, Reset, Statement, Record, Kill, ResetDone,
           ServeCentral, ServeRelay, Shutdown
  <2>6. Migrations' = list
    BY <2>2, <2>5 DEF Migrations
  <2>7. database' \in {"central", "relay"}
    BY <2>5 DEF SchemaInv
  <2>. QED
    BY <2>1, <2>4, <2>6, <2>7 DEF SchemaInv
<1>. QED
  BY <1>1, <1>2, PTL DEF SchemaSpec

\* A process that serves finds every column, trigger and index that the
\* entities ask for, and only a kill leaves a database between two migrations,
\* for any number of processes that start, fail, reset and are killed at any
\* point (the migrators of the central proxy and of the relay).
THEOREM DatabaseFollowsRecord == SchemaSpec => []SchemaFollowsRecord
<1>1. SchemaInv => SchemaFollowsRecord
  <2>. SUFFICES ASSUME SchemaInv
                PROVE  SchemaFollowsRecord
    OBVIOUS
  <2>1. PICK list \in {CentralMigrations, RelayMigrations} :
          \E n \in 0..Len(list) : Migrations = list /\ SchemaIs(list, n)
    BY DEF SchemaInv
  <2>2. PICK n \in 0..Len(list) : Migrations = list /\ SchemaIs(list, n)
    BY <2>1
  <2>3. Fits(list)
    BY <2>1, BothMigrationsFit DEF Fits
  <2>4. SchemaBase(list, n)
    BY <2>2 DEF SchemaIs
  <2>5. ServesItsSchema
    <3>. SUFFICES ASSUME NEW p \in Processes, process[p].step = "serving", "down" \notin killed
                  PROVE  Asked(Entities) \subseteq made
      BY DEF ServesItsSchema
    <3>1. n = Len(list) /\ NobodyDown
      BY <2>4 DEF SchemaBase, NobodyDown
    <3>2. UpTo(list, Len(list)) \subseteq made
      BY <3>1, <2>2 DEF SchemaIs, RestIs
    <3>3. MigrationsFit(list, Entities)
      BY <2>2, BothMigrationsFit DEF Migrations, Entities
    <3>4. Asked(Entities) \subseteq UpTo(list, Len(list))
      BY <3>3 DEF MigrationsFit
    <3>. QED
      BY <3>2, <3>4
  <2>6. OnlyAKillLeavesAHalf
    <3>. SUFFICES ASSUME killed = {}, \A p \in Processes : ~Busy(p)
                  PROVE  \E m \in {0} \cup Numbered : recorded = 1..m /\ made = Whole(m)
      BY DEF OnlyAKillLeavesAHalf
    <3>1. n \in {0} \cup Numbered /\ recorded = 1..n
      <4>1. Len(list) \in Nat
        BY <2>3, ListHasLength
      <4>2. n \in 0..Len(list) /\ recorded = 1..n
        BY <2>4 DEF SchemaBase
      <4>3. n \in {0} \cup 1..Len(list)
        BY <4>1, <4>2
      <4>. QED
        BY <4>2, <4>3, <2>2 DEF Numbered
    <3>2. made = UpTo(list, n)
      <4>1. CASE NobodyDown
        <5>1. ASSUME NEW p \in Processes, Started(p)
              PROVE  FALSE
          <6>1. process[p].step = "up" /\ process[p].at > 1 /\ process[p].todo = {}
            BY <5>1 DEF Started, Busy
          <6>2. UpIs(list, n, p)
            BY <6>1, <2>2 DEF SchemaIs
          <6>3. PICK k \in 1..(n + 1) :
                  /\ process[p].todo = k..Len(list)
                  /\ k > Len(list) => process[p].at = 1
            BY <6>2 DEF UpIs
          <6>4. Len(list) \in Nat /\ n \in Nat
            <7>1. Len(list) \in Nat
              BY <2>3, ListHasLength
            <7>. QED
              BY <7>1, <2>2
          <6>5. k \in Nat
            BY <6>4
          <6>6. k..Len(list) = {}
            BY <6>1, <6>3
          <6>7. k > Len(list) \/ k \in k..Len(list)
            BY <6>4, <6>5
          <6>. QED
            BY <6>1, <6>3, <6>6, <6>7
        <5>. QED
          BY <4>1, <5>1, <2>2 DEF SchemaIs, RestIs
      <4>2. CASE ~NobodyDown
        <5>1. PICK p \in Processes : process[p].step = "down"
          BY <4>2 DEF NobodyDown
        <5>2. process[p].todo = {}
          BY <5>1 DEF Busy
        <5>3. n = 0 /\ DownIs(list, n, p)
          BY <5>1, <5>2, <2>2, <2>3, BusyDown
        <5>4. UpTo(list, n) = {}
          BY <5>3, NothingAdded
        <5>5. made = {}
          BY <5>3, <5>4 DEF DownIs
        <5>. QED
          BY <5>4, <5>5
      <4>. QED
        BY <4>1, <4>2
    <3>. QED
      BY <3>1, <3>2, <2>2 DEF Whole
  <2>. QED
    BY <2>5, <2>6 DEF SchemaFollowsRecord
<1>. QED
  BY <1>1, SchemaInvariant, PTL
=============================================================================
