----------------------------- MODULE OidcLogin ------------------------------
(***************************************************************************)
(* The OIDC exchange of `oac-relay login' (login.rs, run_login, and        *)
(* common/oidc.rs): several logins of one machine, each with a listener on *)
(* a loopback port, the browser that brings the answers of the IdP back,   *)
(* and the answers of its token and userinfo endpoints.  Relay has what    *)
(* comes before and after.                                                 *)
(*                                                                         *)
(* A login stands for the state, the nonce and the PKCE challenge that it  *)
(* draws: they are fresh.  A code is the authorization request it answers  *)
(* and the person who answered.  A redirect may arrive late, more than     *)
(* once or never, and ports are used again.                                *)
(***************************************************************************)
EXTENDS Integers

CONSTANTS
  Logins,       \* processes of oac-relay login, each used once
  Persons,      \* who have an account at the IdP
  Ports,
  GroupsClaim,  \* person -> the groups that the IdP has of it
  RolesClaim,   \* person -> its roles
  Lifetimes,    \* texts of --ttl that are not blank: a number and a unit
  MaxSeconds,   \* stands for the largest i64
  Nil           \* nobody, nothing, never

Units == {"s", "m", "h", "d", "y"}

ASSUME LifetimesAssumption == Lifetimes \subseteq [number : Int, unit : Units]
ASSUME ClaimsAssumption == DOMAIN GroupsClaim = Persons /\ DOMAIN RolesClaim = Persons
ASSUME NilAssumption ==
  /\ Nil \notin Persons /\ Nil \notin Ports /\ Nil \notin Lifetimes /\ Nil \notin Int
  /\ \A u \in Persons : Nil # GroupsClaim[u] \cup RolesClaim[u]

VARIABLES
  carries,      \* the documents of the IdP that carry groups and roles
  login,        \* the processes
  codes         \* that the IdP has given, as answers of persons

loginVars == <<carries, login, codes>>

\* code and access are those in hand; request is the body of the mint, and
\* ttl what was asked.
NotBegun == [at |-> "new", port |-> Nil, code |-> Nil, access |-> Nil,
             ttl |-> Nil, request |-> Nil]

LoginInit ==
  /\ carries \in SUBSET {"id_token", "userinfo"}
  /\ login = [p \in Logins |-> NotBegun]
  /\ codes = {}

Waiting(p) == login[p].at = "waiting"
Step(p, l) == login' = [login EXCEPT ![p] = l]
Fail(p) == Step(p, [NotBegun EXCEPT !.at = "failed", !.port = login[p].port])

-----------------------------------------------------------------------------
\* validate_loopback_redirect: a name is no loopback address, whatever it
\* begins with.
IsLoopback(uri) == uri.scheme = "http" /\ uri.host \in {"127.0.0.1", "[::1]"}

Uris == [scheme : {"http", "https"},
         host : {"127.0.0.1", "[::1]", "0.0.0.0", "127.0.0.1.example.com"}]

\* run_login up to the URL it prints; discovery may fail.  The port of the
\* configured URI is not used, the listener has any free one.
RunLogin(p) ==
  /\ login[p].at = "new"
  /\ \E uri \in Uris, secret \in {"unset", "empty", "set"} :
       \/ /\ IsLoopback(uri) /\ secret = "set"
          /\ \E port \in Ports :
               /\ \A q \in Logins : Waiting(q) => login[q].port # port
               /\ Step(p, [NotBegun EXCEPT !.at = "waiting", !.port = port])
       \/ Fail(p)
  /\ UNCHANGED <<carries, codes>>

\* Somebody opens the URL, perhaps when its login has ended, and logs in at
\* the IdP or declines; the browser is redirected to the port of the login.
AnswerAtIdp(p) ==
  /\ login[p].port # Nil
  /\ \E u \in Persons \cup {Nil} : codes' = codes \cup {[login |-> p, person |-> u]}
  /\ UNCHANGED <<carries, login>>

\* wait_for_callback takes one connection; then the state is compared.
Callback(p) ==
  /\ Waiting(p)
  /\ \E c \in codes :
       /\ login[c.login].port = login[p].port
       /\ IF c.person # Nil /\ c.login = p
          THEN Step(p, [login[p] EXCEPT !.at = "exchange", !.code = c])
          ELSE Fail(p)
  /\ UNCHANGED <<carries, codes>>

\* A connection that brings no code, or none within CALLBACK_TIMEOUT.
NoCallback(p) ==
  /\ Waiting(p)
  /\ Fail(p)
  /\ UNCHANGED <<carries, codes>>

\* The token endpoint wants the verifier of the challenge.  (It takes a code
\* once; a login has one code and sends it once.)
Accepts(c, p) == c.login = p

\* is_allowed_alg.
IsAllowedAlg(alg) == alg \in {"RS256", "ES256"}

\* The ID token is that of the code, with the nonce of its request; the access
\* token should be.  The ID token may have the hash of the access token.
ExchangeCode(p) ==
  LET c == login[p].code IN
  /\ login[p].at = "exchange"
  /\ \/ \E access \in Persons, hash \in Persons \cup {Nil},
           alg \in {"RS256", "ES256", "HS256", "none"} :
          /\ Accepts(c, p)
          /\ IF IsAllowedAlg(alg) /\ c.login = p /\ hash \in {Nil, access}
             THEN Step(p, [login[p] EXCEPT !.at = "claims", !.access = access])
             ELSE Fail(p)
     \/ Fail(p)
  /\ UNCHANGED <<carries, codes>>

-----------------------------------------------------------------------------
\* union_groups_roles and groups_to_json_string: no groups are NULL.
UnionGroupsRoles(u) == GroupsClaim[u] \cup RolesClaim[u]

ClaimsIn(document, u) ==
  [subject |-> u,
   groups  |-> IF document \in carries /\ UnionGroupsRoles(u) # {}
               THEN UnionGroupsRoles(u) ELSE Nil]

\* Deliberately wrong: the subject of the userinfo is not compared.
UserinfoOfAnyone(l) == {ClaimsIn("userinfo", l.access), ClaimsIn("id_token", l.code.person)}

\* The userinfo, if the endpoint answers and the subject is that of the ID
\* token; or else the claims of the ID token.
IdentityClaims(l) ==
  {ClaimsIn("userinfo", u) : u \in {l.access} \cap {l.code.person}} \cup
    {ClaimsIn("id_token", l.code.person)}

SecondsIn(unit) ==
  IF unit = "s" THEN 1 ELSE IF unit = "m" THEN 60 ELSE IF unit = "h" THEN 3600
  ELSE IF unit = "d" THEN 86400 ELSE 31536000

\* parse_ttl_to_seconds of what is not blank: the set of its results, empty if
\* it fails.
ParseTtlToSeconds(ttl) ==
  {s \in {ttl.number * SecondsIn(ttl.unit)} : ttl.number > 0 /\ s <= MaxSeconds}

\* The option --ttl is parsed only now, when it was given and not blank.
FetchUserinfo(p) ==
  LET l == login[p] IN
  /\ l.at = "claims"
  /\ \E ttl \in Lifetimes \cup {Nil}, claims \in IdentityClaims(l) :
       LET seconds == IF ttl = Nil THEN {Nil} ELSE ParseTtlToSeconds(ttl) IN
       IF seconds = {} THEN Fail(p)
       ELSE \E s \in seconds :
              Step(p, [NotBegun EXCEPT
                !.at = "mint", !.port = l.port, !.ttl = ttl,
                !.request = [claims |-> claims, ttlSeconds |-> s]])
  /\ UNCHANGED <<carries, codes>>

LoginNext ==
  \E p \in Logins :
    \/ RunLogin(p) \/ AnswerAtIdp(p) \/ Callback(p) \/ NoCallback(p)
    \/ ExchangeCode(p) \/ FetchUserinfo(p)

LoginSpec == LoginInit /\ [][LoginNext]_loginVars

-----------------------------------------------------------------------------
(***************************************************************************)
(* Whatever redirects arrive late, twice or at the port of another login,  *)
(* and whatever access token comes with the ID token, a login asks for a   *)
(* token for a person who answered its own authorization request, never    *)
(* with groups that are not all those of that person, without any only if  *)
(* a document of the IdP lacks them, and for ever only if it was told so   *)
(* (run_login).                                                            *)
(***************************************************************************)
MintsForWhoAnswered ==
  \A p \in Logins :
    LET l == login[p]
        u == l.request.claims.subject
        all == GroupsClaim[u] \cup RolesClaim[u]
    IN l.at = "mint" =>
         /\ [login |-> p, person |-> u] \in codes
         /\ IF l.request.claims.groups = Nil
            THEN all = {} \/ carries # {"id_token", "userinfo"}
            ELSE l.request.claims.groups = all
         /\ l.request.ttlSeconds = Nil <=> l.ttl = Nil
=============================================================================
