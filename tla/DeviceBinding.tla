---------------------------- MODULE DeviceBinding ----------------------------
(***************************************************************************)
(* How the processes start and how tokens are bound to a device            *)
(* (common/config.rs and mtls.rs; serve of both programs; complete_login;  *)
(* the device check of the central proxy's auth.rs).  A process reads the  *)
(* files of its certificate one after the other, and a relay or a login    *)
(* reads the certificate once more for the fingerprint, while somebody     *)
(* replaces the files, one at a time too.                                  *)
(*                                                                         *)
(* One process of each kind: they share the files alone.  A certificate    *)
(* stands for its own fingerprint and for its private key.                 *)
(***************************************************************************)
EXTENDS Naturals, Sequences

CONSTANTS
  DeviceCerts,   \* certificates for the device
  CentralCerts,  \* certificates for the central proxy
  IssuedBy,      \* certificate -> the one of the authority that signed it
  Missing,       \* a file that is not there or makes no sense; no fingerprint
  MaxReplaced    \* bounds the replaced files

Authorities == {IssuedBy[c] : c \in DOMAIN IssuedBy}

ASSUME IssuedByAssumption == DOMAIN IssuedBy = DeviceCerts \cup CentralCerts
ASSUME MissingAssumption ==
  /\ Missing \notin DeviceCerts \cup CentralCerts \cup Authorities
  /\ \A trusted \in SUBSET Authorities : Missing # trusted
  /\ \A c \in DOMAIN IssuedBy : Missing # <<c, IssuedBy[c]>>
ASSUME MaxReplacedAssumption == MaxReplaced \in Nat

VARIABLES
  disk,          \* machine -> its files: of the CA, the chain and the key
  program,
  token,         \* what the row of the minted token is bound to
  replaced       \* counts the replaced files

bindingVars == <<disk, program, token, replaced>>

CertsOf(m) == IF m = "device" THEN DeviceCerts ELSE CentralCerts
MachineOf(p) == IF p = "central" THEN "central" ELSE "device"

Chain(c) == <<c, IssuedBy[c]>>
FilesOf(c) == [ca |-> Authorities, chain |-> Chain(c), key |-> c, private |-> TRUE]

\* ca and chain are what a running process has in its TLS configuration.
\* "quiet": none of its files was replaced while it started.
NewProcess == [at |-> "new", dev |-> FALSE, ca |-> {}, chain |-> <<>>,
               fingerprint |-> Missing, quiet |-> TRUE]

BindingInit ==
  /\ \E d \in DeviceCerts, c \in CentralCerts :
       disk = [m \in {"device", "central"} |-> FilesOf(IF m = "device" THEN d ELSE c)]
  /\ program = [p \in {"central", "relay", "login"} |-> NewProcess]
  /\ token = {}
  /\ replaced = 0

Become(p, q) ==
  /\ program' = [program EXCEPT ![p] = q]
  /\ UNCHANGED <<disk, token, replaced>>
Reach(p, place) == Become(p, [program[p] EXCEPT !.at = place])
Die(p) == Become(p, [NewProcess EXCEPT !.at = "failed"])

-----------------------------------------------------------------------------
\* What a file of the configuration may say, as far as it is validated; an
\* "odd" redirect has a host that begins like the loopback address.
Configurations ==
  [dev : BOOLEAN, listen : {"loopback", "any"}, database : {"sqlite", "postgres", "other"},
   issuer : {"https", "http", "other"}, redirect : {"loopback", "odd"},
   url : {"https", "http"}, rate : {0, 60}]

ValidateOidc(f) ==
  /\ f.issuer = "https" \/ (f.issuer = "http" /\ f.dev)
  /\ f.redirect = "loopback"

ValidateRelay(f) ==
  /\ f.dev \/ (f.listen = "loopback" /\ f.url = "https")
  /\ f.database # "other"
  /\ ValidateOidc(f)

ValidateCentral(f) ==
  /\ f.database # "other" /\ f.rate > 0
  /\ ValidateOidc(f)

\* load_provider_encryption_key and encryption_key_from_hex: a variable that is
\* set hides the mounted file, whatever it holds.
EncryptionKey(variable, mounted) ==
  IF variable # "unset" THEN variable = "64 digits" ELSE mounted = "64 digits"

\* The modes, dev or production, in which a valid configuration lets it start.
RelayModes == {f.dev : f \in {f \in Configurations : ValidateRelay(f)}}
Settings == {"unset", "64 digits", "garbage"}
CentralModes ==
  {f.dev : f \in {f \in Configurations :
     ValidateCentral(f) /\ \E variable, mounted \in Settings : EncryptionKey(variable, mounted)}}

\* From the command line to the first of the files: load_config and serve.
Start(p) ==
  /\ program[p].at = "new"
  /\ \/ Die(p)
     \/ \E dev \in IF p = "central" THEN CentralModes ELSE RelayModes :
          Become(p, [NewProcess EXCEPT
            !.at = IF ~dev THEN "perms" ELSE IF p = "central" THEN "up" ELSE "built",
            !.dev = dev])

\* enforce_secure_perms looks at the file of the key, before it is read.
EnforceSecurePerms(p) ==
  LET files == disk[MachineOf(p)] IN
  /\ program[p].at = "perms"
  /\ IF files.key # Missing /\ files.private THEN Reach(p, "ca") ELSE Die(p)

\* load_certs of the CA.
LoadCa(p) ==
  LET files == disk[MachineOf(p)] IN
  /\ program[p].at = "ca"
  /\ IF files.ca = Missing THEN Die(p)
     ELSE Become(p, [program[p] EXCEPT !.at = "chain", !.ca = files.ca])

\* load_certs of the own certificate.
LoadChain(p) ==
  LET files == disk[MachineOf(p)] IN
  /\ program[p].at = "chain"
  /\ IF files.chain = Missing THEN Die(p)
     ELSE Become(p, [program[p] EXCEPT !.at = "key", !.chain = files.chain])

\* rustls takes no key that does not belong to the certificate.
KeyMatches(chain, key) == chain[1] = key

\* load_private_key and the builder; then the central proxy binds its address.
LoadPrivateKey(p) ==
  LET files == disk[MachineOf(p)] IN
  /\ program[p].at = "key"
  /\ IF files.key # Missing /\ KeyMatches(program[p].chain, files.key)
     THEN Reach(p, IF p = "central" THEN "up" ELSE "built")
     ELSE Die(p)

\* Deliberately wrong: the fingerprint of the last certificate in the file.
LastFingerprint(chain) == IF chain = Missing THEN Missing ELSE chain[Len(chain)]

\* cert_fingerprint: of the first one; it does not fail.
CertFingerprint(chain) == IF chain = Missing THEN Missing ELSE chain[1]

\* The relay has bound its address, or the login has stored its identity.
Fingerprint(p) ==
  LET q == program[p] IN
  /\ q.at = "built"
  /\ Become(p, [q EXCEPT
       !.at = IF p = "relay" THEN "up" ELSE "send",
       !.fingerprint = IF q.dev THEN Missing ELSE CertFingerprint(disk["device"].chain)])

\* The address is taken, the database fails, or the process is killed.
Crash(p) ==
  /\ program[p].at \in {"perms", "built", "send", "up"}
  /\ Die(p)

-----------------------------------------------------------------------------
\* A client of production speaks TLS only and has a certificate, and so it is
\* with the central proxy.
Connects(p) ==
  LET client == program[p]
      central == program["central"] IN
  /\ central.at = "up" /\ client.dev = central.dev
  /\ ~client.dev =>
       /\ IssuedBy[client.chain[1]] \in central.ca
       /\ IssuedBy[central.chain[1]] \in client.ca

\* mint_token_handler stores what is in the header.
Mint ==
  LET login == program["login"] IN
  /\ login.at = "send"
  /\ IF Connects("login")
     THEN /\ token' = {login.fingerprint}
          /\ program' = [program EXCEPT !["login"].at = "done"]
          /\ UNCHANGED <<disk, replaced>>
     ELSE Die("login")

\* auth_middleware: a token that is not bound is good from everywhere.
AllowsDevice(stored, header) == stored = Missing \/ stored = header

\* Somebody writes or removes one file, or changes the mode of the key.
Replace(m, files) ==
  /\ replaced < MaxReplaced
  /\ files # disk[m]
  /\ disk' = [disk EXCEPT ![m] = files]
  /\ replaced' = replaced + 1
  /\ program' = [p \in DOMAIN program |->
       IF MachineOf(p) = m /\ program[p].at \notin {"new", "up", "send", "done", "failed"}
         THEN [program[p] EXCEPT !.quiet = FALSE] ELSE program[p]]
  /\ UNCHANGED token

Rotate(m) ==
  \/ \E ca \in {Missing} \cup (SUBSET Authorities \ {{}}) :
       Replace(m, [disk[m] EXCEPT !.ca = ca])
  \/ \E chain \in {Missing} \cup {Chain(c) : c \in CertsOf(m)} :
       Replace(m, [disk[m] EXCEPT !.chain = chain])
  \/ \E key \in {Missing} \cup CertsOf(m) : Replace(m, [disk[m] EXCEPT !.key = key])
  \/ \E private \in BOOLEAN : Replace(m, [disk[m] EXCEPT !.private = private])

BindingNext ==
  \/ \E p \in DOMAIN program :
       \/ Start(p) \/ EnforceSecurePerms(p) \/ LoadCa(p) \/ LoadChain(p)
       \/ LoadPrivateKey(p) \/ Crash(p)
  \/ Fingerprint("relay") \/ Fingerprint("login") \/ Mint
  \/ \E m \in DOMAIN disk : Rotate(m)

BindingSpec == BindingInit /\ [][BindingNext]_bindingVars

-----------------------------------------------------------------------------
(***************************************************************************)
(* Unless its files were replaced while it started, a process of           *)
(* production names the certificate that its own connections present: so   *)
(* a token is bound to the certificate that minted it, the relay may use   *)
(* it exactly if it has that certificate, and a token that is good from    *)
(* everywhere is one of a disturbed login (mtls.rs, cert_fingerprint: "a   *)
(* token minted on relay A cannot be used from relay B").                  *)
(***************************************************************************)
TokenStaysOnDevice ==
  LET relay == program["relay"]
      login == program["login"] IN
  \A bound \in token : (login.quiet /\ ~login.dev) =>
    /\ bound = login.chain[1]
    /\ (relay.at = "up" /\ relay.quiet /\ ~relay.dev) =>
         (AllowsDevice(bound, relay.fingerprint) <=> relay.chain[1] = login.chain[1])
=============================================================================
