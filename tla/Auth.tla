---------------------------------- MODULE Auth ----------------------------------
(***************************************************************************)
(* Authentication of a request (internal/security: auth.go, oidc.go,       *)
(* mtls.go).  The evidence - a Unix socket peer, a loopback peer, a client  *)
(* certificate, a bearer token - is tried in a fixed order and the first   *)
(* that applies decides.  A JWT needs the issuer's signing key: requests    *)
(* share a cache of the issuer's document, look a key ID up in it under a   *)
(* lock, and on a miss fetch the document without the lock and replace the  *)
(* whole cache, while the issuer rotates its keys.                         *)
(*                                                                         *)
(* A bearer is a model value; JWT tells what a JWT-shaped one says:         *)
(* [alg, kid, signer, valid, tenant, sub] with valid for well-formed,       *)
(* unexpired, of this issuer and audience.  A certificate is [valid,        *)
(* domain, path, id]: valid when it carries a SPIFFE ID.                    *)
(***************************************************************************)
EXTENDS Naturals, FiniteSets

CONSTANTS
  Verifiers,  \* goroutines that authenticate requests
  Settings,   \* the normalized configurations: [tls, oidc, tokens, secrets,
              \*   domains, pins, default, admins, observeOnly]
  Evidence,   \* what a request may bring: [unix, loopback, tls, cert, bearer]
  JWT,        \* the JWT-shaped bearers
  Documents,  \* the key documents the issuer publishes, one after the other: kid -> key
  NoTenant,   \* "" for a tenant
  Nothing,    \* no certificate, no bearer, no document
  MaxCalls    \* bound on the requests

ASSUME AuthAssumption ==
  /\ Nothing \notin Verifiers
  /\ MaxCalls \in Nat
  /\ \A e \in Evidence : {e.unix, e.loopback, e.tls} \subseteq BOOLEAN

ASSUME DocumentsAssumption ==
  /\ Cardinality(DOMAIN Documents) \in Nat \ {0}
  /\ DOMAIN Documents = 1..Cardinality(DOMAIN Documents)

(* The issuer names its keys, and uses no name for another key later on.    *)
ASSUME KidsNameKeys ==
  /\ \A n \in DOMAIN Documents : "" \notin DOMAIN Documents[n]
  /\ \A m, n \in DOMAIN Documents : \A kid \in DOMAIN Documents[m] \cap DOMAIN Documents[n] :
       Documents[m][kid] = Documents[n][kid]

VARIABLES
  config,    \* Authenticator.cfg
  published, \* how many documents the issuer has published; the last one is served
  cache,     \* oidcVerifier.keys
  fetched,   \* oidcVerifier.fetched is set
  stage,     \* where each request is
  evidence,  \* what it brought
  document,  \* the document it has fetched
  verdict,   \* the identity or the failure it ended with
  calls,
  begun,     \* published when the request arrived
  disturbed  \* another request's fetch overlapped this one, or its own failed

authVars == <<config, published, cache, fetched, stage, evidence, document, verdict, calls, begun, disturbed>>

Identity(tenant, method, source, admin) == [tenant |-> tenant, method |-> method, source |-> source, admin |-> admin]
Failure(reason) == [failure |-> reason]
Failed(v) == "failure" \in DOMAIN v

(* VerifyConnection and ClientAuth: who gets past the handshake, of those   *)
(* whose surface has one.  The Unix socket and the dashboard have none.     *)
Handshake(e) ==
  /\ e.tls => config.tls # "off"
  /\ e.tls /\ config.tls = "required" => e.cert # Nothing
  /\ e.cert # Nothing => e.tls
AllowedCert(cert) ==
  cert # Nothing => cert.valid /\ (config.domains = {} \/ cert.domain \in config.domains)

(* TenantFromSpiffe: the ID's own pin, its domain's, the path, the default. *)
TenantFromSpiffe(cert) ==
  CASE cert.id \in DOMAIN config.pins -> config.pins[cert.id]
    [] cert.id \notin DOMAIN config.pins /\ cert.domain \in DOMAIN config.pins -> config.pins[cert.domain]
    [] OTHER -> IF cert.path # NoTenant THEN cert.path ELSE config.default

NetworkMethods == config.tls # "off" \/ config.oidc \/ DOMAIN config.tokens # {}

(* Evidence that decides before the bearer is looked at. *)
LoopbackTrusted(e) == e.loopback /\ ~NetworkMethods
BearerDecides(e) == ~e.unix /\ ~LoopbackTrusted(e) /\ e.cert = Nothing /\ e.bearer # Nothing
IsJWT(e) == BearerDecides(e) /\ config.oidc /\ e.bearer \in DOMAIN JWT

(* verify goes through once the signature has: the claims hold. *)
Verifies(jwt) == jwt.valid /\ jwt.sub # ""

JWTVerdict(jwt) ==
  LET tenant == IF jwt.tenant # NoTenant THEN jwt.tenant ELSE config.default
  IN  IF tenant = NoTenant
        THEN Failure("unauthorized")
        ELSE Identity(tenant, "oidc", jwt.sub, jwt.sub \in config.admins)

APITokenVerdict(bearer) ==
  IF bearer \in DOMAIN config.tokens
    THEN LET t == config.tokens[bearer]
         IN  Identity(t.tenant, "api-token", t.name, t.admin \/ t.name \in config.admins)
    ELSE Failure("unauthenticated")

(* The bearer's verdict, given whether a JWT's signature has been verified. *)
BearerVerdict(e, signed) ==
  IF IsJWT(e) /\ signed /\ Verifies(JWT[e.bearer])
    THEN JWTVerdict(JWT[e.bearer])
    ELSE APITokenVerdict(e.bearer)

(* Authenticate *)
Authenticate(e, signed) ==
  CASE e.unix -> Identity("local", "unix-socket", "uid", FALSE)
    [] ~e.unix /\ LoopbackTrusted(e) -> Identity("local", "loopback", "loopback", FALSE)
    [] BearerDecides(e) -> BearerVerdict(e, signed)
    [] OTHER ->
         IF e.cert = Nothing THEN Failure("unauthenticated")
         ELSE IF TenantFromSpiffe(e.cert) = NoTenant THEN Failure("unauthorized")
         ELSE Identity(TenantFromSpiffe(e.cert), "mtls-spiffe", e.cert.id, e.cert.id \in config.admins)

(* admit: in observe mode a failure becomes the observe tenant's identity. *)
Admitted(v) ==
  IF Failed(v) /\ config.observeOnly
    THEN Identity("observe-unauthenticated", "observe-only", v.failure, FALSE) ELSE v

-----------------------------------------------------------------------------
Moves(r, place) == stage' = [stage EXCEPT ![r] = place]

Decide(r, e, signed) ==
  /\ verdict' = [verdict EXCEPT ![r] = Admitted(Authenticate(e, signed))]
  /\ Moves(r, "done")

(* The token verifies without the issuer's keys: a shared secret. *)
SecretSigned(jwt) == jwt.alg = "HS" /\ jwt.signer \in config.secrets

HasKey(keys, jwt) == jwt.kid \in DOMAIN keys
Signed(keys, jwt) == keys[jwt.kid] = jwt.signer

(* Mutant: the document is fetched once only. *)
NeedsFetchOnce(jwt) == ~fetched

(* keyFor goes to the issuer for a key ID it does not know. *)
NeedsFetch(jwt) == ~fetched \/ jwt.kid # ""

Fetching == {r \in Verifiers : stage[r] \in {"fetch", "store"}}

(* A request arrives; verify goes as far as keyFor's first look. *)
Arrive(r) ==
  /\ stage[r] \in {"idle", "done"}
  /\ calls < MaxCalls
  /\ calls' = calls + 1
  /\ \E e \in Evidence :
       /\ Handshake(e) /\ AllowedCert(e.cert)
       /\ evidence' = [evidence EXCEPT ![r] = e]
       /\ LET jwt == JWT[e.bearer] IN
          IF ~IsJWT(e) THEN Decide(r, e, FALSE)
          ELSE IF jwt.alg = "HS" THEN Decide(r, e, SecretSigned(jwt))
          ELSE IF jwt.alg = "none" THEN Decide(r, e, FALSE)
          ELSE IF HasKey(cache, jwt) THEN Decide(r, e, Signed(cache, jwt))
          ELSE IF NeedsFetch(jwt)
                 THEN Moves(r, "fetch") /\ verdict' = [verdict EXCEPT ![r] = Nothing]
                 ELSE Decide(r, e, FALSE)
  /\ begun' = [begun EXCEPT ![r] = published]
  /\ disturbed' = IF stage'[r] = "fetch"
       THEN [q \in Verifiers |-> IF q = r THEN Fetching \ {r} # {} ELSE disturbed[q] \/ q \in Fetching]
       ELSE [disturbed EXCEPT ![r] = FALSE]
  /\ UNCHANGED <<config, published, cache, fetched, document>>

(* fetchJWKS: the issuer answers with its current document, or not at all.  *)
Fetch(r) ==
  /\ stage[r] = "fetch"
  /\ \/ /\ document' = [document EXCEPT ![r] = Documents[published]]
        /\ Moves(r, "store")
        /\ UNCHANGED <<verdict, disturbed>>
     \/ /\ Decide(r, evidence[r], FALSE)
        /\ disturbed' = [disturbed EXCEPT ![r] = TRUE]
        /\ UNCHANGED document
  /\ UNCHANGED <<config, published, cache, fetched, evidence, calls, begun>>

(* Its keys replace the cache. *)
Store(r) ==
  /\ stage[r] = "store"
  /\ cache' = document[r]
  /\ fetched' = TRUE
  /\ document' = [document EXCEPT ![r] = Nothing]
  /\ Moves(r, "look")
  /\ UNCHANGED <<config, published, evidence, verdict, calls, begun, disturbed>>

(* keyFor's second look. *)
LookAgain(r) ==
  LET jwt == JWT[evidence[r].bearer] IN
  /\ stage[r] = "look"
  /\ Decide(r, evidence[r], HasKey(cache, jwt) /\ Signed(cache, jwt))
  /\ UNCHANGED <<config, published, cache, fetched, evidence, document, calls, begun, disturbed>>

(* The issuer rotates its keys. *)
Rotate ==
  /\ published < Cardinality(DOMAIN Documents)
  /\ published' = published + 1
  /\ UNCHANGED <<config, cache, fetched, stage, evidence, document, verdict, calls, begun, disturbed>>

AuthInit ==
  /\ config \in Settings
  /\ published = 1 /\ calls = 0 /\ fetched = FALSE
  /\ cache = [kid \in {} |-> Nothing]
  /\ stage = [r \in Verifiers |-> "idle"]
  /\ evidence = [r \in Verifiers |-> Nothing]
  /\ document = [r \in Verifiers |-> Nothing]
  /\ verdict = [r \in Verifiers |-> Nothing]
  /\ begun = [r \in Verifiers |-> 1]
  /\ disturbed = [r \in Verifiers |-> FALSE]

AuthNext == Rotate \/ \E r \in Verifiers : Arrive(r) \/ Fetch(r) \/ Store(r) \/ LookAgain(r)

AuthSpec == AuthInit /\ [][AuthNext]_authVars

-----------------------------------------------------------------------------
EverPublished(kid, key) == \E n \in 1..published : kid \in DOMAIN Documents[n] /\ Documents[n][kid] = key

(* Done and not excused: no other fetch overlapped and its own went through. *)
Judged(r) == stage[r] = "done" /\ IsJWT(evidence[r]) /\ ~disturbed[r]

AlwaysPublished(r, jwt) ==
  \A n \in begun[r]..published : jwt.kid \in DOMAIN Documents[n] /\ Documents[n][jwt.kid] = jwt.signer

(* A JWT is judged by the issuer's keys, whatever the cache has been        *)
(* through: one that is accepted bears a key the issuer has published under *)
(* its key ID, or a configured secret; one that is good and signed with a   *)
(* key published since before the request came is not refused, unless its   *)
(* fetch failed or another one overlapped - rotated keys are picked up.     *)
(* And whatever the evidence, a failure never yields a tenant other than    *)
(* the observe tenant, and loopback is trusted only when nothing else is    *)
(* configured.                                                              *)
JudgedByIssuer ==
  \A r \in Verifiers : stage[r] = "done" =>
    LET v == verdict[r]
        e == evidence[r] IN
    /\ ~Failed(v) /\ v.method = "oidc" =>
         LET jwt == JWT[e.bearer] IN
         jwt.valid /\ (EverPublished(jwt.kid, jwt.signer) \/ SecretSigned(jwt))
    /\ Judged(r) /\ JWT[e.bearer].alg = "RS" /\ AlwaysPublished(r, JWT[e.bearer]) =>
         v = Admitted(BearerVerdict(e, TRUE))
    /\ ~Failed(v) /\ v.method = "loopback" => ~NetworkMethods
    /\ ~Failed(v) /\ v.method = "observe-only" => ~v.admin /\ config.observeOnly
=============================================================================
