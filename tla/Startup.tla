--------------------------------- MODULE Startup ---------------------------------
(***************************************************************************)
(* How flags and the otlp-security block become an open receiver:           *)
(* buildOTLPSecurityConfig, Config.Normalize (security/config.go), and New, *)
(* Start and Stop of the receiver.  One Config is shared by authenticator,  *)
(* limiter and receiver; Normalize writes into it, three times over.        *)
(*                                                                         *)
(* An address is "" (not set), "loopback", "any" (no host), "network" or    *)
(* "malformed"; a quota is a function of its fields, 0 where it is not set. *)
(***************************************************************************)
EXTENDS Naturals, Sequences, FiniteSets

CONSTANTS
  Blocks,       \* otlp-security blocks: [grpc, http, unix, tls, oidc, tokens,
                \*   observeOnly, quota, overrides]
  Flags,        \* command lines: [grpc, http, unix, observeOnly]
  Environment,  \* secrets in environment variables
  DefaultQuota,
  HardMaxMessageBytes,
  AnyTenant,    \* a tenant without an override
  Off           \* tls or oidc is not configured

ASSUME StartupAssumption ==
  /\ "MaxMessageBytes" \in DOMAIN DefaultQuota
  /\ \A f \in DOMAIN DefaultQuota : DefaultQuota[f] \in Nat \ {0}
  /\ DefaultQuota["MaxMessageBytes"] <= HardMaxMessageBytes /\ HardMaxMessageBytes \in Nat
  /\ \A b \in Blocks : AnyTenant \notin DOMAIN b.overrides

(* A block has all its fields, and a limit that is not set is 0.            *)
Fields == {"grpc", "http", "unix", "tls", "oidc", "tokens", "observeOnly", "quota", "overrides"}

ASSUME BlocksAssumption ==
  /\ DefaultQuota = [f \in DOMAIN DefaultQuota |-> DefaultQuota[f]]
  /\ \A b \in Blocks :
       /\ DOMAIN b = Fields
       /\ b.quota \in [DOMAIN DefaultQuota -> Nat]
       /\ b.overrides \in [DOMAIN b.overrides -> [DOMAIN DefaultQuota -> Nat]]

VARIABLES
  block,      \* what the operator wrote
  secCfg,     \* the Config
  startup,    \* how far the program has come
  listening   \* Receiver.listeners

startupVars == <<block, secCfg, startup, listening>>

Or(value, default) == IF value = "" THEN default ELSE value

\* buildOTLPSecurityConfig: a flag goes before the block.
Build(b, flags) ==
  [b EXCEPT !.grpc = Or(flags.grpc, Or(@, "loopback")), !.http = Or(flags.http, Or(@, "loopback")),
            !.unix = Or(flags.unix, @), !.observeOnly = @ \/ flags.observeOnly]

-----------------------------------------------------------------------------
(* Normalize *)

\* mergeQuota
MergeQuota(base, q) ==
  [f \in DOMAIN base |->
     LET value == IF q[f] = 0 THEN base[f] ELSE q[f]
     IN  IF f = "MaxMessageBytes" /\ value > HardMaxMessageBytes
         THEN HardMaxMessageBytes ELSE value]

\* Mutant: overrides are completed with the defaults, not with the quota.
OverridesOfDefaults(c) == [t \in DOMAIN c.overrides |-> MergeQuota(DefaultQuota, c.overrides[t])]

Overrides(c) ==
  [t \in DOMAIN c.overrides |-> MergeQuota(MergeQuota(DefaultQuota, c.quota), c.overrides[t])]

Secret(token) ==
  IF token.secret = "" /\ token.env \in DOMAIN Environment THEN Environment[token.env]
  ELSE token.secret

\* All of Normalize; it stops at the first error, behind which nobody uses it.
Normalized(c) ==
  [c EXCEPT !.grpc = Or(@, "loopback"), !.http = Or(@, "loopback"),
            !.quota = MergeQuota(DefaultQuota, @), !.overrides = Overrides(c),
            !.tokens = {[t EXCEPT !.secret = Secret(t)] : t \in @},
            !.tls = IF @ = Off THEN Off ELSE [@ EXCEPT !.require = Or(@, "yes")],
            !.oidc = IF @ = Off THEN Off ELSE [@ EXCEPT !.claim = Or(@, "tenant")]]

\* The errors Normalize returns, of a normalized Config.
Valid(c) ==
  /\ \A t \in c.tokens : "" \notin {t.name, t.tenant, t.secret}
  /\ c.tls # Off => c.tls.keypair /\ (c.tls.require = "yes" => c.tls.ca)
  /\ c.oidc # Off => c.oidc.issuer /\ c.oidc.audiences

MethodsConfigured(c) == c.tls # Off \/ c.oidc # Off \/ c.tokens # {}

QuotaFor(c, tenant) == IF tenant \in DOMAIN c.overrides THEN c.overrides[tenant] ELSE c.quota

-----------------------------------------------------------------------------
(* The program starts. *)

\* The error of this Normalize is dropped, "receiver re-validates".
BuildConfig ==
  /\ startup = "flags" /\ startup' = "config"
  /\ \E f \in Flags : secCfg' = Normalized(Build(block, f))
  /\ UNCHANGED <<block, listening>>

\* runApp builds the authenticator of the dashboard when a method is
\* configured, and ends with its error.
NewAuthenticator ==
  /\ startup = "config"
  /\ IF MethodsConfigured(secCfg)
     THEN /\ secCfg' = Normalized(secCfg)
          /\ startup' = IF Valid(secCfg') THEN "ready" ELSE "refused"
     ELSE startup' = "ready" /\ UNCHANGED secCfg
  /\ UNCHANGED <<block, listening>>

NewReceiver ==
  /\ startup = "ready"
  /\ secCfg' = Normalized(secCfg)
  /\ startup' = IF Valid(secCfg') THEN "created" ELSE "off"
  /\ UNCHANGED <<block, listening>>

\* validateListenSurface; an address without a host passes.
SurfaceAllowed(c) ==
  \/ MethodsConfigured(c) \/ c.observeOnly
  \/ \A addr \in {c.grpc, c.http} : addr \notin {"network", "malformed"}

\* Start: the addresses, then the key pair and the CA, which may not load.
CheckSurface ==
  /\ startup = "created"
  /\ \/ SurfaceAllowed(secCfg) /\ startup' = "grpc"
     \/ ~SurfaceAllowed(secCfg) /\ startup' = "off"
     \/ secCfg.tls # Off /\ startup' = "off"
  /\ UNCHANGED <<block, secCfg, listening>>

\* The surfaces, one after the other.
Surfaces == <<"grpc", "http", "unix">>
NextSurface(s) == IF s = "grpc" THEN "http" ELSE IF s = "http" THEN "unix" ELSE "scheduler"

Listen ==
  /\ startup \in {"grpc", "http", "unix"}
  /\ secCfg[startup] \notin {"", "malformed"}
  /\ listening' = listening \union {startup}
  /\ startup' = NextSurface(startup)
  /\ UNCHANGED <<block, secCfg>>

SkipSurface ==
  /\ startup \in {"grpc", "http", "unix"} /\ secCfg[startup] = ""
  /\ startup' = NextSurface(startup)
  /\ UNCHANGED <<block, secCfg, listening>>

\* The address is taken, or none: closeAll.
ListenFails ==
  /\ startup \in {"grpc", "http", "unix"} /\ secCfg[startup] # ""
  /\ startup' = "off" /\ listening' = {}
  /\ UNCHANGED <<block, secCfg>>

StartScheduler ==
  /\ startup = "scheduler" /\ startup' = "serving"
  /\ UNCHANGED <<block, secCfg, listening>>

\* Stop shuts the servers down, and with them their listeners.
StopReceiver ==
  /\ startup = "serving" /\ startup' = "stopped" /\ listening' = {}
  /\ UNCHANGED <<block, secCfg>>

StartupInit ==
  /\ block \in Blocks /\ secCfg = block
  /\ startup = "flags" /\ listening = {}

StartupNext ==
  \/ BuildConfig \/ NewAuthenticator \/ NewReceiver \/ CheckSurface
  \/ Listen \/ SkipSurface \/ ListenFails \/ StartScheduler \/ StopReceiver

StartupSpec == StartupInit /\ [][StartupNext]_startupVars

-----------------------------------------------------------------------------
(* Properties. *)

Capped(f, n) == IF f = "MaxMessageBytes" /\ n > HardMaxMessageBytes THEN HardMaxMessageBytes ELSE n

\* What the operator meant: the tenant's own limit, else the general one,
\* else the default.
Meant(tenant, f) ==
  LET general == IF block.quota[f] = 0 THEN DefaultQuota[f] ELSE block.quota[f]
      own == IF tenant \in DOMAIN block.overrides THEN block.overrides[tenant][f] ELSE 0
  IN  Capped(f, IF own = 0 THEN general ELSE own)

\* A quota that was completed several times is still the operator's: no
\* Normalize takes the result of an earlier one for something configured.
QuotasAsMeant ==
  startup # "flags" =>
    \A t \in DOMAIN block.overrides \union {AnyTenant} : \A f \in DOMAIN DefaultQuota :
      QuotaFor(secCfg, t)[f] = Meant(t, f)

\* However starting ends, the open surfaces are all that are configured or
\* none; whatever is bound to a named network address asks for credentials,
\* or observes; and a client certificate that is required can be verified.
SurfacesGuarded ==
  /\ startup \in {"off", "refused", "stopped"} => listening = {}
  /\ startup = "serving" => listening = {s \in {"grpc", "http", "unix"} : secCfg[s] # ""}
  /\ \A s \in listening \ {"unix"} : secCfg[s] = "network" =>
       MethodsConfigured(secCfg) \/ secCfg.observeOnly
  /\ listening # {} /\ secCfg.tls # Off /\ secCfg.tls.require = "yes" => secCfg.tls.ca

\* The receiver is what its operator configured.
ConfiguredAsMeant == QuotasAsMeant /\ SurfacesGuarded
=============================================================================
