-------------------------------- MODULE MCServer --------------------------------
(* The server side for TLC: the quota limiter, the OTLP sink, the engine with  *)
(* its API, the engine with the WebSocket hub, authentication, and the start   *)
(* of the receiver.  These share no state but the engine, so a behaviour moves *)
(* one of them, its part, and leaves the others where they began.              *)
EXTENDS Limiter, OtlpSink, Hub, Auth, Startup, TLC

CONSTANTS g1, g2, t1, k1, k2, k3, good, poison

VARIABLE part

engineParts == <<engineVars, hubVars>>
otherThanStartup == <<part, limiterVars, sinkSystemVars, engineParts, authVars>>
serverVars  == <<otherThanStartup, startupVars>>

-----------------------------------------------------------------------------
(* admission: two goroutines of one tenant that race for its creation, and  *)
(* exports that between them meet every check.                              *)
MCTenantOf == [r \in Requests |-> t1]
MCReasons  == {"message_size", "request_rate", "log_rate", "series_cardinality"}

Export(tooBig, n, keys) == [tooBig |-> tooBig, logs |-> n, keys |-> keys]

MCBatches ==
  {Export(TRUE, 1, {}), Export(FALSE, 2, {k1, k2}), Export(FALSE, 0, {k3})}

(* sink: two exports of one tenant; poison has a record over the budget. *)
MCContent == (good :> <<1, 2>>) @@ (poison :> <<3, 9>>)
MCSize    == (1 :> 1) @@ (2 :> 2) @@ (3 :> 1) @@ (9 :> 9)
MCService == (1 :> "api") @@ (2 :> "db") @@ (3 :> "web") @@ (9 :> "db")

(* engine and web: two tenants, entries on both sides of every cutoff, more *)
(* patterns than are kept or listed, an entry no miner and no heatmap has.  *)
E1 == [tenant |-> "a", severity |-> "ERROR", body |-> "x", second |-> 600,
       attrs |-> ("service" :> "s")]
E2 == [tenant |-> "a", severity |-> "INFO", body |-> "y", second |-> 0,
       attrs |-> ("host" :> "x" @@ "env" :> "p")]
E3 == [tenant |-> "b", severity |-> "CRITICAL", body |-> Blank, second |-> 601,
       attrs |-> ("k8s.namespace" :> "n" @@ "k8s.pod" :> "s")]
E4 == [E1 EXCEPT !.body = "z"]
MCEntries == {E1, E2, E3, E4}

Plain == [start |-> Unset, end |-> Unset, severity |-> Unset, search |-> Unset, only |-> <<>>,
          limit |-> Unset, groupBy |-> "service"]
MCFilters ==
  {Plain,
   [Plain EXCEPT !.search = "x", !.only = ("service" :> {"s"}), !.limit = 2, !.groupBy = "environment"],
   [Plain EXCEPT !.start = 1, !.end = 600, !.limit = 1, !.groupBy = "severity"]}
MCCallers == {[tenant |-> "a", admin |-> FALSE], [tenant |-> "b", admin |-> TRUE]}

(* auth: an issuer that adds a key and then drops the old one, tokens of    *)
(* every shape, and four configurations.                                    *)
Jwt(alg, kid, signer, valid, tenant) ==
  [alg |-> alg, kid |-> kid, signer |-> signer, valid |-> valid, tenant |-> tenant, sub |-> "carol"]
MCJWT ==
     "jwt1"   :> Jwt("RS", "k1", "A", TRUE, "a")
  @@ "jwt2"   :> Jwt("RS", "k2", "B", TRUE, NoTenant)
  @@ "stale"  :> Jwt("RS", "k1", "A", FALSE, "a")
  @@ "forged" :> Jwt("RS", "k2", "A", TRUE, "a")
  @@ "shared" :> Jwt("HS", "", "S", TRUE, "b")
  @@ "bare"   :> Jwt("RS", "", "A", TRUE, "a")
  @@ "dotted" :> Jwt("none", "", "X", FALSE, NoTenant)
MCDocuments == <<"k1" :> "A", "k1" :> "A" @@ "k2" :> "B", "k2" :> "B">>

Brings(unix, loopback, tls, cert, bearer) ==
  [unix |-> unix, loopback |-> loopback, tls |-> tls, cert |-> cert, bearer |-> bearer]
Cert(path, id) == [valid |-> TRUE, domain |-> "d", path |-> path, id |-> id]
MCEvidence ==
  {Brings(FALSE, TRUE, FALSE, Nothing, b) : b \in DOMAIN MCJWT \cup {"api", "wrong", Nothing}} \cup
  {Brings(TRUE, FALSE, FALSE, Nothing, Nothing), Brings(FALSE, FALSE, TRUE, Nothing, "api"),
   Brings(FALSE, FALSE, TRUE, Cert("a", "id1"), Nothing),
   Brings(FALSE, FALSE, TRUE, Cert(NoTenant, "id2"), "jwt1")}

Base ==
  [tls |-> "off", oidc |-> TRUE,
   tokens |-> ("dotted" :> [tenant |-> "a", name |-> "n", admin |-> TRUE] @@
               "api" :> [tenant |-> "b", name |-> "m", admin |-> FALSE]),
   secrets |-> {"S"}, domains |-> {"d"}, pins |-> ("id1" :> "b"), default |-> NoTenant,
   admins |-> {"carol"}, observeOnly |-> FALSE]
MCSettings ==
  {Base, [Base EXCEPT !.oidc = FALSE, !.tokens = <<>>],
   [Base EXCEPT !.tls = "required", !.oidc = FALSE],
   [Base EXCEPT !.tls = "optional", !.observeOnly = TRUE, !.default = "a", !.tokens = <<>>]}

(* startup: blocks with and without credentials, limits and overrides, good *)
(* and bad ones, under flags that open the receiver to the network.         *)
MCQuota(message, entries) == [MaxMessageBytes |-> message, MaxBufferEntries |-> entries]
MCDefaultQuota == MCQuota(4, 5)
Token(name, secret, env) == [name |-> name, tenant |-> "a", secret |-> secret, env |-> env]
TLSBlock(ca, require) == [keypair |-> TRUE, ca |-> ca, require |-> require]
Bare ==
  [grpc |-> "", http |-> "", unix |-> "", tls |-> Off, oidc |-> Off, tokens |-> {},
   observeOnly |-> FALSE, quota |-> MCQuota(0, 7), overrides |-> ("a" :> MCQuota(20, 0))]
MCBlocks ==
  {Bare,
   [Bare EXCEPT !.grpc = "network", !.unix = "socket", !.quota = MCQuota(3, 0)],
   [Bare EXCEPT !.http = "malformed", !.tokens = {Token("n", "", "SECRET"), Token("m", "s", "")}],
   [Bare EXCEPT !.tokens = {Token("n", "", "UNSET")}],
   [Bare EXCEPT !.http = "any", !.tls = TLSBlock(TRUE, ""), !.quota = MCQuota(20, 0)],
   [Bare EXCEPT !.tls = TLSBlock(FALSE, "")],
   [Bare EXCEPT !.tls = TLSBlock(FALSE, "no"),
                !.oidc = [issuer |-> TRUE, audiences |-> TRUE, claim |-> ""]]}
MCFlags ==
  {[grpc |-> "", http |-> "", unix |-> "", observeOnly |-> FALSE],
   [grpc |-> "loopback", http |-> "network", unix |-> "", observeOnly |-> FALSE],
   [grpc |-> "network", http |-> "", unix |-> "socket", observeOnly |-> TRUE]}
MCEnvironment == "SECRET" :> "x"

-----------------------------------------------------------------------------
(* The two goroutines, or clients, of every part. *)
Symmetry == Permutations({g1, g2})

Init ==
  /\ part \in {"admission", "sink", "engine", "web", "auth", "startup"}
  /\ LimiterInit /\ SinkInit /\ EngineInit /\ HubInit
  /\ AuthInit
  /\ part # "auth" => config = Base
  /\ StartupInit /\ (part # "startup" => block = Bare)

AdmissionPart ==
  part = "admission" /\ LimiterNext
    /\ UNCHANGED <<part, sinkSystemVars, engineParts, authVars, startupVars>>

SinkPart ==
  part = "sink" /\ SinkNext
    /\ UNCHANGED <<part, limiterVars, engineParts, authVars, startupVars>>

(* Nobody reads an answer again, so nothing happens between it and the next     *)
(* request.                                                                     *)
Answered == \E g \in Readers : at[g] = "idle" /\ answer[g] # None

EnginePart ==
  /\ part = "engine"
  /\ IF Answered THEN \E g \in Readers : Ask(g) ELSE EngineNext
  /\ UNCHANGED <<part, hubVars, limiterVars, sinkSystemVars, authVars, startupVars>>

(* One goroutine at a time ingests two entries, one or two tenants': what the   *)
(* hub reads of the engine.                                                     *)
WebPart ==
  /\ part = "web"
  /\ \/ /\ Len(admitted) < 2
        /\ \A g \in Ingesters : at[g] = "idle"
        /\ \E g \in Ingesters : CallIngest(g) /\ task'[g] \in {E1, E3}
        /\ UNCHANGED hubVars
     \/ (\E g \in Ingesters : Insert(g) \/ Admit(g)) /\ UNCHANGED hubVars
     \/ HubStep /\ UNCHANGED engineVars
  /\ UNCHANGED <<part, limiterVars, sinkSystemVars, authVars, startupVars>>

AuthPart ==
  part = "auth" /\ AuthNext
    /\ UNCHANGED <<part, limiterVars, sinkSystemVars, engineParts, startupVars>>

StartupPart == part = "startup" /\ StartupNext /\ UNCHANGED otherThanStartup

Next == AdmissionPart \/ SinkPart \/ EnginePart \/ WebPart \/ AuthPart \/ StartupPart

ServerSpec == Init /\ [][Next]_serverVars
=============================================================================
