----------------------------- MODULE BillingSetup -----------------------------
(***************************************************************************)
(* How an issuer is set up at Billing, and back on the direct route:       *)
(* BillingIntegrationService for a company, PlatformBillingIntegration-    *)
(* Service for the platform, SunatConfigService for the certificate of the *)
(* direct route.  Provisioning is a walk of external calls, each followed  *)
(* by a write of what was answered; nothing keeps two walks apart.         *)
(* Billing and the file storage are external.                              *)
(***************************************************************************)
EXTENDS Naturals, FiniteSets

CONSTANTS
  Solicitudes,     \* concurrent requests
  Emisores,        \* whose set up is seen in this instance: "empresa", "plataforma"
  MaxPeticiones,   \* bound: requests started
  MaxFallas        \* bound: requests that fail halfway

ASSUME SetupAssumption ==
  Emisores \subseteq {"empresa", "plataforma"} /\ {MaxPeticiones, MaxFallas} \subseteq Nat

Ambientes == {"BETA", "PRODUCTION"}
Todo == {"sol", "certificado"}        \* what SUNAT asks for

VARIABLES
  emisor,      \* chosen once
  cfg,         \* its row: environment, status, whether it is on, and of each environment the
               \*   tenant its key is of, the secret of its webhook, its series, and what is
               \*   said to be configured
  ruc,         \* the tenant it is by its RUC
  enBilling,      \* external: of each environment the webhook's secret, the last number of the
               \*   series and what is configured; the secrets made
  serie,       \* the last number of the series here
  usados,      \* numbers issued by the direct route, and through Billing
  trabajos,    \* jobs of the direct route that are pending
  legado,      \* the certificate the direct route's row names
  archivos,    \* external: the certificates in the file storage
  hilo,        \* what each request is doing and what it read
  viejas,      \* history: what was done behind the back of something
  peticiones, fallas

direct == <<serie, usados, trabajos>>
files == <<legado, archivos>>
bounds == <<peticiones, fallas>>
setupVars == <<emisor, cfg, ruc, enBilling, direct, files, hilo, viejas, bounds>>

IntegracionRows ==
  [env : Ambientes, status : {"PENDING", "READY", "ERROR"}, enabled : BOOLEAN, ids : Nat,
   key : [Ambientes -> Nat], hook : [Ambientes -> Nat], series : SUBSET Ambientes,
   puestos : [Ambientes -> SUBSET Todo]]
Correlativos == Nat
SunatConfigRows == Nat                    \* the file, or 0
EstablecimientoRows ==
  [hechos : Nat, secreto : [Ambientes -> Nat], numero : [Ambientes -> Nat],
   puestos : [Ambientes -> SUBSET Todo]]
SetupTypeOK ==
  /\ cfg \in IntegracionRows /\ enBilling \in EstablecimientoRows
  /\ serie \in Correlativos /\ legado \in SunatConfigRows /\ trabajos \in Nat

SinPeticion == [task |-> "none", step |-> "idle", env |-> "BETA", n |-> 0, visto |-> {}]
Esta(t, step) == hilo[t].step = step
Goto(t, step, n) == hilo' = [hilo EXCEPT ![t].step = step, ![t].n = n]
Return(t) == hilo' = [hilo EXCEPT ![t] = SinPeticion]
Starts(t, task, step, env, n, visto) ==
  /\ hilo[t] = SinPeticion /\ peticiones < MaxPeticiones
  /\ peticiones' = peticiones + 1
  /\ hilo' = [hilo EXCEPT ![t] =
       [task |-> task, step |-> step, env |-> env, n |-> n, visto |-> visto]]
  /\ UNCHANGED <<emisor, fallas>>

Provisioned == cfg.ids # 0
ApiKey(env) == cfg.key[env]
OfCompany == emisor = "empresa"
OfPlatform == emisor = "plataforma"
Provisions(env) == {t \in Solicitudes : hilo[t].task = "provision" /\ hilo[t].env = env}

----------------------------------------
(* provision.  The company and its series are read once, at the start.     *)

Begins(t, env) ==
  /\ Starts(t, "provision", "ids", env, serie, {})
  /\ viejas' = IF Provisions(env) # {} THEN viejas \cup {"juntos"} ELSE viejas
  /\ UNCHANGED <<ruc, enBilling, direct, files>>

ProvisionBegin(t, env) ==
  /\ OfCompany /\ Begins(t, env)
  /\ cfg' = [cfg EXCEPT !.status = "PENDING", !.env = env]

\* A series that is made or changed sets up again the company that was set up.
SyncConfigured(t) == Provisioned /\ ProvisionBegin(t, cfg.env)

\* External: the tenant with this RUC is found, or made, and so is its application.
Tenant == ruc
SaveIds(t) ==
  /\ Esta(t, "ids")
  /\ cfg' = [cfg EXCEPT !.ids = Tenant]
  /\ Goto(t, "key", hilo[t].n)
  /\ UNCHANGED <<emisor, ruc, enBilling, direct, files, viejas, bounds>>

\* A key that is kept is used, whatever the tenant it was made for.
EnsureApiKey(t) ==
  /\ Esta(t, "key")
  /\ Goto(t, IF ApiKey(hilo[t].env) # 0 THEN "series" ELSE "keyMade", hilo[t].n)
  /\ UNCHANGED <<emisor, cfg, ruc, enBilling, direct, files, viejas, bounds>>

SaveApiKey(t) ==
  /\ Esta(t, "keyMade")
  /\ cfg' = [cfg EXCEPT !.key[hilo[t].env] = cfg.ids]
  /\ Goto(t, "series", hilo[t].n)
  /\ UNCHANGED <<emisor, ruc, enBilling, direct, files, viejas, bounds>>

\* External: the series is made at the number it has here, or brought up to it.
SeriesAsFound(remote, n) == IF remote = 0 THEN n ELSE remote
SeriesNumber(remote, n) == IF remote < n THEN n ELSE remote

Series(t, n) ==
  /\ Esta(t, "series")
  /\ enBilling' = [enBilling EXCEPT !.numero[hilo[t].env] = SeriesNumber(@, n)]
  /\ cfg' = [cfg EXCEPT !.series = @ \cup {hilo[t].env}]
  /\ Goto(t, "hook", 0)
  /\ viejas' = IF hilo[t].env = "PRODUCTION" /\ n = serie THEN viejas \ {"ahead"} ELSE viejas
  /\ UNCHANGED <<emisor, ruc, direct, files, bounds>>

EnsureFiscalSeries(t) == OfCompany /\ Series(t, hilo[t].n)

\* External: Billing shows a secret only when it makes one.
EnsureWebhook(t) ==
  /\ Esta(t, "hook")
  /\ enBilling' = [enBilling EXCEPT !.hechos = @ + 1, !.secreto[hilo[t].env] = enBilling.hechos + 1]
  /\ Goto(t, "secret", enBilling.hechos + 1)
  /\ UNCHANGED <<emisor, cfg, ruc, direct, files, viejas, bounds>>

SaveSecretAs(t, env) ==
  /\ Esta(t, "secret")
  /\ cfg' = [cfg EXCEPT !.hook[env] = hilo[t].n]
  /\ Goto(t, "ready", 0)
  /\ UNCHANGED <<emisor, ruc, enBilling, direct, files, viejas, bounds>>

SaveSecretOfRow(t) == SaveSecretAs(t, cfg.env)
SaveSecret(t) == SaveSecretAs(t, hilo[t].env)

Finishes(t, env) ==
  /\ Esta(t, "ready")
  /\ cfg' = [cfg EXCEPT !.status = "READY", !.env = env]
  /\ Return(t)
  /\ UNCHANGED <<emisor, ruc, enBilling, direct, files, viejas, bounds>>

Ready(t) == OfCompany /\ Finishes(t, hilo[t].env)

\* Whatever is thrown on the way.
WalkFails(t) ==
  /\ hilo[t].task = "provision"
  /\ fallas < MaxFallas /\ fallas' = fallas + 1
  /\ cfg' = [cfg EXCEPT !.status = "ERROR"]
  /\ Return(t)
  /\ UNCHANGED <<emisor, ruc, enBilling, direct, files, viejas, peticiones>>

ProvisionFailed(t) == OfCompany /\ WalkFails(t)

----------------------------------------
(* The platform's own copy of the walk: its environment is a setting that  *)
(* provisioning does not touch, and its series are read when they are due. *)

PlatformProvision(t, env) ==
  /\ OfPlatform /\ Begins(t, env)
  /\ cfg' = [cfg EXCEPT !.status = "PENDING"]

\* A series of the platform that is made or changed sets it up again, too.
PlatformSync(t) == Provisioned /\ PlatformProvision(t, cfg.env)

\* External: its tenant, its application and its one establishment are found, or made.
PlatformIds(t) == OfPlatform /\ SaveIds(t)
PlatformApiKey(t) == OfPlatform /\ (EnsureApiKey(t) \/ SaveApiKey(t))
PlatformSeries(t) == OfPlatform /\ Series(t, serie)
PlatformWebhook(t) == OfPlatform /\ (EnsureWebhook(t) \/ SaveSecret(t))
PlatformReady(t) == OfPlatform /\ Finishes(t, cfg.env)
PlatformFailed(t) == OfPlatform /\ WalkFails(t)

----------------------------------------
(* What SUNAT asks for is put at Billing, then noted; likewise taken away. *)

Put(t, que, env) ==
  /\ Provisioned
  /\ Starts(t, que, "noting", env, 0, {})
  /\ enBilling' = [enBilling EXCEPT !.puestos[env] = @ \cup {que}]
  /\ UNCHANGED <<cfg, ruc, direct, files, viejas>>

UpdateCredentials(t, env) == OfCompany /\ Put(t, "sol", env)
UploadCertificate(t, env) == OfCompany /\ Put(t, "certificado", env)
PlatformCredentials(t, env) == OfPlatform /\ Put(t, "sol", env)
PlatformCertificate(t, env) == OfPlatform /\ Put(t, "certificado", env)

NotePut(t) ==
  /\ Esta(t, "noting")
  /\ cfg' = [cfg EXCEPT !.puestos[hilo[t].env] = @ \cup {hilo[t].task}]
  /\ Return(t)
  /\ UNCHANGED <<emisor, ruc, enBilling, direct, files, viejas, bounds>>

TakeAway(t, env) ==
  /\ Provisioned
  /\ Starts(t, "quita", "taking", env, 0, {})
  /\ enBilling' = [enBilling EXCEPT !.puestos[env] = @ \ {"certificado"}]
  /\ viejas' = viejas \cup {"quita"}
  /\ UNCHANGED <<cfg, ruc, direct, files>>

DeleteCertificate(t, env) == OfCompany /\ TakeAway(t, env)
PlatformDeleteCertificate(t, env) == OfPlatform /\ TakeAway(t, env)

NoteTaken(t) ==
  /\ Esta(t, "taking")
  /\ cfg' = [cfg EXCEPT !.puestos[hilo[t].env] = @ \ {"certificado"}]
  /\ Return(t)
  /\ UNCHANGED <<emisor, ruc, enBilling, direct, files, viejas, bounds>>

----------------------------------------
(* setEnabled.                                                             *)

EnableIf(t, env, step) ==
  /\ Provisioned
  /\ cfg.status = "READY" /\ cfg.puestos[env] = Todo
  /\ Starts(t, "activa", step, cfg.env, 0, {})
  /\ UNCHANGED <<cfg, ruc, enBilling, direct, files, viejas>>

Enable(t) == OfCompany /\ EnableIf(t, cfg.env, "jobs")
PlatformEnable(t) == OfPlatform /\ EnableIf(t, cfg.env, "turning")

CountJobs(t) ==
  /\ Esta(t, "jobs")
  /\ IF trabajos = 0 THEN Goto(t, "turning", 0) ELSE Return(t)
  /\ UNCHANGED <<emisor, cfg, ruc, enBilling, direct, files, viejas, bounds>>

TurnOn(t) ==
  /\ Esta(t, "turning")
  /\ cfg' = [cfg EXCEPT !.enabled = TRUE]
  /\ viejas' = IF cfg.env # hilo[t].env \/ cfg.status # "READY"
                 THEN viejas \cup {"activa"} ELSE viejas
  /\ Return(t)
  /\ UNCHANGED <<emisor, ruc, enBilling, direct, files, bounds>>

Disable(t) ==
  /\ cfg.enabled /\ peticiones < MaxPeticiones /\ peticiones' = peticiones + 1
  /\ hilo[t] = SinPeticion
  /\ cfg' = [cfg EXCEPT !.enabled = FALSE]
  /\ UNCHANGED <<emisor, ruc, enBilling, direct, files, hilo, viejas, fallas>>

----------------------------------------
(* Changes elsewhere: the RUC of the company, the platform's environment.  *)

ChangeRuc ==
  /\ OfCompany /\ "ruc" \notin viejas
  /\ peticiones < MaxPeticiones /\ peticiones' = peticiones + 1
  /\ ruc' = 2
  /\ viejas' = viejas \cup {"ruc"}
  /\ UNCHANGED <<emisor, cfg, enBilling, direct, files, hilo, fallas>>

UpdateCompany == ChangeRuc     \* by the company
UpdateFiscal == ChangeRuc      \* by the platform

UpdateIssuerConfig ==
  /\ OfPlatform
  /\ peticiones < MaxPeticiones /\ peticiones' = peticiones + 1
  /\ \E env \in Ambientes \ {cfg.env} : cfg' = [cfg EXCEPT !.env = env]
  /\ UNCHANGED <<emisor, ruc, enBilling, direct, files, hilo, viejas, fallas>>

----------------------------------------
(* Documents of a company.  The route is read before the transaction that  *)
(* takes the number here; through Billing the number is Billing's, and is  *)
(* noted.  Only those of production count: BETA issues to nobody.          *)

DirectSale(t) ==
  /\ OfCompany /\ ~cfg.enabled
  /\ Starts(t, "directo", "numbering", "BETA", 0, {})
  /\ UNCHANGED <<cfg, ruc, enBilling, direct, files, viejas>>

\* ahead: Billing was not told this number, and is told only if it is provisioned again.
TakeNumber(t) ==
  /\ Esta(t, "numbering")
  /\ serie' = serie + 1
  /\ usados' = [usados EXCEPT !.directo = @ \cup {serie + 1}]
  /\ trabajos' = trabajos + 1
  /\ viejas' = viejas \cup {"ahead"}
  /\ Return(t)
  /\ UNCHANGED <<emisor, cfg, ruc, enBilling, files, bounds>>

JobDone ==
  /\ trabajos > 0 /\ trabajos' = trabajos - 1
  /\ UNCHANGED <<emisor, cfg, ruc, enBilling, serie, usados, files, hilo, viejas, bounds>>

BillingContext == cfg.enabled /\ cfg.status = "READY"
SalePrerequisites(env) == cfg.status = "READY" /\ ApiKey(env) # 0 /\ env \in cfg.series

BillingSale(t) ==
  /\ OfCompany /\ cfg.env = "PRODUCTION"
  /\ BillingContext /\ SalePrerequisites(cfg.env)
  /\ Starts(t, "billing", "posting", cfg.env, 0, {})
  /\ UNCHANGED <<cfg, ruc, enBilling, direct, files, viejas>>

\* External: the document gets the next number of the series.
PostSale(t) ==
  /\ Esta(t, "posting")
  /\ enBilling' = [enBilling EXCEPT !.numero["PRODUCTION"] = @ + 1]
  /\ usados' = [usados EXCEPT !.billing = @ \cup {enBilling'.numero["PRODUCTION"]}]
  /\ Goto(t, "noteNumber", enBilling'.numero["PRODUCTION"])
  /\ UNCHANGED <<emisor, cfg, ruc, serie, trabajos, files, viejas, bounds>>

NoteNumber(t) ==
  /\ Esta(t, "noteNumber")
  /\ serie' = IF serie < hilo[t].n THEN hilo[t].n ELSE serie
  /\ Return(t)
  /\ UNCHANGED <<emisor, cfg, ruc, enBilling, usados, trabajos, files, viejas, bounds>>

----------------------------------------
(* The certificate of the direct route: a file, and the row that names it. *)

NewFile == Cardinality(archivos.hechos) + 1

UploadFile(t) ==
  /\ Starts(t, "sube", "naming", "BETA", NewFile, {legado})
  /\ archivos' = [hechos |-> archivos.hechos \cup {NewFile}, hay |-> archivos.hay \cup {NewFile}]
  /\ UNCHANGED <<cfg, ruc, enBilling, direct, legado, viejas>>

NameFile(t) ==
  /\ Esta(t, "naming")
  /\ legado' = hilo[t].n
  /\ Goto(t, "cleaning", hilo[t].n)
  /\ UNCHANGED <<emisor, cfg, ruc, enBilling, direct, archivos, viejas, bounds>>

\* The row was not written, or it was and the old file could not be deleted: the new one is
\* taken away again, if that does not fail too, and in the second case the row still names it.
NameFailed(t) ==
  /\ Esta(t, "naming") \/ Esta(t, "cleaning")
  /\ fallas < MaxFallas /\ fallas' = fallas + 1
  /\ \E borrado \in {{}, {hilo[t].n}} : archivos' = [archivos EXCEPT !.hay = @ \ borrado]
  /\ Return(t)
  /\ UNCHANGED <<emisor, cfg, ruc, enBilling, direct, legado, viejas, peticiones>>

CleanFile(t) ==
  /\ Esta(t, "cleaning")
  /\ archivos' = [archivos EXCEPT !.hay = @ \ hilo[t].visto]
  /\ Return(t)
  /\ UNCHANGED <<emisor, cfg, ruc, enBilling, direct, legado, viejas, bounds>>

DeleteFile(t) ==
  /\ OfCompany
  /\ Starts(t, "borra", "clearing", "BETA", 0, {legado})
  /\ archivos' = [archivos EXCEPT !.hay = @ \ {legado}]
  /\ UNCHANGED <<cfg, ruc, enBilling, direct, legado, viejas>>

ClearName(t) ==
  /\ Esta(t, "clearing")
  /\ legado' = 0
  /\ Return(t)
  /\ UNCHANGED <<emisor, cfg, ruc, enBilling, direct, archivos, viejas, bounds>>

----------------------------------------

\* An issuer that issued one document by the direct route, and may be set up already.
Listo(listo, value, empty) == [a \in Ambientes |-> IF a \in listo THEN value ELSE empty]
SetupInit ==
  /\ emisor \in Emisores
  /\ \E listo \in {{}, {"BETA"}, Ambientes} :
       /\ cfg = [env |-> IF listo = Ambientes THEN "PRODUCTION" ELSE "BETA",
                 status |-> IF listo = {} THEN "PENDING" ELSE "READY", enabled |-> FALSE,
                 ids |-> IF listo = {} THEN 0 ELSE 1, key |-> Listo(listo, 1, 0),
                 hook |-> Listo(listo, 1, 0), series |-> listo,
                 puestos |-> Listo(listo, Todo, {})]
       /\ enBilling = [hechos |-> 1, secreto |-> cfg.hook, numero |-> Listo(listo, 1, 0),
                    puestos |-> cfg.puestos]
  /\ ruc = 1
  /\ serie \in 1..2      \* the direct route may have issued since Billing was told
  /\ usados = [directo |-> 1..serie, billing |-> {}] /\ trabajos = 0
  /\ legado = 0 /\ archivos = [hechos |-> {}, hay |-> {}]
  /\ hilo = [t \in Solicitudes |-> SinPeticion]
  /\ viejas = IF serie = 1 THEN {} ELSE {"ahead"}
  /\ peticiones = 0 /\ fallas = 0

Provision(t) ==
  \/ \E env \in Ambientes : ProvisionBegin(t, env) \/ PlatformProvision(t, env)
  \/ SyncConfigured(t) \/ PlatformSync(t) \/ PlatformIds(t)
  \/ OfCompany /\ (SaveIds(t) \/ EnsureApiKey(t) \/ SaveApiKey(t) \/ EnsureWebhook(t) \/ SaveSecret(t))
  \/ EnsureFiscalSeries(t) \/ Ready(t) \/ ProvisionFailed(t) \/ PlatformFailed(t)
  \/ PlatformApiKey(t) \/ PlatformSeries(t) \/ PlatformWebhook(t) \/ PlatformReady(t)

Configure(t) ==
  \/ \E env \in Ambientes :
       \/ UpdateCredentials(t, env) \/ UploadCertificate(t, env) \/ DeleteCertificate(t, env)
       \/ PlatformCredentials(t, env) \/ PlatformCertificate(t, env)
       \/ PlatformDeleteCertificate(t, env)
  \/ NotePut(t) \/ NoteTaken(t)
  \/ Enable(t) \/ PlatformEnable(t) \/ CountJobs(t) \/ TurnOn(t) \/ Disable(t)

Documents(t) ==
  \/ DirectSale(t) \/ TakeNumber(t) \/ BillingSale(t) \/ PostSale(t) \/ NoteNumber(t)

Files(t) ==
  \/ UploadFile(t) \/ NameFile(t) \/ NameFailed(t) \/ CleanFile(t)
  \/ DeleteFile(t) \/ ClearName(t)

SetupNext ==
  \/ \E t \in Solicitudes : Provision(t) \/ Configure(t) \/ Documents(t) \/ Files(t)
  \/ UpdateCompany \/ UpdateFiscal \/ UpdateIssuerConfig \/ JobDone
SetupSpec == SetupInit /\ [][SetupNext]_setupVars

----------------------------------------

\* A company that is READY has, in the environment it issues in, a key of its own tenant, a
\* webhook and its series, however many set it up at once, unless its RUC changed since.  (Of
\* the platform READY says nothing: it is not of the environment the platform issues in.)
ReadyIsProvisioned ==
  emisor = "empresa" /\ cfg.status = "READY" /\ "ruc" \notin viejas
    => /\ cfg.key[cfg.env] = cfg.ids /\ cfg.ids = ruc
       /\ cfg.hook[cfg.env] # 0 /\ cfg.env \in cfg.series

\* A number is issued by one route only, unless the direct route took it after Billing was
\* last told where the series stands, or before a document of Billing was noted.
NumbersIssuedOnce ==
  [][/\ (usados'.billing \ usados.billing) \cap usados.directo # {} => "ahead" \in viejas
     /\ (usados'.directo \ usados.directo) \cap usados.billing # {}
          => \E t \in Solicitudes : Esta(t, "noteNumber")]_setupVars

\* When nobody is setting it up, the secret kept for an environment is the one Billing signs
\* with, unless two set it up at once or one did not get to the end.
SecretIsCurrent ==
  (\A t \in Solicitudes : hilo[t].task # "provision") /\ "juntos" \notin viejas /\ fallas = 0
    => \A env \in Ambientes : cfg.hook[env] = enBilling.secreto[env]

\* What is kept of Billing here is what Billing has.
SetupIsCurrent == ReadyIsProvisioned /\ SecretIsCurrent
=============================================================================
